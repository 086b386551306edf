------------------------------ MODULE L1Pricing ------------------------------
(***************************************************************************)
(* L1 pricing and the batch poster table of ArbOS (arbos, l1_pricing).     *)
(* Transactions pay for their share of the L1 data into a pool account;    *)
(* reports of what a poster spent on L1 are settled from that pool and     *)
(* move the price of a unit towards a balanced pool.                       *)
(*                                                                         *)
(* l1FeesAvailable is the book value of the pool, pool its balance.  Wei   *)
(* (256 bits in the code) is unbounded here; units are 64 bits and the     *)
(* product that allocates them saturates at MaxU64.  Which address a       *)
(* poster has chosen to be paid at is left out.                            *)
(***************************************************************************)
EXTENDS Integers, FiniteSets, FiniteSetsExt, Functions

CONSTANTS Poster, Sequencer,   \* the poster a new chain starts with
          TxUnits, TxFees,     \* what one transaction is charged for
          BatchGas, BaseFees,  \* what a report may say
          ParamSets,           \* the settings the chain owner chooses from
          MaxU64,
          MaxTime, MaxPool, MaxReports   \* bounds of the exploration

ASSUME PricingAssumption ==
    /\ Sequencer \in Poster
    /\ TxUnits \subseteq Nat /\ TxFees \subseteq Nat
    /\ BatchGas \subseteq Nat /\ BaseFees \subseteq Nat
    /\ ParamSets \subseteq [reward : Nat, capBips : Nat, equil : Nat,
                            inertia : Nat, perBatch : Int, floor : Nat]
    /\ MaxU64 \in Nat

VARIABLES v10,          \* ArbOS 10 is active
          params,       \* the record of the owner's settings
          now,          \* timestamp of the block being built
          posters,      \* addresses of the batch poster table
          fundsDue,     \* per poster
          totalFundsDue, fundsDueForRewards, l1FeesAvailable,
          unitsSinceUpdate, lastUpdateTime, pricePerUnit, lastSurplus,
          pool,         \* balance of the pool account
          accepted,     \* history: spending accepted, per poster
          paid,         \* history: wei that reached the poster
          rewards,      \* history: rewards granted
          rewardsPaid,  \* history: rewards that reached the recipient
          reports       \* number of reports settled

money == <<fundsDue, totalFundsDue, fundsDueForRewards, l1FeesAvailable, pool>>
history == <<accepted, paid, rewards, rewardsPaid, reports>>
prices == <<unitsSinceUpdate, lastUpdateTime, pricePerUnit, lastSurplus>>
vars == <<v10, params, now, posters, money, prices, history>>

Least(a, b) == IF a < b THEN a ELSE b
SatSub(a, b) == IF a < b THEN 0 ELSE a - b

Init == /\ v10 \in BOOLEAN /\ params \in ParamSets /\ now = 1
        /\ posters = {Sequencer}
        /\ fundsDue = [p \in Poster |-> 0] /\ totalFundsDue = 0
        /\ fundsDueForRewards = 0 /\ l1FeesAvailable = 0 /\ pool = 0
        /\ unitsSinceUpdate = 0 /\ lastUpdateTime = 0
        /\ pricePerUnit \in BaseFees /\ lastSurplus = <<0, TRUE>>
        /\ accepted = [p \in Poster |-> 0] /\ paid = [p \in Poster |-> 0]
        /\ rewards = 0 /\ rewardsPaid = 0 /\ reports = 0
-----------------------------------------------------------------------------
(* Signed numbers are pairs of a magnitude and "is positive".              *)

\* The quotient of a negative number is cut off towards zero.
MutSignedDiv(s, d) == IF d = 0 THEN <<0, TRUE>> ELSE <<s[1] \div d, s[2]>>

(* signed_div: rounds towards negative infinity.                           *)
SignedDiv(s, d) ==
    LET q == s[1] \div d
        r == s[1] % d
    IN IF d = 0 THEN <<0, TRUE>>
       ELSE IF s[2] THEN <<q, TRUE>>
       ELSE IF r = 0 THEN <<q, q = 0>>
       ELSE <<q + 1, FALSE>>

SignedAdd(a, b) ==
    IF a[2] = b[2] THEN <<a[1] + b[1], a[2]>>
    ELSE IF a[1] >= b[1] THEN <<a[1] - b[1], a[2]>>
    ELSE <<b[1] - a[1], b[2]>>

SignedSub(a, b) == SignedAdd(a, <<b[1], ~b[2]>>)

(* The surplus of the pool over what is due.                               *)
Surplus(fees, need) == IF fees >= need THEN <<fees - need, TRUE>>
                                       ELSE <<need - fees, FALSE>>

\* A price below zero is possible.
MutPriceAfter(step) == IF step[2] THEN pricePerUnit + step[1] ELSE pricePerUnit - step[1]

PriceAfter(step) == IF step[2] THEN pricePerUnit + step[1] ELSE SatSub(pricePerUnit, step[1])

(* The price after a report that was allocated units > 0 units and left    *)
(* the given surplus.                                                      *)
NewPrice(units, surplus) ==
    LET inertiaUnits == IF params.inertia = 0 THEN 0 ELSE params.equil \div params.inertia
        desired == SignedDiv(<<surplus[1], ~surplus[2]>>, params.equil)
        actual == SignedDiv(SignedSub(surplus, lastSurplus), units)
        change == SignedSub(desired, actual)
        step == SignedDiv(<<change[1] * units, change[2]>>, inertiaUnits + units)
    IN PriceAfter(step)
-----------------------------------------------------------------------------
\* The amount owed before is not taken out of the total.
MutTotalAfter(total, prev, value) == total + value

(* set_funds_due keeps the total beside the poster's own amount.           *)
TotalAfter(total, prev, value) == SatSub(total + value, prev)

(* The first report counts from the second before it.                      *)
LastTime(t) == IF lastUpdateTime = 0 /\ t > 0 THEN t - 1 ELSE lastUpdateTime

ValidTime(t) == t <= now /\ t >= LastTime(t)

Allocated(t) ==
    LET last == LastTime(t)
    IN IF now = last THEN unitsSinceUpdate
       ELSE Least(unitsSinceUpdate * (t - last), MaxU64) \div (now - last)

(* The amortized cost cap, from ArbOS 3 on.                                *)
Capped(wei, basefee, units) ==
    IF params.capBips = 0 THEN wei
    ELSE Least(wei, (basefee * units * params.capBips) \div 10000)

(* transfer_fn on the pool: an insufficient balance is an error, which the *)
(* caller drops.                                                           *)
Moved(balance, amount) == IF balance >= amount THEN amount ELSE 0

\* The book value is not lowered by what the poster is paid.
MutSettle(p, t, wei, basefee) ==
    LET units == Allocated(t)
        spent == Capped(wei, basefee, units)
        due == fundsDue[p] + spent
        reward == units * params.reward
        forRewards == Least(reward, l1FeesAvailable)
        fees == l1FeesAvailable - forRewards
        transfer == Least(due, fees)
    IN /\ unitsSinceUpdate' = unitsSinceUpdate - units
       /\ fundsDue' = [fundsDue EXCEPT ![p] = due - transfer]
       /\ totalFundsDue' = TotalAfter(TotalAfter(totalFundsDue, fundsDue[p], due), due, due - transfer)
       /\ fundsDueForRewards' = fundsDueForRewards + reward - forRewards
       /\ l1FeesAvailable' = fees
       /\ pool' = pool - Moved(pool, forRewards)
                       - Moved(pool - Moved(pool, forRewards), transfer)
       /\ paid' = [paid EXCEPT ![p] = @ + Moved(pool - Moved(pool, forRewards), transfer)]
       /\ rewards' = rewards + reward
       /\ rewardsPaid' = rewardsPaid + Moved(pool, forRewards)
       /\ accepted' = [accepted EXCEPT ![p] = @ + spent]
       /\ UNCHANGED <<pricePerUnit, lastSurplus>>

(* The accepted part of update_for_batch_poster_spending: what the poster  *)
(* spent becomes due, rewards and poster are paid as far as the book value *)
(* reaches, and the price follows the surplus that is left.                *)
Settle(p, t, wei, basefee) ==
    LET units == Allocated(t)
        spent == Capped(wei, basefee, units)
        due == fundsDue[p] + spent
        reward == units * params.reward
        forRewards == Least(reward, l1FeesAvailable)
        fees == l1FeesAvailable - forRewards
        movedRewards == Moved(pool, forRewards)
        transfer == Least(due, fees)
        moved == Moved(pool - movedRewards, transfer)
        total == TotalAfter(TotalAfter(totalFundsDue, fundsDue[p], due),
                            due, due - transfer)
        rewardsDue == SatSub(fundsDueForRewards + reward, forRewards)
        surplus == Surplus(fees - transfer, total + rewardsDue)
    IN /\ unitsSinceUpdate' = unitsSinceUpdate - units
       /\ fundsDue' = [fundsDue EXCEPT ![p] = due - transfer]
       /\ totalFundsDue' = total
       /\ fundsDueForRewards' = rewardsDue
       /\ l1FeesAvailable' = fees - transfer
       /\ pool' = pool - movedRewards - moved
       /\ pricePerUnit' = IF units > 0 THEN NewPrice(units, surplus) ELSE pricePerUnit
       /\ lastSurplus' = IF units > 0 THEN surplus ELSE lastSurplus
       /\ accepted' = [accepted EXCEPT ![p] = @ + spent]
       /\ paid' = [paid EXCEPT ![p] = @ + moved]
       /\ rewards' = rewards + reward
       /\ rewardsPaid' = rewardsPaid + movedRewards

(* update_for_batch_poster_spending.  An unknown poster is entered in the  *)
(* table before the time of the report is looked at.  Nothing happens      *)
(* before ArbOS 10.                                                        *)
UpdateForBatchPosterSpending(p, t, wei, basefee) ==
    /\ v10
    /\ posters' = posters \cup {p}
    /\ \/ /\ ValidTime(t) /\ reports < MaxReports
          /\ Settle(p, t, wei, basefee)
          /\ lastUpdateTime' = t
          /\ reports' = reports + 1
       \/ /\ ~ValidTime(t)
          /\ UNCHANGED <<money, prices, history>>
    /\ UNCHANGED <<v10, params, now>>

(* The two forms of the report: the second keeps a negative charge per     *)
(* batch out, and has a floor from ArbOS 50 on.                            *)
BatchPostingReport(p, t, gas, basefee) ==
    LET spent == params.perBatch + gas
    IN UpdateForBatchPosterSpending(p, t, basefee * (IF spent < 0 THEN 0 ELSE spent), basefee)

BatchPostingReportV2(p, t, gas, basefee) ==
    LET perBatch == IF params.perBatch < 0 THEN 0 ELSE params.perBatch
        spent == IF params.floor > gas + perBatch THEN params.floor ELSE gas + perBatch
    IN UpdateForBatchPosterSpending(p, t, basefee * spent, basefee)

(* The units of a transaction are counted before it runs.                  *)
Counted(units) == Least(unitsSinceUpdate + units, MaxU64)

(* Its poster fee enters the books from ArbOS 10 on.                       *)
Booked(fee) == IF v10 THEN l1FeesAvailable + fee ELSE l1FeesAvailable

(* A transaction, whose poster fee is minted to the pool after it has run. *)
(* A transaction that fails its checks takes its units out again.  Before  *)
(* ArbOS 2 the fee goes to the coinbase: for the pool it is zero.          *)
Charge(units, fee) ==
    /\ pool + fee <= MaxPool
    /\ unitsSinceUpdate' = Counted(units)
    /\ pool' = pool + fee
    /\ l1FeesAvailable' = Booked(fee)
    /\ UNCHANGED <<v10, params, now, posters, fundsDue, totalFundsDue, fundsDueForRewards,
                   lastUpdateTime, pricePerUnit, lastSurplus, history>>

(* Anyone may send value to the pool account.                              *)
Donate(fee) ==
    /\ pool + fee <= MaxPool
    /\ pool' = pool + fee
    /\ UNCHANGED <<v10, params, now, posters, fundsDue, totalFundsDue, fundsDueForRewards,
                   l1FeesAvailable, prices, history>>

\* The release is not limited to what the pool holds.
MutRelease(max) ==
    /\ l1FeesAvailable' = l1FeesAvailable + max
    /\ UNCHANGED <<v10, params, now, posters, fundsDue, totalFundsDue, fundsDueForRewards,
                   pool, prices, history>>

(* ArbOwner.releaseL1PricerSurplusFunds: at most max of what the pool      *)
(* holds beyond the books enters them.                                     *)
ReleaseL1PricerSurplusFunds(max) ==
    /\ v10 /\ pool > l1FeesAvailable
    /\ l1FeesAvailable' = l1FeesAvailable + Least(pool - l1FeesAvailable, max)
    /\ UNCHANGED <<v10, params, now, posters, fundsDue, totalFundsDue, fundsDueForRewards,
                   pool, prices, history>>

(* ArbAggregator.addBatchPoster by the chain owner.                        *)
AddBatchPoster(p) ==
    /\ p \notin posters
    /\ posters' = posters \cup {p}
    /\ fundsDue' = [fundsDue EXCEPT ![p] = 0]
    /\ UNCHANGED <<v10, params, now, totalFundsDue, fundsDueForRewards,
                   l1FeesAvailable, pool, prices, history>>

(* The ArbOwner setters of the L1 pricing parameters.                      *)
SetParams(s) ==
    /\ params' = s
    /\ UNCHANGED <<v10, now, posters, money, prices, history>>

SetPricePerUnit(price) ==
    /\ pricePerUnit' = price
    /\ UNCHANGED <<v10, params, now, posters, money,
                   unitsSinceUpdate, lastUpdateTime, lastSurplus, history>>

(* The upgrade to ArbOS 10 takes the balance of the pool into the books.   *)
UpgradeTo10 ==
    /\ ~v10
    /\ v10' = TRUE
    /\ l1FeesAvailable' = pool
    /\ UNCHANGED <<params, now, posters, fundsDue, totalFundsDue, fundsDueForRewards,
                   pool, prices, history>>

NextBlock ==
    /\ now < MaxTime
    /\ now' = now + 1
    /\ UNCHANGED <<v10, params, posters, money, prices, history>>

Next == \/ \E p \in Poster, t \in 0 .. MaxTime, g \in BatchGas, b \in BaseFees :
              BatchPostingReport(p, t, g, b) \/ BatchPostingReportV2(p, t, g, b)
        \/ \E u \in TxUnits, f \in TxFees : Charge(u, f)
        \/ \E f \in TxFees : Donate(f) \/ ReleaseL1PricerSurplusFunds(f)
        \/ \E p \in Poster : AddBatchPoster(p)
        \/ \E s \in ParamSets : SetParams(s)
        \/ \E b \in BaseFees : SetPricePerUnit(b)
        \/ UpgradeTo10
        \/ NextBlock

Spec == Init /\ [][Next]_vars
-----------------------------------------------------------------------------
(* The amounts are natural numbers, the surplus a signed one.              *)
TypeOK ==
    /\ v10 \in BOOLEAN /\ params \in ParamSets /\ now \in Nat /\ posters \subseteq Poster
    /\ fundsDue \in [Poster -> Nat] /\ totalFundsDue \in Nat /\ fundsDueForRewards \in Nat
    /\ l1FeesAvailable \in Nat /\ pool \in Nat
    /\ unitsSinceUpdate \in Nat /\ lastUpdateTime \in Nat /\ pricePerUnit \in Nat
    /\ lastSurplus \in Nat \X BOOLEAN
    /\ accepted \in [Poster -> Nat] /\ paid \in [Poster -> Nat]
    /\ rewards \in Nat /\ rewardsPaid \in Nat /\ reports \in Nat

(* The books never show more than the pool account holds, so that the      *)
(* transfers whose errors update_for_batch_poster_spending drops cannot    *)
(* fail.                                                                   *)
PoolBacked == v10 => l1FeesAvailable <= pool

(* Every wei accepted as spent by a poster was paid or is still due, and   *)
(* likewise the rewards: no payment is booked that did not take place, and *)
(* none takes place twice.                                                 *)
SpendingSettled == /\ \A p \in Poster : fundsDue[p] + paid[p] = accepted[p]
                   /\ fundsDueForRewards + rewardsPaid = rewards

(* The total kept beside the table is the sum of what is due to its        *)
(* posters, although set_funds_due updates it by differences and           *)
(* saturates.                                                              *)
TotalIsSum == totalFundsDue = FoldFunctionOnSet(LAMBDA x, y : x + y, 0, fundsDue, posters)

IntOf(s) == IF s[2] THEN s[1] ELSE -s[1]

FloorDiv(a, b) == IF b = 0 THEN 0 ELSE a \div b

(* A report that allocates units moves the price by the formula of the     *)
(* algorithm in integers, rounding down: the desired change of the surplus *)
(* per unit less the actual one, damped by the inertia, and never below    *)
(* zero.  The code computes it with magnitudes and signs.                  *)
PriceFollowsSurplus ==
    [][reports' # reports /\ unitsSinceUpdate' # unitsSinceUpdate =>
          LET units == unitsSinceUpdate - unitsSinceUpdate'
              surplus == l1FeesAvailable' - totalFundsDue' - fundsDueForRewards'
              desired == FloorDiv(-surplus, params.equil)
              actual == FloorDiv(surplus - IntOf(lastSurplus), units)
              change == FloorDiv((desired - actual) * units,
                                 units + FloorDiv(params.equil, params.inertia))
          IN pricePerUnit' = IF pricePerUnit + change < 0 THEN 0 ELSE pricePerUnit + change]_vars
=============================================================================

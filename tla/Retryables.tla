----------------------------- MODULE Retryables -----------------------------
(***************************************************************************)
(* Retryable tickets: their storage and timeout queue (arbos/retryables),  *)
(* the ArbRetryableTx precompile, and what the block executor does around  *)
(* them: the escrow of a ticket's call value, the journal of a running     *)
(* transaction, the scan of its RedeemScheduled logs, the sweep of a       *)
(* cancelled ticket's escrow, the retry transactions that are scheduled,   *)
(* and the reaping of expired tickets at the start of every block.         *)
(*                                                                         *)
(* A ticket is its id; calldata, addresses and gas are left out.  cancel   *)
(* is called by the beneficiary (any other caller changes nothing).        *)
(***************************************************************************)
EXTENDS Integers, Sequences, SequencesExt

CONSTANTS
  Ticket,        \* ids, the hashes of the submissions
  None,          \* no ticket
  CallValue,     \* the call value of each ticket
  Lifetime,      \* RETRYABLE_LIFETIME_SECONDS
  V60,           \* ArbOS 60 or later: lookups count the windows left
  Env,           \* which of the transactions below occur, see Allowed
  MaxTime, LastActivity,  \* bounds: on the clock, on submissions and keepalives
  MaxTries, MaxDepth      \* bounds: on redemptions of a ticket, on call frames

ASSUME RetryablesAssumption ==
  /\ None \notin Ticket
  /\ CallValue \in [Ticket -> Nat]
  /\ Lifetime \in Nat \ {0}
  /\ V60 \in BOOLEAN
  /\ Env \subseteq {"two_cancels", "cancel_reverts", "cancel_redeemed", "nested_redeem"}
  /\ {MaxTime, LastActivity, MaxTries, MaxDepth} \subseteq Nat

VARIABLES
  now,         \* timestamp of the block
  used,        \* ids that were submitted
  db,          \* the fields of every ticket, in committed state
  queue,       \* timeout_queue, in committed state
  escrow,      \* balance of every ticket's escrow address
  tx,          \* the running transaction: its kind, and current_retryable
  view,        \* tickets, queue and logs as the running transaction sees them
  frames,      \* what its open call frames return to when they revert
  sweep,       \* TxCtx.cancel_escrow_sweep
  scheduled,   \* TxProcessor.scheduled_txs
  batch        \* scheduled transactions the producer drained and has to run

vars == <<now, used, db, queue, escrow, tx, view, frames, sweep, scheduled, batch>>

-----------------------------------------------------------------------------
Cleared == [timeout |-> 0, windows |-> 0, tries |-> 0]

Idle == [kind |-> "none", current |-> None]

Live(tickets, t) == tickets[t].timeout # 0

\* calculate_timeout
Effective(r) == r.timeout + r.windows * Lifetime

\* open_retryable
Open(tickets, t) ==
  LET r == tickets[t] IN
  /\ r.timeout # 0
  /\ r.timeout < now => V60 /\ Effective(r) >= now

NoView == [tickets |-> [t \in Ticket |-> Cleared], queue |-> <<>>, logs |-> <<>>]

\* What a transaction sees when it starts.
Snapshot == [tickets |-> db, queue |-> queue, logs |-> <<>>]

\* Nothing runs and nothing is scheduled: the producer is between two
\* transactions of a message, or between two blocks.
Between == tx = Idle /\ batch = <<>> /\ scheduled = <<>>

Init ==
  /\ now = 1 /\ used = {} /\ db = [t \in Ticket |-> Cleared] /\ queue = <<>>
  /\ escrow = [t \in Ticket |-> 0]
  /\ tx = Idle /\ view = NoView /\ frames = <<>> /\ sweep = None
  /\ scheduled = <<>> /\ batch = <<>>

-----------------------------------------------------------------------------
\* The block's clock moves and StartBlock tries twice to reap a ticket.

MutDeleteKeepsTries(s, t) ==
  IF ~Live(s.tickets, t) THEN s
  ELSE [s EXCEPT !.tickets[t].timeout = 0, !.tickets[t].windows = 0, !.escrow[t] = 0]
DeleteRetryable(s, t) ==
  IF ~Live(s.tickets, t) THEN s
  ELSE [s EXCEPT !.tickets[t] = Cleared, !.escrow[t] = 0]

MutReapIgnoresWindows(s, time) ==
  IF s.queue = <<>> THEN s
  ELSE LET t    == Head(s.queue)
           r    == s.tickets[t]
           rest == [s EXCEPT !.queue = Tail(s.queue)]
       IN IF r.timeout = 0 THEN rest
          ELSE IF r.timeout >= time THEN s
          ELSE DeleteRetryable(rest, t)
MutReapNoLastWindow(s, time) ==
  IF s.queue = <<>> THEN s
  ELSE LET t    == Head(s.queue)
           r    == s.tickets[t]
           rest == [s EXCEPT !.queue = Tail(s.queue)]
       IN IF r.timeout = 0 THEN rest
          ELSE IF r.timeout >= time THEN s
          ELSE [rest EXCEPT !.tickets[t].timeout = r.timeout + Lifetime,
                            !.tickets[t].windows = r.windows - 1]
MutReapStuck(s, time) ==
  IF s.queue = <<>> THEN s
  ELSE LET t    == Head(s.queue)
           r    == s.tickets[t]
           rest == [s EXCEPT !.queue = Tail(s.queue)]
       IN IF r.timeout >= time \/ r.timeout = 0 THEN s
          ELSE IF r.windows = 0 THEN DeleteRetryable(rest, t)
          ELSE [rest EXCEPT !.tickets[t].timeout = r.timeout + Lifetime,
                            !.tickets[t].windows = r.windows - 1]
TryToReapOne(s, time) ==
  IF s.queue = <<>> THEN s
  ELSE LET t    == Head(s.queue)
           r    == s.tickets[t]
           rest == [s EXCEPT !.queue = Tail(s.queue)]
       IN IF r.timeout = 0 THEN rest
          ELSE IF r.timeout >= time THEN s
          ELSE IF r.windows = 0 THEN DeleteRetryable(rest, t)
          ELSE [rest EXCEPT !.tickets[t].timeout = r.timeout + Lifetime,
                            !.tickets[t].windows = r.windows - 1]

StartBlock(passed) ==
  /\ Between /\ now + passed <= MaxTime
  /\ now' = now + passed
  /\ LET s == [tickets |-> db, queue |-> queue, escrow |-> escrow]
         r == TryToReapOne(TryToReapOne(s, now'), now')
     IN db' = r.tickets /\ queue' = r.queue /\ escrow' = r.escrow
  /\ UNCHANGED <<used, tx, view, frames, sweep, scheduled, batch>>

-----------------------------------------------------------------------------
\* execute_submit_retryable, for a submission that escrows its call value: it
\* may be able to pay for gas, and then its first retry is scheduled.  A filtered
\* submission pays but schedules nothing, like one that cannot pay.
SubmitRetryable(t, redeems) ==
  /\ Between /\ t \notin used /\ now <= LastActivity
  /\ used' = used \cup {t}
  /\ escrow' = [escrow EXCEPT ![t] = @ + CallValue[t]]
  /\ db' = [db EXCEPT ![t] = [timeout |-> now + Lifetime, windows |-> 0,
                              tries |-> IF redeems THEN 1 ELSE 0]]
  /\ queue' = Append(queue, t)
  /\ scheduled' = IF redeems THEN <<[ticket |-> t, nonce |-> 0]>> ELSE <<>>
  /\ UNCHANGED <<now, tx, view, frames, sweep, batch>>

\* One whose call value cannot be moved into escrow gives its fees back.
SubmitUnfunded(t) ==
  /\ Between /\ t \notin used /\ now <= LastActivity
  /\ used' = used \cup {t}
  /\ UNCHANGED <<now, db, queue, escrow, tx, view, frames, sweep, scheduled, batch>>

-----------------------------------------------------------------------------
\* Transactions.  execute_transaction_without_commit clears what the previous
\* transaction scheduled and resets the scratch of the precompiles.

Begin(kind, t) ==
  /\ tx' = [kind |-> kind, current |-> t]
  /\ view' = Snapshot /\ frames' = <<>> /\ sweep' = None

StartUserTx ==
  /\ Between
  /\ Begin("user", None)
  /\ scheduled' = <<>>
  /\ UNCHANGED <<now, used, db, queue, escrow, batch>>

\* The producer takes all scheduled transactions at once.
MutDrainOne ==
  /\ tx = Idle /\ batch = <<>> /\ scheduled # <<>>
  /\ batch' = <<Head(scheduled)>> /\ scheduled' = <<>>
  /\ UNCHANGED <<now, used, db, queue, escrow, tx, view, frames, sweep>>
DrainScheduledTxs ==
  /\ tx = Idle /\ batch = <<>> /\ scheduled # <<>>
  /\ batch' = scheduled /\ scheduled' = <<>>
  /\ UNCHANGED <<now, used, db, queue, escrow, tx, view, frames, sweep>>

\* A retry transaction takes the call value out of escrow; it ends at once when
\* the ticket is gone or the escrow does not hold the value.
RetryOpens(t) == Open(db, t) /\ escrow[t] >= CallValue[t]

StartRetryTx ==
  /\ tx = Idle /\ batch # <<>>
  /\ LET t == Head(batch).ticket IN
     IF RetryOpens(t)
     THEN /\ escrow' = [escrow EXCEPT ![t] = @ - CallValue[t]]
          /\ Begin("retry", t)
     ELSE UNCHANGED <<escrow, tx, view, frames, sweep>>
  /\ batch' = Tail(batch)
  /\ scheduled' = <<>>
  /\ UNCHANGED <<now, used, db, queue>>

\* The pre-checks of the EVM reject it: the value goes back.
RetryRejected ==
  /\ tx.kind = "retry" /\ view = Snapshot /\ frames = <<>>
  /\ escrow' = [escrow EXCEPT ![tx.current] = @ + CallValue[tx.current]]
  /\ tx' = Idle /\ view' = NoView /\ sweep' = None
  /\ UNCHANGED <<now, used, db, queue, frames, scheduled, batch>>

-----------------------------------------------------------------------------
\* The precompile, on the view of the running transaction.

Running == tx # Idle

MutRedeemKeepsTries(t) ==
  [view EXCEPT !.logs = Append(@, [ticket |-> t, nonce |-> view.tickets[t].tries])]
Redeemed(t) ==
  [view EXCEPT !.tickets[t].tries = @ + 1,
               !.logs = Append(@, [ticket |-> t, nonce |-> view.tickets[t].tries])]

Redeem(t) ==
  /\ Running /\ t # tx.current /\ Open(view.tickets, t)
  /\ view.tickets[t].tries < MaxTries
  /\ tx.kind = "retry" /\ batch # <<>> => "nested_redeem" \in Env
  /\ view' = Redeemed(t)
  /\ UNCHANGED <<now, used, db, queue, escrow, tx, frames, sweep, scheduled, batch>>

MutKeptAliveNotQueued(t) == [view EXCEPT !.tickets[t].windows = @ + 1]
KeptAlive(t) ==
  [view EXCEPT !.queue = Append(@, t), !.tickets[t].windows = @ + 1]

Keepalive(t) ==
  /\ Running /\ Open(view.tickets, t) /\ now <= LastActivity
  /\ Effective(view.tickets[t]) <= now + Lifetime
  /\ view' = KeptAlive(t)
  /\ UNCHANGED <<now, used, db, queue, escrow, tx, frames, sweep, scheduled, batch>>

MutCancelNoSweep(t) == None
SweepOf(t) == t

Cancel(t) ==
  /\ Running /\ t # tx.current /\ Open(view.tickets, t)
  /\ sweep # None => "two_cancels" \in Env
  /\ (\E i \in DOMAIN view.logs : view.logs[i].ticket = t) => "cancel_redeemed" \in Env
  /\ view' = [view EXCEPT !.tickets[t] = Cleared]
  /\ sweep' = SweepOf(t)
  /\ UNCHANGED <<now, used, db, queue, escrow, tx, frames, scheduled, batch>>

\* Call frames, which revert with everything the journal holds.
EnterFrame ==
  /\ Running /\ Len(frames) < MaxDepth
  /\ frames' = Append(frames, view)
  /\ UNCHANGED <<now, used, db, queue, escrow, tx, view, sweep, scheduled, batch>>

LeaveFrame ==
  /\ Running /\ frames # <<>>
  /\ frames' = Front(frames)
  /\ UNCHANGED <<now, used, db, queue, escrow, tx, view, sweep, scheduled, batch>>

\* A revert that undoes a cancel is subject to the switch.
RevertFrame ==
  /\ Running /\ frames # <<>>
  /\ sweep # None /\ Live(Last(frames).tickets, sweep) => "cancel_reverts" \in Env
  /\ frames' = Front(frames) /\ view' = Last(frames)
  /\ UNCHANGED <<now, used, db, queue, escrow, tx, sweep, scheduled, batch>>

-----------------------------------------------------------------------------
\* The end of a transaction.

\* The scan of its logs, on the state before the commit: every RedeemScheduled
\* log of a ticket that is open there counts a try and schedules a retry.
ScanLog(s, log) ==
  IF Open(s.tickets, log.ticket)
  THEN [tickets   |-> [s.tickets EXCEPT ![log.ticket].tries = @ + 1],
        scheduled |-> Append(s.scheduled, log)]
  ELSE s

\* The commit writes the slots whose value the transaction changed.
Commit(scanned, seen) ==
  [t \in Ticket |->
     [timeout |-> seen[t].timeout, windows |-> seen[t].windows,
      tries |-> IF seen[t].tries # db[t].tries THEN seen[t].tries ELSE scanned[t].tries]]

\* The cancelled ticket's escrow goes to its beneficiary, whether the
\* transaction succeeded or not.
Swept == IF sweep = None THEN escrow ELSE [escrow EXCEPT ![sweep] = 0]

\* A successful retry deletes its ticket, a failed one returns the call value.
MutEndRetryForgets(s, success) ==
  IF tx.kind # "retry" THEN s
  ELSE IF success THEN DeleteRetryable(s, tx.current)
  ELSE s
EndRetry(s, success) ==
  IF tx.kind # "retry" THEN s
  ELSE IF success THEN DeleteRetryable(s, tx.current)
  ELSE [s EXCEPT !.escrow[tx.current] = @ + CallValue[tx.current]]

EndTx(success) ==
  /\ Running /\ frames = <<>>
  /\ ~success /\ sweep # None => "cancel_reverts" \in Env
  /\ LET seen    == IF success THEN view ELSE Snapshot
         scanned == FoldLeft(ScanLog, [tickets |-> db, scheduled |-> scheduled], seen.logs)
         s       == EndRetry([tickets |-> Commit(scanned.tickets, seen.tickets),
                              escrow |-> Swept], success)
     IN /\ db' = s.tickets /\ escrow' = s.escrow
        /\ queue' = seen.queue
        /\ scheduled' = scanned.scheduled
  /\ tx' = Idle /\ view' = NoView /\ sweep' = None
  /\ UNCHANGED <<now, used, frames, batch>>

-----------------------------------------------------------------------------
InTx ==
  \/ \E t \in Ticket : Redeem(t) \/ Keepalive(t) \/ Cancel(t)
  \/ EnterFrame \/ LeaveFrame \/ RevertFrame

Next ==
  \/ \E d \in 0..Lifetime : StartBlock(d)
  \/ \E t \in Ticket : SubmitUnfunded(t) \/ \E b \in BOOLEAN : SubmitRetryable(t, b)
  \/ StartUserTx \/ DrainScheduledTxs \/ StartRetryTx \/ RetryRejected
  \/ InTx
  \/ \E b \in BOOLEAN : EndTx(b)

\* The sequencer goes on: scheduled transactions are run, transactions end, and
\* blocks come with a clock that advances.
Fairness ==
  /\ WF_vars(DrainScheduledTxs) /\ WF_vars(StartRetryTx) /\ WF_vars(LeaveFrame)
  /\ SF_vars(\E b \in BOOLEAN : EndTx(b))
  /\ SF_vars(StartBlock(1)) /\ SF_vars(now = MaxTime /\ StartBlock(0))

Spec == Init /\ [][Next]_vars /\ Fairness

-----------------------------------------------------------------------------
TicketRec == [timeout : Nat, windows : Nat, tries : Nat]
RetryTx   == [ticket : Ticket, nonce : Nat]
View      == [tickets : [Ticket -> TicketRec], queue : Seq(Ticket), logs : Seq(RetryTx)]

\* Tickets, queue, journal and schedules hold what their storage slots and
\* vectors can hold, and no balance goes below zero.
TypeOK ==
  /\ now \in Nat /\ used \subseteq Ticket
  /\ db \in [Ticket -> TicketRec] /\ queue \in Seq(Ticket)
  /\ escrow \in [Ticket -> Nat]
  /\ tx \in [kind : {"none", "user", "retry"}, current : Ticket \cup {None}]
  /\ view \in View /\ frames \in Seq(View)
  /\ sweep \in Ticket \cup {None}
  /\ scheduled \in Seq(RetryTx) /\ batch \in Seq(RetryTx)

\* Between transactions the escrow of every ticket that exists holds its whole
\* call value: no redemption, cancellation, failure or reaping of another ticket
\* takes from it, and a failed retry puts back what it took.
EscrowBacksTickets ==
  tx = Idle => \A t \in Ticket : Live(db, t) => escrow[t] >= CallValue[t]

\* Between transactions no value is left in the escrow of a ticket that is gone:
\* it was redeemed, or it went to the beneficiary.
NoStrandedEscrow ==
  tx = Idle => \A t \in Ticket : ~Live(db, t) => escrow[t] = 0

\* A ticket that is gone leaves no field behind: clear_ticket_fields resets them
\* all, and nothing writes one of them afterwards.
ClearedLeavesNothing ==
  tx = Idle => \A t \in Ticket : ~Live(db, t) => db[t] = Cleared

\* The timeout queue has one entry for every window a ticket has left and one
\* for the current window, so a ticket can neither be forgotten by the reaper nor
\* lose a window that was paid for.
QueueCoversTickets ==
  \A t \in Ticket : Live(db, t) =>
    Len(SelectSeq(queue, LAMBDA x : x = t)) = db[t].windows + 1

\* No two retries of a ticket that wait to be run have the same nonce, and the
\* next one will differ from them all: the tries counted by the precompile and
\* by the scan of the logs agree.
Pending == batch \o scheduled
FreshNonces ==
  /\ \A i, j \in DOMAIN Pending : Pending[i] = Pending[j] => i = j
  /\ tx = Idle => \A i \in DOMAIN Pending : LET r == Pending[i] IN
       Live(db, r.ticket) => r.nonce < db[r.ticket].tries

\* A ticket disappears in StartBlock only when the time it was created with and
\* all the windows bought by keepalive have passed.
KeepaliveHonoured ==
  [][now' # now =>
       \A t \in Ticket : Live(db, t) /\ ~Live(db', t) => Effective(db[t]) < now']_vars

\* A retry that was scheduled stays scheduled until it is its turn to run.
NoScheduledLost ==
  [][\A i \in DOMAIN Pending :
       \/ i = 1 /\ batch # <<>>
       \/ \E j \in DOMAIN Pending' : Pending'[j] = Pending[i]]_vars

\* Once nobody submits tickets or keeps them alive, every ticket goes, and its
\* queue entries with it.
AllReaped == <>[](queue = <<>> /\ \A t \in Ticket : ~Live(db, t))
=============================================================================

--------------------------- MODULE CanonicalChain ---------------------------
(***************************************************************************)
(* What block production promises its users, whatever is buffered, flushed *)
(* or cached: one chain of blocks, of which a parent-closed part is        *)
(* durable.  The chain grows by the block of a message, the first one with *)
(* the Init message applied; blocks become durable and stay so until a     *)
(* rollback removes them, and a restart falls back to exactly what is      *)
(* durable.  A rollback takes effect at once for the users and becomes     *)
(* durable later; until then nothing is added to the chain, and a restart  *)
(* may bring the undone blocks back.                                       *)
(***************************************************************************)
EXTENDS Integers

CONSTANTS Msg, Genesis, GenesisNum, Num(_), Parent(_), Child(_, _, _)

VARIABLES
  chain,    \* the blocks of the canonical chain
  durable,  \* those that survive a restart
  undone    \* rolled back, but not durably so

Top(S) == {b \in S : \A d \in S : Num(d) <= Num(b)}
Closed(S) == \A b \in S : b # Genesis => Parent(b) \in S

Init == chain = {Genesis} /\ durable = {Genesis} /\ undone = {}

Extend ==
  /\ undone = {}
  /\ \E p \in Top(chain), m \in Msg : chain' = chain \cup {Child(p, m, p = Genesis)}
  /\ UNCHANGED <<durable, undone>>

Persist ==
  /\ \E d \in SUBSET (chain \cup undone) : durable \subseteq d /\ Closed(d) /\ durable' = d
  /\ UNCHANGED <<chain, undone>>

RollBack ==
  \E t \in {Num(b) : b \in chain} :
    /\ chain' = {b \in chain : Num(b) <= t}
    /\ undone' \subseteq chain \ chain'
    /\ UNCHANGED durable

Purge == durable' = durable \cap chain /\ undone' = {} /\ UNCHANGED chain

Recover == chain' = durable /\ undone' = {} /\ UNCHANGED durable

Next == Extend \/ Persist \/ RollBack \/ Purge \/ Recover

Spec == Init /\ [][Next]_<<chain, durable, undone>>
=============================================================================

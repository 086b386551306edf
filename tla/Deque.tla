---------------------------- MODULE Deque --------------------------------
(***************************************************************************)
(* What the storage-backed queue of ArbOS promises: a sequence of values,  *)
(* extended at the back, consumed at the front, and shortened again at the *)
(* back.  Each step says which value was handed out.                       *)
(***************************************************************************)
EXTENDS Integers, Sequences

CONSTANTS Value,   \* the values that are put
          None     \* the answer of an empty queue

VARIABLES q,       \* the queued values, oldest first
          out      \* the answer of the last operation

vars == <<q, out>>

Init == q = <<>> /\ out = None

Put(v) == q' = Append(q, v) /\ out' = None

Get == IF q = <<>>
       THEN q' = q /\ out' = None
       ELSE q' = Tail(q) /\ out' = Head(q)

Shift == IF q = <<>>
         THEN q' = q /\ out' = None
         ELSE q' = SubSeq(q, 1, Len(q) - 1) /\ out' = q[Len(q)]

Peek == q' = q /\ out' = IF q = <<>> THEN None ELSE Head(q)

Next == (\E v \in Value : Put(v)) \/ Get \/ Shift \/ Peek

Spec == Init /\ [][Next]_vars
=============================================================================

---------------------------- MODULE StorageQueue ----------------------------
(***************************************************************************)
(* The FIFO queue that ArbOS keeps in its storage (arb-storage, queue.rs); *)
(* the retryable timeout queue is one.  Cells 0 and 1 of the storage space *)
(* hold the next put and the next get position, the data starts at cell 2. *)
(* A cell that was never written, or was cleared, reads as None (zero).    *)
(***************************************************************************)
EXTENDS Integers, Sequences

CONSTANTS Value,    \* the values that are put
          None,     \* the zero word, also the answer of an empty queue
          MaxPuts   \* bound on the put position

ASSUME QueueAssumption == None \notin Value /\ MaxPuts \in Nat

VARIABLES nextPut, nextGet, cells, out

queueVars == <<nextPut, nextGet, cells, out>>

Cell == 2 .. MaxPuts + 1

(* initialize_queue *)
QueueInit == /\ nextPut = 2
        /\ nextGet = 2
        /\ cells = [i \in Cell |-> None]
        /\ out = None

IsEmpty == nextPut = nextGet

\* A put that overwrites the newest value.
MutPut(v) ==
    /\ nextPut \in Cell
    /\ cells' = [cells EXCEPT ![IF IsEmpty THEN nextPut ELSE nextPut - 1] = v]
    /\ nextPut' = nextPut + 1
    /\ out' = None
    /\ UNCHANGED nextGet

Put(v) ==
    /\ nextPut \in Cell
    /\ cells' = [cells EXCEPT ![nextPut] = v]
    /\ nextPut' = nextPut + 1
    /\ out' = None
    /\ UNCHANGED nextGet

Get ==
    IF IsEmpty
    THEN out' = None /\ UNCHANGED <<nextPut, nextGet, cells>>
    ELSE /\ out' = cells[nextGet]
         /\ cells' = [cells EXCEPT ![nextGet] = None]
         /\ nextGet' = nextGet + 1
         /\ UNCHANGED nextPut

\* A shift that does not test for an empty queue.
MutShift ==
    /\ nextPut > 2
    /\ out' = cells[nextPut - 1]
    /\ cells' = [cells EXCEPT ![nextPut - 1] = None]
    /\ nextPut' = nextPut - 1
    /\ UNCHANGED nextGet

(* Takes back the value put last. *)
Shift ==
    IF IsEmpty
    THEN out' = None /\ UNCHANGED <<nextPut, nextGet, cells>>
    ELSE /\ out' = cells[nextPut - 1]
         /\ cells' = [cells EXCEPT ![nextPut - 1] = None]
         /\ nextPut' = nextPut - 1
         /\ UNCHANGED nextGet

Peek ==
    /\ out' = IF IsEmpty THEN None ELSE cells[nextGet]
    /\ UNCHANGED <<nextPut, nextGet, cells>>

QueueNext == (\E v \in Value : Put(v)) \/ Get \/ Shift \/ Peek

QueueSpec == QueueInit /\ [][QueueNext]_queueVars

(* The values for_each visits, in the order it visits them. *)
ForEach == [i \in 1 .. nextPut - nextGet |-> cells[nextGet + i - 1]]
-----------------------------------------------------------------------------
(* The two positions stay in order and inside the space: without that the  *)
(* saturating subtraction of Queue::size and the range of for_each would   *)
(* hide an inconsistent queue.                                             *)
QueueTypeOK == /\ nextGet \in 2 .. MaxPuts + 2
          /\ nextPut \in nextGet .. MaxPuts + 2
          /\ cells \in [Cell -> Value \cup {None}]
          /\ out \in Value \cup {None}

(* Queue::get and Queue::shift return their storage: a cell holds a value  *)
(* exactly when it lies between the get and the put position.              *)
FreedCells == \A i \in Cell : cells[i] # None <=> i \in nextGet .. nextPut - 1

(* Every operation answers, and leaves behind in for_each, what a sequence *)
(* would: no value is lost, duplicated, reordered or handed out twice.     *)
D == INSTANCE Deque WITH q <- ForEach
ImplementsDeque == D!Spec
=============================================================================

-------------------------- MODULE CoalescedOverlay --------------------------
(***************************************************************************)
(* The coalesced view of the blocks that are still in memory (arb-node,    *)
(* coalesced_state).  BlockProducer says which blocks a cached view covers *)
(* and when it is dropped; this module says what it answers.               *)
(*                                                                         *)
(* A bundle maps the accounts a block touched to their change: whether the *)
(* account was created or destroyed, so that its storage is known, and the *)
(* slots written.  The newest block of memory is the last one.             *)
(***************************************************************************)
EXTENDS Integers, Sequences, SequencesExt, Functions

CONSTANTS Account, Slot, Value, Zero, MaxBlocks   \* bound on the chain

PartialFn(S, T) == UNION {[D -> T] : D \in SUBSET S}

Change == [known : BOOLEAN, storage : PartialFn(Slot, Value)]

Bundle == {b \in PartialFn(Account, Change) : DOMAIN b # {}}

VARIABLES disk,     \* storage in the database
          memory,   \* bundles of the blocks not yet in the database
          slots,    \* the view: slots written
          wiped,    \* the view: accounts whose other slots are zero
          cached,   \* the view is that of the current head
          truth,    \* history: the storage at the head
          height    \* blocks produced

view == <<slots, wiped>>
vars == <<disk, memory, view, cached, truth, height>>

Empty == [k \in {} |-> Zero]

Init == /\ disk \in [Account \X Slot -> Value]
        /\ memory = <<>> /\ slots = Empty /\ wiped = {} /\ cached = FALSE
        /\ truth = disk /\ height = 0
-----------------------------------------------------------------------------
Touched(b) == DOMAIN b
Known(b) == {a \in Touched(b) : b[a].known}
Written(b) == {k \in Account \X Slot : k[1] \in Touched(b) /\ k[2] \in DOMAIN b[k[1]].storage}

(* What a block does to the storage (execution and the database agree).    *)
Executed(st, b) ==
    [k \in Account \X Slot |-> IF k \in Written(b) THEN b[k[1]].storage[k[2]]
                               ELSE IF k[1] \in Known(b) THEN Zero ELSE st[k]]

\* A wipe does not drop the slots written before it.
MutExtendWithBlock(s, b) ==
    [k \in DOMAIN s \cup Written(b) |->
        IF k \in Written(b) THEN b[k[1]].storage[k[2]] ELSE s[k]]

(* extend_with_block: wipe, then write.                                    *)
ExtendWithBlock(s, b) ==
    [k \in {j \in DOMAIN s : j[1] \notin Known(b)} \cup Written(b) |->
        IF k \in Written(b) THEN b[k[1]].storage[k[2]] ELSE s[k]]

WipedAfter(w, b) == w \cup Known(b)

(* from_chain: the blocks of memory from the oldest to the newest.         *)
FromChain(blocks) == <<FoldLeft(ExtendWithBlock, Empty, blocks),
                       FoldLeft(WipedAfter, {}, blocks)>>

(* get_or_build_overlay, before a block is executed.                       *)
Open == /\ ~cached
        /\ memory # <<>>
        /\ slots' = FromChain(memory)[1] /\ wiped' = FromChain(memory)[2]
        /\ cached' = TRUE
        /\ UNCHANGED <<disk, memory, truth, height>>

(* A block is executed and becomes the newest block of memory; the view is *)
(* extended, or starts with this block when memory was empty.              *)
Produce(b) ==
    /\ height < MaxBlocks
    /\ cached \/ memory = <<>>
    /\ memory' = Append(memory, b)
    /\ LET s == IF cached THEN slots ELSE Empty
           w == IF cached THEN wiped ELSE {}
       IN slots' = ExtendWithBlock(s, b) /\ wiped' = WipedAfter(w, b)
    /\ cached' = TRUE
    /\ truth' = Executed(truth, b)
    /\ height' = height + 1
    /\ UNCHANGED disk

(* The flush thread has written the oldest blocks and they leave memory;   *)
(* the view keeps what they wrote.                                         *)
Persist(n) ==
    /\ disk' = FoldLeft(Executed, disk, SubSeq(memory, 1, n))
    /\ memory' = SubSeq(memory, n + 1, Len(memory))
    /\ UNCHANGED <<view, cached, truth, height>>

(* invalidate_cached_overlay, when the end of a flush is noticed.          *)
Invalidate ==
    /\ cached
    /\ cached' = FALSE /\ slots' = Empty /\ wiped' = {}
    /\ UNCHANGED <<disk, memory, truth, height>>

Next == \/ Open
        \/ \E b \in Bundle : Produce(b)
        \/ \E n \in 1 .. Len(memory) : Persist(n)
        \/ Invalidate

Spec == Init /\ [][Next]_vars
-----------------------------------------------------------------------------
(* storage() of the wrapped provider: the newest block that knows the slot *)
(* answers, else the database.                                             *)
MemoryOverlayRead(k) ==
    LET knows == {i \in DOMAIN memory : k \in Written(memory[i]) \/ k[1] \in Known(memory[i])}
        newest == memory[CHOOSE i \in knows : \A j \in knows : j <= i]
    IN IF knows = {} THEN disk[k]
       ELSE IF k \in Written(newest) THEN newest[k[1]].storage[k[2]] ELSE Zero

(* storage() of CoalescedStateProvider: lookup, then the wrapped provider. *)
Lookup(k) == IF k \in DOMAIN slots THEN slots[k]
             ELSE IF k[1] \in wiped THEN Zero
             ELSE MemoryOverlayRead(k)

(* The state has its type, and a view that was dropped is empty.           *)
TypeOK == /\ disk \in [Account \X Slot -> Value] /\ truth \in [Account \X Slot -> Value]
          /\ memory \in Seq(Bundle) /\ Len(memory) <= height /\ height <= MaxBlocks
          /\ slots \in PartialFn(Account \X Slot, Value)
          /\ wiped \subseteq Account /\ cached \in BOOLEAN
          /\ ~cached => slots = Empty /\ wiped = {}

(* Every slot read through the view has the value that executing the       *)
(* blocks gave it, whichever of them were created, destroyed or rewritten  *)
(* and whichever of the blocks have gone to the database since the view    *)
(* was built.                                                              *)
ReadsTrue == cached => \A k \in Account \X Slot : Lookup(k) = truth[k]
=============================================================================

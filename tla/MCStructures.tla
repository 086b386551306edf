---------------------------- MODULE MCStructures ----------------------------
(***************************************************************************)
(* The storage structures of ArbOS and the coalesced overlay of the node,  *)
(* for TLC.  Each lives in a storage space of its own, and no operation of *)
(* one touches another, so a behaviour exercises one of them while the     *)
(* others stay as they were created.                                       *)
(***************************************************************************)
EXTENDS StorageQueue, AddressSet

CONSTANTS TableAddr, Ring, MaxL1, MaxSends, Account, Slot, Word, MaxBlocks

VARIABLES part,                                              \* the structure exercised
          numItems, tableCells, byAddress, encoded,          \* address table
          nextL1, ring, v8, gaps,                            \* L1 block hashes
          sendCount, partials, logs, sends,                  \* send accumulator
          disk, memory, slots, wiped, cached, truth, height  \* coalesced overlay

Table == INSTANCE AddressTable WITH Addr <- TableAddr, None <- None, cells <- tableCells
Hashes == INSTANCE L1Blockhashes WITH next <- nextL1, cells <- ring
Merkle == INSTANCE SendMerkle WITH Send <- {<<1, 0, 0>>, <<2, 0, 0>>}, size <- sendCount
Overlay == INSTANCE CoalescedOverlay WITH Value <- Word, Zero <- 0

tableVars == <<numItems, tableCells, byAddress, encoded>>
hashVars == <<nextL1, ring, v8, gaps>>
merkleVars == <<sendCount, partials, logs, sends>>
overlayVars == <<disk, memory, slots, wiped, cached, truth, height>>

(* The initial states of the idle structures are fixed, so that they do    *)
(* not multiply those of the one that moves.                               *)
Init ==
    /\ part \in {"queue", "set", "table", "hashes", "merkle", "overlay"}
    /\ QueueInit /\ SetInit /\ Table!Init /\ Hashes!Init /\ Merkle!Init /\ Overlay!Init
    /\ part = "set" \/ ~legacy
    /\ part = "hashes" \/ v8
    /\ part = "overlay" \/ disk = [k \in Account \X Slot |-> 0]

Next ==
    /\ UNCHANGED part
    /\ \/ /\ part = "queue" /\ QueueNext
          /\ UNCHANGED <<setVars, tableVars, hashVars, merkleVars, overlayVars>>
       \/ /\ part = "set" /\ SetNext
          /\ UNCHANGED <<queueVars, tableVars, hashVars, merkleVars, overlayVars>>
       \/ /\ part = "table" /\ Table!Next
          /\ UNCHANGED <<queueVars, setVars, hashVars, merkleVars, overlayVars>>
       \/ /\ part = "hashes" /\ Hashes!Next
          /\ UNCHANGED <<queueVars, setVars, tableVars, merkleVars, overlayVars>>
       \/ /\ part = "merkle" /\ Merkle!Next
          /\ UNCHANGED <<queueVars, setVars, tableVars, hashVars, overlayVars>>
       \/ /\ part = "overlay" /\ Overlay!Next
          /\ UNCHANGED <<queueVars, setVars, tableVars, hashVars, merkleVars>>

Spec == Init /\ [][Next]_<<part, queueVars, setVars, tableVars, hashVars, merkleVars, overlayVars>>
-----------------------------------------------------------------------------
(* The state of each structure has its type.                               *)
TypeOK == /\ QueueTypeOK /\ SetTypeOK /\ Table!TypeOK
          /\ Hashes!TypeOK /\ Merkle!TypeOK /\ Overlay!TypeOK

(* What an address compressed to decompresses to it at any later time.     *)
RoundTrip == Table!RoundTrip

(* block_hash answers with a hash written for the number asked for, except *)
(* at the number where a fill started.                                     *)
AnswersAreFresh == Hashes!AnswersAreFresh

(* What BLOCKHASH returned for an L1 number does not change.               *)
HashesStable == Hashes!HashesStable

(* The partials of the accumulator are the complete subtrees of its size.  *)
PartialsAreSubtrees == Merkle!PartialsAreSubtrees

(* The root of accumulator, ArbSys and header is that of the tree.         *)
RootIsTreeRoot == Merkle!RootIsTreeRoot

(* The logs of ArbSys hold each complete node of the tree.                 *)
NodesLogged == Merkle!NodesLogged

(* The proof walk, given the nodes of the tree, arrives at the root.       *)
WalkReachesRoot == Merkle!WalkReachesRoot

(* Every slot read through the overlay has the value execution gave it.    *)
ReadsTrue == Overlay!ReadsTrue
=============================================================================

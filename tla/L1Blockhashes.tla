---------------------------- MODULE L1Blockhashes ----------------------------
(***************************************************************************)
(* The ring of L1 block hashes that ArbOS keeps for the BLOCKHASH opcode   *)
(* (arbos, blockhash).  The StartBlock transaction of each L2 block brings *)
(* an L1 block number, which may repeat, skip ahead or fall back; a new    *)
(* number is recorded, and the numbers skipped since the last one are      *)
(* filled with hashes derived from the new one.                            *)
(***************************************************************************)
EXTENDS Integers

CONSTANTS Ring,       \* the number of cells, 256 in the code
          MaxL1       \* bound on L1 block numbers

VARIABLES next,       \* l1_block_number: one past the last recorded number
          cells,      \* [num, by]: written for number num when by was recorded
          v8,         \* is the ArbOS version at least 8?
          gaps        \* history: the numbers at which the fill starts, which
                      \* it leaves out

vars == <<next, cells, v8, gaps>>

Unwritten == [num |-> -1, by |-> -1]

Init == /\ next = 0
        /\ cells = [i \in 0 .. Ring - 1 |-> Unwritten]
        /\ v8 \in BOOLEAN
        /\ gaps = {}

(* The number after which the loop of record_new_l1_block fills.           *)
FillFrom(number) == IF next + Ring < number THEN number - Ring ELSE next

\* The whole ring is filled again.
MutFilled(number) == {n \in number - Ring + 1 .. number - 1 : n >= 0}

Filled(number) == FillFrom(number) + 1 .. number - 1

\* Skipped numbers are not filled.
MutRecordNewL1Block(number) ==
    /\ number >= next
    /\ cells' = [cells EXCEPT ![number % Ring] = [num |-> number, by |-> number]]
    /\ next' = number + 1
    /\ UNCHANGED <<gaps, v8>>

(* A number below `next` returns early; apply_start_block never passes one. *)
RecordNewL1Block(number) ==
    /\ number >= next
    /\ cells' = [i \in 0 .. Ring - 1 |->
                    IF number % Ring = i THEN [num |-> number, by |-> number]
                    ELSE IF \E n \in Filled(number) : n % Ring = i
                    THEN [num |-> CHOOSE n \in Filled(number) : n % Ring = i, by |-> number]
                    ELSE cells[i]]
    /\ next' = number + 1
    /\ gaps' = IF FillFrom(number) < number THEN gaps \cup {FillFrom(number)} ELSE gaps
    /\ UNCHANGED v8

(* The part of apply_start_block about L1 blocks.                          *)
StartBlock(l1) ==
    LET number == IF v8 THEN l1 ELSE l1 + 1
    IN IF number > next THEN RecordNewL1Block(number - 1) ELSE UNCHANGED vars

(* The upgrade that ends a StartBlock may be the one to ArbOS 8.           *)
UpgradeTo8 == ~v8 /\ v8' = TRUE /\ UNCHANGED <<next, cells, gaps>>

Next == (\E l1 \in 0 .. MaxL1 : StartBlock(l1)) \/ UpgradeTo8

Spec == Init /\ [][Next]_vars

(* The numbers block_hash answers.                                         *)
Answered == {n \in 0 .. MaxL1 : n < next /\ n + Ring >= next}

BlockHash(n) == cells[n % Ring]
-----------------------------------------------------------------------------
(* The state has its type.                                                 *)
TypeOK == /\ next \in 0 .. MaxL1 + 1
          /\ \A i \in 0 .. Ring - 1 : cells[i].num \in -1 .. MaxL1
          /\ v8 \in BOOLEAN
          /\ gaps \subseteq 0 .. MaxL1

(* block_hash answers with a hash recorded or derived for the number asked *)
(* for, never with a leftover of the ring's previous round, except for the *)
(* number at which a fill started.                                         *)
AnswersAreFresh == \A n \in Answered : n \notin gaps => BlockHash(n).num = n

(* The window moves forward only, and the last L1 number stays answered    *)
(* until it leaves the window: what BLOCKHASH returned for a number that   *)
(* was recorded does not change.                                           *)
HashesStable ==
    [][\A n \in Answered : n \in Answered' => BlockHash(n)' = BlockHash(n)]_vars
=============================================================================

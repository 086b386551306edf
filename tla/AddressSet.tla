----------------------------- MODULE AddressSet -----------------------------
(***************************************************************************)
(* A set of addresses in ArbOS storage (arbos, address_set): the chain     *)
(* owners, the batch posters, the cache managers, the native token owners  *)
(* and the transaction filterers are such sets.  Cell 0 is the size, cells *)
(* 1 .. size list the members, and a second storage space maps each member *)
(* to its cell.  Up to ArbOS 10 removing a member moved the last cell into *)
(* its place without updating the map; the upgrade to ArbOS 11 empties the *)
(* list of chain owners, and rectify_mapping then enters an owner again.   *)
(***************************************************************************)
EXTENDS Integers, FiniteSets

CONSTANTS Addr,      \* the addresses
          ZeroAddr,      \* the zero word in a cell
          U64Max,    \* stands for 2^64 - 1, the largest size
          Env        \* "stale_remove": a member whose map entry is stale is
                     \* removed before it was rectified

ASSUME SetAssumption == /\ ZeroAddr \notin Addr
                        /\ U64Max \in Nat

VARIABLES size, list, index,
          v11,       \* is the ArbOS version at least 11?
          legacy,    \* did the chain start before ArbOS 11?
          op         \* history: the last operation, and for whom

setVars == <<size, list, index, v11, legacy, op>>

Did(name, who) == op' = [name |-> name, who |-> who]

SetInit == /\ size = 0
        /\ list = [i \in 0 .. U64Max |-> ZeroAddr]
        /\ index = [a \in Addr |-> 0]
        /\ legacy \in BOOLEAN
        /\ v11 = ~legacy
        /\ op = [name |-> "none", who |-> {}]

IsMember(a) == index[a] # 0

(* The test of rectify_mapping: the map does not lead to a listed cell     *)
(* that holds the address.                                                 *)
Stale(a) == ~(list[index[a]] = a /\ index[a] <= size)

(* The tail of add: map, cell, size.                                       *)
Enter(a) ==
    /\ size < U64Max
    /\ index' = [index EXCEPT ![a] = size + 1]
    /\ list' = [list EXCEPT ![size + 1] = a]
    /\ size' = size + 1
    /\ UNCHANGED <<v11, legacy>>

Add(a) == ~IsMember(a) /\ Enter(a) /\ Did("add", {a})

\* The swap of ArbOS 10, kept in every version.
MutMoveLast(a) ==
    /\ list' = [list EXCEPT ![IF index[a] < size THEN index[a] ELSE size] = list[size],
                            ![size] = ZeroAddr]
    /\ index' = [index EXCEPT ![a] = 0]

(* remove fills the freed cell with the last one.  From ArbOS 11 on it     *)
(* also points the map of the moved address to its new cell.               *)
MoveLast(a) ==
    IF index[a] < size
    THEN /\ list' = [list EXCEPT ![index[a]] = list[size], ![size] = ZeroAddr]
         /\ index' = [b \in Addr |-> CASE v11 /\ b = list[size] -> index[a]
                                       [] b = a -> 0
                                       [] OTHER -> index[b]]
    ELSE /\ list' = [list EXCEPT ![size] = ZeroAddr]
         /\ index' = [index EXCEPT ![a] = 0]

(* The size is a u64 and wraps in a release build.  A cell 0 written here  *)
(* is the size cell, and the size that follows overwrites it.              *)
Remove(a) ==
    /\ IsMember(a)
    /\ v11 /\ Stale(a) => "stale_remove" \in Env
    /\ MoveLast(a)
    /\ size' = IF size = 0 THEN U64Max ELSE size - 1
    /\ Did("remove", {a})
    /\ UNCHANGED <<v11, legacy>>

(* rectify_mapping clears the map entry of a stale member and adds it.     *)
RectifyMapping(a) == v11 /\ IsMember(a) /\ Stale(a) /\ Enter(a) /\ Did("rectify", {a})

\* An upgrade that also forgets who the members are.
MutClearList ==
    /\ list' = [i \in 0 .. U64Max |-> IF i \in 1 .. size THEN ZeroAddr ELSE list[i]]
    /\ size' = 0
    /\ index' = [a \in Addr |-> 0]

\* The cells are cleared and the size is kept.
MutClearListKeepsSize ==
    /\ list' = [i \in 0 .. U64Max |-> IF i \in 1 .. size THEN ZeroAddr ELSE list[i]]
    /\ UNCHANGED <<size, index>>

(* clear_list empties the list and leaves the map.                         *)
ClearList ==
    /\ list' = [i \in 0 .. U64Max |-> IF i \in 1 .. size THEN ZeroAddr ELSE list[i]]
    /\ size' = 0
    /\ UNCHANGED index

(* The step of upgrade_arbos_version to ArbOS 11.                          *)
UpgradeTo11 == ~v11 /\ v11' = TRUE /\ ClearList /\ UNCHANGED legacy /\ Did("upgrade", {})

SetNext == \/ \E a \in Addr : Add(a) \/ Remove(a) \/ RectifyMapping(a)
        \/ UpgradeTo11

SetSpec == SetInit /\ [][SetNext]_setVars
-----------------------------------------------------------------------------
Members == {a \in Addr : IsMember(a)}

(* The state has its type.                                                 *)
SetTypeOK == /\ size \in 0 .. U64Max
          /\ list \in [0 .. U64Max -> Addr \cup {ZeroAddr}]
          /\ index \in [Addr -> 0 .. U64Max]
          /\ v11 \in BOOLEAN /\ legacy \in BOOLEAN
          /\ op \in [name : {"none", "add", "remove", "rectify", "upgrade"}, who : SUBSET Addr]

(* From ArbOS 11 on the list that all_members returns is sound: each       *)
(* listed address is a member, at the cell its map entry gives.            *)
Listed == \A i \in 1 .. size : list[i] \in Addr /\ index[list[i]] = i

(* However additions, removals, the upgrade and rectifications mix, the    *)
(* list is sound from ArbOS 11 on; and on a chain that started there it is *)
(* complete: the list of all_members and the map of is_member describe the *)
(* same set, each member listed once.                                      *)
ListMatchesMap ==
    /\ v11 => Listed
    /\ ~legacy => \A a \in Members : ~Stale(a)

(* The size counts the members up to ArbOS 10, even when list and map have *)
(* drifted apart, and the members with a fresh map entry afterwards.       *)
SizeCounts ==
    size = Cardinality({a \in Members : v11 => ~Stale(a)})

(* The size never underflows: the doc of the layout says that cells        *)
(* 1 .. size hold the addresses, so there are no more of them than members. *)
SizeBacked == size <= Cardinality(Members)

(* Each operation does to the set what its name says, to the address it is *)
(* called for and to no other: add makes it a member, remove takes it out  *)
(* whatever cells it moves, rectify_mapping and the upgrade to ArbOS 11    *)
(* leave the membership of every address as it was.                        *)
S == INSTANCE MemberSet WITH members <- Members
ImplementsSet == S!Spec
=============================================================================

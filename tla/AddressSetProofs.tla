-------------------------- MODULE AddressSetProofs --------------------------
(***************************************************************************)
(* The list and the map of an address set agree, and membership is that of *)
(* a set, for any addresses and any size, as long as owners whose map      *)
(* entry went stale at the upgrade are rectified before they are removed.  *)
(***************************************************************************)
EXTENDS AddressSet, TLAPS

(* The inductive invariant: the list is sound from ArbOS 11 on, and also   *)
(* complete when the set never saw an older version.                       *)
SetInv == /\ SetTypeOK
          /\ ~legacy => v11
          /\ ListMatchesMap

(* An empty set has nothing to list.                                       *)
LEMMA InitSetInv == SetInit => SetInv
<1> SUFFICES ASSUME SetInit PROVE SetInv
  OBVIOUS
<1>1. v11 \in BOOLEAN /\ legacy \in BOOLEAN /\ (~legacy => v11)
  BY DEF SetInit
<1>2. size = 0 /\ list = [i \in 0 .. U64Max |-> ZeroAddr] /\ index = [a \in Addr |-> 0]
  BY DEF SetInit
<1>a. op \in [name : {"none", "add", "remove", "rectify", "upgrade"}, who : SUBSET Addr]
  BY DEF SetInit
<1>3. SetTypeOK
  BY <1>1, <1>2, <1>a, SetAssumption DEF SetTypeOK
<1>4. \A i \in 1 .. size : list[i] \in Addr /\ index[list[i]] = i
  BY <1>2
<1>5. Members = {}
  BY <1>2 DEF Members, IsMember
<1> QED
  BY <1>1, <1>3, <1>4, <1>5 DEF SetInv, ListMatchesMap, Listed

(* Entering a new or a stale address keeps list and map in step.           *)
LEMMA EnterInv ==
    ASSUME SetInv, NEW a \in Addr, Enter(a), ~IsMember(a) \/ (v11 /\ Stale(a)),
           NEW name \in {"add", "rectify"}, Did(name, {a})
    PROVE  SetInv'
<1> USE SetAssumption DEF Enter
<1>a. op' \in [name : {"none", "add", "remove", "rectify", "upgrade"}, who : SUBSET Addr]
  BY DEF Did
<1>1. SetTypeOK'
  BY <1>a DEF SetInv, SetTypeOK
<1>2. v11 => \A i \in 1 .. size : list[i] # a
  BY DEF SetInv, SetTypeOK, ListMatchesMap, Listed, IsMember, Stale
<1>3. v11' => Listed'
  BY <1>2 DEF SetInv, SetTypeOK, ListMatchesMap, Listed
<1>4. (~legacy' => v11') /\ ListMatchesMap'
  BY <1>2, <1>3
  DEF SetInv, SetTypeOK, ListMatchesMap, Listed, Members, IsMember, Stale
<1> QED
  BY <1>1, <1>3, <1>4 DEF SetInv

(* Removing an address whose map entry is fresh keeps them in step, and    *)
(* moves no other address in or out of the set.                            *)
LEMMA RemoveInv ==
    ASSUME "stale_remove" \notin Env, SetInv, NEW a \in Addr, Remove(a)
    PROVE  SetInv' /\ Members' = Members \ {a}
<1> USE SetAssumption
<1>1. SetTypeOK'
  <2>1. /\ size \in 0 .. U64Max /\ index[a] \in 0 .. U64Max
        /\ list \in [0 .. U64Max -> Addr \cup {ZeroAddr}]
        /\ index \in [Addr -> 0 .. U64Max]
    BY DEF SetInv, SetTypeOK
  <2>a. MoveLast(a)
    BY DEF Remove
  <2>2. list' \in [0 .. U64Max -> Addr \cup {ZeroAddr}]
    BY <2>1, <2>a DEF MoveLast
  <2>3. index' \in [Addr -> 0 .. U64Max]
    <3>1. 0 \in 0 .. U64Max
      OBVIOUS
    <3>2. CASE index[a] < size
      <4>1. index' = [b \in Addr |-> CASE v11 /\ b = list[size] -> index[a]
                                       [] b = a -> 0
                                       [] OTHER -> index[b]]
        BY <2>a, <3>2 DEF MoveLast
      <4> QED
        BY <2>1, <3>1, <4>1, Zenon
    <3>3. CASE ~(index[a] < size)
      BY <2>1, <2>a, <3>1, <3>3 DEF MoveLast
    <3> QED
      BY <3>2, <3>3
  <2>4. size' \in 0 .. U64Max
    BY <2>1 DEF Remove
  <2>5. v11' \in BOOLEAN /\ legacy' \in BOOLEAN
    BY DEF SetInv, SetTypeOK, Remove
  <2>6. op' \in [name : {"none", "add", "remove", "rectify", "upgrade"}, who : SUBSET Addr]
    BY DEF Remove, Did
  <2> QED
    BY <2>2, <2>3, <2>4, <2>5, <2>6 DEF SetTypeOK
<1>a. legacy' = legacy /\ v11' = v11 /\ (~legacy => v11)
  BY DEF Remove, SetInv
<1>2. CASE ~v11
  <2>1. SetInv'
    BY <1>1, <1>2, <1>a DEF SetInv, ListMatchesMap, Listed
  <2>2. index \in [Addr -> 0 .. U64Max] /\ index' = [index EXCEPT ![a] = 0]
    BY <1>2 DEF SetInv, SetTypeOK, Remove, MoveLast
  <2> QED
    BY <2>1, <2>2 DEF Members, IsMember
<1>3. CASE v11
  <2>1. /\ index[a] \in 1 .. size /\ list[index[a]] = a /\ v11'
        /\ size \in 1 .. U64Max /\ size' = size - 1
        /\ \A i \in 1 .. size : list[i] \in Addr /\ index[list[i]] = i
        /\ list \in [0 .. U64Max -> Addr \cup {ZeroAddr}]
        /\ index \in [Addr -> 0 .. U64Max]
    BY <1>3 DEF SetInv, SetTypeOK, Remove, IsMember, Stale, ListMatchesMap, Listed
  <2>2. MoveLast(a)
    BY DEF Remove
  <2>3. \A i \in 1 .. size - 1 : list'[i] = IF i = index[a] THEN list[size] ELSE list[i]
    BY <2>1, <2>2 DEF MoveLast
  <2>4. \A b \in Addr : index'[b] = IF b = a THEN 0
                                    ELSE IF b = list[size] THEN index[a] ELSE index[b]
    BY <1>3, <2>1, <2>2 DEF MoveLast
  <2>5. \A i \in 1 .. size' : list'[i] \in Addr /\ index'[list'[i]] = i
    BY <2>1, <2>3, <2>4
  <2>6. Members' = Members \ {a}
    BY <2>1, <2>4 DEF Members, IsMember
  <2>7. ASSUME ~legacy, NEW b \in Members' PROVE ~Stale(b)'
    <3>1. b \in Addr /\ b # a /\ index[b] \in 1 .. size /\ list[index[b]] = b
      BY <2>6, <2>7 DEF SetInv, SetTypeOK, ListMatchesMap, Members, IsMember, Stale
    <3>2. CASE b = list[size]
      BY <2>1, <2>3, <2>4, <3>1, <3>2 DEF Stale
    <3>3. CASE b # list[size]
      BY <2>1, <2>3, <2>4, <3>1, <3>3 DEF Stale
    <3> QED
      BY <3>2, <3>3
  <2> QED
    BY <1>1, <1>a, <2>1, <2>5, <2>6, <2>7 DEF SetInv, ListMatchesMap, Listed
<1> QED
  BY <1>2, <1>3 DEF SetInv, SetTypeOK

(* The upgrade leaves an empty list, which is sound.                       *)
LEMMA UpgradeInv == SetInv /\ UpgradeTo11 => SetInv' /\ Members' = Members
<1> SUFFICES ASSUME SetInv, UpgradeTo11 PROVE SetInv' /\ Members' = Members
  OBVIOUS
<1>1. legacy /\ legacy' = legacy /\ v11' = TRUE
  BY DEF SetInv, UpgradeTo11
<1>2. size' = 0 /\ index' = index /\ SetTypeOK'
  BY SetAssumption, <1>1 DEF SetInv, SetTypeOK, UpgradeTo11, ClearList, Did
<1>3. \A i \in 1 .. size' : list'[i] \in Addr /\ index'[list'[i]] = i
  BY <1>2
<1> QED
  BY <1>1, <1>2, <1>3 DEF SetInv, ListMatchesMap, Listed, Members, IsMember

(* Entering an address makes it a member, and no other.                    *)
LEMMA EnterMembers ==
    ASSUME SetInv, NEW a \in Addr, Enter(a) PROVE Members' = Members \cup {a}
  BY DEF SetInv, SetTypeOK, Enter, Members, IsMember

(* Every operation preserves the invariant.                                *)
LEMMA NextSetInv ==
    ASSUME "stale_remove" \notin Env PROVE SetInv /\ [SetNext]_setVars => SetInv'
<1> SUFFICES ASSUME SetInv, [SetNext]_setVars PROVE SetInv'
  OBVIOUS
<1>1. CASE UNCHANGED setVars
  BY <1>1 DEF setVars, SetInv, SetTypeOK, ListMatchesMap, Listed, Members, IsMember, Stale
<1>2. ASSUME NEW a \in Addr, Add(a) PROVE SetInv'
  BY <1>2, EnterInv DEF Add
<1>3. ASSUME NEW a \in Addr, Remove(a) PROVE SetInv'
  BY <1>3, RemoveInv
<1>4. ASSUME NEW a \in Addr, RectifyMapping(a) PROVE SetInv'
  BY <1>4, EnterInv DEF RectifyMapping
<1>5. CASE UpgradeTo11
  BY <1>5, UpgradeInv
<1> QED
  BY <1>1, <1>2, <1>3, <1>4, <1>5 DEF SetNext

(* The list is sound after the upgrade, and list and map agree on a chain  *)
(* that never saw an older version.                                        *)
THEOREM ListExact ==
    ASSUME "stale_remove" \notin Env PROVE SetSpec => []ListMatchesMap
<1>1. SetInv => ListMatchesMap
  BY DEF SetInv
<1> QED
  BY InitSetInv, NextSetInv, <1>1, PTL DEF SetSpec

(* Each operation does to the membership what its name says and no more:   *)
(* an addition adds its address, a removal takes its address out, whichever *)
(* cells it moves, and rectify_mapping and the upgrade change nothing.     *)
THEOREM SetIsSet ==
    ASSUME "stale_remove" \notin Env PROVE SetSpec => ImplementsSet
<1>1. SetInit => S!Init
  BY DEF SetInit, S!Init, Members, IsMember
<1>2. SetInv /\ [SetNext]_setVars => [S!Next]_<<Members, op>>
  <2> SUFFICES ASSUME SetInv, [SetNext]_setVars PROVE [S!Next]_<<Members, op>>
    OBVIOUS
  <2>1. CASE UNCHANGED setVars
    BY <2>1 DEF setVars, Members, IsMember
  <2>2. ASSUME NEW a \in Addr, Add(a) PROVE S!Add(a)
    <3>1. a \notin Members
      BY <2>2 DEF Add, Members
    <3> QED
      BY <2>2, <3>1, EnterMembers DEF Add, Did, S!Add
  <2>3. ASSUME NEW a \in Addr, Remove(a) PROVE S!Remove(a)
    <3>1. a \in Members
      BY <2>3 DEF Remove, Members
    <3> QED
      BY <2>3, <3>1, RemoveInv DEF Remove, Did, S!Remove
  <2>4. ASSUME NEW a \in Addr, RectifyMapping(a) PROVE S!Rectify(a)
    <3>1. a \in Members
      BY <2>4 DEF RectifyMapping, Members
    <3>2. Members' = Members \cup {a}
      BY <2>4, EnterMembers DEF RectifyMapping
    <3> QED
      BY <2>4, <3>1, <3>2 DEF RectifyMapping, Did, S!Rectify
  <2>5. CASE UpgradeTo11
    BY <2>5, UpgradeInv DEF UpgradeTo11, Did, S!Upgrade, S!Next
  <2> QED
    BY <2>1, <2>2, <2>3, <2>4, <2>5 DEF SetNext, S!Next
<1> QED
  BY <1>1, <1>2, InitSetInv, NextSetInv, PTL DEF SetSpec, ImplementsSet, S!Spec
=============================================================================

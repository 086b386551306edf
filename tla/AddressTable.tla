---------------------------- MODULE AddressTable ----------------------------
(***************************************************************************)
(* The address table of ArbOS (arbos, address_table): addresses are        *)
(* registered once and then stand for a small index.  Compressed addresses *)
(* are kept by others, in calldata or off chain, and decompressed at any   *)
(* later time.  An RLP string of 20 bytes is a raw address, a shorter one  *)
(* an index.                                                               *)
(***************************************************************************)
EXTENDS Integers, FiniteSets

CONSTANTS Addr, None

VARIABLES numItems, cells, byAddress,
          encoded   \* history: pairs of an address and what it compressed to

vars == <<numItems, cells, byAddress, encoded>>

Index == 1 .. Cardinality(Addr)

Init == /\ numItems = 0
        /\ cells = [i \in Index |-> None]
        /\ byAddress = [a \in Addr |-> 0]
        /\ encoded = {}

(* A known address answers with its index and changes nothing.             *)
Register(a) ==
    /\ byAddress[a] = 0
    /\ numItems' = numItems + 1
    /\ cells' = [cells EXCEPT ![numItems + 1] = a]
    /\ byAddress' = [byAddress EXCEPT ![a] = numItems + 1]
    /\ UNCHANGED encoded

(* lookup: the index counted from 0.                                       *)
Lookup(a) == byAddress[a] - 1

LookupIndex(i) == IF i >= numItems THEN None ELSE cells[i + 1]

\* The index is encoded as stored, counted from 1.
MutCompressed(a) == IF byAddress[a] # 0 THEN <<"index", byAddress[a]>> ELSE <<"raw", a>>

Compressed(a) == IF byAddress[a] # 0 THEN <<"index", Lookup(a)>> ELSE <<"raw", a>>

Compress(a) ==
    /\ encoded' = encoded \cup {<<a, Compressed(a)>>}
    /\ UNCHANGED <<numItems, cells, byAddress>>

Decompressed(e) == IF e[1] = "raw" THEN e[2] ELSE LookupIndex(e[2])

Next == \E a \in Addr : Register(a) \/ Compress(a)

Spec == Init /\ [][Next]_vars
-----------------------------------------------------------------------------
(* The state has its type, and the table its length.                       *)
TypeOK == /\ numItems \in 0 .. Cardinality(Addr)
          /\ cells \in [Index -> Addr \cup {None}]
          /\ byAddress \in [Addr -> 0 .. numItems]

(* What an address compressed to, before or after it was registered and    *)
(* whatever was registered since, still decompresses to it.                *)
RoundTrip == \A p \in encoded : Decompressed(p[2]) = p[1]
=============================================================================

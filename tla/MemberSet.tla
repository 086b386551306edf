------------------------------ MODULE MemberSet ------------------------------
(***************************************************************************)
(* What an ArbOS address set promises: a set of addresses.  Each operation *)
(* has its effect for the address it is called for and for no other, and   *)
(* the repair operations have none.                                        *)
(***************************************************************************)
CONSTANT Addr

VARIABLES members,
          op        \* the last operation, and for whom

Init == members = {} /\ op = [name |-> "none", who |-> {}]

Add(a) ==
    /\ a \notin members /\ members' = members \cup {a}
    /\ op' = [name |-> "add", who |-> {a}]

Remove(a) ==
    /\ a \in members /\ members' = members \ {a}
    /\ op' = [name |-> "remove", who |-> {a}]

Rectify(a) ==
    /\ a \in members /\ members' = members
    /\ op' = [name |-> "rectify", who |-> {a}]

Upgrade == members' = members /\ op' = [name |-> "upgrade", who |-> {}]

Next == (\E a \in Addr : Add(a) \/ Remove(a) \/ Rectify(a)) \/ Upgrade

Spec == Init /\ [][Next]_<<members, op>>
=============================================================================

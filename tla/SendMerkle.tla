----------------------------- MODULE SendMerkle -----------------------------
(***************************************************************************)
(* The Merkle accumulator of messages from L2 to L1: ArbSys.sendTxToL1     *)
(* appends to it and logs the tree nodes that an append completes, block   *)
(* headers carry its root, and NodeInterface.constructOutboxProof rebuilds *)
(* a proof from those logs.  The accumulator keeps one root per complete   *)
(* subtree, the partials: level k holds 2^k sends.                         *)
(*                                                                         *)
(* Hashes are terms: keccak256 of one word is a 1-tuple, of two words a    *)
(* pair, the zero word is the empty tuple, so equal terms are equal hashes *)
(* and no two different preimages collide.                                 *)
(***************************************************************************)
EXTENDS Integers, Sequences

CONSTANTS Send,       \* the hashes of sent messages, as 3-tuples
          MaxSends    \* bound on the number of sends

VARIABLES size, partials,
          logs,       \* position topic -> hash topic, from the logs of ArbSys
          sends       \* history: the sends in order

vars == <<size, partials, logs, sends>>

Zero == <<>>
Keccak(x) == <<x>>
Keccak2(x, y) == <<x, y>>

Bit(n, k) == (n \div 2^k) % 2

(* calc_num_partials, log2_ceil: the bit length of n.                      *)
CalcNumPartials(n) == CHOOSE k \in 0 .. n : n < 2^k /\ (k > 0 => n >= 2^(k-1))

Level == 0 .. CalcNumPartials(MaxSends)

(* ArbSys logs level << 192 | leaf.                                        *)
LoggedPosition(level, leaf) == <<level, leaf>>

Init == /\ size = 0
        /\ partials = [l \in Level |-> Zero]
        /\ logs = [p \in {} |-> Zero]
        /\ sends = <<>>
-----------------------------------------------------------------------------
(* The level at which the loop of append stops.                            *)
Stop == CHOOSE l \in 0 .. CalcNumPartials(size) :
            /\ l = CalcNumPartials(size) \/ partials[l] = Zero
            /\ \A k \in 0 .. l - 1 : partials[k] # Zero

(* The hash the loop carries when it reaches a level.                      *)
SoFar(item) ==
    LET h[l \in 0 .. Stop] ==
            IF l = 0 THEN Keccak(item) ELSE Keccak2(partials[l-1], h[l-1])
    IN h

\* Merged partials are not cleared.
MutAppended(item) ==
    [l \in Level |-> IF l = Stop THEN SoFar(item)[l] ELSE partials[l]]

(* What append leaves in the partials: the merged ones are cleared.        *)
Appended(item) ==
    [l \in Level |-> CASE l < Stop -> Zero
                       [] l = Stop -> SoFar(item)[l]
                       [] OTHER -> partials[l]]

\* The node events are numbered by the new size.
MutNodeEvents(item) ==
    [p \in {LoggedPosition(l, size + 1) : l \in 1 .. Stop} |-> SoFar(item)[p[1]]]

(* The MerkleTreeNodeEvents of append: the nodes it completed, at the      *)
(* index of their last leaf.                                               *)
NodeEvents(item) ==
    [p \in {LoggedPosition(l, size) : l \in 1 .. Stop} |-> SoFar(item)[p[1]]]

(* sendTxToL1, past the tests that revert a static call and a call with    *)
(* value on a chain with native token owners: append, one SendMerkleUpdate *)
(* per event, then L2ToL1Tx with the send hash itself at the position of   *)
(* the leaf.                                                               *)
SendTxToL1(item) ==
    /\ size < MaxSends
    /\ size' = size + 1
    /\ partials' = Appended(item)
    /\ LET new == NodeEvents(item)
           leaf == LoggedPosition(0, size)
       IN logs' = [p \in DOMAIN logs \cup DOMAIN new \cup {leaf} |->
                      CASE p = leaf -> item
                        [] p \in DOMAIN new -> new[p]
                        [] OTHER -> logs[p]]
    /\ sends' = Append(sends, item)

Next == \E item \in Send : SendTxToL1(item)

Spec == Init /\ [][Next]_vars
-----------------------------------------------------------------------------
\* Levels without a partial are skipped without padding.
MutPad(h, from, to) == h

(* Doubles the capacity of a hash with zero words.                         *)
Pad(h, from, to) ==
    LET p[l \in from .. to] == IF l = from THEN h ELSE Keccak2(p[l-1], Zero)
    IN p[to]

(* root, merkle_root_from_partials and compute_merkle_root: one pass over  *)
(* the levels; `at` is the level of the hash built so far.                 *)
Root ==
    LET start == [hash |-> Zero, at |-> -1]
        pass[l \in -1 .. CalcNumPartials(size) - 1] ==
            IF l = -1 THEN start
            ELSE LET r == pass[l-1]
                 IN CASE partials[l] = Zero -> r
                      [] partials[l] # Zero /\ r.at = -1 ->
                             [hash |-> partials[l], at |-> l]
                      [] OTHER -> [hash |-> Keccak2(partials[l], Pad(r.hash, r.at, l)),
                                   at |-> l + 1]
    IN pass[CalcNumPartials(size) - 1].hash

(* from_partials: the size a list of partials stands for.                  *)
SizeFromPartials ==
    LET sum[l \in -1 .. CalcNumPartials(size) - 1] ==
            IF l = -1 THEN 0 ELSE sum[l-1] + (IF partials[l] # Zero THEN 2^l ELSE 0)
    IN sum[CalcNumPartials(size) - 1]
-----------------------------------------------------------------------------
Balanced == size = 2^CalcNumPartials(size) \div 2 \/ size = 1

WalkLevels == IF Balanced THEN CalcNumPartials(size) - 1 ELSE CalcNumPartials(size)

(* plan_proof and finalize_proof walk the same places: at level l the low  *)
(* l bits of the leaf are set.                                             *)
Place(leaf, l) == (leaf \div 2^l) * 2^l + (2^l - 1)

\* The walk does not set the bits it leaves behind.
MutSibling(leaf, l) ==
    IF Bit(leaf, l) = 0 THEN leaf + 2^l ELSE leaf - 2^l

(* place ^ which                                                           *)
Sibling(leaf, l) ==
    IF Bit(leaf, l) = 0 THEN Place(leaf, l) + 2^l ELSE Place(leaf, l) - 2^l

(* finalize_proof: the root that follows from the hash of a leaf and the   *)
(* hashes found for its siblings, one per level.                           *)
FinalizeProof(leaf, hash, found) ==
    LET h[l \in 0 .. WalkLevels] ==
            IF l = 0 THEN hash
            ELSE IF Bit(leaf, l - 1) = 0 THEN Keccak2(h[l-1], found[l-1])
            ELSE Keccak2(found[l-1], h[l-1])
    IN h[WalkLevels]
-----------------------------------------------------------------------------
(* The reference: the tree over the sends, in which an absent subtree is   *)
(* the zero word.  Subtree(l, p) has 2^l leaves, the last of them leaf p.  *)
Leaf(i) == IF i < Len(sends) THEN Keccak(sends[i + 1]) ELSE Zero

Subtree(level, last) ==
    LET t[l \in 0 .. level, i \in 0 .. 2^level - 1] ==
            LET first == last + 1 - 2^level + i * 2^l
            IN IF first >= size THEN Zero
               ELSE IF l = 0 THEN Leaf(first)
               ELSE Keccak2(t[l-1, 2*i], t[l-1, 2*i + 1])
    IN t[level, 0]

TreeLevels == CHOOSE l \in 0 .. size : size <= 2^l /\ (l > 0 => size > 2^(l-1))

(* The state has its type, and the size counts the sends of the history.   *)
TypeOK == /\ size \in 0 .. MaxSends
          /\ Len(sends) = size
          /\ DOMAIN partials = Level

(* The partials are the complete subtrees of the binary representation of  *)
(* the size, so a list of partials determines the size (from_partials) and *)
(* no stale partial of an earlier merge is left for a later append.        *)
PartialsAreSubtrees ==
    /\ \A l \in Level :
         partials[l] = IF Bit(size, l) = 1
                       THEN Subtree(l, (size \div 2^l) * 2^l - 1)
                       ELSE Zero
    /\ SizeFromPartials = size

(* The root of accumulator, ArbSys and header is that of the tree.         *)
RootIsTreeRoot == size > 0 => Root = Subtree(TreeLevels, 2^TreeLevels - 1)

(* The logs are enough to rebuild the tree: each complete node above the   *)
(* leaves is logged once complete, at the index of its last leaf.          *)
NodesLogged ==
    \A l \in 1 .. CalcNumPartials(size), last \in 0 .. size - 1 :
        (last + 1) % 2^l = 0 =>
            /\ LoggedPosition(l, last) \in DOMAIN logs
            /\ logs[LoggedPosition(l, last)] = Subtree(l, last)

(* The geometry of the proof walk is right: with the nodes of the tree at  *)
(* the places it asks for, it arrives at the root of the accumulator.      *)
WalkReachesRoot ==
    \A leaf \in 0 .. size - 1 :
        LET found == [l \in 0 .. WalkLevels - 1 |-> Subtree(l, Sibling(leaf, l))]
        IN FinalizeProof(leaf, Subtree(0, leaf), found) = Root
=============================================================================

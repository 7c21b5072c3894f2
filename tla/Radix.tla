-------------------------------- MODULE Radix --------------------------------
(***************************************************************************)
(* The radix tree over daemon ranks 0 .. n_dmns-1 (src/rml/radix.h).       *)
(*                                                                         *)
(* The code's radix_node_t carries (base, rank, depth, width, count), but  *)
(* depth determines width and count, and every node the code builds has    *)
(* the depth of its rank: a node is represented here by its rank alone.    *)
(* A rank that does not exist is Invalid, which like PMIX_RANK_INVALID is  *)
(* larger than every rank.                                                 *)
(***************************************************************************)
EXTENDS Integers

CONSTANTS
    n_dmns,     \* prte_rml_base.n_dmns: daemons in the DVM, departed ones included
    radix       \* fan-out of the tree; prte_rml_register clamps it to at least 2

ASSUME RadixAssumption == /\ n_dmns \in Nat \ {0}
                          /\ radix \in Nat \ {0, 1}

Invalid == 2147483647

Ranks == 0 .. n_dmns - 1

(***************************************************************************)
(* Geometry of the layer at depth d.                                       *)
(***************************************************************************)
Width(d) == radix ^ d

Count(d) == (Width(d) * radix - 1) \div (radix - 1)

LayerOffset(d) == Count(d) - Width(d)

\* radix_to_base: the layer a rank lies in. The code guesses the depth with
\* logarithms and then steps it until these two inequalities hold.
DepthOf(r) == CHOOSE d \in 0 .. r : r < Count(d) /\ LayerOffset(d) <= r

\* The rank of the layer at depth d that lies in the column of base.
ColumnAt(d, base) == ((base - LayerOffset(d)) % Width(d)) + LayerOffset(d)

NotPast(base, r) == IF r > base THEN Invalid ELSE r

\* radix_update_rank: the rank at depth d on the path from the root to base.
UpdateRank(base, d) ==
    IF base >= n_dmns \/ base < LayerOffset(d)
    THEN Invalid
    ELSE NotPast(base, ColumnAt(d, base))

\* radix_to_depth / radix_at_depth
AtDepth(base, d) ==
    IF Count(d) > n_dmns * radix THEN Invalid ELSE UpdateRank(base, d)

\* radix_to_parent / radix_parent
Parent(r) == IF r = 0 THEN Invalid ELSE UpdateRank(r, DepthOf(r) - 1)

IfExists(r) == IF r >= n_dmns THEN Invalid ELSE r

\* radix_child and radix_right_sibling, as RADIX_CHILD_FOREACH steps through
\* them: the i-th child (from 0), Invalid past the last one.
Child(r, i) ==
    IF i >= radix THEN Invalid ELSE IfExists(r + Width(DepthOf(r)) * (i + 1))

(***************************************************************************)
(* Traversal.                                                              *)
(***************************************************************************)
\* The climb of radix_to_next from a childless node: up until a left sibling
\* exists, and onto it; Invalid once the root is passed.
LeftOf[r \in Ranks] ==
    IF r = 0 THEN Invalid
    ELSE IF r - Width(DepthOf(r) - 1) < Count(DepthOf(r) - 1)
    THEN LeftOf[r - Width(DepthOf(r) - 1)]
    ELSE r - Width(DepthOf(r) - 1)

\* radix_to_next: the rightmost child that exists, else the climb.
Rightmost(children, otherwise) ==
    IF children = {} THEN otherwise
    ELSE CHOOSE c \in children : \A e \in children : e <= c

ToNext(r) ==
    IF r >= n_dmns THEN Invalid
    ELSE Rightmost({Child(r, i) : i \in 0 .. radix - 1} \ {Invalid}, LeftOf[r])

\* radix_is_living, for the failed set F
IsLiving(F, r) == r < n_dmns /\ r \notin F

\* radix_to_next_living
SkipDeparted[F \in SUBSET Ranks, r \in Ranks \cup {Invalid}] ==
    IF r = Invalid \/ r \notin F THEN r ELSE SkipDeparted[F, ToNext(r)]

NextLiving(F, r) == SkipDeparted[F, ToNext(r)]

\* radix_subtree_contains
SubtreeContains(root, r) ==
    /\ r < n_dmns
    /\ r >= root
    /\ root = ColumnAt(DepthOf(root), r)

\* radix_subtree_index: which child subtree of node, at depth d, holds n
IndexBelow(d, n) == ((n - Count(d)) % (Width(d) * radix)) \div Width(d)

SubtreeIndex(node, n) ==
    IF n = node \/ ~SubtreeContains(node, n)
    THEN Invalid
    ELSE IndexBelow(DepthOf(node), n)

\* radix_rooted_to_next_living / radix_rooted_get_next_living
Within(root, r) == IF SubtreeContains(root, r) THEN r ELSE Invalid

RootedNextLiving(F, root, r) == Within(root, NextLiving(F, r))

==============================================================================

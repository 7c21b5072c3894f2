------------------------------ MODULE RadixTree ------------------------------
(***************************************************************************)
(* One daemon's place in the routing tree, as pure functions               *)
(* (src/rml/routed_radix.c). A place is a record                           *)
(*   ancestors  prte_rml_base.ancestors: the HNP first, the parent last;   *)
(*   children   prte_rml_base.children, one entry per child slot: the      *)
(*              array the code shrinks, padded back with Invalid.          *)
(* cur_node is the position the daemon occupies: the rank at depth         *)
(* Len(ancestors) on its own base path. lifeline is the last ancestor.     *)
(***************************************************************************)
EXTENDS Radix, Sequences, SequencesExt

Slots == 0 .. radix - 1

\* prte_rml_shrink_ranks: drop the Invalid entries at the end.
ShrinkRanks(s) ==
    LET valid == {i \in DOMAIN s : s[i] # Invalid}
    IN  SubSeq(s, 1, IF valid = {} THEN 0 ELSE Max(valid))

CurNode(me, tree) == AtDepth(me, Len(tree.ancestors))

Lifeline(tree) ==
    IF tree.ancestors = <<>> THEN Invalid ELSE Last(tree.ancestors)

(***************************************************************************)
(* prte_rml_update_ancestors: walk every dead ancestor to its next living  *)
(* inheritor, given the failed set F. When an inheritor was promoted from  *)
(* below, the entries along its path no longer hold and are refilled as    *)
(* the walk reaches them.                                                  *)
(***************************************************************************)
Inheritor(F, anc, prev_anc) ==
    IF IsLiving(F, anc) THEN anc
    ELSE NextLiving(F, IF anc < n_dmns THEN anc ELSE prev_anc)

\* The entries after i that the new ancestor a left behind when it moved up.
PromotedPast(me, ancestors, i, a) ==
    {j \in i + 1 .. Len(ancestors) :
        /\ \A k \in i + 1 .. j : SubtreeContains(AtDepth(me, k - 1), a)
        /\ \A k \in i + 1 .. j - 1 : ancestors[k] # a}

Invalidate(ancestors, S) ==
    [j \in DOMAIN ancestors |-> IF j \in S THEN Invalid ELSE ancestors[j]]

\* The walk reaches entry i, and a is the ancestor found for it.
ReplaceAncestor(me, walk, i, a) ==
    IF a = me
    THEN [walk EXCEPT !.ancestors = Invalidate(@, i .. Len(@)), !.done = TRUE]
    ELSE IF a = walk.ancestors[i]
    THEN [walk EXCEPT !.prev_anc = a]
    ELSE [walk EXCEPT !.prev_anc = a,
                      !.ancestors = Invalidate([@ EXCEPT ![i] = a],
                                               PromotedPast(me, @, i, a))]

UpdateOneAncestor(me, F, walk, i) ==
    IF walk.done THEN walk
    ELSE ReplaceAncestor(me, walk, i, Inheritor(F, walk.ancestors[i], walk.prev_anc))

UpdateAncestors(me, F, ancestors) ==
    ShrinkRanks(FoldLeft(LAMBDA w, i : UpdateOneAncestor(me, F, w, i),
                         [ancestors |-> ancestors, prev_anc |-> 0, done |-> FALSE],
                         [i \in 1 .. Len(ancestors) - 1 |-> i + 1]).ancestors)

(***************************************************************************)
(* handle_promotion: a daemon whose list changed length occupies another   *)
(* position, and takes that position's children; in the slot holding its   *)
(* own base subtree it is succeeded by the next living rank after itself.  *)
(***************************************************************************)
\* Mutant of HandlePromotion: the slot of its own base subtree is not passed on.
SlotOfMyselfKept(me, F, ancestors, old) ==
    IF Len(ancestors) = Len(old.ancestors)
    THEN old.children
    ELSE [i \in Slots |-> Child(AtDepth(me, Len(ancestors)), i)]

\* The children of position here, old_subtree among them or not.
ChildrenOf(me, F, here, old_subtree) ==
    [i \in Slots |->
        IF \E k \in 0 .. i - 1 : Child(here, k) = old_subtree THEN Invalid
        ELSE IF Child(here, i) = old_subtree /\ old_subtree # Invalid
        THEN RootedNextLiving(F, old_subtree, me)
        ELSE Child(here, i)]

HandlePromotion(me, F, ancestors, old) ==
    IF Len(ancestors) = Len(old.ancestors)
    THEN old.children
    ELSE ChildrenOf(me, F, AtDepth(me, Len(ancestors)), AtDepth(me, Len(ancestors) + 1))

\* update_descendants: replace each failed child by its own next living
\* inheritor. The search is rooted at the failed occupant of the slot.
UpdateDescendants(F, children) ==
    [i \in Slots |-> IF children[i] \in F
                     THEN RootedNextLiving(F, children[i], children[i])
                     ELSE children[i]]

\* The three repair steps, in the order the code runs them.
RepairBelow(me, F, ancestors, old) ==
    [ancestors |-> ancestors,
     children  |-> UpdateDescendants(F, HandlePromotion(me, F, ancestors, old))]

RepairTree(me, F, old) ==
    RepairBelow(me, F, UpdateAncestors(me, F, old.ancestors), old)

\* build_tree_from_base: the fault-free place, then routed around F.
BaseTree(me) ==
    [ancestors |-> [i \in 1 .. DepthOf(me) |-> AtDepth(me, i - 1)],
     children  |-> [i \in Slots |-> Child(me, i)]]

BuildTree(me, F) == RepairTree(me, F, BaseTree(me))

ChildAt(tree, idx) == IF idx \in Slots THEN tree.children[idx] ELSE Invalid

\* Mutant of GetRoute: an ancestor promoted from below is sought below.
RouteWithoutAncestorCheck(me, tree, target) ==
    IF target = me THEN target
    ELSE IF ~SubtreeContains(CurNode(me, tree), target)
    THEN Lifeline(tree)
    ELSE ChildAt(tree, SubtreeIndex(CurNode(me, tree), target))

\* prte_rml_get_route
GetRoute(me, tree, target) ==
    IF target = me THEN target
    ELSE IF \/ ~SubtreeContains(CurNode(me, tree), target)
            \/ target \in ToSet(tree.ancestors)
    THEN Lifeline(tree)
    ELSE ChildAt(tree, SubtreeIndex(CurNode(me, tree), target))

\* is_tree_neighbor
IsTreeNeighbor(me, tree, rank) ==
    \/ rank = Lifeline(tree)
    \/ rank # Invalid /\ rank = ChildAt(tree, SubtreeIndex(CurNode(me, tree), rank))

\* prte_rml_get_num_contributors: how many child slots hold a live member
GetNumContributors(me, tree, F, dmns) ==
    Cardinality({SubtreeIndex(CurNode(me, tree), d) : d \in dmns \ F} \cap
                {i \in Slots : \E j \in i .. radix - 1 : tree.children[j] # Invalid})

==============================================================================

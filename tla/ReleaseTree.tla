----------------------------- MODULE ReleaseTree -----------------------------
(***************************************************************************)
(* The release tree (prte_rml_release_tree, src/rml/routed_radix.c): the   *)
(* second radix tree, over which a collective fans its release out. Its    *)
(* radix is prte_rml_base.radix2, the constant radix of this module. It is *)
(* never repaired step by step: each daemon derives its parent and its     *)
(* children from the failed set F whenever it needs them.                  *)
(***************************************************************************)
EXTENDS Radix

\* The living node that stands in the position of rank r.
Occupant(F, r) == IF IsLiving(F, r) THEN r ELSE RootedNextLiving(F, r, r)

Above(F, r) == IF r = Invalid THEN Invalid ELSE Occupant(F, r)

\* Mutant of Position: a daemon never moves up.
PositionAtBase(F, me) == me

\* The position daemon me occupies: climb while the dead parent slot's
\* replacement is me.
ClimbFrom[F \in SUBSET Ranks, me \in Ranks, p \in Ranks] ==
    IF p = 0 THEN 0
    ELSE IF IsLiving(F, Parent(p)) \/ Occupant(F, Parent(p)) # me THEN p
    ELSE ClimbFrom[F, me, Parent(p)]

Position(F, me) ==
    ClimbFrom[F, me, me]

\* A position's own parent, Invalid for the root's.
ReleaseParent(F, me) == Above(F, Parent(Position(F, me)))

\* The node in a child's slot; below the slot of its own subtree, me comes first.
StandIn(F, me, c) ==
    IF SubtreeContains(c, me) THEN RootedNextLiving(F, c, me) ELSE Occupant(F, c)

ReleaseChildren(F, me) ==
    {StandIn(F, me, c) : c \in {Child(Position(F, me), i) : i \in 0 .. radix - 1} \ {Invalid}}
        \ {Invalid}

==============================================================================

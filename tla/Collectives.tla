----------------------------- MODULE Collectives -----------------------------
(***************************************************************************)
(* The two collectives over one DVM. They keep separate books on separate  *)
(* tags and meet only in the tree they roll up, so the clients of a run    *)
(* use one of them: focus says which.                                      *)
(***************************************************************************)
EXTENDS Fence, Group

VARIABLE focus

collVars == <<vars, fenceVars, groupVars, focus>>

CollInit ==
    /\ FenceInit /\ GroupInit
    /\ focus \in {"fence", "group"}
    /\ focus = "fence" => plan = CHOOSE p \in Plans : TRUE

CollNext ==
    \/ focus = "fence" /\ FenceNext /\ UNCHANGED <<groupVars, focus>>
    \/ focus = "group" /\ GroupNext /\ UNCHANGED <<fenceVars, focus>>

CollMayProgress == IF focus = "fence" THEN MayProgress ELSE GroupMayProgress

CollProgressed == IF focus = "fence" THEN Progressed ELSE GroupProgressed

CollSpec == /\ CollInit /\ [][CollNext]_collVars
            /\ []<>~CollMayProgress \/ []<><<CollProgressed>>_collVars

\* Every fence ends for every live participant and every group operation for every
\* live caller, although the rollup is thrown away and started over when the tree
\* changes: no contribution is lost for good and nobody waits for one that will
\* not come. Left out are a group that is bootstrapped, and one that a deadline or
\* a cancel ends under a caller that is yet to enter.
EveryCollectiveEnds ==
    <>[](IF focus = "fence" THEN \A d \in Members \cap Live : released[d] = MaxRounds
         ELSE Undisturbed /\ RollsUp => \A d \in Live : Len(told[d]) = calls[d])

==============================================================================

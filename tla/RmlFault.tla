------------------------------- MODULE RmlFault -------------------------------
(***************************************************************************)
(* What a daemon does with the news of a departure: the fault handling of  *)
(* src/rml/rml_fault_handler.c on top of the tree repair of                *)
(* src/rml/routed_radix.c, as functions of the daemon's own state          *)
(*   failed    failed_dmns                                                 *)
(*   global    global_failed_dmns                                          *)
(*   revived   revived_dmns                                                *)
(*   tree      its place in the routing tree (module RadixTree)            *)
(*   reported  history: ranks handed to the error manager as departed      *)
(* A handler yields the new state and what it puts out, in order: messages *)
(* to peers, broadcasts the HNP asks for, and a mark for every repair, at  *)
(* the place where the fault handlers of the other components run.         *)
(***************************************************************************)
EXTENDS RadixTree

NewDaemon(me) ==
    [failed |-> {}, global |-> {}, revived |-> {}, tree |-> BuildTree(me, {}), reported |-> {}]

(***************************************************************************)
(* The notices. An upward failure notice carries the departures in the     *)
(* sender's subtree and the sender's lineage; a global one is the HNP's    *)
(* broadcast; an adoption notice tells a child its lineage.                *)
(***************************************************************************)
Died(ranks, lineage) == [tag |-> "died", ranks |-> ranks, lineage |-> lineage]
Adopted(lineage)     == [tag |-> "adopted", lineage |-> lineage]

Send(dst, msg)        == [out |-> "send", dst |-> dst, msg |-> msg]
Broadcast(ranks)      == [out |-> "broadcast", ranks |-> ranks]
Repaired(delta, tree) == [out |-> "repaired", delta |-> delta, tree |-> tree]

\* The status of a repair: the new departures, and how the place changed.
Delta(old, new, ranks) ==
    [failed_ranks     |-> ranks,
     promoted         |-> Len(old.ancestors) # Len(new.ancestors),
     parent_changed   |-> Lifeline(old) # Lifeline(new),
     children_changed |-> old.children # new.children,
     prev_children    |-> old.children,
     prev_parent      |-> Lifeline(old)]

SendToSlots(children, slots, msg) ==
    [n \in DOMAIN slots |-> Send(children[slots[n]], msg)]

\* Mutant of AdoptionNotices: below the first level, the lineage stops short of
\* the adopting parent.
AdoptWithoutMyself(me, dm, delta) ==
    SendToSlots(dm.tree.children,
                SelectSeq([i \in 1 .. radix |-> i - 1],
                          LAMBDA i : dm.tree.children[i] # Invalid),
                Adopted(IF me = 0 THEN <<0>> ELSE dm.tree.ancestors))

\* send_adoption_notices: every child after a promotion, else the changed ones
AdoptionNotices(me, dm, delta) ==
    LET told(i) == /\ dm.tree.children[i] # Invalid
                   /\ delta.promoted \/ delta.prev_children[i] # dm.tree.children[i]
    IN  SendToSlots(dm.tree.children, SelectSeq([i \in 1 .. radix |-> i - 1], told),
                    Adopted(Append(dm.tree.ancestors, me)))

\* Mutant of NamedFailures: a new parent is told of the latest departures only.
NamesTheNewOnly(me, dm, delta, new) ==
    {r \in new : SubtreeContains(CurNode(me, dm.tree), r)}

\* send_failures_notice: which departures it names. A new parent may not know
\* of the older ones, so it is told of all that were not broadcast yet.
NamedFailures(me, dm, delta, new) ==
    {r \in IF delta.parent_changed
           THEN (dm.failed \ dm.global) \cup (dm.global \ dm.failed)
           ELSE new :
        SubtreeContains(CurNode(me, dm.tree), r)}

\* At the HNP the notice is a broadcast; all others send it to their lifeline.
Notify(me, tree, named) ==
    IF me = 0 THEN Broadcast(named) ELSE Send(Lifeline(tree), Died(named, tree.ancestors))

FailuresNotice(me, dm, delta, new) ==
    <<Notify(me, dm.tree, NamedFailures(me, dm, delta, new))>>

(***************************************************************************)
(* prte_rml_repair_routing_tree with the RML's own fault handler. A step   *)
(* is a handler's effect so far: the daemon's state, what it has put out,  *)
(* and whether it ordered a FORCED_EXIT.                                   *)
(***************************************************************************)
Step(dm) == [dm |-> dm, out |-> <<>>, exit |-> FALSE]

Announce(me, dm, delta, new) ==
    AdoptionNotices(me, dm, delta) \o FailuresNotice(me, dm, delta, new)
                                   \o <<Repaired(delta, dm.tree)>>

\* The tree is repaired to tree, and the fault handler run.
Repair(me, step, new, tree) ==
    LET dm == [step.dm EXCEPT !.failed = @ \cup new, !.revived = @ \ new, !.tree = tree]
    IN  [step EXCEPT !.dm = dm,
                     !.out = @ \o Announce(me, dm, Delta(step.dm.tree, tree, new), new)]

LocalPass(me, step, new) ==
    IF new = {} THEN step
    ELSE Repair(me, step, new, RepairTree(me, step.dm.failed \cup new, step.dm.tree))

RepairAnd(me, step, ranks, global) ==
    LocalPass(me, [step EXCEPT !.dm.global = IF global THEN @ \cup ranks ELSE @],
              ranks \ step.dm.failed)

\* report_new_departures: only ranks not recorded yet, so it comes before the
\* repair that records them.
ReportNew(step, ranks) ==
    [step EXCEPT !.dm.reported = @ \cup (ranks \ step.dm.failed)]

\* Mutant of ReportAndRepair: reported after the repair that records the ranks.
RepairThenReport(me, step, ranks, global) ==
    ReportNew(RepairAnd(me, step, ranks, global), ranks)

ReportAndRepair(me, step, ranks, global) ==
    RepairAnd(me, ReportNew(step, ranks), ranks, global)

(***************************************************************************)
(* prte_rml_reconcile_ancestry: what a peer's view of my lineage tells me. *)
(* The walk hypothesises the deaths of ancestors until my list matches the *)
(* report; i is its index, F the failed set with the hypothesised deaths.  *)
(* Its two loops are one here: while i is inside both lists it compares,   *)
(* past the end of the report it takes what my list has there.             *)
(***************************************************************************)
RecordInference(me, dm, w, ancestor) ==
    IF ancestor >= n_dmns \/ ancestor = 0 \/ ancestor \in w.F
    THEN [w EXCEPT !.verdict = "inconsistent"]
    ELSE IF ancestor \in dm.revived
    THEN [w EXCEPT !.verdict = "stale"]
    ELSE [w EXCEPT !.F = @ \cup {ancestor},
                   !.ancestors = UpdateAncestors(me, w.F \cup {ancestor}, @)]

ReconcileStep(me, dm, report, w) ==
    IF w.verdict # "inferred" \/ w.ancestors = report THEN w
    ELSE IF w.i <= Len(report) /\ w.i <= Len(w.ancestors) /\ w.ancestors[w.i] = report[w.i]
    THEN [w EXCEPT !.i = @ + 1]
    ELSE IF w.i <= Len(w.ancestors)
    THEN RecordInference(me, dm, w, w.ancestors[w.i])
    ELSE w

\* Each pass advances i or marks one more living rank dead.
Walk(me, dm, report) ==
    FoldLeft(LAMBDA w, n : ReconcileStep(me, dm, report, w),
             [F |-> dm.failed, ancestors |-> dm.tree.ancestors, i |-> 1, verdict |-> "inferred"],
             [n \in 1 .. Len(dm.tree.ancestors) + n_dmns |-> n])

Verdict(verdict, inferred) == [verdict |-> verdict, inferred |-> inferred]

Concluded(dm, report, w) ==
    IF w.verdict # "inferred"     THEN Verdict(w.verdict, {})
    ELSE IF report # w.ancestors  THEN Verdict("inconsistent", {})
    ELSE Verdict("inferred", w.F \ dm.failed)

Compare(me, dm, report) ==
    IF report = dm.tree.ancestors                THEN Verdict("agreed", {})
    ELSE IF Len(report) > Len(dm.tree.ancestors) THEN Verdict("inconsistent", {})
    ELSE Concluded(dm, report, Walk(me, dm, report))

Reconcile(me, dm, peers_report) ==
    Compare(me, dm, UpdateAncestors(me, dm.failed, peers_report))

(***************************************************************************)
(* Message handlers.                                                       *)
(***************************************************************************)
\* prte_rml_route_lost, and the comm-failed state the transport raises after it
RouteLost(me, dm, route) ==
    [RepairAnd(me, Step(dm), {route}, FALSE) EXCEPT !.dm.reported = @ \cup {route}]

\* The deaths a lineage let a daemon infer are handled like reported ones.
ActOn(me, step, verdict) ==
    IF verdict.verdict = "inferred"
    THEN ReportAndRepair(me, step, verdict.inferred, FALSE) ELSE step

\* reconcile_child_ancestry: a child's lineage, its last entry the parent it
\* sent to. What cannot be placed is dropped.
ReconcileChild(me, step, lineage) ==
    IF lineage = <<>> \/ Last(lineage) # me THEN step
    ELSE ActOn(me, step, Reconcile(me, step.dm, Front(lineage)))

\* prte_rml_recv_failures_notice on the upward leg
RecvFailures(me, dm, msg) ==
    ReconcileChild(me, ReportAndRepair(me, Step(dm), msg.ranks, FALSE), msg.lineage)

\* prte_rml_recv_failures_notice for the HNP's broadcast
RecvGlobalFailures(me, dm, ranks) == ReportAndRepair(me, Step(dm), ranks, TRUE)

\* prte_rml_recv_adoption_notice: a lineage that cannot be placed is fatal
PlaceOrExit(me, dm, verdict) ==
    ActOn(me, [Step(dm) EXCEPT !.exit = verdict.verdict = "inconsistent"], verdict)

RecvAdoption(me, dm, msg) == PlaceOrExit(me, dm, Reconcile(me, dm, msg.lineage))

\* The handler of a notice from a peer.
RecvNotice(me, dm, msg) ==
    IF msg.tag = "died" THEN RecvFailures(me, dm, msg) ELSE RecvAdoption(me, dm, msg)

==============================================================================

------------------------------- MODULE GroupOps -------------------------------
(***************************************************************************)
(* The group operations of src/grpcomm/grpcomm_group.c: one daemon's       *)
(* handlers, as functions of the routing state dm (module RmlFault) and of *)
(* the daemon's own books                                                  *)
(*   epoch   recovery_epoch                                                *)
(*   memo    completed_group_ops                                           *)
(*   ops     group_ops: the trackers, by operation                         *)
(*   groups  prte_pmix_server_globals.groups: the memberships on record    *)
(*   ctxid   the number of context ids handed out (the HNP's)              *)
(* One group name is modelled and each daemon hosts at most one of its     *)
(* processes, so a process is named by its daemon and a membership is a    *)
(* set of ranks. A signature is a record [op, members, addmembers,         *)
(* bootstrap, follower, ft_collective, assignID, final_order]; an order is *)
(* the set of the processes it lists, and NoOrder if none was given.       *)
(***************************************************************************)
EXTENDS FenceOps

NoOrder == {"none"}

NewGroups == [epoch |-> 0, memo |-> {}, ops |-> <<>>, groups |-> <<>>, ctxid |-> 0]

GroupStep(gd) == [gd |-> gd, out |-> <<>>]

Bootstraps(sig) == sig.bootstrap > 0 \/ sig.follower

\* create_dmns and the count get_tracker takes of it
GroupExpected(me, dm, sig) ==
    GetNumContributors(me, dm.tree, dm.failed, sig.members)
        + (IF me \in sig.members THEN 1 ELSE 0)

\* get_tracker, when there is none: nfollowers is the number of addmembers
NewGroupTracker(me, dm, sig) ==
    [sig |-> sig, reported_slots |-> {}, self_reported |-> FALSE,
     nexpected |-> IF Bootstraps(sig) THEN 0 ELSE GroupExpected(me, dm, sig),
     bootstrap |-> Bootstraps(sig), nleaders |-> sig.bootstrap,
     nleaders_reported |-> 0, nfollowers_reported |-> 0,
     status |-> "success", timeout |-> FALSE, tev_active |-> FALSE,
     converged |-> FALSE, aborting |-> FALSE, endpts |-> EmptyBag,
     my_contribution |-> NoMsg, pending |-> 0]

\* get_tracker, when there is one: what the signature adds to it
LeaderClash(coll, sig) == sig.bootstrap > 0 /\ coll.nleaders \notin {0, sig.bootstrap}

OrderClash(coll, sig) ==
    NoOrder \notin {sig.final_order, coll.sig.final_order} /\ sig.final_order # coll.sig.final_order

MergeSignature(coll, sig) ==
    [coll EXCEPT
        !.nleaders = IF sig.bootstrap > 0 THEN sig.bootstrap ELSE @,
        !.bootstrap = @ \/ Bootstraps(sig),
        !.sig.members = IF sig.bootstrap > 0 THEN @ \cup sig.members ELSE @,
        !.sig.addmembers = @ \cup sig.addmembers,
        !.sig.final_order = IF @ = NoOrder THEN sig.final_order ELSE @,
        !.sig.assignID = @ \/ (~OrderClash(coll, sig) /\ sig.assignID),
        !.sig.ft_collective = @ \/ (~OrderClash(coll, sig) /\ sig.ft_collective)]

\* get_tracker: the tracker, and whether the signature could be matched with it
GetGroup(me, dm, gd, sig) ==
    IF sig.op \notin DOMAIN gd.ops THEN [ok |-> TRUE, coll |-> NewGroupTracker(me, dm, sig)]
    ELSE IF LeaderClash(gd.ops[sig.op], sig) THEN [ok |-> FALSE, coll |-> gd.ops[sig.op]]
    ELSE [ok |-> ~OrderClash(gd.ops[sig.op], sig), coll |-> MergeSignature(gd.ops[sig.op], sig)]

SetGroup(gd, op, coll) ==
    [gd EXCEPT !.ops = [o \in DOMAIN @ \cup {op} |-> IF o = op THEN coll ELSE @[o]]]

------------------------------------------------------------------------------
\* What the release of an operation says.
GroupRelease(op, status, members, departed, ctxid, endpts) ==
    [out |-> "release", op |-> op, status |-> status, members |-> members,
     departed |-> departed, ctxid |-> ctxid, endpts |-> endpts]

\* abort_group_op
AbortGroupOp(step, op, st) ==
    [gd  |-> [step.gd EXCEPT !.ops[op].aborting = TRUE],
     out |-> Append(step.out, GroupRelease(op, st, {}, {}, 0, EmptyBag))]

\* group_timeout
GroupTimeout(gd, op) ==
    LET fired == [gd EXCEPT !.ops[op].tev_active = FALSE]
    IN  IF gd.ops[op].converged \/ gd.ops[op].aborting THEN GroupStep(fired)
        ELSE AbortGroupOp(GroupStep([fired EXCEPT !.ops[op].status = "timeout"]), op, "timeout")

\* group_lost_member and collect_departed
Departed(dm, sig) == (sig.members \cup sig.addmembers) \cap dm.failed

\* check_complete, whether everyone has reported
EveryoneReported(coll) ==
    IF coll.bootstrap
    THEN /\ coll.nleaders > 0
         /\ coll.nleaders_reported >= coll.nleaders
         /\ coll.nfollowers_reported >= Cardinality(coll.sig.addmembers)
    ELSE NReported(coll) >= coll.nexpected

\* check_complete, the answer of the HNP to a construct: the context id is taken
\* even if the final membership turns out wrong.
ConstructAnswer(step, coll, departed) ==
    LET final  == (coll.sig.members \cup coll.sig.addmembers) \ departed
        status == IF coll.sig.final_order # NoOrder /\ ~(final \subseteq coll.sig.final_order)
                  THEN "bad_param"
                  ELSE IF final = {} THEN "construct_abort" ELSE coll.status
        ctxid  == step.gd.ctxid + (IF coll.sig.assignID THEN 1 ELSE 0)
    IN  [gd  |-> [step.gd EXCEPT !.ctxid = ctxid],
         out |-> Append(step.out, GroupRelease("construct", status, final, departed,
                                               IF coll.sig.assignID THEN ctxid ELSE 0,
                                               coll.endpts))]

GroupAnswer(dm, step, coll) ==
    IF coll.sig.op = "destruct"
    THEN [step EXCEPT !.out = Append(@, GroupRelease("destruct", coll.status, {}, {}, 0, EmptyBag))]
    ELSE IF Departed(dm, coll.sig) # {} /\ ~coll.sig.ft_collective
    THEN [step EXCEPT !.out = Append(@, GroupRelease("construct", "construct_abort", {}, {}, 0,
                                                     EmptyBag))]
    ELSE ConstructAnswer(step, coll, Departed(dm, coll.sig))

\* check_complete, the aggregate for the parent of everyone else
GroupRollup(dm, step, coll) ==
    [step EXCEPT !.out =
        Append(@, FenceSend(Lifeline(dm.tree),
                            Frame(step.gd, [sig |-> coll.sig, status |-> coll.status,
                                            timeout |-> coll.timeout, endpts |-> coll.endpts])))]

\* check_complete
GroupComplete(me, dm, step, coll) ==
    IF coll.converged \/ coll.aborting \/ ~EveryoneReported(coll)
    THEN [step EXCEPT !.gd = SetGroup(@, coll.sig.op, coll)]
    ELSE LET latched == [step EXCEPT !.gd = SetGroup(@, coll.sig.op, [coll EXCEPT
                                                !.converged = TRUE, !.tev_active = FALSE])]
         IN  IF me = 0 THEN GroupAnswer(dm, latched, coll) ELSE GroupRollup(dm, latched, coll)

------------------------------------------------------------------------------
\* mutant of GroupRestartOne: what was gathered before the restart is kept
GroupRestartKeeping(me, dm, step, coll) ==
    IF coll.bootstrap \/ coll.aborting \/ (me = 0 /\ coll.converged) THEN step
    ELSE LET fresh == [coll EXCEPT !.reported_slots = {}, !.self_reported = FALSE,
                                   !.converged = FALSE, !.status = "success",
                                   !.nexpected = GroupExpected(me, dm, coll.sig)]
         IN  IF coll.my_contribution = NoMsg THEN GroupComplete(me, dm, step, fresh)
             ELSE [gd  |-> SetGroup(step.gd, coll.sig.op, fresh),
                   out |-> Append(step.out,
                                  FenceSend(me, Frame(step.gd, coll.my_contribution)))]

\* prte_grpcomm_group_restart, for one tracker
GroupRestartOne(me, dm, step, coll) ==
    IF coll.bootstrap \/ coll.aborting \/ (me = 0 /\ coll.converged) THEN step
    ELSE LET fresh == [coll EXCEPT !.reported_slots = {}, !.self_reported = FALSE,
                                   !.converged = FALSE, !.status = "success",
                                   !.endpts = EmptyBag,
                                   !.nexpected = GroupExpected(me, dm, coll.sig)]
         IN  IF coll.my_contribution = NoMsg THEN GroupComplete(me, dm, step, fresh)
             ELSE [gd  |-> SetGroup(step.gd, coll.sig.op, fresh),
                   out |-> Append(step.out,
                                  FenceSend(me, Frame(step.gd, coll.my_contribution)))]

\* prte_grpcomm_advance_epoch
AdvanceGroups(me, dm, step, to) ==
    IF to <= step.gd.epoch THEN step
    ELSE FoldSet(LAMBDA op, s : GroupRestartOne(me, dm, s, s.gd.ops[op]),
                 [step EXCEPT !.gd.epoch = to], DOMAIN step.gd.ops)

\* prte_grpcomm_group_fault_handler: the operations the HNP gives up
Hopeless(dm, coll) ==
    /\ ~coll.aborting /\ ~coll.converged
    /\ \/ coll.bootstrap
       \/ /\ coll.sig.op = "construct" /\ ~coll.sig.ft_collective
          /\ Departed(dm, coll.sig) # {}

AbortStatus(op) == IF op = "construct" THEN "construct_abort" ELSE "success"

GroupFaultHandler(me, dm, step) ==
    IF me # 0 THEN step
    ELSE FoldSet(LAMBDA op, s : AbortGroupOp(s, op, AbortStatus(op)), step,
                 {op \in DOMAIN step.gd.ops : Hopeless(dm, step.gd.ops[op])})

\* prte_grpcomm_fault_handler for a global notice
GroupGlobalFault(me, dm, gd, epoch) ==
    AdvanceGroups(me, dm, GroupFaultHandler(me, dm, GroupStep(gd)), epoch)

------------------------------------------------------------------------------
GroupAnswered(status, op, members, ctxid, endpts) ==
    [out |-> "answer", op |-> op, status |-> status, members |-> members, ctxid |-> ctxid,
     endpts |-> endpts]

\* request_group_cancel: a message for the HNP, acknowledged at once
RequestGroupCancel(gd, sig) ==
    [gd |-> gd, out |-> <<FenceSend(0, Frame(gd, [sig |-> sig])),
                          GroupAnswered("success", "cancel", {}, 0, EmptyBag)>>]

\* group: a local call
GroupOpened(me, gd, sig, timeout, coll) ==
    LET body == [sig |-> sig, status |-> "success", timeout |-> timeout,
                 endpts |-> IF sig.op = "construct" THEN SetToBag({me}) ELSE EmptyBag]
    IN  [gd  |-> SetGroup(gd, sig.op, [coll EXCEPT !.pending = @ + 1, !.my_contribution = body]),
         out |-> <<FenceSend(IF coll.bootstrap THEN 0 ELSE me, Frame(gd, body))>>]

GroupEntered(me, gd, sig, timeout, found) ==
    IF found.ok THEN GroupOpened(me, gd, sig, timeout, found.coll)
    ELSE [gd  |-> SetGroup(gd, sig.op, found.coll),
          out |-> <<GroupAnswered("not_found", sig.op, {}, 0, EmptyBag)>>]

\* group_op_forget
Forget(gd, op) == [gd EXCEPT !.memo = @ \ {op}]

GroupCall(me, dm, gd, sig, timeout) ==
    IF sig.op = "cancel" THEN RequestGroupCancel(gd, sig)
    ELSE GroupEntered(me, Forget(gd, sig.op), sig, timeout, GetGroup(me, dm, gd, sig))

------------------------------------------------------------------------------
\* prte_grpcomm_grp_recv, what a contribution adds to the tracker
GroupAbsorb(me, coll, slot, body) ==
    LET timeout == coll.timeout \/ body.timeout
        member  == ~Bootstraps(body.sig)
    IN  [coll EXCEPT
            !.status = IF @ = "success" THEN body.status ELSE @,
            !.timeout = timeout,
            !.tev_active = @ \/ (timeout /\ me = 0),
            !.endpts = @ (+) body.endpts,
            !.nleaders_reported = @ + (IF body.sig.bootstrap > 0 THEN 1 ELSE 0),
            !.nfollowers_reported =
                @ + (IF body.sig.bootstrap = 0 /\ body.sig.follower THEN 1 ELSE 0),
            !.self_reported = @ \/ (member /\ slot = Self),
            !.reported_slots = IF member /\ slot # Self THEN @ \cup {slot} ELSE @]

\* A subtree that has been heard from, or is none of ours, adds nothing.
GroupContribution(me, dm, step, slot, coll, body) ==
    IF ~coll.bootstrap /\ (slot = Invalid \/ Heard(coll, slot))
    THEN [step EXCEPT !.gd = SetGroup(@, body.sig.op, coll)]
    ELSE GroupComplete(me, dm, step,
                       GroupAbsorb(me, coll, IF coll.bootstrap THEN Self ELSE slot, body))

GroupTracked(me, dm, step, from, body, found) ==
    IF ~found.ok THEN [step EXCEPT !.gd = SetGroup(@, body.sig.op, found.coll)]
    ELSE GroupContribution(me, dm, step,
                           IF from = me THEN Self
                           ELSE SubtreeIndex(CurNode(me, dm.tree), from),
                           found.coll, body)

\* group_op_completed: a straggler of an operation that was released here
GroupCurrent(me, dm, step, from, body) ==
    IF body.sig.op \in step.gd.memo THEN step
    ELSE GroupTracked(me, dm, step, from, body, GetGroup(me, dm, step.gd, body.sig))

\* prte_grpcomm_grp_recv, a cancel: find_construct_op
GroupCancel(me, gd) ==
    IF me # 0 \/ "construct" \notin DOMAIN gd.ops THEN GroupStep(gd)
    ELSE AbortGroupOp(GroupStep(gd), "construct", "construct_abort")

\* prte_grpcomm_grp_recv
GroupRecv(me, dm, gd, from, msg) ==
    IF msg.body.sig.op = "cancel" THEN GroupCancel(me, gd)
    ELSE IF Bootstraps(msg.body.sig)
    THEN GroupCurrent(me, dm, GroupStep(gd), from, msg.body)
    ELSE IF msg.stamp < gd.epoch THEN GroupStep(gd)
    ELSE GroupCurrent(me, dm, AdvanceGroups(me, dm, GroupStep(gd), msg.stamp), from, msg.body)

------------------------------------------------------------------------------

\* group_op_remember and find_delete_tracker
FindDeleteTracker(gd, op) ==
    [gd EXCEPT !.memo = @ \cup {op}, !.ops = [o \in DOMAIN @ \ {op} |-> @[o]]]

\* Every up-call the tracker absorbed is owed its own completion.
Completions(gd, rel) ==
    IF rel.op \notin DOMAIN gd.ops THEN <<>>
    ELSE [i \in 1 .. gd.ops[rel.op].pending |->
            GroupAnswered(rel.status, rel.op,
                          IF rel.status = "success" THEN rel.members ELSE {},
                          IF rel.status = "success" THEN rel.ctxid ELSE 0,
                          IF rel.status = "success" THEN rel.endpts ELSE EmptyBag)]

\* prte_grpcomm_grp_release of a destruct
DestructRelease(gd, rel) ==
    [gd  |-> FindDeleteTracker([gd EXCEPT !.groups = IF @ = <<>> THEN @ ELSE Tail(@)], rel.op),
     out |-> Completions(gd, rel)]

\* grp_release_complete: the second half of the release of a construct
GrpReleaseComplete(gd, rel) ==
    [gd  |-> FindDeleteTracker([gd EXCEPT !.groups = IF rel.status = "success"
                                                     THEN Append(@, rel.members) ELSE @], rel.op),
     out |-> Completions(gd, rel)]

\* prte_grpcomm_grp_release: of a construct that succeeded the resources go to
\* the PMIx server first, and GrpReleaseComplete waits for its answer
GrpRelease(gd, rel) ==
    IF rel.op = "destruct" THEN DestructRelease(gd, rel)
    ELSE IF rel.status # "success" THEN GrpReleaseComplete(gd, rel)
    ELSE [gd |-> gd, out |-> <<[out |-> "register", rel |-> rel]>>]

==============================================================================

------------------------------- MODULE FenceOps -------------------------------
(***************************************************************************)
(* The fence of src/grpcomm/grpcomm_fence.c: one daemon's handlers, as     *)
(* functions of the routing state dm (module RmlFault) and of the daemon's *)
(* own books                                                               *)
(*   epoch  recovery_epoch                                                 *)
(*   next   the round the next fence opens: what the memo of releases      *)
(*          says, or the baseline                                          *)
(*   ops    fence_ops: the trackers, by generation                         *)
(* One signature is modelled, the fences over one set of participants. A   *)
(* handler yields the new books and what it puts out, in order.            *)
(***************************************************************************)
EXTENDS RmlFault, Bags

CONSTANTS Members,  \* the daemons that host participants: dmns
          Late      \* the daemons a grow added to the running DVM

ASSUME FenceAssumption == Members \subseteq Ranks /\ Late \subseteq Ranks \ {0}

Unknown == -1    \* PRTE_GRPCOMM_FENCE_GEN_UNKNOWN

NoMsg == [op |-> "unknown"]

\* prte_grpcomm_fence_gen_baseline
GenBaseline(me) == IF me \in Late THEN Unknown ELSE 0

NewFences(me) == [epoch |-> 0, next |-> GenBaseline(me), ops |-> <<>>]

\* Mutant of GenIsStale: every round looks current.
NeverStale(fd, gen) == FALSE

\* prte_grpcomm_fence_gen_is_stale
GenIsStale(fd, gen) == gen # Unknown /\ fd.next # Unknown /\ gen < fd.next

\* prte_grpcomm_fence_gen_record
GenRecord(fd, gen) ==
    IF gen = Unknown THEN fd ELSE [fd EXCEPT !.next = IF @ < gen + 1 THEN gen + 1 ELSE @]

\* set_nexpected
NExpected(me, dm) ==
    GetNumContributors(me, dm.tree, dm.failed, Members) + (IF me \in Members THEN 1 ELSE 0)

\* A tracker; nreported is what reported and self_reported count.
NewTracker(me, dm) ==
    [reported_slots |-> {}, self_reported |-> FALSE, nexpected |-> NExpected(me, dm),
     op |-> "unknown", status |-> "success", timeout |-> FALSE, tev_active |-> FALSE,
     converged |-> FALSE, aborting |-> FALSE, bucket |-> EmptyBag,
     my_contribution |-> NoMsg, cbfunc |-> FALSE]

NReported(coll) ==
    Cardinality(coll.reported_slots) + (IF coll.self_reported THEN 1 ELSE 0)

\* get_tracker
GetTracker(me, dm, fd, gen) ==
    IF gen \in DOMAIN fd.ops THEN fd.ops[gen] ELSE NewTracker(me, dm)

SetTracker(fd, gen, coll) ==
    [fd EXCEPT !.ops = [g \in DOMAIN @ \cup {gen} |-> IF g = gen THEN coll ELSE @[g]]]

\* prte_grpcomm_fence_op_merge, with the status a disagreement leaves
OpMerge(coll, incoming) ==
    IF coll.op = "unknown"    THEN [coll EXCEPT !.op = incoming]
    ELSE IF coll.op = incoming \/ coll.status # "success" THEN coll
    ELSE [coll EXCEPT !.status = "invalid_arg"]

------------------------------------------------------------------------------
FenceStep(fd) == [fd |-> fd, out |-> <<>>]

FenceSend(dst, msg) == [out |-> "send", dst |-> dst, msg |-> msg]

\* pack_epoch_frame
Frame(fd, body) == [stamp |-> fd.epoch, body |-> body]

\* What a release says: the round it ends, the status, and what was gathered.
Release(gen, status, data) == [out |-> "release", gen |-> gen, status |-> status, data |-> data]

\* tree_gather_answer: the HNP broadcasts the result, everyone else sends the
\* aggregate to its parent.
TreeGatherAnswer(me, dm, fd, gen, coll) ==
    LET data == IF coll.op = "barrier" THEN EmptyBag ELSE coll.bucket
    IN  IF me = 0 THEN Release(gen, coll.status, data)
        ELSE FenceSend(Lifeline(dm.tree),
                       Frame(fd, [op |-> coll.op, gen |-> gen, timeout |-> coll.timeout,
                                  status |-> coll.status, data |-> data]))

\* check_complete, for the tracker coll of round gen
CheckComplete(me, dm, step, gen, coll) ==
    IF coll.converged \/ coll.aborting \/ NReported(coll) < coll.nexpected
    THEN [step EXCEPT !.fd = SetTracker(@, gen, coll)]
    ELSE [fd  |-> SetTracker(step.fd, gen,
                             [coll EXCEPT !.converged = TRUE, !.tev_active = FALSE]),
          out |-> Append(step.out, TreeGatherAnswer(me, dm, step.fd, gen, coll))]

\* abort_fence_op
AbortFenceOp(step, gen, st) ==
    [fd  |-> [step.fd EXCEPT !.ops[gen].aborting = TRUE],
     out |-> Append(step.out, Release(gen, st, EmptyBag))]

\* fence_timeout
FenceTimeout(fd, gen) ==
    LET fired == [fd EXCEPT !.ops[gen].tev_active = FALSE]
    IN  IF fd.ops[gen].converged \/ fd.ops[gen].aborting THEN FenceStep(fired)
        ELSE AbortFenceOp(FenceStep([fired EXCEPT !.ops[gen].status = "timeout"]), gen, "timeout")

------------------------------------------------------------------------------
\* Mutant of RestartOne: a converged relay keeps what it had.
RestartUnconverged(me, dm, step, gen, coll) ==
    IF coll.aborting \/ coll.converged THEN step
    ELSE LET fresh == [coll EXCEPT !.reported_slots = {}, !.self_reported = FALSE,
                                   !.bucket = EmptyBag, !.nexpected = NExpected(me, dm)]
         IN  IF coll.my_contribution = NoMsg THEN CheckComplete(me, dm, step, gen, fresh)
             ELSE [fd  |-> SetTracker(step.fd, gen, fresh),
                   out |-> Append(step.out,
                                  FenceSend(me, Frame(step.fd, coll.my_contribution)))]

\* prte_grpcomm_fence_restart, for one tracker
RestartOne(me, dm, step, gen, coll) ==
    IF coll.aborting \/ (me = 0 /\ coll.converged) THEN step
    ELSE LET fresh == [coll EXCEPT !.reported_slots = {}, !.self_reported = FALSE,
                                   !.converged = FALSE, !.bucket = EmptyBag,
                                   !.nexpected = NExpected(me, dm)]
         IN  IF coll.my_contribution = NoMsg THEN CheckComplete(me, dm, step, gen, fresh)
             ELSE [fd  |-> SetTracker(step.fd, gen, fresh),
                   out |-> Append(step.out,
                                  FenceSend(me, Frame(step.fd, coll.my_contribution)))]

FenceRestart(me, dm, step) ==
    FoldSet(LAMBDA gen, s : RestartOne(me, dm, s, gen, s.fd.ops[gen]),
            step, DOMAIN step.fd.ops)

\* prte_grpcomm_advance_epoch
AdvanceEpoch(me, dm, step, to) ==
    IF to <= step.fd.epoch THEN step
    ELSE FenceRestart(me, dm, [step EXCEPT !.fd.epoch = to])

\* prte_grpcomm_fence_fault_handler at the global scope: the HNP ends the fences
\* that lost a participant
FenceFaultHandler(me, dm, step) ==
    IF me # 0 \/ Members \cap dm.failed = {} THEN step
    ELSE FoldSet(LAMBDA gen, s : AbortFenceOp(s, gen, "lost_connection"), step,
                 {gen \in DOMAIN step.fd.ops :
                    ~step.fd.ops[gen].aborting /\ ~step.fd.ops[gen].converged})

\* prte_grpcomm_fault_handler for a global notice
GlobalFault(me, dm, fd, epoch) ==
    AdvanceEpoch(me, dm, FenceFaultHandler(me, dm, FenceStep(fd)), epoch)

------------------------------------------------------------------------------
\* fence: a local call, of operation op and with or without a timeout; value is
\* what it contributes.
FenceOpened(me, step, gen, coll, timeout, value) ==
    LET body == [op |-> coll.op, gen |-> gen, timeout |-> timeout, status |-> "success",
                 data |-> IF coll.op = "allgather" THEN SetToBag({value}) ELSE EmptyBag]
    IN  [fd  |-> SetTracker(step.fd, gen, [coll EXCEPT !.cbfunc = TRUE, !.my_contribution = body]),
         out |-> <<FenceSend(me, Frame(step.fd, body))>>]

FenceCall(me, dm, fd, op, timeout, value) ==
    FenceOpened(me, FenceStep(fd), fd.next,
                OpMerge(GetTracker(me, dm, fd, fd.next), op), timeout, value)

\* prte_grpcomm_fence_recv from the point where the tracker is known; slot is
\* Self for a contribution of the daemon's own.
Self == -1

Heard(coll, slot) ==
    IF slot = Self THEN coll.self_reported ELSE slot \in coll.reported_slots

Absorb(me, coll, slot, body) ==
    LET timeout == coll.timeout \/ body.timeout
    IN  [coll EXCEPT
            !.timeout = timeout,
            !.status = IF @ = "success" THEN body.status ELSE @,
            !.tev_active = @ \/ (timeout /\ me = 0),
            !.bucket = IF coll.op = "allgather" THEN @ (+) body.data ELSE @,
            !.self_reported = @ \/ slot = Self,
            !.reported_slots = IF slot = Self THEN @ ELSE @ \cup {slot}]

FenceContribution(me, dm, step, slot, gen, coll, body) ==
    IF Heard(coll, slot) THEN [step EXCEPT !.fd = SetTracker(@, gen, coll)]
    ELSE CheckComplete(me, dm, step, gen, Absorb(me, coll, slot, body))

FenceJoin(me, dm, step, slot, gen, body) ==
    FenceContribution(me, dm, step, slot, gen,
                      OpMerge(GetTracker(me, dm, step.fd, gen), body.op), body)

FenceCurrent(me, dm, step, from, body) ==
    IF from # me /\ SubtreeIndex(CurNode(me, dm.tree), from) = Invalid THEN step
    ELSE FenceJoin(me, dm, step,
                   IF from = me THEN Self ELSE SubtreeIndex(CurNode(me, dm.tree), from),
                   IF body.gen = Unknown THEN step.fd.next ELSE body.gen, body)

FenceRound(me, dm, step, from, body) ==
    IF GenIsStale(step.fd, body.gen) THEN step ELSE FenceCurrent(me, dm, step, from, body)

\* prte_grpcomm_fence_recv
FenceRecv(me, dm, fd, from, msg) ==
    IF msg.stamp < fd.epoch THEN FenceStep(fd)
    ELSE FenceRound(me, dm, AdvanceEpoch(me, dm, FenceStep(fd), msg.stamp), from, msg.body)

------------------------------------------------------------------------------
\* fence_release_process: the round is recorded, its tracker retired (a joiner's
\* is filed under Unknown), and then the local participants are answered.
Retire(fd, gen) == [fd EXCEPT !.ops = [g \in DOMAIN @ \ {gen} |-> @[g]]]

Answered(coll, rel) ==
    IF ~coll.cbfunc THEN <<>>
    ELSE <<[out |-> "answer", status |-> rel.status,
            data |-> IF coll.op = "barrier" THEN EmptyBag ELSE rel.data]>>

FenceReleased(fd, gen, rel) ==
    IF gen \notin DOMAIN fd.ops THEN FenceStep(fd)
    ELSE [fd |-> Retire(fd, gen), out |-> Answered(fd.ops[gen], rel)]

\* Mutant of FenceRelease: the newest tracker of the signature is taken for the
\* round that was released.
ReleaseNewest(fd, rel) ==
    FenceReleased(GenRecord(fd, rel.gen),
                  IF fd.ops = <<>> THEN Unknown ELSE Max(DOMAIN fd.ops), rel)

FenceRelease(fd, rel) ==
    FenceReleased(GenRecord(fd, rel.gen),
                  IF rel.gen \in DOMAIN fd.ops THEN rel.gen ELSE Unknown, rel)

==============================================================================

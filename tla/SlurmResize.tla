---------------------------- MODULE SlurmResize ----------------------------
(***************************************************************************)
(* ras/slurm: how the DVM master grows and shrinks the Slurm allocation it *)
(* runs in.  An extend is a second Slurm job asked for with salloc, whose  *)
(* nodes join the DVM once Slurm grants them; a release first shrinks the  *)
(* DVM and only then gives the nodes back; a cancel names an extend that   *)
(* has not been granted yet.                                               *)
(*                                                                         *)
(* All the code runs in the master's event loop, so every handler is one   *)
(* step.  Between the steps Slurm grants or cancels a job, a salloc child  *)
(* exits, a timer fires, the daemons of a grow come up or a shrink         *)
(* completes.  Job 1 is the allocation the master was started in; request  *)
(* identifiers a tool chooses are numbers from 100 up, so that they differ *)
(* from the job identifiers that stand in for missing ones.                *)
(***************************************************************************)
EXTENDS Integers, Sequences, FiniteSets, SequencesExt

CONSTANTS
  SlPlans,     \* the scenarios: the allocation, the requests, the fault
  SlMaxTries   \* PRTE_SLURM_GRANT_RETRY_MAX

ASSUME SlTriesAssumption == SlMaxTries \in Nat

VARIABLE sl

SlParent == 1

(* The number of time units in Slurm's unit for time limits, the minute.   *)
SlMinute == 2

SlNoTracker == [req |-> 0, rid |-> 0, job |-> 0, tries |-> 0, ev |-> "none"]

SlMost(a, b) == IF a > b THEN a ELSE b

----------------------------------------------------------------------------
(***************************************************************************)
(* Slurm, as seen through scontrol and scancel.                            *)
(***************************************************************************)
SlKillJob(s, j) == [s EXCEPT !.jobs[j].st = "ended", !.jobs[j].nodes = {}]

SlHeldBySlurm(s) == UNION {s.jobs[j].nodes : j \in DOMAIN s.jobs}

(* discover: the nodes SLURM_NODELIST names, a range at a time, and the    *)
(* tasks SLURM_TASKS_PER_NODE gives them, a run of equal counts at a time; *)
(* nodes past the last run get none, and a run past the last node is cut.  *)
SlRange(r) == [k \in 1..SlMost(0, r[2] - r[1] + 1) |-> r[1] + k - 1]

SlNodelist(ranges) == FlattenSeq([k \in DOMAIN ranges |-> SlRange(ranges[k])])

SlTaskRuns(tasks) == FlattenSeq([k \in DOMAIN tasks |-> [i \in 1..tasks[k][2] |-> tasks[k][1]]])

SlBase(p) == SlNodelist(p.ranges)

SlSlotsAt(runs, k) == IF k <= Len(runs) THEN runs[k] ELSE 0

SlBaseSlots(p, n) == SlSlotsAt(SlTaskRuns(p.tasks), CHOOSE k \in DOMAIN SlBase(p) : SlBase(p)[k] = n)

(* add_modified_resources: the threads of the allocated cores, within the  *)
(* hardware threads of the node.                                           *)
SlGrantedSlots(p) ==
  IF p.cores * p.tpc > p.cpus THEN p.cpus ELSE p.cores * p.tpc

(* get_jobinfo_json: scontrol may fail, or answer what cannot be parsed;   *)
(* extract_job_fields may besides meet a field of the wrong form.          *)
SlJobInfo(s) == IF "query" \in s.plan.faults THEN "ERR_SLURM_QUERY_FAILURE" ELSE "SUCCESS"

SlJobFields(s) == IF "fields" \in s.plan.faults THEN "ERR_JSON_PARSE_FAILURE" ELSE "SUCCESS"

(* check_resources: what scontrol says of the job's state.                 *)
SlCheckResources(s, j) ==
  IF SlJobInfo(s) # "SUCCESS" THEN SlJobInfo(s)
  ELSE IF s.jobs[j].st = "running" THEN "SUCCESS"
  ELSE IF s.jobs[j].st = "pending" THEN "ERR_RESOURCE_BUSY" ELSE "ERR_JOB_CANCELLED"

(* get_job_times: the job's start, and its end when it has a time limit.   *)
SlEnd(start, limit) == IF limit = 0 THEN 0 ELSE start + SlMinute * limit

SlAnswer(s, i, what) == [s EXCEPT !.ans[i] = Append(@, what)]

----------------------------------------------------------------------------
(***************************************************************************)
(* The pending requests: extends that a cancel may still name.             *)
(***************************************************************************)
SlFindPending(s, rid) == {p \in s.pend : p.rid = rid}

SlRemovePending(s, rid) == [s EXCEPT !.pend = @ \ SlFindPending(s, rid)]

(* cancel_req_at: the job is cancelled and the record dropped.             *)
SlCancelAt(s, p) == [SlKillJob(s, p.job) EXCEPT !.pend = @ \ {p}]

SlCancelPending(s, rid) ==
  FoldLeft(SlCancelAt, s, SetToSeq(SlFindPending(s, rid)))

----------------------------------------------------------------------------
(***************************************************************************)
(* Extend: ask Slurm for a job.                                            *)
(***************************************************************************)
(* limit_to_parent_remainder: ask for no more minutes than the parent has  *)
(* left, and never for less than one.                                      *)
SlLimitToParent(p) ==
  IF p.parentEnd = 0 THEN p.limit ELSE SlMost(1, (p.parentEnd - p.now) \div SlMinute)

SlFreeSlot(s) == CHOOSE t \in DOMAIN s.trks :
  s.trks[t].job = 0 /\ \A u \in DOMAIN s.trks : u < t => s.trks[u].job # 0

(* (altered) The child is never told where its tracker is.                  *)
SlLinkNobody(s, j, t) == s

(* The tracker is stored and the salloc child is told where it is.         *)
SlLinkChild(s, j, t) ==
  [s EXCEPT !.kids = {IF k.job = j THEN [k EXCEPT !.trk = t] ELSE k : k \in @}]

SlTrack(s, i, rid, j, t) ==
  SlLinkChild([s EXCEPT !.trks[t] =
                 [req |-> i, rid |-> rid, job |-> j, tries |-> 0, ev |-> "child"]], j, t)

(* add_pending_req refuses an identifier that names another job, and the   *)
(* new job is then cancelled.                                              *)
SlAddPending(s, i, rid, j) ==
  IF SlFindPending(s, rid) # {} THEN SlAnswer(SlKillJob(s, j), i, "EXISTS")
  ELSE SlTrack([s EXCEPT !.pend = @ \cup {[rid |-> rid, job |-> j]}], i, rid, j, SlFreeSlot(s))

(* exec_salloc: the child is on the list before its output is read; it     *)
(* names the job Slurm queued, or ends without doing so.                   *)
SlSubmit(s, i, r, j, limit) ==
  IF "salloc" \in s.plan.faults
  THEN SlAnswer([s EXCEPT !.kids = @ \cup {[job |-> 0, trk |-> 0]}], i, "ERR_SLURM_SUBMIT_FAILURE")
  ELSE SlAddPending(
         [s EXCEPT !.jobs = Append(@, [st |-> "pending", nodes |-> {}, want |-> r.n,
                                       names |-> r.names, limit |-> limit, trim |-> FALSE]),
                   !.kids = @ \cup {[job |-> j, trk |-> 0]}],
         i, IF r.id = 0 THEN j ELSE r.id, j)

(* vet_node_list: a list of names must be usable, and stands for a count.  *)
SlVetted(r) ==
  IF r.names = {} THEN r ELSE [r EXCEPT !.n = Cardinality(r.names)]

SlServeExtend(s, i, r) ==
  IF r.n > 0 /\ r.names # {} THEN SlAnswer(s, i, "ERR_BAD_PARAM")
  ELSE IF r.n = 0 /\ r.names = {} THEN SlAnswer(s, i, "ERR_REQUEST")
  ELSE IF SlJobFields(s) # "SUCCESS" THEN SlAnswer(s, i, SlJobFields(s))
  ELSE SlSubmit(s, i, SlVetted(r), Len(s.jobs) + 1,
                IF s.plan.propagate THEN SlLimitToParent(s.plan) ELSE 0)

----------------------------------------------------------------------------

(***************************************************************************)
(* Extend: take over what Slurm granted.                                   *)
(***************************************************************************)
(* trim_job_to_parent: never lengthen the job, and leave it one minute.    *)
SlTrimTo(p, limit) ==
  IF p.parentEnd = 0 \/ (limit # 0 /\ SlEnd(p.start, limit) <= p.parentEnd) THEN limit
  ELSE SlMost(1, (p.parentEnd - p.start) \div SlMinute)

SlTrim(s, j) ==
  IF ~s.plan.propagate \/ "trim" \in s.plan.faults THEN s
  ELSE [s EXCEPT !.jobs[j].limit = SlTrimTo(s.plan, @), !.jobs[j].trim = TRUE]

SlKnown(s, n) == s.node[n].st # "absent"

(* extract_reused_nodes: a node the pool knows must have no daemon; it is  *)
(* marked for the grow and joins the session under its old object.         *)
SlBusyNode(s, n) == SlKnown(s, n) /\ s.node[n].dmn

SlMarkAdded(s, j, ns) ==
  [s EXCEPT !.node = [n \in DOMAIN @ |-> IF n \in ns THEN [@[n] EXCEPT !.st = "added", !.alloc = j,
                                                                         !.slots = SlGrantedSlots(s.plan)]
                                        ELSE @[n]]]

(* assign_new_session, with the reused nodes after the new ones.           *)
SlPushSession(s, j, fresh, reused) ==
  [s EXCEPT !.stack = Append(@, [job |-> j, dyn |-> TRUE, nodes |-> fresh \o reused,
                                 count |-> Len(fresh) + Len(reused)]),
            !.nalloc = @ + Len(fresh) + Len(reused)]

SlRollbackSession(s, j) == [s EXCEPT !.stack = SelectSeq(@, LAMBDA x : x.job # j)]

(* node_insert puts the new nodes in the pool; when it cannot, the session *)
(* is rolled back and the caller cancels the job.                          *)
SlAdopt(s, j, fresh, reused) ==
  IF "insert" \in s.plan.faults /\ fresh # <<>>
  THEN [err |-> "ERR_OUT_OF_RESOURCE",
        s |-> SlRollbackSession([SlPushSession(s, j, fresh, reused) EXCEPT !.nalloc = s.nalloc], j)]
  ELSE [err |-> "SUCCESS", s |-> SlPushSession(SlMarkAdded(s, j, ToSet(fresh)), j, fresh, reused)]

SlAddResources(s, j, ns) ==
  IF "list" \in s.plan.faults THEN [err |-> "ERR_JSON_PARSE_FAILURE", s |-> s]
  ELSE IF \E n \in ns : SlBusyNode(s, n) THEN [err |-> "EXISTS", s |-> s]
  ELSE SlAdopt(SlMarkAdded(s, j, {n \in ns : SlKnown(s, n)}), j,
               SetToSeq({n \in ns : ~SlKnown(s, n)}), SetToSeq({n \in ns : SlKnown(s, n)}))

(* The end of wait_complete: forget or cancel the record and answer.  In   *)
(* elastic mode success only promises the later grow event.                *)
SlForgets(err) == err \in {"SUCCESS", "ERR_JOB_CANCELLED"}

SlSettle(s, t, err) ==
  SlAnswer(IF SlForgets(err) THEN SlRemovePending(s, t.rid) ELSE SlCancelPending(s, t.rid),
           t.req, IF err = "SUCCESS" THEN "IN_PROGRESS" ELSE err)

SlSettled(t, r) == SlSettle(r.s, t, r.err)

SlFreeTracker(s, k) == [s EXCEPT !.trks[k] = SlNoTracker]

SlWaitComplete(s, k, t, err) ==
  IF err # "SUCCESS" THEN SlSettle(SlFreeTracker(s, k), t, err)
  ELSE SlSettled(t, SlAddResources(SlTrim(SlFreeTracker(s, k), t.job), t.job, s.jobs[t.job].nodes))

(* grant_check_cb: salloc has gone; poll until Slurm shows the outcome.    *)
SlChecked(s, k, t, err) ==
  IF err = "ERR_RESOURCE_BUSY" /\ t.tries < SlMaxTries
  THEN [s EXCEPT !.trks[k] = [t EXCEPT !.tries = @ + 1, !.ev = "timer"]]
  ELSE SlWaitComplete(s, k, t, IF err = "ERR_RESOURCE_BUSY" THEN "ERR_TIMEOUT" ELSE err)

SlGrantCheck(s, k) == SlChecked(s, k, s.trks[k], SlCheckResources(s, s.trks[k].job))

(* tracker_for_child: the tracker may be gone, its place taken, or its     *)
(* completion already posted by a cancel.                                  *)
SlStillWaiting(s, kid) ==
  kid.trk # 0 /\ s.trks[kid.trk].job = kid.job /\ s.trks[kid.trk].ev # "posted"

SlChildGone(s, kid) ==
  IF SlStillWaiting(s, kid) THEN SlGrantCheck(s, kid.trk) ELSE s

----------------------------------------------------------------------------
(***************************************************************************)
(* Cancel: the job is cancelled first, then the extend's answer is posted  *)
(* to the event loop.                                                      *)
(***************************************************************************)
SlAbortAt(s, ks) ==
  IF ks = {} THEN s
  ELSE [s EXCEPT !.trks[CHOOSE k \in ks : \A m \in ks : k <= m].ev = "posted"]

SlExtendAbort(s, rid) ==
  SlAbortAt(s, {k \in DOMAIN s.trks : s.trks[k].job # 0 /\ s.trks[k].rid = rid})

SlServeCancel(s, i, r) ==
  IF r.id = 0 THEN SlAnswer(s, i, "ERR_REQUEST")
  ELSE IF SlFindPending(s, r.id) = {} THEN SlAnswer(s, i, "ERR_NOT_FOUND")
  ELSE SlAnswer(SlExtendAbort(SlCancelPending(s, r.id), r.id), i, "SUCCESS")

----------------------------------------------------------------------------
(***************************************************************************)
(* Release: choose the nodes, shrink the DVM, then tell Slurm.             *)
(***************************************************************************)
SlShrinking(s, j) == \E c \in DOMAIN s.camps : \E a \in s.camps[c].acts : a.job = j

SlItemOf(s, n) == SelectSeq(s.stack, LAMBDA x : n \in ToSet(x.nodes))

(* session_removable_count: one node of the master's own job survives.     *)
SlRemovable(x) == IF x.dyn THEN x.count ELSE SlMost(0, x.count - 1)

(* start_shrink: every target needs a daemon; the campaign is recorded     *)
(* with what remains to be done at Slurm, and the order to leave is sent.  *)
SlStartShrink(s, i, targets, acts) ==
  IF targets = {} THEN SlAnswer(s, i, "ERR_BAD_PARAM")
  ELSE IF \E n \in targets : ~s.node[n].dmn THEN SlAnswer(s, i, "ERR_NOT_FOUND")
  ELSE IF "xcast" \in s.plan.faults THEN SlAnswer(s, i, "ERR_XCAST")
  ELSE SlAnswer([s EXCEPT !.camps = Append(@, [targets |-> targets, acts |-> acts])],
                i, "IN_PROGRESS")

SlFull(x) == [job |-> x.job, kind |-> "full", keep |-> {}]
SlPartial(x, gone) == [job |-> x.job, kind |-> "partial", keep |-> ToSet(x.nodes) \ gone]

(* remove_nodes_by_name, the check of each name before anything is         *)
(* planned: known to a session, not leaving already, not the master's.     *)
SlNameError(s, ns, n) ==
  IF SlItemOf(s, n) = <<>> THEN "ERR_NOT_FOUND"
  ELSE IF SlShrinking(s, SlItemOf(s, n)[1].job) THEN "ERR_RESOURCE_BUSY"
  ELSE IF n = s.plan.hnp THEN "ERR_BAD_PARAM" ELSE "SUCCESS"

SlFirstError(errs) ==
  IF \A e \in DOMAIN errs : errs[e] = "SUCCESS" THEN "SUCCESS"
  ELSE SelectSeq(errs, LAMBDA e : e # "SUCCESS")[1]

SlNamed(x, ns) == ToSet(x.nodes) \cap ns

(* A session that loses every node is given back whole, which the job the  *)
(* DVM was started in never is.                                            *)
SlNamedActs(items, ns) ==
  {IF Cardinality(SlNamed(x, ns)) = x.count THEN SlFull(x) ELSE SlPartial(x, ns) : x \in items}

SlPlanNamed(s, i, ns, items) ==
  IF \E x \in items : Cardinality(SlNamed(x, ns)) = x.count /\ ~x.dyn
  THEN SlAnswer(s, i, "ERR_NOT_SUPPORTED")
  ELSE SlStartShrink(s, i, ns, SlNamedActs(items, ns))

SlNamesOk(s, i, names, err) ==
  IF err # "SUCCESS" THEN SlAnswer(s, i, err)
  ELSE SlPlanNamed(s, i, ToSet(names), {x \in ToSet(s.stack) : SlNamed(x, ToSet(names)) # {}})

SlRemoveByName(s, i, names) ==
  IF Len(names) >= s.nalloc THEN SlAnswer(s, i, "ERR_REQUEST")
  ELSE SlNamesOk(s, i, names,
         SlFirstError([k \in DOMAIN names |->
           IF \E m \in k+1..Len(names) : names[m] = names[k] THEN "ERR_BAD_PARAM"
           ELSE SlNameError(s, ToSet(names), names[k])]))

SlRemoveById(s, i, items) ==
  IF items = <<>> THEN SlAnswer(s, i, "ERR_NOT_FOUND")
  ELSE IF ~items[1].dyn THEN SlAnswer(s, i, "ERR_BAD_PARAM")
  ELSE IF items[1].count >= s.nalloc THEN SlAnswer(s, i, "ERR_REQUEST")
  ELSE IF SlShrinking(s, items[1].job) THEN SlAnswer(s, i, "ERR_RESOURCE_BUSY")
  ELSE SlStartShrink(s, i, ToSet(items[1].nodes), {SlFull(items[1])})

(* append_count_session_targets: the last nodes of the session, but never  *)
(* the master's.                                                           *)
SlLastNodes(s, x, k) ==
  LET may == SelectSeq(x.nodes, LAMBDA n : n # s.plan.hnp)
  IN  ToSet(SubSeq(may, SlMost(1, Len(may) - k + 1), Len(may)))

(* One turn of remove_nodes_by_count, newest session first: the whole      *)
(* session when as many are still wanted, otherwise some of its nodes.     *)
SlTakePart(w, x, gone) ==
  [w EXCEPT !.need = @ - Cardinality(gone), !.targets = @ \cup gone,
            !.acts = @ \cup {SlPartial(x, gone)}]

SlTakeFrom(s, w, x) ==
  IF w.need = 0 \/ SlShrinking(s, x.job) \/ SlRemovable(x) = 0 THEN w
  ELSE IF x.dyn /\ w.need >= x.count
  THEN [w EXCEPT !.need = @ - x.count, !.targets = @ \cup ToSet(x.nodes), !.acts = @ \cup {SlFull(x)}]
  ELSE SlTakePart(w, x, SlLastNodes(s, x, IF w.need > SlRemovable(x) THEN SlRemovable(x) ELSE w.need))

SlTakeAll(s, n) ==
  FoldLeft(LAMBDA w, x : SlTakeFrom(s, w, x), [need |-> n, targets |-> {}, acts |-> {}],
           Reverse(s.stack))

(* validate_count_release: enough nodes outside the shrinks under way.     *)
SlReleasable(s) ==
  FoldLeft(LAMBDA k, x : IF SlShrinking(s, x.job) THEN k ELSE k + SlRemovable(x), 0, s.stack)

SlRemoveByCount(s, i, n) ==
  IF n = 0 \/ n >= s.nalloc THEN SlAnswer(s, i, "ERR_REQUEST")
  ELSE IF SlReleasable(s) < n
  THEN SlAnswer(s, i, IF \E x \in ToSet(s.stack) : SlShrinking(s, x.job)
                      THEN "ERR_RESOURCE_BUSY" ELSE "ERR_NOT_FOUND")
  ELSE SlStartShrink(s, i, SlTakeAll(s, n).targets, SlTakeAll(s, n).acts)

SlServeRelease(s, i, r) ==
  CASE r.by = "names" -> SlRemoveByName(s, i, r.list)
    [] r.by = "id"    -> SlRemoveById(s, i, SelectSeq(s.stack, LAMBDA x : x.job = r.job))
    [] r.by = "count" -> SlRemoveByCount(s, i, r.n)

(* A request to the module: which half serves it.                          *)
SlServe(s, i, r) ==
  CASE r.op = "extend"  -> SlServeExtend(s, i, r)
    [] r.op = "release" -> SlServeRelease(s, i, r)
    [] r.op = "cancel"  -> SlServeCancel(s, i, r)

----------------------------------------------------------------------------
(***************************************************************************)
(* The DVM shrink is over: give the nodes back to Slurm.                   *)
(***************************************************************************)
(* The base detaches the daemons, then the module withholds the nodes from *)
(* later grows.                                                            *)
SlDetachDaemons(s, ns) ==
  [s EXCEPT !.node = [n \in DOMAIN @ |-> IF n \in ns THEN [@[n] EXCEPT !.dmn = FALSE, !.st = "excluded"]
                                        ELSE @[n]]]

SlDropSession(s, x) ==
  SlKillJob([s EXCEPT !.stack = SelectSeq(@, LAMBDA y : y.job # x.job), !.nalloc = @ - x.count], x.job)

(* shrink_job_to_survivors, then detach_nodes reads back what is left.     *)
SlKeepNodes(s, x, keep) ==
  [s EXCEPT !.jobs[x.job].nodes = keep,
            !.stack = [k \in DOMAIN @ |-> IF @[k].job = x.job
                         THEN [@[k] EXCEPT !.nodes = SelectSeq(@, LAMBDA n : n \in keep),
                                           !.count = Cardinality(keep)] ELSE @[k]],
            !.nalloc = @ - (x.count - Cardinality(keep))]

SlReleaseAt(s, a, x) ==
  IF a.kind = "full" THEN IF x.dyn THEN SlDropSession(s, x) ELSE s
  ELSE IF "scontrol" \in s.plan.faults \/ x.count <= Cardinality(a.keep) THEN s
  ELSE SlKeepNodes(s, x, a.keep)

SlReleaseAction(s, a) ==
  FoldLeft(LAMBDA t, x : SlReleaseAt(t, a, x), s, SelectSeq(s.stack, LAMBDA x : x.job = a.job))

SlShrinkComplete(s, c) ==
  FoldLeft(SlReleaseAction, SlDetachDaemons([s EXCEPT !.camps = SelectSeq(@, LAMBDA d : d # c)], c.targets),
           SetToSeq(c.acts))

----------------------------------------------------------------------------
(* The end of the master: cancel what is pending, drop the trackers and    *)
(* the children, and cancel every job a request added.                     *)
SlDrainSession(s, x) == IF x.dyn THEN SlKillJob(s, x.job) ELSE s

SlShutDown(s) ==
  FoldLeft(SlDrainSession,
           [FoldLeft(SlCancelAt, s, SetToSeq(s.pend)) EXCEPT
              !.up = FALSE, !.kids = {}, !.camps = <<>>, !.stack = <<>>, !.todo = {},
              !.trks = [k \in DOMAIN @ |-> SlNoTracker]],
           s.stack)

----------------------------------------------------------------------------
(***************************************************************************)
(* allocate: the nodes Slurm started the master with are the first session *)
(***************************************************************************)
SlStart(p) ==
  [plan  |-> p,
   up    |-> TRUE,
   todo  |-> DOMAIN p.reqs,
   ans   |-> [i \in DOMAIN p.reqs |-> <<>>],
   jobs  |-> <<[st |-> "running", nodes |-> ToSet(SlBase(p)), want |-> 0, names |-> {},
                limit |-> p.limit, trim |-> FALSE]>>,
   kids  |-> {},
   trks  |-> [k \in DOMAIN p.reqs |-> SlNoTracker],
   pend  |-> {},
   stack |-> <<[job |-> SlParent, dyn |-> FALSE, nodes |-> SlBase(p), count |-> Len(SlBase(p))]>>,
   node  |-> [n \in ToSet(SlBase(p)) \cup p.free \cup {p.hnp} |->
                IF n \in ToSet(SlBase(p)) THEN [st |-> "up", alloc |-> SlParent, dmn |-> TRUE, slots |-> SlBaseSlots(p, n)]
                ELSE [st |-> "absent", alloc |-> 0, dmn |-> FALSE, slots |-> 0]],
   nalloc |-> Len(SlBase(p)),
   camps |-> <<>>]

SlInit == \E p \in SlPlans : sl = SlStart(p)

(* ras_base_modify holds a release back while the DVM is growing.          *)
SlGrowing(s) == \E n \in DOMAIN s.node : s.node[n].st = "added"

SlRequest ==
  \E i \in sl.todo :
    /\ sl.up
    /\ sl.plan.reqs[i].op = "release" => ~SlGrowing(sl)
    /\ sl.plan.reqs[i].after \cap sl.todo = {}
    /\ sl' = SlServe([sl EXCEPT !.todo = @ \ {i}], i, sl.plan.reqs[i])

(* Slurm finds nodes for a queued job.                                     *)
SlGrants(s, j) ==
  IF s.jobs[j].names # {} THEN {s.jobs[j].names}
  ELSE {ns \in SUBSET (s.plan.free \cup ToSet(SlBase(s.plan))) : Cardinality(ns) = s.jobs[j].want}

SlGrant ==
  \E j \in DOMAIN sl.jobs :
    /\ sl.jobs[j].st = "pending"
    /\ \E ns \in SlGrants(sl, j) :
         /\ ns \cap SlHeldBySlurm(sl) = {}
         /\ sl' = [sl EXCEPT !.jobs[j].st = "running", !.jobs[j].nodes = ns]

(* Slurm, or an administrator, cancels a queued job.                       *)
SlRefuse ==
  \E j \in DOMAIN sl.jobs :
    /\ sl.jobs[j].st = "pending" /\ sl.plan.refusing
    /\ sl' = SlKillJob(sl, j)

SlChildExit ==
  \E kid \in sl.kids : sl' = SlChildGone([sl EXCEPT !.kids = @ \ {kid}], kid)

SlRetry ==
  \E k \in DOMAIN sl.trks : sl.trks[k].ev = "timer" /\ sl' = SlGrantCheck(sl, k)

SlPosted ==
  \E k \in DOMAIN sl.trks :
    /\ sl.trks[k].ev = "posted"
    /\ sl' = SlWaitComplete(sl, k, sl.trks[k], "ERR_JOB_CANCELLED")

(* The daemons of the nodes marked for the grow come up.                   *)
SlGrow ==
  /\ sl.up /\ SlGrowing(sl)
  /\ sl' = [sl EXCEPT !.node = [n \in DOMAIN @ |->
              IF @[n].st = "added" THEN [@[n] EXCEPT !.st = "up", !.dmn = TRUE] ELSE @[n]]]

SlShrunk ==
  \E c \in DOMAIN sl.camps : sl' = SlShrinkComplete(sl, sl.camps[c])

SlFinalize == sl.up /\ sl.plan.ends /\ sl' = SlShutDown(sl)

SlNext == SlRequest \/ SlGrant \/ SlRefuse \/ SlChildExit \/ SlRetry \/ SlPosted
          \/ SlGrow \/ SlShrunk \/ SlFinalize

SlSpec == SlInit /\ [][SlNext]_sl

----------------------------------------------------------------------------
(* Every Slurm job a request created and that still exists is one the      *)
(* master remembers: a cancel, the end of its extend, a release or the end *)
(* of the DVM can still give it back.  A failed or cancelled extend leaves *)
(* no job behind (modify_cancel_finalize: a job left behind holds its      *)
(* nodes until its time limit).                                            *)
SlNoForgottenJob ==
  \A j \in DOMAIN sl.jobs :
    j # SlParent /\ sl.jobs[j].st # "ended" =>
      (\E p \in sl.pend : p.job = j) \/ (\E k \in DOMAIN sl.stack : sl.stack[k].job = j)

(* What the DVM believes about its allocation is what Slurm gave it, over  *)
(* every grow, shrink, failure and reuse of a node: the sessions are       *)
(* disjoint, hold only nodes of their own running job, count what they     *)
(* hold, and every daemon runs on a node of a session.  A node Slurm lent  *)
(* later offers no more slots than it has hardware threads.                *)
SlNodesHeld ==
  sl.up =>
    /\ \A k \in DOMAIN sl.stack :
         /\ ToSet(sl.stack[k].nodes) \subseteq sl.jobs[sl.stack[k].job].nodes
         /\ sl.stack[k].count = Len(sl.stack[k].nodes)
    /\ sl.nalloc = FoldLeft(LAMBDA a, x : a + x.count, 0, sl.stack)
    /\ \A n \in DOMAIN sl.node : sl.node[n].dmn \/ sl.node[n].st = "added" =>
         \E k \in DOMAIN sl.stack : n \in ToSet(sl.stack[k].nodes) /\ sl.stack[k].job = sl.node[n].alloc
    /\ \A n \in DOMAIN sl.node : sl.node[n].alloc > SlParent => sl.node[n].slots \in 1..sl.plan.cpus

(* Every request gets one answer: an extend's comes from its child's exit, *)
(* a poll, or a cancel, whichever is first, and never from two of them;    *)
(* and once none of these is left to come, every request has been          *)
(* answered.                                                               *)
SlOneAnswer ==
  /\ \A i \in DOMAIN sl.ans : Len(sl.ans[i]) <= 1
  /\ sl.up /\ sl.todo = {} /\ sl.kids = {} /\ (\A k \in DOMAIN sl.trks : sl.trks[k].ev \in {"none", "child"})
       => \A i \in DOMAIN sl.ans : Len(sl.ans[i]) = 1

(* A job the DVM took over ends no later than the allocation it extends,   *)
(* save for the minute Slurm cannot go below.                              *)
SlEndsWithParent ==
  \A j \in DOMAIN sl.jobs :
    sl.jobs[j].trim /\ sl.plan.parentEnd # 0 =>
      /\ sl.jobs[j].limit # 0
      /\ sl.jobs[j].limit = 1 \/ SlEnd(sl.plan.start, sl.jobs[j].limit) <= sl.plan.parentEnd

(* The master's books on the Slurm jobs it holds, on the nodes, on the     *)
(* requests and on the time limits are right.                              *)
SlSound == SlNoForgottenJob /\ SlNodesHeld /\ SlOneAnswer /\ SlEndsWithParent

=============================================================================

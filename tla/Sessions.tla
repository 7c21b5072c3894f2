------------------------------ MODULE Sessions ------------------------------
(***************************************************************************)
(* Sessions and reservations at the DVM master: the allocation requests    *)
(* that reserve nodes for a job or a tool, the session-control requests    *)
(* (instantiate, pause, terminate, extend ...), the spawns that run inside *)
(* a session, and what takes a session down again: its last job, its       *)
(* timer, its owner's end, a request.                                      *)
(*                                                                         *)
(* Everything here runs in the master's event loop.  The model keeps the   *)
(* loop's queue: a handler runs to its end and appends the events it       *)
(* activates.  Between events the daemons of a grow come up, a shrink      *)
(* completes, a job's processes end, a session's timer fires and the       *)
(* scheduler answers.                                                      *)
(*                                                                         *)
(* Namespace 0 is the scheduler's; namespace i > 0 is job i, tools         *)
(* included.  Session 0 is the default session, -1 is none.                *)
(***************************************************************************)
EXTENDS Integers, Sequences, FiniteSets, SequencesExt

CONSTANTS
  SePlans,    \* the scenarios, a sequence: nodes, tools, requests, scheduler
  SeLongMax   \* LONG_MAX

ASSUME SeLongMaxAssumption == SeLongMax \in Nat

VARIABLE se

SeNoSession == -1

SePost(s, e) == [s EXCEPT !.q = Append(@, e)]

SeAnswer(s, r, status) == [s EXCEPT !.ans[r] = Append(@, status)]

----------------------------------------------------------------------------
(***************************************************************************)
(* The table of sessions.                                                  *)
(***************************************************************************)
SeRegistered(s) == {s.slots[i] : i \in DOMAIN s.slots} \ {SeNoSession}

SeFirst(s, os) == IF os = <<>> THEN SeNoSession ELSE os[1]

SeById(s, id) ==
  IF id = 0 THEN 0
  ELSE SeFirst(s, SelectSeq(s.slots, LAMBDA o : o # SeNoSession /\ s.sess[o].id = id))

SeByAlloc(s, aid) == SeFirst(s, SelectSeq(s.slots, LAMBDA o : o # SeNoSession /\ s.sess[o].aid = aid))

SeByRef(s, rid) == SeFirst(s, SelectSeq(s.slots, LAMBDA o : o # SeNoSession /\ s.sess[o].rid = rid))

(* set_session_object: the lowest free slot, or a new one. *)
SePut(s, rec, free) ==
  [s EXCEPT !.sess = Append(@, rec),
            !.slots = IF free = {} THEN Append(@, Len(s.sess) + 1)
                      ELSE [@ EXCEPT ![CHOOSE i \in free : \A k \in free : i <= k] = Len(s.sess) + 1]]

SeRegister(s, rec) == SePut(s, rec, {i \in DOMAIN s.slots : s.slots[i] = SeNoSession})

(* A job object lives until its last reference goes: the job's own, or     *)
(* that of a reservation it owns.                                          *)
SeKnown(s, j) ==
  /\ j > 0
  /\ s.jobs[j].st # "gone" \/ \E o \in SeRegistered(s) : s.sess[o].ojob = j

SeIsTool(s, j) == SeKnown(s, j) /\ s.jobs[j].tool

SeOwnedBy(s, o, ns) ==
  \/ o = 0
  \/ ns = 0 /\ s.plan.sched
  \/ ns \in s.sess[o].owners
  \/ SeIsTool(s, ns) /\ s.sess[o].uid > 0 /\ s.jobs[ns].uid = s.sess[o].uid

SeAddOwner(s, o, ns) == IF o = 0 THEN s ELSE [s EXCEPT !.sess[o].owners = @ \cup {ns}]

SeSession(id, aid, rid, owner, inh, uid, ojob, flags) ==
  [id |-> id, aid |-> aid, rid |-> rid, owner |-> owner, inh |-> inh, uid |-> uid, ojob |-> ojob,
   flags |-> flags, owners |-> {owner}, nodes |-> {}, jobs |-> {}, timer |-> FALSE, results |-> <<>>]

(* The allocation identifier made up from the owner and the session's id.  *)
SeMadeUp(aid, ns, id) == IF aid > 0 THEN aid ELSE 100 * (ns + 1) + id

----------------------------------------------------------------------------
(***************************************************************************)
(* Nodes come and go.                                                      *)
(***************************************************************************)
(* insert_node_string and add_nodes_to_session: the named nodes are ADDED  *)
(* and, in a reservation, withheld from everybody else.                    *)
SeInsert(s, ns, o) ==
  [s EXCEPT !.nodes = [n \in DOMAIN @ |->
                         IF n \notin ns THEN @[n]
                         ELSE [@[n] EXCEPT !.st = "added", !.ses = IF o = 0 THEN @ ELSE o]],
            !.sess = IF o = 0 THEN @ ELSE [@ EXCEPT ![o].nodes = @ \cup ns]]

SeReadable(ns) == ns # {}

SeActivateGrow(s) == [s EXCEPT !.grow = TRUE]

SeShrink(s, ns) == IF ns = {} THEN s ELSE [s EXCEPT !.camps = Append(@, ns)]

SeWithDaemon(s, ns) == {n \in ns : s.nodes[n].daemon}

(* Detach a node: the backpointer is cleared unless a later reservation    *)
(* has taken the node over.                                                *)
SeDetach(node, o) == IF node.ses = o THEN [node EXCEPT !.ses = 0] ELSE node

SeForget(s, o) ==
  [s EXCEPT !.nodes = [n \in DOMAIN @ |-> IF n \in s.sess[o].nodes THEN SeDetach(@[n], o) ELSE @[n]],
            !.sess[o] = [@ EXCEPT !.nodes = {}, !.owners = {}, !.ojob = 0, !.timer = FALSE,
                                  !.flags = @ \ {"reserved"}],
            !.slots = [i \in DOMAIN @ |-> IF @[i] = o THEN SeNoSession ELSE @[i]]]

SeTeardown(s, o, back) ==
  SeShrink(SeForget(s, o), IF back THEN SeWithDaemon(s, s.sess[o].nodes) ELSE {})

----------------------------------------------------------------------------
(***************************************************************************)
(* The end of a session.                                                   *)
(***************************************************************************)
SeReturns(inh) == inh \in {"none", "child"}

(* session_complete: the scheduler that created the session hears of its   *)
(* end once.                                                               *)
SeTell(s, o) ==
  IF s.plan.sched THEN [s EXCEPT !.told = Append(@, [ses |-> o, results |-> s.sess[o].results])] ELSE s

SeCleared(flags) == flags \ {"scheduler"}

SeComplete(s, o) ==
  IF "scheduler" \in s.sess[o].flags
  THEN SeTell([s EXCEPT !.sess[o].flags = SeCleared(@)], o)
  ELSE s

SeReclaim(s, o) ==
  SeComplete(SeTeardown([s EXCEPT !.sess[o].timer = FALSE], o, SeReturns(s.sess[o].inh)), o)

(* session_terminate: a suspended job is continued so that it can die.     *)
SeKill(job) == [job EXCEPT !.susp = FALSE, !.kill = TRUE]

SeTerminate(s, o) ==
  LET t == [s EXCEPT !.sess[o].flags = (@ \cup {"terminating"}) \ {"paused"},
                     !.jobs = [j \in DOMAIN @ |-> IF j \in s.sess[o].jobs /\ @[j].st = "run" THEN SeKill(@[j]) ELSE @[j]]]
  IN  IF s.sess[o].jobs = {} THEN SeReclaim(t, o) ELSE t

SeTimeout(s, o) == SeTerminate([s EXCEPT !.sess[o].timer = FALSE], o)

SeGoesIfAuto(flags) == "auto" \in flags

(* session_job_terminated: the job's result is kept for the scheduler, and *)
(* a session that only lived for its jobs goes with the last of them.      *)
SeGoesWithLast(flags) == flags \cap {"auto", "terminating"} # {}

SeKeepResult(s, o, j) ==
  IF "scheduler" \in s.sess[o].flags THEN [s EXCEPT !.sess[o].results = Append(@, j)] ELSE s

SeLastGone(s, o) ==
  IF SeGoesWithLast(s.sess[o].flags) /\ s.sess[o].jobs = {} THEN SeReclaim(s, o) ELSE s

SeJobTerminated(s, o, j) == SeLastGone(SeKeepResult(s, o, j), o)

----------------------------------------------------------------------------
(***************************************************************************)
(* Reservations end with the jobs they were made for.                      *)
(***************************************************************************)
SeAlive(s, j) == s.jobs[j].st \in {"new", "wait", "run"}

SeChildren(s, js) == {j \in DOMAIN s.jobs : s.jobs[j].par \in js}

(* The spawn tree under a set of jobs; no plan nests spawns deeper.        *)
SeSubtree(s, js) ==
  LET one == js \cup SeChildren(s, js)
      two == one \cup SeChildren(s, one)
  IN  two \cup SeChildren(s, two)

SeRoots(s, o) == IF s.sess[o].ojob # 0 THEN {s.sess[o].ojob} ELSE s.sess[o].jobs

SeInGenealogy(s, o, j) == s.sess[o].owner = j \/ j \in SeSubtree(s, SeRoots(s, o))

SeRunningDescendant(s, o) == \E j \in SeSubtree(s, SeRoots(s, o)) : SeAlive(s, j)

SeEndsWith(s, o, j) ==
  IF s.sess[o].inh \in {"child", "child_default"}
  THEN SeInGenealogy(s, o, j) /\ ~SeRunningDescendant(s, o)
  ELSE s.sess[o].owner = j

SeCheckOne(s, o, j) ==
  IF /\ o # SeNoSession
     /\ "reserved" \in s.sess[o].flags
     /\ "detached" \notin s.sess[o].flags
     /\ SeEndsWith(s, o, j)
  THEN SeTeardown(s, o, SeReturns(s.sess[o].inh))
  ELSE s

SeCheckReservations(s, j) ==
  FoldLeft(LAMBDA t, i : SeCheckOne(t, t.slots[i], j), s, [i \in DOMAIN s.slots |-> i])

----------------------------------------------------------------------------
(***************************************************************************)
(* Spawning into a session.                                                *)
(***************************************************************************)
SeNewJob(proxy, req, cb, att) ==
  [st |-> "new", tool |-> FALSE, uid |-> 0, par |-> 0, ses |-> SeNoSession, tgt |-> <<>>, on |-> {},
   susp |-> FALSE, kill |-> FALSE, fin |-> FALSE, resp |-> FALSE, said |-> 0, proxy |-> proxy, req |-> req, cb |-> cb, att |-> att]

SeNobody == [target |-> <<>>, sid |-> -1, aid |-> 0, rid |-> 0, hosts |-> {}, addbad |-> FALSE, alloc |-> <<>>]

(* pmix_server_launch_job: the job is packed and sent to the launcher.     *)
SeLaunch(s, job) == SePost([s EXCEPT !.jobs = Append(@, job)], [ev |-> "launch", j |-> Len(s.jobs) + 1])

(* spawn_response: one answer per job; a failure first gives back the      *)
(* allocation that was made for the spawn.                                 *)
SeFreeReq(aid) == [dir |-> "release", aid |-> aid, rel |-> {}]

SeInstantiated(s, r, o, status) ==
  SeAnswer(IF status = "ok" \/ o = SeNoSession THEN s ELSE SeReclaim(s, o), r, status)

SeNotify(s, j, status) ==
  IF s.jobs[j].cb = "inst"
  THEN SeInstantiated(s, s.jobs[j].req, SeById(s, s.plan.reqs[s.jobs[j].req].sid), status)
  ELSE SeAnswer(s, s.jobs[j].req, status)

SeAnswered(job) == job.resp \/ job.req = 0

SeSpawnResponse(s, j, status) ==
  IF SeAnswered(s.jobs[j]) THEN s
  ELSE IF status # "ok" /\ s.jobs[j].said # 0
  THEN SePost([s EXCEPT !.jobs[j].said = 0],
              [ev |-> "alloc", r |-> SeFreeReq(s.jobs[j].said), job |-> j, tproc |-> s.jobs[j].proxy, cb |-> "sareleased"])
  ELSE SeNotify([s EXCEPT !.jobs[j].resp = TRUE], j, status)

(* resolve_spawn_targets: the sessions a spawn names, which must all exist *)
(* and belong to the one who spawns; the first is the job's own.           *)
SeTargets(s, aids) == [k \in DOMAIN aids |-> IF aids[k] = 0 THEN 0 ELSE SeByAlloc(s, aids[k])]

SeTargetError(s, os, ns) ==
  LET bad == {k \in DOMAIN os : os[k] = SeNoSession \/ ~SeOwnedBy(s, os[k], ns)}
  IN  IF bad = {} THEN "ok"
      ELSE IF os[CHOOSE k \in bad : \A i \in bad : k <= i] = SeNoSession THEN "notfound" ELSE "perm"

(* Which session a spawn without targets runs in. *)
SeParentSession(s, ns) == IF s.jobs[ns].tool THEN 0 ELSE s.jobs[ns].ses

SeSpawnSession(s, a, ns) ==
  IF a.sid >= 0 THEN SeById(s, a.sid)
  ELSE IF a.aid > 0 THEN SeByAlloc(s, a.aid)
  ELSE IF a.rid > 0 THEN SeByRef(s, a.rid)
  ELSE IF SeKnown(s, ns) THEN SeParentSession(s, ns)
  ELSE 0

SeNoParent(s, a, ns) == a.sid < 0 /\ a.aid = 0 /\ a.rid = 0 /\ ~SeKnown(s, ns) /\ s.plan.sched /\ ns # 0

(* A spawn refused before it joined its session leaves nothing behind.     *)
SeRefuse(s, j, status) == SeNotify([s EXCEPT !.jobs[j].st = "gone", !.jobs[j].resp = TRUE], j, status)

(* One refused after that stays in its session.                            *)
SeReject(s, j, status) == SeNotify([s EXCEPT !.jobs[j].resp = TRUE], j, status)

SePlmSpawn(s, j) == SePost(s, [ev |-> "setup", j |-> j])

SePark(s, j) == [s EXCEPT !.cache = Append(@, j), !.jobs[j].st = "wait"]

SeReleaseCached(s) == FoldLeft(SePlmSpawn, [s EXCEPT !.cache = <<>>], s.cache)

(* spawn_alloc: the allocation the spawn asked for is requested first.     *)
SeSpawnAlloc(s, j, d) ==
  IF d[1].dir = "missing" THEN SeReject(s, j, "bad")
  ELSE SePost([s EXCEPT !.jobs[j].st = "wait"],
              [ev |-> "alloc", r |-> d[1], job |-> j, tproc |-> s.jobs[j].proxy, cb |-> "salloc"])

SeGo(s, j) ==
  IF s.jobs[j].att.addbad THEN SeReject(s, j, "unsupported")
  ELSE IF s.jobs[j].att.alloc # <<>> THEN SeSpawnAlloc(s, j, s.jobs[j].att.alloc)
  ELSE IF ~s.ready THEN SePark(s, j)
  ELSE SePlmSpawn(s, j)

SeJoin(s, j, o, ns) ==
  [s EXCEPT !.jobs[j].ses = o,
            !.jobs[j].par = IF SeKnown(s, ns) THEN ns ELSE 0,
            !.jobs[j].uid = IF SeKnown(s, ns) THEN s.jobs[ns].uid ELSE 0,
            !.djobs = IF o = 0 THEN @ \cup {j} ELSE @,
            !.sess = IF o = 0 THEN @ ELSE [@ EXCEPT ![o].jobs = @ \cup {j}]]

SeMoveOn(s, j, o, ns) ==
  IF o = SeNoSession THEN SeRefuse(s, j, "notfound")
  ELSE IF s.jobs[j].tgt = <<>> /\ o # 0 /\ "reserved" \in s.sess[o].flags /\ ~SeOwnedBy(s, o, ns)
  THEN SeRefuse(s, j, "perm")
  ELSE SeGo(SeJoin(s, j, o, ns), j)

SeWithTargets(s, j, os, ns, err) ==
  IF err # "ok" THEN SeRefuse(s, j, err)
  ELSE SeMoveOn([s EXCEPT !.jobs[j].tgt = os], j, os[1], ns)

SeLaunchJob(s, j, a, ns) ==
  IF a.target # <<>>
  THEN SeWithTargets(s, j, SeTargets(s, a.target), ns, SeTargetError(s, SeTargets(s, a.target), ns))
  ELSE IF SeNoParent(s, a, ns) THEN SeRefuse(s, j, "perm")
  ELSE SeMoveOn(s, j, SeSpawnSession(s, a, ns), ns)

(* spawn_alloc_granted: the job is pointed at what it was just given; the  *)
(* session it joined before keeps listing it.                              *)
SeGrantedTo(s, j, o, err) ==
  IF err # "ok" THEN SeSpawnResponse(s, j, "alloc_failed")
  ELSE IF s.grow THEN SePark([s EXCEPT !.ready = FALSE, !.jobs[j].tgt = <<o>>, !.jobs[j].ses = o], j)
  ELSE IF ~s.ready THEN SePark([s EXCEPT !.jobs[j].tgt = <<o>>, !.jobs[j].ses = o], j)
  ELSE SePlmSpawn([s EXCEPT !.jobs[j].tgt = <<o>>, !.jobs[j].ses = o], j)

SeGranted(s, j, o) == SeGrantedTo(s, j, o, SeTargetError(s, <<o>>, s.jobs[j].proxy))

(* plm_base_setup_job: the job may from now on use, and grow, the sessions *)
(* it was sent to.                                                         *)
SeJobTargets(job) == IF job.tgt # <<>> THEN {job.tgt[k] : k \in DOMAIN job.tgt} ELSE {job.ses}

SeSetupJob(s, j) ==
  SePost(FoldSet(LAMBDA o, t : SeAddOwner(t, o, j), s, SeJobTargets(s.jobs[j])), [ev |-> "map", j |-> j])

SeMapAnywhere(s, job) == {n \in DOMAIN s.nodes : s.nodes[n].daemon}

(* get_target_nodes: the nodes of the job's sessions that have a daemon.   *)
SeMappable(s, job) ==
  {n \in DOMAIN s.nodes : /\ s.nodes[n].daemon
                          /\ s.nodes[n].ses \in SeJobTargets(job)
                          /\ job.att.hosts = {} \/ n \in job.att.hosts}

SeStart(s, j, ns) ==
  IF ns = {}
  THEN SePost(SeSpawnResponse([s EXCEPT !.jobs[j].st = "failed"], j, "map_failed"), [ev |-> "term", j |-> j])
  ELSE SeSpawnResponse([s EXCEPT !.jobs[j].st = "run", !.jobs[j].on = ns, !.jobs[j].said = 0], j, "ok")

SeMapJob(s, j) == SeStart(s, j, SeMappable(s, s.jobs[j]))

(* check_complete, check_complete_resume and cleanup_job.                  *)
SeJobOver(s, j) ==
  SePost(SeSpawnResponse(
           SeCheckReservations([s EXCEPT !.jobs[j].st = IF @ = "run" THEN "over" ELSE @], j), j, "ok"),
         [ev |-> "retire", j |-> j])

SeLeave(s, o, j) ==
  IF o <= 0 THEN [s EXCEPT !.djobs = @ \ {j}]
  ELSE SeJobTerminated([s EXCEPT !.sess[o].jobs = @ \ {j}], o, j)

SeRetire(s, j) == SePost(SeLeave([s EXCEPT !.jobs[j].on = {}], s.jobs[j].ses, j), [ev |-> "clean", j |-> j])

SeCleanup(s, j) ==
  [s EXCEPT !.jobs[j].st = "gone", !.jobs[j].par = IF SeKnown(s, @) THEN 0 ELSE @]

----------------------------------------------------------------------------
(***************************************************************************)
(* Session control: the directives of a request, read one after the other. *)
(* The value of a directive that has the wrong type is missing.            *)
(***************************************************************************)
SeUnit == <<1, 60, 3600, 86400, 2592000>>

(* parse_session_time: [[[[months:]days:]hours:]minutes:]seconds, a -1     *)
(* standing for a field that is no number; -1 when there is no such time.  *)
SeAddField(total, v, unit) ==
  IF total < 0 \/ v < 0 THEN -1
  ELSE IF v > (SeLongMax - total) \div unit THEN -1 ELSE total + v * unit

SeSessionTime(fields) ==
  IF Len(fields) \notin 1..Len(SeUnit) THEN -1
  ELSE FoldLeft(LAMBDA total, n : SeAddField(total, fields[Len(fields) + 1 - n], SeUnit[n]), 0,
                [n \in DOMAIN fields |-> n])

SeNoCtl(who) ==
  [rc |-> "ok", who |-> who, op |-> "none", nops |-> 0, lists |-> <<>>, apps |-> 0, jobinfo |-> FALSE,
   aid |-> 0, rid |-> 0, time |-> -1, inh |-> "dflt", haveinh |-> FALSE, uid |-> 0, sep |-> "unset", sig |-> 0,
   nss |-> {}]

SeFail(c, rc) == [c EXCEPT !.rc = rc]

(* set_op: a directive that is false asks for nothing. *)
SeSetOp(c, op, flag) == IF flag THEN [c EXCEPT !.op = op, !.nops = @ + 1] ELSE c

SeOps == {"instantiate", "pause", "resume", "terminate", "preempt", "restore", "complete", "extend"}

(* The directives that name resources, at the top or in a resource block.  *)
SeWithTime(c, time) == IF time < 0 THEN SeFail(c, "bad") ELSE [c EXCEPT !.time = time]

SeResource(c, d) ==
  CASE d.d = "nodes" -> [c EXCEPT !.lists = Append(@, d.v)]
    [] d.d = "aid"   -> [c EXCEPT !.aid = d.v]
    [] d.d = "rid"   -> [c EXCEPT !.rid = d.v]
    [] d.d = "time"  -> SeWithTime(c, SeSessionTime(d.v))
    [] d.d = "inh"   -> [c EXCEPT !.inh = d.v, !.haveinh = TRUE]
    [] d.d = "count" -> SeFail(c, "unsupported")
    [] OTHER -> c

SeScanResources(c, ds) == FoldLeft(LAMBDA b, d : IF b.rc # "ok" THEN b ELSE SeResource(b, d), c, ds)

SeDirective(c, d) ==
  CASE d.d \in SeOps    -> SeSetOp(c, d.d, d.v)
    [] d.d = "wrong"     -> SeFail(c, "bad")
    [] d.d = "requestor" -> [c EXCEPT !.who = d.v]
    [] d.d = "resources" -> SeScanResources(c, d.v)
    [] d.d = "job"       -> [c EXCEPT !.jobinfo = TRUE]
    [] d.d = "app"       -> [c EXCEPT !.apps = d.v]
    [] d.d = "provision" -> SeFail(c, "unsupported")
    [] d.d = "uid"       -> [c EXCEPT !.uid = d.v]
    [] d.d = "signal"    -> IF d.v <= 0 THEN SeFail(c, "bad") ELSE SeSetOp([c EXCEPT !.sig = d.v], "signal", TRUE)
    [] d.d = "sep"       -> [c EXCEPT !.sep = IF d.v THEN "yes" ELSE "no"]
    [] d.d = "nspace"    -> [c EXCEPT !.nss = @ \cup {d.v}]
    [] d.d = "timeout"   -> SeWithTime(c, d.v)
    [] OTHER             -> SeResource(c, d)

SeCheckCtl(c) ==
  IF c.rc # "ok" THEN c
  ELSE IF c.nops > 1 \/ (c.jobinfo /\ c.apps = 0) \/ (c.apps > 0 /\ c.op # "instantiate") THEN SeFail(c, "bad")
  ELSE IF c.nops = 0 /\ c.sep # "unset" THEN [c EXCEPT !.op = "modify"]
  ELSE c

SeParse(who, ds) ==
  SeCheckCtl(FoldLeft(LAMBDA c, d : IF c.rc # "ok" THEN c ELSE SeDirective(c, d), SeNoCtl(who), ds))

(***************************************************************************)
(* The operations.  Each gives the new state and a status.                 *)
(***************************************************************************)
SeOut(s, rc) == [s |-> s, rc |-> rc]

(* session_signal: with mark, only the jobs whose mark changes are         *)
(* signalled.                                                              *)
SeNamed(s, o, nss) == {j \in s.sess[o].jobs : nss = {} \/ j \in nss}

SeSignal(s, o, nss, mark, susp) ==
  IF nss # {} /\ SeNamed(s, o, nss) = {} THEN SeOut(s, "notfound")
  ELSE SeOut([s EXCEPT !.jobs = [j \in DOMAIN @ |->
                 IF mark /\ j \in SeNamed(s, o, nss) THEN [@[j] EXCEPT !.susp = susp] ELSE @[j]]], "ok")

SePaused(x, o) == IF x.rc = "ok" THEN SeOut([x.s EXCEPT !.sess[o].flags = @ \cup {"paused"}], "ok") ELSE x

SeResumed(x, o) == IF x.rc = "ok" THEN SeOut([x.s EXCEPT !.sess[o].flags = @ \ {"paused"}], "ok") ELSE x

SeArmTimer(s, o, time) == [s EXCEPT !.sess[o].timer = time > 0]

(* The node lists are inserted in order, up to the first that cannot be    *)
(* read; x.n counts those that were.                                       *)
SeInsertLists(s, lists, o) ==
  FoldLeft(LAMBDA x, ns : IF x.rc # "ok" THEN x
                          ELSE IF ~SeReadable(ns) THEN [x EXCEPT !.rc = "bad"]
                          ELSE [x EXCEPT !.s = SeInsert(x.s, ns, o), !.n = @ + 1],
           [s |-> s, rc |-> "ok", n |-> 0], lists)

SeGrowIf(s, n) == IF n > 0 THEN SeActivateGrow(s) ELSE s

SeExtended(x, o, c) ==
  IF x.rc # "ok" THEN SeOut(SeGrowIf(x.s, x.n), x.rc)
  ELSE LET t == IF c.time >= 0 THEN SeArmTimer(x.s, o, c.time) ELSE x.s
           u == IF c.haveinh THEN [t EXCEPT !.sess[o].inh = c.inh] ELSE t
       IN  IF x.n = 0 /\ c.time < 0 /\ ~c.haveinh THEN SeOut(u, "bad") ELSE SeOut(SeGrowIf(u, x.n), "ok")

SeExtend(s, o, c) == SeExtended(SeInsertLists(s, c.lists, o), o, c)

SeBadApps == 9   \* applications pmix_xfer_app refuses

SeOwnerUid(s, c) == IF c.uid > 0 THEN c.uid ELSE IF SeKnown(s, c.who) THEN s.jobs[c.who].uid ELSE 0

SeInstFlags(c) ==
  {"dynamic", "reserved", "scheduler"}
    \cup (IF c.sep = "no" THEN {} ELSE {"detached"})
    \cup (IF c.apps > 0 THEN {"auto"} ELSE {})

SeSessionJob(r, id, c) ==
  SeNewJob(c.who, r, "inst", [SeNobody EXCEPT !.sid = id, !.hosts = UNION {c.lists[k] : k \in DOMAIN c.lists}])

SeInstGrow(s, n) == IF n > 0 THEN SeActivateGrow([s EXCEPT !.ready = FALSE]) ELSE s

SeInstLaunch(s, r, id, c) ==
  IF c.apps = 0 THEN SeOut(s, "ok") ELSE SeOut(SeLaunch(s, SeSessionJob(r, id, c)), "progress")

SeInstFill(x, o, r, id, c) ==
  IF x.rc # "ok" \/ c.apps = SeBadApps THEN SeOut(SeTeardown(x.s, o, FALSE), "bad")
  ELSE SeInstLaunch(SeInstGrow(SeArmTimer(x.s, o, c.time), x.n), r, id, c)

SeInstantiate(s, r, id, c) ==
  IF id < 0 \/ (c.apps > 0 /\ c.lists = <<>>) THEN SeOut(s, "bad")
  ELSE IF SeById(s, id) # SeNoSession THEN SeOut(s, "exists")
  ELSE SeInstFill(SeInsertLists(SeRegister(s, SeSession(id, SeMadeUp(c.aid, c.who, id), c.rid, c.who, c.inh,
                                                        SeOwnerUid(s, c), 0, SeInstFlags(c))),
                                c.lists, Len(s.sess) + 1),
                  Len(s.sess) + 1, r, id, c)

SeSepFlag(s, o, c) ==
  CASE c.sep = "yes" -> [s EXCEPT !.sess[o].flags = @ \cup {"detached"}]
    [] c.sep = "no"  -> [s EXCEPT !.sess[o].flags = @ \ {"detached"}]
    [] OTHER         -> s

SeOperate(s, o, c) ==
  CASE c.op = "modify"    -> SeOut(s, "ok")
    [] c.op = "pause"     -> SePaused(SeSignal(s, o, {}, TRUE, TRUE), o)
    [] c.op = "resume"    -> SeResumed(SeSignal(s, o, {}, TRUE, FALSE), o)
    [] c.op = "preempt"   -> SeSignal(s, o, c.nss, TRUE, TRUE)
    [] c.op = "restore"   -> SeSignal(s, o, c.nss, TRUE, FALSE)
    [] c.op = "signal"    -> SeSignal(s, o, c.nss, FALSE, FALSE)
    [] c.op = "terminate" -> SeOut(SeTerminate(s, o), "ok")
    [] c.op = "extend"    -> SeExtend(s, o, c)
    [] c.op = "complete"  -> SeOut(s, "unsupported")
    [] OTHER              -> SeOut(s, "bad")

SeApplyTo(s, o, c) ==
  IF SeOwnedBy(s, o, c.who) THEN SeOperate(SeSepFlag(s, o, c), o, c) ELSE SeOut(s, "perm")

(* apply_to_all: every session the requestor owns; one that fails decides  *)
(* the status.                                                             *)
SeWorst(x, rc) == IF rc # "ok" THEN rc ELSE IF x.rc = "notfound" THEN "ok" ELSE x.rc

SeAlso(x, y) == SeOut(y.s, SeWorst(x, y.rc))

SeApplyNext(x, o, c) ==
  IF o = SeNoSession THEN x
  ELSE IF ~SeOwnedBy(x.s, o, c.who) THEN x
  ELSE SeAlso(x, SeApplyTo(x.s, o, c))

SeApplyToAll(s, c) ==
  FoldLeft(LAMBDA x, i : SeApplyNext(x, x.s.slots[i], c), SeOut(s, "notfound"), [i \in DOMAIN s.slots |-> i])

SeProcess(s, r, id, c) ==
  IF c.rc # "ok" THEN SeOut(s, c.rc)
  ELSE IF c.op = "none" THEN SeOut(s, "bad")
  ELSE IF c.op = "instantiate" THEN SeInstantiate(s, r, id, c)
  ELSE IF id < 0 THEN SeApplyToAll(s, c)
  ELSE IF SeById(s, id) \in {SeNoSession, 0} THEN SeOut(s, "notfound")
  ELSE SeApplyTo(s, SeById(s, id), c)

SeAnswerUnless(x, r) == IF x.rc = "progress" THEN x.s ELSE SeAnswer(x.s, r, x.rc)

SeCtrlLocal(s, r, q) == SeAnswerUnless(SeProcess(s, r, q.sid, SeParse(q.who, q.ds)), r)

(* pass_request: with a scheduler, a request of anybody else is its to     *)
(* decide.                                                                 *)
SePassRequest(s, r, q) ==
  IF s.plan.sched /\ q.who # 0 THEN [s EXCEPT !.sched = Append(@, r)] ELSE SeCtrlLocal(s, r, q)

----------------------------------------------------------------------------
(***************************************************************************)
(* Allocation requests.                                                    *)
(***************************************************************************)
SeFreeId(s) == CHOOSE i \in (s.cnt + 1)..(s.cnt + Len(s.sess) + 1) :
                 /\ SeById(s, i) = SeNoSession
                 /\ \A k \in (s.cnt + 1)..(i - 1) : SeById(s, k) # SeNoSession

SeReserve(s, id, a, ns) ==
  SeRegister([s EXCEPT !.cnt = id],
             SeSession(id, SeMadeUp(a.aid, ns, id), a.rid, ns, a.inh,
                       IF SeKnown(s, ns) THEN s.jobs[ns].uid ELSE 0,
                       IF SeKnown(s, ns) THEN ns ELSE 0, {"reserved", "dynamic"}))

SeToExtend(s, a) ==
  IF a.aid > 0 /\ SeByAlloc(s, a.aid) # SeNoSession THEN SeByAlloc(s, a.aid)
  ELSE IF a.rid > 0 THEN SeByRef(s, a.rid) ELSE SeNoSession

SeInto(s, o, made) == [s |-> s, rc |-> "ok", o |-> o, made |-> made]

SeNowhere(s, rc) == [s |-> s, rc |-> rc, o |-> SeNoSession, made |-> FALSE]

SeExtendInto(s, a, ns, o) ==
  IF a.aid = 0 /\ a.rid = 0 THEN SeNowhere(s, "bad")
  ELSE IF o = SeNoSession THEN SeNowhere(s, "notfound")
  ELSE IF ~SeOwnedBy(s, o, ns) THEN SeNowhere(s, "perm")
  ELSE SeInto(IF a.haveinh THEN [s EXCEPT !.sess[o].inh = a.inh] ELSE s, o, FALSE)

SePrepareGrow(s, a, ns) ==
  IF a.share THEN SeInto(s, 0, FALSE)
  ELSE IF a.target >= 0 /\ SeKnown(s, ns) /\ ~s.jobs[ns].tool THEN SeNowhere(s, "perm")
  ELSE IF a.dir = "extend" THEN SeExtendInto(s, a, ns, SeToExtend(s, a))
  ELSE SeInto(SeReserve(s, SeFreeId(s), a, IF a.target >= 0 THEN a.target ELSE ns), Len(s.sess) + 1, TRUE)

SeServed(s, rc, aid) == [s |-> s, rc |-> rc, aid |-> aid]

(* complete_grow_request: a reservation made for a request that then fails *)
(* is taken back.                                                          *)
SeGrown1(x, p) ==
  IF x.rc # "ok" THEN SeServed(IF p.made THEN SeTeardown(x.s, p.o, FALSE) ELSE x.s, x.rc, 0)
  ELSE SeServed(SeGrowIf(x.s, x.n), "ok", IF p.o = 0 THEN 0 ELSE x.s.sess[p.o].aid)

SeGrowReq(a, p) ==
  IF p.rc # "ok" THEN SeServed(p.s, p.rc, 0) ELSE SeGrown1(SeInsertLists(p.s, a.lists, p.o), p)

(* teardown_by_alloc_id, or the nodes the request names.                   *)
SeReleaseSession(s, o, ns) ==
  IF o = SeNoSession THEN SeServed(s, "notfound", 0)
  ELSE IF ~SeOwnedBy(s, o, ns) THEN SeServed(s, "perm", 0)
  ELSE SeServed(SeTeardown(s, o, TRUE), "ok", 0)

SeReleaseReq(s, a, ns) ==
  IF a.aid > 0 THEN SeReleaseSession(s, SeByAlloc(s, a.aid), ns)
  ELSE IF a.rel = {} \/ \E n \in a.rel : s.nodes[n].st = "absent" THEN SeServed(s, "notfound", 0)
  ELSE SeServed(SeShrink(s, SeWithDaemon(s, a.rel)), "ok", 0)

(* Activation: which nodes a list of tokens selects.  A name, all of them, *)
(* the n-th, the empty ones, a hostfile's, or something unreadable.        *)
SeActivatable(node) == ~node.daemon /\ node.st \in {"up", "added"}

SeActSelect(s, x, n) ==
  IF s.nodes[n].daemon THEN x
  ELSE IF ~SeActivatable(s.nodes[n]) THEN [x EXCEPT !.rc = "silent"]
  ELSE [x EXCEPT !.sel = @ \cup {n}]

SeActNamed(s, x, n) ==
  IF n \notin DOMAIN s.nodes THEN [x EXCEPT !.rc = "silent"]
  ELSE IF s.nodes[n].st = "absent" THEN [x EXCEPT !.rc = "silent"]
  ELSE SeActSelect(s, x, n)

SeActFile(s, x, ns) == FoldLeft(LAMBDA y, n : IF y.rc # "ok" THEN y ELSE SeActNamed(s, y, n), x, ns)

SeActToken(s, x, tok) ==
  CASE tok.t = "file" -> IF tok.v = <<>> THEN [x EXCEPT !.rc = "silent"] ELSE SeActFile(s, x, tok.v)
    [] tok.t = "name" -> SeActNamed(s, x, tok.v)
    [] tok.t = "all"  -> [x EXCEPT !.sel = @ \cup {n \in DOMAIN s.nodes : SeActivatable(s.nodes[n])}]
    [] tok.t = "nth"  -> SeActNamed(s, x, tok.v + 1)
    [] OTHER          -> [x EXCEPT !.rc = "silent"]

SeActSpec(s, spec) ==
  FoldLeft(LAMBDA x, tok : IF x.rc # "ok" THEN x ELSE SeActToken(s, x, tok), [rc |-> "ok", sel |-> {}], spec)

SeActCommit(s, x) ==
  IF x.rc # "ok" THEN SeServed(s, x.rc, 0)
  ELSE IF \A n \in x.sel : s.nodes[n].st = "added" THEN SeServed(s, "ok", 0)
  ELSE SeServed(SeActivateGrow(SeInsert(s, x.sel, 0)), "ok", 0)

SeServeAlloc(s, a, ns) ==
  CASE a.dir = "release"  -> SeReleaseReq(s, a, ns)
    [] a.dir = "activate" -> SeActCommit(s, SeActSpec(s, a.spec))
    [] OTHER              -> SeGrowReq(a, SePrepareGrow(s, a, ns))

(* Who waits for the answer: a client, the spawn the allocation is for, or *)
(* the failed spawn that gives its allocation back.                        *)
SeSpawnAllocDone(x, j) ==
  IF x.rc # "ok" THEN SeSpawnResponse(x.s, j, "alloc_failed")
  ELSE IF x.aid > 0 THEN SeGranted([x.s EXCEPT !.jobs[j].said = x.aid], j, SeByAlloc(x.s, x.aid))
  ELSE IF x.s.grow THEN SePark([x.s EXCEPT !.ready = FALSE], j)
  ELSE IF ~x.s.ready THEN SePark(x.s, j) ELSE SePlmSpawn(x.s, j)

SeAllocDone(x, e) ==
  CASE e.cb = "salloc"     -> SeSpawnAllocDone(x, e.job)
    [] e.cb = "sareleased" -> SeSpawnResponse(x.s, e.job, "failed")
    [] OTHER               -> SeAnswer(x.s, e.job, x.rc)

SeModify(s, e) ==
  IF e.r.dir = "release" /\ s.grow THEN [s EXCEPT !.deferred = Append(@, e)]
  ELSE SeAllocDone(SeServeAlloc(s, e.r, e.tproc), e)

----------------------------------------------------------------------------
(***************************************************************************)
(* The event loop and what happens around it.                              *)
(***************************************************************************)
SeRequest(s, r, q) ==
  CASE q.kind = "alloc"  -> SeModify(s, [ev |-> "alloc", r |-> q, job |-> r, tproc |-> q.who, cb |-> "req"])
    [] q.kind = "sess"   -> SePassRequest(s, r, q)
    [] q.kind = "spawn"  -> SeLaunch(s, SeNewJob(q.who, r, "spawn", q.att))
    [] q.kind = "depart" -> SePost(SeAnswer(s, r, "ok"), [ev |-> "term", j |-> q.who])

SeHandle(s, e) ==
  CASE e.ev = "request"  -> SeRequest(s, e.r, s.plan.reqs[e.r])
    [] e.ev = "alloc"    -> SeModify(s, e)
    [] e.ev = "schedans" -> SeAnswer(s, e.r, "ok")
    [] e.ev = "launch"   -> SeLaunchJob(s, e.j, s.jobs[e.j].att, s.jobs[e.j].proxy)
    [] e.ev = "setup"    -> SeSetupJob(s, e.j)
    [] e.ev = "map"      -> SeMapJob(s, e.j)
    [] e.ev = "term"     -> SeJobOver(s, e.j)
    [] e.ev = "retire"   -> SeRetire(s, e.j)
    [] e.ev = "clean"    -> SeCleanup(s, e.j)

SeStep == se.q # <<>> /\ se' = SeHandle([se EXCEPT !.q = Tail(@)], se.q[1])

(* Each client or tool makes its requests in order; those of a job wait    *)
(* for the job to run. In a patient plan nobody asks, leaves or ends       *)
(* before its own earlier requests were answered.                          *)
SeWaits(s, j, r) == \E i \in 1..(r - 1) : s.plan.reqs[i].who = j /\ i \in s.issued /\ s.ans[i] = <<>>

SeMayAsk(s, r, q) ==
  /\ q.who # 0 => (q.who <= Len(s.jobs) /\ s.jobs[q.who].st = "run" /\ ~s.jobs[q.who].fin)
  /\ \A i \in 1..(r - 1) : s.plan.reqs[i].who = q.who => i \in s.issued
  /\ s.plan.patient => ~SeWaits(s, q.who, r)

SeIssue == \E r \in DOMAIN se.plan.reqs \ se.issued :
  /\ SeMayAsk(se, r, se.plan.reqs[r])
  /\ se' = SePost([se EXCEPT !.issued = @ \cup {r}], [ev |-> "request", r |-> r])

(* The daemons of a grow have reported: the jobs that waited are spawned   *)
(* and the releases that were put off are served.                          *)
SeGrown ==
  /\ se.grow
  /\ se' = FoldLeft(SePost,
                    SeReleaseCached(
                      [se EXCEPT !.grow = FALSE, !.ready = TRUE, !.deferred = <<>>,
                                 !.nodes = [n \in DOMAIN @ |-> IF @[n].st = "added" THEN [@[n] EXCEPT !.st = "up", !.daemon = TRUE]
                                                               ELSE @[n]]]),
                    se.deferred)

(* The daemons of a shrink have left, and the jobs that ran there die.     *)
SeShrunk ==
  /\ se.camps # <<>>
  /\ se' = [se EXCEPT !.camps = Tail(@),
                      !.nodes = [n \in DOMAIN @ |-> IF n \in se.camps[1] THEN [@[n] EXCEPT !.daemon = FALSE] ELSE @[n]],
                      !.jobs = [j \in DOMAIN @ |-> IF @[j].st = "run" /\ @[j].on \cap se.camps[1] # {}
                                                    THEN [@[j] EXCEPT !.kill = TRUE] ELSE @[j]]]

SeMayEnd(s, j) ==
  /\ s.jobs[j].st = "run" /\ ~s.jobs[j].tool /\ ~s.jobs[j].fin
  /\ ~s.jobs[j].kill =>
       ~s.jobs[j].susp /\ s.jobs[j].req \notin s.plan.stay /\ ~(s.plan.patient /\ SeWaits(s, j, Len(s.plan.reqs) + 1))

SeJobEnds == \E j \in DOMAIN se.jobs :
  /\ SeMayEnd(se, j)
  /\ se' = SePost([se EXCEPT !.jobs[j].fin = TRUE], [ev |-> "term", j |-> j])

SeTimerFires == \E o \in DOMAIN se.sess :
  /\ se.sess[o].timer
  /\ se' = SeTimeout(se, o)

SeSchedulerAnswers ==
  /\ se.sched # <<>>
  /\ se' = SePost([se EXCEPT !.sched = Tail(@)], [ev |-> "schedans", r |-> se.sched[1]])

SeTool(uid) == [SeNewJob(0, 0, "none", SeNobody) EXCEPT !.st = "run", !.tool = TRUE, !.uid = uid, !.ses = 0]

SeInit == \E p \in DOMAIN SePlans :
  se = [plan |-> SePlans[p], issued |-> {}, sess |-> <<>>, slots |-> <<>>, djobs |-> {},
        nodes |-> [n \in DOMAIN SePlans[p].pool |-> [st |-> IF SePlans[p].pool[n] = "absent" THEN "absent" ELSE "up",
                                                     daemon |-> SePlans[p].pool[n] = "dvm", ses |-> 0]],
        jobs |-> [i \in DOMAIN SePlans[p].tools |-> SeTool(SePlans[p].tools[i])], cnt |-> 0, grow |-> FALSE,
        ready |-> TRUE, cache |-> <<>>, q |-> <<>>, ans |-> [r \in DOMAIN SePlans[p].reqs |-> <<>>],
        sched |-> <<>>, told |-> <<>>, camps |-> <<>>, deferred |-> <<>>]

SeNext == SeStep \/ SeIssue \/ SeGrown \/ SeShrunk \/ SeJobEnds \/ SeTimerFires \/ SeSchedulerAnswers

SeSpec == SeInit /\ [][SeNext]_se

----------------------------------------------------------------------------
(***************************************************************************)
(* What is checked.                                                        *)
(***************************************************************************)
SeAtRest(s) ==
  /\ s.q = <<>> /\ ~s.grow /\ s.camps = <<>> /\ s.sched = <<>>
  /\ \A r \in DOMAIN s.plan.reqs \ s.issued : ~SeMayAsk(s, r, s.plan.reqs[r])
  /\ \A j \in DOMAIN s.jobs : ~SeMayEnd(s, j)
  /\ \A o \in DOMAIN s.sess : ~s.sess[o].timer

(* Every request is answered, and answered once, whichever of the ways out *)
(* it takes: at once, after the scheduler's word, when its job starts or   *)
(* fails to, after the allocation made for it was given back.              *)
SeOneAnswer ==
  /\ \A r \in DOMAIN se.ans : Len(se.ans[r]) <= 1
  /\ SeAtRest(se) => \A r \in se.issued : Len(se.ans[r]) = 1

(* When nothing moves any more, no session has outlived its purpose: one   *)
(* that was terminated or existed for its jobs is gone with the last of    *)
(* them, and a reservation is gone with the jobs its inheritance names.    *)
(* (A job the termination found without processes was not killed by it:    *)
(* see SeTerminates.)                                                      *)
SePurpose(s, o) ==
  LET x == s.sess[o]
  IN  /\ "terminating" \in x.flags => \E j \in x.jobs : SeAlive(s, j) /\ ~s.jobs[j].kill
      /\ "auto" \in x.flags => \E j \in x.jobs : SeAlive(s, j)
      /\ x.owner # 0 /\ "detached" \notin x.flags
           => IF x.inh \in {"child", "child_default"} THEN SeRunningDescendant(s, o) ELSE SeAlive(s, x.owner)

SeNothingLeft == SeAtRest(se) => \A o \in SeRegistered(se) : SePurpose(se, o)

(* A node is withheld only on behalf of a session that exists and holds    *)
(* it, and only such a session has a timer running.                        *)
SeWithheld ==
  /\ \A n \in DOMAIN se.nodes :
       se.nodes[n].ses # 0 => se.nodes[n].ses \in SeRegistered(se) /\ n \in se.sess[se.nodes[n].ses].nodes
  /\ \A o \in DOMAIN se.sess : se.sess[o].timer => o \in SeRegistered(se)

(* A job starts only on nodes of the sessions it was sent to, which it may *)
(* use: nobody is given nodes another reservation withholds.               *)
SeStartsOnOwn ==
  [][\A j \in DOMAIN se.jobs :
       se.jobs[j].st # "run" /\ se'.jobs[j].st = "run" =>
         \A n \in se'.jobs[j].on : se.nodes[n].ses \in SeJobTargets(se.jobs[j]) /\ SeOwnedBy(se, se.nodes[n].ses, j)]_se

(* The jobs a job spawned, their spawns, and so on, whoever is still       *)
(* there.                                                                  *)
SeSpawned(s, js) == {j \in DOMAIN s.jobs : s.jobs[j].proxy \in js /\ s.jobs[j].proxy # 0}

SeDerived(s, j) ==
  LET one == SeSpawned(s, {j})
      two == one \cup SeSpawned(s, one)
  IN  two \cup SeSpawned(s, two)

(* A reservation its owner's children inherit is not taken down by the end *)
(* of a job while a derived child of the owner is running, at whatever     *)
(* depth it was spawned.                                                   *)
SeOutlivesOwner ==
  [][\A o \in SeRegistered(se) :
       /\ o \notin SeRegistered(se')
       /\ se.sess[o].inh \in {"child", "child_default"} /\ "detached" \notin se.sess[o].flags
       /\ se.q # <<>> /\ se.q[1].ev = "term"
       => \A j \in SeDerived(se, se.sess[o].owner) : se'.jobs[j].st # "run"]_se

(* A session told to terminate, or out of time, ends: every job in it is   *)
(* killed, the ones still on their way to their first process included.    *)
(* It does not hold: see the README on where the code disagrees.           *)
SeTerminates == SeAtRest(se) => \A o \in SeRegistered(se) : "terminating" \notin se.sess[o].flags

(* A session lists no job that is gone. *)
(* It does not hold: see the README on where the code disagrees.           *)
SeNoDangling ==
  \A j \in DOMAIN se.jobs :
    se.jobs[j].st = "gone" => j \notin se.djobs /\ \A o \in SeRegistered(se) : j \notin se.sess[o].jobs

(* The master's books on requests, sessions and withheld nodes are right.  *)
SeSound == SeOneAnswer /\ SeNothingLeft /\ SeWithheld

(* A job is given no node it may not use, and keeps those it inherits.     *)
SeNodesRespected == SeStartsOnOwn /\ SeOutlivesOwner

============================================================================

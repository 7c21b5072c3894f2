---------------------------- MODULE Assemblages -----------------------------
(***************************************************************************)
(* PMIx_Connect and PMIx_Disconnect, the fate that connected jobs share,   *)
(* and event notification (src/prted/pmix/pmix_server_connect.c,            *)
(* pmix_server_notify.c and the connect part of pmix_server_dyn.c).         *)
(*                                                                         *)
(* The master (daemon 0) keeps a registry of assemblages: sets of members  *)
(* <<job, rank>>, rank CnAny standing for every process of the job.        *)
(* Connecting and disconnecting are fences (module Fence) here reduced to  *)
(* one contribution of each daemon and one release by the master.  What a  *)
(* daemon sends the master, by whatever route, stays in order.             *)
(***************************************************************************)
EXTENDS Integers, Sequences, FiniteSets, SequencesExt

CONSTANT CnPlans    \* a sequence of [n, hosts, parent, sep, tool, sets, dis, deaths, fate,
                    \* events, left, ctrl]

VARIABLE cn

CnAny == -1

CnInit ==
    \E k \in DOMAIN CnPlans :
        LET p == CnPlans[k]
            ds == 0 .. p.n - 1 IN
        cn = [plan |-> p,
              jobs |-> [j \in DOMAIN p.hosts |-> IF p.parent[j] = <<>> THEN "run" ELSE "none"],
              live |-> [j \in DOMAIN p.hosts |->
                            IF p.parent[j] = <<>> THEN DOMAIN p.hosts[j] ELSE {}],
              seen |-> [j \in DOMAIN p.hosts |-> {}],       \* PRTE_PROC_FLAG_RECORDED
              reg |-> <<>>,                                 \* connections
              called |-> [x \in (DOMAIN p.sets) \X {"con", "dis"} |-> {}],
              got |-> [x \in (DOMAIN p.sets) \X {"con", "dis"} |-> {}],
              done |-> [x \in (DOMAIN p.sets) \X {"con", "dis"} |-> {}],
              rel |-> [x \in (DOMAIN p.sets) \X {"con", "dis"} |-> "no"],
              up |-> [d \in ds |-> <<>>], down |-> [d \in ds |-> <<>>],
              told |-> [d \in ds |-> <<>>], groups |-> [d \in ds |-> p.left],
              psets |-> [d \in ds |-> {}], cancelled |-> [d \in ds |-> {}],
              asked |-> {}, verdict |-> [j \in DOMAIN p.hosts |-> "none"],
              sent |-> {}, missed |-> {}, swept |-> <<>>, dropped |-> {}]

CnDaemons(s) == DOMAIN s.up

-----------------------------------------------------------------------------
(***************************************************************************)
(* The registry.                                                           *)
(***************************************************************************)
\* member_covers
CnCovers(m, x) == m[1] = x[1] /\ (m[2] = CnAny \/ m[2] = x[2])

\* connection_covers
CnConnectionCovers(mem, x) == \E m \in mem : CnCovers(m, x)

\* membership_covered: a request dissolves what it names every member of
CnMembershipCovered(mem, request) == \A m \in mem : \E r \in request : CnCovers(r, m)

CnRecord(s, mem) ==
    IF \E i \in DOMAIN s.reg : s.reg[i].mem = mem THEN s
    ELSE [s EXCEPT !.reg = Append(@, [mem |-> mem, terminating |-> FALSE])]

CnDrop(s, mem) ==
    [s EXCEPT !.reg = SelectSeq(@, LAMBDA c : ~CnMembershipCovered(c.mem, mem)),
              !.dropped = @ \cup {mem}]

\* connection_purge: nothing named in it exists any more
CnPurge(s, j) ==
    [s EXCEPT !.reg = SelectSeq(@, LAMBDA c : \E m \in c.mem : m[1] # j /\ s.jobs[m[1]] # "gone")]

\* notify_assemblage: an xcast that every daemon hands to its library
CnXcast(s, from, e) ==
    [s EXCEPT !.down = [d \in DOMAIN @ |-> Append(@[d], [op |-> "event", from |-> from, e |-> e])]]

\* connection_terminated: one event for the members of all its assemblages
CnTerminated(s, x) ==
    LET hit == SelectSeq(s.reg, LAMBDA c : CnConnectionCovers(c.mem, x)) IN
    IF hit = <<>> THEN s
    ELSE CnXcast(s, -1, [what |-> "term_wo_sync", of |-> x,
                         to |-> UNION {hit[i].mem : i \in DOMAIN hit}])

\* connection_spawned: a child belongs with the process that spawned it
CnSpawned(s, j) ==
    IF s.jobs[s.plan.parent[j][1]] = "gone" \/ s.plan.tool[j] \/ s.plan.sep[j] THEN s
    ELSE CnRecord(s, {s.plan.parent[j], <<j, CnAny>>})

-----------------------------------------------------------------------------
(***************************************************************************)
(* connection_job_failed: sweep to a fixed point.                          *)
(***************************************************************************)
\* prte_plm.terminate_procs
CnKill(s, j) ==
    [s EXCEPT !.down = [d \in DOMAIN @ |-> Append(@[d], [op |-> "kill", j |-> j])]]

\* only what still runs: a job that has ended is no link in the chain
CnCondemnable(s, j) == s.jobs[j] = "run"

\* one member of an assemblage that is going down; t = [s, con, again]
CnCondemn(t, i, j) ==
    IF j \in t.con \/ ~CnCondemnable(t.s, j) THEN t
    ELSE [t EXCEPT !.s = CnKill(CnXcast(@, -1, [what |-> "job_term", of |-> <<j, CnAny>>,
                                               to |-> @.reg[i].mem]), j),
                   !.con = @ \cup {j}]

CnNames(c, condemned) == \E m \in c.mem : m[1] \in condemned

\* one assemblage of one pass
CnSweepOne(t, i) ==
    IF t.s.reg[i].terminating \/ ~CnNames(t.s.reg[i], t.con) THEN t
    ELSE FoldLeft(LAMBDA u, m : CnCondemn(u, i, m[1]),
                  [t EXCEPT !.s.reg[i].terminating = TRUE, !.again = TRUE],
                  SetToSeq(t.s.reg[i].mem))

CnOnePass(t) == FoldLeft(CnSweepOne, [t EXCEPT !.again = FALSE], [i \in 1 .. Len(t.s.reg) |-> i])

\* a pass beyond the last assemblage changes nothing
CnSweepOnce(s, j) == CnOnePass([s |-> s, con |-> {j}, again |-> TRUE])
CnSweep(s, j) ==
    IF ~s.plan.fate THEN [s |-> s, con |-> {j}, again |-> FALSE]
    ELSE FoldLeft(LAMBDA t, n : IF t.again THEN CnOnePass(t) ELSE t,
                  [s |-> s, con |-> {j}, again |-> TRUE], [n \in 1 .. Len(s.reg) + 1 |-> n])

\* _terminate_job: with those it is connected to
CnSwept(s, j, t) ==
    [CnKill(t.s, j) EXCEPT !.swept = Append(@, [job |-> j, reg |-> s.reg, jobs |-> s.jobs,
                                               con |-> t.con])]

CnTerminateJob(s, j) == CnSwept(s, j, CnSweep(s, j))

-----------------------------------------------------------------------------
(***************************************************************************)
(* Connecting.                                                             *)
(***************************************************************************)
CnProcs(s, k) ==
    UNION {{<<j, r>> : r \in {q \in DOMAIN s.plan.hosts[j] : CnConnectionCovers(s.plan.sets[k], <<j, q>>)}} :
              j \in DOMAIN s.plan.hosts}

CnHost(s, x) == s.plan.hosts[x[1]][x[2]]
CnHosts(s, k) == {CnHost(s, x) : x \in CnProcs(s, k)}
CnLocal(s, k, d) == {x \in CnProcs(s, k) : CnHost(s, x) = d}

\* report_connection: "Every daemon holding a participant runs this"
CnReport(s, d, k, op) ==
    IF d = 0 THEN (IF op = "con" THEN CnRecord(s, s.plan.sets[k]) ELSE CnDrop(s, s.plan.sets[k]))
    ELSE [s EXCEPT !.up[d] = Append(@, [op |-> "report", kind |-> op, k |-> k])]

\* connection_recv
CnReportRecv(s, m) ==
    IF m.kind = "con" THEN CnRecord(s, s.plan.sets[m.k]) ELSE CnDrop(s, s.plan.sets[m.k])

\* connect_release and mdxcbfunc: only a success is reported
CnRelease(s, d, k, op, st) ==
    IF st # "ok" THEN s ELSE CnReport([s EXCEPT !.done[<<k, op>>] = @ \cup {d}], d, k, op)

\* the fence ends when every daemon contributed, or when a member is lost
CnTryRelease(s, k, op) ==
    IF s.got[<<k, op>>] = {} \/ s.rel[<<k, op>>] # "no" THEN s
    ELSE LET lost == \E x \in CnProcs(s, k) : x[2] \in s.seen[x[1]]
             st == IF lost THEN "error" ELSE "ok" IN
         IF ~lost /\ s.got[<<k, op>>] # CnHosts(s, k) THEN s
         ELSE [s EXCEPT !.rel[<<k, op>>] = st,
                        !.down = [d \in DOMAIN @ |->
                            IF d \in CnHosts(s, k)
                            THEN Append(@[d], [op |-> "release", k |-> k, kind |-> op, st |-> st])
                            ELSE @[d]]]

CnContribution(s, d, m) == CnTryRelease([s EXCEPT !.got[<<m.k, m.kind>>] = @ \cup {d}], m.k, m.kind)

-----------------------------------------------------------------------------
(***************************************************************************)
(* Processes that end.                                                     *)
(***************************************************************************)
\* the assemblages a process is connected in: its connect has returned and it
\* has not called disconnect
CnConnectedIn(s, x) ==
    {k \in DOMAIN s.plan.sets :
        /\ x \in CnProcs(s, k) /\ CnHost(s, x) \in s.done[<<k, "con">>]
        /\ x \notin s.called[<<k, "dis">>]}

CnDeath(s, x, how) ==
    [s EXCEPT !.live[x[1]] = @ \ {x[2]},
              !.up[CnHost(s, x)] = Append(@, [op |-> "term", x |-> x, how |-> how,
                                              in |-> CnConnectedIn(s, x)])]

\* proc_errors: the failure of a process takes its job down
CnProcErrors(s, m) ==
    IF m.how = "fail" /\ s.jobs[m.x[1]] = "run"
    THEN CnTerminateJob([s EXCEPT !.jobs[m.x[1]] = "aborted"], m.x[1])
    ELSE s

\* check_complete_resume: what the requester of the job is told
CnJobComplete(s, j) ==
    [s EXCEPT !.verdict[j] = IF s.jobs[j] = "aborted" THEN "failed"
                             ELSE IF j \in s.cancelled[0] THEN "cancelled" ELSE "exit code",
              !.jobs[j] = "term"]

\* prte_state_base_track_procs
CnTrack(s, m) ==
    LET j == m.x[1]
        t == [CnTerminated(s, m.x) EXCEPT !.seen[j] = @ \cup {m.x[2]}] IN
    IF t.seen[j] = DOMAIN s.plan.hosts[j] THEN CnJobComplete(t, j) ELSE t

\* the fences under way that include the process
CnFences(s) ==
    FoldLeft(LAMBDA t, k : CnTryRelease(CnTryRelease(t, k, "con"), k, "dis"), s,
             [k \in DOMAIN s.plan.sets |-> k])

CnKnows(s, k) == \E i \in DOMAIN s.reg : s.reg[i].mem = s.plan.sets[k]

CnTerm(s, m) ==
    IF m.x[2] \in s.seen[m.x[1]] THEN s
    ELSE CnFences(CnTrack(CnProcErrors([s EXCEPT !.missed = @ \cup {k \in m.in : ~CnKnows(s, k)}], m), m))

\* a kill command: the job's processes here end, and are reported
CnKilled(s, d, j) ==
    LET here == {x \in {<<j, r>> : r \in s.live[j]} : CnHost(s, x) = d} IN
    FoldLeft(LAMBDA t, x : CnDeath(t, x, "killed"), s, SetToSeq(here))

-----------------------------------------------------------------------------
(***************************************************************************)
(* Events.                                                                 *)
(***************************************************************************)
\* pmix_server_group_member_left
CnMemberLeft(s, d, e) == IF e.what = "left" THEN [s EXCEPT !.groups[d] = @ \ {e.of}] ELSE s

\* pmix_server_notify: the daemon the event came from has told its clients
CnIsMine(d, m) == m.from = d

CnNotify(s, d, m) ==
    LET t == CnMemberLeft(s, d, m.e) IN
    IF CnIsMine(d, m) THEN t ELSE [t EXCEPT !.told[d] = Append(@, m.e)]

\* pmix_server_notify_event: a client's event goes to every daemon
CnNotifyEvent(s, d, e) ==
    CnXcast([s EXCEPT !.told[d] = Append(@, e), !.sent = @ \cup {e}], d, e)

-----------------------------------------------------------------------------
(***************************************************************************)
(* Job control (pmix_server_job_ctrl.c), at the daemon it is asked of.     *)
(***************************************************************************)
\* mark_cancelled: on this daemon's own copy of the job
CnMarkCancelled(s, d, j) == [s EXCEPT !.cancelled[d] = @ \cup {j}]

CnCtrlKill(s, d, j) == CnKill(CnMarkCancelled(s, d, j), j)

CnCtrlDefinePset(s, name) ==
    [s EXCEPT !.down = [d \in DOMAIN @ |-> Append(@[d], [op |-> "pset", name |-> name])]]

\* PRTE_DAEMON_DEFINE_PSET at a daemon
CnDefinePset(s, d, m) == [s EXCEPT !.psets[d] = @ \cup {m.name}]

\* process_job_ctrl: the first directive it knows decides
CnProcessJobCtrl(s, r) ==
    CASE r.kind = "kill" -> CnCtrlKill(s, r.at, r.job)
      [] r.kind = "pset" -> CnCtrlDefinePset(s, r.job)

-----------------------------------------------------------------------------
(***************************************************************************)
(* Steps.                                                                  *)
(***************************************************************************)
\* the members at a daemon call, and the daemon contributes
CnCall ==
    \E k \in DOMAIN cn.plan.sets : \E op \in {"con", "dis"} : \E d \in CnHosts(cn, k) :
        /\ CnLocal(cn, k, d) \cap cn.called[<<k, op>>] = {}
        /\ \A x \in CnLocal(cn, k, d) : x[2] \in cn.live[x[1]]
        /\ op = "dis" => k \in cn.plan.dis /\ d \in cn.done[<<k, "con">>]
        /\ cn' = [cn EXCEPT !.called[<<k, op>>] = @ \cup CnLocal(cn, k, d),
                            !.up[d] = Append(@, [op |-> "contrib", k |-> k, kind |-> op])]

\* the master launches a job that was spawned
CnLaunch ==
    \E j \in DOMAIN cn.plan.hosts :
        /\ cn.jobs[j] = "none" /\ cn.jobs[cn.plan.parent[j][1]] # "none"
        /\ cn' = CnSpawned([cn EXCEPT !.jobs[j] = "run", !.live[j] = DOMAIN cn.plan.hosts[j]], j)

CnDie ==
    \E i \in DOMAIN cn.plan.deaths :
        LET x == cn.plan.deaths[i].x IN
        x[2] \in cn.live[x[1]] /\ cn' = CnDeath(cn, x, cn.plan.deaths[i].how)

CnAtMaster(s, d, m) ==
    CASE m.op = "contrib" -> CnContribution(s, d, m)
      [] m.op = "report" -> CnReportRecv(s, m)
      [] m.op = "term" -> CnTerm(s, m)

CnAtDaemon(s, d, m) ==
    CASE m.op = "release" -> CnRelease(s, d, m.k, m.kind, m.st)
      [] m.op = "kill" -> CnKilled(s, d, m.j)
      [] m.op = "pset" -> CnDefinePset(s, d, m)
      [] m.op = "event" -> CnNotify(s, d, m)

CnDeliver ==
    \E d \in CnDaemons(cn) :
        \/ /\ cn.up[d] # <<>>
           /\ cn' = CnAtMaster([cn EXCEPT !.up[d] = Tail(@)], d, Head(cn.up[d]))
        \/ /\ cn.down[d] # <<>>
           /\ cn' = CnAtDaemon([cn EXCEPT !.down[d] = Tail(@)], d, Head(cn.down[d]))

\* prte_pmix_server_job_departed
CnDepart ==
    \E j \in DOMAIN cn.jobs :
        cn.jobs[j] = "term" /\ cn' = CnPurge([cn EXCEPT !.jobs[j] = "gone"], j)

\* a client raises an event
CnRaise ==
    \E i \in DOMAIN cn.plan.events :
        LET e == cn.plan.events[i] IN
        e.e \notin cn.sent /\ cn' = CnNotifyEvent(cn, e.at, e.e)

\* _job_ctrl
CnJobCtrl ==
    \E i \in DOMAIN cn.plan.ctrl \ cn.asked :
        /\ cn.plan.ctrl[i].kind = "kill" => cn.jobs[cn.plan.ctrl[i].job] \notin {"none", "gone"}
        /\ cn' = CnProcessJobCtrl([cn EXCEPT !.asked = @ \cup {i}], cn.plan.ctrl[i])

CnNext == CnCall \/ CnLaunch \/ CnDie \/ CnDeliver \/ CnDepart \/ CnRaise \/ CnJobCtrl

CnSpec == CnInit /\ [][CnNext]_cn

-----------------------------------------------------------------------------
(***************************************************************************)
(* Properties.                                                             *)
(***************************************************************************)
\* When the master hears that a process ended, it knows every assemblage the
\* process was connected in, so the others are told and share its fate: each
\* daemon's own report precedes the end of its processes.  And it never again
\* holds an assemblage whose dissolution it has heard of, however late the
\* other daemons' reports of it are.
CnRegistryTimely ==
    /\ cn.missed = {}
    /\ \A i \in DOMAIN cn.reg : cn.reg[i].mem \notin cn.dropped

\* the running jobs that a chain of assemblages leads to from the failed job
CnReach(w) ==
    LET next(S) == S \cup {j \in DOMAIN w.jobs :
                               /\ w.jobs[j] = "run"
                               /\ \E i \in DOMAIN w.reg :
                                     /\ ~w.reg[i].terminating
                                     /\ \E m \in w.reg[i].mem : m[1] \in S
                                     /\ \E m \in w.reg[i].mem : m[1] = j}
    IN FoldLeft(LAMBDA S, j : next(S), {w.job}, [j \in DOMAIN w.jobs |-> j])

\* A failed job takes down exactly the running jobs it was connected to,
\* directly or through other jobs that come down with it ("Fate sharing has to
\* be transitive"), and nobody that is connected only through a job that had
\* already ended.
CnFateShared == \A i \in DOMAIN cn.swept : cn.plan.fate => cn.swept[i].con = CnReach(cn.swept[i])

\* Once every notification has been delivered, each daemon's clients have been
\* told of every event raised anywhere, once, also at the daemon it came from;
\* and all daemons agree on who is still in a group and on the
\* process sets that have been defined.
CnToldOnce ==
    /\ \A d \in CnDaemons(cn) : \A e \in cn.sent :
          Cardinality({n \in DOMAIN cn.told[d] : cn.told[d][n] = e}) <= 1
    /\ (\A d \in CnDaemons(cn) : cn.down[d] = <<>>) =>
          \A d \in CnDaemons(cn) :
              /\ \A e \in cn.sent : \E n \in DOMAIN cn.told[d] : cn.told[d][n] = e
              /\ cn.groups[d] = cn.groups[0] /\ cn.psets[d] = cn.psets[0]

\* At rest, no assemblage holds a process of a job that failed beside one that
\* still runs.
\* It does not hold: see the README on where the code disagrees.
CnNobodyLeftBehind ==
    (\A d \in CnDaemons(cn) : cn.up[d] = <<>> /\ cn.down[d] = <<>>) =>
        \A i \in DOMAIN cn.reg : \A a, b \in cn.reg[i].mem :
            (\E n \in DOMAIN cn.swept : cn.swept[n].job = a[1]) => cn.jobs[b[1]] # "run"

\* A job that was killed on request, and did not fail, is reported as cancelled.
\* It does not hold: see the README on where the code disagrees.
CnCancelReported ==
    \A i \in cn.asked : LET r == cn.plan.ctrl[i] IN
        r.kind = "kill" => cn.verdict[r.job] # "exit code"

\* Who is connected shares its fate and is told, whatever order the reports,
\* the failures and the events come in.
CnSound == CnRegistryTimely /\ CnFateShared /\ CnToldOnce

=============================================================================

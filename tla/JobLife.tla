------------------------------ MODULE JobLife ------------------------------
(***************************************************************************)
(* The life of one job of a persistent DVM, from plm.spawn to the release  *)
(* of its object: the launch pipeline and the two state machines of the    *)
(* master (state/dvm, errmgr/dvm), those of a daemon (state/prted,         *)
(* errmgr/prted), the local launcher they share (odls, prte_wait) and the  *)
(* messages between them (plm_base_receive, prted_comm).                   *)
(*                                                                         *)
(* Everything a node does runs on one progress thread, from one FIFO of    *)
(* active events: q[n].  A state that is "activated" is appended to it, as *)
(* is a message that arrives, a SIGCHLD, an end of file and a completion   *)
(* called back by the PMIx library.  Forks run on worker threads.          *)
(*                                                                         *)
(* The whole state is the record jl and a handler is an operator from      *)
(* such a record to the next.  A plan, chosen in Init, fixes where the     *)
(* processes are mapped, how each will behave and what fails.              *)
(***************************************************************************)
EXTENDS Integers, Sequences, FiniteSets, SequencesExt

CONSTANTS
    JlDaemons,   \* the daemons, other than the master
    JlHnp,       \* the master, which is also a daemon
    JlProcs,     \* the processes a job may have
    JlPlans      \* the plans: records [order, home, fate, fails, timer, recover, prompt]

VARIABLE jl

JlNodes == JlDaemons \cup {JlHnp}

\* How a process will behave: exit with zero or not, die of a signal, call
\* PMIx_Abort and wait, run until it is killed; or never come to run: the
\* fork fails, the exec fails, its output channels cannot be set up.
JlFates == {"ok", "bad", "sig", "abort", "stay", "nofork", "noexec", "noiof"}

\* What fails on the way: nothing, a step of the launch pipeline, or the
\* registration of the job at a daemon.
JlSteps == {"INIT", "ALLOCATE", "VM_READY", "MAP", "LAUNCH_APPS"}

ASSUME JlAssumption ==
    /\ JlHnp \notin JlDaemons
    /\ \A plan \in JlPlans : /\ plan.order \in Seq(JlProcs)   \* by rank
                             /\ plan.home \in [JlProcs -> JlNodes]
                             /\ plan.fate \in [JlProcs -> JlFates]
                             /\ plan.fails \in {"none"} \cup JlSteps \cup JlDaemons
                             /\ plan.timer \in {"none", "spawn", "job"}
                             /\ plan.recover \in BOOLEAN
                             /\ plan.prompt \in BOOLEAN        \* see JlPrompt

\* Process states below TERMINATED, and the ones with a callback of their
\* own; the others go to the error manager.
JlBefore == {"INIT", "RUNNING", "IOF_COMPLETE", "WAITPID_FIRED"}
JlTracked == {"RUNNING", "IOF_COMPLETE", "WAITPID_FIRED", "TERMINATED"}
JlNoStart == {"FAILED_TO_START", "FAILED_TO_LAUNCH"}
JlError(st) == st \notin JlBefore \cup {"TERMINATED"}

\* Job states below UNTERMINATED.
JlLive == JlSteps \cup {"SEND_LAUNCH_MSG", "RUNNING"}

\* Mutant of JlNeverRan: a job that was never launched is waited for.
JlAwaitsTheUnlaunched == {"ALLOC_FAILED", "MAP_FAILED", "FILES_POSN_FAILED"}

\* A job that failed in one of these states has nothing to wait for.
JlNeverRan == {"NEVER_LAUNCHED", "ALLOC_FAILED", "MAP_FAILED", "FILES_POSN_FAILED"}

NobodyJl == "nobody"

JlProc == [st |-> "INIT", alive |-> FALSE, wait |-> FALSE, iof |-> FALSE, recd |-> FALSE,
           rep |-> FALSE, killp |-> FALSE, pid |-> FALSE]

JlNoJob == [refs |-> 0, st |-> "INIT", nl |-> 0, nt |-> 0, failn |-> FALSE, termn |-> FALSE,
            kids |-> FALSE]

JlLocal(s, n) == SelectSeq(s.plan.order, LAMBDA p : s.plan.home[p] = n)
JlKids(s, n) == IF s.jb[n].kids THEN JlLocal(s, n) ELSE <<>>

(***************************************************************************)
(* Events and messages.                                                    *)
(***************************************************************************)

JlEv(k, e, p) == [k |-> k, e |-> e, p |-> p, list |-> <<>>]

JlPost(s, n, ev) == [s EXCEPT !.q[n] = Append(@, ev)]

\* A job event holds a reference to the job object; the others hold its name.
JlProcEv(s, n, p, e) == JlPost(s, n, JlEv("proc", e, p))
JlJobEv(s, n, e) == JlPost(s, n, JlEv("job", e, NobodyJl))

\* A job can be found by name until the last reference to it is dropped.
JlHere(s, n) ==
    \/ s.jb[n].refs > 0
    \/ \E i \in DOMAIN s.q[n] : s.q[n][i].k = "job"
    \/ \E i \in DOMAIN s.pend[n] : s.pend[n][i] = "dereg"

\* A broadcast of the master: to every daemon, itself included.
JlXcast(s, c) ==
    LET ev == JlEv("cmd", c, NobodyJl)
    IN  JlPost([s EXCEPT !.down = [d \in JlDaemons |-> Append(s.down[d], ev)]], JlHnp, ev)

\* A report of a daemon.  It joins the master's queue when it is sent: a daemon
\* may be slow to send it, and nothing the master does depends on when it left.
JlToHnp(s, m, list) == JlPost(s, JlHnp, [k |-> "msg", e |-> m, p |-> NobodyJl, list |-> list])

\* An answer from the PMIx library that is on its way.
JlAwait(s, n, what) == [s EXCEPT !.pend[n] = Append(@, what)]

\* prte_plm_base_pack_state_update: the children of the job, without the
\* ones reported before when this is the report of the normal end.
JlStateUpdate(s, n, ps) ==
    JlToHnp(s, "UPDATE_PROC_STATE", [i \in DOMAIN ps |-> [p |-> ps[i], st |-> s.pr[n][ps[i]].st]])

(***************************************************************************)
(* The local launcher: odls_base_default_fns.c and prte_wait.c.            *)
(***************************************************************************)

\* odls_base_default_construct_child_list: the job and its local children
\* enter the daemon's tables, then the job is registered with the local PMIx
\* server.  When that cannot be done a daemon fails its children.
JlAddProcs(s, n) ==
    LET t == [s EXCEPT !.jb[n].refs = IF n = JlHnp THEN @ ELSE 1, !.jb[n].kids = TRUE]
        failed == [p \in JlProcs |->
                     IF s.plan.home[p] = n
                     THEN [s.pr[n][p] EXCEPT !.st = "FAILED_TO_START", !.iof = TRUE, !.wait = TRUE]
                     ELSE s.pr[n][p]]
    IN  IF s.plan.fails = n
        THEN JlJobEv([t EXCEPT !.pr[n] = failed], n, "NEVER_LAUNCHED")
        ELSE JlAwait(t, n, "reg")

\* A child whose output cannot be set up ends the launch: the ones after it
\* stay as they are.
JlLaunchOne(s, n, p) ==
    LET reset == [s.pr[n][p] EXCEPT !.wait = FALSE, !.killp = FALSE, !.iof = FALSE, !.pid = FALSE,
                                    !.alive = TRUE]
        t == [s EXCEPT !.pr[n][p] = reset, !.trk = @ \cup {p}]
    IN  IF s.pr[n][p].alive \/ s.pr[n][p].st # "INIT" THEN s
        ELSE IF s.plan.fate[p] = "noiof"
        THEN JlJobEv(JlProcEv(JlPost([t EXCEPT !.pr[n][p].alive = FALSE], n,
                                     JlEv("cancel", "", p)),
                              n, p, "FAILED_TO_LAUNCH"), n, "FAILED_TO_LAUNCH")
        ELSE [t EXCEPT !.os[p] = "forking", !.out[p] = "open"]

\* odls_base_default_launch_local
JlLaunchLocal(s, n) ==
    LET ps == JlKids(s, n)
        bad == {i \in DOMAIN ps : s.plan.fate[ps[i]] = "noiof" /\ s.pr[n][ps[i]].st = "INIT"}
        upto == IF bad = {} THEN Len(ps) ELSE CHOOSE i \in bad : \A j \in bad : i <= j
    IN  IF JlHere(s, n) THEN FoldLeft(LAMBDA t, p : JlLaunchOne(t, n, p), s, SubSeq(ps, 1, upto)) ELSE s

\* A kill that found the child between its launch and its fork is carried out
\* when the fork is reported.
JlKillDue(r) == r.killp

\* spawn_done: the verdict of a worker, applied on the progress thread.
JlSpawnDone(s, n, p, verdict) ==
    LET kill == JlKillDue(s.pr[n][p])
        t == [s EXCEPT !.pr[n][p].killp = FALSE, !.pr[n][p].alive = (verdict = "RUNNING" /\ @)]
        u == IF verdict # "RUNNING" /\ ~s.pr[n][p].pid
             THEN JlPost(t, n, JlEv("cancel", "", p)) ELSE t
        v == JlProcEv(u, n, p, verdict)
    IN  IF verdict = "RUNNING" /\ kill
        THEN JlPost(v, n, JlEv("killone", "", p)) ELSE v

\* wait_signal_callback: a child that nobody waits for is reaped and dropped.
JlReaped(s, n, p) ==
    LET t == [s EXCEPT !.os[p] = "gone"]
    IN  IF p \in s.trk /\ s.pr[n][p].pid
        THEN JlPost([t EXCEPT !.trk = @ \ {p}], n, JlEv("waited", "", p))
        ELSE t

\* What an exit status says of the process.
JlVerdict(how) ==
    CASE how = "zero" -> "WAITPID_FIRED"
      [] how = "nonzero" -> "TERM_NON_ZERO"
      [] how = "signal" -> "ABORTED_BY_SIG"

\* odls_base_default_wait_local_proc
JlWaited(s, n, p) ==
    LET r == s.pr[n][p]
        e == IF r.alive /\ r.st = "KILLED_BY_CMD" THEN "WAITPID_FIRED" ELSE JlVerdict(s.how[p])
    IN  JlProcEv(JlPost([s EXCEPT !.pr[n][p].wait = (@ \/ r.alive)], n,
                        JlEv("cancel", "", p)), n, p, e)

\* One child of odls_base_default_kill_local_procs: still being forked, never
\* started or already over, or running.
JlKillOne(s, n, p) ==
    LET r == s.pr[n][p]
        Settle(t) == IF t.pr[n][p].iof THEN JlProcEv(t, n, p, t.pr[n][p].st) ELSE t
        shot == [r EXCEPT !.wait = TRUE, !.alive = FALSE, !.pid = FALSE,
                          !.st = IF @ \in JlBefore THEN "KILLED_BY_CMD" ELSE @]
        t1 == JlPost(s, n, JlEv("cancel", "", p))
        t2 == IF s.os[p] = "up"
              THEN JlPost([t1 EXCEPT !.os[p] = "zombie", !.how[p] = "signal"], n,
                          JlEv("sigchld", "", p))
              ELSE t1
    IN  IF r.alive /\ ~r.pid THEN [s EXCEPT !.pr[n][p].killp = TRUE]
        ELSE IF ~r.alive
        THEN IF r.st \in {"INIT", "RUNNING"}
             THEN Settle([s EXCEPT !.pr[n][p].st = "TERMINATED", !.pr[n][p].wait = TRUE,
                                   !.pr[n][p].pid = FALSE, !.early = @ \/ ~r.iof])
             ELSE s
        ELSE Settle([t2 EXCEPT !.pr[n][p] = shot])

JlKill(s, n, ps) == FoldLeft(LAMBDA t, p : JlKillOne(t, n, p), s, ps)

(***************************************************************************)
(* A daemon's state machine: state_prted.c and errmgr_prted.c.             *)
(***************************************************************************)

\* Both halves of the end of a process have been seen, and it is not counted.
JlOver(r) == r.iof /\ r.wait /\ ~r.recd

JlSettle(s, n, p) == IF JlOver(s.pr[n][p]) THEN JlProcEv(s, n, p, "TERMINATED") ELSE s

JlCount(s, n, p) ==
    [s EXCEPT !.jb[n].nt = IF s.pr[n][p].recd THEN @ ELSE @ + 1, !.pr[n][p].recd = TRUE]

\* The last process of the job here: the report of the normal end, then the
\* children leave the tables and the PMIx server forgets the job.
JlLocalEnd(s, n) ==
    LET ps == SelectSeq(JlKids(s, n), LAMBDA p : ~s.pr[n][p].rep)
        t == JlStateUpdate(s, n, ps)
    IN  JlAwait([t EXCEPT !.jb[n].termn = TRUE, !.jb[n].kids = FALSE,
                          !.pr[n] = [p \in JlProcs |-> IF p \in Range(ps) THEN [@[p] EXCEPT !.rep = TRUE]
                                                       ELSE @[p]]], n, "dereg")

\* track_procs of state/prted, state by state
JlRunning(s, n, p) ==
    LET nl == s.jb[n].nl + 1
        t == [s EXCEPT !.jb[n].nl = nl, !.pr[n][p].st = IF s.pr[n][p].recd THEN @ ELSE "RUNNING"]
    IN  IF nl = Len(JlLocal(s, n)) THEN JlJobEv(t, n, "LOCAL_LAUNCH_COMPLETE") ELSE t

JlTerminated(s, n, p) ==
    LET t == [JlCount(s, n, p) EXCEPT !.pr[n][p].alive = FALSE, !.pr[n][p].st = "TERMINATED"]
    IN  IF t.jb[n].nt = Len(JlLocal(s, n)) /\ ~t.jb[n].termn THEN JlLocalEnd(t, n) ELSE t

JlTrackPrted(s, n, p, e) ==
    CASE e = "RUNNING" -> JlRunning(s, n, p)
      [] e = "IOF_COMPLETE" -> JlSettle([s EXCEPT !.pr[n][p].iof = TRUE], n, p)
      [] e = "WAITPID_FIRED" -> JlSettle([s EXCEPT !.pr[n][p].wait = TRUE], n, p)
      [] e = "TERMINATED" -> JlTerminated(s, n, p)

\* The report of a failure, made once for a job that is not recoverable.
JlAlert(s, n, p) ==
    IF s.jb[n].failn THEN s
    ELSE [JlStateUpdate(s, n, <<p>>) EXCEPT !.jb[n].failn = ~s.plan.recover]

\* proc_errors of errmgr/prted, by the kind of failure: the process called
\* abort, exited with an error, was never started, or was killed.
JlCalledAbort(s, n, p) == JlAlert([s EXCEPT !.pr[n][p].st = "CALLED_ABORT"], n, p)

JlNonZero(s, n, p) == JlSettle(JlAlert([s EXCEPT !.pr[n][p].st = "TERM_NON_ZERO"], n, p), n, p)

JlNotStarted(s, n, p, e) ==
    LET t == JlCount([s EXCEPT !.pr[n][p].st = e], n, p)
    IN  IF t.jb[n].nt = Len(JlLocal(s, n)) THEN JlJobEv(t, n, e) ELSE t

JlKilled(s, n, p, e) ==
    JlSettle(IF s.jb[n].failn THEN s
             ELSE JlAlert([s EXCEPT !.pr[n][p].st = e, !.pr[n][p].rep = TRUE], n, p), n, p)

JlErrPrted(s, n, p, e) ==
    CASE e = "CALLED_ABORT" -> JlCalledAbort(s, n, p)
      [] e = "TERM_NON_ZERO" -> JlNonZero(s, n, p)
      [] e \in JlNoStart -> JlNotStarted(s, n, p, e)
      [] e \in {"KILLED_BY_CMD", "ABORTED_BY_SIG"} -> JlKilled(s, n, p, e)

\* failed_start: the children that never ran are taken to their end.
JlFailedStart(s, n) ==
    FoldLeft(LAMBDA t, p : IF s.pr[n][p].st = "FAILED_TO_START"
                           THEN JlProcEv([t EXCEPT !.pr[n][p].iof = TRUE, !.pr[n][p].wait = TRUE],
                                         n, p, "TERMINATED")
                           ELSE t, s, JlKids(s, n))

\* LOCAL_LAUNCH_COMPLETE in track_jobs of state/prted: a child that ended
\* before its launch was reported goes out in the state it is in.
JlLaunchReport(s, n) ==
    LET ps == JlKids(s, n)
        Shown(p) == LET r == s.pr[n][p] IN IF JlError(r.st) \/ r.recd THEN r.st ELSE "RUNNING"
    IN  JlToHnp(s, "LOCAL_LAUNCH_COMP", [i \in DOMAIN ps |-> [p |-> ps[i], st |-> Shown(ps[i])]])

\* job_errors of errmgr/prted
JlJobErrPrted(s, n, e) ==
    LET t == IF e \in {"FAILED_TO_START", "NEVER_LAUNCHED"} THEN JlFailedStart(s, n) ELSE s
    IN  JlStateUpdate([t EXCEPT !.jb[n].st = e], n, JlKids(s, n))

(***************************************************************************)
(* The master's state machine: state_dvm.c, state_base_fns.c, errmgr_dvm.c *)
(* and the plm base.                                                       *)
(***************************************************************************)

\* prte_plm_base_spawn_response: the requester is answered once.
JlAnswer(s, ok) == IF s.ans = "none" THEN [s EXCEPT !.ans = IF ok THEN "ok" ELSE "error"] ELSE s

\* A process is counted out of its job once, however many reports of its end
\* arrive.
JlCountsAgain(r) == TRUE
JlUncounted(r) == ~r.recd

\* prte_state_base_track_procs, for a process that runs, for the halves of its
\* end, and for its end.
JlRunningHnp(s, p) ==
    LET t == [s EXCEPT !.pr[JlHnp][p].st = IF @ \in JlBefore THEN "RUNNING" ELSE @, !.jb[JlHnp].nl = @ + 1]
    IN  IF t.jb[JlHnp].nl = s.num THEN JlJobEv(t, JlHnp, "RUNNING") ELSE t

JlHalfHnp(s, p, e) ==
    LET r == s.pr[JlHnp][p]
        t == [s EXCEPT !.pr[JlHnp][p] =
                [r EXCEPT !.st = IF @ \in JlBefore THEN e ELSE @,
                          !.iof = @ \/ e = "IOF_COMPLETE", !.wait = @ \/ e = "WAITPID_FIRED"]]
    IN  IF IF e = "IOF_COMPLETE" THEN r.wait ELSE r.iof THEN JlProcEv(t, JlHnp, p, "TERMINATED") ELSE t

JlTerminatedHnp(s, p) ==
    LET r == s.pr[JlHnp][p]
        t == [s EXCEPT !.pr[JlHnp][p] = [r EXCEPT !.st = IF @ \in JlBefore THEN "TERMINATED" ELSE @,
                                                  !.recd = TRUE, !.alive = FALSE],
                       !.jb[JlHnp].nt = @ + 1]
    IN  IF ~JlUncounted(r) THEN s
        ELSE IF t.jb[JlHnp].nt = s.num THEN JlJobEv(t, JlHnp, "TERMINATED") ELSE t

JlTrackHnp(s, p, e) ==
    CASE e = "RUNNING" -> JlRunningHnp(s, p)
      [] e \in {"IOF_COMPLETE", "WAITPID_FIRED"} -> JlHalfHnp(s, p, e)
      [] e = "TERMINATED" -> JlTerminatedHnp(s, p)

\* prte_state_base_recover_resources: the slot of one process, given back
\* while the job goes on.
JlRecover(s, p) ==
    IF p \in s.mapped THEN [s EXCEPT !.mapped = @ \ {p}, !.inuse = @ - 1] ELSE s

\* The first failure decides the job: its state, its exit code, and the order
\* to kill what is left of it.
JlAbortJob(s, p, e) ==
    IF s.first # "none" THEN s
    ELSE JlXcast([s EXCEPT !.jb[JlHnp].st = e, !.first = e, !.exit = TRUE], "KILL")

\* proc_errors of errmgr/dvm, for the process of an application: it is marked
\* as reaped, and as silent unless its output ends here, then its failure is
\* dealt with.
JlMarkOver(s, p, e) ==
    LET t == JlProcEv([s EXCEPT !.pr[JlHnp][p].st = IF @ \in JlBefore THEN e ELSE @],
                      JlHnp, p, "WAITPID_FIRED")
    IN  IF s.plan.home[p] # JlHnp THEN JlProcEv(t, JlHnp, p, "IOF_COMPLETE") ELSE t

\* A process that died of something: the job goes on if it may, or it is over.
JlProcDied(s, p, e) ==
    LET t == IF e = "TERM_NON_ZERO" THEN [s EXCEPT !.exit = TRUE, !.pr[JlHnp][p].alive = FALSE] ELSE s
    IN  IF s.plan.recover THEN JlRecover(t, p) ELSE JlAbortJob(t, p, e)

JlErrHnp(s, p, e) ==
    LET t == JlMarkOver(s, p, e)
    IN  CASE e = "KILLED_BY_CMD" ->
               IF s.jb[JlHnp].nt >= s.num THEN JlJobEv(t, JlHnp, "TERMINATED")
               ELSE IF s.plan.recover THEN JlRecover(t, p) ELSE t
          [] e \in JlNoStart ->
               IF s.first # "none" THEN t ELSE JlJobEv(JlAbortJob(t, p, e), JlHnp, "FAILED_TO_START")
          [] e \in {"TERM_NON_ZERO", "ABORTED_BY_SIG", "CALLED_ABORT"} -> JlProcDied(t, p, e)

\* job_errors of errmgr/dvm: whatever the job was, it is now what failed.
JlJobErrHnp(s, e) ==
    LET t == JlXcast(JlAnswer([s EXCEPT !.jb[JlHnp].st = e], FALSE), "KILL")
    IN  IF \/ e \in JlNeverRan
           \/ e \in JlNoStart /\ s.jb[JlHnp].nt >= s.num
        THEN JlJobEv(t, JlHnp, "TERMINATED") ELSE t

\* The answer to a spawn that was not answered when the job ended.
JlSucceeded(s) == ~s.exit

\* check_complete of state/dvm
JlCheckComplete(s) ==
    LET t == [s EXCEPT !.timers = @ \ {"job"}, !.jb[JlHnp].st = IF @ \in JlLive THEN "TERMINATED" ELSE @,
                       !.jb[JlHnp].kids = FALSE]
    IN  JlAwait(JlAnswer(t, JlSucceeded(s)), JlHnp, "dereg")

\* check_complete_resume: what the job still holds is given back, and the end
\* of the job is made known unless it was already.
JlResume(s) ==
    LET t == [s EXCEPT !.inuse = @ - Cardinality(s.mapped), !.mapped = {}]
    IN  IF s.jb[JlHnp].st = "NOTIFIED" THEN t
        ELSE [JlJobEv(t, JlHnp, "NOTIFY_COMPLETED") EXCEPT !.jb[JlHnp].st = "NOTIFIED"]

\* dvm_notify, then cleanup_job: the daemons are told, and the job is released.
JlTellDaemons(s) == JlXcast(s, "CLEANUP_JOB")
JlNotify(s) == JlJobEv(JlTellDaemons(s), JlHnp, "NOTIFIED")
JlCleanupJob(s) == [s EXCEPT !.jb[JlHnp].refs = @ - 1]

\* prte_plm_base_post_launch
JlPostLaunch(s) ==
    JlAnswer([s EXCEPT !.timers = @ \ {"spawn"}, !.jb[JlHnp].st = IF @ \in JlLive THEN "RUNNING" ELSE @], TRUE)

\* The launch pipeline.  Placing the files and setting up the application
\* are answered later; a step that fails ends it.
JlFailsAt(s, e) == s.plan.fails = e

\* prte_plm_base_setup_job, which arms the timers the job asked for
JlSetupJob(s) ==
    IF JlFailsAt(s, "INIT") THEN JlJobEv(s, JlHnp, "NEVER_LAUNCHED")
    ELSE JlJobEv([s EXCEPT !.timers = {s.plan.timer} \ {"none"}], JlHnp, "ALLOCATE")

\* prte_ras_base_allocate, as the pipeline sees it
JlAllocate(s) == JlJobEv(s, JlHnp, IF JlFailsAt(s, "ALLOCATE") THEN "ALLOC_FAILED" ELSE "VM_READY")

\* vm_ready and files_ready of state/dvm
JlVmReady(s) == JlAwait(s, JlHnp, "files")
JlFilesReady(s) == JlJobEv(s, JlHnp, IF JlFailsAt(s, "VM_READY") THEN "FILES_POSN_FAILED" ELSE "MAP")

\* prte_rmaps_base_map_job, as the pipeline sees it
JlMapJob(s) ==
    IF JlFailsAt(s, "MAP") THEN JlJobEv(s, JlHnp, "MAP_FAILED")
    ELSE JlJobEv([s EXCEPT !.num = Len(s.plan.order), !.mapped = Range(s.plan.order),
                           !.inuse = Len(s.plan.order)], JlHnp, "LAUNCH_APPS")

\* prte_plm_base_launch_apps and the answer to PMIx_server_setup_application
JlLaunchApps(s) == JlAwait(s, JlHnp, "setup")
JlSetupComplete(s) ==
    JlJobEv(s, JlHnp, IF JlFailsAt(s, "LAUNCH_APPS") THEN "NEVER_LAUNCHED" ELSE "SEND_LAUNCH_MSG")

\* prte_plm_base_send_launch_msg
JlSendLaunchMsg(s) == JlXcast([s EXCEPT !.sent = TRUE], "ADD_PROCS")

JlStep(s, e) ==
    LET t == [s EXCEPT !.jb[JlHnp].st = e]
    IN  CASE e = "INIT" -> JlSetupJob(t)
          [] e = "ALLOCATE" -> JlAllocate(t)
          [] e = "VM_READY" -> JlVmReady(t)
          [] e = "MAP" -> JlMapJob(t)
          [] e = "LAUNCH_APPS" -> JlLaunchApps(t)
          [] e = "SEND_LAUNCH_MSG" -> JlSendLaunchMsg(s)

\* prte_plm_base_recv: a daemon's report of states, at the master.  One about a
\* job that is gone is ignored.
JlUpdateProcState(s, list) ==
    IF JlHere(s, JlHnp) THEN FoldLeft(LAMBDA t, x : JlProcEv(t, JlHnp, x.p, x.st), s, list) ELSE s

\* A daemon's report of its launches.  One about a job that is gone is an error
\* of the command, and that ends the DVM.
JlLocalLaunchComp(s, list) ==
    LET t == FoldLeft(LAMBDA u, x : [u EXCEPT !.pr[JlHnp][x.p].st = x.st, !.jb[JlHnp].nl = @ + 1], s, list)
    IN  IF ~JlHere(s, JlHnp) THEN [s EXCEPT !.forced = TRUE]
        ELSE IF t.jb[JlHnp].nl = s.num THEN JlJobEv(t, JlHnp, "RUNNING") ELSE t

(***************************************************************************)
(* One event of a node's queue.                                            *)
(***************************************************************************)

\* A state is handed to the machine of the node; a process whose job is gone
\* has nothing left to track, and a state without a callback is dropped.
JlProcState(s, n, p, e) ==
    IF ~JlHere(s, n) THEN s
    ELSE IF e \in JlTracked THEN IF n = JlHnp THEN JlTrackHnp(s, p, e) ELSE JlTrackPrted(s, n, p, e)
    ELSE IF JlError(e) THEN IF n = JlHnp THEN JlErrHnp(s, p, e) ELSE JlErrPrted(s, n, p, e)
    ELSE s

JlJobState(s, n, e) ==
    IF e = "LOCAL_LAUNCH" THEN JlLaunchLocal(s, n)
    ELSE IF n # JlHnp THEN IF e = "LOCAL_LAUNCH_COMPLETE" THEN JlLaunchReport(s, n) ELSE JlJobErrPrted(s, n, e)
    ELSE CASE e \in JlLive \ {"RUNNING"} -> JlStep(s, e)
           [] e = "RUNNING" -> JlPostLaunch(s)
           [] e = "TERMINATED" -> JlCheckComplete(s)
           [] e = "NOTIFY_COMPLETED" -> JlNotify(s)
           [] e = "NOTIFIED" -> JlCleanupJob(s)
           [] OTHER -> JlJobErrHnp(s, e)

\* PRTE_DAEMON_DVM_CLEANUP_JOB_CMD
JlCleanup(s, n) ==
    IF ~JlHere(s, n) THEN s
    ELSE IF n = JlHnp THEN JlAnswer(s, TRUE) ELSE JlAwait(s, n, "clean")

\* prte_daemon_recv
JlCommand(s, n, c) ==
    CASE c = "ADD_PROCS" -> JlAddProcs(s, n)
      [] c = "KILL" -> JlKill(s, n, JlKids(s, n))
      [] c = "CLEANUP_JOB" -> JlCleanup(s, n)

\* An answer of the PMIx library, on the progress thread.
JlCompleted(s, n, what) ==
    CASE what = "reg" -> JlJobEv(s, n, "LOCAL_LAUNCH")
      [] what = "dereg" -> IF n = JlHnp THEN JlResume(s) ELSE s
      [] what = "clean" -> IF JlHere(s, n) THEN [s EXCEPT !.jb[n].refs = @ - 1] ELSE s
      [] what = "files" -> JlFilesReady(s)
      [] what = "setup" -> JlSetupComplete(s)

JlRun(s, n, ev) ==
    CASE ev.k = "proc" -> JlProcState(s, n, ev.p, ev.e)
      [] ev.k = "job" -> JlJobState(s, n, ev.e)
      [] ev.k = "cmd" -> JlCommand(s, n, ev.e)
      [] ev.k = "msg" -> IF ev.e = "UPDATE_PROC_STATE" THEN JlUpdateProcState(s, ev.list)
                         ELSE JlLocalLaunchComp(s, ev.list)
      [] ev.k = "done" -> JlCompleted(s, n, ev.e)
      [] ev.k = "spawned" -> JlSpawnDone(s, n, ev.p, ev.e)
      [] ev.k = "sigchld" -> JlReaped(s, n, ev.p)
      [] ev.k = "waited" -> JlWaited(s, n, ev.p)
      [] ev.k = "killone" -> JlKill(s, n, SelectSeq(JlKids(s, n), LAMBDA p : p = ev.p))
      [] ev.k = "cancel" -> [s EXCEPT !.trk = @ \ {ev.p}]

(***************************************************************************)
(* The steps: a node handles its next event, a message or a completion     *)
(* arrives, a worker forks, a process moves.                               *)
(***************************************************************************)

JlInit ==
    jl \in {[plan |-> plan,
             q |-> [n \in JlNodes |-> IF n = JlHnp THEN <<JlEv("job", "INIT", NobodyJl)>> ELSE <<>>],
             down |-> [d \in JlDaemons |-> <<>>],
             pend |-> [n \in JlNodes |-> <<>>],
             pr |-> [n \in JlNodes |-> [p \in JlProcs |-> JlProc]],
             jb |-> [n \in JlNodes |-> IF n = JlHnp THEN [JlNoJob EXCEPT !.refs = 1] ELSE JlNoJob],
             os |-> [p \in JlProcs |-> "none"], how |-> [p \in JlProcs |-> "zero"],
             out |-> [p \in JlProcs |-> "none"], rpt |-> {}, trk |-> {},
             ans |-> "none", first |-> "none", exit |-> FALSE, sent |-> FALSE, num |-> 0,
             mapped |-> {}, inuse |-> 0, timers |-> {}, forced |-> FALSE, early |-> FALSE]
             : plan \in JlPlans}

\* prte_job_destruct: the timers go with the job object.
JlDestruct(s) == IF JlHere(s, JlHnp) THEN s ELSE [s EXCEPT !.timers = {}]

\* A bound: in a prompt plan a worker's verdict and the end of file of a
\* process that is gone are posted before anything else moves.
JlPrompt ==
    jl.plan.prompt => /\ jl.rpt = {}
                      /\ \A p \in JlProcs : jl.out[p] = "open" => jl.os[p] \notin {"zombie", "gone"}

JlHandle(n) ==
    /\ jl.q[n] # <<>> /\ JlPrompt
    /\ jl' = JlDestruct(JlRun([jl EXCEPT !.q[n] = Tail(@)], n, Head(jl.q[n])))

JlDeliver(d) ==
    /\ jl.down[d] # <<>> /\ JlPrompt
    /\ jl' = JlPost([jl EXCEPT !.down[d] = Tail(@)], d, Head(jl.down[d]))

JlPmix(n) ==
    /\ jl.pend[n] # <<>> /\ JlPrompt
    /\ jl' = JlPost([jl EXCEPT !.pend[n] = Tail(@)], n, JlEv("done", Head(jl.pend[n]), NobodyJl))

\* do_child: a child that cannot exec reports why and exits.
JlExecFails(s, n, p) ==
    JlPost([s EXCEPT !.os[p] = "zombie", !.how[p] = "nonzero"], n, JlEv("sigchld", "", p))

\* odls_base_spawn_proc and fork_local_proc, on a worker thread: the pid is
\* published before the child may run, and the verdict is posted later.  A
\* fork that fails leaves the child's ends of its channels open in the daemon,
\* so that no end of file will come.
JlFork(p) ==
    LET n == jl.plan.home[p]
        born == [jl EXCEPT !.pr[n][p].pid = TRUE, !.rpt = @ \cup {p}]
    IN  /\ jl.os[p] = "forking"
        /\ jl' = CASE jl.plan.fate[p] = "nofork" -> [jl EXCEPT !.os[p] = "gone", !.out[p] = "leaked", !.rpt = @ \cup {p}]
                   [] jl.plan.fate[p] = "noexec" -> JlExecFails(born, n, p)
                   [] OTHER -> [born EXCEPT !.os[p] = "up"]

JlReport(p) ==
    /\ p \in jl.rpt
    /\ jl' = JlPost([jl EXCEPT !.rpt = @ \ {p}], jl.plan.home[p],
                    JlEv("spawned", IF jl.plan.fate[p] \in {"nofork", "noexec"} THEN "FAILED_TO_START"
                                    ELSE "RUNNING", p))

JlExit(p) ==
    /\ jl.os[p] = "up" /\ JlPrompt
    /\ jl.plan.fate[p] \in {"ok", "bad", "sig"} \/ jl.how[p] = "abort"
    /\ jl' = JlPost([jl EXCEPT !.os[p] = "zombie",
                               !.how[p] = CASE jl.plan.fate[p] = "ok" -> "zero"
                                            [] jl.plan.fate[p] = "sig" -> "signal"
                                            [] OTHER -> "nonzero"],
                    jl.plan.home[p], JlEv("sigchld", "", p))

\* _client_abort: the process will exit, unless it is killed first.
JlAbort(p) ==
    /\ jl.os[p] = "up" /\ jl.plan.fate[p] = "abort" /\ jl.how[p] = "zero"
    /\ jl' = JlProcEv([jl EXCEPT !.how[p] = "abort"], jl.plan.home[p], p, "CALLED_ABORT")

\* The end of file on the output of a process that is gone.
JlCloseOut(p) ==
    /\ jl.out[p] = "open" /\ jl.os[p] \in {"zombie", "gone"}
    /\ jl' = JlProcEv([jl EXCEPT !.out[p] = "closed"], jl.plan.home[p], p, "IOF_COMPLETE")

\* spawn_timeout_cb and job_timeout_cb
JlSpawnTimeout(s) == JlJobEv([s EXCEPT !.timers = {}, !.exit = TRUE], JlHnp, "FAILED_TO_START")
JlJobTimeout(s) == JlXcast([s EXCEPT !.timers = @ \ {"job"}], "KILL")

\* A bound: a timer fires once the
\* launch message is out and before the job has ended.
JlTimeout(t) ==
    /\ t \in jl.timers /\ jl.sent /\ jl.jb[JlHnp].st \in JlLive
    /\ jl' = IF t = "spawn" THEN JlSpawnTimeout(jl) ELSE JlJobTimeout(jl)

JlNext ==
    \/ \E n \in JlNodes : JlHandle(n) \/ JlPmix(n)
    \/ \E d \in JlDaemons : JlDeliver(d)
    \/ \E p \in JlProcs : JlFork(p) \/ JlReport(p) \/ JlExit(p) \/ JlAbort(p) \/ JlCloseOut(p)
    \/ \E t \in {"spawn", "job"} : JlTimeout(t)

JlSpec == JlInit /\ [][JlNext]_jl /\ WF_jl(JlNext)

----------------------------------------------------------------------------

\* Nothing is left of the job: every object was released as often as it was
\* retained, no process and no waitpid tracker remains, the requester has its
\* answer and the nodes have their slots back.
JlGone ==
    /\ \A n \in JlNodes : jl.jb[n].refs = 0
    /\ jl.trk = {}
    /\ \A p \in JlProcs : jl.os[p] \in {"none", "gone"}
    /\ jl.ans # "none" /\ jl.inuse = 0 /\ jl.timers = {}

\* Every job ends, whatever its processes do and whichever step of its launch
\* fails: the two halves of the end of a process (its output closed, its pid
\* reaped), the kill ordered by the first failure, the kill that overtakes a
\* fork, and the reports of the daemons always add up to the one release of
\* the job on every node.  The exception is a kill that finds a child whose
\* launch was never attempted (jl.early).
JlSettled == JlGone \/ jl.early

\* The requester of a spawn is told that it succeeded only if every process of
\* the job was started (post_launch counts the daemons' reports, and
\* check_complete answers for a job that ended first).  A job timer ends a job
\* without recording an exit code, so its plans are left out.
JlSuccessIsTrue ==
    (jl.ans = "ok" /\ jl.plan.timer # "job") =>
        \A p \in Range(jl.plan.order) : /\ jl.os[p] \in {"up", "zombie", "gone"}
                                        /\ jl.plan.fate[p] \notin {"nofork", "noexec", "noiof"}

\* A slot is given back (check_complete_resume, recover_resources) only when
\* the process that held it is dead, however many reports of its end reach the
\* master.  One that called PMIx_Abort gives its slot back when it calls.
JlSlotsOutliveProcesses ==
    \A p \in Range(jl.plan.order) \ jl.mapped :
        jl.plan.fate[p] # "abort" => jl.os[p] \in {"none", "zombie", "gone"}

\* What the requester is told of the launch, and when the mapper may reuse a
\* slot, agree with what the processes do.
JlSound == JlSuccessIsTrue /\ JlSlotsOutliveProcesses

=============================================================================

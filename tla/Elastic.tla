------------------------------ MODULE Elastic ------------------------------
(***************************************************************************)
(* The elastic DVM: how the master (HNP) adds daemons to a running DVM and *)
(* removes them, and what happens to the jobs it is launching meanwhile    *)
(* (ras_base_allocate.c, plm_base_launch_support.c, state_dvm.c).          *)
(*                                                                         *)
(* A grow is a campaign: the new daemons are its targets, and the launch   *)
(* fence counts them until every daemon has reported.  A shrink is a       *)
(* campaign whose targets leave once the shrink broadcast has reached      *)
(* every daemon.  A job stops at VM_READY while the fence is up (held), at *)
(* LAUNCH_APPS while a shrink is in progress (prelaunch held), and before  *)
(* it is spawned while the DVM is not ready (cached).  A release asked for *)
(* during a grow is deferred until the grow drains.                        *)
(*                                                                         *)
(* The master is one event loop: el.q is its queue of activated states and *)
(* received messages, and a step takes the first and runs its handler.     *)
(* A handler is an operator from the state to the state.  The steps of a   *)
(* job's pipeline that touch none of this state (INIT, ALLOCATE,           *)
(* SYSTEM_PREP and the rest) are part of the activation before them.       *)
(***************************************************************************)
EXTENDS Integers, Sequences, FiniteSets, SequencesExt

CONSTANTS ElNodes,    \* the nodes a daemon can run on, the master's excepted
          ElFirst,    \* those of the DVM as it was started
          ElIds,      \* names of requests and jobs
          ElPlans     \* what is asked, in which order, and what goes wrong

NobodyEl == "none"

ASSUME ElAssumption == ElFirst \subseteq ElNodes /\ NobodyEl \notin ElIds

VARIABLE el

----------------------------------------------------------------------------
(***************************************************************************)
(* State.  Daemon r of the DVM is el.dmn[r]: the node it runs on, the      *)
(* ALIVE flag and rml_uri of its process object, its recorded state, and   *)
(* what the daemon process itself does (os).  The job object of the        *)
(* daemons counts Len(el.dmn) + 1 processes.                               *)
(***************************************************************************)
ElDaemon(n, os) == [node |-> n, alive |-> TRUE, uri |-> os = "up", st |-> "running", os |-> os, told |-> FALSE]

ElStart(p) ==
  LET first == SetToSeq(ElFirst)
  IN  [todo |-> p.ask, bad |-> p.bad, q |-> <<>>,
       dmn |-> [i \in 1..Len(first) |-> ElDaemon(first[i], "up")],
       node |-> [n \in ElNodes |->
                  [st |-> IF n \in ElFirst THEN "up" ELSE "absent",
                   dmn |-> IF n \in ElFirst THEN CHOOSE i \in 1..Len(first) : first[i] = n ELSE 0,
                   req |-> NobodyEl]],
       reported |-> Len(first) + 1, ndaemons |-> Len(first) + 1,
       grows |-> <<>>, shrinks |-> <<>>, fence |-> 0,
       held |-> <<>>, prelaunch |-> <<>>, cache |-> <<>>, ready |-> TRUE,
       deferred |-> <<>>, extend |-> FALSE, pending |-> {},
       job |-> [j \in ElIds |-> [st |-> "none", map |-> {}, launched |-> FALSE, asked |-> FALSE, killed |-> FALSE]],
       event |-> [r \in ElIds |-> <<>>], failed |-> FALSE, astray |-> FALSE, exit |-> FALSE]

ElPost(s, e) == [s EXCEPT !.q = Append(@, e)]

ElRanks(s) == 1..Len(s.dmn)

(* The process objects of the jobs mapped onto a node. *)
ElMappedOn(s, n) == {j \in ElIds : n \in s.job[j].map}

(* dvm_mod_notify: the terminal event of a resize request. *)
ElNotify(s, r, ok) == IF r = NobodyEl THEN s ELSE [s EXCEPT !.event[r] = Append(@, ok)]

ElNotifyAll(s, rs, ok) == FoldLeft(LAMBDA t, r : ElNotify(t, r, ok), s, SetToSeq(rs))

(* The requester of an activation waits in a static list until the virtual *)
(* machine is set up.                                                      *)
ElNotifyPending(s, ok) == ElNotifyAll([s EXCEPT !.pending = {}], s.pending, ok)

----------------------------------------------------------------------------
(***************************************************************************)
(* Jobs on their way into the DVM.                                         *)
(***************************************************************************)
ElSpawn(s, j) == ElPost([s EXCEPT !.job[j].st = "init"], <<"launch_daemons", j>>)

ElReleaseCached(s) == FoldLeft(ElSpawn, [s EXCEPT !.cache = <<>>], s.cache)

ElActivateGrow(s) == ElPost([s EXCEPT !.extend = TRUE], <<"launch_daemons", NobodyEl>>)

ElActivatable(s, n) == s.node[n].dmn = 0 /\ s.node[n].st \in {"up", "added"}

(* activate_commit: the selected nodes that are not already on their way. *)
ElActivated(s, ns) == {n \in ns : ElActivatable(s, n) /\ s.node[n].st # "added"}

ElMarkAdded(s, ns, r) ==
  [s EXCEPT !.node = [n \in ElNodes |-> IF n \in ns THEN [@[n] EXCEPT !.st = "added", !.req = r] ELSE @[n]]]

(* add_hosts: the request is posted, and the DVM is held for it. *)
ElAddHosts(s, a) ==
  IF a.how = "addhost" THEN ElPost([s EXCEPT !.ready = FALSE], <<"modify", a>>) ELSE s

(* activate_hosts: a job's --activate starts the grow itself. *)
ElActivateHosts(s, a) ==
  IF a.how = "activate" /\ ElActivated(s, a.nodes) # {}
  THEN ElActivateGrow([ElMarkAdded(s, ElActivated(s, a.nodes), NobodyEl) EXCEPT !.ready = FALSE])
  ELSE s

(* LAUNCH_JOB_CMD. *)
ElLaunchJob(s, a) ==
  LET t == ElActivateHosts(ElAddHosts([s EXCEPT !.job[a.id].asked = a.how # "plain"], a), a)
  IN  IF t.ready THEN ElSpawn(t, a.id)
      ELSE [t EXCEPT !.job[a.id].st = "cached", !.cache = Append(@, a.id)]

----------------------------------------------------------------------------
(***************************************************************************)
(* Resize requests.                                                        *)
(***************************************************************************)
ElGrowing(s) ==
  \/ s.grows # <<>>
  \/ s.extend
  \/ \E r \in ElRanks(s) : s.dmn[r].alive /\ ~s.dmn[r].uri

ElDeferRelease(s, a) == [s EXCEPT !.deferred = Append(@, a)]

ElReplayDeferred(s) ==
  FoldLeft(LAMBDA t, a : ElPost(t, <<"modify", a>>), [s EXCEPT !.deferred = <<>>], s.deferred)

(* activate_request: a PMIX_ALLOC_ACTIVATE from a requester. *)
ElActivateRequest(s, a) ==
  LET ns == ElActivated(s, a.nodes)
  IN  IF ns = {} THEN s
      ELSE ElActivateGrow([ElMarkAdded(s, ns, NobodyEl) EXCEPT !.ready = FALSE, !.pending = @ \cup {a.id}])

(* complete_grow_request: the reservation remembers who asked. *)
ElCompleteGrow(s, a) ==
  ElActivateGrow(ElMarkAdded(s, a.nodes, IF a.k = "job" THEN NobodyEl ELSE a.id))

ElFindTargets(s, ns) == {s.node[n].dmn : n \in ns} \ {0}

ElCreateShrink(s, ranks, r) ==
  [s EXCEPT !.shrinks = Append(@, [targets |-> ranks, req |-> r, phase |-> "sent"]),
            !.fence = @ + Cardinality(ranks)]

(* start_dvm_shrink: the campaign, then the broadcast. *)
ElStartShrink(s, ranks, r) == IF ranks = {} THEN s ELSE ElCreateShrink(s, ranks, r)

ElCompleteRelease(s, a) == ElStartShrink(s, ElFindTargets(s, a.nodes), a.id)

(* A request that held the DVM and failed gives it back: its own job is    *)
(* answered, the others that were cached are spawned.                      *)
ElHeldRequestFailed(s, a) ==
  LET t == ElReleaseCached([s EXCEPT !.ready = TRUE, !.cache = SelectSeq(@, LAMBDA j : j # a.id)])
  IN  [t EXCEPT !.job[a.id].st = "failed", !.failed = TRUE]

ElModify(s, a) ==
  CASE a.k = "release" /\ ElGrowing(s) -> ElDeferRelease(s, a)
    [] a.k = "release" /\ ~ElGrowing(s) -> ElCompleteRelease(s, a)
    [] a.k = "activate" -> ElActivateRequest(s, a)
    [] a.k = "job" /\ a.nodes = {} -> ElHeldRequestFailed(s, a)
    [] a.k = "extend" \/ (a.k = "job" /\ a.nodes # {}) -> ElCompleteGrow(s, a)
    [] OTHER -> s

----------------------------------------------------------------------------
(***************************************************************************)
(* Setting up the virtual machine.  The daemon job takes the ADDED nodes   *)
(* when it carries EXTEND_DVM.  An application job a process asked for     *)
(* takes them as well, if it gets there first.                             *)
(***************************************************************************)
ElAdded(s) == {n \in ElNodes : s.node[n].st = "added"}

ElNoNewDaemons(s, ns) ==
  LET rs == {s.node[n].req : n \in ns} \ {NobodyEl}
  IN  IF rs = {} THEN s ELSE ElNotify(s, CHOOSE r \in rs : TRUE, TRUE)

ElCampaign(s, ns, first) ==
  [targets |-> first..(first + Cardinality(ns) - 1),
   reqs |-> ({s.node[n].req : n \in ns} \ {NobodyEl}) \cup s.pending]

(* process: a daemon object, with the next rank, for every node without one. *)
ElProcess(s, ns) ==
  LET fresh == SetToSeq({n \in ns : s.node[n].dmn = 0})
      base == Len(s.dmn)
      s1 == [s EXCEPT
               !.node = [n \in ElNodes |->
                 IF n \notin ns THEN @[n]
                 ELSE [@[n] EXCEPT !.st = "up",
                                   !.dmn = IF @ # 0 THEN @ ELSE base + (CHOOSE i \in 1..Len(fresh) : fresh[i] = n)]],
               !.dmn = @ \o [i \in 1..Len(fresh) |-> ElDaemon(fresh[i], "starting")],
               !.ndaemons = base + Len(fresh) + 1]
      camp == ElCampaign(s, ToSet(fresh), base + 1)
  IN  IF fresh = <<>> THEN s1
      ELSE [s1 EXCEPT !.grows = Append(@, camp), !.fence = @ + Cardinality(camp.targets), !.pending = {}]

(* launch_daemons: set up the machine, start the new daemons, or report at *)
(* once when there are none.                                               *)
ElLaunchDaemons(s, j) ==
  LET s0 == IF j = NobodyEl THEN [s EXCEPT !.extend = FALSE] ELSE s
      ns == ElAdded(s0)
      fresh == \E n \in ns : s0.node[n].dmn = 0
      s1 == ElProcess(s0, ns)
      s2 == IF j = NobodyEl /\ ~fresh THEN ElNoNewDaemons(s1, ns) ELSE s1
      s3 == ElNotifyPending(s2, TRUE)
      s4 == IF j = NobodyEl THEN s3
            ELSE [s3 EXCEPT !.job[j].st = "launched", !.job[j].launched = fresh]
  IN  IF fresh THEN s4 ELSE ElPost(s4, <<"daemons_reported", j>>)

(* progress_daemons: the last report activates every job that waits in     *)
(* DAEMONS_LAUNCHED, or the daemon job when there is none.                 *)
ElWaiting(s) == {j \in ElIds : s.job[j].st = "launched"}

ElProgressDaemons(s) ==
  LET js == IF ElWaiting(s) # {} THEN ElWaiting(s) ELSE {NobodyEl}
  IN  IF s.reported # Len(s.dmn) + 1 THEN s
      ELSE FoldLeft(LAMBDA t, j : ElPost(t, <<"daemons_reported", j>>),
                    [s EXCEPT !.astray = @ \/ (js # {NobodyEl} /\ \A j \in js : ~s.job[j].launched)], SetToSeq(js))

ElDaemonCallback(s, r) ==
  ElProgressDaemons(
    [s EXCEPT !.dmn[r].alive = TRUE, !.dmn[r].uri = TRUE, !.dmn[r].st = "running",
              !.node[s.dmn[r].node].st = "up", !.reported = @ + 1])

ElDaemonsReported(s, j) ==
  ElPost(IF j = NobodyEl THEN s ELSE [s EXCEPT !.job[j].st = "reported"], <<"vm_ready", j>>)

----------------------------------------------------------------------------
(***************************************************************************)
(* The launch fence.                                                       *)
(***************************************************************************)
(* job_needs_remap: a process of the job is on a daemon some campaign that *)
(* is still listed removes.                                                *)
ElNeedsRemap(s, j) ==
  \E c \in ToSet(s.shrinks) : \E n \in s.job[j].map : s.node[n].dmn \in c.targets

ElAdmitPrelaunch(s, j) ==
  IF ElNeedsRemap(s, j) THEN ElPost([s EXCEPT !.job[j].map = {}], <<"map", j>>)
  ELSE ElPost(s, <<"launch_apps", j>>)

ElFenceRelease(s) ==
  LET s1 == FoldLeft(LAMBDA t, j : ElPost(t, <<"vm_ready", j>>), [s EXCEPT !.held = <<>>], s.held)
      s2 == FoldLeft(ElAdmitPrelaunch, [s1 EXCEPT !.prelaunch = <<>>], s.prelaunch)
  IN  [s2 EXCEPT !.shrinks = <<>>, !.grows = <<>>]

ElAbortPremapHeld(s) ==
  FoldLeft(LAMBDA t, j : ElPost(t, <<"never_launched", j>>), [s EXCEPT !.held = <<>>], s.held)

ElDrop(s, n) == [s EXCEPT !.fence = @ - n]

ElResolve(s, c, ok) == ElNotifyAll(ElDrop(s, Cardinality(c.targets)), c.reqs, ok)

(* grow_drain on the success path: every campaign at once. *)
ElGrowDrain(s) ==
  LET t == ElReplayDeferred(FoldLeft(LAMBDA u, c : ElResolve(u, c, TRUE), [s EXCEPT !.grows = <<>>], s.grows))
  IN  IF t.fence = 0 THEN ElFenceRelease(t) ELSE t

(* vm_ready sends the wireup data of every daemon there has been.  One     *)
(* that never reported has none, and the DVM exits.                        *)
ElWireup(s) ==
  IF s.ndaemons > 1 /\ \E r \in ElRanks(s) : ~s.dmn[r].uri THEN [s EXCEPT !.exit = TRUE]
  ELSE ElGrowDrain(s)

ElDvmReady(s) == ElReleaseCached([s EXCEPT !.ready = TRUE])

ElFenceUp(s) == s.fence > 0

ElJobReady(s, j) ==
  IF ElFenceUp(s) THEN [s EXCEPT !.job[j].st = "waiting", !.held = Append(@, j)]
  ELSE ElPost([s EXCEPT !.job[j].st = "vm_ready"], <<"map", j>>)

ElVmReady(s, j) ==
  LET t == IF j = NobodyEl \/ s.job[j].launched THEN ElWireup(s) ELSE s
  IN  IF t.exit THEN t ELSE IF j = NobodyEl THEN ElDvmReady(t) ELSE ElJobReady(t, j)

(* A job is mapped onto the nodes that have a daemon object. *)
ElMap(s, j) ==
  ElPost([s EXCEPT !.job[j].st = "mapped", !.job[j].map = {n \in ElNodes : s.node[n].dmn # 0}],
         <<"launch_apps", j>>)

ElShrinking(s) == s.shrinks # <<>>

ElLaunchApps(s, j) ==
  IF ElShrinking(s) THEN [s EXCEPT !.job[j].st = "waiting", !.prelaunch = Append(@, j)]
  ELSE ElPost([s EXCEPT !.job[j].st = "launch_apps"], <<"send_launch_msg", j>>)

ElSendLaunchMsg(s, j) == [s EXCEPT !.job[j].st = "running"]

ElNeverLaunched(s, j) == [s EXCEPT !.job[j].st = "failed", !.failed = TRUE]

(* errmgr/dvm's answer to KILLED_BY_RELEASE: the job is aborted. *)
ElKilledByRelease(s, j) == [s EXCEPT !.job[j].killed = TRUE]

----------------------------------------------------------------------------
(***************************************************************************)
(* Daemons that leave: a completed shrink, a failed grow, a loss.          *)
(***************************************************************************)

(* release_node_procs: every process of the node is reported killed. *)
ElReleaseNodeProcs(s, n) ==
  FoldLeft(LAMBDA t, j : ElPost(t, <<"killed", j>>), s, SetToSeq(ElMappedOn(s, n)))

ElDetach(s, r) ==
  LET n == s.dmn[r].node
  IN  [s EXCEPT !.node[n].req = NobodyEl, !.node[n].dmn = IF @ = r THEN 0 ELSE @]

ElTearOut(s, r) ==
  LET t == ElReleaseNodeProcs(s, s.dmn[r].node)
  IN  ElDetach(IF t.dmn[r].alive
               THEN [t EXCEPT !.dmn[r].alive = FALSE, !.dmn[r].st = "terminated", !.ndaemons = @ - 1]
               ELSE t, r)

ElShrinkComplete(s, c) ==
  LET s1 == FoldLeft(ElTearOut, s, SetToSeq(c.targets))
      s2 == ElNotify(ElDrop(s1, Cardinality(c.targets)), c.req, TRUE)
      s3 == [s2 EXCEPT !.shrinks = SelectSeq(@, LAMBDA d : d.targets # c.targets)]
  IN  IF s3.fence = 0 THEN ElFenceRelease(s3) ELSE s3

(* grow_rollback: the live targets are told to leave, those that never     *)
(* started are discounted, and all their nodes are detached.               *)
ElRollback(s, c, trigger) ==
  LET s1 == [s EXCEPT
               !.dmn = [r \in DOMAIN @ |->
                  IF r \in c.targets /\ r # trigger /\ @[r].alive /\ @[r].os = "up" THEN [@[r] EXCEPT !.told = TRUE] ELSE @[r]],
               !.ndaemons = @ - Cardinality({r \in c.targets : r # trigger /\ ~s.dmn[r].alive})]
  IN  FoldLeft(ElDetach, s1, SetToSeq(c.targets))

(* grow_failed_release_cache: the last grow failed, so the jobs that asked *)
(* for it are answered and the others are spawned.                         *)
ElFailedReleaseCache(s) ==
  LET asked == SelectSeq(s.cache, LAMBDA j : s.job[j].asked)
      t == ElReleaseCached([s EXCEPT !.ready = TRUE, !.cache = SelectSeq(@, LAMBDA j : ~s.job[j].asked)])
  IN  FoldLeft(ElNeverLaunched, t, asked)

ElGrowRemoved(s, c) ==
  ElDrop([s EXCEPT !.grows = SelectSeq(@, LAMBDA d : d.targets # c.targets)], Cardinality(c.targets))

ElGrowTargetFailed(s, c, r) ==
  LET s2 == ElNotifyAll(ElRollback(ElGrowRemoved(s, c), c, r), c.reqs, FALSE)
      s3 == ElAbortPremapHeld([s2 EXCEPT !.failed = TRUE])
  IN  IF s3.grows = <<>> THEN ElFailedReleaseCache(s3) ELSE s3

(* The loss of any other daemon ends the processes it ran. *)
ElDaemonLost(s, r) ==
  FoldLeft(LAMBDA t, j : ElPost(t, <<"killed", j>>), s,
           SetToSeq({j \in ElIds : \E n \in s.job[j].map : s.node[n].dmn = r}))

ElDeparted(s, r) == ~s.dmn[r].alive /\ s.dmn[r].st # "running"

ElProcErrors(s, r, why) ==
  LET t == [s EXCEPT !.dmn[r].alive = FALSE, !.dmn[r].st = why, !.ndaemons = @ - 1]
      cs == {c \in ToSet(s.grows) : r \in c.targets}
  IN  IF ElDeparted(s, r) THEN s
      ELSE IF cs # {} THEN ElGrowTargetFailed(t, CHOOSE c \in cs : TRUE, r)
      ELSE ElDaemonLost(t, r)

----------------------------------------------------------------------------
ElHandle(s, e) ==
  CASE e[1] = "job"              -> ElLaunchJob(s, e[2])
    [] e[1] = "modify"           -> ElModify(s, e[2])
    [] e[1] = "launch_daemons"   -> ElLaunchDaemons(s, e[2])
    [] e[1] = "callback"         -> ElDaemonCallback(s, e[2])
    [] e[1] = "daemons_reported" -> ElDaemonsReported(s, e[2])
    [] e[1] = "vm_ready"         -> ElVmReady(s, e[2])
    [] e[1] = "map"              -> ElMap(s, e[2])
    [] e[1] = "launch_apps"      -> ElLaunchApps(s, e[2])
    [] e[1] = "send_launch_msg"  -> ElSendLaunchMsg(s, e[2])
    [] e[1] = "never_launched"   -> ElNeverLaunched(s, e[2])
    [] e[1] = "killed"           -> ElKilledByRelease(s, e[2])
    [] e[1] = "shrunk"           -> ElShrinkComplete(s, e[2])
    [] e[1] = "lost"             -> ElProcErrors(s, e[2], e[3])

(* The master's event loop. *)
ElStep ==
  /\ ~el.exit
  /\ el.q # <<>>
  /\ el' = ElHandle([el EXCEPT !.q = Tail(@)], Head(el.q))

(* The next request of the plan arrives. *)
ElAsk ==
  /\ ~el.exit
  /\ el.todo # <<>>
  /\ LET a == Head(el.todo)
     IN  el' = ElPost([el EXCEPT !.todo = Tail(@)], <<IF a.k = "job" THEN "job" ELSE "modify", a>>)

(* A daemon that was started reports home, or its launcher sees it fail. *)
ElDaemonUp ==
  /\ ~el.exit
  /\ \E r \in ElRanks(el) :
       /\ el.dmn[r].os = "starting"
       /\ el' = IF el.dmn[r].node \in el.bad
                THEN ElPost([el EXCEPT !.dmn[r].os = "gone", !.dmn[r].st = "failed"], <<"lost", r, "failed">>)
                ELSE ElPost([el EXCEPT !.dmn[r].os = "up"], <<"callback", r>>)

(* PRTE_DAEMON_SHRINK_CMD at every daemon *)
ElShrinkCmd(s, c) ==
  [s EXCEPT !.dmn = [r \in DOMAIN @ |-> IF r \in c.targets THEN [@[r] EXCEPT !.told = TRUE] ELSE @[r]]]

(* The shrink broadcast reaches the daemons, then its completion the master. *)
ElShrinkHeard ==
  /\ ~el.exit
  /\ \E i \in 1..Len(el.shrinks) :
       LET c == el.shrinks[i]
       IN  \/ /\ c.phase = "sent"
              /\ el' = ElShrinkCmd([el EXCEPT !.shrinks[i].phase = "heard"], c)
           \/ /\ c.phase = "heard"
              /\ el' = ElPost([el EXCEPT !.shrinks[i].phase = "done"], <<"shrunk", c>>)

(* A daemon that was told to go has gone: the master loses its connection. *)
ElDepart ==
  /\ ~el.exit
  /\ \E r \in ElRanks(el) :
       /\ el.dmn[r].os = "up" /\ el.dmn[r].told
       /\ el' = ElPost([el EXCEPT !.dmn[r].os = "gone"], <<"lost", r, "comm_failed">>)

ElInit == \E p \in ElPlans : el = ElStart(p)

ElNext == ElStep \/ ElAsk \/ ElDaemonUp \/ ElShrinkHeard \/ ElDepart

ElSpec == ElInit /\ [][ElNext]_el /\ WF_el(ElNext)

----------------------------------------------------------------------------
(***************************************************************************)
(* Properties.                                                             *)
(***************************************************************************)
(* A resize request is answered by one terminal event at most, whatever    *)
(* grows and shrinks overlap it and however many of its daemons fail       *)
(* (grow_drain, grow_target_failed, shrink_campaign_complete).             *)
ElOneEvent == \A r \in ElIds : Len(el.event[r]) <= 1

(* A job with a process on a node a shrink has taken out of the DVM has    *)
(* been told: the process was reported killed, even when the job was held  *)
(* or on its way to be launched (release_node_procs).  A failed grow is    *)
(* excepted: its rollback reports nothing.                                 *)
ElKilledKnown ==
  \/ el.failed
  \/ \A j \in ElIds :
       (\E n \in el.job[j].map : el.node[n].dmn = 0) => el.job[j].killed \/ <<"killed", j>> \in ToSet(el.q)

ElQuiet ==
  /\ el.todo = <<>>
  /\ el.cache = <<>> /\ el.held = <<>> /\ el.prelaunch = <<>> /\ el.deferred = <<>>
  /\ el.fence = 0 /\ el.ready

(* No job stays cached or held, no release stays deferred and the fence    *)
(* comes down, when no grow fails.  Two races are excepted: the last       *)
(* report handed to an application job that launched no daemon (astray),   *)
(* and wireup asked of a daemon that has not reported, which ends the DVM. *)
ElSettled == el.exit \/ el.failed \/ el.astray \/ ElQuiet

(* Who asked for a resize is told once, and no job loses a process to one *)
(* without being told.                                                    *)
ElSound == ElOneEvent /\ ElKilledKnown

=============================================================================

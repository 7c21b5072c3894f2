---------------------------- MODULE DaemonLaunch ----------------------------
(***************************************************************************)
(* Bringing the DVM up and down over ssh.  The head node (HNP, daemon 0)   *)
(* chooses the nodes that get a daemon, forks an ssh for each, at most     *)
(* num_concurrent at a time, and waits until every daemon has reported.    *)
(* With tree spawn a daemon forks the ssh's of its own children in the     *)
(* routing tree, collects their reports and rolls them up to its parent.   *)
(* The order to terminate goes down the tree; a daemon leaves once its     *)
(* children have left, and the HNP last.  A daemon that comes up after the *)
(* order is told when it reports.                                          *)
(*                                                                         *)
(* Nodes are numbered as in prte_node_pool, the HNP's is 0; daemons have   *)
(* their vpid.  A connection delivers in order, and what was sent before   *)
(* its sender left is read before the loss is noticed.  Repair of the tree *)
(* under a running DVM is in Recovery, a failed grow in Elastic.  The HNP  *)
(* is one event loop: a state it activated is handled before it reads on.  *)
(***************************************************************************)
EXTENDS Integers, Sequences, FiniteSets, FiniteSetsExt, SequencesExt

CONSTANT LnPlans    \* the scenarios: see LnPlanned

(***************************************************************************)
(* A plan: the pool's nodes with their state and hardware; what becomes of *)
(* the ssh to a node; the -host list, if any; whether the HNP's node is    *)
(* allocated; the options; the nodes a later request adds; whether the DVM *)
(* may be ordered to terminate.                                            *)
(***************************************************************************)
LnFates == {"ok", "bad", "nofork", "noaddr"}

LnPlanned(p) ==
  /\ \A n \in DOMAIN p.pool : p.pool[n].st \in {"up", "down", "nouse", "notinc", "absent"} /\ p.pool[n].fate \in LnFates
  /\ p.max \in Nat /\ p.conc \in Nat \ {0} /\ p.radix \in Nat \ {0, 1}
  /\ \A n \in p.grow : p.pool[n].st = "absent" /\ p.pool[n].fate = "ok"    \* a failed grow: see Elastic
  \* before the wire-up only the HNP's address is known to a daemon that was
  \* not spawned along the tree, so it is the HNP's child here
  /\ ~p.tree \/ p.grow # {} => p.radix >= Len(p.pool)

ASSUME LnAssumption == \A p \in LnPlans : LnPlanned(p)

VARIABLE ln

LnRadix(n_dmns, radix) == INSTANCE Radix

LnIds(s) == 0 .. Len(s.plan.pool)
LnNumProcs(s) == Len(s.host) + 1

LnChildren(p, size, v) ==
  {LnRadix(size, p.radix)!Child(v, i) : i \in 0 .. p.radix - 1} \ {LnRadix(size, p.radix)!Invalid}

LnParent(s, v) == LnRadix(LnNumProcs(s), s.plan.radix)!Parent(v)

\* prte_rml_get_route, downwards: the child whose subtree holds v
LnHop(s, a, v) == CHOOSE c \in LnChildren(s.plan, LnNumProcs(s), a) : LnRadix(LnNumProcs(s), s.plan.radix)!SubtreeContains(c, v)

LnFate(s, v) == s.plan.pool[s.host[v]].fate

\* A daemon of which nothing has started yet.
LnUnborn == [up |-> "off", kids |-> {}, list |-> <<>>, prog |-> 0, ev |-> FALSE, term |-> FALSE,
             tree |-> FALSE, mine |-> FALSE, waiting |-> FALSE, collected |-> 0, bucket |-> <<>>, uri |-> {}]

LnStart(p) ==
  LET ids == 0 .. Len(p.pool) IN
  [plan |-> p, node |-> [n \in DOMAIN p.pool |-> p.pool[n].st],
   host |-> <<>>,                                  \* node of each daemon but the HNP
   dm |-> [v \in ids |-> IF v = 0 THEN [LnUnborn EXCEPT !.up = "up"] ELSE LnUnborn],
   ssh |-> [v \in ids |-> "none"], by |-> [v \in ids |-> 0], forks |-> [v \in ids |-> 0],
   launched |-> {},                                \* PRTE_NODE_FLAG_DAEMON_LAUNCHED
   conn |-> {}, wire |-> [e \in ids \X ids |-> <<>>], lost |-> [v \in ids |-> {}],
   num_reported |-> 1, topo |-> [n \in DOMAIN p.pool |-> "none"], topos |-> {"hnp"},
   tree |-> p.tree,                                \* ~no_tree_spawn
   job |-> "init", q |-> <<[k |-> "launch", v |-> 0]>>, started |-> FALSE, grown |-> FALSE,
   abn |-> FALSE, routing |-> TRUE,
   stranded |-> FALSE]                             \* history, see LnSettled

LnInit == \E p \in LnPlans : ln = LnStart(p)

LnUp(s, v) == s.dm[v].up = "up"
LnPost(s, e, v) == [s EXCEPT !.q = Append(@, [k |-> e, v |-> v])]

-----------------------------------------------------------------------------
(* Messages *)

\* set_addr: peers whose address has become known
LnSetAddr(s, a, vs) == [s EXCEPT !.dm[a].uri = @ \cup vs]

\* Whom a daemon can send to: a peer it is connected to or has an address of.
\* Everybody is started with the HNP's address, and a tree-spawned daemon
\* with its parent's.
LnReaches(s, a, b) == {a, b} \in s.conn \/ b \in s.dm[a].uri

\* A send to a peer nobody knows fails, and the error manager lets it be:
\* the peer may not be up yet.
LnSend(s, a, b, m) ==
  IF ~LnReaches(s, a, b) \/ ~LnUp(s, b) THEN s
  ELSE [s EXCEPT !.conn = @ \cup {{a, b}}, !.wire[<<a, b>>] = Append(@, m)]

\* ssh_finalize: at the end of an abnormal termination the ssh's still running
\* are killed.
LnSshKilled(s) ==
  IF s.abn THEN {w \in LnIds(s) : s.ssh[w] = "run" /\ s.by[w] = 0 /\ s.dm[w].up = "ssh"} ELSE {}

\* prte_quit: the event loop ends; the peers' connections break.
LnQuit(s, v) ==
  LET near == {w \in LnIds(s) : {v, w} \in s.conn}
      dead == IF v = 0 THEN LnSshKilled(s) ELSE {}
  IN  [s EXCEPT !.dm = [w \in LnIds(s) |-> IF w = v \/ w \in dead THEN [@[w] EXCEPT !.up = "gone"] ELSE @[w]],
                !.conn = {c \in @ : v \notin c},
                !.wire = [e \in DOMAIN @ |-> IF e[2] = v THEN <<>> ELSE @[e]],
                !.lost = [w \in LnIds(s) |-> IF w \in near THEN @[w] \cup {v} ELSE @[w]]]

\* A daemon that was ordered to leave does so when its last child is gone.
LnLeaveIfAlone(s, v) ==
  IF s.dm[v].term /\ s.dm[v].kids = {} THEN LnQuit(s, v) ELSE s

-----------------------------------------------------------------------------
(* The nodes that get a daemon *)

LnNodes(s, states) == SelectSeq([n \in DOMAIN s.node |-> n], LAMBDA n : s.node[n] \in states)

\* prte_rmaps_base_filter_nodes fails when a named node is not on the list.
LnBadSpec(s) ==
  LET ns == ToSet(LnNodes(s, {"up", "added"}))
  IN  ns # {} /\ ~(s.plan.spec \subseteq (IF s.plan.hnp THEN ns \cup {0} ELSE ns))

\* setup_virtual_machine for the first launch: what the pool offers, less
\* what the -host list leaves out
LnOffered(s) ==
  SelectSeq(LnNodes(s, {"up", "added"}), LAMBDA n : s.plan.spec = {} \/ n \in s.plan.spec \/ s.node[n] = "added")

\* the process: loop of setup_virtual_machine, one node
LnAddDaemon(acc, n) ==
  IF acc.s.plan.max > 0 /\ acc.num = acc.s.plan.max THEN acc
  ELSE [s |-> [acc.s EXCEPT !.node[n] = IF @ = "added" THEN "up" ELSE @,
                            !.host = IF n \in ToSet(@) THEN @ ELSE Append(@, n)],
        num |-> acc.num + 1]

LnProcess(s, ns) ==
  LET t == FoldLeft(LnAddDaemon, [s |-> s, num |-> IF s.plan.hnp THEN 1 ELSE 0], ns).s
  IN  IF t.host = s.host THEN t ELSE [t EXCEPT !.dm[0].kids = LnChildren(t.plan, LnNumProcs(t), 0)]

\* A node marked do-not-use is passed over once.
LnUseNextTime(s) == [s EXCEPT !.node = [n \in DOMAIN @ |-> IF @[n] = "nouse" THEN "up" ELSE @[n]]]

LnSetupVM(s) ==
  IF s.started THEN LnProcess(s, LnNodes(s, {"added"}))
  ELSE LET t == LnProcess(s, LnOffered(s))
       IN  [t EXCEPT !.node = LnUseNextTime(s).node]

\* launch_daemons
LnToLaunch(s) ==
  SelectSeq([v \in DOMAIN s.host |-> v],
            LAMBDA v : (s.tree => v \in s.dm[0].kids) /\ s.host[v] \notin s.launched)

LnLaunchDaemons(s) ==
  LET t == LnSetupVM(s)
      new == Len(t.host) - Len(s.host)
  IN  IF ~s.started /\ LnBadSpec(s) THEN LnPost(LnUseNextTime(s), "job_failed", 0)
      ELSE IF new = 0 THEN LnPost([t EXCEPT !.job = "launched"], "reported", 0)
      ELSE IF t.plan.attached /\ t.plan.conc < new THEN LnPost(t, "job_failed", 0)
      ELSE [t EXCEPT !.dm[0].list = @ \o LnToLaunch(t), !.dm[0].ev = TRUE,
                     !.tree = FALSE, !.job = "launched"]

-----------------------------------------------------------------------------
(* ssh *)

\* setup_launch: what the command line of the daemon tells it
LnCommandLine(s, v) ==
  [s.dm[v] EXCEPT !.up = "ssh", !.tree = s.plan.tree /\ ~s.started,
                  !.kids = LnChildren(s.plan, LnNumProcs(s), v)]

\* process_launch_list, one entry of the list: nothing tells anybody of a
\* fork that failed
LnForkOne(l, s, v) ==
  IF s.dm[l].prog >= s.plan.conc THEN s
  ELSE LET t == [s EXCEPT !.dm[l].list = Tail(@)]
       IN  IF LnFate(s, v) = "nofork" THEN [t EXCEPT !.stranded = TRUE]
           ELSE [t EXCEPT !.dm[l].prog = @ + 1, !.by[v] = l, !.ssh[v] = "run", !.forks[v] = @ + 1,
                          !.dm[v] = LnCommandLine(s, v)]

LnProcessLaunchList(s, l) ==
  FoldLeft(LAMBDA t, v : LnForkOne(l, t, v), [s EXCEPT !.dm[l].ev = FALSE], s.dm[l].list)

\* prte_rml_route_lost while the DVM comes up or goes down
LnRouteLost(s, w, v) == [s EXCEPT !.dm[w].kids = @ \ {v}]

\* ssh_wait_daemon, once the order to terminate is out: the next on the list is
\* not started, and the end of a failed one is not looked at
LnIgnored(s, l, v) ==
  [s EXCEPT !.ssh[v] = "reaped", !.stranded = @ \/ s.dm[l].list # <<>> \/ LnFate(s, v) # "ok"]

LnFailedChild(s, l, v) ==
  IF l # 0 THEN LnSend(s, l, LnParent(s, l), [k |-> "fail", who |-> v])
  ELSE LnPost(LnRouteLost(s, 0, v), "proc_failed", v)

LnWaitDaemon(s, l, v) ==
  IF s.dm[l].term \/ (l = 0 /\ s.abn) THEN LnIgnored(s, l, v)
  ELSE LET t == IF LnFate(s, v) # "ok" THEN LnFailedChild(s, l, v) ELSE s
       IN  [t EXCEPT !.ssh[v] = "reaped", !.dm[l].prog = @ - 1,
                     !.dm[l].ev = @ \/ t.dm[l].prog - 1 < t.plan.conc]

-----------------------------------------------------------------------------
(* A daemon comes up *)

\* report_prted
LnReportPrted(s, v) ==
  IF s.dm[v].collected = Cardinality(s.dm[v].kids) + 1 /\ s.dm[v].mine /\ ~s.dm[v].waiting
  THEN LnSend([s EXCEPT !.dm[v].mine = FALSE], v, LnParent(s, v), [k |-> "report", who |-> <<v>> \o s.dm[v].bucket])
  ELSE s

\* main of prted: with tree spawn the connection to the parent is warmed up
\* and the report held for the rollup, else it goes to the HNP; without the
\* other end there is nothing to live for
LnMain(s, v) ==
  LET to == IF s.dm[v].tree THEN LnParent(s, v) ELSE 0
      t == LnSetAddr([s EXCEPT !.dm[v].up = "up"], v, {0, to})
  IN  IF ~LnUp(s, to) THEN LnQuit(t, v)
      ELSE IF s.dm[v].tree
      THEN LnSend([t EXCEPT !.dm[v].waiting = TRUE, !.dm[v].mine = TRUE, !.dm[v].collected = 1],
                  v, to, [k |-> "warm"])
      ELSE LnSend(t, v, to, [k |-> "report", who |-> <<v>>])

\* remote_spawn: a child without an address is reported instead of them all,
\* and the children before it stay on a list nobody is told to work off
LnRemoteSpawn(s, v) ==
  LET kids == SetToSortSeq(s.dm[v].kids, <)
      bad == {i \in DOMAIN kids : LnFate(s, kids[i]) = "noaddr"}
      first == CHOOSE i \in bad : \A j \in bad : i <= j
  IN  IF kids = <<>> THEN s
      ELSE IF bad # {}
      THEN LnSend([s EXCEPT !.dm[v].list = @ \o SubSeq(kids, 1, first - 1)], v, LnParent(s, v), [k |-> "fail", who |-> kids[first]])
      ELSE [s EXCEPT !.dm[v].list = @ \o kids, !.dm[v].ev = TRUE]

\* node_regex_report
LnNodeRegex(s, v) == LnReportPrted(LnRemoteSpawn([s EXCEPT !.dm[v].waiting = FALSE], v), v)

\* rollup, of a child's buffer: its first entry is the child's own
LnRollup(s, v, who) ==
  LnReportPrted(LnSetAddr([s EXCEPT !.dm[v].collected = @ + 1, !.dm[v].bucket = @ \o who], v, {who[1]}), v)

-----------------------------------------------------------------------------
(* The HNP hears of its daemons *)

LnSendDown(s, a, v, m) == LnSend(s, a, LnHop(s, a, v), m)

\* (altered) A daemon that reports after the order is not told.
LnExitMissed(s, v) == s

\* prte_plm_base_prted_exit_late
LnExitLate(s, v) == IF s.dm[0].term THEN LnSendDown(s, 0, v, [k |-> "exit", to |-> v]) ELSE s

\* daemon_callback, one daemon of the buffer.  With homogeneous nodes only the
\* first daemon tells its hardware, which must be the HNP's if that is
\* allocated; a daemon that fails the test is not counted.
LnKnown(s, v) ==
  LnSetAddr([s EXCEPT !.launched = @ \cup {s.host[v]}, !.node[s.host[v]] = "up"], 0, {v})

LnTells(s, v) == ~s.plan.homo \/ v = 1
LnHardware(s, v) == s.plan.pool[s.host[v]].hw
LnMismatch(s, v) == LnTells(s, v) /\ LnHardware(s, v) \notin s.topos /\ s.plan.homo /\ s.plan.hnp

LnCounted(s, v) ==
  LET t == IF LnTells(s, v)
           THEN [s EXCEPT !.topos = @ \cup {LnHardware(s, v)}, !.topo[s.host[v]] = LnHardware(s, v)]
           ELSE s
  IN  LnExitLate([t EXCEPT !.num_reported = @ + 1], v)

LnCallbackOne(acc, v) ==
  LET s == LnKnown(acc.s, v)
  IN  IF LnMismatch(s, v) THEN [s |-> s, failed |-> TRUE] ELSE [acc EXCEPT !.s = LnCounted(s, v)]

\* progress_daemons: the nodes that told nothing are given what the first
\* daemon that knows has told
LnInherit(s) ==
  LET knows == {v \in DOMAIN s.host : s.topo[s.host[v]] # "none"}
      first == CHOOSE v \in knows : \A w \in knows : v <= w
  IN  IF ~s.plan.homo \/ knows = {} THEN s
      ELSE [s EXCEPT !.topo = [n \in DOMAIN @ |-> IF n \in ToSet(s.host) THEN @[s.host[first]] ELSE @[n]]]

LnProgress(s) ==
  IF s.num_reported # LnNumProcs(s) THEN s ELSE LnInherit(LnPost(s, "reported", 0))

LnDaemonCallback(s, who) ==
  LET r == FoldLeft(LnCallbackOne, [s |-> s, failed |-> FALSE], who)
  IN  IF r.failed THEN LnPost(r.s, "job_failed", 0) ELSE LnProgress(r.s)

-----------------------------------------------------------------------------
(* Messages arrive *)

\* PRTE_DAEMON_EXIT_CMD, from the broadcast (which is passed on first) or to
\* one daemon alone
LnRelay(s, v, m) ==
  FoldSet(LAMBDA c, t : LnSend(t, v, c, m), s, s.dm[v].kids)

LnExitCmd(s, v) == LnLeaveIfAlone([s EXCEPT !.dm[v].term = TRUE], v)

LnExitArrives(s, v, m) ==
  IF m.to = 0 THEN LnExitCmd(LnRelay(s, v, m), v)
  ELSE IF m.to = v THEN LnExitCmd(s, v)
  ELSE LnSendDown(s, v, m.to, m)

LnArrives(s, v, from, m) ==
  CASE m.k = "warm"   -> LnSend(s, v, from, [k |-> "regex"])
    [] m.k = "regex"  -> LnNodeRegex(s, v)
    [] m.k = "report" -> IF v = 0 THEN LnDaemonCallback(s, m.who) ELSE LnRollup(s, v, m.who)
    [] m.k = "fail"   -> IF v = 0 THEN LnPost(s, "proc_failed", m.who) ELSE LnSend(s, v, LnParent(s, v), m)
    [] m.k = "exit"   -> LnExitArrives(s, v, m)

\* the loss of a connection.  Who cannot reach the HNP any more leaves; a
\* daemon that lost its parent turns to the HNP
LnLosesPeer(s, w, v) ==
  LET t == LnRouteLost(s, w, v)
  IN  IF s.dm[w].term THEN LnLeaveIfAlone(t, w)
      ELSE IF v = 0 \/ (w # 0 /\ v = LnParent(s, w) /\ ~LnUp(s, 0)) THEN LnQuit(s, w)
      ELSE IF w # 0 /\ v = LnParent(s, w) THEN [s EXCEPT !.conn = @ \cup {{0, w}}]
      ELSE t

\* proc_errors of the HNP's error manager, for a daemon that failed to start:
\* before the DVM has started there is no routing around it.  The order to
\* terminate does not reach back to a daemon whose child failed.
LnProcFailed(s, v) ==
  IF s.dm[0].term
  THEN LnLeaveIfAlone(LnRouteLost([s EXCEPT !.stranded = @ \/ LnParent(s, v) # 0], 0, v), 0)
  ELSE IF s.started THEN s
  ELSE LnPost([s EXCEPT !.abn = TRUE], "quit", 0)

LnState(s, e) ==
  CASE e.k = "launch"      -> LnLaunchDaemons(s)
    [] e.k = "reported"    -> [s EXCEPT !.job = "reported", !.started = TRUE]
    [] e.k = "job_failed"  -> LnPost([s EXCEPT !.routing = FALSE], "quit", 0)
    [] e.k = "proc_failed" -> LnProcFailed(s, e.v)
    [] e.k = "quit"        -> LnQuit(s, 0)

-----------------------------------------------------------------------------
(* Steps *)

LnFree(v) == LnUp(ln, v) /\ (v = 0 => ln.q = <<>>)

\* ssh ends: with its daemon in the background, or with the daemon itself if
\* the session stays attached, or in failure
LnSshEnds(v) ==
  LnFate(ln, v) = "ok" => ln.dm[v].up \in (IF ln.plan.attached THEN {"gone"} ELSE {"up", "gone"})

LnStates == LnUp(ln, 0) /\ ln.q # <<>>
LnForks(l) == LnFree(l) /\ ln.dm[l].ev
LnStarts(v) == ln.dm[v].up = "ssh" /\ LnFate(ln, v) = "ok"
LnReaps(v) == ln.ssh[v] = "run" /\ LnFree(ln.by[v]) /\ LnSshEnds(v)
LnReads(a, b) == LnFree(b) /\ ln.wire[<<a, b>>] # <<>>
LnNotices(w, v) == LnFree(w) /\ v \in ln.lost[w] /\ ln.wire[<<v, w>>] = <<>>

LnHandle == LnStates /\ ln' = LnState([ln EXCEPT !.q = Tail(@)], Head(ln.q))

LnFork(l) == LnForks(l) /\ ln' = LnProcessLaunchList(ln, l)

LnComesUp(v) == LnStarts(v) /\ ln' = LnMain(ln, v)

LnReap(v) ==
  /\ LnReaps(v)
  /\ ln' = LnWaitDaemon([ln EXCEPT !.dm[v].up = IF LnFate(ln, v) = "ok" THEN @ ELSE "gone"], ln.by[v], v)

LnReceive(a, b) ==
  /\ LnReads(a, b)
  /\ ln' = LnArrives([ln EXCEPT !.wire[<<a, b>>] = Tail(@)], b, a, Head(ln.wire[<<a, b>>]))

LnLost(w, v) == LnNotices(w, v) /\ ln' = LnLosesPeer([ln EXCEPT !.lost[w] = @ \ {v}], w, v)

\* prte_plm_base_prted_exit
LnOrder ==
  /\ LnFree(0) /\ ln.plan.ends /\ ~ln.dm[0].term
  /\ ln' = LnExitCmd(LnRelay(ln, 0, [k |-> "exit", to |-> 0]), 0)

LnGrow ==
  /\ LnFree(0) /\ ln.plan.grow # {} /\ ~ln.grown /\ ln.job = "reported" /\ ~ln.dm[0].term
  /\ ln' = LnPost([ln EXCEPT !.grown = TRUE,
                             !.node = [n \in DOMAIN @ |-> IF n \in ln.plan.grow THEN "added" ELSE @[n]]], "launch", 0)

LnNext ==
  \/ LnHandle
  \/ \E v \in LnIds(ln) : LnFork(v) \/ LnComesUp(v) \/ LnReap(v)
  \/ \E a, b \in LnIds(ln) : LnReceive(a, b) \/ LnLost(a, b)
  \/ LnOrder
  \/ LnGrow

-----------------------------------------------------------------------------
(* What is promised *)

\* The ssh's a daemon has in flight are counted, and never more than
\* num_concurrent; no daemon is started twice, no node has two.
LnInFlight(l) == {v \in LnIds(ln) : ln.by[v] = l /\ ln.ssh[v] = "run"}

LnOnePerNode ==
  /\ \A l \in LnIds(ln) : LnUp(ln, l) /\ ~ln.dm[l].term =>
       ln.dm[l].prog = Cardinality(LnInFlight(l)) /\ ln.dm[l].prog <= ln.plan.conc
  /\ \A v \in LnIds(ln) : ln.forks[v] <= 1
  /\ \A v, w \in DOMAIN ln.host : ln.host[v] = ln.host[w] => v = w

\* When the daemons are declared reported every one of them is up, reachable
\* and counted once, and the hardware on record for its node is its own
\* (unless the user called unequal nodes homogeneous).
LnUniform == \A v, w \in DOMAIN ln.host : LnHardware(ln, v) = LnHardware(ln, w)

LnAllKnown ==
  ln.job = "reported" /\ LnUp(ln, 0) /\ ~ln.dm[0].term =>
    /\ ln.num_reported = LnNumProcs(ln)
    /\ \A v \in DOMAIN ln.host :
         /\ LnUp(ln, v) /\ v \in ln.dm[0].uri /\ ln.host[v] \in ln.launched
         /\ ~ln.plan.homo \/ LnUniform => ln.topo[ln.host[v]] = LnHardware(ln, v)

\* The HNP ends an orderly termination as the last one.
LnHnpLast ==
  ~LnUp(ln, 0) /\ ln.dm[0].term /\ ~ln.abn /\ ln.routing =>
    \A v \in DOMAIN ln.host : ln.dm[v].up \in {"off", "gone"}

\* When nothing is left to do but what somebody may yet ask for, a launch has
\* ended with every daemon reported or with nobody left, and a termination
\* with nobody left.  Not so once a failure has gone unreported (stranded).
LnQuiet ==
  /\ ~LnStates
  /\ \A v \in LnIds(ln) : ~LnForks(v) /\ ~LnStarts(v) /\ ~LnReaps(v)
  /\ \A a, b \in LnIds(ln) : ~LnReads(a, b) /\ ~LnNotices(a, b)

LnSettled ==
  LnQuiet => \/ ln.stranded
             \/ LnUp(ln, 0) /\ ln.job = "reported" /\ ~ln.dm[0].term
             \/ ~LnUp(ln, 0) /\ \A v \in DOMAIN ln.host : ln.dm[v].up \in {"off", "gone"}

LnSound == LnOnePerNode /\ LnAllKnown /\ LnHnpLast /\ LnSettled

=============================================================================

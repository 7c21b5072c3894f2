---------------------------- MODULE RecoveryProofs ----------------------------
(***************************************************************************)
(* What the daemons' books of departures satisfy in every DVM, of any size *)
(* and radix and with any number of crashes, however notices, lineages and *)
(* broadcasts cross. It rests on what each handler of RmlFault does to the *)
(* books, whatever the tree looks like and whatever a lineage let a daemon *)
(* infer: the proofs never look into the repair of the tree itself.        *)
(***************************************************************************)
EXTENDS Recovery, TLAPS

\* The shape of a daemon's state and of a handler's step.
Daemon(f, g, v, t, p) ==
    [failed |-> f, global |-> g, revived |-> v, tree |-> t, reported |-> p]

IsDaemon(dm) == \E f, g, v, t, p : dm = Daemon(f, g, v, t, p)

StepOf(dm, o, e) == [dm |-> dm, out |-> o, exit |-> e]

IsStep(step) == \E dm, o, e : IsDaemon(dm) /\ step = StepOf(dm, o, e)

\* Every recorded departure was reported and every broadcast one is recorded.
Booked(dm) ==
    /\ IsDaemon(dm)
    /\ dm.reported = dm.failed
    /\ dm.global \subseteq dm.failed

\* From the books of old to those of new nothing is forgotten.
Keeps(old, new) ==
    /\ old.failed \subseteq new.failed
    /\ old.global \subseteq new.global

------------------------------------------------------------------------------
\* What a daemon's state and a step are made of.
LEMMA DaemonFields ==
    ASSUME NEW f, NEW g, NEW v, NEW t, NEW p
    PROVE  /\ IsDaemon(Daemon(f, g, v, t, p))
           /\ Daemon(f, g, v, t, p).failed = f
           /\ Daemon(f, g, v, t, p).global = g
           /\ Daemon(f, g, v, t, p).reported = p
<1>1. IsDaemon(Daemon(f, g, v, t, p))
    BY Zenon DEF IsDaemon
<1> QED
    BY <1>1 DEF Daemon

\* A step is its state, what it sends and whether it exits.
LEMMA StepFields ==
    ASSUME NEW dm, IsDaemon(dm), NEW o, NEW e
    PROVE  IsStep(StepOf(dm, o, e)) /\ StepOf(dm, o, e).dm = dm
<1>1. IsStep(StepOf(dm, o, e))
    BY Zenon DEF IsStep
<1> QED
    BY <1>1 DEF StepOf

\* A step is that of some daemon's state.
LEMMA StepParts ==
    ASSUME NEW step, IsStep(step)
    PROVE  \E f, g, v, t, p, o, e :
                /\ step = StepOf(Daemon(f, g, v, t, p), o, e)
                /\ step.dm = Daemon(f, g, v, t, p)
<1>1. PICK dm, o, e : IsDaemon(dm) /\ step = StepOf(dm, o, e)
    BY Zenon DEF IsStep
<1>2. PICK f, g, v, t, p : dm = Daemon(f, g, v, t, p)
    BY <1>1, Zenon DEF IsDaemon
<1>3. step.dm = dm
    BY <1>1 DEF StepOf
<1> QED
    BY <1>1, <1>2, <1>3, Zenon

\* A step leaves a daemon's state.
LEMMA StepHolds == ASSUME NEW step, IsStep(step) PROVE IsDaemon(step.dm)
    BY StepParts, DaemonFields

\* The changes that the handlers make to a step.
LEMMA GlobalChange ==
    ASSUME NEW f, NEW g, NEW v, NEW t, NEW p, NEW o, NEW e, NEW x
    PROVE  [StepOf(Daemon(f, g, v, t, p), o, e) EXCEPT !.dm.global = x]
                = StepOf(Daemon(f, x, v, t, p), o, e)
    BY DEF StepOf, Daemon

\* The report changes, and nothing else.
LEMMA ReportedChange ==
    ASSUME NEW f, NEW g, NEW v, NEW t, NEW p, NEW o, NEW e, NEW x
    PROVE  [StepOf(Daemon(f, g, v, t, p), o, e) EXCEPT !.dm.reported = x]
                = StepOf(Daemon(f, g, v, t, x), o, e)
    BY DEF StepOf, Daemon

\* The sets and the place that a repair leaves behind.
Rebuilt(dm, x, y, z) == [dm EXCEPT !.failed = x, !.revived = y, !.tree = z]

\* A repair leaves what was broadcast and what was reported.
LEMMA TreeChange ==
    ASSUME NEW f, NEW g, NEW v, NEW t, NEW p, NEW x, NEW y, NEW z
    PROVE  Rebuilt(Daemon(f, g, v, t, p), x, y, z) = Daemon(x, g, y, z, p)
<1>1. ASSUME NEW r
      PROVE  [r EXCEPT !.failed = x, !.revived = y, !.tree = z]
                = [[[r EXCEPT !.failed = x] EXCEPT !.revived = y] EXCEPT !.tree = z]
    OBVIOUS
<1>2. [Daemon(f, g, v, t, p) EXCEPT !.failed = x] = Daemon(x, g, v, t, p)
    BY DEF Daemon
<1>3. [Daemon(x, g, v, t, p) EXCEPT !.revived = y] = Daemon(x, g, y, t, p)
    BY DEF Daemon
<1>4. [Daemon(x, g, y, t, p) EXCEPT !.tree = z] = Daemon(x, g, y, z, p)
    BY DEF Daemon
<1> QED
    BY <1>1, <1>2, <1>3, <1>4 DEF Rebuilt

\* A daemon's new state, and what it sends.
Announced(step, x, y) == [step EXCEPT !.dm = x, !.out = y]

\* A new state and new messages leave the exit flag alone.
LEMMA OutChange ==
    ASSUME NEW dm, NEW o, NEW e, NEW x, NEW y
    PROVE  Announced(StepOf(dm, o, e), x, y) = StepOf(x, y, e)
<1>1. ASSUME NEW r
      PROVE  [r EXCEPT !.dm = x, !.out = y] = [[r EXCEPT !.dm = x] EXCEPT !.out = y]
    OBVIOUS
<1>2. [StepOf(dm, o, e) EXCEPT !.dm = x] = StepOf(x, o, e)
    BY DEF StepOf
<1>3. [StepOf(x, o, e) EXCEPT !.out = y] = StepOf(x, y, e)
    BY DEF StepOf
<1> QED
    BY <1>1, <1>2, <1>3 DEF Announced

\* What a notice of ranks does to the books old, but for the report.
Records(old, new, ranks, global) ==
    /\ new.failed = old.failed \cup ranks
    /\ new.reported = old.reported
    /\ new.global = IF global THEN old.global \cup ranks ELSE old.global

\* The repair records the ranks of a notice, and a global one marks them too;
\* it reports nothing.
LEMMA RepairRecords ==
    ASSUME NEW me, NEW step, IsStep(step), NEW ranks, NEW global \in BOOLEAN
    PROVE  /\ IsStep(RepairAnd(me, step, ranks, global))
           /\ Records(step.dm, RepairAnd(me, step, ranks, global).dm, ranks, global)
<1> DEFINE a == RepairAnd(me, step, ranks, global)
<1>1. PICK f, g, v, t, p, o, e : /\ step = StepOf(Daemon(f, g, v, t, p), o, e)
                                 /\ step.dm = Daemon(f, g, v, t, p)
    BY StepParts, Zenon
<1> DEFINE h == IF global THEN step.dm.global \cup ranks ELSE step.dm.global
           new == ranks \ step.dm.failed
           u == StepOf(Daemon(f, h, v, t, p), o, e)
<1>2. step.dm.failed = f /\ step.dm.reported = p
    BY <1>1, DaemonFields
<1>3. a = LocalPass(me, [step EXCEPT !.dm.global = h], new)
    BY DEF RepairAnd
<1> HIDE DEF a, h, new
<1>4. [step EXCEPT !.dm.global = h] = u
    BY <1>1, GlobalChange
<1>5. IsStep(u) /\ u.dm = Daemon(f, h, v, t, p)
    BY DaemonFields, StepFields
<1>6. CASE new = {}
  <2>1. a = u
      BY <1>3, <1>4, <1>6 DEF LocalPass
  <2>2. a.dm.failed = f /\ a.dm.global = h /\ a.dm.reported = p
      BY <1>5, <2>1, DaemonFields
  <2>3. f = f \cup ranks
      BY <1>2, <1>6 DEF new
  <2>4. Records(step.dm, a.dm, ranks, global)
      BY <1>2, <2>2, <2>3 DEF Records, h
  <2> QED
      BY <1>5, <2>1, <2>4 DEF a
<1>7. CASE new # {}
  <2> DEFINE z == RepairTree(me, u.dm.failed \cup new, u.dm.tree)
             x == u.dm.failed \cup new
             y == u.dm.revived \ new
             dm == Rebuilt(u.dm, x, y, z)
             w == u.out \o Announce(me, dm, Delta(u.dm.tree, z, new), new)
  <2>1. a = Announced(u, dm, w)
      BY <1>3, <1>4, <1>7 DEF LocalPass, Repair, Rebuilt, Announced
  <2>2. u.dm.failed = f
      BY <1>5, DaemonFields
  <2> HIDE DEF z, x, y, w
  <2>3. dm = Daemon(x, h, y, z, p)
      BY <1>5, TreeChange
  <2> HIDE DEF dm
  <2>4. a = StepOf(dm, w, e)
      BY <2>1, OutChange
  <2>5. IsDaemon(dm) /\ dm.failed = x /\ dm.global = h /\ dm.reported = p
      BY <2>3, DaemonFields
  <2>6. IsStep(a) /\ a.dm = dm
      BY <2>4, <2>5, StepFields
  <2>7. x = f \cup ranks
      BY <1>2, <2>2 DEF x, new
  <2>8. Records(step.dm, a.dm, ranks, global)
      BY <1>2, <2>5, <2>6, <2>7 DEF Records, h
  <2> QED
      BY <2>6, <2>8 DEF a
<1> QED
    BY <1>6, <1>7

\* report_new_departures comes first, and reports just what the repair will
\* record.
LEMMA ReportedAsRecorded ==
    ASSUME NEW me, NEW step, IsStep(step), Booked(step.dm), NEW ranks, NEW global \in BOOLEAN
    PROVE  LET t == ReportAndRepair(me, step, ranks, global)
           IN  IsStep(t) /\ Booked(t.dm) /\ Keeps(step.dm, t.dm)
<1> DEFINE u == ReportNew(step, ranks)
           t == ReportAndRepair(me, step, ranks, global)
<1>1. /\ IsStep(u) /\ u.dm.failed = step.dm.failed /\ u.dm.global = step.dm.global
      /\ u.dm.reported = step.dm.reported \cup (ranks \ step.dm.failed)
  <2>1. PICK f, g, v, tr, p, o, e : /\ step = StepOf(Daemon(f, g, v, tr, p), o, e)
                                    /\ step.dm = Daemon(f, g, v, tr, p)
      BY StepParts
  <2> DEFINE q == step.dm.reported \cup (ranks \ step.dm.failed)
  <2>2. u = [step EXCEPT !.dm.reported = q]
      BY DEF ReportNew
  <2> HIDE DEF q, u
  <2>3. u = StepOf(Daemon(f, g, v, tr, q), o, e)
      BY <2>1, <2>2, ReportedChange
  <2>4. IsStep(u) /\ u.dm = Daemon(f, g, v, tr, q)
      BY <2>3, DaemonFields, StepFields
  <2>5. IsStep(u) /\ u.dm.failed = step.dm.failed /\ u.dm.global = step.dm.global
                  /\ u.dm.reported = q
      BY <2>1, <2>4, DaemonFields
  <2> QED
      BY <2>5 DEF q
<1>2. t = RepairAnd(me, u, ranks, global)
    BY DEF ReportAndRepair
<1> HIDE DEF u, t
<1>3. IsStep(t) /\ Records(u.dm, t.dm, ranks, global)
    BY <1>1, <1>2, RepairRecords, Zenon
<1>4. Booked(t.dm) /\ Keeps(step.dm, t.dm)
    BY <1>1, <1>3, StepHolds DEF Booked, Keeps, Records
<1> QED
    BY <1>3, <1>4 DEF t

\* What a lineage let a daemon infer is reported and recorded like a notice.
LEMMA InferredAsReported ==
    ASSUME NEW me, NEW step, IsStep(step), Booked(step.dm), NEW verdict
    PROVE  LET t == ActOn(me, step, verdict)
           IN  IsStep(t) /\ Booked(t.dm) /\ Keeps(step.dm, t.dm)
<1>1. CASE verdict.verdict = "inferred"
    BY <1>1, ReportedAsRecorded DEF ActOn
<1>2. CASE verdict.verdict # "inferred"
    BY <1>2 DEF ActOn, Keeps
<1> QED
    BY <1>1, <1>2

\* A handler starts from the state it finds.
LEMMA FirstStep ==
    ASSUME NEW dm, Booked(dm), NEW e
    PROVE  LET t == [Step(dm) EXCEPT !.exit = e]
           IN  /\ IsStep(Step(dm)) /\ Step(dm).dm = dm
               /\ IsStep(t) /\ t.dm = dm
<1>1. Step(dm) = StepOf(dm, <<>>, FALSE)
    BY DEF Step, StepOf
<1>2. [Step(dm) EXCEPT !.exit = e] = StepOf(dm, <<>>, e)
    BY DEF Step, StepOf
<1> QED
    BY <1>1, <1>2 DEF IsStep, StepOf, Booked

------------------------------------------------------------------------------
(***************************************************************************)
(* The handlers.                                                           *)
(***************************************************************************)
Handled(dm, step) == IsStep(step) /\ Booked(step.dm) /\ Keeps(dm, step.dm)

\* What two steps keep, both together keep.
LEMMA KeepsOn ==
    ASSUME NEW a, NEW b, NEW c, Keeps(a, b), Keeps(b, c)
    PROVE  Keeps(a, c)
    BY DEF Keeps

\* prte_rml_route_lost: the lost neighbour is reported and recorded.
LEMMA RouteLostBooks ==
    ASSUME NEW me, NEW dm, Booked(dm), NEW route
    PROVE  Handled(dm, RouteLost(me, dm, route))
<1> DEFINE u == RepairAnd(me, Step(dm), {route}, FALSE)
           t == RouteLost(me, dm, route)
<1>1. IsStep(Step(dm)) /\ Step(dm).dm = dm
    BY FirstStep
<1>2. /\ IsStep(u) /\ u.dm.failed = dm.failed \cup {route}
      /\ u.dm.reported = dm.reported /\ u.dm.global = dm.global
  <2>1. IsStep(u) /\ Records(Step(dm).dm, u.dm, {route}, FALSE)
      BY <1>1, RepairRecords
  <2> HIDE DEF u
  <2> QED
      BY <1>1, <2>1 DEF Records
<1>3. t = [u EXCEPT !.dm.reported = @ \cup {route}]
    BY DEF RouteLost
<1> HIDE DEF u, t
<1>4. /\ IsStep(t) /\ t.dm.failed = u.dm.failed /\ t.dm.global = u.dm.global
      /\ t.dm.reported = u.dm.reported \cup {route}
  <2>1. PICK f, g, v, tr, p, o, e : /\ u = StepOf(Daemon(f, g, v, tr, p), o, e)
                                    /\ u.dm = Daemon(f, g, v, tr, p)
      BY <1>2, StepParts
  <2> DEFINE q == u.dm.reported \cup {route}
  <2>2. t = [u EXCEPT !.dm.reported = q]
      BY <1>3
  <2> HIDE DEF q
  <2>3. t = StepOf(Daemon(f, g, v, tr, q), o, e)
      BY <2>1, <2>2, ReportedChange
  <2>4. IsStep(t) /\ t.dm = Daemon(f, g, v, tr, q)
      BY <2>3, DaemonFields, StepFields
  <2>5. IsStep(t) /\ t.dm.failed = u.dm.failed /\ t.dm.global = u.dm.global
                  /\ t.dm.reported = q
      BY <2>1, <2>4, DaemonFields
  <2> QED
      BY <2>5 DEF q
<1>5. Booked(t.dm) /\ Keeps(dm, t.dm)
    BY <1>2, <1>4, StepHolds DEF Booked, Keeps
<1> QED
    BY <1>4, <1>5 DEF t, Handled

\* The lineage in a child's failure notice: what it implies is recorded.
LEMMA ReconcileChildBooks ==
    ASSUME NEW me, NEW step, IsStep(step), Booked(step.dm), NEW lineage
    PROVE  Handled(step.dm, ReconcileChild(me, step, lineage))
<1>1. CASE lineage = <<>> \/ Last(lineage) # me
    BY <1>1 DEF ReconcileChild, Handled, Keeps
<1>2. CASE ~(lineage = <<>> \/ Last(lineage) # me)
  <2> DEFINE v == Reconcile(me, step.dm, Front(lineage))
  <2>1. ReconcileChild(me, step, lineage) = ActOn(me, step, v)
      BY <1>2 DEF ReconcileChild
  <2> HIDE DEF v
  <2> QED
      BY <2>1, InferredAsReported DEF Handled
<1> QED
    BY <1>1, <1>2

\* recv_failures and recv_adoption.
LEMMA NoticeBooks ==
    ASSUME NEW me, NEW dm, Booked(dm), NEW msg
    PROVE  Handled(dm, RecvNotice(me, dm, msg))
<1>1. CASE msg.tag = "died"
  <2> DEFINE u == ReportAndRepair(me, Step(dm), msg.ranks, FALSE)
  <2>1. RecvNotice(me, dm, msg) = ReconcileChild(me, u, msg.lineage)
      BY <1>1 DEF RecvNotice, RecvFailures
  <2>2. IsStep(Step(dm)) /\ Step(dm).dm = dm
      BY FirstStep
  <2>3. IsStep(u) /\ Booked(u.dm) /\ Keeps(dm, u.dm)
      BY <2>2, ReportedAsRecorded
  <2> HIDE DEF u
  <2>4. Handled(u.dm, ReconcileChild(me, u, msg.lineage))
      BY <2>3, ReconcileChildBooks
  <2> QED
      BY <2>1, <2>3, <2>4, KeepsOn DEF Handled
<1>2. CASE msg.tag # "died"
  <2> DEFINE v == Reconcile(me, dm, msg.lineage)
             u == [Step(dm) EXCEPT !.exit = v.verdict = "inconsistent"]
  <2>1. RecvNotice(me, dm, msg) = ActOn(me, u, v)
      BY <1>2 DEF RecvNotice, RecvAdoption, PlaceOrExit
  <2> HIDE DEF v
  <2>2. IsStep(u) /\ u.dm = dm
      BY FirstStep
  <2> HIDE DEF u
  <2> QED
      BY <2>1, <2>2, InferredAsReported DEF Handled
<1> QED
    BY <1>1, <1>2

\* The HNP's broadcast: the ranks are recorded and confirmed.
LEMMA GlobalNoticeBooks ==
    ASSUME NEW me, NEW dm, Booked(dm), NEW ranks
    PROVE  Handled(dm, RecvGlobalFailures(me, dm, ranks))
<1>1. IsStep(Step(dm)) /\ Step(dm).dm = dm
    BY FirstStep
<1> QED
    BY <1>1, ReportedAsRecorded DEF RecvGlobalFailures, Handled

------------------------------------------------------------------------------
\* The inductive invariant, and what a step may do to the books.
BooksInv == dmn = [d \in Ranks |-> dmn[d]] /\ \A d \in Ranks : Booked(dmn[d])

AllKeep == \A d \in Ranks : Keeps(dmn[d], dmn'[d])

\* A handler's step leaves the books of the other daemons alone.
LEMMA ApplyBooks ==
    ASSUME BooksInv, NEW d \in Ranks, NEW step, Handled(dmn[d], step), NEW w,
           Apply(d, step, w)
    PROVE  BooksInv' /\ AllKeep
<1>1. dmn' = [dmn EXCEPT ![d] = step.dm]
    BY DEF Apply
<1>2. ASSUME NEW e \in Ranks
      PROVE  Booked(dmn'[e]) /\ Keeps(dmn[e], dmn'[e])
    BY <1>1 DEF BooksInv, Handled, Keeps
<1>3. dmn' = [e \in Ranks |-> dmn'[e]]
    BY <1>1 DEF BooksInv
<1> QED
    BY <1>2, <1>3 DEF BooksInv, AllKeep

\* Every action of the DVM keeps the books of all its daemons.
LEMMA BooksStep == BooksInv /\ [Next]_vars => BooksInv' /\ AllKeep
<1> SUFFICES ASSUME BooksInv, [Next]_vars PROVE BooksInv' /\ AllKeep
    OBVIOUS
<1>0. ASSUME UNCHANGED dmn PROVE BooksInv' /\ AllKeep
    BY <1>0 DEF BooksInv, AllKeep, Keeps
<1>1. ASSUME NEW d \in Ranks, Crash(d) PROVE BooksInv' /\ AllKeep
    BY <1>0, <1>1 DEF Crash
<1>2. ASSUME NEW d \in Ranks, NEW r \in Ranks, LostConnection(d, r) PROVE BooksInv' /\ AllKeep
  <2>1. Handled(dmn[d], RouteLost(d, dmn[d], r))
      BY RouteLostBooks DEF BooksInv
  <2> QED
      BY <1>2, <2>1, ApplyBooks DEF LostConnection
<1>3. ASSUME NEW d \in Ranks, NEW s \in Ranks, Receive(d, s) PROVE BooksInv' /\ AllKeep
  <2>1. Handled(dmn[d], RecvNotice(d, dmn[d], Head(wire[s][d])))
      BY NoticeBooks DEF BooksInv
  <2> QED
      BY <1>3, <2>1, ApplyBooks DEF Receive
<1>4. ASSUME NEW d \in Ranks, ReceiveBroadcast(d) PROVE BooksInv' /\ AllKeep
  <2>1. Handled(dmn[d], RecvGlobalFailures(d, dmn[d], bcast[heard[d] + 1]))
      BY GlobalNoticeBooks DEF BooksInv
  <2> QED
      BY <1>4, <2>1, ApplyBooks DEF ReceiveBroadcast
<1>5. CASE UNCHANGED vars
    BY <1>0, <1>5 DEF vars
<1> QED
    BY <1>1, <1>2, <1>3, <1>4, <1>5 DEF Next

\* They are empty, and so in order, at the start.
LEMMA BooksStart == Init => BooksInv
<1>1. \A d \in Ranks : Booked(NewDaemon(d))
  <2> TAKE d \in Ranks
  <2>1. NewDaemon(d) = Daemon({}, {}, {}, BuildTree(d, {}), {})
      BY DEF NewDaemon, Daemon
  <2>2. IsDaemon(NewDaemon(d))
      BY <2>1 DEF IsDaemon
  <2> QED
      BY <2>1, <2>2 DEF Booked, Daemon
<1> QED
    BY <1>1 DEF Init, BooksInv

\* A departure is in a daemon's failed set exactly when its error manager was
\* told of it, by a lost connection, a notice, the HNP's broadcast or a lineage
\* alike: none is recorded unreported, and would then look like a duplicate to
\* every later notice.
THEOREM EveryDepartureAlwaysReported == Spec => []EveryDepartureReported
<1>1. BooksInv => EveryDepartureReported
    BY DEF BooksInv, Booked, EveryDepartureReported, Live
<1> QED
    BY <1>1, BooksStart, BooksStep, PTL DEF Spec

\* A departure that a daemon has recorded, or has heard the HNP broadcast, stays
\* recorded, whatever it is told afterwards.
NothingForgotten ==
    [][\A d \in Ranks : /\ dmn[d].failed \subseteq dmn'[d].failed
                        /\ dmn[d].global \subseteq dmn'[d].global]_vars

\* No lost connection, notice, adoption or broadcast takes a rank out of a daemon's
\* failed or globally failed set again: prte_rml_repair_routing_tree only adds.
THEOREM NothingIsEverForgotten == Spec => NothingForgotten
<1>1. BooksInv /\ [Next]_vars => [AllKeep]_vars
    BY BooksStep
<1>2. [][AllKeep]_vars => NothingForgotten
    BY DEF NothingForgotten, AllKeep, Keeps
<1> QED
    BY <1>1, <1>2, BooksStart, BooksStep, PTL DEF Spec
==============================================================================

------------------------------- MODULE MCJobs -------------------------------
(***************************************************************************)
(* Jobs and the nodes they run on: the launch of the DVM, a job from       *)
(* launch to end, the elastic DVM, a Slurm allocation, reservations and    *)
(* sessions.                                                               *)
(* They share no state, so one behaviour moves one of them: focus, chosen  *)
(* at the start, says which, and the others stay in an initial state.      *)
(***************************************************************************)
EXTENDS JobLife, Elastic, DaemonLaunch, SlurmResize, Sessions, TLC

-----------------------------------------------------------------------------
(* Jobs, and how their processes end *)
MCJlP(o,h0,h1,f0,f1,fails,timer,rec,pr) == [order |-> o, home |-> ("p0" :> h0 @@ "p1" :> h1), fate |-> ("p0" :> f0 @@ "p1" :> f1), fails |-> fails, timer |-> timer, recover |-> rec, prompt |-> pr]
MCJlO1 == <<"p0">>
MCJlO2 == <<"p0","p1">>
MCJlOne(h,fs,rec,pr) == {MCJlP(MCJlO1,h,"H",f,"ok","none","none",rec,pr) : f \in fs}
MCJlTwo(h0,h1,f0,f1) == MCJlP(MCJlO2,h0,h1,f0,f1,"none","none",FALSE,TRUE)
MCJlPlans == MCJlOne("D1",{"ok","nofork","noiof"},FALSE,FALSE) \cup MCJlOne("D1",{"bad","sig","noexec"},FALSE,TRUE)
  \cup MCJlOne("D1",{"bad","sig","abort"},TRUE,TRUE) \cup MCJlOne("H",{"bad","noexec"},FALSE,FALSE)
  \cup {MCJlP(MCJlO1,"D1","H","ok","ok","none","spawn",FALSE,TRUE),MCJlP(MCJlO1,"D1","H","stay","ok","none","job",FALSE,FALSE)}
  \cup {MCJlP(MCJlO1,"D1","H","ok","ok",x,"none",FALSE,FALSE) : x \in JlSteps \cup JlDaemons}
  \cup {MCJlTwo("H","H","bad","stay"),MCJlTwo("H","H","abort","stay"),MCJlTwo("D1","H","bad","stay"),MCJlTwo("D1","D1","bad","stay"),MCJlTwo("D1","D1","ok","ok"),MCJlTwo("D1","D1","nofork","ok")}

-----------------------------------------------------------------------------
(* Requests that resize the DVM *)
MCElJob(i, h, ns) == [k |-> "job", id |-> i, how |-> h, nodes |-> ns]
MCElReq(k, i, ns) == [k |-> k, id |-> i, how |-> "req", nodes |-> ns]
MCElPlan(a, b) == [ask |-> a, bad |-> b]
MCElPlans == { MCElPlan(<<MCElReq("extend","r1",{"n2"}), MCElJob("j1","plain",{}), MCElReq("release","r2",{"n1"}), MCElJob("j2","plain",{})>>, {}),
  MCElPlan(<<MCElReq("release","r1",{"n1"}), MCElJob("j1","plain",{}), MCElReq("extend","r2",{"n2"}), MCElJob("j2","plain",{})>>, {}),
  MCElPlan(<<MCElJob("j1","addhost",{"n2"}), MCElReq("release","r2",{"n1"}), MCElJob("j2","plain",{})>>, {}),
  MCElPlan(<<MCElReq("extend","r1",{"n2","n3"}), MCElJob("j1","plain",{}), MCElReq("release","r2",{"n1"}), MCElJob("j2","addhost",{})>>, {"n2"}),
  MCElPlan(<<MCElJob("j1","plain",{}), MCElReq("extend","r1",{"n2"}), MCElReq("extend","r2",{"n3"})>>, {"n2"}) ,
  MCElPlan(<<MCElReq("extend","r1",{"n2","n3"}), MCElJob("j1","plain",{})>>, {"n2","n3"}),
  MCElPlan(<<MCElReq("release","r1",{"n1"}), MCElJob("j1","plain",{}), MCElReq("activate","r2",{"n1"}), MCElJob("j2","activate",{"n1"})>>, {})}

-----------------------------------------------------------------------------
(* Launches of the DVM: of a flat list of nodes or along a tree, with nodes   *)
(* that cannot be reached, nodes of other hardware, and a later grow          *)
MCLnN(st, fate) == [st |-> st, fate |-> fate, hw |-> "hnp"]
MCLnP(pool, tree, radix, conc) == [pool |-> pool, tree |-> tree, radix |-> radix, conc |-> conc, attached |-> FALSE, homo |-> FALSE,
  hnp |-> TRUE, spec |-> {}, max |-> 0, grow |-> {}, ends |-> TRUE]
MCLnUps(fates) == [i \in DOMAIN fates |-> MCLnN("up", fates[i])]
MCLnOther(p, ns) == [p EXCEPT !.pool = [i \in DOMAIN @ |-> IF i \in ns THEN [@[i] EXCEPT !.hw = "other"] ELSE @[i]]]
MCLnFlat(fates) == MCLnP(MCLnUps(fates), FALSE, 4, 2)
MCLnTree(fates) == MCLnP(MCLnUps(fates), TRUE, 2, 2)
MCLnMixed == MCLnP(<<MCLnN("up", "ok"), MCLnN("down", "ok"), MCLnN("nouse", "ok"), MCLnN("notinc", "ok"), MCLnN("absent", "ok"), MCLnN("up", "ok")>>, FALSE, 8, 1)
MCLnGrown == [MCLnMixed EXCEPT !.grow = {5}]
MCLnPlans == {MCLnFlat(<<>>), MCLnFlat(<<"ok", "ok">>), MCLnFlat(<<"ok", "bad">>)}
  \cup {MCLnTree(<<"ok", "ok", f>>) : f \in LnFates}
  \cup {MCLnMixed, MCLnGrown, [MCLnGrown EXCEPT !.max = 2], [MCLnMixed EXCEPT !.spec = {1}], [MCLnMixed EXCEPT !.spec = {2}]}
  \cup {[MCLnFlat(fs) EXCEPT !.attached = TRUE] : fs \in {<<"ok", "ok">>, <<"ok", "ok", "ok">>}}
  \cup {MCLnOther(MCLnTree(<<"ok", "ok">>), {2}), MCLnOther([MCLnTree(<<"ok", "ok">>) EXCEPT !.homo = TRUE], {1}),
         MCLnOther([MCLnTree(<<"ok", "ok">>) EXCEPT !.homo = TRUE, !.hnp = FALSE], {1, 2}),
         MCLnOther([MCLnGrown EXCEPT !.homo = TRUE, !.hnp = FALSE], {1, 6})}

-----------------------------------------------------------------------------
(* Requests that resize a Slurm allocation *)
MCSlExt(id, n) == [op |-> "extend", id |-> id, n |-> n, names |-> {}, after |-> {}]
MCSlExtN(id, ns) == [op |-> "extend", id |-> id, n |-> 0, names |-> ns, after |-> {}]
MCSlCan(id) == [op |-> "cancel", id |-> id, after |-> {}]
MCSlRelN(l) == [op |-> "release", by |-> "names", list |-> l, after |-> {}]
MCSlRelJ(j) == [op |-> "release", by |-> "id", job |-> j, after |-> {}]
MCSlRelC(n) == [op |-> "release", by |-> "count", n |-> n, after |-> {}]
MCSlAft(r, a) == [r EXCEPT !.after = a]
MCSlP(reqs, faults) == [ranges |-> <<<<1, 1>>, <<2, 2>>>>, tasks |-> <<<<2, 1>>, <<1, 3>>>>, cores |-> 2, tpc |-> 2, cpus |-> 3, hnp |-> 1, free |-> {3, 4, 5}, reqs |-> reqs,
  faults |-> faults, propagate |-> TRUE, parentEnd |-> 9, now |-> 2, start |-> 3, limit |-> 4, ends |-> TRUE, refusing |-> TRUE]
MCSlT(e, n, st, l) == [MCSlP(<<MCSlExt(0, 1)>>, {}) EXCEPT !.parentEnd = e, !.now = n, !.start = st, !.limit = l]
MCSlLists == { <<MCSlExt(100, 1), MCSlExt(101, 2), MCSlCan(100)>>, <<MCSlExt(100, 1), MCSlExt(100, 1), MCSlAft(MCSlRelJ(2), {1})>>,
   <<MCSlExt(0, 2), MCSlAft(MCSlRelC(1), {1}), MCSlAft(MCSlExtN(100, {3}), {1, 2})>>,
   <<MCSlExt(0, 2), MCSlAft(MCSlRelC(3), {1}), MCSlAft(MCSlExt(101, 3), {1, 2})>>,
   <<MCSlExt(0, 2), MCSlAft(MCSlRelN(<<3, 4>>), {1}), MCSlAft(MCSlExt(101, 2), {1, 2})>>,
   <<MCSlExt(0, 2), MCSlRelN(<<2>>), MCSlAft(MCSlRelJ(2), {1})>>,
   <<MCSlExt(0, 2), MCSlRelN(<<2, 3>>), MCSlRelC(2)>>,
   <<MCSlExt(0, 3), MCSlRelC(4), MCSlRelC(1)>>,
   <<MCSlExt(0, 1), MCSlExt(0, 2), MCSlRelC(2)>>, <<MCSlCan(2), MCSlExt(0, 1), MCSlCan(0)>>, <<MCSlRelN(<<1>>), MCSlRelC(1), MCSlRelC(0)>>,
   <<MCSlRelN(<<2, 2>>), MCSlRelJ(1), MCSlExt(0, 0), [MCSlExt(0, 1) EXCEPT !.names = {3}]>>,
   <<MCSlExtN(100, {3}), MCSlAft(MCSlRelN(<<3>>), {1}), MCSlAft(MCSlExtN(100, {3, 2}), {1, 2})>>}
MCSlAway == [MCSlP(<<MCSlExt(0, 1), MCSlAft(MCSlRelN(<<1, 2>>), {1}), MCSlRelC(1)>>, {}) EXCEPT !.hnp = 9]
MCSlPlans == {MCSlP(l, {}) : l \in MCSlLists} \cup {MCSlP(<<MCSlExt(0, 2), MCSlRelC(1), MCSlCan(2)>>, {f}) : f \in {"query", "fields", "salloc", "list", "xcast", "scontrol", "trim"}} \cup {MCSlP(<<MCSlExt(0, 2), MCSlCan(2)>>, {"insert"})}
  \cup {MCSlP(<<MCSlExtN(0, {3}), MCSlAft(MCSlRelJ(2), {1}), MCSlAft(MCSlExtN(0, {3, 4}), {1, 2})>>, {f}) : f \in {"xcast", "scontrol", "list"}}
  \cup {MCSlT(e, n, st, l) : e \in {0, 3, 4, 5, 9}, n \in {0, 3}, st \in {3, 6}, l \in {0, 2}} \cup {MCSlAway}

-----------------------------------------------------------------------------
(* Reservations and sessions *)
MCSeA(dir, who, lists) == [kind |-> "alloc", who |-> who, dir |-> dir, lists |-> lists, share |-> FALSE, target |-> -1, aid |-> 0,
   rid |-> 0, inh |-> "dflt", haveinh |-> FALSE, rel |-> {}, spec |-> <<>>]
MCSeS(who, sid, ds) == [kind |-> "sess", who |-> who, sid |-> sid, ds |-> ds]
MCSeP(who, att) == [kind |-> "spawn", who |-> who, att |-> att]
MCSeD(who) == [kind |-> "depart", who |-> who]
MCSeI(d, v) == [d |-> d, v |-> v]
MCSeInst == MCSeI("instantiate", TRUE)
MCSePlan(sched, tools, stay, reqs) == [patient |-> \E r \in DOMAIN reqs : reqs[r].who > Len(tools) \/ (reqs[r].kind = "spawn" /\ reqs[r].att.alloc # <<>>), pool |-> <<"dvm", "up", "absent">>, sched |-> sched, tools |-> tools, stay |-> stay, reqs |-> reqs]
MCSePlans == <<
 \* a tool reserves nodes for its children, spawns into them, leaves
 MCSePlan(FALSE, <<5, 6>>, {}, <<[MCSeA("new", 1, <<{2}>>) EXCEPT !.aid = 1, !.inh = "child", !.haveinh = TRUE],
    MCSeP(1, [SeNobody EXCEPT !.target = <<1>>]), MCSeD(1)>>),
 MCSePlan(FALSE, <<5, 6>>, {}, <<[MCSeA("new", 1, <<{1, 3}>>) EXCEPT !.aid = 1, !.rid = 2, !.inh = "none"],
    MCSeP(2, [SeNobody EXCEPT !.aid = 1]), MCSeP(1, [SeNobody EXCEPT !.target = <<0, 1>>]), MCSeD(1)>>),
 MCSePlan(FALSE, <<5, 5>>, {}, <<[MCSeA("new", 1, <<{2}>>) EXCEPT !.aid = 1],
    [MCSeA("extend", 2, <<{3}>>) EXCEPT !.aid = 1, !.inh = "child_default", !.haveinh = TRUE],
    MCSeP(2, [SeNobody EXCEPT !.rid = 4]), MCSeP(2, [SeNobody EXCEPT !.aid = 1]), MCSeD(1)>>),
 MCSePlan(FALSE, <<5, 6>>, {}, <<[MCSeA("new", 1, <<{2}, {}>>) EXCEPT !.aid = 1], [MCSeA("new", 1, <<{2}>>) EXCEPT !.rid = 3],
    [MCSeA("extend", 2, <<{3}>>) EXCEPT !.rid = 3], [MCSeA("release", 1, <<>>) EXCEPT !.aid = 201], [MCSeA("release", 2, <<>>) EXCEPT !.rel = {1, 2}]>>),
 MCSePlan(FALSE, <<5>>, {}, <<MCSeP(1, [SeNobody EXCEPT !.alloc = <<[MCSeA("new", 1, <<{2}>>) EXCEPT !.aid = 1]>>]), MCSeD(1)>>),
 MCSePlan(FALSE, <<5>>, {}, <<MCSeP(1, [SeNobody EXCEPT !.alloc = <<[MCSeA("new", 1, <<>>) EXCEPT !.aid = 1]>>]), MCSeD(1)>>),
 MCSePlan(FALSE, <<5>>, {}, <<MCSeP(1, [SeNobody EXCEPT !.alloc = <<[MCSeA("new", 1, <<{}>>) EXCEPT !.aid = 1]>>]),
    MCSeP(1, [SeNobody EXCEPT !.alloc = <<[MCSeA("new", 1, <<{3}>>) EXCEPT !.share = TRUE]>>])>>),
 MCSePlan(FALSE, <<5>>, {}, <<[MCSeA("activate", 1, <<>>) EXCEPT !.spec = <<[t |-> "nth", v |-> 1], [t |-> "name", v |-> 1]>>],
    [MCSeA("activate", 1, <<>>) EXCEPT !.spec = <<[t |-> "all", v |-> 0]>>],
    [MCSeA("activate", 1, <<>>) EXCEPT !.spec = <<[t |-> "file", v |-> <<1, 2>>], [t |-> "name", v |-> 3]>>], MCSeP(1, SeNobody)>>),
 \* the scheduler's sessions
 MCSePlan(TRUE, <<5>>, {}, <<MCSeS(0, 7, <<MCSeInst, MCSeI("app", 1), MCSeI("resources", <<MCSeI("nodes", {2}), MCSeI("time", <<1, 0>>)>>)>>),
    MCSeS(0, 7, <<MCSeI("pause", TRUE)>>), MCSeS(0, 7, <<MCSeI("resume", TRUE)>>)>>),
 MCSePlan(TRUE, <<5>>, {1}, <<MCSeS(0, 7, <<MCSeInst, MCSeI("app", 1), MCSeI("nodes", {1}), MCSeI("inh", "child")>>),
    MCSeS(0, 7, <<MCSeI("preempt", TRUE), MCSeI("nspace", 2)>>), MCSeS(1, 7, <<MCSeI("signal", 9)>>), MCSeS(0, 7, <<MCSeI("terminate", TRUE)>>)>>),
 MCSePlan(TRUE, <<5>>, {1}, <<MCSeS(0, 7, <<MCSeInst, MCSeI("app", 1), MCSeI("nodes", {2}), MCSeI("timeout", 3)>>), MCSeS(0, 7, <<MCSeI("signal", 9)>>)>>),
 MCSePlan(TRUE, <<5>>, {}, <<MCSeS(0, 7, <<MCSeInst, MCSeI("uid", 5), MCSeI("nodes", {2})>>), MCSeP(1, [SeNobody EXCEPT !.sid = 7]),
    MCSeS(0, -1, <<MCSeI("terminate", TRUE)>>)>>),
 MCSePlan(TRUE, <<5>>, {}, <<MCSeS(0, 7, <<MCSeInst, MCSeI("app", 1), MCSeI("nodes", {2}), MCSeI("nodes", {})>>),
    MCSeS(0, 7, <<MCSeInst, MCSeI("app", SeBadApps), MCSeI("nodes", {2}), MCSeI("job", TRUE)>>), MCSeS(0, 7, <<MCSeI("restore", TRUE)>>)>>),
 MCSePlan(FALSE, <<5, 6>>, {}, <<MCSeS(1, 7, <<MCSeInst, MCSeI("sep", FALSE), MCSeI("nodes", {1})>>), MCSeS(2, 7, <<MCSeI("terminate", TRUE)>>),
    MCSeS(1, 7, <<MCSeI("extend", TRUE), MCSeI("nodes", {3}), MCSeI("timeout", 2), MCSeI("inh", "none")>>), MCSeD(1)>>),
 MCSePlan(FALSE, <<5, 6>>, {}, <<MCSeS(1, 7, <<MCSeInst, MCSeI("aid", 1)>>), MCSeS(1, 7, <<MCSeInst>>), MCSeP(2, [SeNobody EXCEPT !.target = <<1>>]),
    MCSeP(1, [SeNobody EXCEPT !.target = <<2>>]), MCSeS(1, 7, <<MCSeI("sep", FALSE)>>), MCSeS(1, 7, <<MCSeI("extend", TRUE), MCSeI("nodes", {3}), MCSeI("nodes", {})>>), MCSeD(1)>>),
 MCSePlan(FALSE, <<5>>, {}, <<MCSeS(1, 7, <<MCSeI("pause", TRUE), MCSeI("resume", TRUE)>>), MCSeS(1, 7, <<MCSeI("wrong", 0)>>), MCSeS(1, 7, <<MCSeI("count", 0)>>),
    MCSeS(1, 7, <<MCSeI("resources", <<MCSeI("count", 0)>>)>>), MCSeS(1, 7, <<MCSeI("provision", 0)>>), MCSeS(1, -1, <<MCSeInst>>), MCSeS(1, 7, <<MCSeI("app", 1)>>),
    MCSeS(1, 7, <<MCSeI("signal", 0)>>), MCSeS(1, 7, <<MCSeI("time", <<-1>>)>>), MCSeS(1, 7, <<MCSeI("requestor", 1), MCSeI("rid", 3), MCSeI("complete", FALSE)>>)>>),
 MCSePlan(FALSE, <<5>>, {}, <<MCSeS(1, 7, <<MCSeInst, MCSeI("nodes", {1})>>), MCSeS(1, 7, <<MCSeI("complete", TRUE)>>), MCSeS(1, 7, <<MCSeI("extend", TRUE)>>),
    MCSeS(1, 7, <<MCSeI("restore", TRUE), MCSeI("nspace", 1)>>), MCSeS(1, 7, <<MCSeI("sep", TRUE)>>), MCSeS(1, -1, <<MCSeI("terminate", TRUE)>>)>>),
 \* a job reserves nodes for its children, one of which it spawns there; another tool's job shares the rest
 MCSePlan(FALSE, <<5, 6>>, {}, <<MCSeP(1, SeNobody), [MCSeA("new", 3, <<{2}>>) EXCEPT !.aid = 1, !.inh = "child", !.haveinh = TRUE],
    MCSeP(3, [SeNobody EXCEPT !.aid = 1]), MCSeD(1)>>),
 MCSePlan(FALSE, <<5, 6>>, {}, <<[MCSeA("new", 1, <<{2}>>) EXCEPT !.aid = 1, !.inh = "child_default", !.haveinh = TRUE],
    MCSeP(1, [SeNobody EXCEPT !.target = <<1>>]), MCSeD(1), [MCSeA("release", 2, <<>>) EXCEPT !.rel = {2}],
    [MCSeA("new", 2, <<{3}>>) EXCEPT !.rid = 4], MCSeD(2)>>),
 MCSePlan(TRUE, <<5, 6>>, {}, <<MCSeS(0, 7, <<MCSeInst, MCSeI("app", 1), MCSeI("nodes", {2}), MCSeI("timeout", 3), MCSeI("inh", "child")>>),
    MCSeS(0, 8, <<MCSeInst, MCSeI("uid", 5), MCSeI("nodes", {3}), MCSeI("sep", FALSE)>>), MCSeP(1, [SeNobody EXCEPT !.sid = 8]), MCSeD(1),
    MCSeS(0, 8, <<MCSeI("extend", TRUE), MCSeI("nodes", {1}), MCSeI("timeout", 2)>>)>>)
>>

-----------------------------------------------------------------------------
CONSTANT Parts
VARIABLE focus

jobsVars == <<focus, jl, el, ln, sl, se>>

JobsInit ==
    /\ focus \in Parts
    /\ JlInit /\ (focus = "jl" \/ jl.plan = CHOOSE p \in JlPlans : TRUE)
    /\ IF focus = "el" THEN ElInit ELSE el = ElStart(CHOOSE p \in ElPlans : TRUE)
    /\ IF focus = "ln" THEN LnInit ELSE ln = LnStart(CHOOSE p \in LnPlans : TRUE)
    /\ IF focus = "sl" THEN SlInit ELSE sl = SlStart(CHOOSE p \in SlPlans : TRUE)
    /\ SeInit /\ (focus = "se" \/ se.plan = SePlans[1])

JobsNext ==
    \/ focus = "jl" /\ JlNext /\ UNCHANGED <<focus, el, ln, sl, se>>
    \/ focus = "el" /\ ElNext /\ UNCHANGED <<focus, jl, ln, sl, se>>
    \/ focus = "ln" /\ LnNext /\ UNCHANGED <<focus, jl, el, sl, se>>
    \/ focus = "sl" /\ SlNext /\ UNCHANGED <<focus, jl, el, ln, se>>
    \/ focus = "se" /\ SeNext /\ UNCHANGED <<focus, jl, el, ln, sl>>

\* Fair is what the event loops of the daemons run.
JobsSpec ==
    /\ JobsInit /\ [][JobsNext]_jobsVars
    /\ WF_jl(focus = "jl" /\ JlNext)
    /\ WF_el(focus = "el" /\ ElNext)

\* The daemons of the DVM, as they are launched and ordered to leave (module
\* DaemonLaunch) and as the DVM grows and shrinks (module Elastic).
DaemonsSound == LnSound /\ ElSound

\* Every job ends and leaves nothing behind, and every resize of the DVM comes
\* to its end with no job still held.
JobsSettle ==
    <>[](CASE focus = "jl" -> JlSettled
           [] focus = "el" -> ElSettled
           [] OTHER -> TRUE)

=============================================================================

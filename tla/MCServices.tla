----------------------------- MODULE MCServices -----------------------------
(***************************************************************************)
(* What is asked of the daemons: the mapping of jobs, modex data, relayed  *)
(* requests, queries, connect and events.                                  *)
(* They share no state, so one behaviour moves one of them: focus, chosen  *)
(* at the start, says which, and the others stay in an initial state.      *)
(***************************************************************************)
EXTENDS Mapper, DModex, ServerReq, Queries, Assemblages, TLC

-----------------------------------------------------------------------------
(* Jobs to map *)
MCMpCores4 == << {0,1}, {2,3}, {4,5}, {6,7} >>
MCMpHalves == << {0,1,2,3}, {4,5,6,7} >>
MCMpTopo == << <<0..7>>, MCMpHalves, MCMpHalves, MCMpHalves, MCMpCores4, MCMpCores4, MCMpCores4, [i \in 1..8 |-> {i-1}] >>
MCMpBase == [map |-> 0, dir |-> {}, rank |-> 0, bind |-> PoNoBinding, pes |-> 0, cpus |-> "core",
         ppr |-> <<>>, file |-> <<>>, inherit |-> TRUE, reqhwt |-> FALSE, havecores |-> TRUE, onhead |-> FALSE]
MCMpNd(s, m) == [slots |-> s, max |-> m, given |-> FALSE]
MCMpPl(id, nodes, jobs) == [id |-> id, nodes |-> nodes, topo |-> MCMpTopo,
   devs |-> << [cpus |-> {0,1,2,3}, named |-> TRUE], [cpus |-> {4,5,6,7}, named |-> TRUE] >>,
   usable |-> DOMAIN nodes, head |-> TRUE, owned |-> FALSE, cpubind |-> TRUE, base |-> MCMpBase,
   jobs |-> jobs, hostfile |-> <<>>, recover |-> FALSE]
MCMpApp(n) == [PoPlainApp EXCEPT !.np = n]
MCMpMod(m, v) == [m |-> m, v |-> v]
\* the job its command line asks for: a policy, its value and its modifiers
MCMpJob(m, v, mods, n) ==
  [PoSetMapping(PoPlainJob, m, v, mods, "job", MCMpBase).t EXCEPT !.apps = <<MCMpApp(n)>>]
MCMpJb(m, n) == MCMpJob(m, <<>>, <<>>, n)
MCMpOver(m, n) == MCMpJob(m, <<>>, <<MCMpMod("oversub", 0)>>, n)
MCMpSpan == MCMpMod("span", 0)
MCMpPe(n) == <<MCMpMod("pe", n)>>
MCMpFile(f) == <<MCMpMod("file", f)>>
MCMpBind(J, l) == PoSetBinding(J, l, {}, TRUE)
MCMpAppBy(n, m) == PoSetAppMapping(MCMpApp(n), m, <<>>, <<>>, MCMpBase).t
MCMpE(n, c) == [node |-> n, cpus |-> c]

MCMpMenu == << MCMpJb(0, 3), MCMpJb(PoByslot, 4), MCMpJb(PoBynode, 3), MCMpJb(PoBynuma, 3), MCMpJob(PoBynuma, <<>>, <<MCMpSpan>>, 4),
   MCMpOver(PoByslot, 8), MCMpBind(MCMpJb(PoByslot, 2), PoCore),
   MCMpJob(PoByslot, <<>>, MCMpPe(2), 2),
   MCMpJob(PoPPR, <<1, PoPackage>>, <<>>, 0),
   MCMpJob(PoPPR, <<1, PoNone>>, <<>>, 2),
   MCMpJob(PoBydevice, "gpu", <<>>, 2),
   MCMpBind(MCMpJob(PoSeq, <<>>, MCMpFile(<<MCMpE(1, <<>>), MCMpE(2, <<>>)>>), 0), PoCore),
   MCMpJob(PoByuser, <<>>, MCMpFile(<<MCMpE(1, <<0>>), MCMpE(2, <<1>>)>>), 0),
   MCMpJob(PoPelist, <<0, 1>>, <<>>, 2),
   [MCMpJb(PoBycore, 0) EXCEPT !.apps = << MCMpAppBy(2, PoBynode), MCMpApp(2) >>],
   [MCMpJb(PoByslot, 1) EXCEPT !.apps = << [MCMpApp(1) EXCEPT !.hosts = <<1>>], [MCMpApp(2) EXCEPT !.hosts = <<2, 2>>] >>],
   [MCMpJb(0, 0) EXCEPT !.coloc = [by |-> "node", daemons |-> TRUE, targets |-> <<<<1, MpWildcard>>>>, num |-> 1], !.apps = <<MCMpApp(0)>>],
   [MCMpJb(0, 0) EXCEPT !.coloc = [by |-> "proc", daemons |-> FALSE, targets |-> <<<<1, 0>>>>, num |-> 2], !.apps = <<MCMpApp(0)>>],
   [MCMpJb(0, 2) EXCEPT !.parent = 1]
   >>
MCMpTwo == <<MCMpNd(3, 0), MCMpNd(2, 3)>>
MCMpFull == <<MCMpNd(4, 4), MCMpNd(2, 2)>>
MCMpHwt == <<MCMpMod("hwtcpus", 0)>>
MCMpMore == <<
   MCMpJb(PoByhwthread, 3), MCMpJob(PoByslot, <<>>, MCMpHwt, 2), MCMpJob(PoByslot, <<>>, MCMpHwt \o MCMpPe(2), 2),
   MCMpJob(PoBynuma, <<>>, <<MCMpMod("oversub", 0), MCMpSpan>>, 6), MCMpOver(PoBycore, 7),
   [MCMpBind(MCMpJb(PoBypackage, 3), PoPackage) EXCEPT !.limit = 2],
   MCMpJob(PoBydevice, "gpu", <<MCMpMod("shared", 0)>>, 4),
   MCMpBind(MCMpJob(PoBydevice, "gpu", <<MCMpMod("ndev", 2)>>, 1), PoNone),
   MCMpJob(PoBydevice, "one", <<MCMpMod("interleave", PoPackage)>>, 2),
   [MCMpJb(PoBynuma, 4) EXCEPT !.rank = PoRankNode], [MCMpJb(PoByslot, 3) EXCEPT !.rank = PoRankNode],
   [MCMpJb(PoBynuma, 4) EXCEPT !.rank = PoRankSpan],
   MCMpJob(PoByslot, <<>>, <<MCMpMod("nolocal", 0)>>, 2),
   MCMpJob(PoBynode, <<>>, <<MCMpMod("inherit", 0)>>, 0),
   [MCMpBind(MCMpJb(PoSeq, 2), PoCore) EXCEPT !.apps = <<[MCMpApp(2) EXCEPT !.hosts = <<2, 1>>]>>],
   MCMpJob(PoByslot, <<>>, MCMpPe(3), 0),
   [MCMpJb(PoByslot, 0) EXCEPT !.apps = <<[MCMpApp(1) EXCEPT !.rank = PoRankNode], [MCMpBind(MCMpApp(2), PoNone) EXCEPT !.bindto = TRUE]>>],
   [MCMpJb(PoByslot, 1) EXCEPT !.bookmark = 2]
 >>
MCMpB1 == [MCMpBase EXCEPT !.map = PoBynode, !.dir = {"given", "subscribe"}]
MCMpB2 == [MCMpBase EXCEPT !.bind = [PoNoBinding EXCEPT !.pol = PoNuma, !.set = TRUE], !.dir = {"subscribe", "noover"}, !.rank = PoRankSlot]
MCMpOk == (1 .. 16) \ {13, 14}
MCMpRf == MCMpJob(PoByuser, <<>>, MCMpFile(<<MCMpE(1, <<3>>), MCMpE(2, <<3>>)>>), 0)
MCMpPlans ==
  { MCMpPl(<<i,k>>, MCMpTwo, <<MCMpMenu[i], MCMpMenu[k]>>) : i \in MCMpOk, k \in (1 .. 19) \ {13,14} }
  \cup { MCMpPl(<<i,20+k>>, MCMpFull, <<MCMpMenu[i], MCMpMore[k]>>) : i \in MCMpOk, k \in DOMAIN MCMpMore}
  \cup { [MCMpPl(<<i,k,100>>, MCMpTwo, <<MCMpMenu[i], MCMpMenu[k]>>) EXCEPT !.base = b] : i \in {1, 2, 9, 19}, k \in {1, 3, 19}, b \in {MCMpB1, MCMpB2}}
  \cup { [MCMpPl(<<i,k,101>>, MCMpTwo, <<MCMpMenu[7], MCMpMenu[i], MCMpMenu[k]>>) EXCEPT !.recover = TRUE] : i \in {1, 7, 8, 10}, k \in {7, 10}}
  \cup { MCMpPl(<<102>>, MCMpTwo, <<MCMpMenu[7], MCMpRf, MCMpMenu[7]>>), MCMpPl(<<103>>, MCMpTwo, <<MCMpMenu[14]>>) }

-----------------------------------------------------------------------------
(* Requests for modex data *)
MCDmH == [t \in 0..5 |-> <<"B","B","B","A","nowhere","nodaemon">>[t+1]]
MCDmR(t,key,timeout) == [kind |-> "modex", t |-> t, key |-> key, refresh |-> FALSE, timeout |-> timeout]
MCDmRf(t,key) == [MCDmR(t,key,FALSE) EXCEPT !.refresh = TRUE]
MCDmRel(t) == [MCDmR(t,"none",FALSE) EXCEPT !.kind = "relay"]
MCDmU == <<"user">>
MCDmP(knows, cpuA, await, faults, others, puts, reqs) == [knows |-> knows, cpuA |-> cpuA, await |-> await, faults |-> faults, others |-> others, puts |-> puts, reqs |-> reqs]
MCDmAB == {"A","B"}
MCDmPlans == <<
 MCDmP({"A"}, TRUE, FALSE, {}, 0, <<MCDmU,MCDmU>>, <<MCDmR(1,"user",TRUE), MCDmR(2,"user",FALSE), MCDmRel(3), MCDmR(1,"user",FALSE)>>),
 MCDmP(MCDmAB, FALSE, TRUE, {}, 0, <<MCDmU,<<>>>>, <<MCDmR(1,"cpuset",TRUE), MCDmR(2,"user",TRUE), MCDmR(2,"none",FALSE)>>),
 MCDmP(MCDmAB, FALSE, FALSE, {}, 1, <<MCDmU,<<>>>>, <<MCDmR(0,"size",FALSE), MCDmR(2,"user",TRUE), MCDmR(2,"none",FALSE), MCDmR(0,"size",FALSE), MCDmR(2,"none",TRUE)>>),
 MCDmP(MCDmAB, TRUE, FALSE, {"send"}, 0, <<MCDmU>>, <<MCDmR(1,"cpuset",FALSE), MCDmR(1,"user",FALSE), MCDmR(4,"user",FALSE), MCDmR(5,"user",FALSE), MCDmR(1, "distances", FALSE)>>),
 MCDmP(MCDmAB, TRUE, FALSE, {"library"}, 0, <<MCDmU,MCDmU>>, <<MCDmR(1,"user",TRUE), MCDmR(2,"none",FALSE), MCDmRf(1,"rank"), MCDmRel(3)>>)
>>
\* what the README tells of these: a chain of wildcards, one that is parked, two registrations
MCDmChain == << MCDmP(MCDmAB, TRUE, FALSE, {}, 0, <<MCDmU,MCDmU>>, <<MCDmR(1,"user",FALSE), MCDmR(0,"size",FALSE), MCDmR(2,"user",FALSE)>>) >>
MCDmParked == << MCDmP({"B"}, TRUE, FALSE, {}, 0, <<MCDmU,MCDmU>>, <<MCDmR(1,"user",FALSE)>>) >>
MCDmTwice == << MCDmP(MCDmAB, TRUE, FALSE, {}, 0, <<MCDmU,MCDmU>>, <<MCDmR(0,"size",FALSE), MCDmR(0,"size",FALSE)>>) >>

-----------------------------------------------------------------------------
(* Requests relayed to the master or to all daemons *)
MCSrR(at,kind,how) == [at |-> at, kind |-> kind, how |-> how]
MCSrP(n,lose,reqs) == [n |-> n, lose |-> lose, reqs |-> reqs]
MCSrPlans == <<
 MCSrP(3, {2}, <<MCSrR(0,"monitor","ok"), MCSrR(1,"monitor","ok")>>),
 MCSrP(2, {}, <<MCSrR(1,"ctrl","ok"), MCSrR(1,"log","ok"), MCSrR(0,"spawn","ok"), MCSrR(1,"ctxid","ok")>>),
 MCSrP(2, {}, <<MCSrR(1,"alloc","ok"), MCSrR(1,"spawn","refused"), MCSrR(1,"tool","ok"), MCSrR(1,"alloc","nosend"), MCSrR(0,"tool","ok")>>),
 MCSrP(3, {1}, <<MCSrR(0,"ctrl","ok"), MCSrR(2,"monitor","bad"), MCSrR(0,"log","nojob")>>),
 MCSrP(2, {}, <<MCSrR(1,"tool","scheduler"), MCSrR(1,"tool","foreign"), MCSrR(0,"tool","scheduler"), MCSrR(1,"ctxid","nosend"), MCSrR(0,"ctxid","ok"), MCSrR(0,"log","empty"), MCSrR(0,"spawn","badapp"), MCSrR(0, "alloc", "ok"), MCSrR(0,"spawn","ok"), MCSrR(0, "monitor", "nosend")>>),
 MCSrP(1, {}, <<MCSrR(0,"monitor","ok"), MCSrR(0,"spawn","ok")>>)
>>
\* a relayed allocation whose slot is cleared twice (README)
MCSrTwice == << MCSrP(2, {}, <<MCSrR(1,"alloc","ok"), MCSrR(0,"spawn","ok")>>) >>

-----------------------------------------------------------------------------
(* Queries *)
MCQyQ0 == [id |-> 0, ns |-> 0, grp |-> "", host |-> -1, pset |-> "", sess |-> 0, alloc |-> "", keys |-> <<>>]
MCQyQs(qs) == [i \in DOMAIN qs |-> [qs[i] EXCEPT !.id = i]]
MCQyK(keys) == [MCQyQ0 EXCEPT !.keys = keys]
MCQyA(at, job, qs) == [at |-> at, job |-> job, qs |-> MCQyQs(qs), nosend |-> FALSE]
MCQyCap(a,b,u,s) == [slots |-> (0 :> a @@ 1 :> b), inuse |-> (0 :> 0 @@ 1 :> u), sess |-> s]
MCQyCaps == << MCQyCap(2,2,0,{}), MCQyCap(2,4,3,{[id |-> "s", nodes |-> {1}]}), MCQyCap(2,1,2,{}) >>
MCQyC1 == <<MCQyCaps[1]>>
MCQyC2 == SubSeq(MCQyCaps,1,2)
MCQyC3 == SubSeq(MCQyCaps,2,3)
MCQyP(hosts, sessions, caps, asks) == [n |-> 2, hosts |-> hosts, sessions |-> sessions, caps |-> caps,
   psets |-> (0 :> {"p"} @@ 1 :> {"p"}), groups |-> (0 :> {"g"} @@ 1 :> {}), asks |-> asks]
MCQyAll == <<"namespaces","namespace_info","spawn_support","debug_support","proc_uri","hwloc_xml","server_uri","proc_table","local_proc_table","num_psets","job_size","num_groups","allocation","alloc_ids","num_slots","available_slots","mem_alloc_kind","resolve_node">>
MCQyPlans == <<
  MCQyP(<< <<0,1>> >>, <<7>>, MCQyC2, << MCQyA(1,1,<<MCQyK(MCQyAll)>>) >>),
  MCQyP(<< <<1,1>> >>, <<7>>, MCQyC2, << MCQyA(1,1,<<MCQyK(<<"proc_table","available_slots">>)>>), MCQyA(1,0,<<MCQyK(<<"num_slots">>), [MCQyK(<<"hwloc_xml","allocation">>) EXCEPT !.alloc = "s"]>>) >>),
  MCQyP(<< <<0,1>> >>, <<7>>, MCQyC1, << MCQyA(1,1,<<MCQyK(<<"proc_table","hwloc_xml","server_uri">>)>>), MCQyA(0,1,<<[MCQyK(<<"proc_table","namespace_info","group_membership">>) EXCEPT !.sess = 7]>>) >>),
  MCQyP(<< <<1>>, <<0>> >>, <<7,8>>, MCQyC1, << MCQyA(1,1,<<[MCQyK(<<"proc_table", "resource_usage">>) EXCEPT !.ns = 2]>>), [MCQyA(1,1,<<MCQyK(<<"alloc_ids","hwloc_xml">>)>>) EXCEPT !.nosend = TRUE] >>),
  MCQyP(<< <<1>> >>, <<7>>, MCQyC3, << MCQyA(1,0,<<[MCQyK(<<"proc_table", "resolve_peers">>) EXCEPT !.host = 1]>>), MCQyA(0,0,<<[MCQyK(<<"group_membership","num_slots","server_uri", "resolve_peers">>) EXCEPT !.grp = "g", !.host = 1], [MCQyK(<<"alloc_properties">>) EXCEPT !.alloc = "s"]>>) >>),
  MCQyP(<< <<1>> >>, <<7>>, MCQyC1, << MCQyA(1,0,<<[MCQyK(<<"pset_membership","num_slots">>) EXCEPT !.pset = "p", !.host = 1], [MCQyK(<<"resolve_peers", "alloc_properties">>) EXCEPT !.host = 5, !.ns = -1]>>), MCQyA(0,0,<<[MCQyK(<<"num_slots">>) EXCEPT !.host=5], [MCQyK(<<"server_uri">>) EXCEPT !.host=5]>>) >>),
  MCQyP(<< <<1>> >>, <<7>>, MCQyC1, << MCQyA(1,0,<<[MCQyK(<<"num_slots">>) EXCEPT !.grp = "g"]>>), MCQyA(1,1,<<MCQyK(<<"local_proc_table","what", "num_slots">>)>>), MCQyA(0,1,<<MCQyK(<<"local_proc_table">>)>>), MCQyA(0,0,<<MCQyK(<<"pset_membership">>)>>) >>)
>>
\* a namespace asked for by session at a daemon (README)
MCQySess == << MCQyP(<< <<0,1>> >>, <<7>>, MCQyC1, << MCQyA(1,1,<<[MCQyK(<<"namespace_info">>) EXCEPT !.sess = 7]>>) >>) >>

-----------------------------------------------------------------------------
(* Connects, failures, events and job control *)
MCCnP(n, hosts, sets) == [n |-> n, hosts |-> hosts, parent |-> [j \in DOMAIN hosts |-> <<>>], sep |-> [j \in DOMAIN hosts |-> FALSE],
   tool |-> [j \in DOMAIN hosts |-> FALSE], sets |-> sets, dis |-> {}, deaths |-> <<>>, events |-> <<>>, left |-> {}, ctrl |-> <<>>, fate |-> TRUE]
MCCnDe(j,r,h) == [x |-> <<j,r>>, how |-> h]
MCCnBoth == [MCCnP(3, <<<<1>>,<<2>>>>, <<{<<1,-1>>,<<2,-1>>}>>) EXCEPT !.deaths = <<MCCnDe(1,1,"fail")>>]
MCCnPlans == <<
  [MCCnBoth EXCEPT !.dis = {1}, !.deaths = <<MCCnDe(2,1,"fail"), MCCnDe(1,1,"exit")>>],
  [MCCnBoth EXCEPT !.fate = FALSE],
  [MCCnP(2, <<<<1>>,<<1>>,<<0>>>>, <<>>) EXCEPT !.parent = <<<<>>, <<1,1>>, <<2,1>> >>, !.deaths = <<MCCnDe(3,1,"fail"), MCCnDe(2,1,"exit")>>],
  [MCCnP(2, <<<<1>>,<<1>>,<<0>>>>, <<>>) EXCEPT !.parent = <<<<>>, <<1,1>>, <<1,1>> >>, !.sep[2] = TRUE, !.tool[3] = TRUE, !.deaths = <<MCCnDe(1,1,"fail")>>],
  [MCCnP(2, <<<<1>>>>, <<>>) EXCEPT !.events = <<[at |-> 1, e |-> [what |-> "left", of |-> <<1,1>>, to |-> {}]], [at |-> 0, e |-> [what |-> "x", of |-> <<1,1>>, to |-> {}]] >>, !.left = {<<1,1>>,<<1,2>>},
    !.ctrl = <<[at |-> 0, kind |-> "kill", job |-> 1], [at |-> 1, kind |-> "pset", job |-> 1]>>]
>>
\* a process left behind by a failed job, and a cancel that is not reported (README)
MCCnBehind == <<MCCnBoth>>
MCCnCancel == << [MCCnP(2, <<<<1>>>>, <<>>) EXCEPT !.ctrl = <<[at |-> 1, kind |-> "kill", job |-> 1]>>] >>

-----------------------------------------------------------------------------
CONSTANT Parts
VARIABLE focus

servicesVars == <<focus, mp, dm, sr, qy, cn>>

ServicesInit ==
    /\ focus \in Parts
    /\ IF focus = "mp" THEN MpInit ELSE mp = MpStart(MCMpPl(0, MCMpTwo, <<MCMpJb(0, 1)>>))
    /\ DmInit /\ (focus = "dm" \/ dm.plan = DmPlans[1])
    /\ SrInit /\ (focus = "sr" \/ sr.plan = SrPlans[1])
    /\ QyInit /\ (focus = "qy" \/ qy.plan = QyPlans[1])
    /\ CnInit /\ (focus = "cn" \/ cn.plan = CnPlans[1])

ServicesNext ==
    \/ focus = "mp" /\ MpNext /\ UNCHANGED <<focus, dm, sr, qy, cn>>
    \/ focus = "dm" /\ DmNext /\ UNCHANGED <<focus, mp, sr, qy, cn>>
    \/ focus = "sr" /\ SrNext /\ UNCHANGED <<focus, mp, dm, qy, cn>>
    \/ focus = "qy" /\ QyNext /\ UNCHANGED <<focus, mp, dm, sr, cn>>
    \/ focus = "cn" /\ CnNext /\ UNCHANGED <<focus, mp, dm, sr, qy>>

\* Fair is what the event loops of the daemons run.
ServicesSpec ==
    /\ ServicesInit /\ [][ServicesNext]_servicesVars
    /\ WF_dm(focus = "dm" /\ DmNext)
    /\ WF_sr(focus = "sr" /\ SrNext)

\* Every request for modex data and every relayed request is answered once, and
\* no daemon keeps one.
ServicesSettle ==
    <>[](CASE focus = "dm" -> DmSettled
           [] focus = "sr" -> SrSettled
           [] OTHER -> TRUE)

=============================================================================

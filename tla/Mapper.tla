------------------------------- MODULE Mapper -------------------------------
(***************************************************************************)
(* Placing the processes of jobs on the nodes of the DVM, binding them to  *)
(* cpus, ranking them, and giving the slots and the cpus back: the rmaps   *)
(* framework (rmaps/base, round_robin, ppr, seq, rank_file) and the release *)
(* in state_dvm.c and state_base_fns.c.  Everything runs on the one        *)
(* progress thread of the DVM master, so mapping a job, ending a job and   *)
(* recovering a failed process are each one step.  A plan fixes the        *)
(* cluster and the jobs; the order of the steps is free.                   *)
(*                                                                         *)
(* A topology gives each level its objects, as sets of hardware threads.   *)
(* A node's process count and its slots in use move together, because no   *)
(* app is a tool here.                                                     *)
(***************************************************************************)
EXTENDS MapPolicy

CONSTANT MpPlans
\* [nodes |-> Seq([slots, max, given]), topo, devs, usable, head, owned, cpubind, base, jobs]

VARIABLE mp
\* [plan, node, cnt, job]: the node pool, the counters on the topology's objects, the jobs

MpNobody == <<0, 0>>
MpNoObj == [lvl |-> 0, cpus |-> {}]
MpUnranked == -1

MpCpus(p) == UNION {p.topo[PoNone][i] : i \in DOMAIN p.topo[PoNone]}

\* hwloc: the objects of a level inside a cpuset
MpInside(p, lvl, S) == SelectSeq(p.topo[lvl], LAMBDA c : c \subseteq S)
MpCpuObjs(w, S) == MpInside(w.plan, PoCpuLevel(w.o.hwt), S)
MpObj(p, lvl, i) == [lvl |-> lvl, cpus |-> p.topo[lvl][i]]
MpSpan(p, obj) == IF obj = MpNoObj THEN MpCpus(p) ELSE obj.cpus

MpIndices(seq) == [i \in DOMAIN seq |-> i]
MpLowest(S) == CHOOSE x \in S : \A y \in S : x <= y
MpApp(w) == w.J.apps[w.app]

---------------------------------------------------------------------------
(* Target nodes *)

MpHostCount(app, n) == Len(SelectSeq(app.hosts, LAMBDA h : h = n))
MpNoOver(J) == "noover" \in J.dir

\* the usable nodes the app's hosts leave
MpCandidates(w, app) ==
  SelectSeq(MpIndices(w.plan.nodes),
            LAMBDA n : n \in w.plan.usable /\ (app.hosts = <<>> \/ MpHostCount(app, n) > 0))

MpDropped(w, n, dir, keepall) ==
  LET nd == w.node[n]
  IN \/ n = 1 /\ (~w.plan.head \/ "nolocal" \in dir)
     \/ ~keepall /\ nd.max # 0 /\ nd.used >= nd.max
     \/ ~keepall /\ nd.slots <= nd.used /\ "noover" \in dir

\* the slots one node offers, a node the hosts ask more of being resized for this mapping
MpOffer(w, n, app, dir, keepall) ==
  LET nd == w.node[n]
      s == IF app.hosts = <<>> THEN nd.slots - nd.used ELSE MpHostCount(app, n)
      beyond == app.hosts # <<>> /\ s > nd.slots - nd.used /\ "noover" \in dir
      refuse == beyond /\ (w.plan.owned \/ (nd.max # 0 /\ nd.used + s > nd.max))
      cached == [w EXCEPT !.node[n].cache = nd.cpus]
  IN IF nd.slots > nd.used
     THEN IF refuse THEN [w EXCEPT !.rc = "silent"]
          ELSE [cached EXCEPT
                  !.node[n].avail = s,
                  !.node[n].slots = IF beyond THEN nd.used + s ELSE @,
                  !.node[n].given = @ \/ beyond,
                  !.resized[n] = IF beyond /\ @ = <<>> THEN <<nd.slots, nd.given>> ELSE @,
                  !.slots = @ + s, !.list = Append(@, n)]
     ELSE IF "noover" \notin dir
     THEN [cached EXCEPT !.node[n].avail = 0, !.list = Append(@, n)]
     ELSE IF keepall THEN [w EXCEPT !.list = Append(@, n)]
     ELSE w

MpStartingPoint(list, bookmark) ==
  IF \E i \in DOMAIN list : list[i] = bookmark
  THEN <<bookmark>> \o SelectSeq(list, LAMBDA n : n # bookmark) ELSE list

\* get_target_nodes
MpStartAt(found, silent) ==
  IF found.rc # "ok" THEN found
  ELSE IF found.list = <<>> THEN [found EXCEPT !.rc = IF silent THEN "busy" ELSE "silent"]
  ELSE [found EXCEPT !.list = MpStartingPoint(@, found.J.bookmark)]

MpTargetNodes(w, app, dir, silent, keepall) ==
  IF MpCandidates(w, app) = <<>> THEN [w EXCEPT !.rc = "silent"]
  ELSE MpStartAt(FoldLeft(LAMBDA acc, n :
                            IF acc.rc # "ok" \/ MpDropped(acc, n, dir, keepall) THEN acc
                            ELSE MpOffer(acc, n, app, dir, keepall),
                          [w EXCEPT !.list = <<>>, !.slots = 0], MpCandidates(w, app)), silent)

\* restore_resized, and the flags unset at the end of map_job
MpRestore(node, resized) ==
  [n \in DOMAIN node |->
     IF resized[n] = <<>> THEN node[n]
     ELSE [node[n] EXCEPT !.slots = resized[n][1], !.given = resized[n][2]]]

---------------------------------------------------------------------------
(* What a node can hold *)

\* get_cpuset; an app's list names cpus by number
MpListed(w, list) ==
  LET objs == w.plan.topo[PoCpuLevel(w.o.hwt)]
  IN UNION {objs[list[i] + 1] : i \in {k \in DOMAIN list : list[k] < Len(objs)}}

MpGetCpuset(w, n) ==
  [w EXCEPT !.o.jcpus = IF w.o.cpuset # <<>> THEN MpListed(w, w.o.cpuset) ELSE w.node[n].cpus]

MpFree(w, n, obj) == w.node[n].cpus \cap w.o.jcpus \cap MpSpan(w.plan, obj)

MpNcpus(w, n, obj) ==
  LET free == MpFree(w, n, obj)
  IN IF w.o.hwt THEN Cardinality(free) ELSE Len(MpInside(w.plan, PoCore, free))

MpAtMax(nd) == nd.max # 0 /\ nd.max <= nd.used
MpNoSlot(w, nd) == ~w.o.oversub /\ nd.slots <= nd.used

MpMark(w, n) ==
  IF \E i \in DOMAIN w.maps : w.maps[i] = n THEN w ELSE [w EXCEPT !.maps = Append(@, n)]

\* check_avail: .avail says whether, .o.nprocs how many.  fit processes find free cpus.
MpAvail(w, n, free, fit) ==
  LET nd == w.node[n]
      x == [w EXCEPT !.o.target = free]
  IN IF MpNoSlot(w, nd) THEN [w EXCEPT !.avail = FALSE]
     ELSE IF MpAtMax(nd)
     THEN [w EXCEPT !.avail = FALSE, !.list = SelectSeq(@, LAMBDA m : m # n)]
     ELSE IF w.o.bind = PoNone THEN [w EXCEPT !.avail = TRUE, !.o.target = w.o.jcpus]
     ELSE IF w.o.pprn > 0 THEN [x EXCEPT !.avail = w.o.pprn <= fit]
     ELSE IF w.o.nprocs <= fit \/ w.o.overload THEN [x EXCEPT !.avail = TRUE]
     ELSE [x EXCEPT !.avail = fit > 0, !.o.nprocs = IF fit > 0 THEN fit ELSE @]

MpMarkAvail(w, n) == IF w.avail THEN MpMark(w, n) ELSE w

MpCheckAvail(w, n, obj) ==
  MpMarkAvail(MpAvail(w, n, MpFree(w, n, obj), MpNcpus(w, n, obj) \div w.o.pes), n)

\* check_support
MpUnsupported(w) ==
  ~w.plan.cpubind /\ w.J.bind.pol # PoNone /\ w.J.bind.set /\ ~w.J.bind.ifsup

\* check_oversubscribed
MpOversubscribed(w, n) ==
  LET nd == w.node[n]
  IN IF ~w.o.oversub /\ nd.slots = nd.used THEN "next"
     ELSE IF nd.slots < nd.used /\ ~w.o.oversub /\ nd.given THEN "silent"
     ELSE "ok"

---------------------------------------------------------------------------
(* Binding *)

\* the outcome of binding: w after it, and the process's cpus
MpBound(w, cpus) == [rc |-> "ok", w |-> w, cpus |-> cpus]
MpUnbound(w) == MpBound(w, {})
MpBindFailed(w) == [rc |-> "silent", w |-> w, cpus |-> {}]

\* a binding that is only asked for where supported may be left undone
MpBindOrNot(w) == IF w.J.bind.ifsup THEN MpUnbound(w) ELSE MpBindFailed(w)

\* set_proc_cpuset
MpProcCpuset(w, n, cpus) ==
  LET kept == cpus \cap w.node[n].cache \cap (IF w.o.cpuset # <<>> THEN w.o.jcpus ELSE cpus)
  IN IF kept = {} THEN cpus ELSE kept

\* with every cpu taken and overloading allowed, the job starts over on its cpus
MpTake(w, n, cpus) ==
  LET left == w.node[n].cpus \ cpus
  IN [w EXCEPT !.node[n].cpus =
        IF left = {} /\ w.o.overload THEN w.node[n].cache ELSE left]

\* the cpu marked as used for a process bound to an object with these cpus free
MpMarkedCpu(w, free) ==
  LET in == MpCpuObjs(w, free)
      over == SelectSeq(w.plan.topo[PoCore], LAMBDA c : free \subseteq c)
  IN IF in # <<>> THEN in[1] ELSE IF ~w.o.hwt /\ over # <<>> THEN over[1] ELSE {}

\* an object is open when it has a cpu left and has not reached the limit
MpOpenObjs(w, n, base) ==
  LET objs == w.plan.topo[w.o.hwb]
  IN {i \in DOMAIN objs :
        /\ w.o.limit = 0 \/ w.cnt[w.o.hwb][i] < w.o.limit
        /\ LET free == w.node[n].cpus \cap objs[i] \cap base
           IN IF w.o.hwt \/ w.o.hwb = PoHwthread THEN free # {}
              ELSE MpInside(w.plan, PoCore, free) # <<>>}

MpLeastUsed(cnt) == MpLowest({i \in DOMAIN cnt : \A k \in DOMAIN cnt : cnt[i] <= cnt[k]})

MpBindToObj(w, n, base, i) ==
  LET obj == w.plan.topo[w.o.hwb][i]
  IN MpBound(MpTake([w EXCEPT !.cnt[w.o.hwb][i] = IF w.o.limit > 0 THEN @ + 1 ELSE @],
                    n, MpMarkedCpu(w, w.node[n].cpus \cap obj \cap base)),
             MpProcCpuset(w, n, obj))

MpOverloadObj(w, n, i) ==
  MpBound([w EXCEPT !.cnt[w.o.hwb][i] = @ + 1], MpProcCpuset(w, n, w.plan.topo[w.o.hwb][i]))

MpBindAmong(w, n, base, open) ==
  IF w.plan.topo[w.o.hwb] = <<>> THEN IF w.J.bind.set THEN MpBindFailed(w) ELSE MpUnbound(w)
  ELSE IF open # {} THEN MpBindToObj(w, n, base, MpLowest(open))
  ELSE IF w.o.overload THEN MpOverloadObj(w, n, MpLeastUsed(w.cnt[w.o.hwb]))
  ELSE MpBindOrNot(w)

MpBindOn(w, n, base) == MpBindAmong(w, n, base, MpOpenObjs(w, n, base))
MpBindGeneric(w, n, obj) == MpBindOn(w, n, w.o.target \cap MpSpan(w.plan, obj))

\* bind_to_cpuset: each process takes the next entry off the list
MpBindToCpuset(w, n) ==
  LET objs == w.plan.topo[PoCpuLevel(w.o.hwt)]
      none == w.o.cpuset = <<>>
      idx == IF none THEN 1 ELSE w.o.cpuset[1] + 1
      set == IF w.o.ordered THEN objs[idx]
             ELSE IF w.o.overload /\ w.o.target = {} THEN w.o.jcpus ELSE w.o.target
      in == \E i \in DOMAIN w.plan.topo[PoPackage] : set \subseteq w.plan.topo[PoPackage][i]
  IN IF none /\ (w.o.ordered \/ ~w.o.overload) THEN MpBindFailed(w)
     ELSE IF w.o.ordered /\ idx \notin DOMAIN objs THEN MpBindFailed(w)
     ELSE IF ~in THEN MpBindFailed(w)
     ELSE IF none THEN MpBound(w, set)
     ELSE MpBound([w EXCEPT !.o.cpuset = Tail(@),
                            !.node[n].cpus = IF idx \in DOMAIN objs THEN @ \ objs[idx] ELSE @],
                  set)

\* bind_multiple: cpus_per_rank cpus, of one package when no object was asked for
MpOnePackage(w, base) ==
  LET pkgs == SelectSeq(w.plan.topo[PoPackage],
                        LAMBDA c : Len(MpCpuObjs(w, base \cap c)) >= w.o.pes)
  IN IF pkgs = <<>> THEN {} ELSE base \cap pkgs[1]

MpBindCpus(w, n, from) ==
  LET got == UNION {from[i] : i \in {k \in DOMAIN from : k <= w.o.pes}}
  IN IF from = <<>> THEN MpBindFailed(w)
     ELSE MpBound([w EXCEPT !.node[n].cpus = @ \ got, !.o.target = @ \ got], got)

MpBindMultiple(w, n, obj) ==
  LET base == w.o.target \cap MpSpan(w.plan, obj) \cap w.node[n].cpus
  IN MpBindCpus(w, n, MpCpuObjs(w, IF obj = MpNoObj THEN MpOnePackage(w, base) ELSE base))

MpBindProc(w, n, obj) ==
  IF w.o.map = PoByuser THEN MpUnbound(w)
  ELSE IF w.o.bind = PoNone
  THEN IF w.o.cpuset = <<>> THEN MpUnbound(w) ELSE MpBindToCpuset(w, n)
  ELSE IF ~w.J.bind.set /\ w.plan.topo[PoCore] = <<>> THEN MpUnbound(w)
  ELSE IF w.o.map = PoPelist THEN MpBindToCpuset(w, n)
  ELSE IF w.o.pes > 1 THEN MpBindMultiple(w, n, obj)
  ELSE MpBindGeneric(w, n, obj)

\* setup_proc: .null when it returns none.  The process goes to the lowest free place in
\* the node's array.  over remembers a binding made with overloading allowed.
MpNewProc(w, v, n, obj, cpus, place) ==
  [app |-> w.app, node |-> n, nrank |-> place - 1, rank |-> MpUnranked, obj |-> obj,
   cpus |-> cpus, took |-> w.node[n].cpus \ v.node[n].cpus, over |-> w.o.overload,
   lrank |-> MpUnranked, arank |-> MpUnranked, up |-> TRUE]

MpInPlace(procs, place, name) ==
  IF place > Len(procs) THEN Append(procs, name) ELSE [procs EXCEPT ![place] = name]

MpAddProc(w, b, n, obj, place) ==
  [b.w EXCEPT !.null = FALSE, !.procs = Append(@, MpNewProc(w, b.w, n, obj, b.cpus, place)),
     !.node[n].procs = MpInPlace(@, place, <<w.j, Len(w.procs) + 1>>),
     !.node[n].used = @ + 1, !.node[n].avail = IF @ > 0 THEN @ - 1 ELSE @]

MpFreePlace(procs) == MpLowest({i \in 1 .. Len(procs) + 1 : i > Len(procs) \/ procs[i] = MpNobody})

MpSetUp(w, b, n, obj) ==
  IF b.rc # "ok" THEN [b.w EXCEPT !.null = TRUE]
  ELSE MpAddProc(w, b, n, obj, MpFreePlace(w.node[n].procs))

MpSetupProc(w, n, obj) == MpSetUp(w, MpBindProc(w, n, obj), n, obj)

---------------------------------------------------------------------------
(* The round-robin mappers *)

MpUnbind(w) == [w EXCEPT !.o.bind = PoNone, !.J.bind = [PoNoBinding EXCEPT !.pol = PoNone]]
MpFail(w) == [w EXCEPT !.halt = "fail"]
MpWithout(w, n) == [w EXCEPT !.list = SelectSeq(@, LAMBDA m : m # n)]

\* too few slots: an error, or a reason not to bind
MpShort(w) ==
  IF w.slots >= MpApp(w).np THEN w
  ELSE IF ~w.o.oversub THEN MpFail(w)
  ELSE IF ~w.J.bind.set THEN MpUnbind(w) ELSE w

\* up to k processes on one node
RECURSIVE MpPlace(_, _, _, _)
MpPlaceMore(w, n, obj, k) ==
  IF w.null THEN w
  ELSE LET x == [w EXCEPT !.mapped = @ + 1, !.placed = @ + 1]
       IN CASE MpOversubscribed(w, n) = "ok" -> MpPlace(x, n, obj, k - 1)
            [] MpOversubscribed(w, n) = "next" -> x
            [] OTHER -> MpFail(x)
MpPlace(w, n, obj, k) ==
  IF k <= 0 \/ w.mapped = MpApp(w).np THEN w
  ELSE MpPlaceMore(MpSetupProc(w, n, obj), n, obj, k)

\* what a node is asked to take, and the counters of a second pass
MpShare(w, n, how) ==
  IF how = "node" \/ w.second THEN w.extra
  ELSE IF how = "cpu" /\ (w.o.ordered \/ ~w.o.overload) THEN Len(w.o.cpuset)
  ELSE w.node[n].avail

MpDrawExtra(w) ==
  IF w.nxtra = 0 THEN w
  ELSE [w EXCEPT !.nxtra = @ - 1, !.extra = IF w.nxtra = 1 THEN @ - 1 ELSE @]

MpSpread(w) ==
  LET rem == MpApp(w).np - w.mapped
      n == Len(w.list)
  IN [w EXCEPT !.nxtra = rem % n, !.extra = (rem \div n) + (IF rem % n > 0 THEN 1 ELSE 0)]

\* cap_at_max_slots
MpCapAtMax(nd, k) == IF nd.max # 0 /\ nd.max - nd.used < k THEN nd.max - nd.used ELSE k

MpMoreThanCpus(w, n, k, cpus) ==
  cpus > MpNcpus(w, n, MpNoObj) /\ k <= w.node[n].avail /\ ~w.J.bind.set

\* one node of a pass by slot, by node or by the cpu list
MpAsk(w, n, k) ==
  [(IF MpMoreThanCpus(w, n, k, k) THEN MpUnbind(w) ELSE w) EXCEPT !.o.nprocs = k, !.null = FALSE]

MpFill(w, n) ==
  IF w.avail THEN MpPlace(w, n, MpNoObj, MpCapAtMax(w.node[n], w.o.nprocs)) ELSE w

MpVisited(w, how, save, listed) ==
  IF w.halt # "" THEN w
  ELSE IF ~w.avail THEN [w EXCEPT !.o.bind = save]
  ELSE IF how = "cpu" /\ w.null THEN MpFail(w)
  ELSE [w EXCEPT !.halt = IF w.mapped = MpApp(w).np THEN "done" ELSE "",
                 !.o.cpuset = IF how = "cpu" THEN listed ELSE @,
                 !.o.bind = IF how = "cpu" \/ w.mapped = MpApp(w).np THEN @ ELSE save]

MpVisit(w, n, how, save, listed) ==
  LET share == MpShare(w, n, how)
      k == IF ~w.o.oversub /\ w.node[n].avail < share THEN w.node[n].avail ELSE share
      d == IF w.second /\ how # "node" THEN MpDrawExtra(w) ELSE w
  IN IF how = "slot" /\ ~w.second /\ MpUnsupported(w) THEN MpFail(w)
     ELSE MpVisited(MpFill(MpCheckAvail(MpAsk(MpGetCpuset(d, n), n, k), n, MpNoObj), n),
                    how, save, listed)

\* passes over the nodes until every process is placed or a pass places none
MpAverage(w) ==
  LET avg == (MpApp(w).np - w.mapped) \div Len(w.list)
  IN [w EXCEPT !.extra = IF avg = 0 THEN 1 ELSE avg]

RECURSIVE MpPasses(_, _, _, _)
MpPassed(w, how, save, listed) ==
  IF w.halt # "" THEN w
  ELSE IF w.list = <<>> \/ (w.second /\ w.placed = 0) \/ (how = "cpu" /\ ~w.o.oversub)
  THEN MpFail(w)
  ELSE MpPasses([MpSpread(w) EXCEPT !.second = TRUE], how, save, listed)
MpPasses(w, how, save, listed) ==
  MpPassed(FoldLeft(LAMBDA acc, n : IF acc.halt # "" THEN acc
                                    ELSE MpVisit(acc, n, how, save, listed),
                    [(IF how = "node" THEN MpAverage(w) ELSE w) EXCEPT !.placed = 0], w.list),
           how, save, listed)

MpCounted(w, how) == IF w.halt # "" THEN w ELSE MpPasses(w, how, w.o.bind, w.o.cpuset)
MpByCount(w, how) == MpCounted(MpShort(w), how)

---------------------------------------------------------------------------
(* Mapping by object or by device *)

\* the devices a request names: all of its class, or the one it names
MpDevices(w) ==
  IF w.o.dev = "one" THEN SelectSeq(MpIndices(w.plan.devs), LAMBDA i : i = 1)
  ELSE MpIndices(w.plan.devs)

\* the smallest object that covers some cpus: the common ancestor of localities
MpCovers(p, S) ==
  UNION {{[lvl |-> l, cpus |-> p.topo[l][i]] : i \in {k \in DOMAIN p.topo[l] : S \subseteq p.topo[l][k]}} :
           l \in DOMAIN p.topo}
MpSmallest(objs) ==
  CHOOSE x \in objs : \A y \in objs : \/ Cardinality(x.cpus) < Cardinality(y.cpus)
                                     \/ (x.cpus = y.cpus /\ x.lvl <= y.lvl)
MpCover(p, S) == MpSmallest(MpCovers(p, S))

\* interleave_devices: one of each locality group in turn
MpDevKey(w, d) ==
  {i \in DOMAIN w.plan.topo[w.o.interleave] :
     w.plan.devs[d].cpus \subseteq w.plan.topo[w.o.interleave][i]}
MpDealt(devs, key) ==
  LET nth(i) == Cardinality({k \in 1 .. i : key[k] = key[i]})
      first(i) == MpLowest({k \in DOMAIN key : key[k] = key[i]})
      order == SortSeq(MpIndices(devs), LAMBDA a, b :
                         nth(a) < nth(b) \/ (nth(a) = nth(b) /\ first(a) < first(b)))
  IN [i \in DOMAIN devs |-> devs[order[i]]]
MpInterleaved(w, devs) ==
  IF w.o.interleave = 0 THEN devs ELSE MpDealt(devs, [i \in DOMAIN devs |-> MpDevKey(w, devs[i])])

MpPerGroup(w) == IF w.o.ndev = 0 THEN 1 ELSE w.o.ndev

\* binding_fits: an object that strictly contains the group's locality would bind above it
MpFits(w, loc) ==
  w.o.bind = PoNone
    \/ \A i \in DOMAIN w.plan.topo[w.o.hwb] :
         ~(loc.cpus \subseteq w.plan.topo[w.o.hwb][i] /\ loc.cpus # w.plan.topo[w.o.hwb][i])

\* devices_begin, count and locale
MpGroups(w, devs, per) ==
  [g \in 1 .. Len(devs) \div per |->
     MpCover(w.plan, UNION {w.plan.devs[devs[i]].cpus : i \in (g - 1) * per + 1 .. g * per})]
MpGroupsFit(w, devs, groups) ==
  [rc |-> IF /\ \A i \in DOMAIN devs : w.plan.devs[devs[i]].named
             /\ \A g \in DOMAIN groups : MpFits(w, groups[g]) THEN "ok" ELSE "silent",
   objs |-> groups]
MpDeviceTargets(w, devs) == MpGroupsFit(w, devs, MpGroups(w, devs, MpPerGroup(w)))

MpTargets(w, bydev) ==
  IF bydev THEN MpDeviceTargets(w, MpInterleaved(w, MpDevices(w)))
  ELSE [rc |-> "ok", objs |-> [i \in DOMAIN w.plan.topo[w.o.lvl] |-> MpObj(w.plan, w.o.lvl, i)]]

\* The objects of one node from the i-th on, a process on each that has room.  at holds the
\* node, its objects, where to start, how many processes it may take and whether an object
\* may be used again.
RECURSIVE MpObjects(_, _, _)
MpPlacedOn(w, at, i, j) ==
  LET p == [w EXCEPT !.mapped = @ + 1, !.placed = @ + 1,
                     !.cursor[at.n] = IF at.nowrap THEN j + 1 ELSE @ + 1]
  IN IF w.null THEN MpFail(w)
     ELSE CASE MpOversubscribed(w, at.n) = "ok" -> MpObjects([p EXCEPT !.allfull = FALSE], at, i + 1)
            [] MpOversubscribed(w, at.n) = "next" -> [MpWithout(p, at.n) EXCEPT !.nodefull = TRUE]
            [] OTHER -> MpFail(p)
MpPlaceOn(w, at, i, j) ==
  IF ~w.avail THEN [w EXCEPT !.nodefull = TRUE]
  ELSE MpPlacedOn(MpSetupProc(w, at.n, at.objs[j + 1]), at, i, j)
MpObject(w, at, i, j) ==
  IF w.o.bind # PoNone /\ MpNcpus(w, at.n, at.objs[j + 1]) < w.o.pes /\ ~w.o.overload
  THEN MpObjects([w EXCEPT !.outofcpus = TRUE,
                           !.cursor[at.n] = IF at.nowrap THEN j + 1 ELSE @], at, i + 1)
  ELSE MpPlaceOn(MpCheckAvail([w EXCEPT !.o.nprocs = 1], at.n, at.objs[j + 1]), at, i, j)
MpObjects(w, at, i) ==
  IF i = Len(at.objs) \/ w.mapped = MpApp(w).np \/ (at.nowrap /\ at.start + i >= Len(at.objs))
  THEN w
  ELSE IF w.placed >= at.budget THEN [w EXCEPT !.nodefull = TRUE]
  ELSE MpObject(w, at, i, IF at.nowrap THEN at.start + i ELSE (at.start + i) % Len(at.objs))

\* redo: round the objects again while the node has room
RECURSIVE MpRounds(_, _)
MpAgain(w, at) ==
  IF /\ w.halt = "" /\ w.mapped < MpApp(w).np
     /\ ~w.allfull /\ ~w.nodefull /\ ~w.outofcpus /\ ~w.o.span /\ ~at.nowrap
  THEN MpRounds(w, at) ELSE w
MpRounds(w, at) == MpAgain(MpObjects(w, at, 0), at)

\* one node: with SPAN one process at a time and the objects in turn, otherwise its slots,
\* or its share of what is left over
MpInterleaves(w, nowrap) == w.o.span /\ ~nowrap
MpAt(w, n, objs, nowrap) ==
  [n |-> n, objs |-> objs, nowrap |-> nowrap,
   budget |-> IF MpInterleaves(w, nowrap) THEN IF w.o.oversub \/ w.node[n].avail > 0 THEN 1 ELSE 0
              ELSE IF w.first \/ ~w.o.oversub THEN w.node[n].avail ELSE w.extra,
   start |-> IF MpInterleaves(w, nowrap) THEN w.cursor[n] % Len(objs)
             ELSE IF nowrap THEN w.cursor[n] ELSE 0]
MpOnTargets(w, n, t, nowrap) ==
  IF t.rc # "ok" \/ t.objs = <<>> THEN MpFail(w)
  ELSE MpRounds(IF MpInterleaves(w, nowrap) \/ w.first \/ ~w.o.oversub THEN w ELSE MpDrawExtra(w),
                MpAt(w, n, t.objs, nowrap))
MpTargetNode(w, n, bydev, nowrap) ==
  IF MpUnsupported(w) THEN MpFail(w)
  ELSE MpOnTargets([MpGetCpuset(w, n) EXCEPT !.outofcpus = FALSE, !.nodefull = FALSE, !.placed = 0],
                   n, MpTargets(w, bydev), nowrap)

\* map_targets
RECURSIVE MpTargetPasses(_, _, _)
MpTargetPassed(w, bydev, nowrap) ==
  IF w.halt # "" THEN w
  ELSE IF w.mapped = MpApp(w).np THEN [w EXCEPT !.halt = "done"]
  ELSE IF ~w.allfull \/ (w.o.oversub /\ w.first)
  THEN MpTargetPasses([w EXCEPT !.first = FALSE], bydev, nowrap)
  ELSE MpFail(w)
MpTargetPass(w, bydev, nowrap) ==
  MpTargetPassed(FoldLeft(LAMBDA acc, n : IF acc.halt # "" THEN acc
                                          ELSE MpTargetNode(acc, n, bydev, nowrap), w, w.list),
                 bydev, nowrap)
MpTargetPasses(w, bydev, nowrap) ==
  LET spread == ~w.first /\ w.o.oversub /\ ~MpInterleaves(w, nowrap)
  IN IF spread /\ w.list = <<>> THEN MpFail(w)
     ELSE MpTargetPass([(IF spread THEN MpSpread(w) ELSE w) EXCEPT !.allfull = TRUE], bydev, nowrap)

MpTargeted(w, bydev, nowrap) == IF w.halt # "" THEN w ELSE MpTargetPasses(w, bydev, nowrap)

\* rr_bydevice: a device is given to one process, unless shared or asked for by name
MpShared(w) == w.o.shared \/ w.o.dev = "one"
MpTooFewDevices(w) ==
  LET total == Len(w.list) * (Len(MpDevices(w)) \div MpPerGroup(w))
  IN w.o.dev = "" \/ (~MpShared(w) /\ 0 < total /\ total < MpApp(w).np)

MpByTarget(w) ==
  IF w.o.map = PoBydevice /\ MpTooFewDevices(w) THEN MpFail(w)
  ELSE MpTargeted(MpShort(w), w.o.map = PoBydevice, w.o.map = PoBydevice /\ ~MpShared(w))

---------------------------------------------------------------------------
(* Ranking *)

\* the unranked processes of an app on a node, as they lie in the node's array
MpUnrankedOn(w, n, a) ==
  LET names == SelectSeq(w.node[n].procs,
                 LAMBDA x : x[1] = w.j /\ w.procs[x[2]].app = a /\ w.procs[x[2]].rank = MpUnranked)
  IN [i \in DOMAIN names |-> names[i][2]]

MpConcat(parts) == FoldLeft(LAMBDA acc, part : acc \o part, <<>>, parts)

\* one from each list per round, to the end
MpDeal(lists) ==
  LET longest == FoldLeft(LAMBDA m, l : IF Len(l) > m THEN Len(l) ELSE m, 0, lists)
      round(r) == MpConcat([i \in DOMAIN lists |->
                     IF r <= Len(lists[i]) THEN <<lists[i][r]>> ELSE <<>>])
  IN MpConcat([r \in 1 .. longest |-> round(r)])

\* the processes of an app in rank order
MpOrder(w, a) ==
  LET on(i) == MpUnrankedOn(w, w.maps[i], a)
      objs == w.plan.topo[w.o.lvl]
      at(i, k) == SelectSeq(on(i), LAMBDA x : w.procs[x].obj = MpObj(w.plan, w.o.lvl, k))
      byobj == MpConcat([i \in DOMAIN w.maps |-> [k \in DOMAIN objs |-> at(i, k)]])
  IN CASE w.o.rank = PoRankSlot -> MpConcat([i \in DOMAIN w.maps |-> on(i)])
       [] w.o.rank = PoRankNode -> MpDeal([i \in DOMAIN w.maps |-> on(i)])
       [] w.o.rank = PoRankFill -> MpConcat(byobj)
       [] w.o.rank = PoRankSpan -> MpDeal(byobj)

\* compute_local_rank and compute_app_rank
MpLocalRanks(w) ==
  LET place(k) == w.procs[k].nrank
      before(x, k) == /\ w.procs[x].node = w.procs[k].node
                      /\ \/ w.procs[x].app < w.procs[k].app
                         \/ w.procs[x].app = w.procs[k].app /\ place(x) < place(k)
      lower(x, k) == /\ w.procs[x].app = w.procs[k].app
                     /\ 0 <= w.procs[x].rank /\ w.procs[x].rank < w.procs[k].rank
  IN [w EXCEPT !.procs = [k \in DOMAIN @ |->
        [@[k] EXCEPT !.lrank = Cardinality({x \in DOMAIN w.procs : before(x, k)}),
                     !.arank = IF w.procs[k].rank = MpUnranked THEN @
                               ELSE Cardinality({x \in DOMAIN w.procs : lower(x, k)})]]]

\* (altered) each app ranked from the start
MpRankFromZero(w, order) ==
  [w EXCEPT !.next = @ + Len(order),
     !.procs = [k \in DOMAIN @ |->
       LET at == {i \in DOMAIN order : order[i] = k}
       IN IF at = {} THEN @[k] ELSE [@[k] EXCEPT !.rank = MpLowest(at) - 1]]]

\* compute_vpids
MpRankAs(w, order) ==
  [w EXCEPT !.next = @ + Len(order),
     !.procs = [k \in DOMAIN @ |->
       LET at == {i \in DOMAIN order : order[i] = k}
       IN IF at = {} THEN @[k] ELSE [@[k] EXCEPT !.rank = w.next + MpLowest(at) - 1]]]

MpRankApps(w, apps) == MpRankAs(w, MpConcat([i \in DOMAIN apps |-> MpOrder(w, apps[i])]))

MpComputeVpids(w, apps) ==
  IF w.rc # "ok" THEN w
  ELSE IF ~w.o.userranked /\ (\/ w.o.rank \notin PoRankNode .. PoRankSpan
                              \/ w.o.rank \in {PoRankFill, PoRankSpan} /\ w.plan.topo[w.o.lvl] = <<>>)
  THEN [w EXCEPT !.rc = "silent"]
  ELSE MpLocalRanks(IF ~w.o.userranked THEN MpRankApps(w, apps)
                    ELSE [w EXCEPT !.next = @ + FoldLeft(LAMBDA n, a : n + w.J.apps[a].np, 0, apps)])

---------------------------------------------------------------------------
(* The mapper modules, each over the apps of the job or over the one in the options *)

MpApps(w) == IF w.o.app = 0 THEN MpIndices(w.J.apps) ELSE <<w.o.app>>

MpFresh(w, a) ==
  [w EXCEPT !.app = a, !.mapped = 0, !.placed = 0, !.extra = 0, !.nxtra = 0, !.second = FALSE,
            !.first = TRUE, !.halt = "", !.null = FALSE, !.cursor = [n \in DOMAIN @ |-> 0]]

MpFinish(w) ==
  IF w.halt = "done" THEN [w EXCEPT !.total = @ + MpApp(w).np] ELSE [w EXCEPT !.rc = "silent"]

\* ranks are computed here for a whole job, by map_job for one app
MpRanked(w) == IF w.o.app = 0 THEN MpComputeVpids(w, MpApps(w)) ELSE w

MpTargetsOf(w, a, dir, keepall) == MpTargetNodes(MpFresh(w, a), w.J.apps[a], dir, FALSE, keepall)

MpRrMap(w) ==
  IF w.rc # "ok" THEN w
  ELSE MpFinish(IF w.o.map \in {PoBynode, PoByslot, PoPelist}
                THEN MpByCount(w, CASE w.o.map = PoBynode -> "node"
                                    [] w.o.map = PoByslot -> "slot"
                                    [] w.o.map = PoPelist -> "cpu")
                ELSE MpByTarget(w))

MpRrApp(w, a) == IF w.rc # "ok" THEN w ELSE MpRrMap(MpTargetsOf(w, a, w.J.dir, FALSE))

MpRoundRobin(w) == MpRanked(FoldLeft(MpRrApp, w, MpApps(w)))

\* processes per resource: the policy of the level.  The ranking is already set.
MpPprPolicy(w) ==
  LET map == IF w.o.lvl = PoNone THEN PoBynode ELSE PoMapOf(w.o.lvl)
  IN [w EXCEPT !.o.map = map, !.J.map = IF w.o.app = 0 THEN map ELSE @]

\* one node, whole or object by object
MpUnlessNull(w) == IF w.null THEN MpFail(w) ELSE w
MpPprUp(w, n, obj) == IF ~w.avail THEN w ELSE MpUnlessNull(MpPlace(w, n, obj, w.o.pprn))
MpPprObj(w, n, obj) ==
  IF w.halt # "" \/ w.mapped = MpApp(w).np THEN w
  ELSE MpPprUp(MpCheckAvail([w EXCEPT !.null = FALSE], n, obj), n, obj)
MpRebind(w, save) == IF w.halt # "" THEN w ELSE [w EXCEPT !.o.bind = save]
MpPprObjs(w, n, objs, save) ==
  MpRebind(FoldLeft(LAMBDA v, obj : MpPprObj(v, n, obj), w, objs), save)
MpPprOn(w, n, objs, k, save) ==
  IF objs = <<>> THEN MpFail(w)
  ELSE IF k > w.node[n].avail /\ ~w.o.oversub THEN w
  ELSE MpPprObjs([(IF MpMoreThanCpus(w, n, k, k * w.o.pes) THEN MpUnbind(w) ELSE w)
                    EXCEPT !.o.nprocs = k], n, objs, save)
MpPprTargets(w, n, objs, save) == MpPprOn(w, n, objs, w.o.pprn * Len(objs), save)
MpPprNode(w, n, save) ==
  IF w.halt # "" \/ w.mapped = MpApp(w).np THEN w
  ELSE IF MpUnsupported(w) THEN MpFail(w)
  ELSE MpPprTargets(MpGetCpuset(w, n), n,
                    IF w.o.lvl = PoNone THEN <<MpNoObj>> ELSE MpTargets(w, FALSE).objs, save)

MpPprEnd(w) == IF w.halt = "" /\ w.mapped = MpApp(w).np THEN [w EXCEPT !.halt = "done"] ELSE MpFail(w)
MpPprMap(w, save) ==
  MpFinish(IF w.halt # "" THEN w
           ELSE MpPprEnd(FoldLeft(LAMBDA acc, n : MpPprNode(acc, n, save), w, w.list)))
MpPprCounted(w) ==
  LET each == IF w.o.lvl = PoNone THEN 1 ELSE Len(w.plan.topo[w.o.lvl])
  IN [w EXCEPT !.J.apps[w.app].np = IF @ = 0 THEN w.o.pprn * each * Len(w.list) ELSE @]
MpPprFilled(w) == IF w.rc # "ok" THEN w ELSE MpPprMap(MpShort(MpPprCounted(w)), w.o.bind)

MpPprApp(w, a) == IF w.rc # "ok" THEN w ELSE MpPprFilled(MpTargetsOf(w, a, w.J.dir, FALSE))

MpPpr(w) ==
  LET given == w.J.ppr # <<>> \/ (w.o.app # 0 /\ w.J.apps[w.o.app].ppr # <<>>)
  IN IF ~given \/ PoMustMapByObj(MpPprPolicy(w).o) THEN [w EXCEPT !.rc = "silent"]
     ELSE MpRanked(FoldLeft(MpPprApp, MpPprPolicy(w), MpApps(w)))

\* the list an app is mapped along: its file, its hosts, or the default hostfile
MpSeqList(w, a) ==
  LET app == w.J.apps[a]
      file == IF app.file # <<>> THEN app.file ELSE w.J.file
      raw == IF file # <<>> THEN file
             ELSE IF app.hosts # <<>>
             THEN [i \in DOMAIN app.hosts |-> [node |-> app.hosts[i], cpus |-> <<>>]]
             ELSE w.plan.hostfile
  IN [list |-> SelectSeq(raw, LAMBDA e : "nolocal" \in w.J.dir => e.node # 1),
      default |-> file = <<>> /\ app.hosts = <<>>]

\* hwloc_base_cpu_list_parse
MpParses(w, list) ==
  \A i \in DOMAIN list : list[i] < Len(w.plan.topo[PoCpuLevel(w.o.hwt)])

\* a list of cpus given for one process, the last set up
MpAssign(w, n, list) ==
  LET k == Len(w.procs)
      bits == MpListed(w, list)
  IN [w EXCEPT !.procs[k].cpus = bits, !.procs[k].took = bits \cap w.node[n].cpus,
               !.node[n].cpus = @ \ bits]

MpAvailable(w, n, list) == w.o.overload \/ MpListed(w, list) \subseteq w.node[n].cpus

\* one entry after the other, those with no room being passed over
RECURSIVE MpSeqFrom(_, _, _)
MpSeqNext(w, list, i) == IF w.last = "silent" THEN MpFail(w) ELSE MpSeqFrom(w, list, i + 1)
MpSeqRank(w) ==
  [w EXCEPT !.procs[Len(w.procs)].rank = w.vpid, !.vpid = @ + 1, !.mapped = @ + 1]
\* bind_to_entry; bound is the binding the job asked for, set aside while it was set up
MpBindToEntry(w, e, o) ==
  IF w.null \/ ~(MpParses(w, e.cpus) /\ MpAvailable(w, e.node, e.cpus)) THEN MpFail(w)
  ELSE [MpAssign(w, e.node, e.cpus) EXCEPT !.o.bind = o.bind, !.o.cpuset = o.cpuset]
MpSeqSet(w, e) ==
  IF e.cpus = <<>> THEN MpUnlessNull(MpSetupProc(w, e.node, MpNoObj))
  ELSE MpBindToEntry(MpSetupProc([w EXCEPT !.o.bind = PoNone, !.o.cpuset = <<>>], e.node, MpNoObj),
                     e, w.o)
MpSeqPlaced(w, list, i) ==
  IF w.halt # "" THEN w
  ELSE MpSeqNext(MpSeqRank([w EXCEPT !.last = MpOversubscribed(w, list[i].node)]), list, i)
MpSeqTry(w, list, i) ==
  IF ~w.avail THEN MpSeqFrom(w, list, i + 1) ELSE MpSeqPlaced(MpSeqSet(w, list[i]), list, i)
MpSeqFrom(w, list, i) ==
  IF w.mapped = MpApp(w).np THEN [w EXCEPT !.halt = "done", !.save = i]
  ELSE IF i > Len(list) \/ list[i].node \notin DOMAIN w.node THEN MpFail(w)
  ELSE MpSeqTry(MpCheckAvail(MpGetCpuset(w, list[i].node), list[i].node, MpNoObj), list, i)

MpSeqAlong(w, src, save) ==
  MpFinish(IF src.list = <<>> \/ Len(src.list) < MpApp(w).np THEN MpFail(w)
           ELSE MpSeqFrom(w, src.list, IF src.default THEN save ELSE 1))
MpSeqCounted(w, a, src) ==
  MpSeqAlong([MpFresh(w, a) EXCEPT !.J.apps[a].np = IF @ = 0 THEN Len(src.list) ELSE @], src, w.save)
MpSeqApp(w, a) == IF w.rc # "ok" THEN w ELSE MpSeqCounted(w, a, MpSeqList(w, a))

\* for one app the answer is that of the last oversubscription check
MpSeqResult(w) == IF w.rc = "ok" /\ w.last # "ok" THEN [w EXCEPT !.rc = "silent"] ELSE w

MpSeqEnd(w) == IF w.o.app = 0 THEN MpRanked(w) ELSE MpSeqResult(w)
MpSeq(w) == MpSeqEnd(FoldLeft(MpSeqApp, w, MpApps(w)))

\* the node of a rank the file leaves out: the first with a slot, or the least used
MpRfDefault(w) ==
  LET room == SelectSeq(w.list, LAMBDA n : w.node[n].slots > w.node[n].used)
      least == SelectSeq(w.list, LAMBDA n : \A i \in DOMAIN w.list :
                                   w.node[n].used <= w.node[w.list[i]].used)
  IN IF room # <<>> THEN room[1] ELSE least[1]

MpListedNode(w, n) == \E i \in DOMAIN w.list : w.list[i] = n

\* the ranks of an app from the k-th on.  The cpus are noted before they are found taken.
RECURSIVE MpRfFrom(_, _, _, _)
MpRfNote(w, cpus) == [w EXCEPT !.procs[Len(w.procs)].cpus = MpListed(w, cpus)]
MpRfBind(w, n, cpus) ==
  IF w.halt # "" \/ cpus = <<>> \/ ~(w.J.bind.pol # PoNone \/ w.o.overload) THEN w
  ELSE IF ~MpParses(w, cpus) THEN MpFail(w)
  ELSE IF ~MpAvailable(w, n, cpus) THEN MpFail(MpRfNote(w, cpus))
  ELSE MpAssign(w, n, cpus)
MpRfRank(w, n) ==
  IF w.null \/ MpOversubscribed(w, n) = "silent" THEN MpFail(w) ELSE MpSeqRank(w)
MpRfSet(w, n) == IF ~w.avail THEN MpFail(w) ELSE MpRfRank(MpSetupProc(w, n, MpNoObj), n)
MpRfNext(w, file, at, k) == IF w.halt # "" THEN w ELSE MpRfFrom(w, file, at, k + 1)
MpRfOn(w, file, at, k, n, cpus) ==
  IF ~MpListedNode(w, n) \/ MpUnsupported(w) THEN MpFail(w)
  ELSE MpRfNext(MpRfBind(MpRfSet(MpCheckAvail(MpGetCpuset(w, n), n, MpNoObj), n), n, cpus),
                file, at, k)
MpRfFrom(w, file, at, k) ==
  LET missing == at + k > Len(file) \/ file[at + k].node = 0
  IN IF k > MpApp(w).np THEN [w EXCEPT !.halt = "done"]
     ELSE IF missing /\ (w.o.cpuset = <<>> \/ w.list = <<>>) THEN MpFail(w)
     ELSE MpRfOn(w, file, at, k, IF missing THEN MpRfDefault(w) ELSE file[at + k].node,
                 IF missing THEN w.o.cpuset ELSE file[at + k].cpus)

MpRfCounted(w, file, ranks, at) ==
  IF w.rc # "ok" THEN w
  ELSE MpFinish(IF MpApp(w).computed /\ ranks = 0 THEN MpFail(w)
                ELSE MpRfFrom([w EXCEPT !.J.apps[w.app].np = IF MpApp(w).computed THEN ranks ELSE @],
                              file, at, 1))
MpRfAlong(w, a, file) ==
  IF file = <<>> THEN [w EXCEPT !.rc = "silent"]
  ELSE MpRfCounted(MpTargetsOf(w, a, {}, TRUE), file,
                   Len(SelectSeq(file, LAMBDA e : e.node # 0)), w.vpid - w.o.start)
MpRfApp(w, a) ==
  IF w.rc # "ok" THEN w
  ELSE MpRfAlong(w, a, IF w.o.app # 0 /\ w.J.apps[a].file # <<>> THEN w.J.apps[a].file ELSE w.J.file)

MpRankFile(w) ==
  IF w.o.ordered THEN [w EXCEPT !.rc = "silent"]
  ELSE MpRanked(FoldLeft(MpRfApp, w, MpApps(w)))

\* the modules in turn; only one takes a given policy
MpMapWith(w) ==
  CASE w.o.map <= PoRR -> MpRoundRobin(w)
    [] w.o.map = PoSeq -> MpSeq(w)
    [] w.o.map = PoByuser -> MpRankFile(w)
    [] w.o.map = PoPPR -> MpPpr(w)
    [] OTHER -> [w EXCEPT !.rc = "silent"]

---------------------------------------------------------------------------
(* Colocation *)

MpWildcard == -2

\* the places in the node pool the targets name, each once
MpColocNodes(s, J) ==
  LET nodesOf(t) == IF t[2] = MpWildcard THEN s.job[t[1]].maps
                    ELSE LET at == {k \in DOMAIN s.job[t[1]].procs : s.job[t[1]].procs[k].rank = t[2]}
                         IN <<s.job[t[1]].procs[MpLowest(at)].node>>
      all == MpConcat([i \in DOMAIN J.coloc.targets |-> nodesOf(J.coloc.targets[i])])
  IN FoldLeft(LAMBDA acc, n : IF \E i \in DOMAIN acc : acc[i] = n THEN acc ELSE Append(acc, n),
              <<>>, all)

MpColocKnown(s, J) ==
  \A i \in DOMAIN J.coloc.targets :
    LET t == J.coloc.targets[i]
    IN /\ s.job[t[1]].st \in {"live", "failed"}
       /\ t[2] # MpWildcard => \E k \in DOMAIN s.job[t[1]].procs : s.job[t[1]].procs[k].rank = t[2]

\* how many go to a node for each app: num, or num for each target on it
MpColocCount(s, w, n) ==
  LET hit(x) == \E i \in DOMAIN w.J.coloc.targets :
                  LET t == w.J.coloc.targets[i]
                  IN x[1] = t[1] /\ (t[2] = MpWildcard \/ s.job[x[1]].procs[x[2]].rank = t[2])
  IN IF w.J.coloc.by = "node" THEN w.J.coloc.num
     ELSE w.J.coloc.num * Len(SelectSeq(s.node[n].procs, LAMBDA x : x # MpNobody /\ hit(x)))

MpColocIn(w, a) ==
  IF w.null THEN [w EXCEPT !.rc = "silent"] ELSE [w EXCEPT !.J.apps[a].np = @ + 1, !.total = @ + 1]
MpColocPut(w, n, a) == MpColocIn(MpSetupProc([w EXCEPT !.app = a], n, MpNoObj), a)

MpColocRefused(w, nd, cnt) ==
  /\ ~w.J.coloc.daemons
  /\ (nd.max # 0 /\ nd.max < cnt) \/ (nd.slots < cnt /\ MpNoOver(w.J))

MpColocOn(w, n, a, k) ==
  IF w.rc # "ok" THEN w
  ELSE IF MpColocRefused(w, w.node[n], w.node[n].used + k) THEN [w EXCEPT !.rc = "silent"]
  ELSE FoldLeft(LAMBDA acc, i : IF acc.rc # "ok" THEN acc ELSE MpColocPut(acc, n, a),
                MpMark(w, n), [i \in 1 .. k |-> i])

\* map_colocate
MpColocNode(w, n, k) ==
  IF k = 0 THEN w
  ELSE FoldLeft(LAMBDA v, a : MpColocOn(v, n, a, k), [w EXCEPT !.o.target = w.node[n].cpus],
                MpIndices(w.J.apps))
MpColocAll(s, w) ==
  IF ~MpColocKnown(s, w.J) THEN [w EXCEPT !.rc = "silent"]
  ELSE MpComputeVpids(FoldLeft(LAMBDA acc, n : MpColocNode(acc, n, MpColocCount(s, w, n)), w,
                               MpColocNodes(s, w.J)),
                      MpIndices(w.J.apps))
MpMapColocate(s, w) ==
  MpColocAll(s, IF ~w.J.coloc.daemons THEN w
                ELSE [w EXCEPT !.J.bind.pol = PoNone, !.J.bind.set = TRUE, !.J.rank = PoRankSlot])

---------------------------------------------------------------------------
(* map_job *)

\* the number of processes of the apps that give none
MpFitting(w) == Len(w.list) * (Len(w.plan.topo[PoCpuLevel(w.J.cpus = "hwt")]) \div w.J.pes)
MpCountFrom(w) ==
  IF w.J.pes <= 1 THEN w.slots
  ELSE IF MpFitting(w) = 0 THEN 1
  ELSE IF w.slots < MpFitting(w) THEN w.slots ELSE MpFitting(w)
MpCountIn(w, a) == [w EXCEPT !.J.apps[a].np = MpCountFrom(w)]
MpCountApp(w, a) ==
  IF w.rc # "ok" \/ w.J.apps[a].np > 0 THEN w
  ELSE IF w.J.map \in {PoSeq, PoByuser, PoPPR} THEN [w EXCEPT !.J.apps[a].computed = TRUE]
  ELSE IF w.J.cpuset # <<>>
  THEN [w EXCEPT !.J.apps[a].computed = TRUE, !.J.apps[a].np = Len(w.J.cpuset)]
  ELSE MpCountIn(MpTargetNodes([w EXCEPT !.J.apps[a].computed = TRUE], w.J.apps[a], w.J.dir,
                               TRUE, FALSE), a)

MpNprocs(J) == FoldLeft(LAMBDA n, a : n + a.np, 0, J.apps)

MpAnyPerApp(J) ==
  \E a \in DOMAIN J.apps : J.apps[a].mapby \/ J.apps[a].rank # 0 \/ J.apps[a].bindto

\* one app with options of its own, or (a = 0) all of them with the job's
MpOptionsFor(w, opts, a) ==
  IF a = 0 THEN w
  ELSE [w EXCEPT !.o = PoResolveApp(w.J, w.J.apps[a],
                                    [opts EXCEPT !.app = a, !.start = w.next,
                                                 !.nprocs = w.J.apps[a].np], w.plan.base),
                 !.vpid = w.next, !.last = "ok", !.save = 1]
MpRankApp(w, a) == IF a = 0 THEN w ELSE MpComputeVpids(w, <<a>>)
MpMapApp(w, opts, a) ==
  IF w.rc # "ok" THEN w
  ELSE MpRankApp(MpMapWith(MpOptionsFor(w, opts, a)), a)

MpMapApps(w) ==
  FoldLeft(LAMBDA acc, a : MpMapApp(acc, w.o, a), w,
           IF MpAnyPerApp(w.J) THEN MpIndices(w.J.apps) ELSE <<0>>)

\* the policies of a job, its options, and the count of its processes
MpResolved(w, r) == [w EXCEPT !.J = r.J, !.o = r.o, !.rc = r.rc]
MpOpt(w, J, up, in, taken) ==
  MpResolved(w, PoResolve(J, up, in, w.plan.base, taken, PoOptions(J, MpNprocs(J))))
MpUseLocal(w, up, in, taken) ==
  IF w.rc # "ok" THEN w
  ELSE MpOpt(w, PoUseLocal(PoSubscribe(w.J, w.plan.base), in, w.plan.base), up, in, taken)
MpCount(w, up, in, taken) ==
  MpUseLocal(FoldLeft(MpCountApp, w, MpIndices(w.J.apps)), up, in, taken)
MpInherit(w, b, up, in, hoisted) ==
  MpCount([w EXCEPT !.J = PoAgree(PoInheritMapping(b.J, up, in, w.plan.base), up, in, hoisted)],
          up, in, b.taken)
MpPrepareIn(w, up, in, hoisted) ==
  MpInherit(w, PoInheritBinding(w.J, up, in, w.plan.base), up, in, hoisted)
MpPrepare(w, up, hoisted) == MpPrepareIn(w, up, PoInherits(w.J, up, w.plan.base), hoisted)

\* a colocated job goes straight to the ranking
MpColocResolved(w, r) ==
  [w EXCEPT !.J = r.J, !.o = r.o, !.rc = IF w.J.coloc.num = 0 THEN "bad" ELSE r.rc]
MpPrepareColocate(w) ==
  MpColocResolved(w, PoResolve([w.J EXCEPT !.map = PoColocate], PoPlainJob,
    [yes |-> FALSE, from |-> FALSE], w.plan.base, FALSE,
    [PoOptions([PoPlainJob EXCEPT !.dir = {"noover"}], 0) EXCEPT !.pes = 0]))

MpWork(s, j) ==
  LET J == s.plan.jobs[j]
  IN [plan |-> s.plan, node |-> s.node, j |-> j, J |-> J, procs |-> <<>>, maps |-> <<>>,
      cnt |-> IF J.limit = 0 THEN s.cnt ELSE [l \in DOMAIN s.cnt |-> [i \in DOMAIN s.cnt[l] |-> 0]],
      o |-> PoOptions(J, 0), app |-> 0, list |-> <<>>, slots |-> 0, mapped |-> 0, placed |-> 0,
      extra |-> 0, nxtra |-> 0, second |-> FALSE, first |-> TRUE,
      cursor |-> [n \in DOMAIN s.node |-> 0], allfull |-> TRUE, nodefull |-> FALSE,
      outofcpus |-> FALSE, avail |-> FALSE, null |-> FALSE, halt |-> "", rc |-> "ok", total |-> 0,
      next |-> 0, vpid |-> 0, save |-> 1, last |-> "ok",
      resized |-> [n \in DOMAIN s.node |-> <<>>]]

\* rmaps_base_map_job
MpMapEnd(s, j, m) ==
  LET ok == m.rc = "ok" /\ m.total > 0 /\ m.maps # <<>>
  IN [s EXCEPT !.node = MpRestore(m.node, m.resized), !.cnt = m.cnt,
        !.job[j] = [st |-> IF ok THEN "live" ELSE "failed", J |-> m.J, procs |-> m.procs,
                    maps |-> m.maps]]
MpRun(s, w, coloc) ==
  IF w.rc # "ok" THEN w ELSE IF coloc THEN MpMapColocate(s, w) ELSE MpMapApps(w)
MpReady(w, up, hoisted, coloc) ==
  IF w.rc # "ok" THEN w ELSE IF coloc THEN MpPrepareColocate(w) ELSE MpPrepare(w, up, hoisted)
MpWithJob(s, w, hoisted) ==
  MpRun(s, MpReady(w, IF w.J.parent <= 0 THEN PoPlainJob ELSE s.job[w.J.parent].J, hoisted,
                   w.J.coloc.by # "none"), w.J.coloc.by # "none")
MpParent(s, J) == IF J.parent > 0 /\ s.job[J.parent].st = "done" THEN 0 ELSE J.parent
MpHoisted(s, j, h) ==
  MpMapEnd(s, j, MpWithJob(s, [MpWork(s, j) EXCEPT !.J = [h.J EXCEPT !.parent = MpParent(s, h.J)],
                                                   !.rc = h.rc], h.over))
MpMapped(s, j) == MpHoisted(s, j, PoHoist(s.plan.jobs[j]))

---------------------------------------------------------------------------
(* Giving back *)

\* a process is taken to have used one cpu of its set, or all of it
MpTakeAll(J) == J.pes # 0 \/ J.map \in {PoByuser, PoSeq}

MpGiveBack(p, cpus, J, proc) ==
  LET held == MpInside(p, PoCpuLevel(J.cpus = "hwt"), proc.cpus \ cpus)
  IN IF proc.cpus = {} THEN cpus
     ELSE IF MpTakeAll(J) THEN cpus \cup proc.cpus
     ELSE IF held = <<>> THEN cpus
     ELSE cpus \cup held[1]

MpVacate(p, nd, i, job) ==
  [nd EXCEPT !.cpus = MpGiveBack(p, @, job.J, job.procs[nd.procs[i][2]]),
             !.used = @ - 1, !.procs[i] = MpNobody]

\* the job's processes leave a node
MpLeaveNode(s, j, nd) ==
  FoldLeft(LAMBDA acc, i : IF acc.procs[i][1] = j THEN MpVacate(s.plan, acc, i, s.job[j]) ELSE acc,
           nd, MpIndices(nd.procs))

MpReleased(s, j) ==
  [s EXCEPT !.node = [n \in DOMAIN @ |-> MpLeaveNode(s, j, @[n])],
            !.job[j].st = "done", !.job[j].procs = <<>>, !.job[j].maps = <<>>]

\* recover_resources: one process has failed
MpRecovered(s, j, k) ==
  LET n == s.job[j].procs[k].node
      at == {i \in DOMAIN s.node[n].procs : s.node[n].procs[i] = <<j, k>>}
      v == [s EXCEPT !.node[n] = MpVacate(s.plan, @, MpLowest(at), s.job[j]),
                     !.job[j].procs[k].up = FALSE]
      none == \A i \in DOMAIN v.node[n].procs : v.node[n].procs[i][1] # j
  IN IF at = {} THEN s
     ELSE [v EXCEPT !.job[j].maps = IF none THEN SelectSeq(@, LAMBDA m : m # n) ELSE @]

---------------------------------------------------------------------------
(* Specification *)

MpNode(p, n) ==
  [slots |-> n.slots, max |-> n.max, given |-> n.given, used |-> 0, avail |-> 0,
   procs |-> <<>>, cpus |-> MpCpus(p), cache |-> {}]

MpStart(p) ==
  [plan |-> p, node |-> [n \in DOMAIN p.nodes |-> MpNode(p, p.nodes[n])],
   cnt |-> [l \in DOMAIN p.topo |-> [i \in DOMAIN p.topo[l] |-> 0]],
   job |-> [j \in DOMAIN p.jobs |->
              [st |-> "new", J |-> p.jobs[j], procs |-> <<>>, maps |-> <<>>]]]

MpInit == \E p \in MpPlans : mp = MpStart(p)

MpMapJob(j) ==
  /\ mp.job[j].st = "new"
  /\ mp.plan.jobs[j].parent > 0 => mp.job[mp.plan.jobs[j].parent].st # "new"
  /\ mp' = MpMapped(mp, j)

MpEndJob(j) ==
  /\ mp.job[j].st \in {"live", "failed"}
  /\ mp' = MpReleased(mp, j)

MpRecoverProc(j, k) ==
  /\ mp.plan.recover /\ mp.job[j].st = "live" /\ mp.job[j].procs[k].up
  /\ mp' = MpRecovered(mp, j, k)

MpNext ==
  \E j \in DOMAIN mp.job :
    MpMapJob(j) \/ MpEndJob(j) \/ (\E k \in DOMAIN mp.job[j].procs : MpRecoverProc(j, k))

MpSpec == MpInit /\ [][MpNext]_mp

---------------------------------------------------------------------------
(* Properties *)

MpUpProcs == {x \in UNION {{<<j, k>> : k \in DOMAIN mp.job[j].procs} : j \in DOMAIN mp.job} :
                mp.job[x[1]].procs[x[2]].up}
MpProc(x) == mp.job[x[1]].procs[x[2]]

\* A job reported as mapped has every process its apps ask for, ranked without a gap or a
\* repetition over the job, within each app and on each node, whichever mapper, ranking
\* and per-app options placed them (map_job, the mappers and compute_vpids agree).
MpPlaced ==
  \A j \in DOMAIN mp.job :
    LET procs == mp.job[j].procs
        J == mp.job[j].J
        of(a) == {k \in DOMAIN procs : procs[k].app = a}
        on(n) == {k \in DOMAIN procs : procs[k].node = n}
        dense(K, r) == {r[k] : k \in K} = 0 .. Cardinality(K) - 1
    IN mp.job[j].st = "live" =>
         /\ dense(DOMAIN procs, [k \in DOMAIN procs |-> procs[k].rank])
         /\ \A a \in DOMAIN J.apps :
              /\ Cardinality(of(a)) = J.apps[a].np
              /\ dense(of(a), [k \in of(a) |-> procs[k].arank])
         /\ \A n \in DOMAIN mp.node : dense(on(n), [k \in on(n) |-> procs[k].lrank])

\* A node never holds more processes than its maximum, nor more than its slots unless a
\* job on it may oversubscribe, names its hosts or is a set of debugger daemons (check_avail,
\* cap_at_max_slots and the slot counts of get_target_nodes, over any order of jobs).
MpWithinLimits ==
  \A n \in DOMAIN mp.node :
    LET nd == mp.node[n]
        here == {x \in MpUpProcs : MpProc(x).node = n}
        beyond(x) == LET J == mp.job[x[1]].J
                     IN J.coloc.daemons \/ ~MpNoOver(J) \/ J.apps[MpProc(x).app].hosts # <<>>
        daemons == {x \in here : mp.job[x[1]].J.coloc.daemons}
    IN /\ nd.used = Cardinality(here)
       /\ nd.max # 0 => Cardinality(here \ daemons) <= nd.max
       /\ nd.used > nd.slots => \E x \in here : beyond(x)

\* A cpu marked as used for a process bound without overloading is not available, and is
\* marked for no other such process, until that process has gone (the binding functions
\* take cpus out of the node's available set, the release puts back what was taken).
MpExclusive ==
  \A x \in MpUpProcs :
    LET p == MpProc(x)
    IN ~p.over =>
         /\ p.took \cap mp.node[p.node].cpus = {}
         /\ \A y \in MpUpProcs \ {x} :
              MpProc(y).node = p.node => p.took \cap MpProc(y).took = {}

\* When every process has gone, each node is as it was before the first job: all slots and
\* cpus free, and the slot counts a job's host list raised put back.
MpCpusReturned ==
  (\A j \in DOMAIN mp.job : mp.job[j].st \in {"new", "done"}) =>
    \A n \in DOMAIN mp.node :
      LET nd == mp.node[n]
      IN /\ nd.used = 0 /\ nd.cpus = MpCpus(mp.plan)
         /\ nd.slots = mp.plan.nodes[n].slots /\ nd.given = mp.plan.nodes[n].given

\* A mapping is complete and within the limits of its nodes, and what it took of them is
\* its own until it is given back.
MpSound == MpPlaced /\ MpWithinLimits /\ MpExclusive /\ MpCpusReturned

=============================================================================

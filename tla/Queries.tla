------------------------------ MODULE Queries -------------------------------
(***************************************************************************)
(* PMIx_Query_info in a DVM (src/prted/pmix/pmix_server_queries.c).         *)
(*                                                                         *)
(* A daemon answers the keys it has the answer to and defers each of the   *)
(* others to the master, whose results are merged with its own.  Only the  *)
(* master (daemon 0) knows the allocation; a daemon knows the jobs it      *)
(* hosts some of, and follows the state of the processes it hosts.  All of *)
(* that changes while queries are under way.                               *)
(*                                                                         *)
(* A process's state is a number that grows, from 0 when it is launched to *)
(* QyLast when it has ended.  plan.caps lists the allocation's successive states at  *)
(* the master: [slots, inuse, sess], slots and inuse by node, sess a set   *)
(* of [id, nodes].  Node d is daemon d's.                                  *)
(***************************************************************************)
EXTENDS Integers, Sequences, FiniteSets, SequencesExt

CONSTANTS QyPlans,  \* a sequence of [n, hosts, sessions, caps, psets, groups, asks]
          QyLast    \* the state of a process that has ended

VARIABLE qy

QyInit ==
    \E k \in DOMAIN QyPlans :
        LET p == QyPlans[k]
            ds == 0 .. p.n - 1 IN
        qy = [plan |-> p,
              know |-> [d \in ds |-> {}],                     \* prte_job_data
              rec |-> [d \in ds |-> [j \in DOMAIN p.hosts |-> [r \in DOMAIN p.hosts[j] |-> 0]]],
              cap |-> 1,
              asked |-> {},
              snap |-> [a \in DOMAIN p.asks |-> <<>>],        \* what was true when asked
              ev |-> [d \in ds |-> <<>>],                     \* _query events
              loc |-> [d \in ds |-> <<>>],                    \* local_reqs
              up |-> [d \in ds |-> <<>>], down |-> [d \in ds |-> <<>>],
              ans |-> [a \in DOMAIN p.asks |-> <<>>]]

QyDaemons(s) == DOMAIN s.know

\* the session a job was launched in; a daemon holds no session but the default
QySessionOf(s, d, j) == IF d = 0 THEN s.plan.sessions[j] ELSE 0

-----------------------------------------------------------------------------
(***************************************************************************)
(* Gates to what only the master knows.                                    *)
(***************************************************************************)
\* a daemon's copy of the node table has no capacities, and no session
QyCopy(s) == [slots |-> [d \in QyDaemons(s) |-> 0], inuse |-> [d \in QyDaemons(s) |-> 0], sess |-> {}]
QyCaps(s, d) == IF d = 0 THEN s.plan.caps[s.cap] ELSE QyCopy(s)

QyAuthoritativeAnywhere(d) == TRUE
QyAuthoritative(d) == d = 0

\* prte_get_proc_runtime_state
QyRuntimeKnown(s, d, j, r) == d = 0 \/ s.plan.hosts[j][r] = d

-----------------------------------------------------------------------------
(***************************************************************************)
(* One key.  e holds the query's qualifiers; an arm adds a result, skips,  *)
(* defers the key or ends the request with a status.                       *)
(***************************************************************************)
QyAdd(v) == [do |-> "add", st |-> "ok", val |-> v]
QySkip == [do |-> "skip", st |-> "ok", val |-> {}]
QyDefer == [do |-> "defer", st |-> "ok", val |-> {}]
QyFail(st) == [do |-> "fail", st |-> st, val |-> {}]

QyNamespaces(s, d) == QyAdd(s.know[d])

QyNamespaceInfo(s, d, e) ==
    QyAdd({<<j, Len(s.plan.hosts[j])>> :
              j \in {i \in s.know[d] : e.sess # 0 => QySessionOf(s, d, i) = e.sess}})

QyHwloc(d) == QyAdd({d})

QyServerUri(s, d, e) ==
    IF e.host = -1 THEN QyAdd({d})
    ELSE IF e.host \notin QyDaemons(s) THEN QyFail("badparam")
    ELSE QyAdd({e.host})

QyProcTable(s, d, e) ==
    IF e.job \notin s.know[d] THEN (IF d # 0 THEN QyDefer ELSE QyFail("notfound"))
    ELSE IF \E r \in DOMAIN s.plan.hosts[e.job] : ~QyRuntimeKnown(s, d, e.job, r) THEN QyDefer
    ELSE QyAdd({<<r, s.rec[d][e.job][r]>> : r \in DOMAIN s.plan.hosts[e.job]})

QyLocalOf(s, d, j) == {r \in DOMAIN s.plan.hosts[j] : s.plan.hosts[j][r] = d}

QyLocalProcTable(s, d, e) ==
    IF e.job \notin s.know[d] THEN QyFail("notfound")
    ELSE IF QyLocalOf(s, d, e.job) = {} THEN QyFail("notfound")
    ELSE QyAdd({<<r, s.rec[d][e.job][r]>> : r \in QyLocalOf(s, d, e.job)})

\* NUM_PSETS, PSET_NAMES and PSET_MEMBERSHIP
QyPsets(s, d, key, e) ==
    IF key # "pset_membership" THEN QyAdd(s.plan.psets[d])
    ELSE IF e.pset = "" THEN QyFail("badparam")
    ELSE IF e.pset \notin s.plan.psets[d] THEN QyFail("notfound")
    ELSE QyAdd({e.pset})

QyJobSize(s, d, e) ==
    IF e.job \notin s.know[d] THEN QyFail("notfound") ELSE QyAdd({Len(s.plan.hosts[e.job])})

\* NUM_GROUPS, GROUP_NAMES and GROUP_MEMBERSHIP
QyGroups(s, d, key, e) ==
    IF key # "group_membership" THEN QyAdd(s.plan.groups[d])
    ELSE IF e.grp \notin s.plan.groups[d] THEN QyFail("notfound")
    ELSE QyAdd({e.grp})

\* the nodes of the allocation the query names, or all of them
QyNodesOf(c, id) ==
    IF id = "" THEN DOMAIN c.slots
    ELSE UNION {x.nodes : x \in {y \in c.sess : y.id = id}}

QyHasAlloc(c, id) == id = "" \/ \E x \in c.sess : x.id = id

QySlotsOn(c, ns) == FoldLeft(LAMBDA a, x : a + (IF x - 1 \in ns THEN c.slots[x - 1] ELSE 0),
                             0, [x \in 1 .. Cardinality(DOMAIN c.slots) |-> x])

QyAllocation(s, d, e, c) ==
    IF ~QyAuthoritative(d) THEN QyDefer
    ELSE IF ~QyHasAlloc(c, e.alloc) THEN QyFail("notfound")
    ELSE QyAdd({<<x, c.slots[x]>> : x \in QyNodesOf(c, e.alloc)})

QyAllocIds(s, d, c) == IF ~QyAuthoritative(d) THEN QyDefer ELSE QyAdd({x.id : x \in c.sess})

QyAllocProperties(s, d, e, c) ==
    IF ~QyAuthoritative(d) THEN QyDefer
    ELSE IF e.alloc = "" THEN QyFail("badparam")
    ELSE IF ~QyHasAlloc(c, e.alloc) THEN QyFail("notfound")
    ELSE QyAdd({e.alloc})

QyNumSlots(s, d, e, c) ==
    IF ~QyAuthoritative(d) THEN QyDefer
    ELSE IF ~QyHasAlloc(c, e.alloc) THEN QyFail("notfound")
    ELSE IF e.host = -1 THEN QyAdd({QySlotsOn(c, QyNodesOf(c, e.alloc))})
    ELSE IF e.host \notin DOMAIN c.slots THEN QyFail("notfound")
    ELSE QyAdd({c.slots[e.host]})

\* a node with more in use than it has slots offers none
QyAvailableOn(c, x) == IF c.slots[x] <= c.inuse[x] THEN 0 ELSE c.slots[x] - c.inuse[x]

QyAvailableSlots(s, d, c) ==
    IF ~QyAuthoritative(d) THEN QyDefer
    ELSE QyAdd({FoldLeft(LAMBDA a, x : a + QyAvailableOn(c, x - 1), 0,
                         [x \in 1 .. s.plan.n |-> x])})

QyMemAllocKind(s, d, e) == IF e.job \notin s.know[d] THEN QyFail("notfound") ELSE QyAdd({0})

QyMatching(s, d, e) == {j \in s.know[d] : e.job = -1 \/ e.job = j}

QyResolvePeers(s, d, e) ==
    IF e.host = -1 THEN QyFail("badparam")
    ELSE QyAdd(UNION {{<<j, r>> : r \in QyLocalOf(s, e.host, j)} : j \in QyMatching(s, d, e)})

QyResolveNode(s, d, e) ==
    QyAdd(UNION {{s.plan.hosts[j][r] : r \in DOMAIN s.plan.hosts[j]} : j \in QyMatching(s, d, e)})

QyKey(s, d, key, e) ==
    CASE key = "namespaces" -> QyNamespaces(s, d)
      [] key = "namespace_info" -> QyNamespaceInfo(s, d, e)
      [] key \in {"spawn_support", "debug_support", "proc_uri"} -> QyAdd({0})
      [] key = "hwloc_xml" -> QyHwloc(d)
      [] key = "server_uri" -> QyServerUri(s, d, e)
      [] key = "proc_table" -> QyProcTable(s, d, e)
      [] key = "local_proc_table" -> QyLocalProcTable(s, d, e)
      [] key \in {"num_psets", "pset_membership"} -> QyPsets(s, d, key, e)
      [] key = "job_size" -> QyJobSize(s, d, e)
      [] key \in {"num_groups", "group_membership"} -> QyGroups(s, d, key, e)
      [] key = "allocation" -> QyAllocation(s, d, e, QyCaps(s, d))
      [] key = "alloc_ids" -> QyAllocIds(s, d, QyCaps(s, d))
      [] key = "alloc_properties" -> QyAllocProperties(s, d, e, QyCaps(s, d))
      [] key = "num_slots" -> QyNumSlots(s, d, e, QyCaps(s, d))
      [] key = "available_slots" -> QyAvailableSlots(s, d, QyCaps(s, d))
      [] key = "mem_alloc_kind" -> QyMemAllocKind(s, d, e)
      [] key = "resolve_peers" -> QyResolvePeers(s, d, e)
      [] key = "resolve_node" -> QyResolveNode(s, d, e)
      [] key = "resource_usage" -> QySkip
      [] OTHER -> QyFail("notsupported")

-----------------------------------------------------------------------------
(***************************************************************************)
(* _query: every key of every query of one request.                        *)
(***************************************************************************)
\* a namespace or group the daemon does not know ends the request
QyQualified(s, d, q) ==
    /\ q.ns > 0 => q.ns \in s.know[d]
    /\ q.grp # "" => q.grp \in s.plan.groups[d]

\* the session id outlives the query that named it
QySession(qs, i) ==
    LET named == {k \in 1 .. i : qs[k].sess # 0} IN
    IF named = {} THEN 0 ELSE qs[CHOOSE k \in named : \A l \in named : l <= k].sess

QyEnv(q, job, sess) ==
    [job |-> IF q.grp # "" THEN 0 ELSE IF q.ns # 0 THEN q.ns ELSE job, grp |-> q.grp,
     host |-> q.host, pset |-> q.pset, alloc |-> q.alloc, sess |-> sess]

\* what each key comes to, in the order the loops visit them
QyArms(s, d, job, qs) ==
    FlattenSeq([i \in DOMAIN qs |->
        IF ~QyQualified(s, d, qs[i]) THEN <<[q |-> qs[i], key |-> "", a |-> QyFail("badparam")]>>
        ELSE [k \in DOMAIN qs[i].keys |->
                 [q |-> qs[i], key |-> qs[i].keys[k],
                  a |-> QyKey(s, d, qs[i].keys[k], QyEnv(qs[i], job, QySession(qs, i)))]]])

\* the first arm to fail ends them
QyUpToFailure(arms) ==
    LET bad == {i \in DOMAIN arms : arms[i].a.do = "fail"} IN
    IF bad = {} THEN arms ELSE SubSeq(arms, 1, CHOOSE i \in bad : \A k \in bad : i <= k)

QyOnly(arms, do) == SelectSeq(arms, LAMBDA x : x.a.do = do)

\* defer_key: each deferred key keeps its query's qualifiers
QyDeferred(arms) ==
    LET ds == QyOnly(arms, "defer") IN [i \in DOMAIN ds |-> [ds[i].q EXCEPT !.keys = <<ds[i].key>>]]

QyResults(arms, d) ==
    LET as == QyOnly(arms, "add") IN
    [i \in DOMAIN as |-> [key |-> as[i].key, q |-> as[i].q.id, by |-> d, val |-> as[i].a.val]]

QyRet(arms) ==
    LET bad == QyOnly(arms, "fail") IN IF bad = <<>> THEN "ok" ELSE Head(bad).a.st

QyOutcome(arms, d) ==
    [res |-> QyResults(arms, d), ret |-> QyRet(arms), dq |-> QyDeferred(arms), nk |-> Len(arms)]

QyRun(s, d, job, qs) == QyOutcome(QyUpToFailure(QyArms(s, d, job, qs)), d)

\* query_complete decides the status unless an arm has
QyStatus(ret, res, nk) ==
    IF ret # "ok" THEN ret
    ELSE IF res = <<>> THEN "notfound" ELSE IF Len(res) < nk THEN "partial" ELSE "ok"

QyTell(s, a, st, res) == [s EXCEPT !.ans[a] = Append(@, [st |-> st, res |-> res, cap |-> s.cap])]

\* local_reqs hands out the lowest free slot
QyNoReq == [a |-> 0, res |-> <<>>, nk |-> 0]
QySlot(slots) ==
    CHOOSE i \in 1 .. Len(slots) + 1 :
        /\ i \in DOMAIN slots => slots[i].a = 0
        /\ \A j \in 1 .. i - 1 : slots[j].a # 0
QyPut(slots, i, x) == IF i \in DOMAIN slots THEN [slots EXCEPT ![i] = x] ELSE Append(slots, x)

QyCount(r) == r.nk

\* relay_query
QyRelay(s, d, e, r, i) ==
    [s EXCEPT !.loc[d] = QyPut(@, i, [a |-> e.a, res |-> r.res, nk |-> QyCount(r)]),
              !.up[d] = Append(@, [a |-> e.a, job |-> e.job, qs |-> r.dq, ridx |-> i])]

\* send_query_resp
QySendResp(s, e, st, res) ==
    [s EXCEPT !.down[e.from] = Append(@, [ridx |-> e.ridx, st |-> st, res |-> res]),
              !.loc[0] = QyPut(@, e.slot, QyNoReq)]

QyComplete(s, d, e, st, res) ==
    IF e.from = d THEN QyTell(s, e.a, st, res) ELSE QySendResp(s, e, st, res)

QyFinish(s, d, e, r) ==
    IF r.dq = <<>> \/ r.ret # "ok"
    THEN QyComplete(s, d, e, QyStatus(r.ret, r.res, r.nk), r.res)
    ELSE IF s.plan.asks[e.a].nosend
    THEN QyComplete(s, d, e, "unreach", r.res)
    ELSE QyRelay(s, d, e, r, QySlot(s.loc[d]))

QyQuery(s, d, e) == QyFinish(s, d, e, QyRun(s, d, e.job, e.qs))

\* pmix_server_query_request
QyRequest(s, d, m, i) ==
    [s EXCEPT !.loc[0] = QyPut(@, i, [QyNoReq EXCEPT !.a = m.a]),
              !.ev[0] = Append(@, [a |-> m.a, job |-> m.job, qs |-> m.qs, from |-> d,
                                   ridx |-> m.ridx, slot |-> i])]

\* pmix_server_query_resp: merge, and weigh the whole
QyFreeSlot(s, d, m) == [s EXCEPT !.loc[d] = QyPut(@, m.ridx, QyNoReq)]

QyMergedStatus(st) == IF st \in {"partial", "notfound"} THEN "ok" ELSE st

QyMerge(s, d, m, req) ==
    QyTell(QyFreeSlot(s, d, m), req.a,
           QyStatus(QyMergedStatus(m.st), req.res \o m.res, req.nk), req.res \o m.res)

QyResp(s, d, m) ==
    IF m.ridx \notin DOMAIN s.loc[d] THEN s
    ELSE IF s.loc[d][m.ridx].a = 0 THEN s
    ELSE QyMerge(s, d, m, s.loc[d][m.ridx])

-----------------------------------------------------------------------------
(***************************************************************************)
(* Steps.                                                                  *)
(***************************************************************************)
\* prte_pmix_server_query_fn: a client asks, and the request becomes an event
QyAsk ==
    \E a \in DOMAIN qy.plan.asks \ qy.asked :
        LET q == qy.plan.asks[a] IN
        /\ q.job > 0 => q.job \in qy.know[q.at]
        /\ qy' = [qy EXCEPT !.asked = @ \cup {a},
                            !.snap[a] = [cap |-> qy.cap, rec |-> qy.rec[0], know |-> qy.know[0]],
                            !.ev[q.at] = Append(@, [a |-> a, job |-> q.job, qs |-> q.qs,
                                                    from |-> q.at, ridx |-> 0, slot |-> 0])]

QyEvent ==
    \E d \in QyDaemons(qy) :
        /\ qy.ev[d] # <<>>
        /\ qy' = QyQuery([qy EXCEPT !.ev[d] = Tail(@)], d, Head(qy.ev[d]))

QyDeliver ==
    \E d \in QyDaemons(qy) :
        \/ /\ qy.up[d] # <<>>
           /\ qy' = QyRequest([qy EXCEPT !.up[d] = Tail(@)], d, Head(qy.up[d]), QySlot(qy.loc[0]))
        \/ /\ qy.down[d] # <<>>
           /\ qy' = QyResp([qy EXCEPT !.down[d] = Tail(@)], d, Head(qy.down[d]))

\* the master launches a job, and then its daemons hear of it
QyLaunch ==
    \E d \in QyDaemons(qy) : \E j \in DOMAIN qy.plan.hosts :
        /\ j \notin qy.know[d] /\ \A r \in DOMAIN qy.rec[0][j] : qy.rec[0][j][r] = 0
        /\ d # 0 => j \in qy.know[0] /\ QyLocalOf(qy, d, j) # {}
        /\ qy' = [qy EXCEPT !.know[d] = @ \cup {j}]

\* a process moves on where it runs, and the master hears of it later
QyAdvance ==
    \E j \in DOMAIN qy.plan.hosts : \E r \in DOMAIN qy.plan.hosts[j] :
        LET h == qy.plan.hosts[j][r] IN
        \/ /\ j \in qy.know[h] /\ qy.rec[h][j][r] < QyLast
           /\ qy' = [qy EXCEPT !.rec[h][j][r] = @ + 1]
        \/ /\ qy.rec[0][j][r] < qy.rec[h][j][r]
           /\ qy' = [qy EXCEPT !.rec[0][j][r] = @ + 1]

\* the allocation changes
QyResize == qy.cap < Len(qy.plan.caps) /\ qy' = [qy EXCEPT !.cap = @ + 1]

\* a job has ended and is forgotten, by the master first
QyForget ==
    \E d \in QyDaemons(qy) : \E j \in qy.know[d] :
        /\ \A r \in DOMAIN qy.rec[0][j] : qy.rec[0][j][r] = QyLast
        /\ d # 0 => j \notin qy.know[0]
        /\ qy' = [qy EXCEPT !.know[d] = @ \ {j}]

QyNext == QyAsk \/ QyEvent \/ QyDeliver \/ QyLaunch \/ QyAdvance \/ QyResize \/ QyForget

QySpec == QyInit /\ [][QyNext]_qy

-----------------------------------------------------------------------------
(***************************************************************************)
(* Properties.                                                             *)
(***************************************************************************)
\* the answer the master would give to a key about the allocation, in its
\* i-th state
QyAtMaster(s, i, key, e) == QyKey([s EXCEPT !.cap = i], 0, key, e).val

QyEntryTrue(s, a, x, w, q, key) ==
    CASE key \in {"allocation", "alloc_ids", "alloc_properties", "num_slots", "available_slots"} ->
            \E i \in s.snap[a].cap .. w.cap : x.val = QyAtMaster(s, i, key, QyEnv(q, 0, 0))
      [] key = "proc_table" ->
            LET j == QyEnv(q, s.plan.asks[a].job, 0).job IN
            /\ {y[1] : y \in x.val} = DOMAIN s.plan.hosts[j]
            /\ \A y \in x.val : y[2] >= s.snap[a].rec[j][y[1]]
      [] key \in {"hwloc_xml", "local_proc_table"} -> x.by = s.plan.asks[a].at
      [] key = "server_uri" -> q.host = -1 => x.val = {s.plan.asks[a].at}
      [] key = "namespace_info" -> q.sess # 0 =>
            {j \in s.snap[a].know \cap s.know[0] : s.plan.sessions[j] = q.sess}
                \subseteq {y[1] : y \in x.val}
      [] OTHER -> TRUE

\* A query's answer is true.  What only the master knows is what the master
\* knew at some time between the question and the answer, however long the
\* relay took; a process table covers the job and is never older than what
\* the master already knew when asked ("the state the launch message shipped,
\* forever" never shows); what a daemon must answer for itself it has answered
\* itself; and success means that every key asked for is there.
QyTrueAnswer ==
    \A a \in DOMAIN qy.ans : \A n \in DOMAIN qy.ans[a] :
        LET w == qy.ans[a][n] IN
        /\ \A k \in DOMAIN w.res :
              QyEntryTrue(qy, a, w.res[k], w, qy.plan.asks[a].qs[w.res[k].q], w.res[k].key)
        /\ w.st = "ok" =>
              \A i \in DOMAIN qy.plan.asks[a].qs :
                  \A k \in DOMAIN qy.plan.asks[a].qs[i].keys :
                      \E m \in DOMAIN w.res :
                          w.res[m].q = i /\ w.res[m].key = qy.plan.asks[a].qs[i].keys[k]

\* Once no event is posted and no message is on its way, every query has been
\* answered, once, and no daemon keeps a slot for one: also when part of it
\* had to be relayed, and when several of a daemon were under way together.
\* (Every step consumes what it handles, so that state is always reached.)
QyAllAnswered ==
    (\A d \in QyDaemons(qy) : qy.ev[d] = <<>> /\ qy.up[d] = <<>> /\ qy.down[d] = <<>>) =>
        /\ \A a \in qy.asked : Len(qy.ans[a]) = 1
        /\ \A d \in QyDaemons(qy) : \A i \in DOMAIN qy.loc[d] : qy.loc[d][i].a = 0

\* Every query is answered, and truly.
QySound == QyTrueAnswer /\ QyAllAnswered

=============================================================================

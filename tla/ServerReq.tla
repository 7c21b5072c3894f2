----------------------------- MODULE ServerReq ------------------------------
(***************************************************************************)
(* The requests clients make of their daemon that another daemon has to    *)
(* answer: allocations, session control, group context ids, spawns, tool   *)
(* connections, logging, and monitoring (src/prted/pmix/pmix_server*.c).    *)
(*                                                                         *)
(* A daemon keeps each pending request in local_reqs, a pointer array that *)
(* hands out the lowest free slot, and names the slot in the message it    *)
(* sends; the answer comes back under that slot.  The master (daemon 0)    *)
(* keeps the requests relayed to it in its own local_reqs, beside those of *)
(* its own clients.  What the master then does (allocate, launch, control  *)
(* a session) belongs to other modules and here only takes time.           *)
(***************************************************************************)
EXTENDS Integers, Sequences, FiniteSets, SequencesExt

CONSTANT SrPlans        \* a sequence of [n, reqs, lose]: see SrInit

VARIABLE sr

SrKinds == {"alloc", "ctrl", "ctxid", "spawn", "tool", "log", "monitor"}

\* daemons 0 .. n-1; each request [at, kind, how], where how says what goes
\* wrong with it, if anything; lose, the daemons that may fail
SrPlanned(p) ==
    /\ p.n \in Nat \ {0} /\ p.lose \subseteq 1 .. p.n - 1
    /\ \A r \in DOMAIN p.reqs :
          p.reqs[r].at \in 0 .. p.n - 1 \ p.lose /\ p.reqs[r].kind \in SrKinds

ASSUME SrAssumption == \A n \in DOMAIN SrPlans : SrPlanned(SrPlans[n])

SrDaemons(s) == 0 .. s.plan.n - 1

SrInit ==
    \E k \in DOMAIN SrPlans :
        LET p == SrPlans[k]
            ds == 0 .. p.n - 1 IN
        sr = [plan |-> p, asked |-> {},
              loc |-> [d \in ds |-> <<>>],            \* local_reqs
              rq |-> <<>>,                            \* prte_pmix_server_req_t objects
              ev |-> [d \in ds |-> <<>>],             \* events posted to a daemon
              ch |-> [c \in ds \X ds |-> <<>>],       \* messages
              work |-> {},                            \* operations under way elsewhere
              alive |-> ds,
              failed |-> [d \in ds |-> {}],           \* prte_rml_base.failed_dmns
              ans |-> [r \in DOMAIN p.reqs |-> <<>>]]

-----------------------------------------------------------------------------
(***************************************************************************)
(* Slots, messages, events, answers.                                       *)
(***************************************************************************)
SrLowest(slots) ==
    CHOOSE i \in 1 .. Len(slots) + 1 :
        /\ i \in DOMAIN slots => slots[i] = 0
        /\ \A j \in 1 .. i - 1 : slots[j] # 0

SrPut(slots, i, o) == IF i \in DOMAIN slots THEN [slots EXCEPT ![i] = o] ELSE Append(slots, o)

\* a request object of daemon d for request r, in the next slot; ridx is the
\* slot of the daemon that relayed it
SrTrack(s, d, r, from, ridx) ==
    [s EXCEPT !.loc[d] = SrPut(@, SrLowest(@), Len(s.rq) + 1),
              !.rq = Append(@, [r |-> r, kind |-> s.plan.reqs[r].kind, at |-> d,
                                from |-> from, ridx |-> ridx, slot |-> SrLowest(s.loc[d]),
                                exp |-> {}, rep |-> {}, good |-> {}, st |-> "ok"])]

SrAt(s, d, i) == IF i \in DOMAIN s.loc[d] THEN s.loc[d][i] ELSE 0

SrClear(s, d, i) == IF i = 0 THEN s ELSE [s EXCEPT !.loc[d] = SrPut(@, i, 0)]

SrSend(s, a, b, m) == IF b \in s.alive THEN [s EXCEPT !.ch[<<a, b>>] = Append(@, m)] ELSE s

SrPost(s, d, e) == [s EXCEPT !.ev[d] = Append(@, e)]

\* request r is answered, by the operation begun for request "by"
SrAnswer(s, r, st, by) == [s EXCEPT !.ans[r] = Append(@, [st |-> st, by |-> by])]

\* the client's infocbfunc: the PMIx library calls req_release when it is done
SrInfoAnswer(s, o, st, by) ==
    [SrAnswer(s, s.rq[o].r, st, by) EXCEPT !.work = @ \cup {[op |-> "free", o |-> o]}]

SrHasInfoCb(kind) == kind \in {"alloc", "ctrl", "ctxid", "monitor"}

-----------------------------------------------------------------------------
(***************************************************************************)
(* Asking.                                                                 *)
(***************************************************************************)
SrNewest(s) == Len(s.rq)
SrSlotOf(s) == s.rq[SrNewest(s)].slot

\* prte_server_send_request
SrSendRequest(s, d, r, q) ==
    SrSend(s, d, 0, [op |-> "sched", idx |-> SrSlotOf(s), r |-> r, st |-> q.how])

\* _alloc_request and pass_request
SrAskAlloc(s, d, r, q) ==
    LET t == SrTrack(s, d, r, d, 0) IN
    IF d = 0 THEN [t EXCEPT !.work = @ \cup {[op |-> q.kind, o |-> SrNewest(t)]}]
    ELSE IF q.how = "nosend" THEN SrInfoAnswer(t, SrNewest(t), "error", r)
    ELSE SrSendRequest(t, d, r, q)

\* assign_group_ctxid: the master has the counter
SrAskCtxid(s, d, r, q) ==
    IF d = 0 THEN SrAnswer(s, r, "ok", r)
    ELSE IF q.how = "nosend" THEN SrAnswer(s, r, "error", r)
    ELSE SrSendRequest(SrTrack(s, d, r, d, 0), d, r, q)

\* interim refuses a request it cannot make a job of; spawn tracks it and
\* launch_job sends it on
SrLaunchRequest(t, d, r, q) ==
    SrSend(t, d, 0, [op |-> "launch", idx |-> SrSlotOf(t), r |-> r, st |-> q.how])

SrSpawn(s, d, r, q) ==
    IF q.how = "nosend" THEN SrAnswer(s, r, "error", r)
    ELSE SrLaunchRequest(SrTrack(s, d, r, d, 0), d, r, q)

SrAskSpawn(s, d, r, q) ==
    IF q.how = "badapp" THEN SrAnswer(s, r, "error", r) ELSE SrSpawn(s, d, r, q)

\* _toolconn: refused, registered by the master itself, or reported to it
SrToolRefused(d, q) == q.how = "foreign" \/ (q.how = "scheduler" /\ d # 0)

SrAttach(t, d, r, q) ==
    SrSend(t, d, 0, [op |-> "attach", idx |-> SrSlotOf(t), r |-> r, st |-> q.how])

SrAskTool(s, d, r, q) ==
    IF SrToolRefused(d, q) \/ q.how = "nosend" THEN SrAnswer(s, r, "refused", r)
    ELSE IF q.how = "scheduler" THEN SrAnswer(s, r, "ok", r)
    ELSE IF d = 0 THEN [s EXCEPT !.work = @ \cup {[op |-> "register", r |-> r]}]
    ELSE SrAttach(SrTrack(s, d, r, d, 0), d, r, q)

\* prte_pmix_server_log_fn and process_log
SrAskLog(s, d, r, q) ==
    IF q.how \in {"empty", "nosend"} THEN SrAnswer(s, r, q.how, r)
    ELSE LET t == SrTrack(s, d, r, d, 0) IN
         SrSend(t, d, 0, [op |-> "log", idx |-> SrSlotOf(t), r |-> r, st |-> q.how])

\* mfn: every other daemon that has not failed owes an answer
SrExpected(s, d) == SrDaemons(s) \ (s.failed[d] \cup {d})

SrAskMonitor(s, d, r, q) ==
    LET t == SrTrack(s, d, r, d, 0)
        u == [t EXCEPT !.rq[SrNewest(t)].exp = SrExpected(s, d)] IN
    IF SrExpected(s, d) = {} THEN SrAnswer(s, r, "ok", r)
    ELSE IF q.how = "nosend" THEN SrInfoAnswer(u, SrNewest(u), "error", r)
    ELSE FoldLeft(LAMBDA v, x : IF x = d THEN v
                                ELSE SrSend(v, d, x, [op |-> "monitor", idx |-> SrSlotOf(u),
                                                      r |-> r, st |-> q.how]),
                  u, [x \in 1 .. s.plan.n |-> x - 1])

SrAskOne(s, d, r, q) ==
    CASE q.kind \in {"alloc", "ctrl"} -> SrAskAlloc(s, d, r, q)
      [] q.kind = "ctxid" -> SrAskCtxid(s, d, r, q)
      [] q.kind = "spawn" -> SrAskSpawn(s, d, r, q)
      [] q.kind = "tool" -> SrAskTool(s, d, r, q)
      [] q.kind = "log" -> SrAskLog(s, d, r, q)
      [] q.kind = "monitor" -> SrAskMonitor(s, d, r, q)

-----------------------------------------------------------------------------
(***************************************************************************)
(* The master.                                                             *)
(***************************************************************************)
\* pmix_server_sched: track the relayed request, and give it to the code that
\* decides it; a context id is assigned at once
SrDispatch(t, o) ==
    SrPost(t, 0, [op |-> IF t.rq[o].kind = "ctxid" THEN "resp" ELSE "begin",
                  o |-> o, rel |-> FALSE])

SrSched(s, d, m) == SrDispatch(SrTrack(s, 0, m.r, d, m.idx), Len(s.rq) + 1)

\* _send_alloc_resp
SrSendAllocResp(s, e) ==
    LET q == s.rq[e.o]
        t == SrSend(s, 0, q.from, [op |-> "sched_resp", idx |-> q.ridx, r |-> q.r, st |-> "ok"]) IN
    SrClear(IF e.rel THEN SrPost(t, 0, [op |-> "release", o |-> e.o, rel |-> FALSE]) ELSE t,
            0, q.slot)

\* infocbfunc of object o at the master: send_alloc_resp if it was relayed
SrMasterCb(s, o, rel) ==
    IF s.rq[o].from # 0 THEN SrPost(s, 0, [op |-> "resp", o |-> o, rel |-> rel])
    ELSE IF rel THEN SrInfoAnswer(s, o, "ok", s.rq[o].r)
    ELSE SrAnswer(s, s.rq[o].r, "ok", s.rq[o].r)

\* prte_ras_base_modify is done with the request
SrAllocDone(s, o) == SrMasterCb(s, o, TRUE)

\* the session-control request is retired at once, and forgets its slot
SrRetire(s, o) == [SrClear(s, 0, s.rq[o].slot) EXCEPT !.rq[o].slot = 0]

SrCtrlDone(s, o) == SrRetire(SrMasterCb(s, o, FALSE), o)

\* PRTE_PLM_LAUNCH_JOB_CMD: refused at ANSWER_LAUNCH, or launched
SrLaunchJob(s, d, m) ==
    IF m.st = "refused"
    THEN SrSend(s, 0, d, [m EXCEPT !.op = "launch_resp"])
    ELSE [s EXCEPT !.work = @ \cup {[op |-> "launch", d |-> d, m |-> m]}]

\* PRTE_PLM_TOOL_ATTACHED_CMD
SrToolAttached(s, d, m) == SrSend(s, 0, d, [m EXCEPT !.op = "tconn_resp"])

\* pmix_server_log, log_cbfunc, _log_resp
SrLogRecv(s, d, m) ==
    IF m.st = "nojob" THEN SrSend(s, 0, d, [m EXCEPT !.op = "log_resp"])
    ELSE [s EXCEPT !.work = @ \cup {[op |-> "log", d |-> d, m |-> m]}]

-----------------------------------------------------------------------------
(***************************************************************************)
(* The answers.                                                            *)
(***************************************************************************)
\* prte_pmix_server_alloc_request_resp
SrAllocResp(s, d, m) ==
    LET o == SrAt(s, d, m.idx) IN
    IF o = 0 THEN s
    ELSE IF SrHasInfoCb(s.rq[o].kind) THEN SrInfoAnswer(s, o, m.st, m.r)
    ELSE SrClear(s, d, m.idx)

\* pmix_server_notify_spawn
SrNotifySpawn(s, d, m) ==
    LET o == SrAt(s, d, m.idx) IN
    IF o = 0 THEN s
    ELSE IF s.rq[o].kind \in {"spawn", "tool"}
    THEN SrAnswer(SrClear(s, d, m.idx), s.rq[o].r, m.st, m.r)
    ELSE SrClear(s, d, m.idx)

\* pmix_server_tconn_return: register the tool, then tell it
SrTconnReturn(s, d, m) ==
    LET o == SrAt(s, d, m.idx) IN
    IF o = 0 THEN s
    ELSE [SrClear(s, d, m.idx) EXCEPT !.work = @ \cup {[op |-> "register", r |-> s.rq[o].r]}]

\* pmix_server_logging_resp
SrLoggingResp(s, d, m) ==
    LET o == SrAt(s, d, m.idx) IN
    IF o = 0 THEN s
    ELSE IF s.rq[o].kind = "log" THEN SrAnswer(SrClear(s, d, m.idx), s.rq[o].r, m.st, m.r)
    ELSE SrClear(s, d, m.idx)

-----------------------------------------------------------------------------
(***************************************************************************)
(* Monitoring.                                                             *)
(***************************************************************************)
SrVerdict(q) ==
    IF q.good = q.exp THEN "ok" ELSE IF q.good # {} THEN "partial" ELSE q.st

\* monitor_check_complete
SrCheckComplete(s, o) ==
    IF s.rq[o].rep # s.rq[o].exp THEN s
    ELSE SrInfoAnswer(s, o, SrVerdict(s.rq[o]), s.rq[o].r)

\* pmix_server_monitor_request: one daemon's share, and its answer
SrMonitorRequest(s, d, from, m) ==
    IF m.st = "bad" THEN SrSend(s, d, from, [m EXCEPT !.op = "monitor_resp"])
    ELSE [s EXCEPT !.work = @ \cup {[op |-> "monitor", d |-> d, from |-> from, m |-> m]}]

SrCountsAgain(q, x) == x \in q.exp
SrCounts(q, x) == x \in q.exp /\ x \notin q.rep

\* pmix_server_monitor_resp
SrMonitorResp(s, d, x, m) ==
    LET o == SrAt(s, d, m.idx) IN
    IF o = 0 THEN s
    ELSE IF s.rq[o].kind # "monitor" \/ ~SrCounts(s.rq[o], x) THEN s
    ELSE SrCheckComplete([s EXCEPT !.rq[o].rep = @ \cup {x},
                                   !.rq[o].good = IF m.st = "bad" THEN @ ELSE @ \cup {x},
                                   !.rq[o].st = IF m.st = "bad" /\ @ = "ok" THEN "error" ELSE @],
                         o)

\* pmix_server_fault_handler: a daemon that failed will not answer
SrGiveUpOn(s, o, x) ==
    SrCheckComplete([s EXCEPT !.rq[o].rep = @ \cup {x},
                              !.rq[o].st = IF @ = "ok" THEN "unreach" ELSE @], o)

SrFaultHandler(s, d, x) ==
    FoldLeft(LAMBDA u, i :
                 IF u.loc[d][i] = 0 THEN u
                 ELSE IF u.rq[u.loc[d][i]].kind # "monitor" THEN u
                 ELSE IF ~SrCounts(u.rq[u.loc[d][i]], x) THEN u
                 ELSE SrGiveUpOn(u, u.loc[d][i], x),
             [s EXCEPT !.failed[d] = @ \cup {x}], [i \in 1 .. Len(s.loc[d]) |-> i])
-----------------------------------------------------------------------------
(***************************************************************************)
(* Steps.                                                                  *)
(***************************************************************************)
\* a client asks; a daemon sees its own clients' requests in order
SrAsk ==
    \E r \in DOMAIN sr.plan.reqs \ sr.asked :
        LET q == sr.plan.reqs[r] IN
        /\ \A x \in 1 .. r - 1 : sr.plan.reqs[x].at = q.at => x \in sr.asked
        /\ sr' = SrAskOne([sr EXCEPT !.asked = @ \cup {r}], q.at, r, q)

SrReceive(s, a, b, m) ==
    CASE m.op = "sched" -> SrSched(s, a, m)
      [] m.op = "launch" -> SrLaunchJob(s, a, m)
      [] m.op = "attach" -> SrToolAttached(s, a, m)
      [] m.op = "log" -> SrLogRecv(s, a, m)
      [] m.op = "monitor" -> SrMonitorRequest(s, b, a, m)
      [] m.op = "sched_resp" -> SrAllocResp(s, b, m)
      [] m.op = "launch_resp" -> SrNotifySpawn(s, b, m)
      [] m.op = "tconn_resp" -> SrTconnReturn(s, b, m)
      [] m.op = "log_resp" -> SrLoggingResp(s, b, m)
      [] m.op = "monitor_resp" -> SrMonitorResp(s, b, a, m)

SrDeliver ==
    \E c \in DOMAIN sr.ch :
        /\ sr.ch[c] # <<>> /\ c[2] \in sr.alive
        /\ sr' = SrReceive([sr EXCEPT !.ch[c] = Tail(@)], c[1], c[2], Head(sr.ch[c]))

SrHandle(s, d, e) ==
    CASE e.op = "begin" -> [s EXCEPT !.work = @ \cup {[op |-> s.rq[e.o].kind, o |-> e.o]}]
      [] e.op = "resp" -> SrSendAllocResp(s, e)
      [] e.op = "release" -> SrClear(s, d, s.rq[e.o].slot)

SrEvent ==
    \E d \in sr.alive :
        /\ sr.ev[d] # <<>>
        /\ sr' = SrHandle([sr EXCEPT !.ev[d] = Tail(@)], d, Head(sr.ev[d]))

SrLogDone(s, w) == SrSend(s, 0, w.d, [w.m EXCEPT !.op = "log_resp"])

SrMonitorDone(s, w) == SrSend(s, w.d, w.from, [w.m EXCEPT !.op = "monitor_resp"])

\* an operation elsewhere, or the PMIx library, is done
SrDone(s, w) ==
    CASE w.op = "alloc" -> SrAllocDone(s, w.o)
      [] w.op = "ctrl" -> SrCtrlDone(s, w.o)
      [] w.op = "free" -> SrPost(s, s.rq[w.o].at, [op |-> "release", o |-> w.o, rel |-> FALSE])
      [] w.op = "register" -> SrAnswer(s, w.r, "ok", w.r)
      [] w.op = "launch" -> SrSend(s, 0, w.d, [w.m EXCEPT !.op = "launch_resp"])
      [] w.op = "log" -> SrLogDone(s, w)
      [] w.op = "monitor" -> SrMonitorDone(s, w)

SrWork == \E w \in sr.work : sr' = SrDone([sr EXCEPT !.work = @ \ {w}], w)

\* a daemon fails; what it had sent may still arrive
SrFail ==
    \E x \in sr.plan.lose \cap sr.alive :
        sr' = [sr EXCEPT !.alive = @ \ {x},
                         !.ch = [c \in DOMAIN @ |-> IF c[2] = x THEN <<>> ELSE @[c]],
                         !.work = {w \in @ : w.op = "monitor" => w.d # x}]

SrFault ==
    \E d \in sr.alive : \E x \in SrDaemons(sr) \ (sr.alive \cup sr.failed[d]) :
        sr' = SrFaultHandler(sr, d, x)

SrNext == SrAsk \/ SrDeliver \/ SrEvent \/ SrWork \/ SrFail \/ SrFault

\* messages arrive, posted events run and operations end
SrSpec == SrInit /\ [][SrNext]_sr /\ WF_sr(SrNext)

-----------------------------------------------------------------------------
(***************************************************************************)
(* Properties.                                                             *)
(***************************************************************************)
\* Every request is answered in the end, once and by the operation it asked
\* for, and no daemon keeps a slot for it: answers find their request by a
\* slot that is given away as soon as its last occupant is retired, and
\* "leaving the requester (e.g., prun) waiting for a completion that will
\* never come" (prte_plm_base_recv) happens to nobody, although daemons fail
\* while they owe a monitor its answer.
SrSettled ==
    /\ \A r \in DOMAIN sr.ans : Len(sr.ans[r]) = 1 /\ sr.ans[r][1].by = r
    /\ \A d \in sr.alive : \A i \in DOMAIN sr.loc[d] : sr.loc[d][i] = 0

\* A monitor that reports success heard from every daemon that was up when it
\* asked; one that reports partial success heard from some of them; and no
\* daemon is counted twice, by its answer and by its failure.
SrMonitorVerdict ==
    \A o \in DOMAIN sr.rq :
        LET q == sr.rq[o] IN
        (q.kind = "monitor" /\ sr.plan.reqs[q.r].how # "nosend") =>
            \A n \in DOMAIN sr.ans[q.r] :
                /\ q.rep = q.exp
                /\ sr.ans[q.r][n].st = "ok" <=> q.good = q.exp
                /\ sr.ans[q.r][n].st = "partial" => q.good # {} /\ q.good # q.exp
=============================================================================

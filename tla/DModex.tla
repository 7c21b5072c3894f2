------------------------------- MODULE DModex -------------------------------
(***************************************************************************)
(* The direct modex: a process asks its daemon A for data another process  *)
(* has published, and A asks the daemon B that hosts that process          *)
(* (src/prted/pmix/pmix_server_fence.c and pmix_server.c).                  *)
(*                                                                         *)
(* A keeps its requests in local_reqs and B the ones it is serving in      *)
(* remote_reqs; both are pointer arrays that hand out the lowest free      *)
(* slot, and a reply names the slot of the request it answers.  B may have *)
(* to wait: for the job's launch message, for the key to be published      *)
(* (a two-second cycle), or for the PMIx library, whose answer arrives on  *)
(* another thread; a timer and the end of the job race all three.  Module  *)
(* Relm models the reliable messages between A and B.                      *)
(***************************************************************************)
EXTENDS Integers, Sequences, FiniteSets, SequencesExt

CONSTANTS DmHost,         \* rank of the job -> who hosts it: "A", "B", "nowhere" (no
                          \* such proc), "unmapped" or "nodaemon"; 0 is the wildcard
          DmMaxDeparted,  \* MAX_DEPARTED_JOBS
          DmPlans         \* a sequence of plans: see DmInit

VARIABLE dm

DmTargets == DOMAIN DmHost
DmDaemons == {"A", "B"}
DmMyJob == 0            \* the job the requests are about; other jobs are 1, 2, ...

ASSUME DmAssumption ==
    /\ 0 \in DmTargets /\ DmTargets \subseteq Nat
    /\ DmMaxDeparted \in Nat \ {0}
    /\ \A n \in DOMAIN DmPlans : \A r \in DOMAIN DmPlans[n].reqs :
           DmPlans[n].reqs[r].t \in DmTargets

(***************************************************************************)
(* A plan: which daemon already knows the job, whether A knows bindings    *)
(* and B still awaits them, the faults, how many other jobs end, and the   *)
(* requests: [kind, t, key, refresh, timeout].  A request of kind "relay"  *)
(* is any other entry of local_reqs that records the proc that asked.      *)
(***************************************************************************)
DmInit ==
    \E n \in DOMAIN DmPlans :
        LET p == DmPlans[n] IN
        dm = [plan |-> p, asked |-> 0,
              job |-> [d \in DmDaemons |-> IF d \in p.knows THEN "known" ELSE "unknown"],
              memo |-> [d \in DmDaemons |-> <<>>],      \* departed_jobs
              await |-> p.await,                        \* prte_odls_base_awaiting_cpusets
              data |-> [t \in DmTargets |-> {}],        \* published, in B's PMIx server
              cache |-> {},                             \* <<proc, key>> A's PMIx server has
              reg |-> "no", regq |-> <<>>, regs |-> 0,  \* the job's registrations at A
              loc |-> <<>>, rem |-> <<>>,               \* local_reqs of A, remote_reqs of B
              rq |-> <<>>,                              \* B's request objects
              lib |-> {}, ev |-> <<>>,                  \* owed by PMIx; posted by modex_resp
              ab |-> <<>>, ba |-> <<>>,                 \* messages
              others |-> p.others,
              ans |-> [r \in DOMAIN p.reqs |-> <<>>]]

-----------------------------------------------------------------------------
(***************************************************************************)
(* Pointer arrays and the record of departed jobs.                         *)
(***************************************************************************)
DmSlot(slots) ==
    CHOOSE i \in 1 .. Len(slots) + 1 :
        /\ i \in DOMAIN slots => slots[i] = 0
        /\ \A j \in 1 .. i - 1 : slots[j] # 0

DmAdd(slots, x) ==
    IF DmSlot(slots) \in DOMAIN slots THEN [slots EXCEPT ![DmSlot(slots)] = x]
    ELSE Append(slots, x)

DmJobHasDeparted(memo, j) == Contains(memo, j)

\* the oldest are forgotten first
DmJobDeparted(memo, j) ==
    IF DmJobHasDeparted(memo, j) THEN memo
    ELSE Append(IF Len(memo) < DmMaxDeparted THEN memo
                ELSE SubSeq(memo, Len(memo) - DmMaxDeparted + 2, Len(memo)), j)

\* PMIX_CHECK_PROCID: the wildcard rank matches every rank of the job
DmSameProc(t, u) == t = u \/ t = 0 \/ u = 0

DmDerivableKey(key) == key \in {"rank", "cpuset"}

-----------------------------------------------------------------------------
(***************************************************************************)
(* The requesting daemon.                                                  *)
(***************************************************************************)
DmAnswer(s, r, st, t, keys) ==
    [s EXCEPT !.ans[r] = Append(@, [st |-> st, t |-> t, keys |-> keys]),
              !.cache = @ \cup {<<t, x>> : x \in keys}]

DmRefuse(s, r, st) == DmAnswer(s, r, st, s.plan.reqs[r].t, {})

DmTrack(s, r) == [s EXCEPT !.loc = DmAdd(@, r)]

DmAlreadyAsked(s, t) ==
    \E i \in DOMAIN s.loc :
        s.loc[i] # 0 /\ DmSameProc(s.plan.reqs[s.loc[i]].t, t)

\* the job-level data of the job: register it with the local PMIx server
DmWildcard(s, r) ==
    IF s.reg = "yes" \/ s.job["A"] = "unmapped" THEN DmRefuse(s, r, "notfound")
    ELSE [s EXCEPT !.regq = Append(@, r), !.regs = @ + 1]

\* track the request, and send it unless the proc is our own
DmSendRequest(s, r, q) ==
    IF DmHost[q.t] = "A" THEN DmTrack(s, r)
    ELSE IF "send" \in s.plan.faults THEN DmRefuse(s, r, "error")
    ELSE [DmTrack(s, r) EXCEPT
             !.ab = Append(@, [t |-> q.t, key |-> q.key, timeout |-> q.timeout,
                               idx |-> DmSlot(s.loc)])]

DmDerivesHere(s, q) ==
    /\ ~q.refresh /\ DmDerivableKey(q.key)
    /\ s.plan.cpuA \/ DmHost[q.t] = "A" \/ q.key # "cpuset"

DmPlaceRequest(s, r, q) ==
    IF q.t = 0 THEN DmWildcard(s, r)
    ELSE IF q.key = "distances" THEN DmRefuse(s, r, "unsupported")
    ELSE IF DmHost[q.t] \in {"nowhere", "unmapped"} THEN DmRefuse(s, r, "notfound")
    ELSE IF DmDerivesHere(s, q) THEN DmAnswer(s, r, "ok", q.t, {"rank", q.key})
    ELSE IF DmHost[q.t] = "nodaemon" THEN DmRefuse(s, r, "notfound")
    ELSE DmSendRequest(s, r, q)

DmRequest(s, r, q) ==
    IF ~q.refresh /\ q.key # "none" /\ <<q.t, q.key>> \in s.cache
    THEN DmAnswer(s, r, "ok", q.t, {q.key})
    ELSE IF DmAlreadyAsked(s, q.t) THEN DmTrack(s, r)
    ELSE IF s.job["A"] \in {"unknown", "gone"}
    THEN IF DmJobHasDeparted(s.memo["A"], DmMyJob) THEN DmRefuse(s, r, "notfound")
         ELSE DmTrack(s, r)
    ELSE DmPlaceRequest(s, r, q)

\* pmix_server_dmdx_resp: the request the reply names, if it is a modex one,
\* and every other modex request for the same proc
DmFor(s, m) ==
    {i \in DOMAIN s.loc :
        /\ s.loc[i] # 0 /\ s.plan.reqs[s.loc[i]].kind = "modex"
        /\ i = m.idx \/ DmSameProc(s.plan.reqs[s.loc[i]].t, m.t)}

DmResp(s, m) ==
    FoldLeft(LAMBDA u, i : IF i \in DmFor(s, m)
                           THEN [DmAnswer(u, s.loc[i], m.st, m.t, m.keys) EXCEPT !.loc[i] = 0]
                           ELSE u,
             [s EXCEPT !.ba = Tail(@)], [i \in 1 .. Len(s.loc) |-> i])

-----------------------------------------------------------------------------
(***************************************************************************)
(* The hosting daemon.                                                     *)
(***************************************************************************)
\* _mdxresp and send_error: one reply, under the slot the peer named
DmReply(s, st, t, idx, keys) ==
    [s EXCEPT !.ba = Append(@, [st |-> st, t |-> t, idx |-> idx, keys |-> keys])]

DmSendError(s, st, m) == DmReply(s, st, m.t, m.idx, {})

\* prte_pmix_server_req_t for message m, in the next slot of remote_reqs
DmNewRq(s, m) ==
    [s EXCEPT !.rem = DmAdd(@, Len(s.rq) + 1),
              !.rq = Append(@, [t |-> m.t, key |-> m.key, idx |-> m.idx,
                                slot |-> DmSlot(s.rem), cycle |-> FALSE,
                                timer |-> m.timeout, inprogress |-> FALSE,
                                out |-> FALSE, freed |-> FALSE])]

DmClearSlot(s, i) ==
    IF s.rq[i].slot = 0 THEN s ELSE [s EXCEPT !.rem[s.rq[i].slot] = 0, !.rq[i].slot = 0]

DmRelease(s, i) ==
    [s EXCEPT !.rq[i].freed = TRUE, !.rq[i].cycle = FALSE, !.rq[i].timer = FALSE]

\* what the job's own record says of a proc (prte_pmix_server_derive_proc_data)
DmDerives(s, key) == DmDerivableKey(key) /\ ~(key = "cpuset" /\ s.await)
DmDerived(s) == IF s.await THEN {"rank"} ELSE {"rank", "cpuset"}

\* dmdx_check's and dmdx_recv's common refusals, in the code's order
DmRefusal(s, t) ==
    IF s.job["B"] \in {"unknown", "gone"}
    THEN IF DmJobHasDeparted(s.memo["B"], DmMyJob) THEN "notfound" ELSE "wait"
    ELSE IF DmHost[t] = "B" THEN "none" ELSE "notfound"

DmLacks(s, t, key) == key # "none" /\ key \notin s.data[t]

\* hand request i to PMIx_server_dmodex_request
DmHand(s, i) ==
    IF "library" \in s.plan.faults
    THEN DmRelease(DmClearSlot(DmSendError(s, "error", s.rq[i]), i), i)
    ELSE [s EXCEPT !.rq[i].inprogress = TRUE, !.lib = @ \cup {i}]

DmParkRq(s) == [s EXCEPT !.rq[Len(s.rq)].cycle = TRUE]

DmServe(s, m) ==
    LET no == DmRefusal(s, m.t) IN
    IF no = "notfound" THEN DmSendError(s, no, m)
    ELSE IF no = "wait" THEN DmParkRq(DmNewRq(s, m))
    ELSE IF DmDerives(s, m.key) THEN DmReply(s, "ok", m.t, m.idx, DmDerived(s))
    ELSE IF DmLacks(s, m.t, m.key) THEN DmParkRq(DmNewRq(s, m))
    ELSE DmHand(DmNewRq(s, m), Len(s.rq) + 1)

\* dmdx_check: the two-second cycle of a parked request
DmFinish(s, i) == DmRelease(DmClearSlot(s, i), i)

DmCheck(s, i) ==
    LET q == s.rq[i]
        no == DmRefusal(s, q.t) IN
    IF no = "notfound" THEN DmFinish(DmSendError(s, no, q), i)
    ELSE IF no = "wait" THEN s
    ELSE IF DmDerives(s, q.key)
    THEN DmFinish(DmReply(s, "ok", q.t, q.idx, DmDerived(s)), i)
    ELSE IF DmLacks(s, q.t, q.key) THEN s
    ELSE DmHand([s EXCEPT !.rq[i].cycle = FALSE], i)

DmHeld(q) == q.inprogress

\* timeout_cbfunc: a remote request's timer
DmKeepCycle(s, i) ==
    [DmClearSlot(DmSendError(s, "timeout", s.rq[i]), i) EXCEPT
        !.rq[i].out = TRUE, !.rq[i].timer = FALSE]
DmTimeoutCb(s, i) ==
    LET u == [DmClearSlot(DmSendError(s, "timeout", s.rq[i]), i) EXCEPT
                 !.rq[i].out = TRUE, !.rq[i].timer = FALSE, !.rq[i].cycle = FALSE] IN
    IF DmHeld(s.rq[i]) THEN u ELSE DmRelease(u, i)

\* _modex_resp and _mdxresp: the library's answer, on our own thread
DmModexResp(s, e) ==
    LET u == [DmClearSlot(s, e.rq) EXCEPT
                 !.rq[e.rq].timer = FALSE, !.rq[e.rq].cycle = FALSE,
                 !.rq[e.rq].inprogress = FALSE] IN
    DmRelease(IF s.rq[e.rq].out THEN u
              ELSE DmReply(u, e.st, s.rq[e.rq].t, s.rq[e.rq].idx, e.keys), e.rq)

\* prte_pmix_server_clear: the job is over, nobody will publish anything more
DmForget(s, i) ==
    [DmClearSlot(s, i) EXCEPT !.rq[i].timer = FALSE, !.rq[i].cycle = FALSE]

DmDropOne(s, i) ==
    IF s.rq[i].inprogress THEN DmForget(s, i) ELSE DmRelease(DmForget(s, i), i)
DmClearOne(s, i) ==
    IF s.rq[i].inprogress THEN DmForget(s, i)
    ELSE DmRelease(DmSendError(DmForget(s, i), "notfound", s.rq[i]), i)

DmClear(s) ==
    FoldLeft(LAMBDA u, n : IF u.rem[n] = 0 THEN u ELSE DmClearOne(u, u.rem[n]),
             s, [n \in 1 .. Len(s.rem) |-> n])
-----------------------------------------------------------------------------
(***************************************************************************)
(* Steps.                                                                  *)
(***************************************************************************)
\* DMX_REQ shifts a client's request to the daemon's thread
DmAsk ==
    /\ dm.asked < Len(dm.plan.reqs)
    /\ LET r == dm.asked + 1
           s == [dm EXCEPT !.asked = r]
           q == dm.plan.reqs[r] IN
       dm' = IF q.kind = "relay" THEN DmTrack(s, r) ELSE DmRequest(s, r, q)

\* a request of another kind is answered under its own slot
DmRelayEnds ==
    \E i \in DOMAIN dm.loc :
        /\ dm.loc[i] # 0 /\ dm.plan.reqs[dm.loc[i]].kind = "relay"
        /\ dm' = [DmRefuse(dm, dm.loc[i], "done") EXCEPT !.loc[i] = 0]

\* wildcard_reg_complete: the job is registered with A's PMIx server
DmRegComplete ==
    /\ dm.regq # <<>>
    /\ dm' = [DmAnswer(dm, Head(dm.regq), "ok", 0, {"size"}) EXCEPT
                 !.reg = "yes", !.regq = Tail(@)]

DmRecv ==
    /\ dm.ab # <<>>
    /\ dm' = DmServe([dm EXCEPT !.ab = Tail(@)], Head(dm.ab))

DmRespond == dm.ba # <<>> /\ dm' = DmResp(dm, Head(dm.ba))

DmCycle == \E i \in DOMAIN dm.rq : dm.rq[i].cycle /\ dm' = DmCheck(dm, i)

DmTimeout == \E i \in DOMAIN dm.rq : dm.rq[i].timer /\ dm' = DmTimeoutCb(dm, i)

\* modex_resp, on the PMIx thread: the library answers once the proc has
\* published something or its job is over
DmLibrary ==
    \E i \in dm.lib :
        /\ dm.data[dm.rq[i].t] # {} \/ dm.job["B"] = "gone"
        /\ dm' = [dm EXCEPT
                     !.lib = @ \ {i},
                     !.ev = Append(@, [rq |-> i, keys |-> dm.data[dm.rq[i].t],
                                       st |-> IF dm.data[dm.rq[i].t] = {} THEN "notfound"
                                              ELSE "ok"])]

DmLibraryResp ==
    /\ dm.ev # <<>>
    /\ dm' = DmModexResp([dm EXCEPT !.ev = Tail(@)], Head(dm.ev))

\* a proc publishes the next of its keys
DmCommit ==
    \E t \in DOMAIN dm.plan.puts :
        /\ dm.job["B"] = "known"
        /\ Cardinality(dm.data[t]) < Len(dm.plan.puts[t])
        /\ dm' = [dm EXCEPT !.data[t] = @ \cup {dm.plan.puts[t][Cardinality(@) + 1]}]

DmCpusets == dm.await /\ dm.job["B"] = "known" /\ dm' = [dm EXCEPT !.await = FALSE]

DmLaunched ==
    \E d \in DmDaemons : dm.job[d] = "unknown" /\ dm' = [dm EXCEPT !.job[d] = "known"]

\* the job completes: where A is the master its map is released at once
DmComplete == dm.job["A"] = "known" /\ dm' = [dm EXCEPT !.job["A"] = "unmapped"]

\* PRTE_DAEMON_CONT_CLEANUP_JOB and cleanup_job: the job is over at d
DmCleanup ==
    \E d \in DmDaemons :
        /\ dm.job[d] \in {"known", "unmapped"}
        /\ LET s == [dm EXCEPT !.job[d] = "gone",
                              !.memo[d] = DmJobDeparted(@, DmMyJob)] IN
           dm' = IF d = "A" THEN [s EXCEPT !.cache = {}]
                 ELSE [DmClear(s) EXCEPT !.data = [t \in DmTargets |-> {}]]

\* another job the two daemons host ends
DmOtherDeparts ==
    /\ dm.others > 0
    /\ dm' = [dm EXCEPT !.others = @ - 1,
                        !.memo = [d \in DmDaemons |-> DmJobDeparted(dm.memo[d], dm.others)]]

DmNext ==
    \/ DmAsk \/ DmRelayEnds \/ DmRegComplete \/ DmRecv \/ DmRespond \/ DmCycle \/ DmTimeout
    \/ DmLibrary \/ DmLibraryResp \/ DmCommit \/ DmCpusets \/ DmLaunched \/ DmComplete
    \/ DmCleanup \/ DmOtherDeparts

\* every step is a timer, a message in flight, an event already posted or a
\* job running its course; all of them happen in time
DmSpec == DmInit /\ [][DmNext]_dm /\ WF_dm(DmNext)

-----------------------------------------------------------------------------
(***************************************************************************)
(* Properties.                                                             *)
(***************************************************************************)

\* A request is answered at most once, by a reply about the proc it asked
\* for.  A slot is reused at once, so a second reply, or one sent after its slot was
\* given away, lands on a stranger (timeout_cbfunc, prte_pmix_server_clear
\* and _mdxresp race for the one reply; pmix_server_dmdx_resp trusts the slot).
DmOwnAnswer ==
    \A r \in DOMAIN dm.ans :
        /\ Len(dm.ans[r]) <= 1
        /\ \A n \in DOMAIN dm.ans[r] : DmSameProc(dm.ans[r][n].t, dm.plan.reqs[r].t)

\* A request object that was released is in no slot, has no timer armed, is
\* not in the PMIx library's hands and not in a posted event; and a slot
\* belongs to the request that believes it does.
DmNoStaleRequest ==
    /\ \A i \in DOMAIN dm.rq : dm.rq[i].freed =>
          /\ ~dm.rq[i].cycle /\ ~dm.rq[i].timer /\ i \notin dm.lib
          /\ \A n \in DOMAIN dm.ev : dm.ev[n].rq # i
    /\ \A n \in DOMAIN dm.rem : dm.rem[n] # 0 =>
          ~dm.rq[dm.rem[n]].freed /\ dm.rq[dm.rem[n]].slot = n

\* Every request is answered, and the hosting daemon keeps none, whatever
\* comes first: the data, the timeout, or the end of the job.
DmSettled ==
    /\ \A r \in DOMAIN dm.ans : Len(dm.ans[r]) = 1
    /\ \A n \in DOMAIN dm.rem : dm.rem[n] = 0

\* A key that is answered with success is in the data that came back: "If
\* so, then the data is already on its way" (dmodex_req).
\* It does not hold: see the README on where the code disagrees.
DmAskedIsAnswered ==
    \A r \in DOMAIN dm.ans : \A n \in DOMAIN dm.ans[r] :
        dm.ans[r][n].st = "ok" => dm.plan.reqs[r].key \in dm.ans[r][n].keys \cup {"none"}

\* "A daemon registers a given namespace exactly once" (dmodex_req).
\* It does not hold: see the README on where the code disagrees.
DmRegisteredOnce == dm.regs <= 1

\* Requests for modex data and the replies to them are never mixed up, whatever
\* reuses their slots.
DmSound == DmOwnAnswer /\ DmNoStaleRequest

=============================================================================

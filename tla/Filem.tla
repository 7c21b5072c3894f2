------------------------------- MODULE Filem --------------------------------
(***************************************************************************)
(* Pre-positioning of files (src/mca/filem/raw/filem_raw_module.c): before *)
(* a job is launched the head node (HNP, rank 0) broadcasts the files the  *)
(* job asks for, in chunks, to every daemon; a daemon acknowledges a file  *)
(* once, at its end; when the last transfer of a request retires the       *)
(* request's callback tells the job, which is then launched, and every     *)
(* daemon places the staged files in the job's working directory.          *)
(*                                                                         *)
(* The chunks ride the ordered broadcast (grpcomm xcast) and the           *)
(* acknowledgements the reliable messages (RELM) that modules Xcast and    *)
(* Relm model; here both are reliable and in order per daemon.  Daemons    *)
(* depart and join while files travel.                                     *)
(***************************************************************************)
EXTENDS Integers, Sequences, FiniteSets, SequencesExt

CONSTANTS FmRanks,   \* the ranks daemons may ever have, 0 (the HNP) among them
          FmWindow,  \* prte_filem_raw_chunk_window
          FmKind,    \* file name -> "file", "exe" or "tar"
          FmSize,    \* file name -> number of data chunks of its source
          FmPlans    \* what a run does: see FmPlanned

FmFiles == DOMAIN FmKind

(***************************************************************************)
(* A plan: the first daemons, each job's preload list (a sequence of       *)
(* [src, name]), the faults that may strike once, and the daemons that may *)
(* depart or join.                                                         *)
(***************************************************************************)
FmPlanned(p) ==
    /\ 0 \in p.first /\ p.first \subseteq FmRanks
    /\ p.lose \subseteq FmRanks \ {0} /\ p.join \subseteq FmRanks \ p.first
    /\ p.first = 0 .. Cardinality(p.first) - 1

ASSUME FmAssumption ==
    /\ 0 \in FmRanks /\ FmRanks \subseteq Nat
    /\ FmWindow \in Nat \ {0}
    /\ DOMAIN FmSize = FmFiles
    /\ \A p \in FmPlans : FmPlanned(p)

VARIABLE fm

FmJobs == DOMAIN fm.plan.jobs

\* prte_filem_raw_incoming_t before the first chunk
FmNoIncoming == [there |-> FALSE, open |-> FALSE, kind |-> "unknown",
                 outs |-> <<>>, pend |-> FALSE, links |-> FALSE, got |-> <<>>]

FmInit ==
    \E p \in FmPlans :
        fm = [plan |-> p,
              here |-> p.first,                   \* daemons that run
              num |-> Cardinality(p.first),       \* prte_process_info.num_daemons
              span |-> Cardinality(p.first),      \* num_procs of the daemon job
              gone |-> {},                        \* lost, COMM_FAILED still queued
              faults |-> p.faults,
              abort |-> FALSE,                    \* prte_dvm_abort_ordered
              next |-> 0,                         \* serial of the next transfer
              xfers |-> <<>>,                     \* the transfers of outbound_files
              pos |-> <<>>,                       \* positioned_files
              outs |-> [j \in DOMAIN p.jobs |-> [st |-> "none", status |-> "ok", told |-> 0]],
              ops |-> <<>>,                       \* broadcasts not yet complete
              inc |-> [d \in FmRanks |-> [f \in FmFiles |-> FmNoIncoming]],
              acks |-> [d \in FmRanks |-> <<>>],  \* on their way to the HNP
              wdir |-> [d \in FmRanks |-> [f \in FmFiles |-> <<>>]],
              ran |-> [j \in DOMAIN p.jobs |-> [d \in FmRanks |-> "no"]],
              hist |-> {}]        \* history, for the properties: see below

(***************************************************************************)
(* hist records four races the code does not handle, so that the          *)
(* properties can except them:                                             *)
(*   "shared"  a request was answered by the transfer another job had      *)
(*             under way, or by one that had failed;                       *)
(*   "mixed"   two jobs sent different files under one name together;      *)
(*   "stray"   a transfer counted a departed daemon when it began;         *)
(*   "late"    a daemon joined while a file was travelling: it gets the    *)
(*             later chunks without the first.                             *)
(***************************************************************************)
FmNote(s, what, cond) == [s EXCEPT !.hist = IF cond THEN @ \cup {what} ELSE @]

\* Take a fault if the plan has it left.
FmHas(s, k) == k \in s.faults
FmSpend(s, k) == [s EXCEPT !.faults = @ \ {k}]

-----------------------------------------------------------------------------
(* The HNP *)

\* outbound->cbfunc = files_ready: a success launches the job (the launch
\* message is a broadcast too), anything else fails it.
FmTell(s, j) ==
    LET t == [s EXCEPT !.outs[j].st = "done", !.outs[j].told = @ + 1]
    IN  IF s.outs[j].status = "ok"
        THEN [t EXCEPT !.ops = Append(@, [what |-> "launch", job |-> j, wait |-> s.here])]
        ELSE t

FmIndexOf(s, id) == CHOOSE i \in DOMAIN s.xfers : s.xfers[i].id = id
FmLive(s, id) == \E i \in DOMAIN s.xfers : s.xfers[i].id = id

\* xfer_retire
FmRetire(s, id, status, positioned) ==
    LET i == FmIndexOf(s, id)
        x == s.xfers[i]
        t == [s EXCEPT !.xfers = RemoveAt(@, i),
                       !.pos = IF positioned THEN Append(@, x) ELSE @,
                       !.outs[x.job].status = IF status = "ok" THEN @ ELSE status]
    IN  IF \E k \in DOMAIN t.xfers : t.xfers[k].job = x.job THEN t ELSE FmTell(t, x.job)

\* xfer_check_complete
FmCheckComplete(s, id) ==
    LET x == s.xfers[FmIndexOf(s, id)]
    IN  IF x.open \/ x.recvd < x.expected THEN s
        ELSE FmRetire(s, id, x.status, TRUE)

\* ... and if it never took an acknowledgement back
FmCreditKeeps(x, d) ==
    IF d >= x.horizon THEN x
    ELSE [x EXCEPT !.expected = IF @ > 0 THEN @ - 1 ELSE @]

\* credit_departures, for one rank
FmCredit(x, d) ==
    IF d >= x.horizon THEN x
    ELSE [x EXCEPT !.recvd = IF d \in x.acked /\ @ > 0 THEN @ - 1 ELSE @,
                   !.acked = @ \ {d},
                   !.expected = IF @ > 0 THEN @ - 1 ELSE @]


\* raw_fault_handler
FmFaultHandler(s, d) ==
    LET t == [s EXCEPT !.pos = [i \in DOMAIN @ |-> FmCredit(@[i], d)],
                       !.xfers = [i \in DOMAIN @ |-> FmCredit(@[i], d)]]
    IN  FoldLeft(LAMBDA u, x : FmCheckComplete(u, x.id), t, s.xfers)

\* The checks of raw_preposition_files on the list as a whole: a name that
\* leaves the session directory, and two sources under one name.
FmRefused(asks) ==
    IF \E i \in DOMAIN asks : asks[i].name \notin FmFiles THEN "bad_param"
    ELSE IF \E i, k \in DOMAIN asks : asks[i].name = asks[k].name /\ asks[i].src # asks[k].src
    THEN "conflict" ELSE "ok"

FmSame(x, a) == x.file = a.name /\ x.src = a.src

\* "Have we already sent this file, under this name, to this many daemons?"
FmCovers(s, x, a) == FmSame(x, a) /\ x.recvd >= s.num

FmNewXfer(s, j, a) ==
    [id |-> s.next, file |-> a.name, src |-> a.src, job |-> j, open |-> TRUE, pend |-> TRUE,
     n |-> 0, inflight |-> 0, paused |-> FALSE, status |-> "ok",
     expected |-> s.num, recvd |-> 0, acked |-> {}, horizon |-> s.span]

\* One turn of the loop of raw_preposition_files over the files of a request.
FmPlaceOne(s, j, a) ==
    LET old == {i \in DOMAIN s.pos : FmCovers(s, s.pos[i], a)}
        sending == {i \in DOMAIN s.xfers : FmSame(s.xfers[i], a)}
        mixed == \E i \in DOMAIN s.xfers : s.xfers[i].file = a.name
    IN  IF s.outs[j].status # "ok" THEN s
        ELSE IF old # {}
        THEN FmNote(s, "shared", \A i \in old : s.pos[i].status # "ok")
        ELSE IF sending # {}
        THEN FmNote(s, "shared", \E i \in sending : s.xfers[i].job # j)
        ELSE IF FmHas(s, <<"open", a.name>>)
        THEN [FmSpend(s, <<"open", a.name>>) EXCEPT !.outs[j].status = "no_file"]
        ELSE FmNote(FmNote([s EXCEPT !.pos = SelectSeq(@, LAMBDA x : ~FmSame(x, a)),
                                     !.xfers = Append(@, FmNewXfer(s, j, a)),
                                     !.next = @ + 1],
                           "stray", s.num # Cardinality(s.here)),
                    "mixed", mixed)

\* raw_preposition_files, called when the job reaches VM_READY
FmPreposition(s, j) ==
    LET asks == s.plan.jobs[j]
        t == [s EXCEPT !.outs[j] = [st |-> "open", status |-> FmRefused(asks), told |-> 0]]
        u == FoldLeft(LAMBDA v, a : FmPlaceOne(v, j, a), t, asks)
    IN  IF t.outs[j].status # "ok" THEN FmTell(t, j)
        ELSE IF \E i \in DOMAIN u.xfers : u.xfers[i].job = j THEN u ELSE FmTell(u, j)

\* send_chunk: one read of the file, broadcast; nothing read is the end.
FmSendChunk(s, id) ==
    LET i == FmIndexOf(s, id)
        x == s.xfers[i]
        bad == FmHas(s, <<"read", x.file>>)
        eof == bad \/ x.n = FmSize[x.file]
        y == [x EXCEPT !.n = @ + 1, !.inflight = @ + 1, !.open = ~eof,
                       !.status = IF bad THEN "read" ELSE @,
                       !.paused = ~eof /\ x.inflight + 1 >= FmWindow,
                       !.pend = ~eof /\ x.inflight + 1 < FmWindow]
        op == [what |-> "chunk", id |-> id, file |-> x.file, src |-> x.src,
               n |-> x.n, eof |-> eof, wait |-> s.here]
        t == FmSpend(s, <<"read", x.file>>)
    IN  IF s.abort
        THEN FmRetire([s EXCEPT !.xfers[i].open = FALSE], id, "cancelled", FALSE)
        ELSE [t EXCEPT !.xfers[i] = y, !.ops = Append(@, op)]

\* chunk_delivered
FmChunkDelivered(s, id) ==
    LET i == FmIndexOf(s, id)
        x == s.xfers[i]
        n == IF x.inflight > 0 THEN x.inflight - 1 ELSE 0
        go == x.paused /\ x.open /\ n < FmWindow
    IN  IF ~FmLive(s, id) THEN s
        ELSE [s EXCEPT !.xfers[i] = [x EXCEPT !.inflight = n,
                                              !.paused = @ /\ ~go,
                                              !.pend = @ \/ go]]

\* recv_ack: the first transfer of that name takes the acknowledgement.
FmRecvAck(s, d, m) ==
    LET hit == {i \in DOMAIN s.xfers : s.xfers[i].file = m.file}
        i == CHOOSE k \in hit : \A l \in hit : k <= l
        x == s.xfers[i]
        y == [x EXCEPT !.status = IF m.st = "ok" THEN @ ELSE m.st,
                       !.recvd = IF d \in x.acked THEN @ ELSE @ + 1,
                       !.acked = @ \cup {d}]
    IN  IF hit = {} THEN s ELSE FmCheckComplete([s EXCEPT !.xfers[i] = y], x.id)

-----------------------------------------------------------------------------
(* A daemon *)

\* send_complete
FmSendComplete(s, d, f, st) ==
    [s EXCEPT !.acks[d] = Append(@, [file |-> f, st |-> st])]

\* recv_files: a chunk joins the outputs of its file; chunk 0 opens it.
FmRecvFiles(s, d, op) ==
    LET f == op.file
        old == s.inc[d][f]
        bad == op.n = 0 /\ FmHas(s, <<"create", d>>)
        new == IF op.n = 0
               THEN [old EXCEPT !.open = TRUE, !.kind = FmKind[f], !.got = <<>>]
               ELSE old
    IN  IF bad
        THEN FmSendComplete([FmSpend(s, <<"create", d>>) EXCEPT !.inc[d][f] = FmNoIncoming],
                            d, f, "write")
        ELSE [s EXCEPT !.inc[d][f] =
                  [new EXCEPT !.there = TRUE, !.pend = TRUE,
                              !.outs = Append(@, [eof |-> op.eof, src |-> op.src])]]

\* write_handler at the end of a file: a plain file is one link point, an
\* archive is unpacked and its members are.
FmEndOfFile(s, d, f) ==
    LET i == s.inc[d][f]
        t == [s EXCEPT !.inc[d][f].open = FALSE]
    IN  IF i.kind = "unknown" THEN FmSendComplete(t, d, f, "write")
        ELSE IF i.kind = "tar" /\ FmHas(s, <<"extract", d>>)
        THEN FmSendComplete(FmSpend(t, <<"extract", d>>), d, f, "write")
        ELSE FmSendComplete([t EXCEPT !.inc[d][f].links = TRUE], d, f, "ok")

\* write_handler for the output at the head of the list
FmWriteOne(s, d, f) ==
    LET i == s.inc[d][f]
        o == Head(i.outs)
        t == [s EXCEPT !.inc[d][f].outs = Tail(@)]
        bad == ~i.open \/ FmHas(s, <<"write", d>>)
    IN  IF o.eof THEN FmEndOfFile(t, d, f)
        ELSE IF bad
        THEN FmSendComplete([FmSpend(s, <<"write", d>>) EXCEPT !.inc[d][f] = FmNoIncoming],
                            d, f, "write")
        ELSE [t EXCEPT !.inc[d][f].got = Append(@, o.src)]

\* write_handler: writes up to the end of the file or of the list.
FmWriteHandler(s, d, f) ==
    LET stop(t) == \/ t.inc[d][f].outs = <<>>
                   \/ Len(t.acks[d]) > Len(s.acks[d])
    IN  FoldLeft(LAMBDA t, k : IF stop(t) THEN t ELSE FmWriteOne(t, d, f),
                 [s EXCEPT !.inc[d][f].pend = FALSE],
                 [k \in 1 .. Len(s.inc[d][f].outs) |-> k])

\* same_contents
FmSameContents(s, d, f) == s.wdir[d][f] = s.inc[d][f].got

\* create_link: a preloaded binary is linked unless something is there.
FmCreateLink(s, d, f) == IF s.wdir[d][f] = <<>> THEN "new" ELSE "kept"

\* place_file: any other file is copied, and may only meet its own contents.
FmPlaceFile(s, d, f) ==
    IF s.wdir[d][f] = <<>> THEN "new"
    ELSE IF FmSameContents(s, d, f) THEN "kept" ELSE "collision"

FmPlace(s, d, f) == IF FmKind[f] = "exe" THEN FmCreateLink(s, d, f) ELSE FmPlaceFile(s, d, f)

\* raw_link_local_files when a daemon starts the job's processes
FmLinkLocalFiles(s, d, j) ==
    LET names == {s.plan.jobs[j][i].name : i \in DOMAIN s.plan.jobs[j]}
        staged == {f \in names : s.inc[d][f].there /\ s.inc[d][f].links}
        out == IF \E f \in staged : FmPlace(s, d, f) = "collision" THEN "collision"
               ELSE IF \E f \in names : ~s.inc[d][f].there THEN "missing"
               ELSE "started"
    IN  [s EXCEPT !.ran[j][d] = out,
                  !.wdir[d] = [f \in FmFiles |->
                      IF f \in staged /\ FmPlace(s, d, f) = "new" THEN s.inc[d][f].got
                      ELSE @[f]]]

-----------------------------------------------------------------------------
(* The system *)

\* A job reaches VM_READY.  The jobs come in their order.
FmRequest(j) ==
    /\ fm.outs[j].st = "none" /\ \A k \in 1 .. j - 1 : fm.outs[k].st # "none"
    /\ fm' = FmPreposition(fm, j)

FmChunkEvent ==
    \E i \in DOMAIN fm.xfers :
        /\ fm.xfers[i].pend
        /\ fm' = FmSendChunk(fm, fm.xfers[i].id)

\* The next broadcast a daemon has not had reaches it, in order.
FmArrive(d) ==
    LET mine == {i \in DOMAIN fm.ops : d \in fm.ops[i].wait}
        i == CHOOSE k \in mine : \A l \in mine : k <= l
        op == fm.ops[i]
        s == [fm EXCEPT !.ops[i].wait = @ \ {d}]
    IN  /\ mine # {}
        /\ fm' = IF op.what = "launch" THEN FmLinkLocalFiles(s, d, op.job)
                 ELSE FmRecvFiles(s, d, op)

\* A broadcast is complete everywhere: chunk_delivered runs at the HNP.
FmBroadcastDone ==
    /\ fm.ops # <<>> /\ Head(fm.ops).wait = {}
    /\ fm' = LET s == [fm EXCEPT !.ops = Tail(@)]
             IN  IF Head(fm.ops).what = "launch" THEN s
                 ELSE FmChunkDelivered(s, Head(fm.ops).id)

FmWriteEvent(d) ==
    \E f \in FmFiles :
        /\ d \in fm.here /\ fm.inc[d][f].pend
        /\ fm' = FmWriteHandler(fm, d, f)

FmAckEvent(d) ==
    /\ fm.acks[d] # <<>>
    /\ fm' = FmRecvAck([fm EXCEPT !.acks[d] = Tail(@)], d, Head(fm.acks[d]))

\* prte_rml_route_lost repairs the tree and runs the fault handlers; the
\* COMM_FAILED event it leaves behind is what lowers num_daemons.
FmRouteLost(d) ==
    /\ d \in fm.plan.lose \cap fm.here
    /\ fm' = FmFaultHandler([fm EXCEPT !.here = @ \ {d}, !.gone = @ \cup {d},
                                       !.acks[d] = <<>>,
                                       !.ops = [i \in DOMAIN @ |->
                                                   [@[i] EXCEPT !.wait = @ \ {d}]]], d)

FmCommFailed(d) ==
    /\ d \in fm.gone
    /\ fm' = [fm EXCEPT !.gone = @ \ {d}, !.num = @ - 1]

\* A daemon joins: prte_plm_base_setup_virtual_machine sets num_daemons to
\* the span of the ranks; the newcomer misses the broadcasts under way.
FmJoin(d) ==
    /\ d \in fm.plan.join /\ d = fm.span
    /\ fm' = FmNote([fm EXCEPT !.here = @ \cup {d}, !.span = d + 1, !.num = d + 1],
                    "late", fm.xfers # <<>>)

FmAbortOrdered ==
    /\ FmHas(fm, <<"abort">>)
    /\ fm' = [FmSpend(fm, <<"abort">>) EXCEPT !.abort = TRUE]

FmNext ==
    \/ \E j \in FmJobs : FmRequest(j)
    \/ FmChunkEvent \/ FmBroadcastDone \/ FmAbortOrdered
    \/ \E d \in FmRanks : \/ FmArrive(d) \/ FmWriteEvent(d) \/ FmAckEvent(d)
                          \/ FmRouteLost(d) \/ FmCommFailed(d) \/ FmJoin(d)

\* The progress threads keep running their events; faults, departures and
\* joins are not owed.
FmProgress ==
    \/ \E j \in FmJobs : FmRequest(j)
    \/ FmChunkEvent \/ FmBroadcastDone
    \/ \E d \in FmRanks : FmArrive(d) \/ FmWriteEvent(d) \/ FmAckEvent(d) \/ FmCommFailed(d)

FmSpec == FmInit /\ [][FmNext]_fm /\ WF_fm(FmProgress)

-----------------------------------------------------------------------------
(***************************************************************************)
(* A daemon that starts a job's processes has every file the job asked     *)
(* for, whole, in the working directory: departures and joins never make   *)
(* the HNP tell a job that its files are in place when some daemon lacks   *)
(* them (raw_link_local_files, filem_raw_module.c:1333).                   *)
(***************************************************************************)
FmStartsWithFiles ==
    \A j \in FmJobs : \A d \in FmRanks :
        fm.ran[j][d] \in {"started", "missing"} /\ fm.hist = {} =>
            \A i \in DOMAIN fm.plan.jobs[j] :
                LET a == fm.plan.jobs[j][i]
                IN  fm.wdir[d][a.name] = [k \in 1 .. FmSize[a.name] |-> a.src]

(***************************************************************************)
(* Every request is answered, once: whatever daemons depart while its      *)
(* files travel, the job does not hang at VM_READY (the fault handler's    *)
(* purpose, filem_raw_module.c:205).  Excepted are a transfer that counted *)
(* a departed daemon from the start, and two that answer to one name.      *)
(***************************************************************************)
FmSettled ==
    fm.hist \cap {"stray", "mixed"} # {} \/ \A j \in FmJobs : fm.outs[j].told = 1
=============================================================================

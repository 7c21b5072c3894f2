-------------------------------- MODULE Iof ---------------------------------
(***************************************************************************)
(* I/O forwarding (src/mca/iof): the standard input of a tool goes to the  *)
(* processes that pulled it, through the head node (HNP) and the daemons,  *)
(* with XOFF and XON to hold the producer back; the output of every        *)
(* process goes to the HNP, which relays it to the daemons whose tools     *)
(* asked for it.  Messages are reliable and in order (Relm, Xcast).  The   *)
(* pipes, and the suspension of the producer by the PMIx library, are the  *)
(* environment.                                                            *)
(***************************************************************************)
EXTENDS Integers, Sequences, FiniteSets, SequencesExt

CONSTANTS IoDaemons,   \* the daemons other than the HNP
          IoHnp,
          IoMaxBuffers,  \* PRTE_IOF_MAX_INPUT_BUFFERS
          IoPipe,        \* bytes a process's stdin pipe holds
          IoPlans        \* what a run does: see IoPlanned

IoNodes == IoDaemons \cup {IoHnp}
IoStreams == {"stdout", "stderr"}

\* A plan: where the processes run, where the job's tool is (originator) and
\* where it pushes stdin, to which process or to all, how many chunks; what
\* each process writes on each stream; who may close its stdin early; which
\* daemons' tools may ask for the output.
IoPlanned(p) ==
    /\ \A q \in DOMAIN p.loc : p.loc[q] \in IoNodes
    /\ p.tool \in IoNodes /\ p.push \in IoNodes /\ p.pulls \subseteq IoDaemons
    /\ p.target \in DOMAIN p.loc \cup {"all"}
    /\ p.quits \subseteq DOMAIN p.loc

ASSUME IoAssumption ==
    /\ IoHnp \notin IoDaemons
    /\ IoMaxBuffers \in Nat /\ IoPipe \in Nat \ {0}
    /\ \A p \in IoPlans : IoPlanned(p)

VARIABLE io

IoProcs == DOMAIN io.plan.loc
IoTargets == IF io.plan.target = "all" THEN IoProcs ELSE {io.plan.target}

\* Chunk k of stdin is the two bytes 2k-1 and 2k; the end is an empty chunk.
IoChunk(k, n) == IF k > n THEN <<>> ELSE <<2 * k - 1, 2 * k>>

\* IOF_SINK_DEFINE and IOF_READ_EVENT: what a node holds for a local process
IoNewProc == [sink |-> TRUE, wev |-> TRUE, outs |-> <<>>, pend |-> FALSE,
              revs |-> IoStreams, done |-> 0]

IoInit ==
    \E p \in IoPlans :
        io = [plan |-> p,
              at |-> [q \in DOMAIN p.loc |-> IoNewProc],     \* the node's entry for q
              pipe |-> [q \in DOMAIN p.loc |-> <<>>],        \* stdin, in the pipe
              read |-> [q \in DOMAIN p.loc |-> <<>>],        \* stdin, read
              shut |-> [q \in DOMAIN p.loc |-> FALSE],       \* q closed its stdin
              wrote |-> [q \in DOMAIN p.loc |-> [t \in IoStreams |-> 0]],
              buf |-> [q \in DOMAIN p.loc |-> [t \in IoStreams |-> <<>>]],
              gone |-> [q \in DOMAIN p.loc |-> FALSE],       \* q has exited
              pushed |-> 0,                                  \* chunks the tool sent
              stopped |-> FALSE,                             \* producer suspended
              xoff |-> [n \in IoNodes |-> FALSE],            \* component.xoff
              down |-> [n \in IoNodes |-> <<>>],             \* HNP to node
              up |-> [n \in IoDaemons |-> <<>>],             \* daemon to HNP
              pulled |-> {},                                 \* jdata->iof_daemons
              seen |-> [n \in IoNodes |-> <<>>],             \* PMIx_server_IOF_deliver
              held |-> FALSE]   \* history: a daemon's sink ended under XOFF

\* PMIx_server_IOF_flow_control at the HNP: only a producer there is reached.
IoFlow(s, stop) == [s EXCEPT !.stopped = stop /\ s.plan.push = IoHnp]

-----------------------------------------------------------------------------
(* Standard input *)

\* prte_iof_base_adjust_short_write
IoAdjustShortWrite(chunk, n) == SubSeq(chunk, n + 1, Len(chunk))

\* prte_iof_base_write_output: a sink whose channel is gone takes nothing.
IoWriteOutput(s, q, c) ==
    IF ~s.at[q].wev THEN s
    ELSE [s EXCEPT !.at[q].outs = Append(@, c), !.at[q].pend = TRUE]

IoBackedUp(s, q) == Len(s.at[q].outs) > IoMaxBuffers

\* prte_iof_prted_send_xonxoff
IoSendXonXoff(s, n, stop) ==
    [s EXCEPT !.up[n] = Append(@, [what |-> IF stop THEN "xoff" ELSE "xon"]),
              !.xoff[n] = stop]

\* release_flow_control, at the HNP
IoRelease(s) ==
    IF s.xoff[IoHnp] THEN IoFlow([s EXCEPT !.xoff[IoHnp] = FALSE], FALSE) ELSE s

\* prte_iof_prted_recv of stdin: to every local process it is meant for
IoPrtedStdin(s, n, m) ==
    LET mine == {q \in DOMAIN s.plan.loc :
                    s.plan.loc[q] = n /\ m.to \in {q, "all"} /\ s.at[q].sink}
        t == FoldLeft(LAMBDA u, q : IoWriteOutput(u, q, m.c), s, SetToSeq(mine))
    IN  IF (\E q \in mine : IoBackedUp(t, q)) /\ ~t.xoff[n]
        THEN IoSendXonXoff(t, n, TRUE) ELSE t

\* prte_iof_hnp_stdin_recv: the HNP's own copy of a broadcast
IoHnpStdin(s, m) ==
    LET mine == {q \in DOMAIN s.plan.loc : s.plan.loc[q] = IoHnp /\ s.at[q].sink}
    IN  FoldLeft(LAMBDA u, q : IoWriteOutput(u, q, m.c), s, SetToSeq(mine))

\* prte_iof_hnp_send_data_to_endpoint: one daemon, or a broadcast
IoSendTo(s, nodes, m) ==
    [s EXCEPT !.down = [n \in IoNodes |-> IF n \in nodes THEN Append(@[n], m) ELSE @[n]]]

\* push_stdin returns PRTE_ERR_OUT_OF_RESOURCE.
IoNoRoom(s, to) == to # "all" /\ s.plan.loc[to] = IoHnp /\ s.at[to].sink /\ IoBackedUp(s, to)

\* push_stdin of the HNP module
IoHnpPush(s, to, c) ==
    LET m == [what |-> "stdin", to |-> to, c |-> c]
        t == IoWriteOutput(s, to, c)
    IN  IF to = "all" THEN IoSendTo(s, IoNodes, m)
        ELSE IF s.plan.loc[to] # IoHnp THEN IoSendTo(s, {s.plan.loc[to]}, m)
        ELSE IF ~s.at[to].sink THEN s
        ELSE IF IoNoRoom(t, to) THEN [t EXCEPT !.xoff[IoHnp] = TRUE] ELSE t

\* The tool pushes its next chunk where it is attached: at the HNP a full
\* sink suspends it; a daemon (prted_push_stdin) hands the chunk to the HNP.
IoPush ==
    LET p == io.plan
        k == io.pushed + 1
        c == IoChunk(k, p.nin)
        s == [io EXCEPT !.pushed = k]
        t == IoHnpPush(s, p.target, c)
    IN  /\ io.pushed <= p.nin /\ ~io.stopped
        /\ io' = IF p.push = IoHnp
                 THEN IF IoNoRoom(t, p.target) THEN IoFlow(t, TRUE) ELSE t
                 ELSE [s EXCEPT !.up[p.push] =
                          Append(@, [what |-> "stdin", to |-> p.target, c |-> c])]

\* What one write on the stdin pipe takes: it fails once the process has
\* closed its end, and may be short.
IoRoom(s, q) == IoPipe - Len(s.pipe[q])
IoTaken(s, q, c) == IF Len(c) < IoRoom(s, q) THEN Len(c) ELSE IoRoom(s, q)

\* The end of a sink (the zero-byte chunk, or a failed write): the channel is
\* released.  The HNP lets the producer go; a daemon whose write failed sends
\* XOFF.
IoSinkEnds(s, q, failed) ==
    LET n == s.plan.loc[q]
        t == [s EXCEPT !.at[q].wev = FALSE, !.at[q].outs = <<>>, !.at[q].pend = FALSE]
    IN  IF n = IoHnp THEN IoRelease(t)
        ELSE IF ~failed THEN t
        ELSE LET u == [t EXCEPT !.held = TRUE]
             IN  IF s.xoff[n] THEN u ELSE IoSendXonXoff(u, n, TRUE)

\* CHECK of stdin_write_handler: absorbed enough to restart the producer?
IoCheckDrained(s, q) ==
    LET n == s.plan.loc[q]
    IN  IF Len(s.at[q].outs) >= IoMaxBuffers THEN s
        ELSE IF n = IoHnp THEN IoRelease(s)
        ELSE IF s.xoff[n] THEN IoSendXonXoff(s, n, FALSE) ELSE s

\* stdin_write_handler writes what the pipe takes.
IoWriteStep(s, q) ==
    LET c == Head(s.at[q].outs)
        k == IoTaken(s, q, c)
        t == [s EXCEPT !.pipe[q] = @ \o SubSeq(c, 1, k)]
    IN  IF k = Len(c) THEN [t EXCEPT !.at[q].outs = Tail(@)]
        ELSE [t EXCEPT !.at[q].outs = <<IoAdjustShortWrite(c, k)>> \o Tail(@), !.at[q].pend = TRUE]

IoWriteHandler(s, q) ==
    LET s0 == [s EXCEPT !.at[q].pend = FALSE]
        stop(t) == t.at[q].pend \/ t.at[q].outs = <<>> \/ ~t.at[q].wev
        step(t) == IF stop(t) THEN t
                   ELSE IF Head(t.at[q].outs) = <<>> THEN IoSinkEnds(t, q, FALSE)
                   ELSE IF t.shut[q] THEN IoSinkEnds(t, q, TRUE)
                   ELSE IoWriteStep(t, q)
        r == FoldLeft(LAMBDA t, k : step(t), s0, [k \in 1 .. Len(s.at[q].outs) |-> k])
    IN  IF r.at[q].wev THEN IoCheckDrained(r, q) ELSE r

IoWritable(q) ==
    /\ io.at[q].sink /\ io.at[q].wev /\ io.at[q].pend
    /\ IoRoom(io, q) > 0 \/ io.shut[q]
    /\ io' = IoWriteHandler(io, q)

-----------------------------------------------------------------------------
(* Output *)

IoDeliver(s, n, m) == [s EXCEPT !.seen[n] = Append(@, [from |-> m.from, t |-> m.t, c |-> m.c])]

\* relay_one as it would be if the daemon that read the output got it back
IoRelayOneBack(s, n, m, already) ==
    IF n = IoHnp THEN s ELSE IoSendTo(s, {n}, m)

\* relay_one
IoRelayOne(s, n, m, already) ==
    IF n = IoHnp \/ n = already THEN s ELSE IoSendTo(s, {n}, m)

\* prte_iof_hnp_relay_to_tool: the originator's daemon, then those that asked
IoRelay(s, m, already) ==
    LET t == IoRelayOne(s, s.plan.tool, m, already)
    IN  FoldLeft(LAMBDA u, n : IoRelayOne(u, n, m, already), t, SetToSeq(s.pulled \ {s.plan.tool}))

\* The end of a stream; after the second the process's output is complete.
IoStreamEnds(s, q, t) ==
    LET left == s.at[q].revs \ {t}
    IN  [s EXCEPT !.at[q].revs = left, !.at[q].done = IF left = {} THEN @ + 1 ELSE @]

\* prte_iof_prted_read_handler and prte_iof_hnp_read_local_handler
IoReadHandler(s, q, t) ==
    LET n == s.plan.loc[q]
        u == [s EXCEPT !.buf[q][t] = Tail(@)]
        m == [what |-> "output", from |-> q, t |-> t, c |-> Head(s.buf[q][t])]
    IN  IF s.buf[q][t] = <<>> THEN IoStreamEnds(s, q, t)
        ELSE IF n = IoHnp THEN IoDeliver(IoRelay(u, m, IoHnp), IoHnp, m)
        ELSE [IoDeliver(u, n, m) EXCEPT !.up[n] = Append(@, m)]

IoReadable(q, t) ==
    /\ t \in io.at[q].revs
    /\ io.buf[q][t] # <<>> \/ io.gone[q]
    /\ io' = IoReadHandler(io, q, t)

-----------------------------------------------------------------------------
(* Messages *)

\* prte_iof_hnp_recv
IoHnpRecv(s, n, m) ==
    CASE m.what \in {"xon", "xoff"} -> IoFlow(s, m.what = "xoff")
      [] m.what = "pull"   -> [s EXCEPT !.pulled = @ \cup {n}]
      [] m.what = "stdin"  -> IoHnpPush(s, m.to, m.c)
      [] m.what = "output" -> IoDeliver(IoRelay(s, m, n), IoHnp, m)

IoUp(n) ==
    /\ io.up[n] # <<>>
    /\ io' = IoHnpRecv([io EXCEPT !.up[n] = Tail(@)], n, Head(io.up[n]))

\* prte_iof_prted_recv, and the HNP's own receive
IoDown(n) ==
    LET m == Head(io.down[n])
        s == [io EXCEPT !.down[n] = Tail(@)]
    IN  /\ io.down[n] # <<>>
        /\ io' = IF m.what = "output" THEN IoDeliver(s, n, m)
                 ELSE IF n = IoHnp THEN IoHnpStdin(s, m) ELSE IoPrtedStdin(s, n, m)

-----------------------------------------------------------------------------
(* The processes, and the tools that ask for output *)

IoProcReads(q) ==
    /\ io.pipe[q] # <<>> /\ ~io.shut[q]
    /\ io' = [io EXCEPT !.read[q] = @ \o io.pipe[q], !.pipe[q] = <<>>]

IoProcShuts(q) ==
    /\ q \in io.plan.quits /\ ~io.shut[q]
    /\ io' = [io EXCEPT !.shut[q] = TRUE, !.pipe[q] = <<>>]

IoProcWrites(q) ==
    \E t \in IoStreams :
        /\ ~io.gone[q] /\ io.wrote[q][t] < io.plan.out[q][t]
        /\ io' = [io EXCEPT !.wrote[q][t] = @ + 1, !.buf[q][t] = Append(@, io.wrote[q][t] + 1)]

\* A process ends when it has written its output and met the end of stdin.
IoProcEnds(q) ==
    /\ ~io.gone[q] /\ io.wrote[q] = io.plan.out[q]
    /\ io.shut[q] \/ q \notin IoTargets \/ (~io.at[q].wev /\ io.pipe[q] = <<>>)
    /\ io' = [io EXCEPT !.gone[q] = TRUE, !.shut[q] = TRUE]

\* IOF_COMPLETE closes what is left of the process (hnp_close, prted_close).
\* The HNP lets a producer go that its sink had suspended; a daemon does not.
IoClose(q) ==
    LET n == io.plan.loc[q]
        s == [io EXCEPT !.at[q] = [@ EXCEPT !.sink = FALSE, !.wev = FALSE, !.outs = <<>>,
                                            !.pend = FALSE]]
    IN  /\ io.at[q].done = 1 /\ io.at[q].sink
        /\ io' = IF n = IoHnp THEN IoRelease(s)
                 ELSE [s EXCEPT !.held = @ \/ (io.at[q].outs # <<>> /\ io.xoff[n])]

IoPull(n) ==
    /\ n \in io.plan.pulls \ io.pulled
    /\ ~ \E i \in DOMAIN io.up[n] : io.up[n][i].what = "pull"
    /\ io' = [io EXCEPT !.up[n] = Append(@, [what |-> "pull"])]

IoNext ==
    \/ IoPush
    \/ \E n \in IoDaemons : IoUp(n) \/ IoPull(n)
    \/ \E n \in IoNodes : IoDown(n)
    \/ \E q \in IoProcs : \/ IoWritable(q) \/ IoProcReads(q) \/ IoProcShuts(q)
                          \/ IoProcWrites(q) \/ IoProcEnds(q) \/ IoClose(q)
                          \/ \E t \in IoStreams : IoReadable(q, t)

\* Everything but the early close and the request for output is owed.
IoProgress ==
    \/ IoPush
    \/ \E n \in IoDaemons : IoUp(n)
    \/ \E n \in IoNodes : IoDown(n)
    \/ \E q \in IoProcs : \/ IoWritable(q) \/ IoProcReads(q) \/ IoProcWrites(q) \/ IoProcEnds(q)
                          \/ IoClose(q)
                          \/ \E t \in IoStreams : IoReadable(q, t)

IoSpec == IoInit /\ [][IoNext]_io /\ WF_io(IoProgress)

-----------------------------------------------------------------------------
\* The bytes of stdin in order
IoInput == [i \in 1 .. 2 * io.plan.nin |-> i]

(***************************************************************************)
(* Standard input arrives in order, without a gap or a repeated byte,      *)
(* however writes fall short and the producer is held and released.        *)
(***************************************************************************)
IoInOrder == \A q \in IoProcs : IsPrefix(io.read[q] \o io.pipe[q], IoInput)

\* What node n was handed of stream t of process q
IoSeen(n, q, t) ==
    LET mine == SelectSeq(io.seen[n], LAMBDA e : e.from = q /\ e.t = t)
    IN  [i \in DOMAIN mine |-> mine[i].c]

(***************************************************************************)
(* A chunk of output is handed to a node's tools at most once and in       *)
(* order: the daemon that read it, the originator's daemon and a daemon    *)
(* that asked for it may be the same, and the HNP relays to each of them   *)
(* (relay_one, iof_hnp_send.c:164).                                        *)
(***************************************************************************)
IoOutputOnce ==
    \A n \in IoNodes, q \in IoProcs, t \in IoStreams :
        LET w == IoSeen(n, q, t) IN \A i \in 1 .. Len(w) - 1 : w[i + 1] = w[i] + 1

(***************************************************************************)
(* Every process that keeps reading gets all of standard input: an XOFF is *)
(* always followed by the XON that lets the producer go on                 *)
(* (release_flow_control, iof_hnp.c:465).  And all output reaches the HNP, *)
(* and every process's output is completed once.  Excepted is a write that *)
(* fails, or a sink closed, at a daemon: its XOFF has no XON (held).       *)
(***************************************************************************)
IoSettled ==
    io.held \/ \A q \in IoProcs :
        /\ q \in IoTargets \ io.plan.quits => io.read[q] = IoInput
        /\ io.at[q].done = 1
        /\ \A t \in IoStreams : Len(IoSeen(IoHnp, q, t)) = io.plan.out[q][t]

\* What is forwarded, either way, arrives in order and once.
IoSound == IoInOrder /\ IoOutputOnce

=============================================================================

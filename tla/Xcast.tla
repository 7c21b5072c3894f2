-------------------------------- MODULE Xcast --------------------------------
(***************************************************************************)
(* Broadcasts in a DVM whose daemons crash: the reliable broadcast of      *)
(* XcastOps and the fault handling of RmlFault, composed. The notices of a *)
(* departure travel as messages between daemons and, from the HNP, as      *)
(* broadcasts of this very protocol; every tree repair they cause repairs  *)
(* the broadcasts under way.                                               *)
(*                                                                         *)
(* A daemon is one event loop. What a handler sends or posts joins the     *)
(* loop's queue behind what is already there; a message to a peer leaves   *)
(* when its turn comes, and is refused then if the peer is known to be     *)
(* down (prte_oob_base_send_nb).                                           *)
(***************************************************************************)
EXTENDS XcastOps

CONSTANTS Mortal,      \* the ranks that may crash; the HNP's loss ends the DVM
          MaxCrashes,  \* bound on the number of crashes
          MaxXcasts,   \* bound on the number of broadcasts the HNP starts
          LostSends    \* may a lost connection leave messages unsent?

ASSUME XcastAssumption ==
    /\ Mortal \subseteq Ranks \ {0}
    /\ MaxCrashes \in Nat /\ MaxXcasts \in Nat
    /\ LostSends \in BOOLEAN

VARIABLES
    dmn,      \* dmn[d]: daemon d's failed sets and its place in the tree
    xc,       \* xc[d]: its broadcast state
    queue,    \* queue[d]: events its own handlers posted, not yet run
    wire,     \* wire[s][d]: messages sent by s that d has not handled
    dead,     \* the daemons that have crashed
    started,  \* how many broadcasts the HNP has started
    dropped,  \* history: op-ids for which a subtree left the ack rollup
    late,     \* history: op-ids that counted the ack of a departed daemon
    exited    \* daemons that ordered a FORCED_EXIT

vars == <<dmn, xc, queue, wire, dead, started, dropped, late, exited>>

Live == Ranks \ dead

User           == [kind |-> "user"]
DaemonDied(rs) == [kind |-> "died", ranks |-> rs]
Relay(payload) == [tag |-> "xcast", id |-> 0, payload |-> payload, ack_id |-> 0]

Init ==
    /\ dmn = [d \in Ranks |-> NewDaemon(d)]
    /\ xc = [d \in Ranks |-> NewXcast]
    /\ queue = [d \in Ranks |-> <<>>]
    /\ wire = [s \in Ranks |-> [d \in Ranks |-> <<>>]]
    /\ dead = {}
    /\ started = 0
    /\ dropped = {}
    /\ late = {}
    /\ exited = {}

(***************************************************************************)
(* One turn of d's event loop, as a function of the part of the state it   *)
(* can change: l.dm, l.x, l.queue, l.wire, l.dropped and l.exit.           *)
(***************************************************************************)
Local(d) == [dm |-> dmn[d], x |-> xc[d], queue |-> queue[d], wire |-> wire,
             dropped |-> dropped, exit |-> FALSE]

\* What a handler puts out, in order. Only a payload that changes the tree has
\* a handler of interest here. A repair runs the broadcast's fault handler.
Enqueue(l, out) ==
    [l EXCEPT !.queue = @ \o SelectSeq(out, LAMBDA o : o.out = "post" => o.payload.kind = "died")]

AfterXcast(l, step) == Enqueue([l EXCEPT !.x = step.x], step.out)

Emit(d, l, o) ==
    CASE o.out = "broadcast" ->
            [l EXCEPT !.wire[0][0] = Append(@, Relay(DaemonDied(o.ranks)))]
      [] o.out = "repaired" ->
            AfterXcast(l, XcastFault(d, o.tree, o.delta, l.x))
      [] OTHER -> Enqueue(l, <<o>>)

AfterNotice(d, l, step) ==
    FoldLeft(LAMBDA a, o : Emit(d, a, o), [l EXCEPT !.dm = step.dm, !.exit = step.exit], step.out)

\* The messages at the head of the queue leave. One to a peer that is down is
\* handed back; a tracked one takes its subtree out of the op's rollup.
RECURSIVE Flush(_, _)
Flush(d, l) ==
    IF l.queue = <<>> THEN l
    ELSE LET o    == Head(l.queue)
             rest == [l EXCEPT !.queue = Tail(@)]
         IN  CASE o.out = "post" -> l
               [] o.out # "post" /\ o.dst \notin l.dm.failed ->
                    Flush(d, IF o.dst \in dead /\ ~LostSends THEN rest
                             ELSE [rest EXCEPT !.wire[d][o.dst] = Append(@, o.msg)])
               [] o.out = "tracked" /\ o.dst \in l.dm.failed ->
                    Flush(d, AfterXcast(
                        [rest EXCEPT !.dropped = IF Held(l.x, o.msg.id)
                                                 THEN @ \cup {o.msg.id} ELSE @],
                        ForwardLost(d, l.dm.tree, l.x, o.msg.id)))
               [] OTHER -> Flush(d, rest)

Become(d, l) ==
    /\ dmn' = [dmn EXCEPT ![d] = l.dm]
    /\ xc' = [xc EXCEPT ![d] = l.x]
    /\ queue' = [queue EXCEPT ![d] = l.queue]
    /\ wire' = l.wire
    /\ dropped' = l.dropped
    /\ exited' = IF l.exit THEN exited \cup {d} ELSE exited

Turn(d, l) == \E done \in {Flush(d, l)} : Become(d, done)

------------------------------------------------------------------------------
\* prte_grpcomm_xcast at the HNP. The relay to itself goes through the reliable
\* messaging layer and comes back in order, some time later.
StartXcast ==
    /\ started < MaxXcasts
    /\ started' = started + 1
    /\ wire' = [wire EXCEPT ![0][0] = Append(@, Relay(User))]
    /\ UNCHANGED <<dmn, xc, queue, dead, dropped, late, exited>>

\* The ack reports a subtree for the current round of an op that is held.
Counts(x, ack) == /\ ~ack.is_request
                  /\ Held(x, ack.id)
                  /\ OpOf(x, ack.id).ack_id_down = ack.ack_id

\* A message is handled: a notice, a forward or an ack.
Handle(d, s, l, msg) ==
    CASE msg.tag = "xcast" -> AfterXcast(l, RecvXcast(d, l.dm.tree, l.x, s, msg))
      [] msg.tag = "ack"   -> AfterXcast(l, RecvAck(d, l.dm.tree, l.x, s, msg))
      [] OTHER             -> AfterNotice(d, l, RecvNotice(d, l.dm, msg))

MayReceive(d, s) == d \in Live /\ wire[s][d] # <<>>

Takes(d, s) == Len(wire'[s][d]) < Len(wire[s][d])

Receive(d, s) ==
    /\ MayReceive(d, s)
    /\ LET msg == Head(wire[s][d])
       IN  /\ Turn(d, Handle(d, s, [Local(d) EXCEPT !.wire[s][d] = Tail(@)], msg))
           /\ late' = IF msg.tag = "ack" /\ s \in dmn[d].failed /\ Counts(xc[d], msg)
                      THEN late \cup {msg.id} ELSE late
    /\ UNCHANGED <<dead, started>>

\* The event loop reaches a payload posted by process_msg.
MayProcess(d) == d \in Live /\ queue[d] # <<>>

ProcessPosted(d) ==
    /\ MayProcess(d)
    /\ Turn(d, AfterNotice(d, [Local(d) EXCEPT !.queue = Tail(@)],
                           RecvGlobalFailures(d, dmn[d], Head(queue[d]).payload.ranks)))
    /\ UNCHANGED <<dead, started, late>>

\* A daemon crashes. What it sent may still arrive, until its loss is noticed.
Crash(d) ==
    /\ d \in Mortal \ dead
    /\ Cardinality(dead) < MaxCrashes
    /\ dead' = dead \cup {d}
    /\ queue' = [queue EXCEPT ![d] = <<>>]
    /\ wire' = IF LostSends THEN wire ELSE [s \in Ranks |-> [wire[s] EXCEPT ![d] = <<>>]]
    /\ UNCHANGED <<dmn, xc, started, dropped, late, exited>>

Connected(d, r) == \/ IsTreeNeighbor(d, dmn[d].tree, r)
                   \/ IsTreeNeighbor(r, dmn[r].tree, d)

\* tcp_peer_fail_lost_sends: the messages still queued for the lost peer, the
\* last ones sent to it, are handed back before the loss is reported.
RECURSIVE FailSends(_, _, _)
FailSends(d, l, lost) ==
    IF lost = <<>> THEN l
    ELSE LET msg == Head(lost)
             hit == (msg.tag = "xcast" \/ (msg.tag = "ack" /\ msg.is_request)) /\ Held(l.x, msg.id)
         IN  FailSends(d, IF hit
                          THEN AfterXcast([l EXCEPT !.dropped = @ \cup {msg.id}],
                                          ForwardLost(d, l.dm.tree, l.x, msg.id))
                          ELSE l, Tail(lost))

\* prte_mca_oob_tcp_component_lost_connection
MayLose(d, r) == d \in Live /\ r \in dead \ dmn[d].failed /\ Connected(d, r)

LostConnection(d, r) ==
    /\ MayLose(d, r)
    /\ \E unsent \in 0 .. Len(wire[d][r]) :
        LET l == FailSends(d, [Local(d) EXCEPT !.wire[r][d] = <<>>, !.wire[d][r] = <<>>],
                           SubSeq(wire[d][r], Len(wire[d][r]) - unsent + 1, Len(wire[d][r])))
        IN  Turn(d, AfterNotice(d, l, RouteLost(d, dmn[d], r)))
    /\ UNCHANGED <<dead, started, late>>

Next ==
    \/ StartXcast
    \/ \E d \in Ranks : Crash(d)
    \/ \E d, s \in Ranks : Receive(d, s)
    \/ \E d \in Ranks : ProcessPosted(d)
    \/ \E d, r \in Ranks : LostConnection(d, r)

\* As in Recovery; what a handler posted is run.
Fairness ==
    /\ \A d, s \in Ranks : []<>~MayReceive(d, s) \/ []<><<Takes(d, s)>>_vars
    /\ \A d \in Ranks : []<>~MayProcess(d) \/ []<><<ProcessPosted(d)>>_vars
    /\ \A d, r \in Ranks : []<>~MayLose(d, r)

Spec == Init /\ [][Next]_vars /\ Fairness

------------------------------------------------------------------------------
\* The op-id counters of a daemon keep their order, the ops under way are sorted by
\* id, and between turns the loop's queue starts with a payload.
TypeOK ==
    /\ dead \subseteq Mortal
    /\ \A d \in Ranks :
        /\ xc[d].completed <= xc[d].inited
        /\ xc[d].at_promotion <= xc[d].completed
        /\ \A i, j \in DOMAIN xc[d].ops : i < j => xc[d].ops[i].id < xc[d].ops[j].id
        /\ queue[d] # <<>> => Head(queue[d]).out = "post"

\* A broadcast is handed to a daemon's handlers at most once, and in the order
\* in which the HNP numbered them, whatever is replayed.
OnceAndInOrder ==
    \A d \in Ranks : \A i, j \in DOMAIN xc[d].got : i < j => xc[d].got[i] < xc[d].got[j]

Received(id) == \A d \in Live : id \in ToSet(xc[d].got)

\* When the HNP calls back a broadcast's completion, every live daemon has
\* received it, unless a subtree was dropped from its rollup or the ack of a
\* departed daemon was counted: nothing else ends a broadcast early.
CompletedMeansReceived ==
    \A i \in DOMAIN xc[0].finished :
        xc[0].finished[i] \in dropped \cup late \/ Received(xc[0].finished[i])

\* What finish_op relies on (src/grpcomm/grpcomm_xcast.c: "a completed op means
\* every daemon in the DVM has received this broadcast"), for every broadcast
\* whose rollup kept all its subtrees.
CompletedMeansReceivedOrDropped ==
    \A i \in DOMAIN xc[0].finished : xc[0].finished[i] \in dropped \/ Received(xc[0].finished[i])

\* A daemon completes the broadcasts in the order in which they were numbered.
\* It does not hold: see the README on where the code disagrees.
OpsCompleteInOrder == \A d \in Live : "out of order" \notin xc[d].errors

\* Every broadcast the HNP takes up is completed in the end, in spite of crashes.
AllComplete == <>[](wire[0][0] = <<>> /\ Len(xc[0].finished) = xc[0].inited)

==============================================================================

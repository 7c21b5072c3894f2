--------------------------------- MODULE Relm ---------------------------------
(***************************************************************************)
(* Reliable messages between daemons that crash: the reliable messaging of *)
(* RelmOps on the tree that the fault handling of RmlFault repairs. Links  *)
(* are FIFO; the HNP's broadcast of departures is taken as what            *)
(* src/grpcomm promises of it, as in Recovery.                             *)
(*                                                                         *)
(* The end of a data send is an event of its own. Without worker threads   *)
(* the event loop that writes the message runs the callback at once, so    *)
(* before the peer can handle it and before anything the peer's loss leads *)
(* to is received. With workers the callback is shifted to the event loop, *)
(* and may run at any later time.                                          *)
(***************************************************************************)
EXTENDS RelmOps

CONSTANTS Mortal,      \* the ranks that may crash; the HNP's loss ends the DVM
          MaxCrashes,  \* bound on the number of crashes
          Flows,       \* the pairs <<src, dst>> that messages are sent between
          MaxMsgs,     \* bound on the number of messages per flow
          MaxExpiries, \* bound on the number of cache timeouts
          Workers      \* whether sockets are serviced by worker threads

ASSUME RelmAssumption ==
    /\ Mortal \subseteq Ranks \ {0}
    /\ Flows \subseteq Ranks \X Ranks /\ \A f \in Flows : f[1] # f[2]
    /\ {MaxCrashes, MaxMsgs, MaxExpiries} \subseteq Nat
    /\ Workers \in BOOLEAN

VARIABLES
    dmn,      \* dmn[d]: daemon d's failed sets and its place in the tree
    relm,     \* relm[d]: its reliable messaging state
    wire,     \* wire[s][d]: messages sent by s that d has not handled
    dead,     \* the daemons that have crashed
    bcast,    \* the departures the HNP has broadcast, oldest first
    heard,    \* heard[d]: how many of them d has handled
    sent,     \* history: the uids sent, by flow
    expiries, \* how many cache timeouts have run out
    exited    \* daemons that ordered a FORCED_EXIT

vars == <<dmn, relm, wire, dead, bcast, heard, sent, expiries, exited>>

Live == Ranks \ dead

Init ==
    /\ dmn = [d \in Ranks |-> NewDaemon(d)]
    /\ relm = [d \in Ranks |-> NewRelm]
    /\ wire = [s \in Ranks |-> [d \in Ranks |-> <<>>]]
    /\ dead = {}
    /\ bcast = <<>>
    /\ heard = [d \in Ranks |-> 0]
    /\ sent = [f \in Flows |-> <<>>]
    /\ expiries = 0
    /\ exited = {}

(***************************************************************************)
(* What a handler of d puts out, in order, on l: the part of the state it  *)
(* can change. A repair runs the fault handler of reliable messaging.      *)
(***************************************************************************)
Local(d) == [m |-> relm[d], wire |-> wire, bcast |-> bcast, exit |-> FALSE]

\* Of what is sent to a crashed daemon, only the data has someone who waits for
\* the end of its send.
IsData(msg) == msg.tag = "relm" /\ msg.state = "sending"

Transmit(d, l, o) ==
    IF o.dst = Invalid \/ (o.dst \in dead /\ ~IsData(o.msg)) THEN l
    ELSE [l EXCEPT !.wire[d][o.dst] = Append(@, o.msg)]

AfterRelm(d, l, step) ==
    FoldLeft(LAMBDA a, o : Transmit(d, a, o),
             [l EXCEPT !.m = step.m, !.exit = @ \/ step.exit], step.out)

Emit(d, dm, l, o) ==
    CASE o.out = "send"      -> IF o.dst \in dm.failed THEN l ELSE Transmit(d, l, o)
      [] o.out = "broadcast" -> [l EXCEPT !.bcast = Append(@, o.ranks)]
      [] o.out = "repaired"  ->
            AfterRelm(d, l, RelmFault(d, [dm EXCEPT !.tree = o.tree], o.delta, l.m))

AfterNotice(d, l, step) ==
    FoldLeft(LAMBDA a, o : Emit(d, step.dm, a, o), [l EXCEPT !.exit = step.exit], step.out)

Commit(d, dm, after) ==
    \E l \in {after} :
        /\ dmn' = [dmn EXCEPT ![d] = dm]
        /\ relm' = [relm EXCEPT ![d] = l.m]
        /\ wire' = l.wire
        /\ bcast' = l.bcast
        /\ exited' = IF l.exit THEN exited \cup {d} ELSE exited

Finish(d, l, step) == Commit(d, dmn[d], AfterRelm(d, l, step))

FinishNotice(d, l, notice) ==
    \E step \in {notice} : Commit(d, step.dm, AfterNotice(d, l, step))

------------------------------------------------------------------------------
\* prte_relm_start_msg
Start(f) ==
    LET d == f[1]
    IN  /\ Len(sent[f]) < MaxMsgs
        /\ d \in Live /\ f[2] \notin dmn[d].failed
        /\ sent' = [sent EXCEPT ![f] = Append(@, relm[d].next_uid)]
        /\ Finish(d, Local(d), StartMsg(d, dmn[d], relm[d], f[2]))
        /\ UNCHANGED <<dead, heard, expiries>>

\* s has the callback of this send to d still to run.
Unended(s, d, msg) ==
    /\ s \in Live /\ IsData(msg)
    /\ msg.sig \in DOMAIN relm[s].msgs /\ d \in ToSet(relm[s].msgs[msg.sig].hops)

MayReceive(d, s) ==
    /\ d \in Live /\ wire[s][d] # <<>>
    /\ Workers \/ ~Unended(s, d, Head(wire[s][d]))

Takes(d, s) == Len(wire'[s][d]) < Len(wire[s][d])

Receive(d, s) ==
    /\ MayReceive(d, s)
    /\ LET msg == Head(wire[s][d])
           l   == [Local(d) EXCEPT !.wire[s][d] = Tail(@)]
       IN  CASE msg.tag = "relm" ->
                    Finish(d, l, MessageHandler(d, dmn[d], RelmStep(relm[d]), s, msg))
             [] msg.tag = "link" -> Finish(d, l, HandleLinkUpdate(d, dmn[d], relm[d], s, msg))
             [] OTHER -> FinishNotice(d, l, RecvNotice(d, dmn[d], msg))
    /\ UNCHANGED <<dead, heard, sent, expiries>>

\* The i-th unended send of a message's data ends: it was written, or it fails
\* because the peer has crashed with the data still queued for it.
MayEndWith(d, g, i, success) ==
    LET hop == relm[d].msgs[g].hops[i]
    IN  IF success THEN hop # Invalid /\ (Workers \/ hop \notin dmn[d].failed)
        ELSE /\ hop \notin Live
             /\ hop # Invalid => \E n \in DOMAIN wire[d][hop] : wire[d][hop][n].sig = g

MayEnd(d) ==
    /\ d \in Live
    /\ \E g \in DOMAIN relm[d].msgs : \E i \in DOMAIN relm[d].msgs[g].hops :
        \E success \in BOOLEAN : MayEndWith(d, g, i, success)

SendEnds(d) ==
    /\ d \in Live
    /\ \E g \in DOMAIN relm[d].msgs : \E i \in DOMAIN relm[d].msgs[g].hops :
        \E success \in BOOLEAN :
            LET hop == relm[d].msgs[g].hops[i]
                l   == IF hop \in dead
                       THEN [Local(d) EXCEPT !.wire[d][hop] =
                                SelectSeq(@, LAMBDA msg : msg.sig # g)]
                       ELSE Local(d)
            IN  /\ MayEndWith(d, g, i, success)
                /\ Finish(d, l, SendingToSent(d, dmn[d], relm[d], g, i, success))
    /\ UNCHANGED <<dead, heard, sent, expiries>>

\* The timer of the data cached longest runs out.
Expire(d) ==
    /\ expiries < MaxExpiries
    /\ d \in Live /\ relm[d].cached # <<>>
    /\ expiries' = expiries + 1
    /\ Finish(d, Local(d), ToEvicted(RelmStep(relm[d]), Head(relm[d].cached)))
    /\ UNCHANGED <<dead, heard, sent>>

Crash(d) ==
    /\ d \in Mortal \ dead
    /\ Cardinality(dead) < MaxCrashes
    /\ dead' = dead \cup {d}
    /\ wire' = [s \in Ranks |-> [wire[s] EXCEPT ![d] = SelectSeq(@, IsData)]]
    /\ UNCHANGED <<dmn, relm, bcast, heard, sent, expiries, exited>>

Connected(d, r) == \/ IsTreeNeighbor(d, dmn[d].tree, r)
                   \/ IsTreeNeighbor(r, dmn[r].tree, d)

\* prte_mca_oob_tcp_component_lost_connection
MayLose(d, r) == d \in Live /\ r \in dead \ dmn[d].failed /\ Connected(d, r)

LostConnection(d, r) ==
    /\ MayLose(d, r)
    /\ FinishNotice(d, [Local(d) EXCEPT !.wire[r][d] = <<>>], RouteLost(d, dmn[d], r))
    /\ UNCHANGED <<dead, heard, sent, expiries>>

MayHear(d) == d \in Live /\ heard[d] < Len(bcast)

ReceiveBroadcast(d) ==
    /\ MayHear(d)
    /\ heard' = [heard EXCEPT ![d] = @ + 1]
    /\ FinishNotice(d, Local(d), RecvGlobalFailures(d, dmn[d], bcast[heard[d] + 1]))
    /\ UNCHANGED <<dead, sent, expiries>>

Next ==
    \/ \E f \in Flows : Start(f)
    \/ \E d, s \in Ranks : Receive(d, s)
    \/ \E d \in Ranks : SendEnds(d)
    \/ \E d \in Ranks : Expire(d)
    \/ \E d \in Ranks : Crash(d)
    \/ \E d, r \in Ranks : LostConnection(d, r)
    \/ \E d \in Ranks : ReceiveBroadcast(d)

\* As in Recovery; a send that is under way ends.
Fairness ==
    /\ \A d, s \in Ranks : []<>~MayReceive(d, s) \/ []<><<Takes(d, s)>>_vars
    /\ \A d \in Ranks : []<>~MayEnd(d) \/ []<><<SendEnds(d)>>_vars
    /\ \A d, r \in Ranks : []<>~MayLose(d, r)
    /\ \A d \in Ranks : []<>~MayHear(d) \/ []<><<heard'[d] > heard[d]>>_vars

Spec == Init /\ [][Next]_vars /\ Fairness

------------------------------------------------------------------------------
\* The tables and the cache fit together: what is cached is the data of messages
\* in the tables, within the cache's limit; what is in the tables was sent; and
\* no ephemeral state is stored.
TypeOK ==
    \A d \in Live :
        /\ ToSet(relm[d].cached) \subseteq {g \in DOMAIN relm[d].msgs : relm[d].msgs[g].data}
        /\ Len(relm[d].cached) <= MaxCacheCount
        /\ \A g \in DOMAIN relm[d].msgs :
            /\ <<g.src, g.dst>> \in Flows
            /\ g.uid \in ToSet(sent[<<g.src, g.dst>>])
            /\ relm[d].msgs[g].state \in
                {"invalid", "sent", "requested", "sending", "pending", "acked"}

Delivered(f) ==
    LET mine == SelectSeq(relm[f[2]].posted, LAMBDA g : g.src = f[1])
    IN  [n \in DOMAIN mine |-> mine[n].uid]

\* A flow as a channel: what was sent on it, and what its destination's receives got
Channel == INSTANCE ReliableChannel
               WITH Msgs      <- 0 .. MaxMsgs * Cardinality(Flows),
                    delivered <- [f \in Flows |-> Delivered(f)]

\* The messages of a flow reach the receives of their destination at most once
\* and in the order of the sends, whoever crashes and whatever is replayed; and
\* no crash leads reliable messaging, or the tree repair under it, to order the
\* DVM down.
OnceAndInOrder == Channel!Spec /\ [](exited = {})

\* Nothing is left to handle, and no connection to a crashed daemon is open.
Quiet ==
    /\ \A d \in Live : \A s \in Ranks : ~MayReceive(d, s) /\ ~MayLose(d, s)
    /\ \A d \in Live : ~MayEnd(d) /\ ~MayHear(d)

LiveFlows == {f \in Flows : f[1] \in Live /\ f[2] \in Live}

\* The messages between live daemons are delivered, and their sources, which
\* pin the data until the ack, hold none of them. (Others may: an ackack that
\* dies with a relay leaves the acked entry behind it for good.)
Settled ==
    \A f \in LiveFlows :
        /\ Delivered(f) = sent[f]
        /\ \A g \in DOMAIN relm[f[1]].msgs : <<g.src, g.dst>> # f

\* Nothing that was sent is left behind undelivered once there is nothing more
\* to handle: no message waits for an event that does not come.
QuietMeansSettled == Quiet => Settled

\* Every message between daemons that live is delivered and let go of in the
\* end, whatever relay crashes when.
AllSettle == <>[]Settled

==============================================================================

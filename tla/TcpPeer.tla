------------------------------ MODULE TcpPeer ------------------------------
(***************************************************************************)
(* Two daemons and the one TCP connection they must agree on               *)
(* (src/rml/oob).  Each daemon runs two threads that share the peer        *)
(* object: the main progress thread owns the connection state machine      *)
(* (send_nb, try_connect, the two handshakes, the simultaneous-connect     *)
(* arbitration), and a worker thread owns the socket once it is connected  *)
(* (queue_msg, the send and receive handlers, peer_close).  A step is what *)
(* a thread does between two points where the other can interfere: a       *)
(* handler, or the part of it before or after it drops the peer lock or    *)
(* waits in event_del.                                                     *)
(*                                                                         *)
(* A peer has one address.  A message crosses a socket in two parts, its   *)
(* header and its body, so that a connection can be abandoned between      *)
(* them.  A socket may break at any time, which refuses it when it is      *)
(* still being dialled (MaxBreaks); max_recon_attempts is MaxRecon.        *)
(***************************************************************************)
EXTENDS Integers, Sequences, Functions

CONSTANTS NMsgs,        \* NMsgs[d]: the messages daemon d sends to the other
          MaxBreaks,    \* how many sockets the network breaks
          MaxRecon      \* max_recon_attempts

Ends == {0, 1}

ASSUME TcpAssumption ==
    /\ NMsgs \in [Ends -> Nat]
    /\ {MaxBreaks, MaxRecon} \subseteq Nat

VARIABLES oob,    \* oob[d]: daemon d's peer object and its two threads' queues
          socks,  \* the sockets created so far, both ends of each
          breaks  \* how many sockets the network has broken

tcpVars == <<oob, socks, breaks>>

Far(d) == 1 - d

NoSocket == 0

NoMsg == 0

NewPeer == [state |-> "unconnected", sd |-> NoSocket, established |-> FALSE,
            sev |-> FALSE, rev |-> FALSE, addrFailed |-> FALSE,
            deck |-> NoMsg, half |-> FALSE, queue |-> <<>>, recv |-> NoMsg,
            timers |-> 0, recons |-> 0,
            posted |-> <<>>, work |-> <<>>,
            main |-> NoSocket, worker |-> "idle", wasUp |-> FALSE,
            down |-> FALSE, asked |-> 0, ended |-> <<>>, heard |-> <<>>]

TcpInit ==
    /\ oob = [d \in Ends |-> NewPeer]
    /\ socks = <<>>
    /\ breaks = 0

----------------------------------------------------------------------------
(* Sockets *)

Frame(t, m) == [t |-> t, m |-> m]

\* A write the kernel takes; what the far end has closed discards.
Written(ss, s, d, fs) ==
    IF ss[s].open[Far(d)] /\ ~ss[s].broken
    THEN [ss EXCEPT ![s].buf[Far(d)] = @ \o fs]
    ELSE ss

Shut(ss, s, d) ==
    IF s = NoSocket THEN ss
    ELSE [ss EXCEPT ![s].open[d] = FALSE, ![s].buf[d] = <<>>]

Readable(s, d) == \/ socks[s].buf[d] # <<>>
                  \/ ~socks[s].open[Far(d)]
                  \/ socks[s].broken

\* Readable with nothing to read: the end of the stream, or an error.
AtEnd(s, d) == socks[s].buf[d] = <<>>

----------------------------------------------------------------------------
(* The peer object *)

Post(r, e) == [r EXCEPT !.posted = Append(@, [e |-> e, m |-> NoMsg])]

OnDeck(r) ==
    IF r.deck = NoMsg /\ r.queue # <<>>
    THEN [r EXCEPT !.deck = Head(r.queue), !.queue = Tail(@)]
    ELSE r

ArmSend(r) == [r EXCEPT !.sev = @ \/ r.deck # NoMsg]

Unarmed(r) == [r EXCEPT !.sev = FALSE, !.rev = FALSE]

Ended(r, ms) == [r EXCEPT !.ended = @ \o ms]

\* tcp_peer_lift_queued_sends, and the completion of what was lifted.
LiftQueuedSends(r) ==
    [Ended(r, (IF r.deck = NoMsg THEN <<>> ELSE <<r.deck>>) \o r.queue)
        EXCEPT !.deck = NoMsg, !.half = FALSE, !.queue = <<>>]

TcpPeerConnected(r) ==
    ArmSend(OnDeck([r EXCEPT !.state = "connected", !.established = TRUE,
                             !.sev = FALSE, !.rev = TRUE]))

Rotates(r) == ~r.established /\ r.state \in {"connecting", "connect_ack", "failed"}

\* A connection still being established: back to try_connect.
RotateAddress(r) ==
    Post([Unarmed(r) EXCEPT !.state = "connecting", !.sd = NoSocket, !.addrFailed = TRUE],
         "try")

\* The teardown under the lock; LiftLostSends follows it.
TearDown(r) ==
    [Unarmed(r) EXCEPT !.state = "closed", !.established = FALSE, !.sd = NoSocket,
                       !.recv = NoMsg, !.wasUp = (r.state = "connected")]

LiftLostSends(r) ==
    LET l == [LiftQueuedSends(r) EXCEPT !.wasUp = FALSE]
    IN  IF r.wasUp THEN Post(l, "lost") ELSE l

\* peer_close on the main thread.
MainClose(r) == CASE r.state = "closed" -> r
                  [] Rotates(r)         -> RotateAddress(r)
                  [] OTHER              -> LiftLostSends(TearDown(r))

\* peer_close inside a handler of the worker thread, up to the unlock.
WorkerClose(r) == IF r.state = "closed" THEN [r EXCEPT !.worker = "idle"]
                  ELSE [TearDown(r) EXCEPT !.worker = "lift"]

SendNb(r, m) ==
    CASE r.down -> Ended(r, <<m>>)
      [] ~r.down /\ r.state = "connected" ->
             [r EXCEPT !.work = Append(@, [m |-> m, activate |-> TRUE])]
      [] OTHER ->
             LET q == [r EXCEPT !.work = Append(@, [m |-> m, activate |-> FALSE])]
             IN  IF r.state \in {"connecting", "connect_ack"} THEN q
                 ELSE Post([q EXCEPT !.state = "connecting"], "try")

\* A message is armed only by the thread that was asked to activate it.
QueueMsgUnarmed(r, q) ==
    LET p == IF r.deck = NoMsg THEN [r EXCEPT !.deck = q.m]
             ELSE [r EXCEPT !.queue = Append(@, q.m)]
    IN  IF ~q.activate THEN p
        ELSE IF r.state = "connected" THEN ArmSend(p) ELSE Post(p, "start")

QueueMsg(r, q) ==
    LET p == IF r.deck = NoMsg THEN [r EXCEPT !.deck = q.m]
             ELSE [r EXCEPT !.queue = Append(@, q.m)]
    IN  IF r.state = "connected" THEN ArmSend(p)
        ELSE IF q.activate THEN Post(p, "start") ELSE p

\* No address answered: wait and try again, or give the peer up.
NoAddressLeft(r) ==
    IF r.recons < MaxRecon
    THEN [r EXCEPT !.sd = NoSocket, !.addrFailed = FALSE, !.timers = @ + 1, !.recons = @ + 1]
    ELSE LiftQueuedSends(Post([r EXCEPT !.sd = NoSocket, !.state = "failed"], "failed"))

MayDial(r) == r.state = "connecting"

\* Half a message goes on from where the other connection left it.
AbandonKeepingHalf(r, s) ==
    [Unarmed(r) EXCEPT !.sd = s, !.recv = NoMsg, !.state = "unconnected", !.main = NoSocket]

\* retry(), once the deletes have waited for the running handler.
Abandon(r, s) ==
    [Unarmed(r) EXCEPT !.sd = s, !.recv = NoMsg, !.half = FALSE,
                       !.state = "unconnected", !.main = NoSocket]

\* retry(): the higher rank's attempt is the one that survives.
WinsArbitration(d) == d > Far(d)

----------------------------------------------------------------------------
(* The main thread *)

MainIdle(d) == oob[d].main = NoSocket

TryConnect(d, r) ==
    IF ~MayDial(r) THEN
        /\ oob' = [oob EXCEPT ![d] = r]
        /\ UNCHANGED socks
    ELSE IF r.addrFailed THEN
        /\ oob' = [oob EXCEPT ![d] = NoAddressLeft(r)]
        /\ socks' = Shut(socks, r.sd, d)
    ELSE
        /\ socks' = Append(Shut(socks, r.sd, d),
                           [by |-> d, taken |-> FALSE, broken |-> FALSE,
                            open |-> [e \in Ends |-> TRUE], buf |-> [e \in Ends |-> <<>>]])
        /\ oob' = [oob EXCEPT ![d] = [r EXCEPT !.sd = Len(socks) + 1, !.sev = TRUE]]

StartConnect(d, r) ==
    CASE r.state \in {"connecting", "connect_ack"} ->
             oob' = [oob EXCEPT ![d] = r] /\ UNCHANGED socks
      [] r.state = "connected" ->
             oob' = [oob EXCEPT ![d] = ArmSend(OnDeck(r))] /\ UNCHANGED socks
      [] OTHER -> TryConnect(d, [r EXCEPT !.state = "connecting"])

\* The RML hands the OOB its next message.
TcpSend(d) ==
    /\ oob[d].asked < NMsgs[d]
    /\ oob' = [oob EXCEPT ![d].asked = @ + 1,
                          ![d].posted = Append(@, [e |-> "send", m |-> oob[d].asked + 1])]
    /\ UNCHANGED <<socks, breaks>>

\* The next event of the main thread's queue, in the order it was activated.
TcpMainEvent(d) ==
    /\ MainIdle(d) /\ oob[d].posted # <<>>
    /\ LET ev == Head(oob[d].posted)
           r  == [oob[d] EXCEPT !.posted = Tail(@)]
       IN  CASE ev.e = "try"   -> TryConnect(d, r)
             [] ev.e = "start" -> StartConnect(d, r)
             [] ev.e = "send"  -> oob' = [oob EXCEPT ![d] = SendNb(r, ev.m)] /\ UNCHANGED socks
             [] OTHER -> oob' = [oob EXCEPT ![d] = [r EXCEPT !.down = TRUE]] /\ UNCHANGED socks
    /\ UNCHANGED breaks

TcpRetryTimer(d) ==
    /\ MainIdle(d) /\ oob[d].timers > 0
    /\ TryConnect(d, [oob[d] EXCEPT !.timers = @ - 1])
    /\ UNCHANGED breaks

\* The send handler of a socket being dialled: complete_connect.
TcpConnectCompletes(d) ==
    LET r == oob[d] IN
    /\ MainIdle(d) /\ r.sev /\ r.state = "connecting"
    /\ IF socks[r.sd].broken
       THEN /\ oob' = [oob EXCEPT ![d] = MainClose(r)]
            /\ socks' = Shut(socks, r.sd, d)
       ELSE /\ oob' = [oob EXCEPT ![d] = [r EXCEPT !.state = "connect_ack", !.sev = FALSE, !.rev = TRUE]]
            /\ socks' = Written(socks, r.sd, d, <<Frame("ident", NoMsg)>>)
    /\ UNCHANGED breaks

\* recv_connect_ack on a connection this daemon dialled.
TcpAnswered(d) ==
    LET r == oob[d] IN
    /\ MainIdle(d) /\ r.rev /\ r.state = "connect_ack" /\ Readable(r.sd, d)
    /\ IF AtEnd(r.sd, d) THEN
           /\ oob' = [oob EXCEPT ![d] = MainClose([r EXCEPT !.state = "failed"])]
           /\ socks' = Shut(socks, r.sd, d)
       ELSE IF Head(socks[r.sd].buf[d]).t = "nack" THEN
           /\ oob' = [oob EXCEPT ![d] = [Unarmed(r) EXCEPT !.sd = NoSocket, !.state = "unconnected"]]
           /\ socks' = Shut(socks, r.sd, d)
       ELSE
           /\ oob' = [oob EXCEPT ![d] = TcpPeerConnected(r)]
           /\ socks' = [socks EXCEPT ![r.sd].buf[d] = Tail(@)]
    /\ UNCHANGED breaks

\* prte_oob_tcp_peer_accept on a socket the peer now owns.
Accept(d, r, s, ss) ==
    IF ss[s].broken
    THEN /\ oob' = [oob EXCEPT ![d] = MainClose([r EXCEPT !.sd = s, !.state = "failed"])]
         /\ socks' = Shut(ss, s, d)
    ELSE /\ oob' = [oob EXCEPT ![d] = TcpPeerConnected([r EXCEPT !.sd = s])]
         /\ socks' = Written(ss, s, d, <<Frame("ident", NoMsg)>>)

\* The handshake on a socket the other daemon dialled: refuse it, accept it, or
\* (retry) leave CONNECTED first and wait for the handler that may be running.
TcpCalled(d) ==
    LET r == oob[d] IN
    \E s \in DOMAIN socks :
        /\ MainIdle(d) /\ socks[s].by = Far(d) /\ ~socks[s].taken /\ Readable(s, d)
        /\ LET taken == [socks EXCEPT ![s].taken = TRUE]
               read  == [taken EXCEPT ![s].buf[d] = Tail(@)]
           IN  IF AtEnd(s, d) THEN
                   socks' = Shut(taken, s, d) /\ UNCHANGED oob
               ELSE IF r.state \notin {"connected", "connecting", "connect_ack"} THEN
                   Accept(d, r, s, read)
               ELSE IF WinsArbitration(d) THEN
                   /\ socks' = Shut(Written(read, s, d, <<Frame("nack", NoMsg)>>), s, d)
                   /\ UNCHANGED oob
               ELSE
                   /\ oob' = [oob EXCEPT ![d] = [r EXCEPT !.state = "unconnected", !.main = s]]
                   /\ socks' = read
        /\ UNCHANGED breaks

\* The rest of retry(), and the accept that follows it in the same handler.
TcpAbandons(d) ==
    LET r == oob[d] IN
    /\ ~MainIdle(d) /\ r.worker = "idle"
    /\ Accept(d, Abandon(r, r.main), r.main, Shut(socks, r.sd, d))
    /\ UNCHANGED breaks

----------------------------------------------------------------------------
(* The worker thread *)

WorkerIdle(d) == oob[d].worker = "idle"

TcpQueueMsg(d) ==
    LET r == [oob[d] EXCEPT !.work = Tail(@)] IN
    /\ WorkerIdle(d) /\ oob[d].work # <<>>
    /\ oob' = [oob EXCEPT ![d] = QueueMsg(r, Head(oob[d].work))]
    /\ UNCHANGED <<socks, breaks>>

\* The send handler: what the socket takes of the message on deck.
TcpSendHandler(d) ==
    LET r == oob[d]
        m == r.deck
        rest == (IF r.half THEN <<>> ELSE <<Frame("head", m)>>) \o <<Frame("tail", m)>>
    IN
    /\ WorkerIdle(d) /\ r.sev /\ r.state = "connected"
    /\ IF m = NoMsg THEN
           oob' = [oob EXCEPT ![d].worker = "sent"] /\ UNCHANGED socks
       ELSE IF socks[r.sd].broken THEN
           /\ oob' = [oob EXCEPT ![d] = WorkerClose(r)]
           /\ socks' = Shut(socks, r.sd, d)
       ELSE
           \/ /\ oob' = [oob EXCEPT ![d] = [Ended(r, <<m>>) EXCEPT !.deck = NoMsg, !.half = FALSE,
                                                                  !.worker = "sent"]]
              /\ socks' = Written(socks, r.sd, d, rest)
           \/ /\ ~r.half
              /\ oob' = [oob EXCEPT ![d].half = TRUE]
              /\ socks' = Written(socks, r.sd, d, <<Frame("head", m)>>)
    /\ UNCHANGED breaks

\* The next message moves on deck, or the send event is unregistered.
TcpSendNext(d) ==
    LET r == OnDeck(oob[d]) IN
    /\ oob[d].worker = "sent"
    /\ oob' = [oob EXCEPT ![d] = [r EXCEPT !.sev = r.sev /\ r.deck # NoMsg, !.worker = "idle"]]
    /\ UNCHANGED <<socks, breaks>>

\* A body delivers the message whose header was read before it.
Received(r, f) ==
    IF f.t = "head" THEN [r EXCEPT !.recv = f.m]
    ELSE [r EXCEPT !.recv = NoMsg, !.heard = Append(@, r.recv)]

TcpRecvHandler(d) ==
    LET r == oob[d] IN
    /\ WorkerIdle(d) /\ r.rev /\ r.state = "connected" /\ Readable(r.sd, d)
    /\ IF AtEnd(r.sd, d) THEN
           /\ oob' = [oob EXCEPT ![d] = WorkerClose(r)]
           /\ socks' = Shut(socks, r.sd, d)
       ELSE LET f == Head(socks[r.sd].buf[d]) IN
           /\ socks' = [socks EXCEPT ![r.sd].buf[d] = Tail(@)]
           /\ oob' = [oob EXCEPT ![d] = Received(r, f)]
    /\ UNCHANGED breaks

\* A handler that starts between retry()'s two locks finds the peer in no state
\* it knows: the send handler drops its event, the receive handler closes the peer.
TcpStrayHandler(d) ==
    LET r == oob[d] IN
    /\ WorkerIdle(d) /\ ~MainIdle(d) /\ r.state = "unconnected"
    /\ \/ /\ r.sev
          /\ oob' = [oob EXCEPT ![d].sev = FALSE]
          /\ UNCHANGED socks
       \/ /\ r.rev /\ Readable(r.sd, d)
          /\ oob' = [oob EXCEPT ![d] = WorkerClose(r)]
          /\ socks' = Shut(socks, r.sd, d)
    /\ UNCHANGED breaks

\* What peer_close does once it has dropped the lock.
TcpLift(d) ==
    /\ oob[d].worker = "lift"
    /\ oob' = [oob EXCEPT ![d] = [LiftLostSends(@) EXCEPT !.worker = "idle"]]
    /\ UNCHANGED <<socks, breaks>>

----------------------------------------------------------------------------
(* The network *)

TcpBreak(s) ==
    /\ breaks < MaxBreaks
    /\ ~socks[s].broken /\ \A e \in Ends : socks[s].open[e]
    /\ socks' = [socks EXCEPT ![s].broken = TRUE, ![s].buf = [e \in Ends |-> <<>>]]
    /\ breaks' = breaks + 1
    /\ UNCHANGED oob

TcpHandler(d) == \/ TcpMainEvent(d) \/ TcpRetryTimer(d) \/ TcpConnectCompletes(d)
                 \/ TcpAnswered(d) \/ TcpCalled(d) \/ TcpAbandons(d)
                 \/ TcpQueueMsg(d) \/ TcpSendHandler(d) \/ TcpSendNext(d)
                 \/ TcpRecvHandler(d) \/ TcpStrayHandler(d) \/ TcpLift(d)

TcpNext == \/ \E d \in Ends : TcpSend(d) \/ TcpHandler(d)
           \/ \E s \in DOMAIN socks : TcpBreak(s)

TcpSpec == TcpInit /\ [][TcpNext]_tcpVars /\ \A d \in Ends : WF_tcpVars(TcpHandler(d))

----------------------------------------------------------------------------
(* Properties *)

\* Each send is completed once, by the send handler or by the close or give-up
\* that lifted it off the peer: complete_send is never told of a message twice.
TcpCompletedOnce == \A d \in Ends : IsInjective(oob[d].ended)

\* Every message is delivered at most once, in the order it was sent and never
\* put together from two connections' bytes: the half-sent message of the
\* connection that retry() abandons starts again from its header.
TcpInOrder ==
    \A d \in Ends : LET h == oob[d].heard IN
        \A i \in DOMAIN h : h[i] # NoMsg /\ \A j \in 1..(i - 1) : h[j] < h[i]

\* An armed event watches a socket the daemon still has open (the assertion of
\* tcp_peer_event_init, and the comment on the dial guard of try_connect).
TcpEventsOnLiveSocket ==
    \A d \in Ends : LET r == oob[d] IN
        (r.sev \/ r.rev) => r.sd # NoSocket /\ socks[r.sd].open[d]

\* Every message handed to the OOB has been completed, unless one of the two
\* daemons has reported the other lost or unreachable.  It always comes to this:
\* none stays parked on a connected peer whose send event no thread armed, or on
\* a peer each end leaves to the other to dial.
TcpSettled ==
    \A d \in Ends : \A m \in 1..oob[d].asked :
        (\E e \in Ends : oob[e].down) \/ m \in Range(oob[d].ended)

\* A connection delivers in order and once, and its events stay with its socket.
TcpSound == TcpCompletedOnce /\ TcpInOrder /\ TcpEventsOnLiveSocket

=============================================================================

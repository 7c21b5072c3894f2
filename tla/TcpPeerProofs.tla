--------------------------- MODULE TcpPeerProofs ---------------------------
(***************************************************************************)
(* Every handler keeps SocketInv: what a daemon may do to the sockets in   *)
(* a step, and that it goes on holding the ones it has open. An armed      *)
(* event watches a socket that is still open.                              *)
(***************************************************************************)
EXTENDS TcpBase

\* socket s is taken up by the end that was called
IsTaken(ss, tt, s) ==
    /\ tt \in Seq(Sock) /\ DOMAIN tt = DOMAIN ss /\ Len(tt) = Len(ss)
    /\ \A k \in DOMAIN ss \ {s} : tt[k] = ss[k]
    /\ tt[s].by = ss[s].by /\ tt[s].taken /\ tt[s].broken = ss[s].broken
    /\ tt[s].open = ss[s].open /\ tt[s].buf = ss[s].buf

\* The handshake takes a socket off the listener.
LEMMA TakenEffect ==
    ASSUME NEW ss \in Seq(Sock), NEW s \in DOMAIN ss
    PROVE  IsTaken(ss, [ss EXCEPT ![s].taken = TRUE], s)
<1> DEFINE y == [ss[s] EXCEPT !.taken = TRUE]
<1>1. ASSUME NEW x \in Sock PROVE LET z == [x EXCEPT !.taken = TRUE] IN
      /\ z \in Sock
      /\ z.by = x.by /\ z.taken = TRUE /\ z.broken = x.broken /\ z.open = x.open
      /\ z.buf = x.buf
   BY Zenon DEF Sock
<1>3. /\ y \in Sock
      /\ y.by = ss[s].by /\ y.taken /\ y.broken = ss[s].broken /\ y.open = ss[s].open
      /\ y.buf = ss[s].buf
    BY SockAt, <1>1, Zenon
<1>2. [ss EXCEPT ![s].taken = TRUE] = [ss EXCEPT ![s] = y]
    BY Zenon
<1> HIDE DEF y
<1>4. /\ [ss EXCEPT ![s] = y] \in Seq(Sock) /\ Len([ss EXCEPT ![s] = y]) = Len(ss)
      /\ DOMAIN [ss EXCEPT ![s] = y] = DOMAIN ss
      /\ [ss EXCEPT ![s] = y][s] = y
      /\ \A k \in DOMAIN ss \ {s} : [ss EXCEPT ![s] = y][k] = ss[k]
    BY SMTT(30), <1>3
<1> QED
    BY Zenon, <1>2, <1>3, <1>4 DEF IsTaken

\* The network breaks a socket: nothing is in flight on it any more.
LEMMA BreakEffect ==
    ASSUME NEW ss \in Seq(Sock), NEW s \in DOMAIN ss
    PROVE  LET tt == [ss EXCEPT ![s].broken = TRUE, ![s].buf = [e \in Ends |-> <<>>]] IN
           /\ tt \in Seq(Sock) /\ DOMAIN tt = DOMAIN ss /\ Len(tt) = Len(ss)
           /\ \A k \in DOMAIN ss \ {s} : tt[k] = ss[k]
           /\ tt[s].by = ss[s].by /\ tt[s].taken = ss[s].taken /\ tt[s].broken
           /\ tt[s].open = ss[s].open /\ tt[s].buf = [e \in Ends |-> <<>>]
<1> DEFINE y == [ss[s] EXCEPT !.broken = TRUE, !.buf = [e \in Ends |-> <<>>]]
<1>1. ASSUME NEW x \in Sock PROVE LET z == [x EXCEPT !.broken = TRUE, !.buf = [e \in Ends |-> <<>>]] IN
      /\ z \in Sock
      /\ z.by = x.by /\ z.taken = x.taken /\ z.broken = TRUE /\ z.open = x.open
      /\ z.buf = [e \in Ends |-> <<>>]
  <2>1. [e \in Ends |-> <<>>] \in [Ends -> Seq(Frames)]
      BY SMTT(30)
  <2> QED BY Zenon, <2>1 DEF Sock
<1>3. /\ y \in Sock
      /\ y.by = ss[s].by /\ y.taken = ss[s].taken /\ y.broken /\ y.open = ss[s].open
      /\ y.buf = [e \in Ends |-> <<>>]
    BY SockAt, <1>1, Zenon
<1>2. [ss EXCEPT ![s].broken = TRUE, ![s].buf = [e \in Ends |-> <<>>]] = [ss EXCEPT ![s] = y]
    BY Zenon
<1> HIDE DEF y
<1>4. /\ [ss EXCEPT ![s] = y] \in Seq(Sock) /\ Len([ss EXCEPT ![s] = y]) = Len(ss)
      /\ DOMAIN [ss EXCEPT ![s] = y] = DOMAIN ss
      /\ [ss EXCEPT ![s] = y][s] = y
      /\ \A k \in DOMAIN ss \ {s} : [ss EXCEPT ![s] = y][k] = ss[k]
    BY SMTT(30), <1>3
<1> QED
    BY Zenon, <1>2, <1>3, <1>4

\* The types of the two peer objects.
LEMMA FarType == \A d \in Ends : oob \in [Ends -> Peer] => oob[d] \in Peer /\ oob[Far(d)] \in Peer
    BY Zenon, FarEnd

\* Operations on the peer object keep its type, and change just some of its fields.
LEMMA PostType ==
    ASSUME NEW r \in Peer, NEW e \in Events
    PROVE  Post(r, e) \in Peer
<1>1. r.posted \in Seq(Posted)
    BY Zenon DEF Peer
<1>2. [e |-> e, m |-> NoMsg] \in Posted
    BY Zenon DEF Posted, NoMsg
<1>3. Append(r.posted, [e |-> e, m |-> NoMsg]) \in Seq(Posted)
    BY SMTT(30), <1>1, <1>2
<1> QED
    BY Zenon, <1>3 DEF Post, Peer

\* An event is posted.
LEMMA PostFields ==
    ASSUME NEW r \in Peer, NEW e
    PROVE  LET p == Post(r, e) IN
           /\ p.state = r.state /\ p.sd = r.sd /\ p.established = r.established
           /\ p.sev = r.sev /\ p.rev = r.rev /\ p.addrFailed = r.addrFailed
           /\ p.deck = r.deck /\ p.half = r.half /\ p.queue = r.queue /\ p.recv = r.recv
           /\ p.posted = Append(r.posted, [e |-> e, m |-> NoMsg]) /\ p.work = r.work
           /\ p.main = r.main /\ p.worker = r.worker /\ p.wasUp = r.wasUp /\ p.down = r.down
           /\ p.asked = r.asked /\ p.ended = r.ended /\ p.heard = r.heard
    BY Zenon DEF Post, Peer

\* An event is taken.
LEMMA PopType ==
    ASSUME NEW r \in Peer, r.posted # <<>>
    PROVE  /\ Head(r.posted) \in Posted
           /\ [r EXCEPT !.posted = Tail(@)] \in Peer
<1>1. r.posted \in Seq(Posted)
    BY Zenon DEF Peer
<1>2. Head(r.posted) \in Posted /\ Tail(r.posted) \in Seq(Posted)
    BY SMTT(30), <1>1
<1> QED
    BY Zenon, <1>2 DEF Peer

\* The next message moves on deck.
LEMMA OnDeckType ==
    ASSUME NEW r \in Peer
    PROVE  OnDeck(r) \in Peer
<1>1. CASE r.deck = NoMsg /\ r.queue # <<>>
  <2>1. r.queue \in Seq(Nat)
      BY Zenon DEF Peer
  <2>2. Head(r.queue) \in Nat /\ Tail(r.queue) \in Seq(Nat)
      BY SMTT(30), <2>1, <1>1
  <2>3. OnDeck(r) = [r EXCEPT !.deck = Head(r.queue), !.queue = Tail(r.queue)]
      BY Zenon, <1>1 DEF OnDeck
  <2> QED
      BY ZenonT(60), <2>3, <2>2 DEF Peer
<1>2. CASE ~(r.deck = NoMsg /\ r.queue # <<>>)
    BY Zenon, <1>2 DEF OnDeck
<1> QED
    BY Zenon, <1>1, <1>2

\* Messages are completed.
LEMMA EndedType ==
    ASSUME NEW r \in Peer, NEW ms \in Seq(Nat)
    PROVE  Ended(r, ms) \in Peer
<1>1. r.ended \in Seq(Nat)
    BY Zenon DEF Peer
<1>2. r.ended \o ms \in Seq(Nat)
    BY SMTT(30), <1>1
<1> QED
    BY Zenon, <1>2 DEF Ended, Peer

\* The messages that tcp_peer_lift_queued_sends takes.
Lifted(r) == (IF r.deck = NoMsg THEN <<>> ELSE <<r.deck>>) \o r.queue

\* They are taken.
LEMMA LiftType ==
    ASSUME NEW r \in Peer
    PROVE  LiftQueuedSends(r) \in Peer
<1>1. r.deck \in Nat /\ r.queue \in Seq(Nat)
    BY Zenon DEF Peer
<1>2. Lifted(r) \in Seq(Nat)
    BY SMTT(30), <1>1 DEF Lifted
<1>3. Ended(r, Lifted(r)) \in Peer
    BY Zenon, <1>2, EndedType
<1>4. LiftQueuedSends(r) = [Ended(r, Lifted(r)) EXCEPT !.deck = NoMsg, !.half = FALSE, !.queue = <<>>]
    BY Zenon DEF LiftQueuedSends, Lifted
<1>5. ASSUME NEW q \in Peer
      PROVE  [q EXCEPT !.deck = NoMsg, !.half = FALSE, !.queue = <<>>] \in Peer
  <2>1. NoMsg \in Nat /\ <<>> \in Seq(Nat)
      BY SMTT(30) DEF NoMsg
  <2> QED
      BY ZenonT(30), <2>1 DEF Peer
<1> QED
    BY Zenon, <1>3, <1>4, <1>5

\* They are taken by a close.
LEMMA LostType ==
    ASSUME NEW r \in Peer
    PROVE  LiftLostSends(r) \in Peer
<1> DEFINE p == LiftQueuedSends(r)
           l == [p EXCEPT !.wasUp = FALSE]
<1>0. p \in Peer
    BY Zenon, LiftType
<1> HIDE DEF p
<1>1. l \in Peer
    BY ZenonT(60), <1>0 DEF Peer
<1> HIDE DEF l
<1>2. Post(l, "lost") \in Peer
    BY Zenon, <1>1, PostType DEF Events
<1> QED
    BY Zenon, <1>1, <1>2 DEF LiftLostSends, l, p

\* Lifting the queued sends leaves the connection alone.
LEMMA LiftFields ==
    ASSUME NEW r \in Peer
    PROVE  LET l == LiftQueuedSends(r) IN
           /\ l.state = r.state /\ l.sd = r.sd /\ l.established = r.established
           /\ l.sev = r.sev /\ l.rev = r.rev /\ l.addrFailed = r.addrFailed
           /\ l.deck = NoMsg /\ l.half = FALSE /\ l.queue = <<>> /\ l.recv = r.recv
           /\ l.posted = r.posted /\ l.work = r.work /\ l.main = r.main
           /\ l.worker = r.worker /\ l.wasUp = r.wasUp /\ l.down = r.down
           /\ l.asked = r.asked /\ l.ended = r.ended \o Lifted(r) /\ l.heard = r.heard
    BY Zenon DEF LiftQueuedSends, Lifted, Ended, Peer

\* What a close leaves.
LEMMA LostFields ==
    ASSUME NEW r \in Peer
    PROVE  LET l == LiftLostSends(r) IN
           /\ l.state = r.state /\ l.sd = r.sd /\ l.established = r.established
           /\ l.sev = r.sev /\ l.rev = r.rev /\ l.addrFailed = r.addrFailed
           /\ l.deck = NoMsg /\ l.half = FALSE /\ l.queue = <<>> /\ l.recv = r.recv
           /\ l.posted \in {r.posted, Append(r.posted, [e |-> "lost", m |-> NoMsg])}
           /\ l.work = r.work /\ l.main = r.main
           /\ l.worker = r.worker /\ l.down = r.down
           /\ l.asked = r.asked /\ l.ended = r.ended \o Lifted(r) /\ l.heard = r.heard
<1> DEFINE p == LiftQueuedSends(r)
           l == [p EXCEPT !.wasUp = FALSE]
<1>1. p \in Peer
    BY Zenon, LiftType
<1>2. /\ p.state = r.state /\ p.sd = r.sd /\ p.established = r.established
      /\ p.sev = r.sev /\ p.rev = r.rev /\ p.addrFailed = r.addrFailed
      /\ p.deck = NoMsg /\ p.half = FALSE /\ p.queue = <<>> /\ p.recv = r.recv
      /\ p.posted = r.posted /\ p.work = r.work /\ p.main = r.main
      /\ p.worker = r.worker /\ p.down = r.down
      /\ p.asked = r.asked /\ p.ended = r.ended \o Lifted(r) /\ p.heard = r.heard
    BY Zenon, LiftFields
<1>3. LiftLostSends(r) = IF r.wasUp THEN Post(l, "lost") ELSE l
    BY Zenon DEF LiftLostSends
<1> HIDE DEF p
<1>4. /\ l \in Peer
      /\ l.state = p.state /\ l.sd = p.sd /\ l.established = p.established
      /\ l.sev = p.sev /\ l.rev = p.rev /\ l.addrFailed = p.addrFailed
      /\ l.deck = p.deck /\ l.half = p.half /\ l.queue = p.queue /\ l.recv = p.recv
      /\ l.posted = p.posted /\ l.work = p.work /\ l.main = p.main
      /\ l.worker = p.worker /\ l.down = p.down
      /\ l.asked = p.asked /\ l.ended = p.ended /\ l.heard = p.heard
    BY ZenonT(30), <1>1 DEF Peer
<1> HIDE DEF l
<1>5. CASE r.wasUp
    BY SMTT(30), <1>2, <1>3, <1>4, <1>5, PostFields
<1>6. CASE ~r.wasUp
    BY ZenonT(30), <1>2, <1>3, <1>4, <1>6
<1> QED
    BY Zenon, <1>5, <1>6

\* The events of a peer are deleted.
LEMMA UnarmedFields ==
    ASSUME NEW r \in Peer
    PROVE  LET u == Unarmed(r) IN
           /\ u \in Peer /\ u.sev = FALSE /\ u.rev = FALSE
           /\ u.state = r.state /\ u.sd = r.sd /\ u.established = r.established
           /\ u.addrFailed = r.addrFailed
           /\ u.deck = r.deck /\ u.half = r.half /\ u.queue = r.queue /\ u.recv = r.recv
           /\ u.posted = r.posted /\ u.work = r.work
           /\ u.main = r.main /\ u.worker = r.worker /\ u.wasUp = r.wasUp /\ u.down = r.down
           /\ u.asked = r.asked /\ u.ended = r.ended /\ u.heard = r.heard
    BY ZenonT(30) DEF Unarmed, Peer

\* The types after arming, tearing down and closing.
LEMMA SmallTypes ==
    ASSUME NEW r \in Peer
    PROVE  /\ ArmSend(r) \in Peer
           /\ Unarmed(r) \in Peer
           /\ TearDown(r) \in Peer
           /\ WorkerClose(r) \in Peer
<1>1. Unarmed(r) \in Peer /\ ArmSend(r) \in Peer
    BY ZenonT(30) DEF Unarmed, ArmSend, Peer
<1>2. TearDown(r) \in Peer
  <2>1. ASSUME NEW q \in Peer, NEW b \in BOOLEAN
        PROVE  [q EXCEPT !.state = "closed", !.established = FALSE, !.sd = NoSocket,
                         !.recv = NoMsg, !.wasUp = b] \in Peer
      BY ZenonT(60) DEF Peer, NoSocket, NoMsg, States
  <2>2. (r.state = "connected") \in BOOLEAN
      BY Zenon
  <2> QED
      BY Zenon, <1>1, <2>1, <2>2 DEF TearDown
<1>3. WorkerClose(r) \in Peer
    BY ZenonT(60), <1>2 DEF WorkerClose, Peer
<1> QED
    BY Zenon, <1>1, <1>2, <1>3

\* The part of peer_close under the lock.
LEMMA TearDownFields ==
    ASSUME NEW r \in Peer
    PROVE  LET p == TearDown(r) IN
           /\ p.state = "closed" /\ p.sd = NoSocket /\ p.established = FALSE
           /\ p.sev = FALSE /\ p.rev = FALSE
           /\ p.deck = r.deck /\ p.half = r.half /\ p.queue = r.queue /\ p.recv = NoMsg
           /\ p.posted = r.posted /\ p.work = r.work
           /\ p.main = r.main /\ p.worker = r.worker /\ p.down = r.down
           /\ p.asked = r.asked /\ p.ended = r.ended /\ p.heard = r.heard
<1> DEFINE u == Unarmed(r)
           b == r.state = "connected"
           p == [u EXCEPT !.state = "closed", !.established = FALSE, !.sd = NoSocket,
                          !.recv = NoMsg, !.wasUp = b]
<1>1. /\ u \in Peer /\ u.sev = FALSE /\ u.rev = FALSE
      /\ u.deck = r.deck /\ u.half = r.half /\ u.queue = r.queue
      /\ u.posted = r.posted /\ u.work = r.work
      /\ u.main = r.main /\ u.worker = r.worker /\ u.down = r.down
      /\ u.asked = r.asked /\ u.ended = r.ended /\ u.heard = r.heard
    BY Zenon, UnarmedFields
<1>2. TearDown(r) = p
    BY Zenon DEF TearDown
<1> HIDE DEF u, b
<1>3. /\ p.state = "closed" /\ p.sd = NoSocket /\ p.established = FALSE
      /\ p.sev = u.sev /\ p.rev = u.rev
      /\ p.deck = u.deck /\ p.half = u.half /\ p.queue = u.queue /\ p.recv = NoMsg
      /\ p.posted = u.posted /\ p.work = u.work
      /\ p.main = u.main /\ p.worker = u.worker /\ p.down = u.down
      /\ p.asked = u.asked /\ p.ended = u.ended /\ p.heard = u.heard
    BY ZenonT(30), <1>1 DEF Peer
<1> HIDE DEF p
<1> QED
    BY Zenon, <1>1, <1>2, <1>3

\* The type after peer_close on the main thread.
LEMMA CloseType ==
    ASSUME NEW r \in Peer
    PROVE  MainClose(r) \in Peer
<1>1. LiftLostSends(TearDown(r)) \in Peer
    BY Zenon, SmallTypes, LostType
<1>2. [Unarmed(r) EXCEPT !.state = "connecting", !.sd = NoSocket, !.addrFailed = TRUE] \in Peer
  <2>1. ASSUME NEW q \in Peer
        PROVE  [q EXCEPT !.state = "connecting", !.sd = NoSocket, !.addrFailed = TRUE] \in Peer
      BY ZenonT(30) DEF Peer, NoSocket, States
  <2> QED
      BY Zenon, SmallTypes, <2>1
<1>3. RotateAddress(r) \in Peer
    BY Zenon, <1>2, PostType DEF RotateAddress, Events
<1> QED
    BY Zenon, <1>1, <1>3 DEF MainClose

\* The type after tcp_peer_connected.
LEMMA ConnectedType ==
    ASSUME NEW r \in Peer
    PROVE  TcpPeerConnected(r) \in Peer
<1> DEFINE q == [r EXCEPT !.state = "connected", !.established = TRUE, !.sev = FALSE, !.rev = TRUE]
<1>1. q \in Peer
    BY ZenonT(30) DEF Peer, States
<1> HIDE DEF q
<1>2. ArmSend(OnDeck(q)) \in Peer
    BY Zenon, <1>1, OnDeckType, SmallTypes
<1> QED
    BY Zenon, <1>2 DEF TcpPeerConnected, q

\* What tcp_peer_connected changes.
LEMMA ConnectedFields ==
    ASSUME NEW r \in Peer
    PROVE  LET p == TcpPeerConnected(r) IN
           /\ p.state = "connected" /\ p.sd = r.sd /\ p.established = TRUE
           /\ p.rev = TRUE /\ p.addrFailed = r.addrFailed
           /\ p.half = r.half /\ p.recv = r.recv
           /\ p.deck = OnDeck(r).deck /\ p.queue = OnDeck(r).queue
           /\ p.posted = r.posted /\ p.work = r.work
           /\ p.main = r.main /\ p.worker = r.worker /\ p.down = r.down
           /\ p.asked = r.asked /\ p.ended = r.ended /\ p.heard = r.heard
<1> DEFINE q == [r EXCEPT !.state = "connected", !.established = TRUE, !.sev = FALSE, !.rev = TRUE]
           o == OnDeck(q)
<1>1. /\ q \in Peer /\ q.state = "connected" /\ q.sd = r.sd /\ q.established = TRUE
      /\ q.rev = TRUE /\ q.addrFailed = r.addrFailed
      /\ q.half = r.half /\ q.recv = r.recv
      /\ q.deck = r.deck /\ q.queue = r.queue
      /\ q.posted = r.posted /\ q.work = r.work
      /\ q.main = r.main /\ q.worker = r.worker /\ q.down = r.down
      /\ q.asked = r.asked /\ q.ended = r.ended /\ q.heard = r.heard
    BY ZenonT(60) DEF Peer, States
<1>2. TcpPeerConnected(r) = ArmSend(OnDeck(q))
    BY Zenon DEF TcpPeerConnected
<1> HIDE DEF q
<1>3. /\ o \in Peer /\ o.state = q.state /\ o.sd = q.sd /\ o.established = q.established
      /\ o.rev = q.rev /\ o.addrFailed = q.addrFailed
      /\ o.half = q.half /\ o.recv = q.recv
      /\ o.deck = OnDeck(r).deck /\ o.queue = OnDeck(r).queue
      /\ o.posted = q.posted /\ o.work = q.work
      /\ o.main = q.main /\ o.worker = q.worker /\ o.down = q.down
      /\ o.asked = q.asked /\ o.ended = q.ended /\ o.heard = q.heard
  <2>1. o \in Peer
      BY Zenon, <1>1, OnDeckType
  <2>2. CASE q.deck = NoMsg /\ q.queue # <<>>
    <3>1. /\ o = [q EXCEPT !.deck = Head(q.queue), !.queue = Tail(q.queue)]
          /\ OnDeck(r) = [r EXCEPT !.deck = Head(r.queue), !.queue = Tail(r.queue)]
        BY Zenon, <1>1, <2>2 DEF OnDeck
    <3> QED
        BY SMTT(30), <1>1, <2>1, <3>1 DEF Peer
  <2>3. CASE ~(q.deck = NoMsg /\ q.queue # <<>>)
    <3>1. o = q /\ OnDeck(r) = r
        BY Zenon, <1>1, <2>3 DEF OnDeck
    <3> QED
        BY Zenon, <1>1, <3>1
  <2> QED
      BY Zenon, <2>2, <2>3
<1> HIDE DEF o
<1>4. ASSUME NEW a \in Peer
      PROVE  LET p == ArmSend(a) IN
             /\ p.state = a.state /\ p.sd = a.sd /\ p.established = a.established
             /\ p.rev = a.rev /\ p.addrFailed = a.addrFailed
             /\ p.half = a.half /\ p.recv = a.recv
             /\ p.deck = a.deck /\ p.queue = a.queue
             /\ p.posted = a.posted /\ p.work = a.work
             /\ p.main = a.main /\ p.worker = a.worker /\ p.down = a.down
             /\ p.asked = a.asked /\ p.ended = a.ended /\ p.heard = a.heard
    BY Zenon DEF ArmSend, Peer
<1> QED
    BY SMTT(30), <1>1, <1>2, <1>3, <1>4 DEF o

\* The type after send_nb.
LEMMA SendNbType ==
    ASSUME NEW r \in Peer, NEW m \in Nat
    PROVE  SendNb(r, m) \in Peer
<1>1. ASSUME NEW a \in BOOLEAN
      PROVE  [r EXCEPT !.work = Append(@, [m |-> m, activate |-> a])] \in Peer
  <2>1. r.work \in Seq(Queued)
      BY Zenon DEF Peer
  <2>2. [m |-> m, activate |-> a] \in Queued
      BY Zenon DEF Queued
  <2>3. Append(r.work, [m |-> m, activate |-> a]) \in Seq(Queued)
      BY SMTT(30), <2>1, <2>2
  <2> QED
      BY ZenonT(30), <2>3 DEF Peer
<1> DEFINE q == [r EXCEPT !.work = Append(@, [m |-> m, activate |-> FALSE])]
<1>2. q \in Peer
    BY Zenon, <1>1
<1>3. [q EXCEPT !.state = "connecting"] \in Peer
    BY ZenonT(60), <1>2 DEF Peer, States
<1>4. Post([q EXCEPT !.state = "connecting"], "try") \in Peer
    BY Zenon, <1>3, PostType DEF Events
<1>5. Ended(r, <<m>>) \in Peer
  <2>1. <<m>> \in Seq(Nat)
      BY SMTT(30)
  <2> QED
      BY Zenon, <2>1, EndedType
<1> QED
    BY Zenon, <1>1, <1>2, <1>4, <1>5 DEF SendNb

\* The type after queue_msg.
LEMMA QueueMsgType ==
    ASSUME NEW r \in Peer, NEW q \in Queued
    PROVE  QueueMsg(r, q) \in Peer
<1>1. q.m \in Nat /\ r.queue \in Seq(Nat)
    BY Zenon DEF Queued, Peer
<1>2. Append(r.queue, q.m) \in Seq(Nat)
    BY SMTT(30), <1>1
<1> DEFINE p == IF r.deck = NoMsg THEN [r EXCEPT !.deck = q.m]
                ELSE [r EXCEPT !.queue = Append(@, q.m)]
<1>3. p \in Peer
    BY ZenonT(60), <1>1, <1>2 DEF Peer
<1> HIDE DEF p
<1>4. ArmSend(p) \in Peer /\ Post(p, "start") \in Peer
    BY Zenon, <1>3, SmallTypes, PostType DEF Events
<1> QED
    BY Zenon, <1>3, <1>4 DEF QueueMsg, p

\* The type after the last address failed.
LEMMA NoAddressType ==
    ASSUME NEW r \in Peer
    PROVE  NoAddressLeft(r) \in Peer
<1>1. [r EXCEPT !.sd = NoSocket, !.addrFailed = FALSE, !.timers = @ + 1, !.recons = @ + 1] \in Peer
  <2>1. r.timers + 1 \in Nat /\ r.recons + 1 \in Nat /\ NoSocket \in Nat
      BY SMTT(30) DEF Peer, NoSocket
  <2> QED
      BY ZenonT(30), <2>1 DEF Peer
<1>2. [r EXCEPT !.sd = NoSocket, !.state = "failed"] \in Peer
    BY ZenonT(30) DEF Peer, NoSocket, States
<1>3. LiftQueuedSends(Post([r EXCEPT !.sd = NoSocket, !.state = "failed"], "failed")) \in Peer
    BY Zenon, <1>2, PostType, LiftType DEF Events
<1> QED
    BY Zenon, <1>1, <1>3 DEF NoAddressLeft

----------------------------------------------------------------------------
\* Which sockets a daemon holds

\* A step that touches no socket.
LEMMA StaysPut ==
    ASSUME NEW ss, NEW d \in Ends, ss \in Seq(Sock), SocketsTell(ss)
    PROVE  Moves(ss, ss, d)
    BY Zenon DEF Moves

\* A daemon closes the socket it has.
LEMMA ShutHolds ==
    ASSUME NEW d \in Ends, NEW r, NEW q \in Peer, NEW ss, Holding(r, d, ss),
           q.sd = NoSocket, q.main = r.main, ~q.sev, ~q.rev,
           q.state \in {"unconnected", "closed", "failed", "connecting"},
           q.main # NoSocket => q.state \in {"unconnected", "closed"}
    PROVE  Steps(d, ss, q, Shut(ss, r.sd, d))
<1>1. CASE r.sd = NoSocket
    BY ZenonT(30), <1>1 DEF Steps, Holding, Moves, HoldsSockets, Shut
<1>2. CASE r.sd # NoSocket
  <2>1. r.sd \in DOMAIN ss
      BY Zenon, <1>2 DEF Holding, HoldsSockets
  <2> DEFINE tt == Shut(ss, r.sd, d)
  <2>2. Closes(ss, tt, r.sd, d)
      BY Zenon, <2>1, ShutEffect DEF Holding
  <2> HIDE DEF tt
  <2>3. SocketsTell(tt)
    <3>1. ss[r.sd].by \in Ends
        BY Zenon, <2>1, SockAt DEF Holding, Sock
    <3> QED
      BY SMTT(30), <1>2, <2>1, <2>2, <3>1, FarEnd DEF SocketsTell, Holding, HoldsSockets, Closes
  <2>4. Moves(ss, tt, d)
      BY Zenon, <2>1, <2>2, <2>3 DEF Moves, Closes
  <2>5. HoldsSockets(q, d, tt)
      BY SMTT(30), <1>2, <2>1, <2>2, FarEnd DEF HoldsSockets, Holding, Closes
  <2> QED
      BY Zenon, <2>4, <2>5 DEF Steps, tt
<1> QED
    BY Zenon, <1>1, <1>2

\* Reading a socket of its own, and writing to it, leaves the sockets as they were.
LEMMA BufMoves ==
    ASSUME NEW d \in Ends, NEW e \in Ends, NEW ss \in Seq(Sock), NEW tt, NEW s \in DOMAIN ss,
           NEW b, SocketsTell(ss), BufIs(ss, tt, s, e, b), ~ss[s].open[e] => b = ss[s].buf[e]
    PROVE  Moves(ss, tt, d) /\ \A r \in Peer : HoldsSockets(r, d, ss) => HoldsSockets(r, d, tt)
<1>1. SocketsTell(tt)
    BY SMTT(30), FarEnd DEF SocketsTell, BufIs
<1>2. Moves(ss, tt, d)
    BY Zenon, <1>1 DEF Moves, BufIs
<1>3. \A k \in DOMAIN ss : tt[k].by = ss[k].by /\ tt[k].open = ss[k].open /\ tt[k].taken = ss[k].taken
    BY Zenon DEF BufIs
<1>4. DOMAIN tt = DOMAIN ss
    BY Zenon DEF BufIs
<1> QED
    BY SMTT(30), <1>2, <1>3, <1>4 DEF HoldsSockets

\* A write to a socket of the daemon's own.
LEMMA WriteMoves ==
    ASSUME NEW d \in Ends, NEW ss \in Seq(Sock), NEW s \in DOMAIN ss, NEW fs \in Seq(Frames),
           SocketsTell(ss)
    PROVE  /\ Moves(ss, Written(ss, s, d, fs), d)
           /\ \A r \in Peer : HoldsSockets(r, d, ss) => HoldsSockets(r, d, Written(ss, s, d, fs))
<1> DEFINE b  == IF Reaches(ss, s, d) THEN ss[s].buf[Far(d)] \o fs ELSE ss[s].buf[Far(d)]
           tt == Written(ss, s, d, fs)
<1>1. BufIs(ss, tt, s, Far(d), b)
    BY Zenon, WrittenEffect
<1>2. ~ss[s].open[Far(d)] => b = ss[s].buf[Far(d)]
    BY Zenon DEF Reaches
<1> HIDE DEF b, tt
<1>3. Moves(ss, tt, d) /\ \A r \in Peer : HoldsSockets(r, d, ss) => HoldsSockets(r, d, tt)
    BY Zenon, <1>1, <1>2, FarEnd, BufMoves
<1> QED
    BY Zenon, <1>3 DEF tt

\* A step that keeps its sockets, and goes on with the connection or leaves it alone.
LEMMA SameHolds ==
    ASSUME NEW d \in Ends, NEW r, NEW q \in Peer, NEW ss, Holding(r, d, ss),
           q.sd = r.sd, q.main = r.main, q.addrFailed = r.addrFailed,
           (q.sev \/ q.rev) => r.sd # NoSocket,
           \/ q.state = r.state
           \/ r.main = NoSocket /\ r.sd = NoSocket /\ q.state = "connecting"
           \/ r.main = NoSocket /\ r.sd # NoSocket /\ q.state \in {"connect_ack", "connected"}
    PROVE  Steps(d, ss, q, ss)
    BY ZenonT(30), StaysPut DEF Steps, Holding, HoldsSockets

\* A daemon takes up a socket it was called on and has none other.
LEMMA TakesUp ==
    ASSUME NEW d \in Ends, NEW r, NEW ss, Holding(r, d, ss), NEW s \in DOMAIN ss, NEW tt,
           ss[s].by = Far(d), ~ss[s].taken, IsTaken(ss, tt, s)
    PROVE  /\ Moves(ss, tt, d)
           /\ tt[s].open[d]
           /\ s # r.sd /\ s # r.main /\ s # NoSocket
           /\ \A k \in DOMAIN tt : tt[k].open[d] =>
                  \/ k = r.sd \/ k = r.main \/ k = s
                  \/ tt[k].by = Far(d) /\ ~tt[k].taken
<1>1. SocketsTell(tt)
    BY SMTT(30) DEF SocketsTell, IsTaken, Holding
<1>2. Moves(ss, tt, d)
    BY SMTT(30), <1>1, FarEnd DEF Moves, IsTaken, Holding
<1>3. ss[s].open[d]
    BY SMTT(30), FarEnd DEF SocketsTell, Holding
<1>4. s # r.sd /\ s # r.main /\ s # NoSocket
    BY SMTT(30), FarEnd DEF Holding, HoldsSockets, NoSocket
<1>5. tt[s].open[d]
    BY Zenon, <1>3 DEF IsTaken
<1>6. ASSUME NEW k \in DOMAIN tt, tt[k].open[d]
      PROVE  \/ k = r.sd \/ k = r.main \/ k = s
             \/ tt[k].by = Far(d) /\ ~tt[k].taken
    BY SMTT(30), <1>6 DEF Holding, HoldsSockets, IsTaken
<1> QED
    BY Zenon, <1>2, <1>4, <1>5, <1>6

\* Two steps make one.
LEMMA MovesOn ==
    ASSUME NEW d \in Ends, NEW ss, NEW tt, NEW uu, Moves(ss, tt, d), Moves(tt, uu, d)
    PROVE  Moves(ss, uu, d)
    BY SMTT(30) DEF Moves

\* A daemon dials.
LEMMA DialHolds ==
    ASSUME NEW d \in Ends, NEW r, NEW q \in Peer, NEW ss, Holding(r, d, ss),
           r.sd = NoSocket, r.main = NoSocket, q.main = NoSocket,
           q.sd = Len(ss) + 1, q.state = "connecting", ~q.addrFailed
    PROVE  Steps(d, ss, q, Append(ss, NewSock(d)))
<1> DEFINE tt == Append(ss, NewSock(d))
           n  == Len(ss) + 1
<1>1. /\ tt \in Seq(Sock) /\ DOMAIN tt = 1 .. n /\ n \in Nat /\ n # NoSocket
      /\ \A k \in DOMAIN ss : tt[k] = ss[k] /\ k # n
      /\ tt[n] = NewSock(d)
      /\ NewSock(d).by = d /\ ~NewSock(d).taken
      /\ \A e \in Ends : NewSock(d).open[e]
    BY ZenonT(60), DialEffect DEF Holding
<1>2. DOMAIN ss = 1 .. Len(ss) /\ Len(ss) \in Nat
    BY SMTT(30) DEF Holding
<1>3. \A k \in DOMAIN tt : k \in DOMAIN ss \/ k = n
    BY SMTT(30), <1>1, <1>2
<1>4. DOMAIN ss \subseteq DOMAIN tt /\ n \in DOMAIN tt
    BY SMTT(30), <1>1, <1>2
<1>5. q.sd = n
    BY Zenon
<1> HIDE DEF tt, n
<1>6. SocketsTell(tt)
    BY SMTT(30), <1>1, <1>3, FarEnd DEF SocketsTell, Holding
<1>7. Moves(ss, tt, d)
    BY Zenon, <1>1, <1>3, <1>4, <1>6 DEF Moves
<1>8. HoldsSockets(q, d, tt)
    BY SMTT(30), <1>1, <1>3, <1>4, <1>5 DEF HoldsSockets, Holding
<1> QED
    BY Zenon, <1>7, <1>8 DEF Steps, tt

\* try_connect.
LEMMA TryConnectHolds ==
    ASSUME NEW d \in Ends, NEW r, Holding(r, d, socks), r.main = NoSocket, TryConnect(d, r),
           r.sev \/ r.rev => r.sd # NoSocket
    PROVE  \E q : Turn(d, q) /\ Steps(d, socks, q, socks')
<1> USE DEF Turn
<1>0. r \in Peer
    BY Zenon DEF Holding
<1>1. CASE ~MayDial(r)
    BY SMTT(30), <1>1, SameHolds DEF TryConnect, Holding, HoldsSockets
<1>2. CASE MayDial(r) /\ r.addrFailed
  <2> DEFINE q == NoAddressLeft(r)
  <2>1. q \in Peer
      BY Zenon, <1>0, NoAddressType
  <2>2. r.state = "connecting" /\ r.sd = NoSocket
      BY Zenon, <1>2 DEF MayDial, Holding, HoldsSockets
  <2>3. ~r.sev /\ ~r.rev
      BY Zenon, <2>2 DEF Holding, HoldsSockets
  <2>4. q.sd = NoSocket /\ q.main = NoSocket /\ q.sev = r.sev /\ q.rev = r.rev
        /\ q.state \in {"connecting", "failed"}
      BY Zenon, <2>2, <1>0 DEF NoAddressLeft, LiftQueuedSends, Ended, Post, Peer
  <2> HIDE DEF q
  <2>5. Steps(d, socks, q, Shut(socks, r.sd, d))
      BY Zenon, <2>1, <2>3, <2>4, ShutHolds
  <2> QED
      BY Zenon, <1>2, <2>5 DEF TryConnect, q
<1>3. CASE MayDial(r) /\ ~r.addrFailed
  <2> DEFINE p == [r EXCEPT !.sd = NoSocket, !.sev = FALSE, !.rev = FALSE]
             ss == Shut(socks, r.sd, d)
             q == [r EXCEPT !.sd = Len(socks) + 1, !.sev = TRUE]
  <2>1. r.state = "connecting"
      BY Zenon, <1>3 DEF MayDial
  <2>2. p \in Peer /\ p.sd = NoSocket /\ p.main = NoSocket /\ ~p.sev /\ ~p.rev /\ p.state = "connecting"
      BY ZenonT(60), <2>1, <1>0 DEF Peer, NoSocket
  <2>3. Len(socks) + 1 \in Nat
      BY SMTT(30) DEF Holding
  <2>4. q \in Peer /\ q.sd = Len(socks) + 1 /\ q.main = NoSocket /\ q.state = "connecting" /\ ~q.addrFailed
      BY ZenonT(30), <1>3, <2>1, <2>3, <1>0 DEF Peer
  <2> HIDE DEF p, q
  <2>5. Steps(d, socks, p, ss)
      BY Zenon, <2>2, ShutHolds
  <2>6. Len(ss) = Len(socks)
    <3>1. CASE r.sd = NoSocket
        BY Zenon, <3>1 DEF Shut
    <3>2. CASE r.sd # NoSocket
      <4>1. r.sd \in DOMAIN socks
          BY Zenon, <3>2 DEF Holding, HoldsSockets
      <4> QED
          BY Zenon, <4>1, ShutEffect DEF Closes, Holding
    <3> QED
        BY Zenon, <3>1, <3>2
  <2> HIDE DEF ss
  <2>7. Holding(p, d, ss)
      BY Zenon, <2>5 DEF Steps, Holding, Moves
  <2>8. Steps(d, ss, q, Append(ss, NewSock(d)))
      BY Zenon, <2>2, <2>4, <2>6, <2>7, DialHolds
  <2>9. Steps(d, socks, q, Append(ss, NewSock(d)))
      BY Zenon, <2>5, <2>8, MovesOn DEF Steps
  <2> QED
      BY Zenon, <1>3, <2>9 DEF TryConnect, q, ss, NewSock
<1> QED
    BY Zenon, <1>1, <1>2, <1>3

\* The invariant at one end.
LEMMA HoldingEnd ==
    ASSUME SocketInv, NEW d \in Ends
    PROVE  Holding(oob[d], d, socks)
    BY Zenon DEF SocketInv, Holding, TcpTypeOK

\* A daemon's step keeps the invariant at both ends.
LEMMA EndSteps ==
    ASSUME SocketInv, NEW d \in Ends, NEW q, Turn(d, q), Steps(d, socks, q, socks'), breaks' \in Nat
    PROVE  SocketInv'
<1>1. oob' \in [Ends -> Peer] /\ oob'[d] = q /\ oob'[Far(d)] = oob[Far(d)] /\ oob[Far(d)] \in Peer
    BY Zenon, FarEnd DEF SocketInv, TcpTypeOK, Turn, Steps
<1>2. socks' \in Seq(Sock) /\ SocketsTell(socks')
    BY Zenon DEF Steps, Moves
<1>3. HoldsSockets(oob'[d], d, socks')
    BY Zenon, <1>1 DEF Steps
<1>4. HoldsSockets(oob'[Far(d)], Far(d), socks')
  <2>1. HoldsSockets(oob[Far(d)], Far(d), socks) /\ socks \in Seq(Sock) /\ Moves(socks, socks', d)
      BY Zenon, FarEnd DEF SocketInv, TcpTypeOK, Steps
  <2> QED
      BY Zenon, <1>1, <2>1, OtherEndHolds
<1> QED
    BY Zenon, <1>1, <1>2, <1>3, <1>4, FarEnd DEF SocketInv, TcpTypeOK

\* start_connect.
LEMMA StartConnectHolds ==
    ASSUME NEW d \in Ends, NEW r, Holding(r, d, socks), r.main = NoSocket, StartConnect(d, r)
    PROVE  \E q : Turn(d, q) /\ Steps(d, socks, q, socks')
<1> USE DEF Turn
<1>0. r \in Peer
    BY Zenon DEF Holding
<1>1. CASE r.state \in {"connecting", "connect_ack"}
    BY SMTT(30), <1>1, <1>0, SameHolds DEF StartConnect, Holding, HoldsSockets
<1>2. CASE r.state = "connected"
  <2> DEFINE q == ArmSend(OnDeck(r))
  <2>1. q \in Peer
      BY Zenon, <1>0, OnDeckType, SmallTypes
  <2>2. q.sd = r.sd /\ q.main = r.main /\ q.addrFailed = r.addrFailed /\ q.state = r.state
      BY Zenon, <1>0 DEF ArmSend, OnDeck, Peer
  <2>3. r.sd # NoSocket
      BY Zenon, <1>2 DEF Holding, HoldsSockets
  <2> HIDE DEF q
  <2>4. Steps(d, socks, q, socks)
      BY Zenon, <2>1, <2>2, <2>3, SameHolds
  <2> QED
      BY Zenon, <1>2, <2>4 DEF StartConnect, q
<1>3. CASE r.state \notin {"connecting", "connect_ack", "connected"}
  <2> DEFINE p == [r EXCEPT !.state = "connecting"]
  <2>1. p \in Peer /\ p.sd = r.sd /\ p.main = NoSocket /\ p.addrFailed = r.addrFailed
        /\ p.sev = r.sev /\ p.rev = r.rev /\ p.state = "connecting"
      BY ZenonT(30), <1>0 DEF Peer, States
  <2>2. r.sd = NoSocket /\ ~r.sev /\ ~r.rev
      BY Zenon, <1>0, <1>3 DEF Holding, HoldsSockets, Peer, States
  <2>3. TryConnect(d, p)
      BY Zenon, <1>3 DEF StartConnect
  <2> HIDE DEF p
  <2>4. Steps(d, socks, p, socks)
      BY Zenon, <2>1, <2>2, SameHolds
  <2>5. Holding(p, d, socks)
      BY Zenon, <2>4 DEF Steps, Holding
  <2> QED
      BY Zenon, <2>1, <2>2, <2>3, <2>5, TryConnectHolds
<1> QED
    BY Zenon, <1>1, <1>2, <1>3

\* The handlers of the main thread, one by one.
LEMMA MainEventHolds ==
    ASSUME SocketInv, NEW d \in Ends, TcpMainEvent(d)
    PROVE  \E q : Turn(d, q) /\ Steps(d, socks, q, socks')
<1> DEFINE ev == Head(oob[d].posted)
           r  == [oob[d] EXCEPT !.posted = Tail(@)]
<1>1. oob[d] \in Peer /\ oob[d].posted # <<>> /\ oob[d].main = NoSocket
    BY Zenon DEF SocketInv, TcpTypeOK, TcpMainEvent, MainIdle
<1>2. ev \in Posted /\ r \in Peer
    BY Zenon, <1>1, PopType
<1>3. r.sd = oob[d].sd /\ r.main = NoSocket /\ r.addrFailed = oob[d].addrFailed
      /\ r.sev = oob[d].sev /\ r.rev = oob[d].rev /\ r.state = oob[d].state
    BY Zenon, <1>1 DEF Peer
<1>4. (CASE ev.e = "try" -> TryConnect(d, r)
        [] ev.e = "start" -> StartConnect(d, r)
        [] ev.e = "send"  -> oob' = [oob EXCEPT ![d] = SendNb(r, ev.m)] /\ UNCHANGED socks
        [] OTHER -> oob' = [oob EXCEPT ![d] = [r EXCEPT !.down = TRUE]] /\ UNCHANGED socks)
    BY Zenon DEF TcpMainEvent
<1> HIDE DEF ev, r
<1>5. r.sev \/ r.rev => r.sd # NoSocket
    BY SMTT(30), <1>3, HoldingEnd DEF Holding, HoldsSockets
<1>6. Holding(r, d, socks)
    BY Zenon, <1>1, <1>2, <1>3, <1>5, HoldingEnd, SameHolds DEF Steps, Holding
<1>7. CASE ev.e = "try"
    BY Zenon, <1>3, <1>4, <1>5, <1>6, <1>7, TryConnectHolds
<1>8. CASE ev.e = "start"
    BY Zenon, <1>3, <1>4, <1>6, <1>8, StartConnectHolds
<1>9. CASE ev.e = "send"
  <2> DEFINE q == SendNb(r, ev.m)
  <2>1. q \in Peer
      BY Zenon, <1>2, SendNbType DEF Posted
  <2>2. q.sd = r.sd /\ q.main = r.main /\ q.addrFailed = r.addrFailed
        /\ q.sev = r.sev /\ q.rev = r.rev
        /\ \/ q.state = r.state
           \/ q.state = "connecting" /\ r.state \in {"unconnected", "closed", "failed"}
    <3>1. CASE r.down
      <4>1. q = Ended(r, <<ev.m>>)
          BY Zenon, <3>1 DEF SendNb
      <4> QED
          BY ZenonT(60), <1>2, <4>1 DEF Ended, Peer
    <3>2. CASE ~r.down /\ r.state = "connected"
      <4>1. q = [r EXCEPT !.work = Append(@, [m |-> ev.m, activate |-> TRUE])]
          BY Zenon, <3>2 DEF SendNb
      <4> QED
          BY ZenonT(30), <1>2, <4>1 DEF Peer
    <3>3. CASE ~r.down /\ r.state \in {"connecting", "connect_ack"}
      <4>1. q = [r EXCEPT !.work = Append(@, [m |-> ev.m, activate |-> FALSE])]
          BY Zenon, <3>3 DEF SendNb
      <4> QED
          BY ZenonT(60), <1>2, <4>1 DEF Peer
    <3>4. CASE ~r.down /\ r.state \in {"unconnected", "closed", "failed"}
      <4>1. q = Post([[r EXCEPT !.work = Append(@, [m |-> ev.m, activate |-> FALSE])] EXCEPT !.state = "connecting"], "try")
          BY Zenon, <3>4 DEF SendNb
      <4> QED
          BY ZenonT(60), <1>2, <3>4, <4>1 DEF Post, Peer
    <3>5. r.state \in States
        BY Zenon, <1>2 DEF Peer
    <3> QED
        BY Zenon, <3>1, <3>2, <3>3, <3>4, <3>5 DEF States
  <2>3. r.state \in {"unconnected", "closed", "failed"} => r.sd = NoSocket
      BY Zenon, <1>3, <1>6 DEF Holding, HoldsSockets
  <2> HIDE DEF q
  <2>4. Steps(d, socks, q, socks)
      BY Zenon, <2>1, <2>2, <2>3, <1>3, <1>5, <1>6, SameHolds
  <2> QED
      BY Zenon, <2>4, <1>4, <1>9 DEF Turn, q
<1>10. CASE ev.e \notin {"try", "start", "send"}
  <2> DEFINE q == [r EXCEPT !.down = TRUE]
  <2>1. q \in Peer /\ q.sd = r.sd /\ q.main = r.main /\ q.addrFailed = r.addrFailed
        /\ q.sev = r.sev /\ q.rev = r.rev /\ q.state = r.state
      BY Zenon, <1>2 DEF Peer
  <2> HIDE DEF q
  <2>2. Steps(d, socks, q, socks)
      BY Zenon, <2>1, <1>5, <1>6, SameHolds
  <2> QED
      BY Zenon, <2>2, <1>4, <1>10 DEF Turn, q
<1> QED
    BY Zenon, <1>7, <1>8, <1>9, <1>10

\* The retry timer.
LEMMA RetryTimerHolds ==
    ASSUME SocketInv, NEW d \in Ends, TcpRetryTimer(d)
    PROVE  \E q : Turn(d, q) /\ Steps(d, socks, q, socks')
<1> DEFINE r == [oob[d] EXCEPT !.timers = @ - 1]
<1>1. oob[d] \in Peer /\ oob[d].timers > 0 /\ oob[d].main = NoSocket /\ TryConnect(d, r)
    BY Zenon DEF SocketInv, TcpTypeOK, TcpRetryTimer, MainIdle
<1>2. oob[d].timers - 1 \in Nat
    BY SMTT(30), <1>1 DEF Peer
<1>3. r \in Peer /\ r.sd = oob[d].sd /\ r.main = NoSocket /\ r.addrFailed = oob[d].addrFailed
      /\ r.sev = oob[d].sev /\ r.rev = oob[d].rev /\ r.state = oob[d].state
    BY Zenon, <1>1, <1>2 DEF Peer
<1> HIDE DEF r
<1>5. r.sev \/ r.rev => r.sd # NoSocket
    BY SMTT(30), <1>3, HoldingEnd DEF Holding, HoldsSockets
<1>6. Holding(r, d, socks)
    BY Zenon, <1>1, <1>3, <1>5, HoldingEnd, SameHolds DEF Steps, Holding
<1> QED
    BY Zenon, <1>1, <1>3, <1>5, <1>6, TryConnectHolds

\* peer_close on the main thread gives the socket up.
LEMMA MainCloseHolds ==
    ASSUME NEW d \in Ends, NEW r, NEW ss, Holding(r, d, ss), NEW p \in Peer,
           p.main = NoSocket, r.main = NoSocket, p.sd = r.sd,
           p.state \in {"connecting", "connect_ack", "failed"}
    PROVE  Steps(d, ss, MainClose(p), Shut(ss, r.sd, d))
<1> DEFINE q == MainClose(p)
<1>1. q \in Peer
    BY Zenon, CloseType
<1>2. q.sd = NoSocket /\ q.main = NoSocket /\ ~q.sev /\ ~q.rev /\ q.state \in {"connecting", "closed"}
  <2>1. CASE Rotates(p)
    <3>1. q = RotateAddress(p)
        BY Zenon, <2>1 DEF MainClose
    <3> QED
        BY SMTT(30), <3>1 DEF RotateAddress, Post, Unarmed, Peer
  <2>2. CASE ~Rotates(p)
    <3> DEFINE u == TearDown(p)
    <3>1. q = LiftLostSends(u)
        BY Zenon, <2>2 DEF MainClose
    <3>2. u \in Peer /\ u.sd = NoSocket /\ u.main = NoSocket
          /\ ~u.sev /\ ~u.rev /\ u.state = "closed"
        BY Zenon, SmallTypes, TearDownFields
    <3> HIDE DEF u
    <3>3. /\ LiftLostSends(u).sd = u.sd /\ LiftLostSends(u).main = u.main
          /\ LiftLostSends(u).sev = u.sev /\ LiftLostSends(u).rev = u.rev
          /\ LiftLostSends(u).state = u.state
        BY ZenonT(60), <3>2, LostFields
    <3> QED
        BY Zenon, <3>1, <3>2, <3>3
  <2> QED
      BY Zenon, <2>1, <2>2
<1> HIDE DEF q
<1>3. Steps(d, ss, q, Shut(ss, r.sd, d))
    BY Zenon, <1>1, <1>2, ShutHolds
<1> QED
    BY Zenon, <1>3 DEF q

\* complete_connect.
LEMMA ConnectCompletesHolds ==
    ASSUME SocketInv, NEW d \in Ends, TcpConnectCompletes(d)
    PROVE  \E q : Turn(d, q) /\ Steps(d, socks, q, socks')
<1> USE DEF Turn
<1> DEFINE r == oob[d]
<1>1. r \in Peer /\ r.main = NoSocket /\ r.sev /\ r.state = "connecting" /\ Holding(r, d, socks)
    BY Zenon, HoldingEnd DEF SocketInv, TcpTypeOK, TcpConnectCompletes, MainIdle
<1>2. r.sd # NoSocket /\ r.sd \in DOMAIN socks
    BY Zenon, <1>1 DEF Holding, HoldsSockets
<1>3. CASE socks[r.sd].broken
  <2>1. Steps(d, socks, MainClose(r), Shut(socks, r.sd, d))
      BY Zenon, <1>1, MainCloseHolds
  <2> QED
      BY Zenon, <1>3, <2>1 DEF TcpConnectCompletes
<1>4. CASE ~socks[r.sd].broken
  <2> DEFINE q  == [r EXCEPT !.state = "connect_ack", !.sev = FALSE, !.rev = TRUE]
             fs == <<Frame("ident", NoMsg)>>
             tt == Written(socks, r.sd, d, fs)
  <2>1. q \in Peer /\ q.sd = r.sd /\ q.main = r.main /\ q.addrFailed = r.addrFailed /\ q.state = "connect_ack"
      BY ZenonT(60), <1>1 DEF Peer, States
  <2>2. fs \in Seq(Frames)
      BY SMTT(30) DEF Frames, Frame, NoMsg
  <2> HIDE DEF q, fs
  <2>3. Steps(d, socks, q, socks)
      BY Zenon, <1>1, <1>2, <2>1, SameHolds
  <2>4. Steps(d, socks, q, tt)
      BY Zenon, <1>1, <1>2, <2>2, <2>3, WriteMoves DEF Steps, Holding
  <2> QED
      BY Zenon, <1>4, <2>4 DEF TcpConnectCompletes, q, fs
<1> QED
    BY Zenon, <1>3, <1>4

\* recv_connect_ack on a socket this daemon dialled.
LEMMA AnsweredHolds ==
    ASSUME SocketInv, NEW d \in Ends, TcpAnswered(d)
    PROVE  \E q : Turn(d, q) /\ Steps(d, socks, q, socks')
<1> USE DEF Turn
<1> DEFINE r == oob[d]
<1>1. r \in Peer /\ r.main = NoSocket /\ r.state = "connect_ack" /\ Holding(r, d, socks)
    BY Zenon, HoldingEnd DEF SocketInv, TcpTypeOK, TcpAnswered, MainIdle
<1>2. r.sd # NoSocket /\ r.sd \in DOMAIN socks /\ socks[r.sd].open[d]
    BY Zenon, <1>1 DEF Holding, HoldsSockets
<1>3. CASE AtEnd(r.sd, d)
  <2> DEFINE p == [r EXCEPT !.state = "failed"]
  <2>1. p \in Peer /\ p.main = NoSocket /\ p.sd = r.sd /\ p.state = "failed"
      BY Zenon, <1>1 DEF Peer, States
  <2> HIDE DEF p
  <2>2. Steps(d, socks, MainClose(p), Shut(socks, r.sd, d))
      BY Zenon, <1>1, <2>1, MainCloseHolds
  <2> QED
      BY Zenon, <1>3, <2>2 DEF TcpAnswered, p
<1>4. CASE ~AtEnd(r.sd, d) /\ Head(socks[r.sd].buf[d]).t = "nack"
  <2> DEFINE q == [Unarmed(r) EXCEPT !.sd = NoSocket, !.state = "unconnected"]
  <2>1. q \in Peer /\ q.sd = NoSocket /\ q.main = r.main /\ ~q.sev /\ ~q.rev /\ q.state = "unconnected"
    <3>1. Unarmed(r) \in Peer /\ ~Unarmed(r).sev /\ ~Unarmed(r).rev /\ Unarmed(r).main = r.main
        BY Zenon, <1>1, UnarmedFields
    <3>2. ASSUME NEW u \in Peer
          PROVE  LET v == [u EXCEPT !.sd = NoSocket, !.state = "unconnected"] IN
                 /\ v \in Peer /\ v.sd = NoSocket /\ v.main = u.main /\ v.sev = u.sev /\ v.rev = u.rev
                 /\ v.state = "unconnected"
        BY Zenon DEF Peer, States, NoSocket
    <3> QED
        BY Zenon, <3>1, <3>2
  <2> HIDE DEF q
  <2>2. Steps(d, socks, q, Shut(socks, r.sd, d))
      BY Zenon, <1>1, <2>1, ShutHolds
  <2> QED
      BY Zenon, <1>4, <2>2 DEF TcpAnswered, q
<1>5. CASE ~AtEnd(r.sd, d) /\ Head(socks[r.sd].buf[d]).t # "nack"
  <2> DEFINE q == TcpPeerConnected(r)
             b == Tail(socks[r.sd].buf[d])
             tt == [socks EXCEPT ![r.sd].buf[d] = b]
  <2>1. q \in Peer /\ q.sd = r.sd /\ q.main = r.main /\ q.addrFailed = r.addrFailed /\ q.state = "connected"
      BY Zenon, <1>1, ConnectedType, ConnectedFields
  <2>2. b \in Seq(Frames)
    <3>1. socks[r.sd].buf[d] \in Seq(Frames) /\ socks[r.sd].buf[d] # <<>>
        BY Zenon, <1>1, <1>2, <1>5, BufType DEF Holding, AtEnd
    <3> QED
        BY SMTT(30), <3>1
  <2>3. Turn(d, q) /\ socks' = tt
      BY Zenon, <1>5 DEF TcpAnswered
  <2> HIDE DEF q, b
  <2>4. Steps(d, socks, q, socks)
      BY Zenon, <1>1, <1>2, <2>1, SameHolds
  <2>5. BufIs(socks, tt, r.sd, d, b)
      BY Zenon, <1>1, <1>2, <2>2, BufEffect DEF Holding
  <2>6. Steps(d, socks, q, tt)
      BY SMTT(30), <1>1, <1>2, <2>4, <2>5, BufMoves DEF Steps, Holding
  <2> QED
      BY Zenon, <2>3, <2>6
<1> QED
    BY Zenon, <1>3, <1>4, <1>5

\* The accept of a socket the daemon has just taken up and holds nothing besides.
LEMMA AcceptHolds ==
    ASSUME NEW d \in Ends, NEW r \in Peer, NEW ss, NEW s, Moves(socks, ss, d),
           s \in DOMAIN ss, s # NoSocket, ss[s].open[d], ss[s].by = Far(d), ss[s].taken,
           r.main = NoSocket, ~r.sev, ~r.rev,
           \A k \in DOMAIN ss : ss[k].open[d] =>
               k = s \/ (ss[k].by = Far(d) /\ ~ss[k].taken),
           Accept(d, r, s, ss)
    PROVE  \E q : Turn(d, q) /\ Steps(d, socks, q, socks')
<1> USE DEF Turn
<1>0. ss \in Seq(Sock) /\ SocketsTell(ss) /\ s \in Nat
    BY SMTT(30) DEF Moves
<1>1. CASE ss[s].broken
  <2> DEFINE p == [r EXCEPT !.sd = s, !.state = "failed"]
             w == [r EXCEPT !.sd = s, !.state = "connected"]
  <2>1. p \in Peer /\ p.main = NoSocket /\ p.sd = s /\ p.state = "failed"
      BY ZenonT(30), <1>0 DEF Peer, States
  <2>2. w \in Peer /\ w.main = NoSocket /\ w.sd = s /\ w.state = "connected"
      BY ZenonT(30), <1>0 DEF Peer, States
  <2>3. Turn(d, MainClose(p)) /\ socks' = Shut(ss, s, d)
      BY Zenon, <1>1 DEF Accept
  <2> HIDE DEF p, w
  <2>4. Holding(w, d, ss)
      BY Zenon, <1>0, <2>2 DEF Holding, HoldsSockets
  <2>5. Steps(d, ss, MainClose(p), Shut(ss, s, d))
      BY Zenon, <2>1, <2>2, <2>4, MainCloseHolds
  <2>6. Steps(d, socks, MainClose(p), Shut(ss, s, d))
      BY Zenon, <2>5, MovesOn DEF Steps
  <2> QED
      BY Zenon, <2>3, <2>6
<1>2. CASE ~ss[s].broken
  <2> DEFINE p  == [r EXCEPT !.sd = s]
             q  == TcpPeerConnected(p)
             fs == <<Frame("ident", NoMsg)>>
  <2>1. p \in Peer /\ p.main = NoSocket /\ p.sd = s
      BY ZenonT(30), <1>0 DEF Peer
  <2>2. fs \in Seq(Frames)
      BY SMTT(30) DEF Frames, Frame, NoMsg
  <2>3. Turn(d, q) /\ socks' = Written(ss, s, d, fs)
      BY Zenon, <1>2 DEF Accept
  <2> HIDE DEF p, fs
  <2>4. q \in Peer /\ q.sd = s /\ q.main = NoSocket /\ q.state = "connected"
      BY Zenon, <2>1, ConnectedType, ConnectedFields
  <2> HIDE DEF q
  <2>5. HoldsSockets(q, d, ss)
      BY Zenon, <1>0, <2>4 DEF HoldsSockets
  <2>6. Moves(ss, Written(ss, s, d, fs), d) /\ HoldsSockets(q, d, Written(ss, s, d, fs))
      BY Zenon, <1>0, <2>2, <2>4, <2>5, WriteMoves
  <2>7. Steps(d, socks, q, Written(ss, s, d, fs))
      BY Zenon, <2>4, <2>6, MovesOn DEF Steps
  <2> QED
      BY Zenon, <2>3, <2>7
<1> QED
    BY Zenon, <1>1, <1>2

\* Besides the socket of its connection daemon d holds s, which it was called on.
Borrows(r, d, ss, s) ==
    /\ ss \in Seq(Sock)
    /\ SocketsTell(ss)
    /\ s \in DOMAIN ss /\ s # NoSocket /\ s # r.sd
    /\ ss[s].open[d] /\ ss[s].by = Far(d) /\ ss[s].taken
    /\ r.sd # NoSocket =>
           /\ r.sd \in DOMAIN ss
           /\ ss[r.sd].open[d]
           /\ ss[r.sd].by = d \/ ss[r.sd].taken
    /\ \A k \in DOMAIN ss : ss[k].open[d] =>
           \/ k = r.sd \/ k = s
           \/ ss[k].by = Far(d) /\ ~ss[k].taken

\* The handler holds a socket it took off the listener,
LEMMA BorrowsTaken ==
    ASSUME NEW d \in Ends, NEW r, NEW ss, Holding(r, d, ss), NEW s \in DOMAIN ss, NEW tt,
           ss[s].by = Far(d), ~ss[s].taken, IsTaken(ss, tt, s), r.main = NoSocket
    PROVE  Borrows(r, d, tt, s) /\ Moves(ss, tt, d)
<1>1. /\ Moves(ss, tt, d) /\ tt[s].open[d] /\ s # r.sd /\ s # NoSocket
      /\ \A k \in DOMAIN tt : tt[k].open[d] =>
             \/ k = r.sd \/ k = r.main \/ k = s
             \/ tt[k].by = Far(d) /\ ~tt[k].taken
    BY SMTT(30), TakesUp
<1>2. tt \in Seq(Sock) /\ SocketsTell(tt)
    BY Zenon, <1>1 DEF Moves
<1>3. DOMAIN tt = DOMAIN ss /\ tt[s].by = Far(d) /\ tt[s].taken
    BY Zenon DEF IsTaken
<1>4. r.sd # NoSocket => r.sd \in DOMAIN ss /\ tt[r.sd] = ss[r.sd]
    BY Zenon, <1>1 DEF IsTaken, Holding, HoldsSockets
<1>5. r.sd # NoSocket =>
           /\ r.sd \in DOMAIN tt
           /\ tt[r.sd].open[d]
           /\ tt[r.sd].by = d \/ tt[r.sd].taken
    BY Zenon, <1>3, <1>4 DEF Holding, HoldsSockets
<1>6. \A k \in DOMAIN tt : k # NoSocket
    BY SMTT(30), <1>2 DEF NoSocket
<1> QED
    BY Zenon, <1>1, <1>2, <1>3, <1>5, <1>6 DEF Borrows

\* reads from it or writes to it,
LEMMA BorrowsBuf ==
    ASSUME NEW d \in Ends, NEW e \in Ends, NEW r, NEW ss, NEW s, NEW tt, NEW b,
           Borrows(r, d, ss, s), BufIs(ss, tt, s, e, b), ~ss[s].open[e] => b = ss[s].buf[e]
    PROVE  Borrows(r, d, tt, s) /\ Moves(ss, tt, d)
<1>1. Moves(ss, tt, d)
    BY Zenon, BufMoves DEF Borrows
<1>2. tt \in Seq(Sock) /\ SocketsTell(tt)
    BY Zenon, <1>1 DEF Moves
<1>3. DOMAIN tt = DOMAIN ss
    BY Zenon DEF BufIs
<1>4. \A k \in DOMAIN ss : tt[k].by = ss[k].by /\ tt[k].open = ss[k].open /\ tt[k].taken = ss[k].taken
    BY Zenon DEF BufIs
<1> QED
    BY SMTT(30), <1>1, <1>2, <1>3, <1>4 DEF Borrows

\* and closes it again.
LEMMA BorrowsShut ==
    ASSUME NEW d \in Ends, NEW r, NEW ss, NEW s, NEW uu,
           Holding(r, d, uu), r.main = NoSocket, Borrows(r, d, ss, s)
    PROVE  Steps(d, ss, r, Shut(ss, s, d))
<1> DEFINE tt == Shut(ss, s, d)
<1>1. Closes(ss, tt, s, d)
    BY Zenon, ShutEffect DEF Borrows
<1> HIDE DEF tt
<1>2. SocketsTell(tt)
  <2>1. \A k \in DOMAIN ss \ {s} : tt[k] = ss[k]
      BY Zenon, <1>1 DEF Closes
  <2>2. DOMAIN tt = DOMAIN ss /\ s \in DOMAIN ss /\ SocketsTell(ss)
      BY Zenon, <1>1 DEF Closes, Borrows
  <2>3. tt[s].taken
      BY Zenon, <1>1 DEF Closes, Borrows
  <2>4. \A e \in Ends : ~tt[s].open[e] => tt[s].buf[e] = <<>>
      BY ZenonT(60), <1>1, <2>2, FarEnd DEF Closes, SocketsTell
  <2> QED
      BY SMTT(30), <2>1, <2>2, <2>3, <2>4 DEF SocketsTell
<1>3. Moves(ss, tt, d)
    BY Zenon, <1>1, <1>2 DEF Moves, Closes, Borrows
<1>4. r.sd # NoSocket => r.sd \in DOMAIN tt /\ tt[r.sd] = ss[r.sd]
    BY Zenon, <1>1 DEF Borrows, Closes
<1>5. \A k \in DOMAIN tt : tt[k].open[d] => k # s /\ tt[k] = ss[k] /\ k \in DOMAIN ss
    BY Zenon, <1>1 DEF Closes
<1>6. HoldsSockets(r, d, tt)
    BY SMTT(30), <1>4, <1>5 DEF HoldsSockets, Borrows, Holding
<1> QED
    BY Zenon, <1>3, <1>6 DEF Steps, Holding, tt

\* recv_connect_ack on a socket the other daemon dialled.
LEMMA CalledHolds ==
    ASSUME SocketInv, NEW d \in Ends, TcpCalled(d)
    PROVE  \E q : Turn(d, q) /\ Steps(d, socks, q, socks')
<1> DEFINE r == oob[d]
<1>1. PICK s \in DOMAIN socks :
        /\ MainIdle(d) /\ socks[s].by = Far(d) /\ ~socks[s].taken
        /\ LET taken == [socks EXCEPT ![s].taken = TRUE]
               read  == [taken EXCEPT ![s].buf[d] = Tail(@)]
           IN  IF AtEnd(s, d) THEN
                   socks' = Shut(taken, s, d) /\ UNCHANGED oob
               ELSE IF r.state \notin {"connected", "connecting", "connect_ack"} THEN
                   Accept(d, r, s, read)
               ELSE IF WinsArbitration(d) THEN
                   /\ socks' = Shut(Written(read, s, d, <<Frame("nack", NoMsg)>>), s, d)
                   /\ UNCHANGED oob
               ELSE
                   /\ oob' = [oob EXCEPT ![d] = [r EXCEPT !.state = "unconnected", !.main = s]]
                   /\ socks' = read
    BY Zenon DEF TcpCalled
<1>2. r \in Peer /\ r.main = NoSocket /\ Holding(r, d, socks) /\ socks \in Seq(Sock)
      /\ oob = [oob EXCEPT ![d] = r]
    BY Zenon, <1>1, HoldingEnd DEF SocketInv, TcpTypeOK, MainIdle
<1> DEFINE taken == [socks EXCEPT ![s].taken = TRUE]
           b     == Tail(taken[s].buf[d])
           read  == [taken EXCEPT ![s].buf[d] = b]
           fs    == <<Frame("nack", NoMsg)>>
           wrote == Written(read, s, d, fs)
<1>3. IsTaken(socks, taken, s)
    BY Zenon, <1>2, TakenEffect
<1>4. /\ AtEnd(s, d) => socks' = Shut(taken, s, d) /\ UNCHANGED oob
      /\ ~AtEnd(s, d) /\ r.state \notin {"connected", "connecting", "connect_ack"} =>
             Accept(d, r, s, read)
      /\ ~AtEnd(s, d) /\ r.state \in {"connected", "connecting", "connect_ack"} /\ WinsArbitration(d) =>
             socks' = Shut(wrote, s, d) /\ UNCHANGED oob
      /\ ~AtEnd(s, d) /\ r.state \in {"connected", "connecting", "connect_ack"} /\ ~WinsArbitration(d) =>
             /\ oob' = [oob EXCEPT ![d] = [r EXCEPT !.state = "unconnected", !.main = s]]
             /\ socks' = read
    BY Zenon, <1>1
<1>f. fs \in Seq(Frames)
    BY SMTT(30) DEF Frames, Frame, NoMsg
<1> HIDE DEF r, taken, fs
<1>5. Borrows(r, d, taken, s) /\ Moves(socks, taken, d)
    BY Zenon, <1>1, <1>2, <1>3, BorrowsTaken
<1>6. taken \in Seq(Sock) /\ s \in DOMAIN taken /\ taken[s].open[d] /\ taken[s].buf = socks[s].buf
    BY Zenon, <1>3, <1>5 DEF Borrows, IsTaken
<1>7. CASE AtEnd(s, d)
  <2>1. Steps(d, taken, r, Shut(taken, s, d))
      BY Zenon, <1>2, <1>5, BorrowsShut
  <2>2. Steps(d, socks, r, Shut(taken, s, d))
      BY Zenon, <1>5, <2>1, MovesOn DEF Steps
  <2> QED
      BY ZenonT(30), <1>2, <1>4, <1>7, <2>2 DEF Turn
<1>8. CASE ~AtEnd(s, d)
  <2>1. taken[s].buf[d] \in Seq(Frames) /\ taken[s].buf[d] # <<>>
      BY Zenon, <1>6, <1>8, BufType DEF AtEnd
  <2>2. b \in Seq(Frames)
      BY SMTT(30), <2>1
  <2> HIDE DEF b
  <2>3. BufIs(taken, read, s, d, b)
      BY Zenon, <1>6, <2>2, BufEffect
  <2> HIDE DEF read
  <2>4. Borrows(r, d, read, s) /\ Moves(taken, read, d)
      BY ZenonT(30), <1>5, <1>6, <2>3, BorrowsBuf
  <2>5. Moves(socks, read, d)
      BY Zenon, <1>5, <2>4, MovesOn
  <2>6. CASE r.state \notin {"connected", "connecting", "connect_ack"}
    <3>1. r.sd = NoSocket /\ ~r.sev /\ ~r.rev
        BY Zenon, <1>2, <2>6 DEF Holding, HoldsSockets, Peer, States
    <3>2. Accept(d, r, s, read)
        BY Zenon, <1>4, <1>8, <2>6
    <3>3. \A k \in DOMAIN read : read[k].open[d] => k = s \/ (read[k].by = Far(d) /\ ~read[k].taken)
      <4>1. \A k \in DOMAIN read : k # NoSocket
          BY SMTT(30), <2>4 DEF Borrows, NoSocket
      <4> QED
          BY Zenon, <2>4, <3>1, <4>1 DEF Borrows
    <3> QED
        BY SMTT(30), <1>2, <2>4, <2>5, <3>1, <3>2, <3>3, AcceptHolds DEF Borrows
  <2>7. CASE r.state \in {"connected", "connecting", "connect_ack"} /\ WinsArbitration(d)
    <3> DEFINE c == IF Reaches(read, s, d) THEN read[s].buf[Far(d)] \o fs ELSE read[s].buf[Far(d)]
    <3>1. BufIs(read, wrote, s, Far(d), c)
        BY Zenon, <1>f, <2>4, WrittenEffect DEF Borrows
    <3>2. ~read[s].open[Far(d)] => c = read[s].buf[Far(d)]
        BY Zenon DEF Reaches
    <3> HIDE DEF c, wrote
    <3>3. Borrows(r, d, wrote, s) /\ Moves(read, wrote, d)
        BY Zenon, <2>4, <3>1, <3>2, FarEnd, BorrowsBuf
    <3>4. Steps(d, wrote, r, Shut(wrote, s, d))
        BY Zenon, <1>2, <3>3, BorrowsShut
    <3>5. Moves(socks, wrote, d)
        BY Zenon, <2>5, <3>3, MovesOn
    <3>6. Steps(d, socks, r, Shut(wrote, s, d))
        BY Zenon, <3>4, <3>5, MovesOn DEF Steps
    <3> QED
        BY Zenon, <1>2, <1>4, <1>8, <2>7, <3>6 DEF Turn
  <2>8. CASE r.state \in {"connected", "connecting", "connect_ack"} /\ ~WinsArbitration(d)
    <3> DEFINE q == [r EXCEPT !.state = "unconnected", !.main = s]
    <3>1. q \in Peer /\ q.sd = r.sd /\ q.main = s /\ q.state = "unconnected" /\ q.sev = r.sev /\ q.rev = r.rev
      <4>1. s \in Nat
          BY SMTT(30), <2>4 DEF Borrows
      <4> QED
          BY Zenon, <1>2, <4>1 DEF Peer, States
    <3>2. Turn(d, q) /\ socks' = read
        BY Zenon, <1>4, <1>8, <2>8 DEF Turn
    <3> HIDE DEF q
    <3>3. HoldsSockets(q, d, read)
        BY Zenon, <1>2, <2>4, <3>1 DEF HoldsSockets, Borrows, Holding
    <3> QED
        BY Zenon, <2>5, <3>1, <3>2, <3>3 DEF Steps
  <2> QED
      BY Zenon, <2>6, <2>7, <2>8
<1> QED
    BY Zenon, <1>7, <1>8

\* What retry() leaves of a connection.
LEMMA AbandonFields ==
    ASSUME NEW r \in Peer, NEW s \in Nat
    PROVE  LET a == Abandon(r, s) IN
           /\ a \in Peer /\ a.sev = FALSE /\ a.rev = FALSE
           /\ a.state = "unconnected" /\ a.sd = s /\ a.established = r.established
           /\ a.deck = r.deck /\ a.half = FALSE /\ a.queue = r.queue /\ a.recv = NoMsg
           /\ a.posted = r.posted /\ a.work = r.work
           /\ a.main = NoSocket /\ a.worker = r.worker /\ a.down = r.down
           /\ a.asked = r.asked /\ a.ended = r.ended /\ a.heard = r.heard
<1> DEFINE u == Unarmed(r)
           a == [u EXCEPT !.sd = s, !.recv = NoMsg, !.half = FALSE,
                          !.state = "unconnected", !.main = NoSocket]
<1>1. /\ u \in Peer /\ u.sev = FALSE /\ u.rev = FALSE /\ u.established = r.established
      /\ u.deck = r.deck /\ u.queue = r.queue
      /\ u.posted = r.posted /\ u.work = r.work
      /\ u.worker = r.worker /\ u.down = r.down
      /\ u.asked = r.asked /\ u.ended = r.ended /\ u.heard = r.heard
    BY Zenon, UnarmedFields
<1>2. Abandon(r, s) = a
    BY Zenon DEF Abandon
<1> HIDE DEF u
<1>3. /\ a \in Peer /\ a.sev = u.sev /\ a.rev = u.rev /\ a.established = u.established
      /\ a.state = "unconnected" /\ a.sd = s
      /\ a.deck = u.deck /\ a.half = FALSE /\ a.queue = u.queue /\ a.recv = NoMsg
      /\ a.posted = u.posted /\ a.work = u.work
      /\ a.main = NoSocket /\ a.worker = u.worker /\ a.down = u.down
      /\ a.asked = u.asked /\ a.ended = u.ended /\ a.heard = u.heard
    BY ZenonT(60), <1>1 DEF Peer, States, NoMsg, NoSocket
<1> HIDE DEF a
<1> QED
    BY Zenon, <1>1, <1>2, <1>3

\* The rest of retry().
LEMMA AbandonsHolds ==
    ASSUME SocketInv, NEW d \in Ends, TcpAbandons(d)
    PROVE  \E q : Turn(d, q) /\ Steps(d, socks, q, socks')
<1> DEFINE r == oob[d]
           s == r.main
           a == Abandon(r, s)
           ss == Shut(socks, r.sd, d)
<1>1. r \in Peer /\ s # NoSocket /\ Holding(r, d, socks) /\ Accept(d, a, s, ss)
    BY Zenon, HoldingEnd DEF SocketInv, TcpTypeOK, TcpAbandons, MainIdle
<1> HIDE DEF r
<1>2. s \in DOMAIN socks /\ socks[s].open[d] /\ socks[s].by = Far(d) /\ socks[s].taken /\ s # r.sd
    BY Zenon, <1>1 DEF Holding, HoldsSockets
<1>3. a \in Peer /\ a.main = NoSocket /\ ~a.sev /\ ~a.rev
  <2>1. s \in Nat
      BY Zenon, <1>1 DEF Peer
  <2> QED
      BY Zenon, <1>1, <2>1, AbandonFields
<1> DEFINE p == [r EXCEPT !.sd = NoSocket, !.sev = FALSE, !.rev = FALSE]
<1>4. p \in Peer /\ p.sd = NoSocket /\ p.main = s /\ ~p.sev /\ ~p.rev /\ p.state = r.state
    BY ZenonT(30), <1>1 DEF Peer, NoSocket
<1>5. r.state \in {"unconnected", "closed"}
    BY Zenon, <1>1 DEF Holding, HoldsSockets
<1> HIDE DEF p, a
<1>6. Steps(d, socks, p, ss)
    BY Zenon, <1>1, <1>4, <1>5, ShutHolds
<1> HIDE DEF ss
<1>7. Moves(socks, ss, d) /\ HoldsSockets(p, d, ss)
    BY Zenon, <1>6 DEF Steps
<1>8. s \in DOMAIN ss /\ ss[s].open[d] /\ ss[s].by = Far(d) /\ ss[s].taken
    BY Zenon, <1>1, <1>4, <1>7 DEF HoldsSockets
<1>9. \A k \in DOMAIN ss : ss[k].open[d] => k = s \/ (ss[k].by = Far(d) /\ ~ss[k].taken)
  <2>1. \A k \in DOMAIN ss : k # NoSocket
      BY SMTT(30), <1>7 DEF Moves, NoSocket
  <2> QED
      BY Zenon, <1>4, <1>7, <2>1 DEF HoldsSockets
<1> QED
    BY Zenon, <1>1, <1>3, <1>7, <1>8, <1>9, AcceptHolds

\* The handlers of the worker thread, one by one.
LEMMA QueueMsgHolds ==
    ASSUME SocketInv, NEW d \in Ends, TcpQueueMsg(d)
    PROVE  \E q : Turn(d, q) /\ Steps(d, socks, q, socks')
<1> DEFINE p == [oob[d] EXCEPT !.work = Tail(@)]
           w == Head(oob[d].work)
           q == QueueMsg(p, w)
<1>0. oob[d] \in Peer /\ oob[d].work # <<>> /\ Holding(oob[d], d, socks) /\ socks' = socks
    BY Zenon, HoldingEnd DEF SocketInv, TcpTypeOK, TcpQueueMsg
<1>q. Turn(d, q)
    BY Zenon DEF TcpQueueMsg, Turn
<1>1. oob[d] \in Peer /\ oob[d].work # <<>> /\ Holding(oob[d], d, socks) /\ Turn(d, q) /\ socks' = socks
    BY Zenon, <1>0, <1>q
<1>2. w \in Queued /\ Tail(oob[d].work) \in Seq(Queued)
  <2>1. oob[d].work \in Seq(Queued)
      BY Zenon, <1>1 DEF Peer
  <2> QED
      BY SMTT(30), <1>1, <2>1
<1>3. p \in Peer /\ p.sd = oob[d].sd /\ p.main = oob[d].main /\ p.addrFailed = oob[d].addrFailed
      /\ p.sev = oob[d].sev /\ p.rev = oob[d].rev /\ p.state = oob[d].state
    BY ZenonT(30), <1>1, <1>2 DEF Peer
<1> HIDE DEF p, w
<1>4. q \in Peer
    BY Zenon, <1>2, <1>3, QueueMsgType
<1>5. /\ q.sd = p.sd /\ q.main = p.main /\ q.addrFailed = p.addrFailed
      /\ q.rev = p.rev /\ q.state = p.state
      /\ p.state = "connected" \/ q.sev = p.sev
  <2> DEFINE x == IF p.deck = NoMsg THEN [p EXCEPT !.deck = w.m]
                  ELSE [p EXCEPT !.queue = Append(@, w.m)]
  <2>1. /\ x.sd = p.sd /\ x.main = p.main /\ x.addrFailed = p.addrFailed
        /\ x.rev = p.rev /\ x.state = p.state /\ x.sev = p.sev /\ x \in Peer
    <3>1. w.m \in Nat /\ Append(p.queue, w.m) \in Seq(Nat)
        BY SMTT(30), <1>2, <1>3 DEF Queued, Peer
    <3> QED
        BY ZenonT(60), <1>3, <3>1 DEF Peer
  <2>2. q = IF p.state = "connected" THEN ArmSend(x)
            ELSE IF w.activate THEN Post(x, "start") ELSE x
      BY Zenon DEF QueueMsg
  <2> HIDE DEF x, q
  <2>3. ArmSend(x).sd = x.sd /\ ArmSend(x).main = x.main /\ ArmSend(x).addrFailed = x.addrFailed
        /\ ArmSend(x).rev = x.rev /\ ArmSend(x).state = x.state
      BY Zenon, <2>1 DEF ArmSend, Peer
  <2>4. CASE p.state = "connected"
      BY Zenon, <2>1, <2>2, <2>3, <2>4
  <2>5. CASE p.state # "connected" /\ w.activate
      BY ZenonT(60), <2>1, <2>2, <2>5, PostFields
  <2>6. CASE p.state # "connected" /\ ~w.activate
      BY Zenon, <2>1, <2>2, <2>6
  <2> QED
      BY Zenon, <2>4, <2>5, <2>6
<1> HIDE DEF q
<1>6. (q.sev \/ q.rev) => oob[d].sd # NoSocket
    BY Zenon, <1>1, <1>3, <1>5 DEF Holding, HoldsSockets
<1>7. Steps(d, socks, q, socks)
    BY ZenonT(30), <1>1, <1>3, <1>4, <1>5, <1>6, SameHolds
<1> QED
    BY Zenon, <1>1, <1>7

\* peer_close on the worker thread gives the socket up as well.
LEMMA WorkerCloseHolds ==
    ASSUME NEW d \in Ends, NEW r, NEW ss, Holding(r, d, ss), r.state # "closed",
           r.main # NoSocket => r.state = "unconnected"
    PROVE  Steps(d, ss, WorkerClose(r), Shut(ss, r.sd, d))
<1> DEFINE q == WorkerClose(r)
           u == TearDown(r)
<1>1. r \in Peer
    BY Zenon DEF Holding
<1>2. u \in Peer /\ u.sd = NoSocket /\ u.main = r.main /\ ~u.sev /\ ~u.rev /\ u.state = "closed"
    BY Zenon, <1>1, SmallTypes, TearDownFields
<1>3. q = [u EXCEPT !.worker = "lift"]
    BY Zenon DEF WorkerClose
<1> HIDE DEF u
<1>4. q \in Peer /\ q.sd = NoSocket /\ q.main = r.main /\ ~q.sev /\ ~q.rev /\ q.state = "closed"
    BY ZenonT(60), <1>2, <1>3 DEF Peer
<1> HIDE DEF q
<1>5. Steps(d, ss, q, Shut(ss, r.sd, d))
    BY Zenon, <1>4, ShutHolds
<1> QED
    BY Zenon, <1>5 DEF q

\* The send handler.
LEMMA SendHandlerHolds ==
    ASSUME SocketInv, NEW d \in Ends, TcpSendHandler(d)
    PROVE  \E q : Turn(d, q) /\ Steps(d, socks, q, socks')
<1> DEFINE r == oob[d]
           m == r.deck
           rest == (IF r.half THEN <<>> ELSE <<Frame("head", m)>>) \o <<Frame("tail", m)>>
<1>1. /\ r \in Peer /\ r.sev /\ r.state = "connected" /\ Holding(r, d, socks)
      /\ \/ oob' = [oob EXCEPT ![d].worker = "sent"] /\ UNCHANGED socks
         \/ oob' = [oob EXCEPT ![d] = WorkerClose(r)] /\ socks' = Shut(socks, r.sd, d)
         \/ /\ oob' = [oob EXCEPT ![d] = [Ended(r, <<m>>) EXCEPT !.deck = NoMsg, !.half = FALSE,
                                                                 !.worker = "sent"]]
            /\ socks' = Written(socks, r.sd, d, rest)
         \/ /\ oob' = [oob EXCEPT ![d].half = TRUE]
            /\ socks' = Written(socks, r.sd, d, <<Frame("head", m)>>)
    BY Zenon, HoldingEnd DEF SocketInv, TcpTypeOK, TcpSendHandler
<1>2. r.sd # NoSocket /\ r.main = NoSocket /\ r.sd \in DOMAIN socks /\ m \in Nat
    BY Zenon, <1>1 DEF Holding, HoldsSockets, Peer
<1>3. <<Frame("head", m)>> \in Seq(Frames) /\ rest \in Seq(Frames)
  <2>1. Frame("head", m) \in Frames /\ Frame("tail", m) \in Frames
      BY Zenon, <1>2 DEF Frame, Frames
  <2> QED
      BY SMTT(30), <2>1
<1> HIDE DEF rest
<1>4. CASE oob' = [oob EXCEPT ![d].worker = "sent"] /\ UNCHANGED socks
  <2> DEFINE q == [r EXCEPT !.worker = "sent"]
  <2>1. q \in Peer /\ q.sd = r.sd /\ q.main = r.main /\ q.addrFailed = r.addrFailed /\ q.state = r.state
      BY Zenon, <1>1 DEF Peer
  <2>2. Turn(d, q)
      BY Zenon, <1>4 DEF Turn
  <2> HIDE DEF q
  <2> QED
      BY Zenon, <1>1, <1>2, <1>4, <2>1, <2>2, SameHolds
<1>5. CASE oob' = [oob EXCEPT ![d] = WorkerClose(r)] /\ socks' = Shut(socks, r.sd, d)
    BY Zenon, <1>1, <1>2, <1>5, WorkerCloseHolds DEF Turn
<1>6. CASE /\ oob' = [oob EXCEPT ![d] = [Ended(r, <<m>>) EXCEPT !.deck = NoMsg, !.half = FALSE,
                                                                 !.worker = "sent"]]
           /\ socks' = Written(socks, r.sd, d, rest)
  <2> DEFINE p == Ended(r, <<m>>)
             q == [p EXCEPT !.deck = NoMsg, !.half = FALSE, !.worker = "sent"]
  <2>1. p \in Peer /\ p.sd = r.sd /\ p.main = r.main /\ p.addrFailed = r.addrFailed /\ p.state = r.state
    <3>1. <<m>> \in Seq(Nat)
        BY SMTT(30), <1>2
    <3> QED
        BY ZenonT(30), <1>1, <3>1, EndedType DEF Ended, Peer
  <2>2. Turn(d, q)
      BY Zenon, <1>6 DEF Turn
  <2> HIDE DEF p
  <2>3. q \in Peer /\ q.sd = p.sd /\ q.main = p.main /\ q.addrFailed = p.addrFailed /\ q.state = p.state
      BY ZenonT(30), <2>1 DEF Peer, NoMsg
  <2> HIDE DEF q
  <2>4. Steps(d, socks, q, socks)
      BY Zenon, <1>1, <1>2, <2>1, <2>3, SameHolds
  <2>5. Steps(d, socks, q, Written(socks, r.sd, d, rest))
      BY Zenon, <1>1, <1>2, <1>3, <2>4, WriteMoves DEF Steps, Holding
  <2> QED
      BY Zenon, <1>6, <2>2, <2>5
<1>7. CASE /\ oob' = [oob EXCEPT ![d].half = TRUE]
           /\ socks' = Written(socks, r.sd, d, <<Frame("head", m)>>)
  <2> DEFINE q == [r EXCEPT !.half = TRUE]
             fs == <<Frame("head", m)>>
  <2>1. q \in Peer /\ q.sd = r.sd /\ q.main = r.main /\ q.addrFailed = r.addrFailed /\ q.state = r.state
      BY Zenon, <1>1 DEF Peer
  <2>2. Turn(d, q)
      BY Zenon, <1>7 DEF Turn
  <2> HIDE DEF q
  <2>3. Steps(d, socks, q, socks)
      BY Zenon, <1>1, <1>2, <2>1, SameHolds
  <2>4. fs \in Seq(Frames) /\ socks' = Written(socks, r.sd, d, fs)
      BY Zenon, <1>3, <1>7
  <2> HIDE DEF fs
  <2>5. Steps(d, socks, q, Written(socks, r.sd, d, fs))
      BY Zenon, <1>1, <1>2, <2>3, <2>4, WriteMoves DEF Steps, Holding
  <2> QED
      BY Zenon, <2>2, <2>4, <2>5
<1> QED
    BY Zenon, <1>1, <1>4, <1>5, <1>6, <1>7

\* Its end.
LEMMA SendNextHolds ==
    ASSUME SocketInv, NEW d \in Ends, TcpSendNext(d)
    PROVE  \E q : Turn(d, q) /\ Steps(d, socks, q, socks')
<1> DEFINE r == OnDeck(oob[d])
           b == r.sev /\ r.deck # NoMsg
           q == [r EXCEPT !.sev = b, !.worker = "idle"]
<1>1. oob[d] \in Peer /\ Holding(oob[d], d, socks) /\ Turn(d, q) /\ socks' = socks
    BY Zenon, HoldingEnd DEF SocketInv, TcpTypeOK, TcpSendNext, Turn
<1>2. r \in Peer /\ r.sd = oob[d].sd /\ r.main = oob[d].main /\ r.addrFailed = oob[d].addrFailed
      /\ r.sev = oob[d].sev /\ r.rev = oob[d].rev /\ r.state = oob[d].state
    BY ZenonT(60), <1>1, OnDeckType DEF OnDeck, Peer
<1>3. b \in BOOLEAN /\ (b => r.sev)
    BY Zenon
<1> HIDE DEF r, b
<1>4. q \in Peer /\ q.sd = r.sd /\ q.main = r.main /\ q.addrFailed = r.addrFailed
      /\ q.sev = b /\ q.rev = r.rev /\ q.state = r.state
    BY ZenonT(30), <1>2, <1>3 DEF Peer
<1> HIDE DEF q
<1>5. (q.sev \/ q.rev) => oob[d].sd # NoSocket
    BY Zenon, <1>1, <1>2, <1>3, <1>4 DEF Holding, HoldsSockets
<1>6. Steps(d, socks, q, socks)
    BY Zenon, <1>1, <1>2, <1>4, <1>5, SameHolds
<1> QED
    BY Zenon, <1>1, <1>6

\* The receive handler.
LEMMA RecvHandlerHolds ==
    ASSUME SocketInv, NEW d \in Ends, TcpRecvHandler(d)
    PROVE  \E q : Turn(d, q) /\ Steps(d, socks, q, socks')
<1> DEFINE r == oob[d]
           f == Head(socks[r.sd].buf[d])
           b == Tail(socks[r.sd].buf[d])
           tt == [socks EXCEPT ![r.sd].buf[d] = b]
           p == [r EXCEPT !.recv = f.m]
           q == [r EXCEPT !.recv = NoMsg, !.heard = Append(@, r.recv)]
<1>1. /\ r \in Peer /\ r.state = "connected" /\ Holding(r, d, socks)
      /\ AtEnd(r.sd, d) => Turn(d, WorkerClose(r)) /\ socks' = Shut(socks, r.sd, d)
      /\ ~AtEnd(r.sd, d) => socks' = tt /\ Turn(d, IF f.t = "head" THEN p ELSE q)
    BY Zenon, HoldingEnd DEF SocketInv, TcpTypeOK, TcpRecvHandler, Received, Turn
<1>2. r.sd # NoSocket /\ r.main = NoSocket /\ r.sd \in DOMAIN socks /\ socks[r.sd].open[d]
      /\ socks \in Seq(Sock)
    BY Zenon, <1>1 DEF Holding, HoldsSockets
<1>3. CASE AtEnd(r.sd, d)
    BY SMTT(30), <1>1, <1>2, <1>3, WorkerCloseHolds
<1>4. CASE ~AtEnd(r.sd, d)
  <2>1. socks[r.sd].buf[d] \in Seq(Frames) /\ socks[r.sd].buf[d] # <<>>
      BY Zenon, <1>2, <1>4, BufType DEF AtEnd
  <2>2. b \in Seq(Frames) /\ f \in Frames
      BY SMTT(30), <2>1
  <2>3. f.m \in Nat
      BY Zenon, <2>2 DEF Frames
  <2>4. Append(r.heard, r.recv) \in Seq(Nat)
    <3>1. r.heard \in Seq(Nat) /\ r.recv \in Nat
        BY Zenon, <1>1 DEF Peer
    <3> QED
        BY SMTT(30), <3>1
  <2> HIDE DEF f, b
  <2>5. p \in Peer /\ p.sd = r.sd /\ p.main = r.main /\ p.addrFailed = r.addrFailed /\ p.state = r.state
      BY Zenon, <1>1, <2>3 DEF Peer
  <2>6. q \in Peer /\ q.sd = r.sd /\ q.main = r.main /\ q.addrFailed = r.addrFailed /\ q.state = r.state
      BY Zenon, <1>1, <2>4 DEF Peer, NoMsg
  <2> HIDE DEF p, q, tt
  <2>7. Steps(d, socks, p, socks) /\ Steps(d, socks, q, socks)
      BY Zenon, <1>1, <1>2, <2>5, <2>6, SameHolds
  <2>8. BufIs(socks, tt, r.sd, d, b)
      BY Zenon, <1>2, <2>2, BufEffect DEF tt
  <2>9. Steps(d, socks, p, tt) /\ Steps(d, socks, q, tt)
      BY Zenon, <1>1, <1>2, <2>7, <2>8, BufMoves DEF Steps, Holding
  <2> QED
      BY Zenon, <1>1, <1>4, <2>9
<1> QED
    BY Zenon, <1>3, <1>4

\* A handler that runs while retry() waits for it.
LEMMA StrayHandlerHolds ==
    ASSUME SocketInv, NEW d \in Ends, TcpStrayHandler(d)
    PROVE  \E q : Turn(d, q) /\ Steps(d, socks, q, socks')
<1> DEFINE r == oob[d]
           q == [r EXCEPT !.sev = FALSE]
<1>1. /\ r \in Peer /\ r.state = "unconnected" /\ Holding(r, d, socks)
      /\ \/ Turn(d, q) /\ socks' = socks
         \/ Turn(d, WorkerClose(r)) /\ socks' = Shut(socks, r.sd, d)
    BY Zenon, HoldingEnd DEF SocketInv, TcpTypeOK, TcpStrayHandler, Turn
<1>2. q \in Peer /\ q.sd = r.sd /\ q.main = r.main /\ q.addrFailed = r.addrFailed /\ q.state = r.state
      /\ ~q.sev /\ q.rev = r.rev
    BY Zenon, <1>1 DEF Peer
<1> HIDE DEF q
<1>3. Steps(d, socks, q, socks)
    BY ZenonT(30), <1>1, <1>2, SameHolds DEF Holding, HoldsSockets
<1>4. Steps(d, socks, WorkerClose(r), Shut(socks, r.sd, d))
    BY Zenon, <1>1, WorkerCloseHolds
<1> QED
    BY Zenon, <1>1, <1>3, <1>4

\* The rest of peer_close on the worker thread.
LEMMA LiftHolds ==
    ASSUME SocketInv, NEW d \in Ends, TcpLift(d)
    PROVE  \E q : Turn(d, q) /\ Steps(d, socks, q, socks')
<1> DEFINE r == oob[d]
           l == LiftLostSends(r)
           q == [l EXCEPT !.worker = "idle"]
<1>1. r \in Peer /\ Holding(r, d, socks) /\ Turn(d, q) /\ socks' = socks
    BY Zenon, HoldingEnd DEF SocketInv, TcpTypeOK, TcpLift, Turn
<1>2. l \in Peer /\ l.sd = r.sd /\ l.main = r.main /\ l.addrFailed = r.addrFailed /\ l.state = r.state
      /\ l.sev = r.sev /\ l.rev = r.rev
    BY Zenon, <1>1, LostType, LostFields
<1> HIDE DEF l
<1>3. q \in Peer /\ q.sd = l.sd /\ q.main = l.main /\ q.addrFailed = l.addrFailed /\ q.state = l.state
      /\ q.sev = l.sev /\ q.rev = l.rev
    BY Zenon, <1>2 DEF Peer
<1> HIDE DEF q
<1>4. (q.sev \/ q.rev) => r.sd # NoSocket
    BY Zenon, <1>1, <1>2, <1>3 DEF Holding, HoldsSockets
<1>5. Steps(d, socks, q, socks)
    BY Zenon, <1>1, <1>2, <1>3, <1>4, SameHolds
<1> QED
    BY Zenon, <1>1, <1>5

\* The RML hands in a message.
LEMMA SendHolds ==
    ASSUME SocketInv, NEW d \in Ends, TcpSend(d)
    PROVE  \E q : Turn(d, q) /\ Steps(d, socks, q, socks')
<1> DEFINE r == oob[d]
           ps == Append(r.posted, [e |-> "send", m |-> r.asked + 1])
           q == [r EXCEPT !.asked = @ + 1, !.posted = ps]
<1>1. r \in Peer /\ Holding(r, d, socks) /\ Turn(d, q) /\ socks' = socks
    BY Zenon, HoldingEnd DEF SocketInv, TcpTypeOK, TcpSend, Turn
<1>2. ps \in Seq(Posted) /\ r.asked + 1 \in Nat
  <2>1. r.posted \in Seq(Posted) /\ r.asked + 1 \in Nat
      BY SMTT(30), <1>1 DEF Peer
  <2>2. [e |-> "send", m |-> r.asked + 1] \in Posted
      BY Zenon, <2>1 DEF Posted, Events
  <2> QED
      BY SMTT(30), <2>1, <2>2
<1> HIDE DEF ps
<1>3. q \in Peer /\ q.sd = r.sd /\ q.main = r.main /\ q.addrFailed = r.addrFailed /\ q.state = r.state
      /\ q.sev = r.sev /\ q.rev = r.rev
    BY Zenon, <1>1, <1>2 DEF Peer
<1> HIDE DEF q
<1>4. (q.sev \/ q.rev) => r.sd # NoSocket
    BY Zenon, <1>1, <1>3 DEF Holding, HoldsSockets
<1>5. Steps(d, socks, q, socks)
    BY Zenon, <1>1, <1>3, <1>4, SameHolds
<1> QED
    BY Zenon, <1>1, <1>5

\* The network breaks a socket.
LEMMA BreakHolds ==
    ASSUME SocketInv, NEW s \in DOMAIN socks, TcpBreak(s)
    PROVE  SocketInv'
<1> DEFINE tt == [socks EXCEPT ![s].broken = TRUE, ![s].buf = [e \in Ends |-> <<>>]]
<1>1. socks \in Seq(Sock) /\ oob \in [Ends -> Peer] /\ breaks \in Nat /\ socks' = tt /\ oob' = oob
      /\ breaks' = breaks + 1
    BY Zenon DEF SocketInv, TcpTypeOK, TcpBreak
<1>2. /\ tt \in Seq(Sock) /\ DOMAIN tt = DOMAIN socks
      /\ \A k \in DOMAIN socks \ {s} : tt[k] = socks[k]
      /\ tt[s].by = socks[s].by /\ tt[s].taken = socks[s].taken
      /\ tt[s].open = socks[s].open /\ tt[s].buf = [e \in Ends |-> <<>>]
    BY ZenonT(60), <1>1, BreakEffect
<1> HIDE DEF tt
<1>3. SocketsTell(tt)
    BY SMTT(30), <1>2 DEF SocketInv, SocketsTell
<1>4. \A k \in DOMAIN socks : tt[k].by = socks[k].by /\ tt[k].open = socks[k].open /\ tt[k].taken = socks[k].taken
    BY Zenon, <1>2
<1>5. ASSUME NEW d \in Ends
      PROVE  HoldsSockets(oob[d], d, tt)
  <2>1. ASSUME NEW r, HoldsSockets(r, d, socks)
        PROVE  HoldsSockets(r, d, tt)
      BY SMTT(30), <1>2, <1>4, <2>1 DEF HoldsSockets
  <2>2. HoldsSockets(oob[d], d, socks)
      BY Zenon DEF SocketInv
  <2> QED
      BY Zenon, <2>1, <2>2
<1> QED
    BY SMTT(30), <1>1, <1>2, <1>3, <1>5 DEF SocketInv, TcpTypeOK

\* No socket is there at the start.
LEMMA SocketInvInit == TcpInit => SocketInv
<1> SUFFICES ASSUME TcpInit PROVE SocketInv
    BY Zenon
<1>1. NewPeer \in Peer
  <2>1. <<>> \in Seq(Nat) /\ <<>> \in Seq(Posted) /\ <<>> \in Seq(Queued)
      BY SMTT(30)
  <2> QED
      BY Zenon, <2>1 DEF NewPeer, Peer, States, NoSocket, NoMsg
<1>2. oob \in [Ends -> Peer] /\ socks = <<>> /\ breaks \in Nat /\ \A d \in Ends : oob[d] = NewPeer
    BY Zenon, <1>1 DEF TcpInit
<1>3. NewPeer.sd = NoSocket /\ NewPeer.main = NoSocket /\ NewPeer.state = "unconnected"
      /\ ~NewPeer.sev /\ ~NewPeer.rev
    BY Zenon DEF NewPeer
<1>4. socks \in Seq(Sock) /\ DOMAIN socks = {}
    BY SMTT(30), <1>2
<1> QED
    BY Zenon, <1>2, <1>3, <1>4 DEF SocketInv, TcpTypeOK, SocketsTell, HoldsSockets

\* Every step of a daemon is a turn that keeps the sockets in order.
LEMMA EveryTurn ==
    ASSUME SocketInv, NEW d \in Ends, TcpSend(d) \/ TcpHandler(d)
    PROVE  /\ \E q : Turn(d, q) /\ Steps(d, socks, q, socks')
           /\ breaks' = breaks
<1>1. breaks' = breaks
    BY Zenon DEF TcpSend, TcpHandler, TcpMainEvent, TcpRetryTimer, TcpConnectCompletes, TcpAnswered,
           TcpCalled, TcpAbandons, TcpQueueMsg, TcpSendHandler, TcpSendNext, TcpRecvHandler,
           TcpStrayHandler, TcpLift
<1> QED
    BY ZenonT(60), <1>1, SendHolds, MainEventHolds, RetryTimerHolds, ConnectCompletesHolds, AnsweredHolds,
       CalledHolds, AbandonsHolds, QueueMsgHolds, SendHandlerHolds, SendNextHolds,
       RecvHandlerHolds, StrayHandlerHolds, LiftHolds
    DEF TcpHandler

\* The first invariant is inductive.
LEMMA SocketInvStep == SocketInv /\ [TcpNext]_tcpVars => SocketInv'
<1> SUFFICES ASSUME SocketInv, [TcpNext]_tcpVars PROVE SocketInv'
    BY Zenon
<1>1. ASSUME NEW d \in Ends, TcpSend(d) \/ TcpHandler(d)
      PROVE  SocketInv'
  <2>1. breaks' \in Nat
      BY Zenon, <1>1, EveryTurn DEF SocketInv, TcpTypeOK
  <2> QED
      BY Zenon, <1>1, <2>1, EveryTurn, EndSteps
<1>2. ASSUME NEW s \in DOMAIN socks, TcpBreak(s)
      PROVE  SocketInv'
    BY Zenon, <1>2, BreakHolds
<1>3. CASE UNCHANGED tcpVars
    BY Zenon, <1>3 DEF tcpVars, SocketInv, TcpTypeOK
<1> QED
    BY Zenon, <1>1, <1>2, <1>3 DEF TcpNext

\* An armed event watches the socket the peer object holds.
LEMMA EventsFollow == SocketInv => TcpEventsOnLiveSocket
    BY Zenon DEF SocketInv, HoldsSockets, TcpEventsOnLiveSocket

\* An armed event always watches a socket its daemon has open, whatever the
\* number of messages, of broken sockets and of attempts to reconnect.
THEOREM EventsAlwaysOnLiveSocket == TcpSpec => []TcpEventsOnLiveSocket
<1>1. TcpSpec => []SocketInv
    BY SocketInvInit, SocketInvStep, PTL DEF TcpSpec
<1> QED
    BY <1>1, EventsFollow, PTL

=============================================================================

---------------------------- MODULE TcpOrderProofs ----------------------------
(***************************************************************************)
(* Every handler takes one of the kinds of step of TcpStepProofs, so the   *)
(* two ends always are a pair (OrderInv), and messages are delivered once  *)
(* and in order. With the two other invariants this is TcpSound.           *)
(***************************************************************************)
EXTENDS TcpStepProofs, TcpPipeProofs


----------------------------------------------------------------------------
\* The invariant

\* The third invariant.
OrderInv == \A d \in Ends : Side(d, oob[d], oob[Far(d)], socks)

\* The three invariants make the two ends a pair.
LEMMA PairOf ==
    ASSUME SocketInv, PipeInv, OrderInv, NEW d \in Ends
    PROVE  Pair(d, oob[d], oob[Far(d)], socks)
<1>1. Far(d) \in Ends /\ Far(Far(d)) = d
    BY Zenon, FarEnd
<1>2. Holding(oob[d], d, socks) /\ Holding(oob[Far(d)], Far(d), socks)
    BY Zenon, <1>1, HoldingEnd
<1>3. Piped(oob[d]) /\ Piped(oob[Far(d)])
    BY Zenon, <1>1 DEF PipeInv
<1>4. Side(d, oob[d], oob[Far(d)], socks) /\ Side(Far(d), oob[Far(d)], oob[d], socks)
    BY Zenon, <1>1 DEF OrderInv
<1> QED
    BY ZenonT(30), <1>2, <1>3, <1>4 DEF Pair

\* Daemon d's step leaves the two ends a pair.
Paired(d) == \E q : Turn(d, q) /\ Pair(d, q, oob[Far(d)], socks')

\* A daemon's step leaves it one record.
LEMMA OneTurn ==
    ASSUME SocketInv, NEW d \in Ends, NEW p, NEW q, Turn(d, p), Turn(d, q)
    PROVE  p = q
<1>1. oob \in [Ends -> Peer]
    BY Zenon DEF SocketInv, TcpTypeOK
<1> QED
    BY Zenon, <1>1 DEF Turn

\* A handler keeps the sockets and the line.
LEMMA Turning ==
    ASSUME SocketInv, PipeInv, NEW d \in Ends, TcpHandler(d), NEW q, Turn(d, q)
    PROVE  Steps(d, socks, q, socks') /\ Piped(q) /\ Narrows(oob[d], q)
<1>1. PICK p : Turn(d, p) /\ Steps(d, socks, p, socks')
    BY Zenon, EveryTurn
<1>2. PICK o : Turn(d, o) /\ Piped(o) /\ Goes(oob[d], o)
    BY Zenon, HandlerAdvances DEF Advances
<1>3. p = q /\ o = q
    BY ZenonT(30), <1>1, <1>2, OneTurn
<1> QED
    BY ZenonT(30), <1>1, <1>2, <1>3 DEF Goes

----------------------------------------------------------------------------
\* The worker thread

\* queue_msg.
LEMMA QueueMsgPairs ==
    ASSUME SocketInv, PipeInv, OrderInv, NEW d \in Ends, TcpQueueMsg(d)
    PROVE  Paired(d)
<1> DEFINE r == oob[d]
           p == [r EXCEPT !.work = Tail(@)]
           q == QueueMsg(p, Head(r.work))
<1>0. Pair(d, r, oob[Far(d)], socks) /\ r \in Peer /\ r.work # <<>> /\ TcpHandler(d)
    BY ZenonT(30), PairOf, PairTypes DEF TcpQueueMsg, TcpHandler
<1>1. Turn(d, q) /\ socks' = socks
    BY Zenon DEF TcpQueueMsg, Turn
<1>2. Steps(d, socks, q, socks) /\ Piped(q) /\ Narrows(r, q)
    BY ZenonT(30), <1>0, <1>1, Turning
<1>3. /\ p \in Peer /\ p.sd = r.sd /\ p.main = r.main /\ p.established = r.established
      /\ p.recv = r.recv /\ p.heard = r.heard /\ p.half = r.half /\ p.state = r.state
      /\ p.deck = r.deck /\ p.worker = r.worker
  <2>1. r.work \in Seq(Queued)
      BY ZenonT(30), <1>0 DEF Peer
  <2>2. Tail(r.work) \in Seq(Queued)
      BY SMTT(30), <1>0, <2>1
  <2> QED
      BY ZenonT(30), <1>0, <2>2 DEF Peer
<1> HIDE DEF p
<1>4. ASSUME NEW w
      PROVE  LET o == QueueMsg(p, w) IN
             /\ o.sd = p.sd /\ o.main = p.main /\ o.established = p.established
             /\ o.recv = p.recv /\ o.heard = p.heard /\ o.half = p.half /\ o.state = p.state
             /\ (p.deck # NoMsg => o.deck = p.deck) /\ o.worker = p.worker
    BY ZenonT(30), <1>3 DEF QueueMsg, ArmSend, Post, Peer
<1>5. /\ q.sd = r.sd /\ q.main = r.main /\ q.established = r.established
      /\ q.recv = r.recv /\ q.heard = r.heard /\ q.half = r.half /\ q.state = r.state
      /\ (r.deck # NoMsg => q.deck = r.deck) /\ q.worker = r.worker
    BY ZenonT(30), <1>3, <1>4
<1> HIDE DEF q, r
<1>6. Pair(d, q, oob[Far(d)], socks)
    BY ZenonT(30), <1>0, <1>2, <1>5, Idles
<1> QED
    BY ZenonT(30), <1>1, <1>6 DEF Paired

\* The end of the send handler.
LEMMA SendNextPairs ==
    ASSUME SocketInv, PipeInv, OrderInv, NEW d \in Ends, TcpSendNext(d)
    PROVE  Paired(d)
<1> DEFINE r == oob[d]
           p == OnDeck(r)
           q == [p EXCEPT !.sev = p.sev /\ p.deck # NoMsg, !.worker = "idle"]
<1>0. Pair(d, r, oob[Far(d)], socks) /\ r \in Peer /\ r.worker = "sent" /\ TcpHandler(d)
    BY ZenonT(30), PairOf, PairTypes DEF TcpSendNext, TcpHandler
<1>1. Turn(d, q) /\ socks' = socks
    BY Zenon DEF TcpSendNext, Turn
<1>2. Steps(d, socks, q, socks) /\ Piped(q) /\ Narrows(r, q)
    BY ZenonT(30), <1>0, <1>1, Turning
<1>3. /\ p \in Peer /\ p.sd = r.sd /\ p.main = r.main /\ p.established = r.established
      /\ p.recv = r.recv /\ p.heard = r.heard /\ p.half = r.half /\ p.state = r.state
      /\ (r.deck # NoMsg => p.deck = r.deck)
  <2>1. p \in Peer
      BY Zenon, <1>0, OnDeckType
  <2> QED
      BY ZenonT(30), <1>0, <2>1 DEF OnDeck, Peer
<1> HIDE DEF p
<1>5. /\ q.sd = r.sd /\ q.main = r.main /\ q.established = r.established
      /\ q.recv = r.recv /\ q.heard = r.heard /\ q.half = r.half /\ q.state = r.state
      /\ (r.deck # NoMsg => q.deck = r.deck) /\ q.worker = "idle"
    BY Zenon, <1>3 DEF Peer
<1> HIDE DEF q, r
<1>6. Pair(d, q, oob[Far(d)], socks)
    BY ZenonT(30), <1>0, <1>2, <1>5, Idles
<1> QED
    BY ZenonT(30), <1>1, <1>6 DEF Paired

\* The rest of peer_close on the worker thread.
LEMMA LiftPairs ==
    ASSUME SocketInv, PipeInv, OrderInv, NEW d \in Ends, TcpLift(d)
    PROVE  Paired(d)
<1> DEFINE r == oob[d]
           l == LiftLostSends(r)
           q == [l EXCEPT !.worker = "idle"]
<1>0. Pair(d, r, oob[Far(d)], socks) /\ r \in Peer /\ TcpHandler(d)
    BY ZenonT(30), PairOf, PairTypes DEF TcpHandler
<1>1. Turn(d, q) /\ socks' = socks
    BY Zenon DEF TcpLift, Turn
<1>2. Steps(d, socks, q, socks) /\ Piped(q) /\ Narrows(r, q)
    BY ZenonT(30), <1>0, <1>1, Turning
<1>3. /\ l \in Peer /\ l.sd = r.sd /\ l.main = r.main /\ l.established = r.established
      /\ l.recv = r.recv /\ l.heard = r.heard /\ l.half = FALSE /\ l.state = r.state
      /\ l.deck = NoMsg
    BY ZenonT(30), <1>0, LostType, LostFields
<1> HIDE DEF l
<1>4. /\ q.sd = r.sd /\ q.main = r.main /\ q.established = r.established
      /\ q.recv = r.recv /\ q.heard = r.heard /\ q.half = FALSE /\ q.state = r.state
      /\ q.deck = NoMsg
    BY Zenon, <1>3 DEF Peer
<1> HIDE DEF q, r
<1>5. Pair(d, q, oob[Far(d)], socks)
    BY ZenonT(30), <1>0, <1>2, <1>4, Lifts
<1> QED
    BY ZenonT(30), <1>1, <1>5 DEF Paired

\* peer_close on the worker thread.
LEMMA WorkerClosePairs ==
    ASSUME SocketInv, PipeInv, OrderInv, NEW d \in Ends, TcpHandler(d),
           oob[d].state # "closed", Turn(d, WorkerClose(oob[d])), socks' = Shut(socks, oob[d].sd, d)
    PROVE  Paired(d)
<1> DEFINE r == oob[d]
           p == TearDown(r)
           q == WorkerClose(r)
<1>0. Pair(d, r, oob[Far(d)], socks) /\ r \in Peer
    BY Zenon, PairOf, PairTypes
<1>1. Steps(d, socks, q, Shut(socks, r.sd, d)) /\ Piped(q) /\ Narrows(r, q)
    BY Zenon, Turning
<1>2. /\ p \in Peer /\ p.sd = NoSocket /\ p.main = r.main /\ p.established = FALSE
      /\ p.recv = NoMsg /\ p.heard = r.heard /\ p.half = r.half /\ p.state = "closed"
      /\ p.deck = r.deck
    BY ZenonT(30), <1>0, SmallTypes, TearDownFields
<1>3. q = [p EXCEPT !.worker = "lift"]
    BY Zenon DEF WorkerClose
<1> HIDE DEF p, q
<1>4. /\ q.sd = NoSocket /\ q.main = r.main /\ q.established = FALSE
      /\ q.recv = NoMsg /\ q.heard = r.heard /\ q.half = r.half /\ q.state = "closed"
      /\ q.deck = r.deck /\ q.worker = "lift"
    BY Zenon, <1>2, <1>3 DEF Peer
<1>5. Turn(d, q) /\ socks' = Shut(socks, r.sd, d)
    BY Zenon DEF q
<1> HIDE DEF r
<1>6. Pair(d, q, oob[Far(d)], Shut(socks, r.sd, d))
    BY ZenonT(30), <1>0, <1>1, <1>4, Drops
<1> QED
    BY ZenonT(30), <1>5, <1>6 DEF Paired


\* A handler that runs while retry() waits for it.
LEMMA StrayHandlerPairs ==
    ASSUME SocketInv, PipeInv, OrderInv, NEW d \in Ends, TcpStrayHandler(d)
    PROVE  Paired(d)
<1> DEFINE r == oob[d]
           q == [r EXCEPT !.sev = FALSE]
<1>0. Pair(d, r, oob[Far(d)], socks) /\ r \in Peer /\ TcpHandler(d)
    BY ZenonT(30), PairOf, PairTypes DEF TcpHandler
<1>1. /\ r.state = "unconnected"
      /\ \/ Turn(d, q) /\ socks' = socks
         \/ Turn(d, WorkerClose(r)) /\ socks' = Shut(socks, r.sd, d)
    BY Zenon DEF TcpStrayHandler, Turn
<1>2. CASE Turn(d, q) /\ socks' = socks
  <2>1. Steps(d, socks, q, socks) /\ Piped(q) /\ Narrows(r, q)
      BY ZenonT(30), <1>0, <1>2, Turning
  <2>2. /\ q.sd = r.sd /\ q.main = r.main /\ q.established = r.established
        /\ q.recv = r.recv /\ q.heard = r.heard /\ q.half = r.half /\ q.state = r.state
        /\ q.deck = r.deck /\ q.worker = r.worker
      BY Zenon, <1>0 DEF Peer
  <2> HIDE DEF q, r
  <2>3. Pair(d, q, oob[Far(d)], socks)
      BY ZenonT(30), <1>0, <2>1, <2>2, Idles
  <2> QED
      BY Zenon, <1>2, <2>3 DEF Paired
<1>3. CASE Turn(d, WorkerClose(r)) /\ socks' = Shut(socks, r.sd, d)
    BY ZenonT(30), <1>0, <1>1, <1>3, WorkerClosePairs
<1> QED
    BY ZenonT(30), <1>1, <1>2, <1>3

\* Daemon d writes the header of the message on deck, and is half way through it.
LEMMA HeadPairs ==
    ASSUME NEW d \in Ends, NEW r, NEW e, NEW ss, Pair(d, r, e, ss),
           r.state = "connected", r.worker = "idle", r.deck # NoMsg, ~ss[r.sd].broken, ~r.half
    PROVE  LET q  == [r EXCEPT !.half = TRUE]
               tt == Written(ss, r.sd, d, <<Frame("head", r.deck)>>)
           IN  Pair(d, q, e, tt) /\ Goes(r, q) /\ ~tt[r.sd].broken
<1> DEFINE q == [r EXCEPT !.half = TRUE]
           g == Frame("head", r.deck)
           tt == Written(ss, r.sd, d, <<g>>)
<1>1. /\ r \in Peer /\ ss \in Seq(Sock) /\ SocketsTell(ss) /\ HoldsSockets(r, d, ss)
      /\ r.main = NoSocket /\ r.established /\ r.sd # NoSocket /\ r.sd \in DOMAIN ss
    BY ZenonT(30), Connected
<1>2. g \in Frames /\ <<g>> \in Seq(Frames) /\ IsData(g) /\ IsHead(g) /\ g.m = r.deck
    BY SMTT(30), <1>1, Numbers DEF Frame, Frames, IsData, IsHead
<1>3. /\ q \in Peer /\ q.sd = r.sd /\ q.main = r.main /\ q.established = r.established
      /\ q.recv = r.recv /\ q.heard = r.heard /\ q.half /\ q.state = r.state
      /\ q.deck = r.deck /\ q.worker = r.worker /\ q.queue = r.queue /\ q.work = r.work
      /\ q.asked = r.asked /\ q.ended = r.ended /\ q.posted = r.posted
      /\ q.sev = r.sev /\ q.rev = r.rev /\ q.addrFailed = r.addrFailed
    BY ZenonT(30), <1>1 DEF Peer
<1>4. Piped(r)
    BY Zenon DEF Pair
<1> HIDE DEF q, g
<1>5. Piped(q) /\ Goes(r, q)
    BY ZenonT(30), <1>3, <1>4, SamePiped
<1>6. HoldsSockets(q, d, ss)
    BY ZenonT(30), <1>1, <1>3 DEF HoldsSockets
<1>7. Steps(d, ss, q, tt)
    BY ZenonT(30), <1>1, <1>2, <1>3, <1>6, WriteMoves DEF Steps
<1>8. ~tt[r.sd].broken
    BY ZenonT(60), <1>1, <1>2, WrittenEffect DEF BufIs
<1>9. Puts(ss, tt, r, d, g)
    BY Zenon DEF Puts
<1> HIDE DEF tt
<1>10. Pair(d, q, e, tt)
    BY Zenon, <1>1, <1>2, <1>3, <1>5, <1>7, <1>9, Writes DEF Goes
<1> QED
    BY ZenonT(30), <1>5, <1>8, <1>10 DEF q, g, tt

\* Half way through the message on deck daemon d writes the rest of it.
LEMMA RestPairs ==
    ASSUME NEW d \in Ends, NEW r, NEW e, NEW ss, Pair(d, r, e, ss), NEW q, NEW tt,
           r.state = "connected", r.worker = "idle", r.deck # NoMsg, ~ss[r.sd].broken, r.half,
           tt = Written(ss, r.sd, d, <<Frame("tail", r.deck)>>),
           q \in Peer, Piped(q), Narrows(r, q), HoldsSockets(q, d, tt),
           q.sd = r.sd, q.main = NoSocket, q.state = "connected", q.established,
           q.recv = r.recv, q.heard = r.heard, q.worker = "sent", q.deck = NoMsg, ~q.half
    PROVE  Pair(d, q, e, tt)
<1> DEFINE g == Frame("tail", r.deck)
<1>1. /\ r \in Peer /\ ss \in Seq(Sock) /\ SocketsTell(ss) /\ HoldsSockets(r, d, ss)
      /\ r.main = NoSocket /\ r.established /\ r.sd # NoSocket /\ r.sd \in DOMAIN ss
    BY ZenonT(30), Connected
<1>2. g \in Frames /\ <<g>> \in Seq(Frames) /\ IsData(g) /\ IsTail(g)
    BY SMTT(30), <1>1, Numbers DEF Frame, Frames, IsData, IsTail
<1>3. Steps(d, ss, q, tt)
    BY ZenonT(30), <1>1, <1>2, WriteMoves DEF Steps
<1>4. ~Waiting(q, r.deck)
    BY Zenon DEF Narrows
<1>5. Puts(ss, tt, r, d, g)
    BY Zenon DEF Puts
<1> HIDE DEF g
<1> QED
    BY ZenonT(30), <1>1, <1>2, <1>3, <1>4, <1>5, Writes

\* The send handler.
LEMMA SendHandlerPairs ==
    ASSUME SocketInv, PipeInv, OrderInv, NEW d \in Ends, TcpSendHandler(d)
    PROVE  Paired(d)
<1> DEFINE r == oob[d]
           e == oob[Far(d)]
           m == r.deck
           rest == (IF r.half THEN <<>> ELSE <<Frame("head", m)>>) \o <<Frame("tail", m)>>
           p == [r EXCEPT !.half = TRUE]
           o == Ended(r, <<m>>)
           q == [o EXCEPT !.deck = NoMsg, !.half = FALSE, !.worker = "sent"]
           i == [r EXCEPT !.worker = "sent"]
<1>0. Pair(d, r, e, socks) /\ TcpHandler(d)
    BY ZenonT(30), PairOf DEF TcpHandler
<1>1. /\ r.state = "connected" /\ r.worker = "idle"
      /\ \/ Turn(d, i) /\ socks' = socks
         \/ Turn(d, WorkerClose(r)) /\ socks' = Shut(socks, r.sd, d)
         \/ /\ m # NoMsg /\ ~socks[r.sd].broken
            /\ Turn(d, q) /\ socks' = Written(socks, r.sd, d, rest)
         \/ /\ m # NoMsg /\ ~socks[r.sd].broken /\ ~r.half
            /\ Turn(d, p) /\ socks' = Written(socks, r.sd, d, <<Frame("head", m)>>)
    BY Zenon DEF TcpSendHandler, Turn, WorkerIdle
<1>2. /\ r \in Peer /\ socks \in Seq(Sock) /\ r.main = NoSocket /\ r.established
      /\ r.sd # NoSocket /\ r.sd \in DOMAIN socks
    BY ZenonT(30), <1>0, <1>1, Connected
<1>3. CASE Turn(d, i) /\ socks' = socks
  <2>1. Steps(d, socks, i, socks) /\ Piped(i) /\ Narrows(r, i)
      BY ZenonT(30), <1>0, <1>3, Turning
  <2>2. /\ i.sd = r.sd /\ i.main = r.main /\ i.established = r.established
        /\ i.recv = r.recv /\ i.heard = r.heard /\ i.half = r.half /\ i.state = r.state
        /\ i.deck = r.deck /\ i.worker = "sent"
      BY ZenonT(30), <1>2 DEF Peer
  <2> HIDE DEF i, r, e
  <2>3. Pair(d, i, e, socks)
      BY ZenonT(30), <1>0, <1>1, <2>1, <2>2, Idles
  <2> QED
      BY ZenonT(30), <1>3, <2>3 DEF Paired, e
<1>4. CASE Turn(d, WorkerClose(r)) /\ socks' = Shut(socks, r.sd, d)
    BY ZenonT(30), <1>0, <1>1, <1>4, WorkerClosePairs
<1>5. CASE /\ m # NoMsg /\ ~socks[r.sd].broken
           /\ Turn(d, q) /\ socks' = Written(socks, r.sd, d, rest)
  <2> DEFINE tt == Written(socks, r.sd, d, rest)
             ss == Written(socks, r.sd, d, <<Frame("head", m)>>)
  <2>1. Steps(d, socks, q, tt) /\ Piped(q) /\ Narrows(r, q)
      BY ZenonT(30), <1>0, <1>5, Turning
  <2>2. /\ o \in Peer /\ o.sd = r.sd /\ o.main = r.main /\ o.established = r.established
        /\ o.recv = r.recv /\ o.heard = r.heard /\ o.state = r.state
    <3>1. m \in Nat
        BY ZenonT(30), <1>2, Numbers
    <3>2. <<m>> \in Seq(Nat)
        BY SMTT(30), <3>1
    <3>3. o \in Peer
        BY ZenonT(30), <1>2, <3>2, EndedType
    <3> QED
        BY ZenonT(30), <1>2, <3>3 DEF Ended, Peer
  <2> HIDE DEF o
  <2>3. /\ q.sd = r.sd /\ q.main = r.main /\ q.established = r.established
        /\ q.recv = r.recv /\ q.heard = r.heard /\ q.half = FALSE /\ q.state = r.state
        /\ q.deck = NoMsg /\ q.worker = "sent"
      BY ZenonT(30), <2>2 DEF Peer
  <2>4. Frame("head", m) \in Frames /\ Frame("tail", m) \in Frames
      BY ZenonT(30), <1>2, Numbers DEF Frame, Frames
  <2>5. q \in Peer /\ HoldsSockets(q, d, tt)
      BY ZenonT(30), <2>1 DEF Steps
  <2>6. CASE r.half
    <3>1. rest = <<Frame("tail", m)>>
      <4>1. <<Frame("tail", m)>> \in Seq(Frames)
          BY SMTT(30), <2>4
      <4> QED
          BY SMTT(30), <2>6, <4>1
    <3> HIDE DEF q, r, e, rest
    <3>2. Pair(d, q, e, tt)
        BY ZenonT(60), <1>0, <1>1, <1>2, <1>5, <2>1, <2>3, <2>5, <2>6, <3>1, RestPairs
    <3> QED
        BY ZenonT(30), <1>5, <3>2 DEF Paired, e
  <2>7. CASE ~r.half
    <3>1. rest = <<Frame("head", m)>> \o <<Frame("tail", m)>>
        BY ZenonT(30), <2>7
    <3>2. /\ p.sd = r.sd /\ p.main = r.main /\ p.established = r.established
          /\ p.recv = r.recv /\ p.heard = r.heard /\ p.half = TRUE /\ p.state = r.state
          /\ p.deck = r.deck /\ p.worker = r.worker /\ p.asked = r.asked
          /\ p.queue = r.queue /\ p.work = r.work /\ p.posted = r.posted
        BY ZenonT(30), <1>2 DEF Peer
    <3> HIDE DEF q, r, e, rest
    <3>3. Pair(d, p, e, ss) /\ ~ss[r.sd].broken
        BY ZenonT(30), <1>0, <1>1, <1>5, <2>7, HeadPairs
    <3> HIDE DEF p
    <3>4. tt = Written(ss, r.sd, d, <<Frame("tail", m)>>)
        BY ZenonT(30), <1>2, <2>4, <3>1, WrittenTwice
    <3>5. Narrows(p, q)
        BY SMTT(30), <2>1, <3>2 DEF Narrows, Waiting
    <3> HIDE DEF ss, tt
    <3>6. Pair(d, q, e, tt)
        BY ZenonT(60), <1>1, <1>2, <1>5, <2>1, <2>3, <2>5, <3>2, <3>3, <3>4, <3>5, RestPairs
    <3> QED
        BY ZenonT(30), <1>5, <3>6 DEF Paired, e, tt
  <2> QED
      BY ZenonT(30), <2>6, <2>7, <1>2 DEF Peer
<1>6. CASE /\ m # NoMsg /\ ~socks[r.sd].broken /\ ~r.half
           /\ Turn(d, p) /\ socks' = Written(socks, r.sd, d, <<Frame("head", m)>>)
    BY ZenonT(30), <1>0, <1>1, <1>6, HeadPairs DEF Paired
<1> QED
    BY ZenonT(30), <1>1, <1>3, <1>4, <1>5, <1>6


\* The receive handler.
LEMMA RecvHandlerPairs ==
    ASSUME SocketInv, PipeInv, OrderInv, NEW d \in Ends, TcpRecvHandler(d)
    PROVE  Paired(d)
<1> DEFINE r == oob[d]
           e == oob[Far(d)]
           B == socks[r.sd].buf[d]
           g == Head(B)
           C == Tail(B)
           tt == [socks EXCEPT ![r.sd].buf[d] = C]
           p == [r EXCEPT !.recv = g.m]
           q == [r EXCEPT !.recv = NoMsg, !.heard = Append(@, r.recv)]
<1>0. Pair(d, r, e, socks) /\ TcpHandler(d)
    BY Zenon, PairOf DEF TcpHandler
<1>1. /\ r.state = "connected"
      /\ AtEnd(r.sd, d) => Turn(d, WorkerClose(r)) /\ socks' = Shut(socks, r.sd, d)
      /\ ~AtEnd(r.sd, d) => socks' = tt /\ Turn(d, IF g.t = "head" THEN p ELSE q)
    BY Zenon DEF TcpRecvHandler, Received, Turn
<1>2. /\ r \in Peer /\ socks \in Seq(Sock) /\ r.main = NoSocket /\ r.established
      /\ r.sd # NoSocket /\ r.sd \in DOMAIN socks
    BY ZenonT(30), <1>0, <1>1, Connected
<1>3. CASE AtEnd(r.sd, d)
    BY ZenonT(30), <1>0, <1>1, <1>3, WorkerClosePairs
<1>4. CASE ~AtEnd(r.sd, d)
  <2>1. B \in Seq(Frames) /\ B # <<>>
      BY ZenonT(30), <1>2, <1>4, BufType DEF AtEnd
  <2>2. Sheds(B, C, g) /\ C \in Seq(Frames) /\ g \in Frames
      BY Zenon, <2>1, TailSheds
  <2>3. BufIs(socks, tt, r.sd, d, C)
      BY ZenonT(30), <1>2, <2>2, BufEffect
  <2>4. g.m \in Nat
      BY Zenon, <2>2 DEF Frames
  <2>5. r.heard \in Seq(Nat) /\ r.recv \in Nat
      BY Zenon, <1>2, Numbers
  <2>6. Gains(r.heard, Append(r.heard, r.recv), r.recv)
      BY ZenonT(30), <2>5, AppendGains
  <2> HIDE DEF g
  <2>7. /\ p.sd = r.sd /\ p.main = r.main /\ p.established = r.established
        /\ p.recv = g.m /\ p.heard = r.heard /\ p.half = r.half /\ p.state = r.state
        /\ p.deck = r.deck /\ p.worker = r.worker
      BY Zenon, <1>2 DEF Peer
  <2>8. /\ q.sd = r.sd /\ q.main = r.main /\ q.established = r.established
        /\ q.recv = NoMsg /\ q.heard = Append(r.heard, r.recv) /\ q.half = r.half /\ q.state = r.state
        /\ q.deck = r.deck /\ q.worker = r.worker
      BY ZenonT(30), <1>2 DEF Peer
  <2> HIDE DEF p, q, tt, C, B, r, e
  <2>9. CASE g.t = "head"
    <3>1. Turn(d, p) /\ socks' = tt
        BY ZenonT(30), <1>1, <1>4, <2>9
    <3>2. Steps(d, socks, p, tt) /\ Piped(p) /\ Narrows(r, p)
        BY ZenonT(30), <1>0, <3>1, Turning DEF r
    <3>3. Sheds(socks[r.sd].buf[d], C, g)
        BY Zenon, <2>2 DEF B
    <3>4. Pair(d, p, e, tt)
        BY ZenonT(60), <1>0, <1>1, <1>2, <2>2, <2>3, <2>7, <2>9, <3>2, <3>3, Reads
    <3> QED
        BY ZenonT(30), <3>1, <3>4 DEF Paired, e
  <2>10. CASE g.t # "head"
    <3>1. Turn(d, q) /\ socks' = tt
        BY ZenonT(30), <1>1, <1>4, <2>10
    <3>2. Steps(d, socks, q, tt) /\ Piped(q) /\ Narrows(r, q)
        BY ZenonT(30), <1>0, <3>1, Turning DEF r
    <3>3. Sheds(socks[r.sd].buf[d], C, g)
        BY ZenonT(30), <2>2 DEF B
    <3>4. Gains(r.heard, q.heard, r.recv)
        BY ZenonT(30), <2>6, <2>8
    <3>5. Pair(d, q, e, tt)
        BY ZenonT(60), <1>0, <1>1, <1>2, <2>2, <2>3, <2>8, <2>10, <3>2, <3>3, <3>4, Reads
    <3> QED
        BY ZenonT(30), <3>1, <3>5 DEF Paired, e
  <2> QED
      BY Zenon, <2>9, <2>10
<1> QED
    BY Zenon, <1>3, <1>4

----------------------------------------------------------------------------
\* The main thread

\* try_connect.
LEMMA TryPairs ==
    ASSUME NEW d \in Ends, NEW r, NEW e, Pair(d, r, e, socks), r.main = NoSocket,
           TryConnect(d, r)
    PROVE  \E q : Turn(d, q) /\ Pair(d, q, e, socks')
<1>0. /\ r \in Peer /\ Piped(r) /\ Holding(r, d, socks) /\ socks \in Seq(Sock)
      /\ HoldsSockets(r, d, socks)
    BY Zenon, PairTypes DEF Pair
<1>1. CASE ~MayDial(r)
    BY Zenon, <1>1 DEF TryConnect, Turn
<1>2. CASE MayDial(r) /\ r.addrFailed
  <2> DEFINE q == NoAddressLeft(r)
  <2>1. r.state = "connecting" /\ r.sd = NoSocket /\ ~r.sev /\ ~r.rev
      BY Zenon, <1>0, <1>2 DEF MayDial, HoldsSockets
  <2>2. Turn(d, q) /\ socks' = socks
      BY Zenon, <1>2, <2>1 DEF TryConnect, Turn, Shut
  <2>3. /\ q.sd = NoSocket /\ q.main = NoSocket /\ q.established = r.established
        /\ q.recv = r.recv /\ q.heard = r.heard /\ q.worker = r.worker
        /\ q.state \in {"connecting", "failed"} /\ q.sev = r.sev /\ q.rev = r.rev
        /\ \/ q.half = r.half /\ q.deck = r.deck
           \/ q.half = FALSE /\ q.deck = NoMsg
    <3>1. CASE r.recons < MaxRecon
      <4>1. q = [r EXCEPT !.sd = NoSocket, !.addrFailed = FALSE, !.timers = @ + 1, !.recons = @ + 1]
          BY Zenon, <3>1 DEF NoAddressLeft
      <4> QED
          BY ZenonT(60), <1>0, <2>1, <4>1 DEF Peer
    <3>2. CASE ~(r.recons < MaxRecon)
      <4> DEFINE u == [r EXCEPT !.sd = NoSocket, !.state = "failed"]
                 v == Post(u, "failed")
      <4>1. q = LiftQueuedSends(v)
          BY Zenon, <3>2 DEF NoAddressLeft
      <4>2. /\ u \in Peer /\ u.sd = NoSocket /\ u.main = r.main /\ u.established = r.established
            /\ u.recv = r.recv /\ u.heard = r.heard /\ u.worker = r.worker /\ u.state = "failed"
            /\ u.sev = r.sev /\ u.rev = r.rev
          BY Zenon, <1>0 DEF Peer, States, NoSocket
      <4> HIDE DEF u
      <4>3. v \in Peer
          BY ZenonT(30), <4>2, PostType DEF Events
      <4>4. /\ v.sd = u.sd /\ v.main = u.main /\ v.established = u.established
            /\ v.recv = u.recv /\ v.heard = u.heard /\ v.worker = u.worker /\ v.state = u.state
            /\ v.sev = u.sev /\ v.rev = u.rev
          BY ZenonT(60), <4>2, PostFields
      <4> HIDE DEF v, q
      <4>5. /\ v.sd = NoSocket /\ v.main = r.main /\ v.established = r.established
            /\ v.recv = r.recv /\ v.heard = r.heard /\ v.worker = r.worker /\ v.state = "failed"
            /\ v.sev = r.sev /\ v.rev = r.rev
          BY Zenon, <4>2, <4>4
      <4> QED
          BY Zenon, <4>1, <4>3, <4>5, LiftFields
    <3> QED
        BY Zenon, <3>1, <3>2
  <2>4. Goes(r, q) /\ (Fronted(r) => Fronted(q)) /\ q.worker = r.worker
      BY Zenon, <1>0, GoesNoAddress DEF Piped
  <2>5. Piped(q)
      BY Zenon, <1>0, <2>4 DEF Piped, Goes
  <2> HIDE DEF q
  <2>6. Steps(d, socks, q, Shut(socks, r.sd, d))
      BY Zenon, <1>0, <2>1, <2>3, <2>5, ShutHolds DEF Piped
  <2>7. Steps(d, socks, q, socks)
      BY Zenon, <2>1, <2>6 DEF Shut
  <2>8. CASE q.half = r.half /\ q.deck = r.deck
      BY ZenonT(60), <2>1, <2>2, <2>3, <2>4, <2>5, <2>7, <2>8, Idles DEF Goes
  <2>9. CASE q.half = FALSE /\ q.deck = NoMsg
      BY ZenonT(60), <2>1, <2>2, <2>3, <2>4, <2>5, <2>7, <2>9, Lifts DEF Goes
  <2> QED
      BY ZenonT(30), <2>3, <2>8, <2>9
<1>3. CASE MayDial(r) /\ ~r.addrFailed
  <2> DEFINE p == [r EXCEPT !.sd = NoSocket, !.sev = FALSE, !.rev = FALSE]
             ss == Shut(socks, r.sd, d)
             q == [r EXCEPT !.sd = Len(socks) + 1, !.sev = TRUE]
  <2>1. r.state = "connecting" /\ ~r.established /\ r.recv = NoMsg
      BY Zenon, <1>3 DEF MayDial, Pair, Side, Phases
  <2>2. /\ p \in Peer /\ p.sd = NoSocket /\ p.main = NoSocket /\ ~p.sev /\ ~p.rev
        /\ p.state = "connecting" /\ p.established = r.established
        /\ p.recv = r.recv /\ p.heard = r.heard /\ p.half = r.half /\ p.deck = r.deck
        /\ p.worker = r.worker /\ p.queue = r.queue /\ p.work = r.work
        /\ p.asked = r.asked /\ p.ended = r.ended /\ p.posted = r.posted
      BY Zenon, <2>1, <1>0 DEF Peer, NoSocket
  <2>3. Len(socks) + 1 \in Nat
      BY SMTT(30), <1>0
  <2>4. /\ q \in Peer /\ q.sd = Len(socks) + 1 /\ q.main = NoSocket /\ ~q.addrFailed
        /\ q.state = "connecting" /\ q.established = r.established
        /\ q.recv = r.recv /\ q.heard = r.heard /\ q.half = r.half /\ q.deck = r.deck
        /\ q.worker = r.worker /\ q.queue = r.queue /\ q.work = r.work
        /\ q.asked = r.asked /\ q.ended = r.ended /\ q.posted = r.posted
      BY ZenonT(60), <1>3, <2>1, <2>3, <1>0 DEF Peer
  <2> HIDE DEF p, q
  <2>5. Steps(d, socks, p, ss)
      BY ZenonT(30), <1>0, <2>2, ShutHolds
  <2>6. Len(ss) = Len(socks)
    <3>1. CASE r.sd = NoSocket
        BY ZenonT(30), <3>1 DEF Shut
    <3>2. CASE r.sd # NoSocket
      <4>1. r.sd \in DOMAIN socks
          BY ZenonT(30), <1>0, <3>2 DEF HoldsSockets
      <4> QED
          BY ZenonT(30), <1>0, <4>1, ShutEffect DEF Closes
    <3> QED
        BY ZenonT(30), <3>1, <3>2
  <2>7. Piped(p) /\ Goes(r, p) /\ Piped(q) /\ Goes(p, q)
      BY ZenonT(60), <1>0, <2>2, <2>4, SamePiped
  <2>8. Pair(d, p, e, ss)
      BY ZenonT(60), <2>1, <2>2, <2>5, <2>7, Drops DEF Goes
  <2>9. Turn(d, q) /\ socks' = Append(ss, NewSock(d))
      BY Zenon, <1>3 DEF TryConnect, Turn, q, NewSock
  <2> HIDE DEF ss
  <2>10. Steps(d, ss, q, Append(ss, NewSock(d)))
      BY ZenonT(60), <2>2, <2>4, <2>6, <2>8, DialHolds DEF Pair
  <2>11. Pair(d, q, e, Append(ss, NewSock(d)))
      BY ZenonT(60), <2>1, <2>2, <2>4, <2>6, <2>7, <2>8, <2>10, Dials DEF Goes
  <2> QED
      BY Zenon, <2>9, <2>11
<1> QED
    BY ZenonT(30), <1>1, <1>2, <1>3


\* start_connect.
LEMMA StartPairs ==
    ASSUME NEW d \in Ends, NEW r, NEW e, Pair(d, r, e, socks), r.main = NoSocket,
           StartConnect(d, r)
    PROVE  \E q : Turn(d, q) /\ Pair(d, q, e, socks')
<1>0. /\ r \in Peer /\ Piped(r) /\ Holding(r, d, socks) /\ socks \in Seq(Sock)
      /\ HoldsSockets(r, d, socks) /\ PipeOK(r)
    BY Zenon, PairTypes DEF Pair
<1>1. CASE r.state \in {"connecting", "connect_ack"}
    BY Zenon, <1>1 DEF StartConnect, Turn
<1>2. CASE r.state = "connected"
  <2> DEFINE p == OnDeck(r)
             q == ArmSend(p)
  <2>1. Turn(d, q) /\ socks' = socks
      BY Zenon, <1>2 DEF StartConnect, Turn
  <2>2. Goes(r, p) /\ Fronted(p) /\ (r.deck # NoMsg => p = r)
      BY ZenonT(30), <1>0, GoesOnDeck
  <2>3. /\ p \in Peer /\ p.sd = r.sd /\ p.main = r.main /\ p.established = r.established
        /\ p.recv = r.recv /\ p.heard = r.heard /\ p.half = r.half /\ p.state = r.state
        /\ p.worker = r.worker /\ p.addrFailed = r.addrFailed
    <3>1. p \in Peer
        BY Zenon, <1>0, OnDeckType
    <3> QED
        BY ZenonT(60), <1>0, <3>1 DEF OnDeck, Peer
  <2> HIDE DEF p
  <2>4. /\ q \in Peer /\ q.sd = r.sd /\ q.main = r.main /\ q.established = r.established
        /\ q.recv = r.recv /\ q.heard = r.heard /\ q.half = r.half /\ q.state = r.state
        /\ q.worker = r.worker /\ q.addrFailed = r.addrFailed /\ q.queue = p.queue
        /\ q.work = p.work /\ q.asked = p.asked /\ q.ended = p.ended /\ q.posted = p.posted
        /\ q.deck = p.deck
    <3>1. q \in Peer
        BY ZenonT(30), <2>3, SmallTypes
    <3> QED
        BY SMTT(30), <2>3, <3>1 DEF ArmSend, Peer
  <2> HIDE DEF q
  <2>5. Goes(r, q)
      BY ZenonT(30), <2>2, <2>3, <2>4, GoesSame, GoesOn DEF Goes
  <2>6. Piped(q)
      BY ZenonT(30), <2>2, <2>4, <2>5 DEF Piped, Goes, Fronted
  <2>7. r.sd # NoSocket
      BY ZenonT(30), <1>0, <1>2 DEF HoldsSockets
  <2>8. Steps(d, socks, q, socks)
      BY ZenonT(60), <1>0, <2>4, <2>7, SameHolds
  <2>9. Pair(d, q, e, socks)
      BY ZenonT(60), <2>2, <2>4, <2>5, <2>6, <2>8, Idles DEF Goes
  <2> QED
      BY ZenonT(30), <2>1, <2>9
<1>3. CASE r.state \notin {"connecting", "connect_ack", "connected"}
  <2> DEFINE p == [r EXCEPT !.state = "connecting"]
  <2>1. TryConnect(d, p)
      BY Zenon, <1>3 DEF StartConnect
  <2>2. r.sd = NoSocket
    <3>1. r.state \in {"unconnected", "closed", "failed"}
        BY ZenonT(30), <1>0, <1>3 DEF Peer, States
    <3> QED
        BY ZenonT(30), <1>0, <3>1 DEF HoldsSockets
  <2>3. /\ p \in Peer /\ p.sd = r.sd /\ p.main = r.main /\ p.established = r.established
        /\ p.recv = r.recv /\ p.heard = r.heard /\ p.half = r.half /\ p.state = "connecting"
        /\ p.worker = r.worker /\ p.addrFailed = r.addrFailed /\ p.queue = r.queue
        /\ p.work = r.work /\ p.asked = r.asked /\ p.ended = r.ended /\ p.posted = r.posted
        /\ p.deck = r.deck /\ p.sev = r.sev /\ p.rev = r.rev
      BY ZenonT(30), <1>0 DEF Peer, States
  <2> HIDE DEF p
  <2>4. Piped(p) /\ Goes(r, p)
      BY ZenonT(30), <1>0, <2>3, SamePiped
  <2>5. r.sev \/ r.rev => r.sd # NoSocket
      BY ZenonT(30), <1>0 DEF HoldsSockets
  <2>6. Steps(d, socks, p, socks)
      BY ZenonT(60), <1>0, <2>2, <2>3, <2>5, SameHolds
  <2>7. Pair(d, p, e, socks)
      BY ZenonT(60), <2>2, <2>3, <2>4, <2>6, Idles DEF Goes
  <2> QED
      BY ZenonT(60), <2>1, <2>3, <2>7, TryPairs
<1> QED
    BY ZenonT(30), <1>1, <1>2, <1>3

\* The main thread takes its next event, or its timer, off the record.
LEMMA TakenPair ==
    ASSUME NEW d \in Ends, NEW o, NEW e, Pair(d, o, e, socks), NEW r \in Peer,
           Goes(o, r), r.queue = o.queue,
           r.state = o.state, r.sd = o.sd, r.main = o.main, r.established = o.established,
           r.sev = o.sev, r.rev = o.rev, r.addrFailed = o.addrFailed, r.deck = o.deck,
           r.half = o.half, r.recv = o.recv, r.heard = o.heard, r.worker = o.worker
    PROVE  Pair(d, r, e, socks)
<1>1. o \in Peer /\ Piped(o) /\ Holding(o, d, socks) /\ HoldsSockets(o, d, socks)
    BY ZenonT(30), PairTypes DEF Pair
<1>2. Piped(r)
    BY ZenonT(30), <1>1 DEF Piped, Goes, Fronted
<1>3. r.sev \/ r.rev => o.sd # NoSocket
    BY Zenon, <1>1 DEF HoldsSockets
<1>4. Steps(d, socks, r, socks)
    BY ZenonT(30), <1>1, <1>3, SameHolds
<1> QED
    BY ZenonT(60), <1>1, <1>2, <1>4, Idles DEF Goes

\* The next event of the main thread.
LEMMA MainEventPairs ==
    ASSUME SocketInv, PipeInv, OrderInv, NEW d \in Ends, TcpMainEvent(d)
    PROVE  Paired(d)
<1> DEFINE o  == oob[d]
           e  == oob[Far(d)]
           ev == Head(o.posted)
           r  == [o EXCEPT !.posted = Tail(@)]
<1>0. Pair(d, o, e, socks) /\ TcpHandler(d)
    BY ZenonT(30), PairOf DEF TcpHandler
<1>1. /\ o \in Peer /\ o.posted # <<>> /\ o.main = NoSocket /\ PipeOK(o) /\ HoldsSockets(o, d, socks)
    BY ZenonT(30), <1>0, PairTypes DEF TcpMainEvent, MainIdle
<1>2. ev \in Posted /\ r \in Peer
    BY ZenonT(30), <1>1, PopType
<1>3. /\ r.state = o.state /\ r.sd = o.sd /\ r.main = o.main /\ r.established = o.established
      /\ r.sev = o.sev /\ r.rev = o.rev /\ r.addrFailed = o.addrFailed /\ r.deck = o.deck
      /\ r.half = o.half /\ r.recv = o.recv /\ r.heard = o.heard /\ r.worker = o.worker
      /\ r.queue = o.queue
    BY ZenonT(30), <1>1 DEF Peer
<1>4. (CASE ev.e = "try" -> TryConnect(d, r)
        [] ev.e = "start" -> StartConnect(d, r)
        [] ev.e = "send"  -> oob' = [oob EXCEPT ![d] = SendNb(r, ev.m)] /\ UNCHANGED socks
        [] OTHER -> oob' = [oob EXCEPT ![d] = [r EXCEPT !.down = TRUE]] /\ UNCHANGED socks)
    BY Zenon DEF TcpMainEvent
<1>5. Goes(o, r)
    BY ZenonT(30), <1>1, GoesPop
<1>6. IsSend(ev) => Goes(o, SendNb(r, ev.m))
    BY ZenonT(30), <1>1, GoesSendNb
<1> HIDE DEF ev, r
<1>7. Pair(d, r, e, socks)
  <2> HIDE DEF o, e
  <2> QED
    BY ZenonT(60), <1>0, <1>2, <1>3, <1>5, TakenPair
<1>8. CASE ev.e = "try"
  <2>1. TryConnect(d, r)
      BY ZenonT(30), <1>4, <1>8
  <2> QED
      BY ZenonT(60), <1>1, <1>3, <1>7, <2>1, TryPairs DEF Paired
<1>9. CASE ev.e = "start"
  <2>1. StartConnect(d, r)
      BY ZenonT(30), <1>4, <1>9
  <2> QED
      BY ZenonT(60), <1>1, <1>3, <1>7, <2>1, StartPairs DEF Paired
<1>10. CASE ev.e = "send"
  <2> DEFINE q == SendNb(r, ev.m)
  <2>1. Turn(d, q) /\ socks' = socks
      BY ZenonT(30), <1>4, <1>10 DEF Turn
  <2>2. Steps(d, socks, q, socks) /\ Piped(q) /\ Narrows(o, q)
      BY ZenonT(30), <1>0, <2>1, Turning
  <2>3. ev.m \in Nat
      BY ZenonT(30), <1>2 DEF Posted
  <2>4. /\ q.sd = r.sd /\ q.main = r.main /\ q.established = r.established
        /\ q.recv = r.recv /\ q.heard = r.heard /\ q.half = r.half
        /\ q.deck = r.deck /\ q.worker = r.worker
        /\ \/ q.state = r.state
           \/ q.state = "connecting" /\ r.state \in {"unconnected", "closed", "failed"}
      BY ZenonT(30), <1>2, <2>3, SendNbFields
  <2> HIDE DEF q, o, e
  <2>5. q.state = o.state \/ (o.sd = NoSocket /\ o.main = NoSocket /\ q.state = "connecting")
      BY ZenonT(30), <1>1, <1>3, <2>4 DEF HoldsSockets
  <2>6. Pair(d, q, e, socks)
      BY ZenonT(60), <1>0, <1>3, <2>2, <2>4, <2>5, Idles
  <2> QED
      BY ZenonT(30), <2>1, <2>6 DEF Paired, e
<1>11. CASE ev.e \notin {"try", "start", "send"}
  <2> DEFINE q == [r EXCEPT !.down = TRUE]
  <2>1. Turn(d, q) /\ socks' = socks
      BY ZenonT(30), <1>4, <1>11 DEF Turn
  <2>2. Steps(d, socks, q, socks) /\ Piped(q) /\ Narrows(o, q)
      BY ZenonT(30), <1>0, <2>1, Turning
  <2>3. /\ q.sd = r.sd /\ q.main = r.main /\ q.established = r.established
        /\ q.recv = r.recv /\ q.heard = r.heard /\ q.half = r.half
        /\ q.deck = r.deck /\ q.worker = r.worker /\ q.state = r.state
      BY ZenonT(30), <1>2 DEF Peer
  <2> HIDE DEF q, o, e
  <2>4. Pair(d, q, e, socks)
      BY ZenonT(60), <1>0, <1>3, <2>2, <2>3, Idles
  <2> QED
      BY ZenonT(30), <2>1, <2>4 DEF Paired, e
<1> QED
    BY ZenonT(60), <1>8, <1>9, <1>10, <1>11

\* The retry timer.
LEMMA RetryTimerPairs ==
    ASSUME SocketInv, PipeInv, OrderInv, NEW d \in Ends, TcpRetryTimer(d)
    PROVE  Paired(d)
<1> DEFINE o == oob[d]
           e == oob[Far(d)]
           r == [o EXCEPT !.timers = @ - 1]
<1>0. Pair(d, o, e, socks)
    BY ZenonT(30), PairOf
<1>1. o \in Peer /\ o.main = NoSocket /\ o.timers > 0 /\ Piped(o)
    BY ZenonT(30), <1>0, PairTypes DEF TcpRetryTimer, MainIdle, Pair
<1>2. o.timers - 1 \in Nat
  <2>1. o.timers \in Nat
      BY ZenonT(30), <1>1 DEF Peer
  <2> QED
      BY SMTT(30), <1>1, <2>1
<1>3. /\ r \in Peer
      /\ r.state = o.state /\ r.sd = o.sd /\ r.main = o.main /\ r.established = o.established
      /\ r.sev = o.sev /\ r.rev = o.rev /\ r.addrFailed = o.addrFailed /\ r.deck = o.deck
      /\ r.half = o.half /\ r.recv = o.recv /\ r.heard = o.heard /\ r.worker = o.worker
      /\ r.queue = o.queue /\ r.work = o.work /\ r.asked = o.asked /\ r.ended = o.ended
      /\ r.posted = o.posted
    BY ZenonT(30), <1>1, <1>2 DEF Peer
<1>4. TryConnect(d, r)
    BY Zenon DEF TcpRetryTimer
<1> HIDE DEF r, o, e
<1>5. Goes(o, r)
    BY ZenonT(30), <1>1, <1>3, SamePiped
<1>6. Pair(d, r, e, socks)
    BY ZenonT(60), <1>0, <1>3, <1>5, TakenPair
<1>7. \E q : Turn(d, q) /\ Pair(d, q, e, socks')
    BY ZenonT(30), <1>1, <1>3, <1>4, <1>6, TryPairs
<1> QED
    BY ZenonT(30), <1>7 DEF Paired, e

\* The close of a connection that is being established.
LEMMA RotateFields ==
    ASSUME NEW r \in Peer, ~r.established, r.state \in {"connecting", "connect_ack", "failed"}
    PROVE  LET q == MainClose(r) IN
           /\ q.sd = NoSocket /\ q.main = r.main /\ q.established = FALSE /\ q.state = "connecting"
           /\ q.recv = r.recv /\ q.heard = r.heard /\ q.half = r.half
           /\ q.deck = r.deck /\ q.worker = r.worker /\ q.sev = FALSE /\ q.rev = FALSE
<1> DEFINE u == Unarmed(r)
           v == [u EXCEPT !.state = "connecting", !.sd = NoSocket, !.addrFailed = TRUE]
<1>1. MainClose(r) = Post(v, "try")
    BY Zenon DEF MainClose, Rotates, RotateAddress
<1>2. /\ u \in Peer /\ u.main = r.main /\ u.established = r.established /\ u.recv = r.recv
      /\ u.heard = r.heard /\ u.half = r.half /\ u.deck = r.deck /\ u.worker = r.worker
      /\ u.sev = FALSE /\ u.rev = FALSE
    BY ZenonT(30), UnarmedFields
<1> HIDE DEF u
<1>3. /\ v \in Peer /\ v.sd = NoSocket /\ v.main = r.main /\ v.established = FALSE
      /\ v.state = "connecting" /\ v.recv = r.recv /\ v.heard = r.heard /\ v.half = r.half
      /\ v.deck = r.deck /\ v.worker = r.worker /\ v.sev = FALSE /\ v.rev = FALSE
    BY ZenonT(30), <1>2 DEF Peer, States, NoSocket
<1> HIDE DEF v
<1> DEFINE q == Post(v, "try")
<1>4. /\ q.sd = v.sd /\ q.main = v.main /\ q.established = v.established /\ q.state = v.state
      /\ q.recv = v.recv /\ q.heard = v.heard /\ q.half = v.half
      /\ q.deck = v.deck /\ q.worker = v.worker /\ q.sev = v.sev /\ q.rev = v.rev
    BY ZenonT(60), <1>3, PostFields
<1> HIDE DEF q
<1> QED
    BY ZenonT(30), <1>1, <1>3, <1>4 DEF q


\* complete_connect.
LEMMA ConnectCompletesPairs ==
    ASSUME SocketInv, PipeInv, OrderInv, NEW d \in Ends, TcpConnectCompletes(d)
    PROVE  Paired(d)
<1> DEFINE r == oob[d]
           e == oob[Far(d)]
           p == MainClose(r)
           q == [r EXCEPT !.state = "connect_ack", !.sev = FALSE, !.rev = TRUE]
<1>0. Pair(d, r, e, socks) /\ TcpHandler(d)
    BY ZenonT(30), PairOf DEF TcpHandler
<1>1. /\ r.state = "connecting" /\ r.sev
      /\ \/ Turn(d, p) /\ socks' = Shut(socks, r.sd, d)
         \/ Turn(d, q) /\ socks' = Written(socks, r.sd, d, <<Frame("ident", NoMsg)>>)
    BY ZenonT(30) DEF TcpConnectCompletes, Turn
<1>2. /\ r \in Peer /\ socks \in Seq(Sock) /\ r.main = NoSocket /\ ~r.established
      /\ r.recv = NoMsg /\ r.sd # NoSocket
    BY SMTT(30), <1>0, <1>1, Establishing DEF HoldsSockets
<1>3. CASE Turn(d, p) /\ socks' = Shut(socks, r.sd, d)
  <2>1. Steps(d, socks, p, Shut(socks, r.sd, d)) /\ Piped(p) /\ Narrows(r, p)
      BY ZenonT(30), <1>0, <1>3, Turning
  <2>2. /\ p.sd = NoSocket /\ p.main = r.main /\ p.established = FALSE /\ p.state = "connecting"
        /\ p.recv = r.recv /\ p.heard = r.heard /\ p.half = r.half
        /\ p.deck = r.deck /\ p.worker = r.worker
      BY ZenonT(30), <1>1, <1>2, RotateFields
  <2> HIDE DEF p, r, e
  <2>3. Pair(d, p, e, Shut(socks, r.sd, d))
      BY ZenonT(60), <1>0, <1>2, <2>1, <2>2, Drops
  <2> QED
      BY ZenonT(30), <1>3, <2>3 DEF Paired, e
<1>4. CASE Turn(d, q) /\ socks' = Written(socks, r.sd, d, <<Frame("ident", NoMsg)>>)
  <2> DEFINE tt == Written(socks, r.sd, d, <<Frame("ident", NoMsg)>>)
  <2>1. Steps(d, socks, q, tt) /\ Piped(q) /\ Narrows(r, q)
      BY ZenonT(30), <1>0, <1>4, Turning
  <2>2. /\ q.sd = r.sd /\ q.main = r.main /\ q.established = r.established /\ q.state = "connect_ack"
        /\ q.recv = r.recv /\ q.heard = r.heard /\ q.half = r.half
        /\ q.deck = r.deck /\ q.worker = r.worker
      BY ZenonT(30), <1>2 DEF Peer
  <2> HIDE DEF q, r, e
  <2>3. Pair(d, q, e, tt)
      BY ZenonT(60), <1>0, <1>1, <1>2, <2>1, <2>2, Greets
  <2> QED
      BY ZenonT(30), <1>4, <2>3 DEF Paired, e
<1> QED
    BY ZenonT(30), <1>1, <1>3, <1>4

\* recv_connect_ack on a socket this daemon dialled.
LEMMA AnsweredPairs ==
    ASSUME SocketInv, PipeInv, OrderInv, NEW d \in Ends, TcpAnswered(d)
    PROVE  Paired(d)
<1> DEFINE r == oob[d]
           e == oob[Far(d)]
           B == socks[r.sd].buf[d]
           C == Tail(B)
           tt == [socks EXCEPT ![r.sd].buf[d] = C]
           f == [r EXCEPT !.state = "failed"]
           o == MainClose(f)
           u == Unarmed(r)
           p == [u EXCEPT !.sd = NoSocket, !.state = "unconnected"]
           q == TcpPeerConnected(r)
<1>0. Pair(d, r, e, socks) /\ TcpHandler(d)
    BY ZenonT(30), PairOf DEF TcpHandler
<1>1. /\ r.state = "connect_ack"
      /\ \/ Turn(d, o) /\ socks' = Shut(socks, r.sd, d)
         \/ Turn(d, p) /\ socks' = Shut(socks, r.sd, d)
         \/ ~AtEnd(r.sd, d) /\ Turn(d, q) /\ socks' = tt
    BY ZenonT(30) DEF TcpAnswered, Turn
<1>2. /\ r \in Peer /\ socks \in Seq(Sock) /\ r.main = NoSocket /\ ~r.established
      /\ r.recv = NoMsg /\ r.sd # NoSocket /\ r.sd \in DOMAIN socks
    BY SMTT(30), <1>0, <1>1, Establishing DEF HoldsSockets
<1>3. CASE Turn(d, o) /\ socks' = Shut(socks, r.sd, d)
  <2>1. Steps(d, socks, o, Shut(socks, r.sd, d)) /\ Piped(o) /\ Narrows(r, o)
      BY ZenonT(30), <1>0, <1>3, Turning
  <2>2. /\ f \in Peer /\ f.main = r.main /\ f.established = r.established /\ f.state = "failed"
        /\ f.recv = r.recv /\ f.heard = r.heard /\ f.half = r.half
        /\ f.deck = r.deck /\ f.worker = r.worker
      BY ZenonT(60), <1>2 DEF Peer, States
  <2> HIDE DEF f
  <2>3. /\ o.sd = NoSocket /\ o.main = r.main /\ o.established = FALSE /\ o.state = "connecting"
        /\ o.recv = r.recv /\ o.heard = r.heard /\ o.half = r.half
        /\ o.deck = r.deck /\ o.worker = r.worker
      BY ZenonT(60), <1>2, <2>2, RotateFields
  <2> HIDE DEF o, r, e
  <2>4. Pair(d, o, e, Shut(socks, r.sd, d))
      BY ZenonT(60), <1>0, <1>2, <2>1, <2>3, Drops
  <2> QED
      BY ZenonT(30), <1>3, <2>4 DEF Paired, e
<1>4. CASE Turn(d, p) /\ socks' = Shut(socks, r.sd, d)
  <2>1. Steps(d, socks, p, Shut(socks, r.sd, d)) /\ Piped(p) /\ Narrows(r, p)
      BY ZenonT(60), <1>0, <1>4, Turning
  <2>2. /\ u \in Peer /\ u.main = r.main /\ u.established = r.established
        /\ u.recv = r.recv /\ u.heard = r.heard /\ u.half = r.half
        /\ u.deck = r.deck /\ u.worker = r.worker
      BY ZenonT(60), <1>2, UnarmedFields
  <2> HIDE DEF u
  <2>3. /\ p.sd = NoSocket /\ p.main = r.main /\ p.established = r.established
        /\ p.state = "unconnected"
        /\ p.recv = r.recv /\ p.heard = r.heard /\ p.half = r.half
        /\ p.deck = r.deck /\ p.worker = r.worker
      BY ZenonT(30), <2>2 DEF Peer
  <2> HIDE DEF p, r, e
  <2>4. Pair(d, p, e, Shut(socks, r.sd, d))
      BY ZenonT(60), <1>0, <1>2, <2>1, <2>3, Drops
  <2> QED
      BY ZenonT(60), <1>4, <2>4 DEF Paired, e
<1>5. CASE ~AtEnd(r.sd, d) /\ Turn(d, q) /\ socks' = tt
  <2>1. Steps(d, socks, q, tt) /\ Piped(q) /\ Narrows(r, q)
      BY ZenonT(60), <1>0, <1>5, Turning
  <2>2. B \in Seq(Frames) /\ B # <<>>
      BY ZenonT(60), <1>2, <1>5, BufType DEF AtEnd
  <2>3. Sheds(B, C, Head(B)) /\ C \in Seq(Frames)
      BY ZenonT(30), <2>2, TailSheds
  <2>4. BufIs(socks, tt, r.sd, d, C)
      BY ZenonT(60), <1>2, <2>3, BufEffect
  <2>5. /\ q.sd = r.sd /\ q.main = r.main /\ q.established = TRUE /\ q.state = "connected"
        /\ q.recv = r.recv /\ q.heard = r.heard /\ q.half = r.half /\ q.worker = r.worker
      BY ZenonT(60), <1>2, ConnectedFields
  <2>6. PipeOK(r) /\ (r.half => r.deck # NoMsg)
      BY ZenonT(60), <1>0 DEF Pair, Piped, Side, Phases
  <2>7. r.half => q.deck = r.deck
      BY ZenonT(60), <1>2, <2>6, GoesConnected
  <2> DEFINE g == Head(B)
  <2>8. Sheds(socks[r.sd].buf[d], C, g)
      BY ZenonT(30), <2>3
  <2> HIDE DEF q, tt, C, g, B, r, e
  <2>9. Pair(d, q, e, tt)
      BY ZenonT(60), <1>0, <1>1, <1>2, <2>1, <2>3, <2>4, <2>5, <2>7, <2>8, IsAnswered
  <2> QED
      BY ZenonT(30), <1>5, <2>9 DEF Paired, e
<1> QED
    BY ZenonT(60), <1>1, <1>3, <1>4, <1>5


\* Every turn daemon d may have taken in this step keeps its sockets and its line.
Sure(d) == \A q : Turn(d, q) => Steps(d, socks, q, socks') /\ Piped(q)

\* The accept, for a record a that has given up the connection it may have had:
\* p is that record while the handler is still in retry().
LEMMA AcceptPairs ==
    ASSUME NEW d \in Ends, NEW p, NEW e, NEW ss, Pair(d, p, e, ss), NEW s, NEW a \in Peer,
           p.main = s, s # NoSocket, p.sd = NoSocket, Goes(p, a), Piped(a),
           a.main = NoSocket, a.recv = NoMsg, a.heard = p.heard, a.half = p.half, a.deck = p.deck,
           a.established => ~a.half, ~a.established => a.worker = p.worker,
           Accept(d, a, s, ss), Sure(d)
    PROVE  \E q : Turn(d, q) /\ Pair(d, q, e, socks')
<1>1. /\ ss \in Seq(Sock) /\ SocketsTell(ss) /\ HoldsSockets(p, d, ss)
      /\ (p.half => p.deck # NoMsg)
    BY ZenonT(30), PairTypes DEF Pair, Side, Phases
<1>2. s \in DOMAIN ss /\ ss[s].taken /\ s \in Nat
    BY SMTT(30), <1>1 DEF HoldsSockets
<1>3. CASE ss[s].broken
  <2> DEFINE f == [a EXCEPT !.sd = s, !.state = "failed"]
             q == MainClose(f)
             tt == Shut(ss, s, d)
  <2>1. Turn(d, q) /\ socks' = tt
      BY ZenonT(30), <1>3 DEF Accept, Turn
  <2>2. Steps(d, socks, q, tt) /\ Piped(q)
      BY ZenonT(30), <2>1 DEF Sure
  <2>3. /\ f \in Peer /\ f.main = NoSocket /\ f.established = a.established /\ f.state = "failed"
        /\ f.recv = NoMsg /\ f.heard = a.heard /\ f.half = a.half
        /\ f.deck = a.deck /\ f.worker = a.worker /\ f.queue = a.queue /\ f.work = a.work
        /\ f.asked = a.asked /\ f.ended = a.ended /\ f.posted = a.posted
      BY ZenonT(60), <1>2 DEF Peer, States
  <2> HIDE DEF f
  <2>4. Goes(p, q)
    <3>1. Goes(a, f)
        BY ZenonT(30), <2>3, GoesSame DEF Piped
    <3>2. Goes(f, q)
        BY ZenonT(30), <3>1, GoesClose DEF Goes
    <3> QED
        BY ZenonT(60), <3>1, <3>2, GoesOn
  <2>5. /\ q.sd = NoSocket /\ q.main = NoSocket /\ q.established = FALSE /\ q.state # "connected"
        /\ q.recv = NoMsg /\ q.heard = p.heard
        /\ \/ q.half = p.half /\ q.deck = p.deck /\ q.worker = p.worker
           \/ q.deck = NoMsg /\ q.half = FALSE
    <3>1. CASE ~f.established
        BY ZenonT(60), <2>3, <3>1, RotateFields
    <3>2. CASE f.established
      <4> DEFINE t == TearDown(f)
      <4>1. q = LiftLostSends(t)
          BY ZenonT(30), <2>3, <3>2 DEF MainClose, Rotates
      <4>2. /\ t \in Peer /\ t.sd = NoSocket /\ t.main = f.main /\ t.established = FALSE
            /\ t.state = "closed" /\ t.recv = NoMsg /\ t.heard = f.heard
          BY ZenonT(30), <2>3, SmallTypes, TearDownFields
      <4> HIDE DEF t
      <4> DEFINE l == LiftLostSends(t)
      <4>3. /\ l.sd = NoSocket /\ l.main = f.main /\ l.established = FALSE
            /\ l.state = "closed" /\ l.recv = NoMsg /\ l.heard = f.heard
            /\ l.deck = NoMsg /\ l.half = FALSE
          BY ZenonT(30), <4>2, LostFields
      <4> HIDE DEF l
      <4>4. q = l
          BY ZenonT(30), <4>1 DEF l
      <4> HIDE DEF q
      <4> QED
          BY ZenonT(30), <2>3, <4>3, <4>4
    <3> QED
        BY ZenonT(30), <3>1, <3>2
  <2> HIDE DEF q
  <2>6. Moves(ss, tt, d)
      BY ZenonT(30), <1>1, <1>2, ShutMoves
  <2>7. Closes(ss, tt, s, d)
      BY ZenonT(30), <1>1, <1>2, ShutEffect
  <2> HIDE DEF tt
  <2>8. Steps(d, ss, q, tt)
      BY ZenonT(30), <2>2, <2>6 DEF Steps
  <2>9. Narrows(p, q)
      BY ZenonT(30), <2>4 DEF Goes
  <2>10. Pair(d, q, e, tt)
      BY ZenonT(60), <2>2, <2>5, <2>7, <2>8, <2>9, AcceptFails
  <2> QED
      BY ZenonT(30), <2>1, <2>10
<1>4. CASE ~ss[s].broken
  <2> DEFINE f == [a EXCEPT !.sd = s]
             q == TcpPeerConnected(f)
             fs == <<Frame("ident", NoMsg)>>
             tt == Written(ss, s, d, fs)
  <2>1. Turn(d, q) /\ socks' = tt
      BY ZenonT(30), <1>4 DEF Accept, Turn
  <2>2. Steps(d, socks, q, tt) /\ Piped(q)
      BY ZenonT(30), <2>1 DEF Sure
  <2>3. /\ f \in Peer /\ f.main = NoSocket /\ f.established = a.established
        /\ f.recv = NoMsg /\ f.heard = a.heard /\ f.half = a.half /\ f.sd = s
        /\ f.deck = a.deck /\ f.worker = a.worker /\ f.queue = a.queue /\ f.work = a.work
        /\ f.asked = a.asked /\ f.ended = a.ended /\ f.posted = a.posted
      BY ZenonT(30), <1>2 DEF Peer
  <2> HIDE DEF f
  <2>4. Goes(a, f)
      BY ZenonT(30), <2>3, GoesSame DEF Piped
  <2>5. Goes(f, q) /\ (f.deck # NoMsg => q.deck = f.deck)
      BY ZenonT(30), <2>4, GoesConnected DEF Goes
  <2>6. /\ q.sd = s /\ q.main = NoSocket /\ q.established = TRUE /\ q.state = "connected"
        /\ q.recv = NoMsg /\ q.heard = p.heard /\ q.half = p.half /\ q.worker = a.worker
      BY ZenonT(30), <2>3, ConnectedFields
  <2> HIDE DEF q
  <2>7. q.half => p.half /\ q.deck = p.deck /\ q.worker = p.worker
      BY ZenonT(60), <1>1, <2>3, <2>5, <2>6
  <2>8. fs \in Seq(Frames)
      BY SMTT(30) DEF Frames, Frame, NoMsg
  <2>9. Identified(ss, tt, s, d)
      BY Zenon DEF Identified
  <2> HIDE DEF fs
  <2>10. Moves(ss, tt, d)
      BY ZenonT(60), <1>1, <1>2, <2>8, WriteMoves
  <2> HIDE DEF tt
  <2>11. Steps(d, ss, q, tt)
      BY ZenonT(30), <2>2, <2>10 DEF Steps
  <2>12. Narrows(p, q)
    <3>1. Goes(p, q)
        BY ZenonT(30), <2>4, <2>5, GoesOn
    <3> QED
        BY ZenonT(30), <3>1 DEF Goes
  <2>13. Pair(d, q, e, tt)
      BY ZenonT(60), <1>4, <2>2, <2>6, <2>7, <2>9, <2>11, <2>12, Accepts
  <2> QED
      BY ZenonT(30), <2>1, <2>13
<1> QED
    BY ZenonT(30), <1>3, <1>4


\* recv_connect_ack on a socket the other daemon dialled.
LEMMA CalledPairs ==
    ASSUME SocketInv, PipeInv, OrderInv, NEW d \in Ends, TcpCalled(d)
    PROVE  Paired(d)
<1> DEFINE r == oob[d]
           e == oob[Far(d)]
<1>0. Pair(d, r, e, socks) /\ TcpHandler(d) /\ r \in Peer /\ Piped(r) /\ HoldsSockets(r, d, socks)
    BY ZenonT(30), PairOf, PairTypes DEF TcpHandler, Pair
<1>1. PICK s \in DOMAIN socks :
        /\ MainIdle(d) /\ socks[s].by = Far(d) /\ ~socks[s].taken
        /\ LET taken == [socks EXCEPT ![s].taken = TRUE]
               read  == [taken EXCEPT ![s].buf[d] = Tail(@)]
           IN  IF AtEnd(s, d) THEN
                   socks' = Shut(taken, s, d) /\ UNCHANGED oob
               ELSE IF r.state \notin {"connected", "connecting", "connect_ack"} THEN
                   Accept(d, r, s, read)
               ELSE IF WinsArbitration(d) THEN
                   /\ socks' = Shut(Written(read, s, d, <<Frame("nack", NoMsg)>>), s, d)
                   /\ UNCHANGED oob
               ELSE
                   /\ oob' = [oob EXCEPT ![d] = [r EXCEPT !.state = "unconnected", !.main = s]]
                   /\ socks' = read
    BY ZenonT(30) DEF TcpCalled
<1>2. r.main = NoSocket /\ Holding(r, d, socks) /\ socks \in Seq(Sock) /\ oob = [oob EXCEPT ![d] = r]
    BY ZenonT(30), <1>1, HoldingEnd DEF SocketInv, TcpTypeOK, MainIdle
<1> DEFINE taken == [socks EXCEPT ![s].taken = TRUE]
           b     == Tail(taken[s].buf[d])
           read  == [taken EXCEPT ![s].buf[d] = b]
           fs    == <<Frame("nack", NoMsg)>>
           wrote == Written(read, s, d, fs)
           p     == [r EXCEPT !.state = "unconnected", !.main = s]
<1>3. IsTaken(socks, taken, s)
    BY ZenonT(30), <1>2, TakenEffect
<1>4. /\ AtEnd(s, d) => socks' = Shut(taken, s, d) /\ UNCHANGED oob
      /\ ~AtEnd(s, d) /\ r.state \notin {"connected", "connecting", "connect_ack"} =>
             Accept(d, r, s, read)
      /\ ~AtEnd(s, d) /\ r.state \in {"connected", "connecting", "connect_ack"} /\ WinsArbitration(d) =>
             socks' = Shut(wrote, s, d) /\ UNCHANGED oob
      /\ ~AtEnd(s, d) /\ r.state \in {"connected", "connecting", "connect_ack"} /\ ~WinsArbitration(d) =>
             Turn(d, p) /\ socks' = read
    BY ZenonT(30), <1>1 DEF Turn
<1>f. fs \in Seq(Frames)
    BY SMTT(30) DEF Frames, Frame, NoMsg
<1>p. /\ p \in Peer /\ p.sd = r.sd /\ p.main = s /\ p.established = r.established
      /\ p.state = "unconnected" /\ p.recv = r.recv /\ p.heard = r.heard /\ p.half = r.half
      /\ p.deck = r.deck /\ p.worker = r.worker /\ p.queue = r.queue /\ p.work = r.work
      /\ p.asked = r.asked /\ p.ended = r.ended /\ p.posted = r.posted
      /\ p.sev = r.sev /\ p.rev = r.rev
  <2>1. s \in Nat
      BY SMTT(30), <1>2
  <2> QED
      BY ZenonT(30), <1>0, <2>1 DEF Peer, States
<1>t. UNCHANGED oob => Turn(d, r)
    BY ZenonT(30), <1>2 DEF Turn
<1>w. \A q : Turn(d, q) => Steps(d, socks, q, socks') /\ Piped(q) /\ Narrows(r, q)
    BY ZenonT(30), <1>0, Turning
<1> HIDE DEF r, e, taken, fs, p
<1>5. Borrows(r, d, taken, s) /\ Moves(socks, taken, d)
    BY ZenonT(30), <1>1, <1>2, <1>3, BorrowsTaken
<1>6. /\ taken \in Seq(Sock) /\ s \in DOMAIN taken /\ taken[s].open[d] /\ taken[s].buf = socks[s].buf
      /\ SocketsTell(taken)
    BY ZenonT(30), <1>3, <1>5 DEF Borrows, IsTaken
<1>7. CASE AtEnd(s, d)
  <2> DEFINE tt == Shut(taken, s, d)
  <2>1. Closes(taken, tt, s, d)
      BY ZenonT(30), <1>6, ShutEffect
  <2>2. Turn(d, r) /\ socks' = tt
      BY ZenonT(60), <1>4, <1>7, <1>t
  <2> HIDE DEF tt
  <2>3. Refuses(socks, tt, s, d)
      BY ZenonT(30), <1>3, <2>1 DEF Refuses, IsTaken, Closes
  <2>4. Pair(d, r, e, tt)
      BY ZenonT(60), <1>0, <1>1, <1>w, <2>2, <2>3, IsRefused
  <2> QED
      BY ZenonT(30), <2>2, <2>4 DEF Paired, e
<1>8. CASE ~AtEnd(s, d)
  <2>1. taken[s].buf[d] \in Seq(Frames) /\ taken[s].buf[d] # <<>>
      BY ZenonT(30), <1>6, <1>8, BufType DEF AtEnd
  <2>2. b \in Seq(Frames)
      BY SMTT(30), <2>1
  <2>b. b = Tail(socks[s].buf[d]) /\ socks[s].buf[d] # <<>>
      BY ZenonT(30), <1>6, <2>1
  <2> HIDE DEF b
  <2>3. BufIs(taken, read, s, d, b)
      BY ZenonT(30), <1>6, <2>2, BufEffect
  <2> HIDE DEF read
  <2>4. Borrows(r, d, read, s) /\ Moves(taken, read, d)
      BY ZenonT(60), <1>5, <1>6, <2>3, BorrowsBuf
  <2>5. Moves(socks, read, d) /\ read \in Seq(Sock) /\ s \in DOMAIN read
      BY ZenonT(60), <1>5, <2>4, MovesOn DEF Borrows
  <2>6. Takes(socks, read, s, d)
      BY ZenonT(60), <1>3, <2>3, <2>b DEF Takes, IsTaken, BufIs
  <2>7. CASE r.state \in {"connected", "connecting", "connect_ack"} /\ WinsArbitration(d)
    <3> DEFINE tt == Shut(wrote, s, d)
               c == IF Reaches(read, s, d) THEN read[s].buf[Far(d)] \o fs ELSE read[s].buf[Far(d)]
    <3>1. BufIs(read, wrote, s, Far(d), c)
        BY ZenonT(30), <1>f, <2>5, WrittenEffect
    <3> HIDE DEF wrote
    <3>2. Far(d) \in Ends /\ Far(Far(d)) = d /\ Far(d) # d
        BY ZenonT(30), FarEnd
    <3>3. wrote \in Seq(Sock) /\ s \in DOMAIN wrote
        BY ZenonT(30), <2>5, <3>1 DEF BufIs
    <3>4. Closes(wrote, tt, s, d)
        BY ZenonT(30), <3>3, ShutEffect
    <3>5. Turn(d, r) /\ socks' = tt
        BY ZenonT(60), <1>4, <1>8, <1>t, <2>7
    <3>6. c = socks[s].buf[Far(d)] \/ c = socks[s].buf[Far(d)] \o <<Frame("nack", NoMsg)>>
        BY ZenonT(30), <2>6 DEF Takes, fs
    <3> HIDE DEF tt, c
    <3>7. /\ DOMAIN tt = DOMAIN socks
          /\ \A k \in DOMAIN socks \ {s} : tt[k] = socks[k]
        BY ZenonT(60), <2>6, <3>1, <3>4 DEF Takes, BufIs, Closes
    <3>8. /\ tt[s].by = socks[s].by /\ tt[s].taken /\ tt[s].broken = socks[s].broken
          /\ ~tt[s].open[d] /\ tt[s].open[Far(d)] = socks[s].open[Far(d)] /\ tt[s].buf[d] = <<>>
          /\ tt[s].buf[Far(d)] = c
        BY ZenonT(60), <2>6, <3>1, <3>4 DEF Takes, BufIs, Closes
    <3>9. Refuses(socks, tt, s, d)
        BY ZenonT(60), <2>b, <3>6, <3>7, <3>8 DEF Refuses
    <3>10. Pair(d, r, e, tt)
        BY ZenonT(60), <1>0, <1>1, <1>w, <3>5, <3>9, IsRefused
    <3> QED
        BY ZenonT(30), <3>5, <3>10 DEF Paired, e
  <2>8. CASE r.state \in {"connected", "connecting", "connect_ack"} /\ ~WinsArbitration(d)
    <3>1. Turn(d, p) /\ socks' = read
        BY ZenonT(30), <1>4, <1>8, <2>8
    <3>2. Pair(d, p, e, read)
        BY ZenonT(60), <1>0, <1>1, <1>2, <1>p, <1>w, <2>6, <3>1, Marks
    <3> QED
        BY ZenonT(30), <3>1, <3>2 DEF Paired, e
  <2>9. CASE r.state \notin {"connected", "connecting", "connect_ack"}
    <3>1. Accept(d, r, s, read)
        BY ZenonT(30), <1>4, <1>8, <2>9
    <3>2. r.sd = NoSocket /\ ~r.established /\ r.recv = NoMsg
      <4>1. r.state \in {"unconnected", "closed", "failed"}
          BY ZenonT(30), <1>0, <2>9 DEF Peer, States
      <4>2. r.sd = NoSocket
          BY ZenonT(30), <1>0, <1>2, <4>1 DEF HoldsSockets
      <4> QED
          BY ZenonT(60), <1>0, <4>2 DEF Pair, Side, Phases
    <3>3. r.sev \/ r.rev => r.sd # NoSocket
        BY ZenonT(30), <1>0 DEF HoldsSockets
    <3>4. HoldsSockets(p, d, read)
        BY ZenonT(60), <1>p, <2>4, <3>2, <3>3 DEF Borrows, HoldsSockets
    <3>5. Steps(d, socks, p, read)
        BY ZenonT(30), <1>p, <2>5, <3>4 DEF Steps
    <3>6. Piped(p) /\ Goes(r, p)
        BY ZenonT(30), <1>0, <1>p, SamePiped
    <3>7. Goes(p, r)
        BY ZenonT(60), <1>0, <1>p, <3>6, GoesSame DEF Piped
    <3>8. Pair(d, p, e, read)
        BY ZenonT(60), <1>0, <1>1, <1>2, <1>p, <2>6, <3>5, <3>6, Marks DEF Goes
    <3>9. Sure(d)
        BY ZenonT(30), <1>w DEF Sure
    <3>10. s # NoSocket
        BY ZenonT(30), <2>4 DEF Borrows
    <3>11. \E q : Turn(d, q) /\ Pair(d, q, e, socks')
        BY ZenonT(60), <1>0, <1>2, <1>p, <3>1, <3>2, <3>7, <3>8, <3>9, <3>10, AcceptPairs
    <3> QED
        BY ZenonT(30), <3>11 DEF Paired, e
  <2> QED
      BY ZenonT(30), <2>7, <2>8, <2>9
<1> QED
    BY ZenonT(30), <1>7, <1>8


\* The rest of retry(), and the accept after it.
LEMMA AbandonsPairs ==
    ASSUME SocketInv, PipeInv, OrderInv, NEW d \in Ends, TcpAbandons(d)
    PROVE  Paired(d)
<1> DEFINE r == oob[d]
           e == oob[Far(d)]
           s == r.main
           a == Abandon(r, s)
           ss == Shut(socks, r.sd, d)
           w == IF r.established THEN "lift" ELSE "idle"
           p == [r EXCEPT !.sd = NoSocket, !.sev = FALSE, !.rev = FALSE, !.established = FALSE,
                          !.recv = NoMsg, !.half = FALSE, !.state = "unconnected", !.worker = w]
<1>0. /\ Pair(d, r, e, socks) /\ TcpHandler(d) /\ r \in Peer /\ Piped(r)
      /\ HoldsSockets(r, d, socks) /\ Holding(r, d, socks)
    BY ZenonT(30), PairOf, PairTypes DEF TcpHandler, Pair
<1>1. s # NoSocket /\ r.worker = "idle" /\ Accept(d, a, s, ss)
    BY Zenon DEF TcpAbandons, MainIdle
<1>2. Sure(d)
    BY ZenonT(30), <1>0, Turning DEF Sure
<1>3. ~r.established => r.half = FALSE
    BY ZenonT(60), <1>0, <1>1 DEF Pair, Side, Phases, Peer
<1>4. w \in {"lift", "idle"} /\ (r.established => w = "lift") /\ (~r.established => w = "idle")
    BY ZenonT(30)
<1>5. s \in Nat
    BY ZenonT(30), <1>0 DEF Peer
<1> HIDE DEF w
<1>6. /\ p \in Peer /\ p.sd = NoSocket /\ p.main = r.main /\ p.established = FALSE
      /\ p.state = "unconnected" /\ p.recv = NoMsg /\ p.heard = r.heard /\ p.half = FALSE
      /\ p.deck = r.deck /\ p.worker = w /\ p.queue = r.queue /\ p.work = r.work
      /\ p.asked = r.asked /\ p.ended = r.ended /\ p.posted = r.posted
      /\ p.sev = FALSE /\ p.rev = FALSE
    BY ZenonT(30), <1>0, <1>4 DEF Peer, States, NoSocket, NoMsg
<1>7. /\ a \in Peer /\ a.main = NoSocket /\ a.established = r.established
      /\ a.recv = NoMsg /\ a.heard = r.heard /\ a.half = FALSE
      /\ a.deck = r.deck /\ a.worker = r.worker /\ a.queue = r.queue /\ a.work = r.work
      /\ a.asked = r.asked /\ a.ended = r.ended /\ a.posted = r.posted
    BY ZenonT(30), <1>0, <1>5, AbandonFields
<1> HIDE DEF p, a
<1>8. Steps(d, socks, p, ss)
    BY ZenonT(30), <1>0, <1>6, ShutHolds
<1>9. Piped(p) /\ Goes(r, p) /\ Piped(a)
    BY ZenonT(60), <1>0, <1>1, <1>6, <1>7, SamePiped
<1>10. Goes(p, a)
    BY ZenonT(30), <1>6, <1>7, <1>9, GoesSame DEF Piped
<1> HIDE DEF r, e
<1>11. Pair(d, p, e, ss)
    BY ZenonT(30), <1>0, <1>1, <1>3, <1>4, <1>6, <1>8, <1>9, Drops DEF Goes
<1> HIDE DEF ss
<1>12. \E q : Turn(d, q) /\ Pair(d, q, e, socks')
    BY ZenonT(60), <1>1, <1>2, <1>4, <1>6, <1>7, <1>9, <1>10, <1>11, AcceptPairs
<1> QED
    BY ZenonT(30), <1>12 DEF Paired, e

\* The RML hands in a message.
LEMMA SendPairs ==
    ASSUME SocketInv, PipeInv, OrderInv, NEW d \in Ends, TcpSend(d)
    PROVE  Paired(d)
<1> DEFINE r == oob[d]
           e == oob[Far(d)]
           q == [r EXCEPT !.asked = @ + 1,
                          !.posted = Append(@, [e |-> "send", m |-> r.asked + 1])]
           B == Inbox(e, Far(d), socks)
<1>0. /\ Pair(d, r, e, socks) /\ r \in Peer /\ e \in Peer /\ B \in Seq(Frames)
    BY ZenonT(30), PairOf, PairTypes
<1>1. Turn(d, q) /\ socks' = socks
    BY ZenonT(30) DEF TcpSend, Turn
<1>2. PICK o : /\ Turn(d, o) /\ Piped(o)
               /\ o.asked = r.asked + 1 /\ o.deck = r.deck
               /\ \A m : Waiting(o, m) => Waiting(r, m) \/ m = r.asked + 1
    BY ZenonT(30), SendPiped
<1>3. PICK c : Turn(d, c) /\ Steps(d, socks, c, socks')
    BY ZenonT(30), EveryTurn
<1>4. o = q /\ c = q
    BY ZenonT(60), <1>1, <1>2, <1>3, OneTurn
<1>5. /\ q.sd = r.sd /\ q.main = r.main /\ q.established = r.established
      /\ q.recv = r.recv /\ q.heard = r.heard /\ q.half = r.half /\ q.state = r.state
      /\ q.deck = r.deck /\ q.worker = r.worker
    BY ZenonT(30), <1>0 DEF Peer
<1> HIDE DEF q, r, e
<1>6. Steps(d, socks, q, socks) /\ Piped(q) /\ q \in Peer
    BY ZenonT(60), <1>1, <1>2, <1>3, <1>4 DEF Piped
<1>7. Flow(r, e, B)
    BY ZenonT(30), <1>0 DEF Pair, Side
<1>8. Flow(q, e, B)
    BY ZenonT(60), <1>0, <1>2, <1>4, <1>6, <1>7, FlowAsk
<1>9. Again(q, e, B) => Again(r, e, B)
    BY ZenonT(30), <1>5 DEF Again
<1>10. Pair(d, q, e, socks)
    BY ZenonT(30), <1>0, <1>5, <1>6, <1>8, <1>9, Quiet
<1> QED
    BY ZenonT(30), <1>1, <1>10 DEF Paired, e

\* The network breaks a socket.
LEMMA BreakSides ==
    ASSUME SocketInv, PipeInv, OrderInv, NEW s \in DOMAIN socks, TcpBreak(s)
    PROVE  OrderInv'
<1>1. socks \in Seq(Sock)
    BY ZenonT(30) DEF SocketInv, TcpTypeOK
<1>2. Breaks(socks, socks', s)
  <2> DEFINE tt == [socks EXCEPT ![s].broken = TRUE, ![s].buf = [e \in Ends |-> <<>>]]
  <2>1. /\ tt \in Seq(Sock) /\ DOMAIN tt = DOMAIN socks /\ Len(tt) = Len(socks)
        /\ \A k \in DOMAIN socks \ {s} : tt[k] = socks[k]
        /\ tt[s].by = socks[s].by /\ tt[s].taken = socks[s].taken /\ tt[s].broken
        /\ tt[s].open = socks[s].open /\ tt[s].buf = [e \in Ends |-> <<>>]
      BY <1>1, BreakEffect, Zenon
  <2>2. socks' = tt
      BY ZenonT(30) DEF TcpBreak
  <2> HIDE DEF tt
  <2> QED
      BY ZenonT(30), <2>1, <2>2 DEF Breaks
<1>3. oob' = oob
    BY Zenon DEF TcpBreak
<1>4. ASSUME NEW d \in Ends PROVE Side(d, oob[d], oob[Far(d)], socks')
    BY ZenonT(30), <1>2, PairOf, SideBreaks
<1> QED
    BY ZenonT(30), <1>3, <1>4 DEF OrderInv

----------------------------------------------------------------------------
\* The theorem

\* Every handler.
LEMMA HandlerPairs ==
    ASSUME SocketInv, PipeInv, OrderInv, NEW d \in Ends, TcpSend(d) \/ TcpHandler(d)
    PROVE  Paired(d)
    BY ZenonT(60), SendPairs, MainEventPairs, RetryTimerPairs, ConnectCompletesPairs, AnsweredPairs,
       CalledPairs, AbandonsPairs, QueueMsgPairs, SendHandlerPairs, SendNextPairs,
       RecvHandlerPairs, StrayHandlerPairs, LiftPairs
    DEF TcpHandler

\* The streams are empty at the start.
LEMMA OrderInvInit == TcpInit => OrderInv
<1> SUFFICES ASSUME TcpInit PROVE OrderInv
    BY ZenonT(30)
<1>1. socks = <<>> /\ \A d \in Ends : Far(d) \in Ends /\ oob[d] = NewPeer
    BY ZenonT(30), FarEnd DEF TcpInit
<1>2. /\ NewPeer.sd = NoSocket /\ NewPeer.main = NoSocket /\ NewPeer.state = "unconnected"
      /\ NewPeer.established = FALSE /\ NewPeer.recv = NoMsg /\ NewPeer.half = FALSE
      /\ NewPeer.deck = NoMsg /\ NewPeer.heard = <<>> /\ NewPeer.asked = 0
      /\ NewPeer.queue = <<>> /\ NewPeer.work = <<>> /\ NewPeer.posted = <<>>
    BY ZenonT(30) DEF NewPeer
<1>3. DOMAIN socks = {}
    BY SMTT(30), <1>1
<1>4. \A m : m # NoMsg => ~Waiting(NewPeer, m)
    BY SMTT(30), <1>2 DEF Waiting
<1>5. \A d \in Ends : Inbox(NewPeer, d, socks) = <<>>
    BY ZenonT(30), <1>2 DEF Inbox
<1>6. Flow(NewPeer, NewPeer, <<>>)
    BY SMTT(30), <1>2, <1>4 DEF Flow, HeardInOrder, Reading, Behind, NoMsg
<1>7. ~Again(NewPeer, NewPeer, <<>>)
    BY ZenonT(30), <1>2 DEF Again
<1>8. ASSUME NEW d \in Ends PROVE Side(d, NewPeer, NewPeer, socks)
    BY ZenonT(30), <1>2, <1>3, <1>5, <1>6, <1>7 DEF Side, Phases, Shakes, DataOnly, Halves
<1> QED
    BY ZenonT(30), <1>1, <1>8 DEF OrderInv

\* The third invariant is inductive.
LEMMA OrderInvStep == SocketInv /\ PipeInv /\ OrderInv /\ [TcpNext]_tcpVars => OrderInv'
<1> SUFFICES ASSUME SocketInv, PipeInv, OrderInv, [TcpNext]_tcpVars PROVE OrderInv'
    BY ZenonT(30)
<1>1. ASSUME NEW d \in Ends, TcpSend(d) \/ TcpHandler(d) PROVE OrderInv'
  <2>1. PICK q : Turn(d, q) /\ Pair(d, q, oob[Far(d)], socks')
      BY ZenonT(30), <1>1, HandlerPairs DEF Paired
  <2>2. oob \in [Ends -> Peer]
      BY ZenonT(30) DEF SocketInv, TcpTypeOK
  <2>3. Far(d) \in Ends /\ Far(d) # d /\ Far(Far(d)) = d /\ \A e \in Ends : e = d \/ e = Far(d)
      BY ZenonT(30), FarEnd
  <2>4. oob'[d] = q /\ oob'[Far(d)] = oob[Far(d)]
      BY ZenonT(30), <2>1, <2>2, <2>3 DEF Turn
  <2>5. Side(d, oob'[d], oob'[Far(d)], socks') /\ Side(Far(d), oob'[Far(d)], oob'[d], socks')
      BY ZenonT(30), <2>1, <2>4 DEF Pair
  <2>6. \A e \in Ends : Side(e, oob'[e], oob'[Far(e)], socks')
      BY ZenonT(30), <2>3, <2>5
  <2> QED
      BY ZenonT(30), <2>6 DEF OrderInv
<1>2. ASSUME NEW s \in DOMAIN socks, TcpBreak(s) PROVE OrderInv'
    BY ZenonT(30), <1>2, BreakSides
<1>3. CASE UNCHANGED tcpVars
    BY ZenonT(30), <1>3 DEF tcpVars, OrderInv
<1> QED
    BY ZenonT(30), <1>1, <1>2, <1>3 DEF TcpNext

\* What was heard was heard in order.
LEMMA OrderFollows == SocketInv /\ OrderInv => TcpInOrder
<1> SUFFICES ASSUME SocketInv, OrderInv, NEW d \in Ends, NEW i \in DOMAIN oob[d].heard
             PROVE  /\ oob[d].heard[i] # NoMsg
                    /\ \A j \in 1 .. (i - 1) : oob[d].heard[j] < oob[d].heard[i]
    BY ZenonT(30) DEF TcpInOrder
<1>1. oob[d] \in Peer
    BY ZenonT(30) DEF SocketInv, TcpTypeOK
<1>2. oob[d].heard \in Seq(Nat)
    BY ZenonT(30), <1>1, Numbers
<1>3. HeardInOrder(oob[d])
    BY ZenonT(30) DEF OrderInv, Side, Flow
<1>4. \A j \in 1 .. (i - 1) : j \in DOMAIN oob[d].heard /\ j < i
    BY SMTT(30), <1>2
<1> QED
    BY SMTT(30), <1>3, <1>4 DEF HeardInOrder, NoMsg

\* The three invariants give the property.
LEMMA SoundFollows == SocketInv /\ PipeInv /\ OrderInv => TcpSound
    BY ZenonT(30), OrderFollows, CompletedFollows, EventsFollow DEF TcpSound

\* Whatever the number of messages each daemon sends, of sockets the network breaks
\* and of attempts to reconnect: a message is delivered at most once and in the order
\* it was sent, complete_send is told of it once, and an armed event watches a
\* socket the daemon still has open.
THEOREM ConnectionAlwaysSound == TcpSpec => []TcpSound
<1>1. TcpSpec => []SocketInv
    BY SocketInvInit, SocketInvStep, PTL DEF TcpSpec
<1>2. TcpSpec => []PipeInv
    BY <1>1, PipeInvInit, PipeInvStep, PTL DEF TcpSpec
<1>3. TcpSpec => []OrderInv
    BY <1>1, <1>2, OrderInvInit, OrderInvStep, PTL DEF TcpSpec
<1> QED
    BY <1>1, <1>2, <1>3, SoundFollows, PTL
=============================================================================

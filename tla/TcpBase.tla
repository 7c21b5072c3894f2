------------------------------ MODULE TcpBase ------------------------------
(***************************************************************************)
(* What the proofs about a connection speak of: the types of the peer      *)
(* object and of the sockets, what a write, a close and a dial do to the   *)
(* sockets, who holds which socket (SocketInv), and the line in which the  *)
(* messages of a daemon wait on their way to the socket (PipeInv).         *)
(***************************************************************************)
EXTENDS TcpPeer, TLAPS

\* The states of a peer.
States == {"unconnected", "connecting", "connect_ack", "connected", "closed", "failed"}

\* The events of the main thread.
Events == {"try", "start", "send", "lost", "failed"}

Posted == [e : Events, m : Nat]

Queued == [m : Nat, activate : BOOLEAN]

\* The peer object of a daemon, with the queues of its two threads.
Peer == [state : States, sd : Nat, established : BOOLEAN,
         sev : BOOLEAN, rev : BOOLEAN, addrFailed : BOOLEAN,
         deck : Nat, half : BOOLEAN, queue : Seq(Nat), recv : Nat,
         timers : Nat, recons : Nat, posted : Seq(Posted), work : Seq(Queued),
         main : Nat, worker : {"idle", "sent", "lift"}, wasUp : BOOLEAN,
         down : BOOLEAN, asked : Nat, ended : Seq(Nat), heard : Seq(Nat)]

\* What crosses a socket: the handshake, and the two parts of a message.
Frames == [t : {"ident", "nack", "head", "tail"}, m : Nat]

Sock == [by : Ends, taken : BOOLEAN, broken : BOOLEAN, open : [Ends -> BOOLEAN],
         buf : [Ends -> Seq(Frames)]]

\* The type invariant.
TcpTypeOK == oob \in [Ends -> Peer] /\ socks \in Seq(Sock) /\ breaks \in Nat

----------------------------------------------------------------------------
\* Sockets
LEMMA FarEnd == \A d \in Ends : Far(d) \in Ends /\ Far(d) # d /\ Far(Far(d)) = d
                                /\ \A e \in Ends : e = d \/ e = Far(d)
BY DEF Ends, Far

\* The types of sockets and of what is in flight on them.
LEMMA SockAt == ASSUME NEW ss \in Seq(Sock), NEW s \in DOMAIN ss PROVE ss[s] \in Sock
    BY SMTT(30)

\* What is in flight on a socket is a sequence of frames.
LEMMA BufType ==
    ASSUME NEW ss \in Seq(Sock), NEW s \in DOMAIN ss, NEW d \in Ends
    PROVE  ss[s].buf[d] \in Seq(Frames)
<1>1. \A x \in Sock : x.buf[d] \in Seq(Frames)
    BY Zenon DEF Sock
<1> QED
    BY Zenon, <1>1, SockAt

\* One end of a socket is closed.
LEMMA SockShut ==
    ASSUME NEW x \in Sock, NEW d \in Ends
    PROVE  LET y == [x EXCEPT !.open[d] = FALSE, !.buf[d] = <<>>] IN
           /\ y \in Sock
           /\ y.by = x.by /\ y.taken = x.taken /\ y.broken = x.broken
           /\ ~y.open[d] /\ y.buf[d] = <<>>
           /\ y.open[Far(d)] = x.open[Far(d)]
           /\ y.buf[Far(d)] = x.buf[Far(d)]
<1>1. x.open \in [Ends -> BOOLEAN] /\ x.buf \in [Ends -> Seq(Frames)]
    BY Zenon DEF Sock
<1>2. [x.open EXCEPT ![d] = FALSE] \in [Ends -> BOOLEAN] /\ [x.buf EXCEPT ![d] = <<>>] \in [Ends -> Seq(Frames)]
    BY SMTT(30), <1>1
<1>3. [x EXCEPT !.open[d] = FALSE, !.buf[d] = <<>>] = [x EXCEPT !.open = [x.open EXCEPT ![d] = FALSE], !.buf = [x.buf EXCEPT ![d] = <<>>]]
   BY Zenon
<1>4. [x EXCEPT !.open = [x.open EXCEPT ![d] = FALSE], !.buf = [x.buf EXCEPT ![d] = <<>>]] \in Sock
   BY Zenon, <1>2 DEF Sock
<1> QED BY ZenonT(30), <1>1, <1>2, <1>3, <1>4, FarEnd DEF Sock

\* end d of socket s is closed
Closes(ss, tt, s, d) ==
    /\ tt \in Seq(Sock) /\ DOMAIN tt = DOMAIN ss /\ Len(tt) = Len(ss)
    /\ \A k \in DOMAIN ss \ {s} : tt[k] = ss[k]
    /\ tt[s].by = ss[s].by /\ tt[s].taken = ss[s].taken /\ tt[s].broken = ss[s].broken
    /\ ~tt[s].open[d] /\ tt[s].buf[d] = <<>>
    /\ tt[s].open[Far(d)] = ss[s].open[Far(d)]
    /\ tt[s].buf[Far(d)] = ss[s].buf[Far(d)]

\* Shut closes that end and touches no other socket.
LEMMA ShutEffect ==
    ASSUME NEW ss \in Seq(Sock), NEW s \in DOMAIN ss, NEW d \in Ends
    PROVE  Closes(ss, Shut(ss, s, d), s, d)
<1> DEFINE y == [ss[s] EXCEPT !.open[d] = FALSE, !.buf[d] = <<>>]
<1>1. s # NoSocket
    BY SMTT(30) DEF NoSocket
<1>2. Shut(ss, s, d) = [ss EXCEPT ![s] = y]
    BY Zenon, <1>1 DEF Shut
<1>3. /\ y \in Sock
      /\ y.by = ss[s].by /\ y.taken = ss[s].taken /\ y.broken = ss[s].broken
      /\ ~y.open[d] /\ y.buf[d] = <<>>
      /\ y.open[Far(d)] = ss[s].open[Far(d)]
      /\ y.buf[Far(d)] = ss[s].buf[Far(d)]
    BY Zenon, SockShut, SockAt
<1> HIDE DEF y
<1>4. /\ [ss EXCEPT ![s] = y] \in Seq(Sock) /\ Len([ss EXCEPT ![s] = y]) = Len(ss)
      /\ DOMAIN [ss EXCEPT ![s] = y] = DOMAIN ss
      /\ [ss EXCEPT ![s] = y][s] = y
      /\ \A k \in DOMAIN ss \ {s} : [ss EXCEPT ![s] = y][k] = ss[k]
    BY SMTT(30), <1>3
<1> QED
    BY Zenon, <1>2, <1>3, <1>4 DEF Closes

\* A buffer of a socket changes.
LEMMA SockWrite ==
    ASSUME NEW x \in Sock, NEW e \in Ends, NEW b \in Seq(Frames)
    PROVE  LET y == [x EXCEPT !.buf[e] = b] IN
           /\ y \in Sock
           /\ y.by = x.by /\ y.taken = x.taken /\ y.broken = x.broken /\ y.open = x.open
           /\ y.buf[e] = b
           /\ y.buf[Far(e)] = x.buf[Far(e)]
<1>1. x.open \in [Ends -> BOOLEAN] /\ x.buf \in [Ends -> Seq(Frames)]
    BY Zenon DEF Sock
<1>2. [x.buf EXCEPT ![e] = b] \in [Ends -> Seq(Frames)]
    BY Zenon, <1>1
<1>3. [x EXCEPT !.buf[e] = b] = [x EXCEPT !.buf = [x.buf EXCEPT ![e] = b]]
    BY Zenon
<1>4. [x EXCEPT !.buf = [x.buf EXCEPT ![e] = b]] \in Sock
    BY Zenon, <1>2 DEF Sock
<1> QED BY ZenonT(30), <1>1, <1>2, <1>3, <1>4, FarEnd DEF Sock

\* the buffer of e at socket s becomes b
BufIs(ss, tt, s, e, b) ==
    /\ tt \in Seq(Sock) /\ DOMAIN tt = DOMAIN ss /\ Len(tt) = Len(ss)
    /\ \A k \in DOMAIN ss \ {s} : tt[k] = ss[k]
    /\ tt[s].by = ss[s].by /\ tt[s].taken = ss[s].taken /\ tt[s].broken = ss[s].broken
    /\ tt[s].open = ss[s].open
    /\ tt[s].buf[e] = b /\ tt[s].buf[Far(e)] = ss[s].buf[Far(e)]

\* A buffer changes, and no other socket.
LEMMA BufEffect ==
    ASSUME NEW ss \in Seq(Sock), NEW s \in DOMAIN ss, NEW e \in Ends, NEW b \in Seq(Frames)
    PROVE  BufIs(ss, [ss EXCEPT ![s].buf[e] = b], s, e, b)
<1> DEFINE y == [ss[s] EXCEPT !.buf[e] = b]
<1>2. [ss EXCEPT ![s].buf[e] = b] = [ss EXCEPT ![s] = y]
    BY Zenon
<1>3. /\ y \in Sock
      /\ y.by = ss[s].by /\ y.taken = ss[s].taken /\ y.broken = ss[s].broken /\ y.open = ss[s].open
      /\ y.buf[e] = b /\ y.buf[Far(e)] = ss[s].buf[Far(e)]
    BY ZenonT(60), SockWrite, SockAt
<1> HIDE DEF y
<1>4. /\ [ss EXCEPT ![s] = y] \in Seq(Sock) /\ Len([ss EXCEPT ![s] = y]) = Len(ss)
      /\ DOMAIN [ss EXCEPT ![s] = y] = DOMAIN ss
      /\ [ss EXCEPT ![s] = y][s] = y
      /\ \A k \in DOMAIN ss \ {s} : [ss EXCEPT ![s] = y][k] = ss[k]
    BY SMTT(30), <1>3
<1> QED
    BY Zenon, <1>2, <1>3, <1>4 DEF BufIs

\* What end d writes to socket s gets through.
Reaches(ss, s, d) == ss[s].open[Far(d)] /\ ~ss[s].broken

\* A write extends the far end's buffer, or is lost.
LEMMA WrittenEffect ==
    ASSUME NEW ss \in Seq(Sock), NEW s \in DOMAIN ss, NEW d \in Ends, NEW fs \in Seq(Frames)
    PROVE  BufIs(ss, Written(ss, s, d, fs), s, Far(d),
                 IF Reaches(ss, s, d) THEN ss[s].buf[Far(d)] \o fs ELSE ss[s].buf[Far(d)])
<1>1. ss[s].buf[Far(d)] \in Seq(Frames)
    BY ZenonT(60), FarEnd, SockAt DEF Sock
<1> DEFINE b == ss[s].buf[Far(d)] \o fs
<1>2. b \in Seq(Frames)
    BY SMTT(30), <1>1
<1>3. CASE Reaches(ss, s, d)
  <2>1. Written(ss, s, d, fs) = [ss EXCEPT ![s].buf[Far(d)] = b]
      BY Zenon, <1>3 DEF Written, Reaches
  <2>2. Far(d) \in Ends
      BY Zenon, FarEnd
  <2> HIDE DEF b
  <2>3. BufIs(ss, [ss EXCEPT ![s].buf[Far(d)] = b], s, Far(d), b)
      BY Zenon, <1>2, <2>2, BufEffect
  <2> QED
      BY Zenon, <2>1, <2>3, <1>3 DEF b
<1>4. CASE ~Reaches(ss, s, d)
    BY Zenon, <1>4 DEF Written, BufIs, Reaches
<1> QED
    BY Zenon, <1>3, <1>4

\* The socket that daemon d dials.
NewSock(d) == [by |-> d, taken |-> FALSE, broken |-> FALSE,
               open |-> [e \in Ends |-> TRUE], buf |-> [e \in Ends |-> <<>>]]

\* A dial adds one socket.
LEMMA DialEffect ==
    ASSUME NEW ss \in Seq(Sock), NEW d \in Ends
    PROVE  LET tt == Append(ss, NewSock(d))  n == Len(ss) + 1 IN
           /\ tt \in Seq(Sock) /\ DOMAIN tt = 1 .. n /\ Len(tt) = n /\ n \in Nat /\ n # NoSocket
           /\ \A k \in DOMAIN ss : tt[k] = ss[k] /\ k # n
           /\ tt[n] = NewSock(d)
           /\ NewSock(d).by = d /\ ~NewSock(d).taken /\ ~NewSock(d).broken
           /\ \A e \in Ends : NewSock(d).open[e] /\ NewSock(d).buf[e] = <<>>
<1>1. NewSock(d) \in Sock
      /\ NewSock(d).by = d /\ ~NewSock(d).taken /\ ~NewSock(d).broken
      /\ \A e \in Ends : NewSock(d).open[e] /\ NewSock(d).buf[e] = <<>>
    BY SMTT(30) DEF NewSock, Sock
<1> QED
    BY SMTT(30), <1>1 DEF NoSocket

----------------------------------------------------------------------------
\* The peer object

\* Daemon d, with record r, and the sockets: the one of its peer object, the one retry()
\* is about to accept, and those it was called on and has not looked at.
HoldsSockets(r, d, ss) ==
    /\ r.sd # NoSocket =>
           /\ r.sd \in DOMAIN ss
           /\ ss[r.sd].open[d]
           /\ ss[r.sd].by = d \/ ss[r.sd].taken
    /\ r.main # NoSocket =>
           /\ r.main \in DOMAIN ss
           /\ ss[r.main].open[d]
           /\ ss[r.main].by = Far(d)
           /\ ss[r.main].taken
           /\ r.main # r.sd
           /\ r.state \in {"unconnected", "closed"}
    /\ r.main = NoSocket /\ r.state \in {"unconnected", "closed", "failed"} => r.sd = NoSocket
    /\ r.state = "closed" => r.sd = NoSocket
    /\ r.state \in {"connect_ack", "connected"} => r.sd # NoSocket
    /\ r.sev \/ r.rev => r.sd # NoSocket
    /\ r.state = "connecting" /\ r.addrFailed => r.sd = NoSocket
    /\ \A s \in DOMAIN ss : ss[s].open[d] =>
           \/ s = r.sd \/ s = r.main
           \/ ss[s].by = Far(d) /\ ~ss[s].taken

\* What the sockets show by themselves.
SocketsTell(ss) ==
    \A s \in DOMAIN ss :
        /\ ~ss[s].taken => ss[s].open[Far(ss[s].by)]
        /\ \A d \in Ends : ~ss[s].open[d] => ss[s].buf[d] = <<>>

\* What a step of daemon d may do to the sockets, as the other end sees it.
Moves(ss, tt, d) ==
    /\ tt \in Seq(Sock)
    /\ SocketsTell(tt)
    /\ DOMAIN ss \subseteq DOMAIN tt
    /\ \A s \in DOMAIN ss :
           /\ tt[s].by = ss[s].by
           /\ tt[s].open[Far(d)] = ss[s].open[Far(d)]
           /\ ss[s].taken => tt[s].taken
           /\ ss[s].by = d => tt[s].taken = ss[s].taken
    /\ \A s \in DOMAIN tt \ DOMAIN ss : tt[s].by = d /\ ~tt[s].taken

\* What one daemon does to the sockets does not take from the other what it holds.
LEMMA OtherEndHolds ==
    ASSUME NEW ss \in Seq(Sock), NEW tt, NEW d \in Ends, NEW r \in Peer,
           HoldsSockets(r, Far(d), ss), Moves(ss, tt, d)
    PROVE  HoldsSockets(r, Far(d), tt)
<1>1. Far(d) \in Ends /\ Far(Far(d)) = d
    BY Zenon, FarEnd
<1>2. \A s \in DOMAIN ss : s \in DOMAIN tt
    BY Zenon DEF Moves
<1>3. r.sd # NoSocket =>
           /\ r.sd \in DOMAIN tt
           /\ tt[r.sd].open[Far(d)]
           /\ tt[r.sd].by = Far(d) \/ tt[r.sd].taken
    BY Zenon, <1>2 DEF HoldsSockets, Moves
<1>4. r.main # NoSocket =>
           /\ r.main \in DOMAIN tt
           /\ tt[r.main].open[Far(d)]
           /\ tt[r.main].by = Far(Far(d))
           /\ tt[r.main].taken
    BY Zenon, <1>1, <1>2 DEF HoldsSockets, Moves
<1>5. ASSUME NEW s \in DOMAIN tt, tt[s].open[Far(d)]
      PROVE  \/ s = r.sd \/ s = r.main
             \/ tt[s].by = Far(Far(d)) /\ ~tt[s].taken
  <2>1. CASE s \notin DOMAIN ss
      BY Zenon, <2>1, <1>1 DEF Moves
  <2>2. CASE s \in DOMAIN ss
      BY SMTT(30), <2>2, <1>1, <1>5 DEF Moves, HoldsSockets
  <2> QED
      BY Zenon, <2>1, <2>2
<1> QED
    BY Zenon, <1>3, <1>4, <1>5 DEF HoldsSockets

\* A step of daemon d: its new record, and what it did to the sockets.
Steps(d, ss, q, tt) ==
    /\ q \in Peer
    /\ Moves(ss, tt, d)
    /\ HoldsSockets(q, d, tt)

\* Daemon d's record fits the sockets.
Holding(r, d, ss) ==
    /\ r \in Peer
    /\ ss \in Seq(Sock)
    /\ SocketsTell(ss)
    /\ HoldsSockets(r, d, ss)

\* Daemon d steps to record q.
Turn(d, q) == oob' = [oob EXCEPT ![d] = q]

\* The first invariant: the types, and who holds which socket.
SocketInv ==
    /\ TcpTypeOK
    /\ SocketsTell(socks)
    /\ \A d \in Ends : HoldsSockets(oob[d], d, socks)

\* An event that brings a message.
IsSend(p) == p.e = "send"

\* The messages of a daemon on their way to the socket: on deck, queued, handed to
\* the worker thread, or posted to the main thread.
Waiting(r, m) ==
    \/ r.deck = m
    \/ \E i \in DOMAIN r.queue : r.queue[i] = m
    \/ \E i \in DOMAIN r.work : r.work[i].m = m
    \/ \E i \in DOMAIN r.posted : IsSend(r.posted[i]) /\ r.posted[i].m = m

\* They stand in the order they were asked for.
QueueInLine(r) ==
    \A i \in DOMAIN r.queue :
         /\ r.deck < r.queue[i] /\ r.queue[i] <= r.asked
         /\ \A j \in DOMAIN r.queue : i < j => r.queue[i] < r.queue[j]
         /\ \A j \in DOMAIN r.work : r.queue[i] < r.work[j].m
         /\ \A j \in DOMAIN r.posted : IsSend(r.posted[j]) => r.queue[i] < r.posted[j].m

WorkInLine(r) ==
    \A i \in DOMAIN r.work :
         /\ r.deck < r.work[i].m /\ r.work[i].m <= r.asked
         /\ \A j \in DOMAIN r.work : i < j => r.work[i].m < r.work[j].m
         /\ \A j \in DOMAIN r.posted : IsSend(r.posted[j]) => r.work[i].m < r.posted[j].m

PostedInLine(r) ==
    \A i \in DOMAIN r.posted : IsSend(r.posted[i]) =>
         /\ r.deck < r.posted[i].m /\ r.posted[i].m <= r.asked
         /\ \A j \in DOMAIN r.posted : IsSend(r.posted[j]) /\ i < j => r.posted[i].m < r.posted[j].m

InLine(r) == r.deck <= r.asked /\ QueueInLine(r) /\ WorkInLine(r) /\ PostedInLine(r)

\* And what was completed is not among them, and was completed once.
EndedOnce(r) ==
    \A i \in DOMAIN r.ended :
        /\ r.ended[i] \in 1 .. r.asked
        /\ ~Waiting(r, r.ended[i])
        /\ \A j \in DOMAIN r.ended : i # j => r.ended[i] # r.ended[j]

\* The line is in order.
PipeOK(r) == InLine(r) /\ EndedOnce(r)

\* No handler adds to the messages in line, or takes one off the deck and keeps it.
Narrows(r, q) ==
    /\ q.asked = r.asked
    /\ \A m : m # NoMsg /\ Waiting(q, m) => Waiting(r, m) /\ (r.deck = m => q.deck = m)

\* Messages are numbers.
LEMMA Numbers ==
    ASSUME NEW r \in Peer
    PROVE  /\ r.deck \in Nat /\ r.asked \in Nat /\ r.recv \in Nat
           /\ r.queue \in Seq(Nat) /\ \A i \in DOMAIN r.queue : r.queue[i] \in Nat
           /\ r.work \in Seq(Queued) /\ \A i \in DOMAIN r.work : r.work[i].m \in Nat
           /\ r.posted \in Seq(Posted) /\ \A i \in DOMAIN r.posted : r.posted[i].m \in Nat
           /\ r.ended \in Seq(Nat) /\ \A i \in DOMAIN r.ended : r.ended[i] \in Nat
           /\ r.heard \in Seq(Nat) /\ \A i \in DOMAIN r.heard : r.heard[i] \in Nat
<1>1. /\ r.deck \in Nat /\ r.asked \in Nat /\ r.recv \in Nat
      /\ r.queue \in Seq(Nat) /\ r.work \in Seq(Queued) /\ r.posted \in Seq(Posted)
      /\ r.ended \in Seq(Nat) /\ r.heard \in Seq(Nat)
    BY Zenon DEF Peer
<1>2. \A i \in DOMAIN r.queue : r.queue[i] \in Nat
    BY SMTT(30), <1>1
<1>3. \A i \in DOMAIN r.work : r.work[i] \in Queued
    BY SMTT(30), <1>1
<1>4. \A i \in DOMAIN r.posted : r.posted[i] \in Posted
    BY SMTT(30), <1>1
<1>5. \A i \in DOMAIN r.ended : r.ended[i] \in Nat
    BY SMTT(30), <1>1
<1>8. \A i \in DOMAIN r.heard : r.heard[i] \in Nat
    BY SMTT(30), <1>1
<1>6. \A x \in Queued : x.m \in Nat
    BY Zenon DEF Queued
<1>7. \A x \in Posted : x.m \in Nat
    BY Zenon DEF Posted
<1> QED
    BY Zenon, <1>1, <1>2, <1>3, <1>4, <1>5, <1>6, <1>7, <1>8

\* Sequences that gain an element at the end, or lose one at the front.
Gains(s, t, x) ==
    LET n == Len(s) + 1 IN
    /\ n \in Nat /\ n \in DOMAIN t /\ t[n] = x
    /\ \A i \in DOMAIN t : i # n => i \in DOMAIN s /\ t[i] = s[i]
    /\ \A i \in DOMAIN s : i \in Nat /\ i < n /\ ~(n < i)

Loses(s, t, x) ==
    /\ 1 \in DOMAIN s /\ s[1] = x
    /\ \A i \in DOMAIN t : i \in Nat /\ i + 1 \in DOMAIN s /\ t[i] = s[i + 1] /\ 1 < i + 1
    /\ \A i, j \in DOMAIN t : i < j => i + 1 < j + 1

\* Append and Tail do this.
LEMMA AppendGains ==
    ASSUME NEW S, NEW s \in Seq(S), NEW x
    PROVE  Gains(s, Append(s, x), x) /\ Gains(s, s \o <<x>>, x)
    BY SMTT(30) DEF Gains

\* Taking the head off a sequence loses its first element.
LEMMA TailLoses ==
    ASSUME NEW S, NEW s \in Seq(S), s # <<>>
    PROVE  Loses(s, Tail(s), Head(s))
    BY SMTT(30) DEF Loses

\* A step of the line.
Goes(r, q) == q \in Peer /\ PipeOK(q) /\ Narrows(r, q)

\* A message waits in the queue only behind one on deck.
Fronted(r) == r.deck = NoMsg => r.queue = <<>>

\* The line, when a handler is not between a message that is done and the next.
Piped(r) == r \in Peer /\ PipeOK(r) /\ (r.worker # "sent" => Fronted(r))

\* The second invariant.
PipeInv == \A d \in Ends : Piped(oob[d])

=============================================================================

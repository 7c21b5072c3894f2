---------------------------- MODULE TcpStepProofs ----------------------------
(***************************************************************************)
(* The kinds of step one end may take on a socket (drop, dial, greet,      *)
(* answer, take, refuse, accept, write, read) and the network's break:     *)
(* each leaves the two ends a pair.                                        *)
(***************************************************************************)
EXTENDS TcpFlowProofs

\* Daemon d gives up the socket it has.
LEMMA Drops ==
    ASSUME NEW d \in Ends, NEW r, NEW e, NEW ss, Pair(d, r, e, ss), NEW q,
           Steps(d, ss, q, Shut(ss, r.sd, d)), Piped(q), Narrows(r, q),
           q.sd = NoSocket, q.main = r.main, ~q.established, q.recv = NoMsg, q.heard = r.heard,
           q.state # "connected", q.half => r.half /\ q.deck = r.deck,
           \/ q.worker = "lift"
           \/ ~r.established /\ q.half = r.half /\ q.worker = r.worker
    PROVE  Pair(d, q, e, Shut(ss, r.sd, d))
<1> DEFINE f  == Far(d)
           tt == Shut(ss, r.sd, d)
<1>0. /\ r \in Peer /\ e \in Peer /\ ss \in Seq(Sock) /\ SocketsTell(ss)
      /\ HoldsSockets(r, d, ss) /\ HoldsSockets(e, f, ss)
      /\ f \in Ends /\ f # d /\ Far(f) = d
    BY Zenon, PairTypes
<1>1. Side(d, r, e, ss) /\ Side(f, e, r, ss) /\ Piped(e) /\ Piped(r)
    BY Zenon DEF Pair
<1>2. DOMAIN tt = DOMAIN ss
      /\ \A s \in DOMAIN ss : /\ s # NoSocket
                              /\ tt[s].by = ss[s].by /\ tt[s].taken = ss[s].taken /\ tt[s].broken = ss[s].broken
                              /\ tt[s].open[f] = ss[s].open[f] /\ tt[s].buf[f] = ss[s].buf[f]
                              /\ (tt[s].buf[d] = ss[s].buf[d] \/ tt[s].buf[d] = <<>>)
                              /\ (tt[s].open[d] => ss[s].open[d] /\ s # r.sd)
  <2>1. CASE r.sd = NoSocket
      BY SMTT(30), <1>0, <2>1 DEF Shut, NoSocket
  <2>2. CASE r.sd # NoSocket
    <3>1. r.sd \in DOMAIN ss
        BY Zenon, <1>0, <2>2 DEF HoldsSockets
    <3>2. Closes(ss, tt, r.sd, d)
        BY Zenon, <1>0, <3>1, ShutEffect
    <3>3. \A s \in DOMAIN ss : s # NoSocket
        BY SMTT(30), <1>0 DEF NoSocket
    <3> QED
        BY Zenon, <3>1, <3>2, <3>3 DEF Closes
  <2> QED
      BY Zenon, <2>1, <2>2
<1> HIDE DEF tt
<1>3. Phases(q, d, tt)
  <2>1. q.half /\ q.worker # "lift" => q.established
      BY Zenon, <1>1 DEF Side, Phases
  <2>2. q.half => q.deck # NoMsg
      BY ZenonT(30), <1>1 DEF Side, Phases
  <2> QED
      BY Zenon, <2>1, <2>2 DEF Phases
<1>4. Shakes(d, q, e, tt)
    BY SMTT(30), <1>1, <1>2 DEF Side, Shakes, Shake
<1>5. DataOnly(q, d, tt)
    BY Zenon DEF DataOnly
<1>6. Inbox(q, d, tt) = <<>> /\ Inbox(e, f, tt) = Inbox(e, f, ss)
    BY Zenon, <1>0, <1>2 DEF Inbox, HoldsSockets
<1>7. Flow(e, q, <<>>)
  <2>1. <<>> \in Seq(Frames) /\ \A i \in DOMAIN <<>> : FALSE
      BY SMTT(30)
  <2>2. \A i \in DOMAIN <<>> : ~IsData(<<>>[i])
      BY Zenon, <2>1
  <2> QED
      BY Zenon, <1>0, <1>1, <2>1, <2>2, FlowClear DEF Side
<1>8. Halves(d, q, e, tt)
  <2>1. ~Again(e, q, <<>>)
      BY SMTT(30) DEF Again
  <2>2. ASSUME e.half, e.worker # "lift", tt[e.sd].open[d], ~tt[e.sd].broken PROVE FALSE
    <3>1. e.sd # NoSocket /\ e.sd \in DOMAIN ss
        BY Zenon, <1>0, <1>1, <2>2 DEF Side, Phases, HoldsSockets
    <3> QED
        BY Zenon, <1>0, <1>1, <1>2, <2>2, <3>1 DEF Side, Halves
  <2> QED
      BY Zenon, <1>6, <2>1, <2>2 DEF Halves
<1>9. Side(d, q, e, tt)
    BY Zenon, <1>3, <1>4, <1>5, <1>6, <1>7, <1>8 DEF Side
<1>10. Phases(e, f, tt)
    BY ZenonT(30), <1>0, <1>1, <1>2 DEF Side, Phases, HoldsSockets
<1>11. Shakes(f, e, q, tt)
  <2> SUFFICES ASSUME NEW s \in DOMAIN tt, tt[s].by = f
               PROVE  Shake(tt[s], f, e, q, s)
      BY Zenon DEF Shakes
  <2>1. Shake(ss[s], f, e, r, s)
      BY ZenonT(30), <1>1, <1>2 DEF Side, Shakes
  <2>2. IdentOnly(<<>>)
      BY Zenon, Idents
  <2> QED
      BY SMTT(30), <1>0, <1>2, <2>1, <2>2 DEF Shake
<1>12. DataOnly(e, f, tt)
    BY Zenon, <1>0, <1>1, <1>2 DEF Side, DataOnly, Phases, HoldsSockets
<1>13. Flow(q, e, Inbox(e, f, tt))
    BY Zenon, <1>1, <1>6, FlowSender DEF Side
<1>14. Halves(f, e, q, tt)
  <2> DEFINE B == Inbox(e, f, ss)
  <2>1. ASSUME Again(q, e, B), ~q.half, q.worker # "lift" PROVE FALSE
    <3>1. Again(r, e, B)
      <4>1. e.recv \in Nat /\ q.deck \in Nat /\ \A i \in DOMAIN B : B[i].m \in Nat
          BY Zenon, <1>0, PairTypes, FrameTypes, Numbers DEF Piped
      <4> QED
          BY Zenon, <1>0, <1>1, <2>1, <4>1, AgainBack DEF Side
    <3> QED
        BY Zenon, <1>0, <1>1, <2>1, <3>1 DEF Side, Halves
  <2>2. ASSUME q.half, q.worker # "lift" PROVE FALSE
      BY Zenon, <1>1, <2>2 DEF Side, Phases
  <2> QED
      BY Zenon, <1>6, <2>1, <2>2 DEF Halves
<1>15. Side(f, e, q, tt)
    BY Zenon, <1>10, <1>11, <1>12, <1>13, <1>14 DEF Side
<1> QED
    BY SMTT(30), <1>9, <1>15, PairStep DEF tt

\* Daemon d dials the other.
LEMMA Dials ==
    ASSUME NEW d \in Ends, NEW r, NEW e, NEW ss, Pair(d, r, e, ss), NEW q,
           Steps(d, ss, q, Append(ss, NewSock(d))), Piped(q), Narrows(r, q),
           r.sd = NoSocket, r.main = NoSocket, q.main = NoSocket, q.sd = Len(ss) + 1,
           q.state = "connecting", q.established = r.established, ~r.established,
           q.recv = r.recv, q.heard = r.heard, q.half = r.half, q.deck = r.deck, q.worker = r.worker
    PROVE  Pair(d, q, e, Append(ss, NewSock(d)))
<1> DEFINE f  == Far(d)
           tt == Append(ss, NewSock(d))
           n  == Len(ss) + 1
<1>0. /\ r \in Peer /\ e \in Peer /\ ss \in Seq(Sock) /\ SocketsTell(ss)
      /\ HoldsSockets(r, d, ss) /\ HoldsSockets(e, f, ss)
      /\ f \in Ends /\ f # d /\ Far(f) = d
    BY Zenon, PairTypes
<1>1. Side(d, r, e, ss) /\ Side(f, e, r, ss) /\ Piped(e) /\ Piped(r)
    BY Zenon DEF Pair
<1>2. /\ n # NoSocket /\ n \notin DOMAIN ss
      /\ \A k \in DOMAIN ss : tt[k] = ss[k] /\ k # n /\ k # NoSocket
      /\ \A k \in DOMAIN tt : k \in DOMAIN ss \/ k = n
      /\ tt[n].by = d /\ ~tt[n].taken /\ ~tt[n].broken
      /\ \A g \in Ends : tt[n].buf[g] = <<>>
  <2>1. DOMAIN ss = 1 .. Len(ss) /\ Len(ss) \in Nat
      BY SMTT(30), <1>0
  <2> QED
      BY SMTT(30), <1>0, <2>1, DialEffect DEF NoSocket
<1>3. q.sd = n /\ e.sd # n /\ e.main # n
    BY SMTT(30), <1>0, <1>2 DEF HoldsSockets
<1> HIDE DEF tt, n
<1>4. Phases(q, d, tt)
    BY Zenon, <1>1, <1>2, <1>3 DEF Side, Phases
<1>5. Shakes(d, q, e, tt)
  <2> SUFFICES ASSUME NEW s \in DOMAIN tt, tt[s].by = d
               PROVE  Shake(tt[s], d, q, e, s)
      BY Zenon DEF Shakes
  <2>1. CASE s = n
    <3>1. tt[s].buf[d] = <<>> /\ tt[s].buf[f] = <<>>
        BY Zenon, <1>0, <1>2, <2>1
    <3>2. Opening(<<>>) /\ IdentOnly(<<>>)
        BY Zenon, Idents
    <3> QED
        BY Zenon, <1>2, <1>3, <2>1, <3>1, <3>2 DEF Shake
  <2>2. CASE s \in DOMAIN ss
    <3>1. Shake(ss[s], d, r, e, s)
        BY Zenon, <1>1, <1>2, <2>2 DEF Side, Shakes
    <3> QED
        BY Zenon, <1>2, <1>3, <2>2, <3>1 DEF Shake
  <2> QED
      BY Zenon, <1>2, <2>1, <2>2
<1>6. DataOnly(q, d, tt)
    BY Zenon DEF DataOnly
<1>7. Inbox(q, d, tt) = <<>> /\ Inbox(r, d, ss) = <<>> /\ Inbox(e, f, tt) = Inbox(e, f, ss)
    BY ZenonT(30), <1>0, <1>2, <1>3 DEF Inbox, HoldsSockets
<1>8. Flow(e, q, <<>>)
    BY Zenon, <1>1, <1>7, FlowSame DEF Side
<1>9. Halves(d, q, e, tt)
  <2>1. Again(e, q, <<>>) /\ ~e.half =>
           e.worker = "lift" \/ (e.established /\ ~tt[e.sd].open[d])
      BY SMTT(30), <1>0, <1>1, <1>2, <1>7 DEF Side, Halves, Again, Phases, HoldsSockets
  <2>2. ASSUME e.half, e.worker # "lift", tt[e.sd].open[d], ~tt[e.sd].broken PROVE FALSE
    <3>1. e.sd # NoSocket /\ e.sd \in DOMAIN ss
        BY Zenon, <1>0, <1>1, <2>2 DEF Side, Phases, HoldsSockets
    <3> QED
        BY Zenon, <1>0, <1>1, <1>2, <2>2, <3>1 DEF Side, Halves
  <2> QED
      BY ZenonT(30), <1>7, <2>1, <2>2 DEF Halves
<1>10. Side(d, q, e, tt)
    BY Zenon, <1>4, <1>5, <1>6, <1>7, <1>8, <1>9 DEF Side
<1>11. Phases(e, f, tt)
    BY ZenonT(60), <1>0, <1>1, <1>2 DEF Side, Phases, HoldsSockets
<1>12. Shakes(f, e, q, tt)
  <2> SUFFICES ASSUME NEW s \in DOMAIN tt, tt[s].by = f
               PROVE  Shake(tt[s], f, e, q, s)
      BY Zenon DEF Shakes
  <2>1. s \in DOMAIN ss /\ tt[s] = ss[s] /\ s # n /\ s # NoSocket
      BY Zenon, <1>0, <1>2
  <2>2. Shake(ss[s], f, e, r, s)
      BY Zenon, <1>1, <2>1 DEF Side, Shakes
  <2> QED
      BY Zenon, <1>0, <1>3, <2>1, <2>2 DEF Shake
<1>13. DataOnly(e, f, tt)
    BY Zenon, <1>0, <1>1, <1>2 DEF Side, DataOnly, Phases, HoldsSockets
<1>14. Flow(q, e, Inbox(e, f, tt))
    BY Zenon, <1>1, <1>7, FlowSender DEF Side
<1>15. Halves(f, e, q, tt)
    BY Zenon, <1>0, <1>1, <1>7 DEF Side, Halves, Again, Phases
<1>16. Side(f, e, q, tt)
    BY ZenonT(30), <1>11, <1>12, <1>13, <1>14, <1>15 DEF Side
<1> QED
    BY Zenon, <1>10, <1>16, PairStep DEF tt

\* The dialled connection is up: daemon d sends its ident.
LEMMA Greets ==
    ASSUME NEW d \in Ends, NEW r, NEW e, NEW ss, Pair(d, r, e, ss), NEW q,
           Steps(d, ss, q, Written(ss, r.sd, d, <<Frame("ident", NoMsg)>>)), Piped(q), Narrows(r, q),
           r.state = "connecting", r.sd # NoSocket, r.main = NoSocket, ~r.established,
           q.state = "connect_ack", q.sd = r.sd, q.main = NoSocket, ~q.established,
           q.recv = r.recv, q.heard = r.heard, q.half = r.half, q.deck = r.deck, q.worker = r.worker
    PROVE  Pair(d, q, e, Written(ss, r.sd, d, <<Frame("ident", NoMsg)>>))
<1> DEFINE f  == Far(d)
           s  == r.sd
           id == Frame("ident", NoMsg)
           tt == Written(ss, s, d, <<id>>)
<1>0. /\ r \in Peer /\ e \in Peer /\ ss \in Seq(Sock) /\ SocketsTell(ss)
      /\ HoldsSockets(r, d, ss) /\ HoldsSockets(e, f, ss)
      /\ f \in Ends /\ f # d /\ Far(f) = d
    BY Zenon, PairTypes
<1>1. Side(d, r, e, ss) /\ Side(f, e, r, ss) /\ Piped(e) /\ Piped(r)
    BY Zenon DEF Pair
<1>2. s \in DOMAIN ss /\ ss[s].by = d
    BY Zenon, <1>0, <1>1 DEF HoldsSockets, Side, Phases
<1>3. Shake(ss[s], d, r, e, s)
    BY Zenon, <1>1, <1>2 DEF Side, Shakes
<1>4. ss[s].buf[f] = <<>> /\ ss[s].buf[d] = <<>> /\ e.sd # s /\ e.main # s
    BY Zenon, <1>3 DEF Shake
<1>5. <<id>> \in Seq(Frames) /\ IdentOnly(<<>> \o <<id>>) /\ IdentOnly(<<>>) /\ Opening(<<>>)
  <2>1. id \in Frames
      BY Zenon DEF Frame, Frames, NoMsg
  <2> QED
      BY SMTT(30), <2>1, Idents
<1>6. /\ DOMAIN tt = DOMAIN ss
      /\ \A k \in DOMAIN ss \ {s} : tt[k] = ss[k]
      /\ tt[s].by = d /\ tt[s].taken = ss[s].taken /\ tt[s].broken = ss[s].broken
      /\ tt[s].open = ss[s].open /\ tt[s].buf[d] = <<>>
      /\ IdentOnly(tt[s].buf[f])
      /\ ss[s].taken => tt[s].buf[f] = <<>>
  <2>1. BufIs(ss, tt, s, f, IF Reaches(ss, s, d) THEN ss[s].buf[f] \o <<id>> ELSE ss[s].buf[f])
      BY Zenon, <1>0, <1>2, <1>5, WrittenEffect
  <2>2. ss[s].taken => ~Reaches(ss, s, d)
      BY Zenon, <1>0, <1>2, <1>4 DEF Reaches, HoldsSockets
  <2> HIDE DEF id, tt
  <2> QED
      BY ZenonT(60), <1>0, <1>2, <1>4, <1>5, <2>1, <2>2 DEF BufIs
<1> HIDE DEF tt, s, id
<1>a. q.sd = s /\ r.sd = s
    BY Zenon DEF s
<1>8. Phases(q, d, tt)
    BY Zenon, <1>1, <1>6, <1>a DEF Side, Phases
<1>9. Shakes(d, q, e, tt)
  <2> SUFFICES ASSUME NEW k \in DOMAIN tt, tt[k].by = d
               PROVE  Shake(tt[k], d, q, e, k)
      BY Zenon DEF Shakes
  <2>1. CASE k = s
      BY Zenon, <1>0, <1>4, <1>5, <1>6, <1>a, <2>1 DEF Shake
  <2>2. CASE k # s
    <3>1. Shake(ss[k], d, r, e, k)
        BY Zenon, <1>1, <1>6, <2>2 DEF Side, Shakes
    <3> QED
        BY Zenon, <1>6, <1>a, <2>2, <3>1 DEF Shake
  <2> QED
      BY Zenon, <2>1, <2>2
<1>10. DataOnly(q, d, tt)
    BY ZenonT(30) DEF DataOnly
<1>11. Inbox(q, d, tt) = Inbox(r, d, ss) /\ Inbox(e, f, tt) = Inbox(e, f, ss)
    BY SMTT(30), <1>0, <1>4, <1>6, <1>a DEF Inbox, HoldsSockets
<1>12. Flow(e, q, Inbox(q, d, tt))
    BY Zenon, <1>1, <1>11, FlowSame DEF Side
<1>13. e.established => tt[e.sd] = ss[e.sd]
    BY Zenon, <1>0, <1>1, <1>4, <1>6 DEF Side, Phases, HoldsSockets
<1>14. Halves(d, q, e, tt)
    BY ZenonT(60), <1>1, <1>11, <1>13 DEF Side, Halves, Again, Halfway, Phases
<1>15. Side(d, q, e, tt)
    BY Zenon, <1>8, <1>9, <1>10, <1>12, <1>14 DEF Side
<1>16. Phases(e, f, tt)
    BY SMTT(30), <1>0, <1>1, <1>4, <1>6 DEF Side, Phases, HoldsSockets
<1>17. Shakes(f, e, q, tt)
  <2> SUFFICES ASSUME NEW k \in DOMAIN tt, tt[k].by = f
               PROVE  Shake(tt[k], f, e, q, k)
      BY Zenon DEF Shakes
  <2>1. k \in DOMAIN ss /\ tt[k] = ss[k]
      BY Zenon, <1>0, <1>6
  <2>2. Shake(ss[k], f, e, r, k)
      BY Zenon, <1>1, <2>1 DEF Side, Shakes
  <2> QED
      BY Zenon, <1>a, <2>1, <2>2 DEF Shake
<1>18. DataOnly(e, f, tt)
    BY Zenon, <1>1, <1>13 DEF Side, DataOnly
<1>19. Flow(q, e, Inbox(e, f, tt))
    BY Zenon, <1>1, <1>11, FlowSender DEF Side
<1>20. Halves(f, e, q, tt)
    BY Zenon, <1>0, <1>1, <1>11 DEF Side, Halves, Again, Phases
<1>21. Side(f, e, q, tt)
    BY Zenon, <1>16, <1>17, <1>18, <1>19, <1>20 DEF Side
<1> QED
    BY SMTT(30), <1>15, <1>21, PairStep DEF tt, s, id

\* Daemon d reads the answer to its ident: it is connected.
LEMMA IsAnswered ==
    ASSUME NEW d \in Ends, NEW r, NEW e, NEW ss, Pair(d, r, e, ss), NEW q, NEW tt, NEW C \in Seq(Frames),
           NEW g, BufIs(ss, tt, r.sd, d, C), Sheds(ss[r.sd].buf[d], C, g),
           Steps(d, ss, q, tt), Piped(q), Narrows(r, q),
           r.sd # NoSocket, r.state = "connect_ack", ~r.established, r.main = NoSocket,
           q.sd = r.sd, q.main = NoSocket, q.established, q.state = "connected",
           q.recv = r.recv, q.heard = r.heard, q.half = r.half, q.half => q.deck = r.deck,
           q.worker = r.worker
    PROVE  Pair(d, q, e, tt)
<1> DEFINE f == Far(d)
           s == r.sd
           B == ss[s].buf[d]
<1>t. r \in Peer /\ e \in Peer /\ ss \in Seq(Sock) /\ f \in Ends
    BY Zenon, PairTypes
<1>0. HoldsSockets(r, d, ss) /\ HoldsSockets(e, f, ss) /\ f # d /\ Far(f) = d
    BY Zenon, PairTypes
<1>1. Side(d, r, e, ss) /\ Side(f, e, r, ss) /\ Piped(e) /\ Piped(r)
    BY Zenon DEF Pair
<1>2. s \in DOMAIN ss /\ ss[s].by = d
    BY Zenon, <1>0, <1>1 DEF HoldsSockets, Side, Phases
<1>3. Shake(ss[s], d, r, e, s)
    BY Zenon, <1>1, <1>2 DEF Side, Shakes
<1>4. B # <<>> /\ Opening(B) /\ B \in Seq(Frames)
  <2>1. B \in Seq(Frames)
      BY Zenon, <1>t, <1>2, BufType
  <2> QED
      BY Zenon, <1>3, <2>1 DEF Shake, Sheds
<1>5. ss[s].taken /\ e.main # s
    BY Zenon, <1>3, <1>4 DEF Shake
<1>6. /\ DOMAIN tt = DOMAIN ss
      /\ \A k \in DOMAIN ss \ {s} : tt[k] = ss[k]
      /\ tt[s].by = d /\ tt[s].taken /\ tt[s].broken = ss[s].broken
      /\ tt[s].open = ss[s].open /\ tt[s].buf[d] = C /\ tt[s].buf[f] = ss[s].buf[f]
    BY Zenon, <1>2, <1>5 DEF BufIs
<1>7. ~IsData(g) /\ B[1] = g /\ \A i \in DOMAIN C : IsData(C[i])
  <2>1. B[1] = g /\ 1 \in DOMAIN B /\ \A i \in DOMAIN C : i + 1 \in DOMAIN B /\ C[i] = B[i + 1] /\ i + 1 # 1
      BY SMTT(30), <1>4 DEF Sheds, Loses
  <2> QED
      BY ZenonT(30), <1>4, <2>1 DEF Opening
<1>a. q.sd = s /\ r.sd = s /\ Sheds(B, C, g)
    BY ZenonT(30)
<1>b. Inbox(r, d, ss) = B /\ Inbox(q, d, tt) = C /\ Inbox(e, f, tt) = Inbox(e, f, ss)
    BY SMTT(30), <1>0, <1>6 DEF Inbox, HoldsSockets
<1> HIDE DEF s, B
<1>c. e.sd # NoSocket =>
          /\ tt[e.sd].by = ss[e.sd].by /\ tt[e.sd].buf[f] = ss[e.sd].buf[f]
          /\ tt[e.sd].open = ss[e.sd].open /\ tt[e.sd].broken = ss[e.sd].broken
  <2>1. e.sd # NoSocket => e.sd \in DOMAIN ss
      BY Zenon, <1>0 DEF HoldsSockets
  <2> QED
      BY ZenonT(60), <1>2, <1>6, <2>1
<1>8. Phases(q, d, tt)
    BY Zenon, <1>1, <1>6, <1>a DEF Side, Phases
<1>9. Shakes(d, q, e, tt)
  <2> SUFFICES ASSUME NEW k \in DOMAIN tt, tt[k].by = d
               PROVE  Shake(tt[k], d, q, e, k)
      BY Zenon DEF Shakes
  <2>1. CASE k = s
      BY Zenon, <1>5, <1>6, <1>a, <2>1 DEF Shake
  <2>2. CASE k # s
    <3>1. tt[k] = ss[k] /\ Shake(ss[k], d, r, e, k)
        BY ZenonT(60), <1>1, <1>6, <2>2 DEF Side, Shakes
    <3> QED
        BY Zenon, <1>a, <2>2, <3>1 DEF Shake
  <2> QED
      BY Zenon, <2>1, <2>2
<1>10. DataOnly(q, d, tt)
    BY Zenon, <1>6, <1>7, <1>a DEF DataOnly
<1>11. Flow(e, q, C)
    BY Zenon, <1>1, <1>4, <1>7, <1>a, <1>b, FlowIdent DEF Side
<1>12. Halves(d, q, e, tt)
  <2>1. Again(e, q, C) => Again(e, r, B)
      BY SMTT(30), <1>a DEF Again, Sheds, Loses
  <2>2. e.established => tt[e.sd].open = ss[e.sd].open /\ tt[e.sd].broken = ss[e.sd].broken
      BY Zenon, <1>1, <1>c DEF Side, Phases
  <2>3. Halfway(e, r, B) => Halfway(e, q, C)
    <3>1. Len(B) = Len(C) + 1 /\ Len(C) \in Nat /\ (Len(C) = 0 => C = <<>>) /\ B # <<>> /\ B[1] = g
        BY Zenon, <1>7, <1>a DEF Sheds
    <3>2. ~IsHead(g)
        BY Zenon, <1>7 DEF IsHead, IsData
    <3>3. Len(C) # 0 => Len(C) \in DOMAIN C /\ C # <<>>
        BY SMTT(30), <3>1
    <3>4. Len(C) # 0 => C[Len(C)] = B[Len(B)]
        BY Zenon, <1>a, <3>1, <3>3 DEF Sheds, Loses
    <3> QED
        BY SMTT(30), <3>1, <3>2, <3>3, <3>4 DEF Halfway
  <2> QED
      BY ZenonT(30), <1>1, <1>a, <1>b, <2>1, <2>2, <2>3 DEF Side, Halves, Phases
<1>13. Side(d, q, e, tt)
    BY Zenon, <1>8, <1>9, <1>10, <1>11, <1>12, <1>b DEF Side
<1>14. Phases(e, f, tt)
    BY Zenon, <1>1, <1>c DEF Side, Phases
<1>15. Shakes(f, e, q, tt)
  <2> SUFFICES ASSUME NEW k \in DOMAIN tt, tt[k].by = f
               PROVE  Shake(tt[k], f, e, q, k)
      BY Zenon DEF Shakes
  <2>1. tt[k] = ss[k] /\ Shake(ss[k], f, e, r, k)
      BY ZenonT(60), <1>0, <1>1, <1>6 DEF Side, Shakes
  <2> QED
      BY Zenon, <1>a, <2>1 DEF Shake
<1>16. DataOnly(e, f, tt)
    BY Zenon, <1>1, <1>c DEF Side, DataOnly, Phases
<1>17. Flow(q, e, Inbox(e, f, tt))
    BY Zenon, <1>1, <1>b, FlowSender DEF Side
<1>18. Halves(f, e, q, tt)
  <2> DEFINE D == Inbox(e, f, ss)
  <2>1. ASSUME Again(q, e, D), ~q.half PROVE q.worker = "lift"
    <3>1. Again(r, e, D)
      <4>1. e.recv \in Nat /\ q.deck \in Nat /\ \A i \in DOMAIN D : D[i].m \in Nat
          BY Zenon, <1>t, PairTypes, FrameTypes, Numbers DEF Piped
      <4> QED
          BY Zenon, <1>1, <2>1, <4>1, AgainBack DEF Side
    <3> QED
        BY Zenon, <1>1, <2>1, <3>1 DEF Side, Halves
  <2>2. ~(q.half /\ q.worker # "lift")
      BY Zenon, <1>1 DEF Side, Phases
  <2> QED
      BY Zenon, <1>b, <2>1, <2>2 DEF Halves
<1>19. Side(f, e, q, tt)
    BY Zenon, <1>14, <1>15, <1>16, <1>17, <1>18 DEF Side
<1> QED
    BY Zenon, <1>13, <1>19, PairStep

\* Socket s, on which daemon d was called, is closed at its end; it may have sent
\* the nack first.
Refuses(ss, tt, s, d) ==
    /\ DOMAIN tt = DOMAIN ss
    /\ \A k \in DOMAIN ss \ {s} : tt[k] = ss[k]
    /\ tt[s].by = ss[s].by /\ tt[s].taken /\ tt[s].broken = ss[s].broken
    /\ ~tt[s].open[d] /\ tt[s].open[Far(d)] = ss[s].open[Far(d)] /\ tt[s].buf[d] = <<>>
    /\ \/ tt[s].buf[Far(d)] = ss[s].buf[Far(d)]
       \/ ss[s].buf[d] # <<>> /\ tt[s].buf[Far(d)] = ss[s].buf[Far(d)] \o <<Frame("nack", NoMsg)>>

\* A socket that was called on is taken, answered by a refusal and closed.
LEMMA IsRefused ==
    ASSUME NEW d \in Ends, NEW r, NEW e, NEW ss, Pair(d, r, e, ss), NEW tt,
           NEW s \in DOMAIN ss, ss[s].by = Far(d), ~ss[s].taken, Refuses(ss, tt, s, d),
           Steps(d, ss, r, tt)
    PROVE  Pair(d, r, e, tt)
<1> DEFINE f == Far(d)
<1>t. r \in Peer /\ e \in Peer /\ ss \in Seq(Sock) /\ f \in Ends /\ tt \in Seq(Sock)
    BY Zenon, PairTypes DEF Steps, Moves
<1>0. HoldsSockets(r, d, ss) /\ HoldsSockets(e, f, ss) /\ f # d /\ Far(f) = d
    BY Zenon, PairTypes
<1>1. Side(d, r, e, ss) /\ Side(f, e, r, ss) /\ Piped(e) /\ Piped(r)
    BY Zenon DEF Pair
<1>2. s # r.sd /\ s # r.main /\ s # NoSocket
    BY SMTT(30), <1>t, <1>0 DEF HoldsSockets, NoSocket
<1>3. Shake(ss[s], f, e, r, s)
    BY Zenon, <1>1 DEF Side, Shakes
<1>4. ss[s].buf[f] = <<>> /\ (e.sd = s => ~e.established)
    BY Zenon, <1>0, <1>3 DEF Shake
<1>n. LET b == <<>> \o <<Frame("nack", NoMsg)>> IN
      Opening(<<>>) /\ Opening(b) /\ b # <<>> /\ \A i \in DOMAIN b : ~IsData(b[i])
    BY Zenon, Idents
<1>5. /\ DOMAIN tt = DOMAIN ss
      /\ \A k \in DOMAIN ss \ {s} : tt[k] = ss[k]
      /\ tt[s].by = f /\ tt[s].taken /\ tt[s].broken = ss[s].broken
      /\ ~tt[s].open[d] /\ tt[s].open[f] = ss[s].open[f] /\ tt[s].buf[d] = <<>>
      /\ Opening(tt[s].buf[f])
      /\ \A i \in DOMAIN tt[s].buf[f] : ~IsData(tt[s].buf[f][i])
      /\ tt[s].buf[f] # <<>> => ss[s].buf[d] # <<>>
    BY SMTT(30), <1>4, <1>n DEF Refuses
<1>6. tt[r.sd] = ss[r.sd] \/ r.sd = NoSocket
    BY Zenon, <1>0, <1>2, <1>5 DEF HoldsSockets
<1>7. e.sd # NoSocket =>
          /\ tt[e.sd].by = ss[e.sd].by
          /\ (e.established => tt[e.sd].buf[f] = ss[e.sd].buf[f])
          /\ tt[e.sd].open[f] = ss[e.sd].open[f] /\ tt[e.sd].broken = ss[e.sd].broken
          /\ (tt[e.sd].open[d] => ss[e.sd].open[d])
  <2>1. e.sd # NoSocket => e.sd \in DOMAIN ss
      BY Zenon, <1>0 DEF HoldsSockets
  <2> QED
      BY Zenon, <1>4, <1>5, <2>1
<1>8. Phases(r, d, tt)
    BY Zenon, <1>1, <1>6 DEF Side, Phases
<1>9. Shakes(d, r, e, tt)
  <2> SUFFICES ASSUME NEW k \in DOMAIN tt, tt[k].by = d
               PROVE  Shake(tt[k], d, r, e, k)
      BY Zenon DEF Shakes
  <2>1. tt[k] = ss[k]
      BY Zenon, <1>0, <1>5
  <2> QED
      BY Zenon, <1>1, <1>5, <2>1 DEF Side, Shakes
<1>10. DataOnly(r, d, tt)
    BY Zenon, <1>1, <1>6 DEF Side, DataOnly, Phases
<1>11. Inbox(r, d, tt) = Inbox(r, d, ss)
    BY Zenon, <1>6 DEF Inbox
<1>12. Halves(d, r, e, tt)
    BY Zenon, <1>1, <1>7, <1>11 DEF Side, Halves, Phases
<1>13. Side(d, r, e, tt)
    BY Zenon, <1>1, <1>8, <1>9, <1>10, <1>11, <1>12 DEF Side
<1>14. Phases(e, f, tt)
    BY Zenon, <1>1, <1>7 DEF Side, Phases
<1>15. Shakes(f, e, r, tt)
  <2> SUFFICES ASSUME NEW k \in DOMAIN tt, tt[k].by = f
               PROVE  Shake(tt[k], f, e, r, k)
      BY Zenon DEF Shakes
  <2>1. CASE k = s
    <3>1. e.sd = s /\ ~e.established /\ e.state = "connecting" => ss[s].buf[d] = <<>>
        BY Zenon, <1>0, <1>3 DEF Shake
    <3> QED
        BY Zenon, <1>0, <1>2, <1>5, <2>1, <3>1 DEF Shake
  <2>2. CASE k # s
    <3>1. tt[k] = ss[k]
        BY Zenon, <1>5, <2>2
    <3> QED
        BY Zenon, <1>1, <1>5, <3>1 DEF Side, Shakes
  <2> QED
      BY Zenon, <2>1, <2>2
<1>16. DataOnly(e, f, tt)
    BY Zenon, <1>1, <1>7 DEF Side, DataOnly, Phases
<1>17. CASE e.sd # s
  <2>1. Inbox(e, f, tt) = Inbox(e, f, ss)
    <3>1. e.sd # NoSocket => tt[e.sd] = ss[e.sd]
        BY Zenon, <1>0, <1>5, <1>17 DEF HoldsSockets
    <3> QED
        BY Zenon, <3>1 DEF Inbox
  <2>2. Flow(r, e, Inbox(e, f, tt))
      BY Zenon, <1>1, <2>1 DEF Side
  <2>3. Halves(f, e, r, tt)
      BY Zenon, <1>1, <1>6, <2>1 DEF Side, Halves, Phases
  <2>4. Side(f, e, r, tt)
      BY Zenon, <1>14, <1>15, <1>16, <2>2, <2>3 DEF Side
  <2> QED
      BY Zenon, <1>1, <1>13, <2>4, PairStep
<1>18. CASE e.sd = s
  <2> DEFINE C == tt[s].buf[f]
  <2>1. Inbox(e, f, tt) = C /\ C \in Seq(Frames) /\ e.recv = NoMsg
      BY Zenon, <1>t, <1>1, <1>2, <1>4, <1>5, <1>18, BufType DEF Inbox, Side, Phases
  <2>2. \A i \in DOMAIN C : ~IsData(C[i])
      BY Zenon, <1>5
  <2> HIDE DEF C
  <2>3. Flow(r, e, C)
      BY Zenon, <1>t, <1>1, <2>1, <2>2, FlowClear DEF Side
  <2>4. ~Again(r, e, C)
      BY Zenon, <2>1, <2>2 DEF Again, IsData, IsHead
  <2>5. ~(r.half /\ r.worker # "lift" /\ tt[r.sd].open[f] /\ ~tt[r.sd].broken)
      BY Zenon, <1>1, <1>2, <1>6, <1>18 DEF Side, Halves, Phases
  <2>6. Halves(f, e, r, tt)
      BY Zenon, <2>1, <2>4, <2>5 DEF Halves
  <2>7. Side(f, e, r, tt)
      BY Zenon, <1>14, <1>15, <1>16, <2>1, <2>3, <2>6 DEF Side
  <2> QED
      BY Zenon, <1>1, <1>13, <2>7, PairStep
<1> QED
    BY Zenon, <1>17, <1>18

\* Daemon d has read the ident on socket s and takes the socket up.
Takes(ss, tt, s, d) ==
    /\ DOMAIN tt = DOMAIN ss
    /\ \A k \in DOMAIN ss \ {s} : tt[k] = ss[k]
    /\ tt[s].by = ss[s].by /\ tt[s].taken /\ tt[s].broken = ss[s].broken
    /\ tt[s].open = ss[s].open /\ ss[s].buf[d] # <<>> /\ tt[s].buf[d] = Tail(ss[s].buf[d])
    /\ tt[s].buf[Far(d)] = ss[s].buf[Far(d)]

\* A socket is taken off the listener, and nothing has come of it yet.
LEMMA Marks ==
    ASSUME NEW d \in Ends, NEW r, NEW e, NEW ss, Pair(d, r, e, ss), NEW tt, NEW q,
           NEW s \in DOMAIN ss, ss[s].by = Far(d), ~ss[s].taken, Takes(ss, tt, s, d),
           Steps(d, ss, q, tt), Piped(q), Narrows(r, q),
           r.main = NoSocket, q.main = s, q.sd = r.sd, q.state = "unconnected",
           q.established = r.established, q.recv = r.recv, q.heard = r.heard,
           q.half = r.half, q.deck = r.deck, q.worker = r.worker
    PROVE  Pair(d, q, e, tt)
<1> DEFINE f == Far(d)
<1>t. r \in Peer /\ e \in Peer /\ ss \in Seq(Sock) /\ f \in Ends /\ tt \in Seq(Sock)
    BY Zenon, PairTypes DEF Steps, Moves
<1>0. HoldsSockets(r, d, ss) /\ HoldsSockets(e, f, ss) /\ f # d /\ Far(f) = d
    BY Zenon, PairTypes
<1>1. Side(d, r, e, ss) /\ Side(f, e, r, ss) /\ Piped(e) /\ Piped(r)
    BY Zenon DEF Pair
<1>2. s # r.sd /\ s # NoSocket
    BY SMTT(30), <1>t, <1>0 DEF HoldsSockets, NoSocket
<1>3. Shake(ss[s], f, e, r, s)
    BY Zenon, <1>1 DEF Side, Shakes
<1>4. /\ ss[s].buf[f] = <<>> /\ (e.sd = s => ~e.established) /\ Tail(ss[s].buf[d]) = <<>>
      /\ ~(e.sd = s /\ ~e.established /\ e.state = "connecting")
  <2>1. IdentOnly(ss[s].buf[d]) /\ ss[s].buf[d] # <<>>
      BY Zenon, <1>0, <1>3 DEF Shake, Takes
  <2> QED
      BY Zenon, <1>0, <1>3, <2>1, Idents DEF Shake
<1>n. Opening(<<>>) /\ IdentOnly(<<>>)
    BY Zenon, Idents
<1>5. /\ DOMAIN tt = DOMAIN ss
      /\ \A k \in DOMAIN ss \ {s} : tt[k] = ss[k]
      /\ tt[s].by = f /\ tt[s].taken /\ tt[s].broken = ss[s].broken
      /\ tt[s].open = ss[s].open /\ tt[s].buf[d] = <<>> /\ tt[s].buf[f] = <<>>
    BY Zenon, <1>4 DEF Takes
<1>6. tt[r.sd] = ss[r.sd] \/ r.sd = NoSocket
    BY Zenon, <1>0, <1>2, <1>5 DEF HoldsSockets
<1>7. e.sd # NoSocket =>
          /\ tt[e.sd].by = ss[e.sd].by /\ tt[e.sd].buf[f] = ss[e.sd].buf[f]
          /\ tt[e.sd].open = ss[e.sd].open /\ tt[e.sd].broken = ss[e.sd].broken
  <2>1. e.sd # NoSocket => e.sd \in DOMAIN ss
      BY Zenon, <1>0 DEF HoldsSockets
  <2> QED
      BY ZenonT(60), <1>4, <1>5, <2>1
<1>8. Phases(q, d, tt)
    BY Zenon, <1>1, <1>2, <1>6 DEF Side, Phases
<1>9. Shakes(d, q, e, tt)
  <2> SUFFICES ASSUME NEW k \in DOMAIN tt, tt[k].by = d
               PROVE  Shake(tt[k], d, q, e, k)
      BY Zenon DEF Shakes
  <2>1. tt[k] = ss[k] /\ Shake(ss[k], d, r, e, k)
      BY Zenon, <1>0, <1>1, <1>5 DEF Side, Shakes
  <2> QED
      BY Zenon, <2>1 DEF Shake
<1>10. DataOnly(q, d, tt)
    BY Zenon, <1>1, <1>6 DEF Side, DataOnly, Phases
<1>11. Inbox(q, d, tt) = Inbox(r, d, ss) /\ Inbox(e, f, tt) = Inbox(e, f, ss)
    BY Zenon, <1>6, <1>7 DEF Inbox
<1>12. Flow(e, q, Inbox(q, d, tt))
    BY Zenon, <1>1, <1>11, FlowSame DEF Side
<1>13. Halves(d, q, e, tt)
    BY ZenonT(60), <1>1, <1>7, <1>11 DEF Side, Halves, Phases, Again, Halfway
<1>14. Side(d, q, e, tt)
    BY Zenon, <1>8, <1>9, <1>10, <1>12, <1>13 DEF Side
<1>15. Phases(e, f, tt)
    BY Zenon, <1>1, <1>7 DEF Side, Phases
<1>16. Shakes(f, e, q, tt)
  <2> SUFFICES ASSUME NEW k \in DOMAIN tt, tt[k].by = f
               PROVE  Shake(tt[k], f, e, q, k)
      BY Zenon DEF Shakes
  <2>1. CASE k = s
      BY Zenon, <1>0, <1>2, <1>4, <1>5, <1>n, <2>1 DEF Shake
  <2>2. CASE k # s
    <3>1. tt[k] = ss[k] /\ Shake(ss[k], f, e, r, k)
        BY ZenonT(60), <1>1, <1>5, <2>2 DEF Side, Shakes
    <3> QED
        BY Zenon, <2>2, <3>1 DEF Shake
  <2> QED
      BY Zenon, <2>1, <2>2
<1>17. DataOnly(e, f, tt)
    BY Zenon, <1>1, <1>7 DEF Side, DataOnly, Phases
<1>18. Flow(q, e, Inbox(e, f, tt))
    BY Zenon, <1>1, <1>11, FlowSender DEF Side
<1>19. Halves(f, e, q, tt)
    BY ZenonT(60), <1>1, <1>6, <1>11 DEF Side, Halves, Phases, Again, Halfway
<1>20. Side(f, e, q, tt)
    BY Zenon, <1>15, <1>16, <1>17, <1>18, <1>19 DEF Side
<1> QED
    BY Zenon, <1>14, <1>20, PairStep

\* Daemon d writes its identification.
Identified(ss, tt, s, d) == tt = Written(ss, s, d, <<Frame("ident", NoMsg)>>)

\* Daemon d accepts the connection it was called on, and answers.
LEMMA Accepts ==
    ASSUME NEW d \in Ends, NEW r, NEW e, NEW ss, Pair(d, r, e, ss), NEW s, NEW tt, NEW q,
           Identified(ss, tt, s, d), ~ss[s].broken,
           Steps(d, ss, q, tt), Piped(q), Narrows(r, q),
           r.main = s, s # NoSocket, r.sd = NoSocket, q.main = NoSocket, q.sd = s,
           q.state = "connected", q.established, q.recv = NoMsg, q.heard = r.heard,
           q.half => r.half /\ q.deck = r.deck /\ q.worker = r.worker
    PROVE  Pair(d, q, e, tt)
<1> DEFINE f == Far(d)
           id == Frame("ident", NoMsg)
<1>t. r \in Peer /\ e \in Peer /\ ss \in Seq(Sock) /\ f \in Ends /\ tt \in Seq(Sock)
    BY Zenon, PairTypes DEF Steps, Moves
<1>0. HoldsSockets(r, d, ss) /\ HoldsSockets(e, f, ss) /\ f # d /\ Far(f) = d
    BY Zenon, PairTypes
<1>1. Side(d, r, e, ss) /\ Side(f, e, r, ss) /\ Piped(e) /\ Piped(r)
    BY Zenon DEF Pair
<1>2. s \in DOMAIN ss /\ ss[s].by = f /\ ss[s].taken /\ ~r.established
    BY Zenon, <1>0, <1>1 DEF HoldsSockets, Side, Phases
<1>3. Shake(ss[s], f, e, r, s)
    BY Zenon, <1>1, <1>2 DEF Side, Shakes
<1>4. /\ ss[s].buf[f] = <<>> /\ (e.sd = s => ~e.established) /\ ss[s].buf[d] = <<>>
      /\ ~(e.sd = s /\ ~e.established /\ e.state = "connecting")
    BY Zenon, <1>0, <1>3 DEF Shake
<1>n. LET b == <<>> \o <<id>> IN
      Opening(<<>>) /\ Opening(b) /\ b # <<>> /\ (\A i \in DOMAIN b : ~IsData(b[i])) /\ <<id>> \in Seq(Frames)
  <2>1. id \in Frames
      BY Zenon DEF Frame, Frames, NoMsg
  <2> QED
      BY SMTT(30), <2>1, Idents
<1>5. /\ DOMAIN tt = DOMAIN ss
      /\ \A k \in DOMAIN ss \ {s} : tt[k] = ss[k]
      /\ tt[s].by = f /\ tt[s].taken /\ tt[s].broken = ss[s].broken
      /\ tt[s].open = ss[s].open /\ tt[s].buf[d] = <<>>
      /\ Opening(tt[s].buf[f])
      /\ \A i \in DOMAIN tt[s].buf[f] : ~IsData(tt[s].buf[f][i])
      /\ ss[s].open[f] => tt[s].buf[f] # <<>>
  <2>1. BufIs(ss, tt, s, f, IF Reaches(ss, s, d) THEN ss[s].buf[f] \o <<id>> ELSE ss[s].buf[f])
      BY Zenon, <1>t, <1>2, <1>n, WrittenEffect DEF Identified
  <2>2. ss[s].open[f] <=> Reaches(ss, s, d)
      BY Zenon DEF Reaches
  <2> HIDE DEF id
  <2>3. CASE ss[s].open[f]
    <3>1. BufIs(ss, tt, s, f, <<>> \o <<id>>)
        BY Zenon, <1>4, <2>1, <2>2, <2>3
    <3> QED
        BY ZenonT(60), <1>0, <1>2, <1>4, <1>n, <3>1 DEF BufIs
  <2>4. CASE ~ss[s].open[f]
    <3>1. BufIs(ss, tt, s, f, <<>>)
        BY Zenon, <1>4, <2>1, <2>2, <2>4
    <3>2. \A i \in DOMAIN <<>> : FALSE
        BY SMTT(30)
    <3> QED
        BY ZenonT(60), <1>0, <1>2, <1>4, <1>n, <2>4, <3>1, <3>2 DEF BufIs
  <2> QED
      BY Zenon, <2>3, <2>4
<1>6. e.sd # NoSocket =>
          /\ e.sd \in DOMAIN ss
          /\ tt[e.sd].by = ss[e.sd].by /\ (e.sd # s => tt[e.sd] = ss[e.sd])
          /\ tt[e.sd].open = ss[e.sd].open /\ tt[e.sd].broken = ss[e.sd].broken
  <2>1. e.sd # NoSocket => e.sd \in DOMAIN ss
      BY Zenon, <1>0 DEF HoldsSockets
  <2> QED
      BY Zenon, <1>2, <1>5, <2>1
<1>7. Phases(q, d, tt)
    BY Zenon, <1>1, <1>5 DEF Side, Phases
<1>8. Shakes(d, q, e, tt)
  <2> SUFFICES ASSUME NEW k \in DOMAIN tt, tt[k].by = d
               PROVE  Shake(tt[k], d, q, e, k)
      BY Zenon DEF Shakes
  <2>1. tt[k] = ss[k] /\ Shake(ss[k], d, r, e, k) /\ k # s
      BY Zenon, <1>0, <1>1, <1>5 DEF Side, Shakes
  <2> QED
      BY Zenon, <2>1 DEF Shake
<1>9. Inbox(q, d, tt) = <<>> /\ Inbox(r, d, ss) = <<>> /\ r.recv = NoMsg
    BY Zenon, <1>1, <1>2, <1>5 DEF Inbox, Side, Phases
<1>10. DataOnly(q, d, tt)
    BY SMTT(30), <1>5 DEF DataOnly
<1>11. Flow(e, q, Inbox(q, d, tt))
    BY Zenon, <1>1, <1>9, FlowSame DEF Side
<1>12. Halves(d, q, e, tt)
  <2>1. ~Again(e, q, <<>>)
      BY SMTT(30) DEF Again
  <2>2. ~(e.half /\ e.worker # "lift" /\ tt[e.sd].open[d] /\ ~tt[e.sd].broken)
      BY Zenon, <1>0, <1>1, <1>6 DEF Side, Phases, Halves
  <2> QED
      BY Zenon, <1>9, <2>1, <2>2 DEF Halves
<1>13. Side(d, q, e, tt)
    BY Zenon, <1>7, <1>8, <1>10, <1>11, <1>12 DEF Side
<1>14. Phases(e, f, tt)
    BY Zenon, <1>1, <1>6 DEF Side, Phases
<1>15. Shakes(f, e, q, tt)
  <2> SUFFICES ASSUME NEW k \in DOMAIN tt, tt[k].by = f
               PROVE  Shake(tt[k], f, e, q, k)
      BY Zenon DEF Shakes
  <2>1. CASE k = s
    <3>1. e.sd = s => ss[s].open[f]
        BY Zenon, <1>0 DEF HoldsSockets
    <3> QED
        BY Zenon, <1>0, <1>4, <1>5, <2>1, <3>1 DEF Shake
  <2>2. CASE k # s
    <3>1. tt[k] = ss[k] /\ Shake(ss[k], f, e, r, k) /\ k # NoSocket
        BY SMTT(30), <1>t, <1>1, <1>5, <2>2 DEF Side, Shakes, NoSocket
    <3> QED
        BY ZenonT(30), <2>2, <3>1 DEF Shake
  <2> QED
      BY Zenon, <2>1, <2>2
<1>16. DataOnly(e, f, tt)
    BY Zenon, <1>1, <1>4, <1>6 DEF Side, DataOnly, Phases
<1>17. ~(q.half /\ q.worker # "lift")
    BY Zenon, <1>1, <1>2 DEF Side, Phases
<1>18. CASE e.sd # s
  <2>1. Inbox(e, f, tt) = Inbox(e, f, ss)
      BY Zenon, <1>6, <1>18 DEF Inbox
  <2>2. Flow(q, e, Inbox(e, f, tt))
      BY ZenonT(30), <1>1, <2>1, FlowSender DEF Side
  <2>3. ~tt[q.sd].open[f]
      BY SMTT(30), <1>0, <1>2, <1>5, <1>18 DEF HoldsSockets
  <2>4. Halves(f, e, q, tt)
      BY Zenon, <1>17, <2>3 DEF Halves
  <2>5. Side(f, e, q, tt)
      BY Zenon, <1>14, <1>15, <1>16, <2>2, <2>4 DEF Side
  <2> QED
      BY Zenon, <1>13, <2>5, PairStep
<1>19. CASE e.sd = s
  <2> DEFINE C == tt[s].buf[f]
  <2>1. Inbox(e, f, tt) = C /\ C \in Seq(Frames) /\ e.recv = NoMsg
      BY Zenon, <1>t, <1>1, <1>2, <1>4, <1>5, <1>19, BufType DEF Inbox, Side, Phases
  <2>2. \A i \in DOMAIN C : ~IsData(C[i])
      BY Zenon, <1>5
  <2> HIDE DEF C
  <2>3. Flow(r, e, C)
      BY Zenon, <1>t, <1>1, <2>1, <2>2, FlowClear DEF Side
  <2>4. ~Again(q, e, C)
      BY Zenon, <2>1, <2>2 DEF Again, IsData, IsHead
  <2>5. Flow(q, e, C)
      BY Zenon, <2>3, FlowSender
  <2>6. Halves(f, e, q, tt)
      BY Zenon, <1>17, <2>1, <2>4 DEF Halves
  <2>7. Side(f, e, q, tt)
      BY ZenonT(60), <1>14, <1>15, <1>16, <2>1, <2>5, <2>6 DEF Side
  <2> QED
      BY Zenon, <1>13, <2>7, PairStep
<1> QED
    BY Zenon, <1>18, <1>19

\* The connection daemon d was called on fails as it accepts it.
LEMMA AcceptFails ==
    ASSUME NEW d \in Ends, NEW r, NEW e, NEW ss, Pair(d, r, e, ss), NEW s, NEW tt, NEW q,
           Closes(ss, tt, s, d), Steps(d, ss, q, tt), Piped(q), Narrows(r, q),
           r.main = s, s # NoSocket, r.sd = NoSocket, q.main = NoSocket, q.sd = NoSocket,
           q.state # "connected", ~q.established, q.recv = NoMsg, q.heard = r.heard,
           \/ q.half = r.half /\ q.deck = r.deck /\ q.worker = r.worker
           \/ q.deck = NoMsg /\ ~q.half
    PROVE  Pair(d, q, e, tt)
<1> DEFINE f == Far(d)
<1>t. r \in Peer /\ e \in Peer /\ ss \in Seq(Sock) /\ f \in Ends /\ tt \in Seq(Sock)
    BY Zenon, PairTypes DEF Steps, Moves
<1>0. HoldsSockets(r, d, ss) /\ HoldsSockets(e, f, ss) /\ f # d /\ Far(f) = d
    BY Zenon, PairTypes
<1>1. Side(d, r, e, ss) /\ Side(f, e, r, ss) /\ Piped(e) /\ Piped(r)
    BY Zenon DEF Pair
<1>2. s \in DOMAIN ss /\ ss[s].by = f /\ ss[s].taken /\ ~r.established
    BY Zenon, <1>0, <1>1 DEF HoldsSockets, Side, Phases
<1>3. Shake(ss[s], f, e, r, s)
    BY Zenon, <1>1, <1>2 DEF Side, Shakes
<1>4. /\ ss[s].buf[f] = <<>> /\ (e.sd = s => ~e.established) /\ ss[s].buf[d] = <<>>
      /\ ~(e.sd = s /\ ~e.established /\ e.state = "connecting")
    BY Zenon, <1>0, <1>3 DEF Shake
<1>5. /\ DOMAIN tt = DOMAIN ss
      /\ \A k \in DOMAIN ss \ {s} : tt[k] = ss[k]
      /\ tt[s].by = f /\ tt[s].taken /\ tt[s].broken = ss[s].broken
      /\ ~tt[s].open[d] /\ tt[s].open[f] = ss[s].open[f]
      /\ tt[s].buf[d] = <<>> /\ tt[s].buf[f] = <<>>
    BY Zenon, <1>2, <1>4 DEF Closes
<1>6. e.sd # NoSocket =>
          /\ tt[e.sd].by = ss[e.sd].by /\ tt[e.sd].buf[f] = ss[e.sd].buf[f]
          /\ tt[e.sd].open[f] = ss[e.sd].open[f] /\ tt[e.sd].broken = ss[e.sd].broken
          /\ (tt[e.sd].open[d] => ss[e.sd].open[d])
  <2>1. e.sd # NoSocket => e.sd \in DOMAIN ss
      BY Zenon, <1>0 DEF HoldsSockets
  <2> QED
      BY ZenonT(60), <1>2, <1>4, <1>5, <2>1
<1>7. Phases(q, d, tt)
    BY Zenon, <1>1, <1>2 DEF Side, Phases
<1>8. Shakes(d, q, e, tt)
  <2> SUFFICES ASSUME NEW k \in DOMAIN tt, tt[k].by = d
               PROVE  Shake(tt[k], d, q, e, k)
      BY ZenonT(30) DEF Shakes
  <2>1. tt[k] = ss[k] /\ Shake(ss[k], d, r, e, k) /\ k # NoSocket
      BY SMTT(30), <1>t, <1>0, <1>1, <1>5 DEF Side, Shakes, NoSocket
  <2> QED
      BY Zenon, <2>1 DEF Shake
<1>9. Inbox(q, d, tt) = <<>> /\ Inbox(r, d, ss) = <<>> /\ r.recv = NoMsg /\ Inbox(e, f, tt) = Inbox(e, f, ss)
    BY Zenon, <1>1, <1>2, <1>6 DEF Inbox, Side, Phases
<1>10. DataOnly(q, d, tt)
    BY Zenon DEF DataOnly
<1>11. Flow(e, q, Inbox(q, d, tt))
    BY Zenon, <1>1, <1>9, FlowSame DEF Side
<1>12. Halves(d, q, e, tt)
  <2>1. ~Again(e, q, <<>>)
      BY SMTT(30) DEF Again
  <2>2. ~(e.half /\ e.worker # "lift" /\ tt[e.sd].open[d] /\ ~tt[e.sd].broken)
      BY Zenon, <1>0, <1>1, <1>6 DEF Side, Phases, Halves
  <2> QED
      BY Zenon, <1>9, <2>1, <2>2 DEF Halves
<1>13. Side(d, q, e, tt)
    BY Zenon, <1>7, <1>8, <1>10, <1>11, <1>12 DEF Side
<1>14. Phases(e, f, tt)
    BY Zenon, <1>1, <1>6 DEF Side, Phases
<1>15. Shakes(f, e, q, tt)
  <2> SUFFICES ASSUME NEW k \in DOMAIN tt, tt[k].by = f
               PROVE  Shake(tt[k], f, e, q, k)
      BY Zenon DEF Shakes
  <2>0. k # NoSocket
      BY SMTT(30), <1>t DEF NoSocket
  <2>1. CASE k = s
    <3>1. Opening(<<>>)
        BY Zenon, Idents
    <3> QED
        BY ZenonT(60), <1>0, <1>4, <1>5, <2>0, <2>1, <3>1 DEF Shake
  <2>2. CASE k # s
    <3>1. tt[k] = ss[k] /\ Shake(ss[k], f, e, r, k)
        BY ZenonT(60), <1>1, <1>5, <2>2 DEF Side, Shakes
    <3> QED
        BY Zenon, <2>0, <2>2, <3>1 DEF Shake
  <2> QED
      BY Zenon, <2>1, <2>2
<1>16. DataOnly(e, f, tt)
    BY Zenon, <1>1, <1>6 DEF Side, DataOnly, Phases
<1>17. Flow(q, e, Inbox(e, f, tt))
    BY Zenon, <1>1, <1>9, FlowSender DEF Side
<1>18. Halves(f, e, q, tt)
  <2>1. Again(q, e, Inbox(e, f, ss)) /\ ~q.half => q.worker = "lift"
      BY Zenon, <1>1, <1>2 DEF Side, Halves, Again
  <2>2. ~(q.half /\ q.worker # "lift")
      BY Zenon, <1>1, <1>2 DEF Side, Phases
  <2> QED
      BY Zenon, <1>9, <2>1, <2>2 DEF Halves
<1>19. Side(f, e, q, tt)
    BY Zenon, <1>14, <1>15, <1>16, <1>17, <1>18 DEF Side
<1> QED
    BY Zenon, <1>13, <1>19, PairStep

\* What daemon d writes on its connection, frame g.
Puts(ss, tt, r, d, g) == tt = Written(ss, r.sd, d, <<g>>)

\* Daemon d, connected, writes a header or a body.
LEMMA Writes ==
    ASSUME NEW d \in Ends, NEW r, NEW e, NEW ss, Pair(d, r, e, ss), NEW tt, NEW q, NEW g \in Frames,
           Puts(ss, tt, r, d, g), IsData(g), Steps(d, ss, q, tt), Piped(q), Narrows(r, q),
           r.established, r.main = NoSocket, r.state = "connected", ~ss[r.sd].broken,
           q.sd = r.sd, q.main = NoSocket, q.state = "connected", q.established,
           q.recv = r.recv, q.heard = r.heard, r.deck # NoMsg, r.worker # "lift", q.worker # "lift",
           \/ IsHead(g) /\ g.m = r.deck /\ q.deck = r.deck /\ ~r.half /\ q.half
           \/ IsTail(g) /\ q.deck = NoMsg /\ r.half /\ ~q.half /\ ~Waiting(q, r.deck)
    PROVE  Pair(d, q, e, tt)
<1> DEFINE f == Far(d)
           s == r.sd
           C == tt[s].buf[f]
           B == ss[s].buf[f]
<1>t. r \in Peer /\ e \in Peer /\ ss \in Seq(Sock) /\ f \in Ends /\ tt \in Seq(Sock) /\ <<g>> \in Seq(Frames)
    BY SMTT(30), PairTypes DEF Steps, Moves
<1>0. HoldsSockets(r, d, ss) /\ HoldsSockets(e, f, ss) /\ f # d /\ Far(f) = d
    BY Zenon, PairTypes
<1>1. Side(d, r, e, ss) /\ Side(f, e, r, ss) /\ Piped(e) /\ Piped(r) /\ PipeOK(r)
    BY Zenon DEF Pair, Piped
<1>2. s # NoSocket /\ s \in DOMAIN ss
    BY Zenon, <1>0, <1>1 DEF HoldsSockets, Side, Phases
<1>3. ss[s].open[f] => e.sd = s
    BY Zenon, SameSocket
<1>4. /\ DOMAIN tt = DOMAIN ss
      /\ \A k \in DOMAIN ss \ {s} : tt[k] = ss[k]
      /\ tt[s].by = ss[s].by /\ tt[s].taken = ss[s].taken /\ tt[s].broken = ss[s].broken
      /\ tt[s].open = ss[s].open /\ tt[s].buf[d] = ss[s].buf[d]
      /\ IF ss[s].open[f] THEN Grows(B, C, g) ELSE C = B
      /\ B \in Seq(Frames) /\ C \in Seq(Frames)
  <2>1. BufIs(ss, tt, s, f, IF Reaches(ss, s, d) THEN B \o <<g>> ELSE B)
      BY Zenon, <1>t, <1>2, WrittenEffect DEF Puts
  <2>2. ss[s].open[f] <=> Reaches(ss, s, d)
      BY Zenon DEF Reaches
  <2>3. B \in Seq(Frames)
      BY Zenon, <1>t, <1>2, BufType
  <2>4. Grows(B, B \o <<g>>, g) /\ B \o <<g>> \in Seq(Frames)
      BY Zenon, <2>3, OneGrows
  <2>5. tt[s].buf[f] = (IF ss[s].open[f] THEN B \o <<g>> ELSE B)
      BY Zenon, <2>1, <2>2 DEF BufIs
  <2> HIDE DEF B
  <2> QED
      BY ZenonT(60), <1>0, <2>1, <2>3, <2>4, <2>5 DEF BufIs
<1>a. q.sd = s /\ r.sd = s
    BY Zenon
<1>b. Inbox(q, d, tt) = Inbox(r, d, ss)
    BY Zenon, <1>2, <1>4 DEF Inbox
<1>c. e.sd = s => Inbox(e, f, ss) = B /\ Inbox(e, f, tt) = C
    BY Zenon, <1>2 DEF Inbox
<1>d. ASSUME ~ss[s].open[f] PROVE e.sd # s
    BY Zenon, <1>0, <1>2, <1>d DEF HoldsSockets
<1> HIDE DEF s, B
<1>5. e.sd # NoSocket =>
          /\ tt[e.sd].by = ss[e.sd].by /\ (e.sd # s => tt[e.sd] = ss[e.sd])
          /\ tt[e.sd].open = ss[e.sd].open /\ tt[e.sd].broken = ss[e.sd].broken
  <2>1. e.sd # NoSocket => e.sd \in DOMAIN ss
      BY Zenon, <1>0 DEF HoldsSockets
  <2> QED
      BY Zenon, <1>2, <1>4, <2>1
<1> HIDE DEF C
<1>6. Phases(q, d, tt)
    BY ZenonT(60), <1>1, <1>2, <1>4, <1>a DEF Side, Phases
<1>7. ss[s].by = d => ss[s].taken /\ e.main # s
  <2>1. ss[s].by = d => Shake(ss[s], d, r, e, s)
      BY Zenon, <1>1, <1>2 DEF Side, Shakes
  <2> QED
      BY Zenon, <1>a, <2>1 DEF Shake
<1>8. Shakes(d, q, e, tt)
  <2> SUFFICES ASSUME NEW k \in DOMAIN tt, tt[k].by = d
               PROVE  Shake(tt[k], d, q, e, k)
      BY Zenon DEF Shakes
  <2>1. CASE k = s
      BY Zenon, <1>4, <1>7, <1>a, <2>1 DEF Shake
  <2>2. CASE k # s
    <3>1. tt[k] = ss[k] /\ Shake(ss[k], d, r, e, k)
        BY Zenon, <1>1, <1>4, <2>2 DEF Side, Shakes
    <3> QED
        BY Zenon, <1>a, <2>2, <3>1 DEF Shake
  <2> QED
      BY Zenon, <2>1, <2>2
<1>9. DataOnly(q, d, tt)
    BY ZenonT(60), <1>1, <1>4, <1>a DEF Side, DataOnly
<1>10. Flow(e, q, Inbox(q, d, tt))
    BY Zenon, <1>1, <1>b, FlowSame DEF Side
<1>11. Halves(d, q, e, tt)
  <2> DEFINE X == Inbox(r, d, ss)
  <2>1. /\ Again(e, r, X) /\ ~e.half => e.worker = "lift" \/ (e.established /\ ~ss[e.sd].open[d])
        /\ e.half /\ e.worker # "lift" /\ ss[e.sd].open[d] /\ ~ss[e.sd].broken =>
               r.sd = e.sd /\ Halfway(e, r, X)
      BY Zenon, <1>1 DEF Side, Halves
  <2>2. /\ e.established => e.sd # NoSocket
        /\ e.half /\ e.worker # "lift" => e.sd # NoSocket
      BY Zenon, <1>1 DEF Side, Phases
  <2>3. (Again(e, q, X) <=> Again(e, r, X)) /\ (Halfway(e, q, X) <=> Halfway(e, r, X))
      BY Zenon DEF Again, Halfway
  <2>4. e.sd # NoSocket => tt[e.sd].open[d] = ss[e.sd].open[d] /\ tt[e.sd].broken = ss[e.sd].broken
      BY Zenon, <1>5
  <2>5. Inbox(q, d, tt) = X
      BY Zenon, <1>b
  <2> HIDE DEF X
  <2> QED
      BY ZenonT(30), <1>a, <2>1, <2>2, <2>3, <2>4, <2>5 DEF Halves
<1>12. Side(d, q, e, tt)
    BY Zenon, <1>6, <1>8, <1>9, <1>10, <1>11 DEF Side
<1>13. Phases(e, f, tt)
    BY Zenon, <1>1, <1>5 DEF Side, Phases
<1>14. /\ Opening(B) /\ B # <<>> /\ ss[s].open[f] => Opening(C)
       /\ (\A i \in DOMAIN B : IsData(B[i])) => \A i \in DOMAIN C : IsData(C[i])
  <2>1. CASE ~ss[s].open[f]
      BY Zenon, <1>4, <2>1
  <2>2. CASE ss[s].open[f]
    <3>1. \A i \in DOMAIN C : C[i] = g \/ (i \in DOMAIN B /\ C[i] = B[i])
        BY ZenonT(30), <1>4, <2>2 DEF Grows, Gains
    <3>2. B # <<>> => 1 \in DOMAIN B /\ 1 \in DOMAIN C /\ C[1] = B[1]
        BY SMTT(30), <1>4, <2>2 DEF Grows
    <3> QED
        BY Zenon, <3>1, <3>2 DEF Opening
  <2> QED
      BY Zenon, <2>1, <2>2
<1>15. tt[s].buf[f] = C /\ ss[s].buf[f] = B
    BY Zenon DEF C, B
<1>16. Shakes(f, e, q, tt)
  <2> SUFFICES ASSUME NEW k \in DOMAIN tt, tt[k].by = f
               PROVE  Shake(tt[k], f, e, q, k)
      BY Zenon DEF Shakes
  <2>0. k # NoSocket
      BY SMTT(30), <1>t DEF NoSocket
  <2>1. CASE k = s
    <3>1. Shake(ss[s], f, e, r, s)
        BY ZenonT(60), <1>1, <1>2, <1>4, <2>1 DEF Side, Shakes
    <3>2. ss[s].taken
        BY SMTT(30), <1>0, <1>2, <1>4, <1>a, <2>1 DEF HoldsSockets
    <3>3. e.sd = s /\ ~e.established => B # <<>> /\ Opening(B) /\ e.state # "connecting" /\ ss[s].buf[d] = <<>>
        BY Zenon, <1>0, <1>15, <1>a, <3>1, <3>2 DEF Shake
    <3>4. e.sd = s => ss[s].open[f]
        BY Zenon, <1>d
    <3>5. e.sd = s /\ ~e.established => Opening(C) /\ C # <<>>
        BY ZenonT(60), <1>4, <1>14, <3>3, <3>4 DEF Grows
    <3> QED
        BY ZenonT(60), <1>0, <1>4, <1>15, <1>a, <2>0, <2>1, <3>2, <3>3, <3>5 DEF Shake
  <2>2. CASE k # s
    <3>1. tt[k] = ss[k] /\ Shake(ss[k], f, e, r, k)
        BY ZenonT(60), <1>1, <1>4, <2>2 DEF Side, Shakes
    <3> QED
        BY ZenonT(60), <1>a, <2>0, <2>2, <3>1 DEF Shake
  <2> QED
      BY Zenon, <2>1, <2>2
<1>17. DataOnly(e, f, tt)
    BY Zenon, <1>1, <1>5, <1>14, <1>15 DEF Side, DataOnly, Phases
<1>18. CASE ~ss[s].open[f]
  <2>1. Inbox(e, f, tt) = Inbox(e, f, ss)
      BY ZenonT(60), <1>5, <1>d, <1>18 DEF Inbox
  <2>2. Flow(q, e, Inbox(e, f, tt))
      BY ZenonT(60), <1>1, <2>1, FlowSender DEF Side
  <2>3. Halves(f, e, q, tt)
      BY ZenonT(60), <1>4, <1>18, <1>a DEF Halves
  <2>4. Side(f, e, q, tt)
      BY ZenonT(60), <1>13, <1>16, <1>17, <2>2, <2>3 DEF Side
  <2> QED
      BY Zenon, <1>12, <2>4, PairStep
<1>19. CASE ss[s].open[f]
  <2>1. /\ Inbox(e, f, ss) = B /\ Inbox(e, f, tt) = C /\ Grows(B, C, g) /\ e.sd = s
        /\ Flow(r, e, B) /\ Halves(f, e, r, ss) /\ ~ss[s].broken
      BY ZenonT(60), <1>1, <1>3, <1>4, <1>19, <1>c DEF Side, s
  <2>2. CASE IsHead(g) /\ g.m = r.deck /\ q.deck = r.deck /\ ~r.half /\ q.half
    <3>1. ~Again(r, e, B)
        BY ZenonT(60), <1>19, <1>a, <2>1, <2>2 DEF Halves
    <3>2. Flow(r, e, C)
        BY ZenonT(60), <1>t, <1>1, <1>4, <2>1, <2>2, <3>1, FlowWriteHead
    <3>3. Flow(q, e, C)
        BY Zenon, <3>2, FlowSender
    <3>4. Halfway(q, e, C)
        BY Zenon, <2>1, <2>2 DEF Halfway, Grows, Gains
    <3>5. Halves(f, e, q, tt)
        BY ZenonT(30), <1>a, <2>1, <2>2, <3>4 DEF Halves
    <3>6. Side(f, e, q, tt)
        BY ZenonT(60), <1>13, <1>16, <1>17, <2>1, <3>3, <3>5 DEF Side
    <3> QED
        BY Zenon, <1>12, <3>6, PairStep
  <2>3. CASE IsTail(g) /\ q.deck = NoMsg /\ r.half /\ ~q.half /\ ~Waiting(q, r.deck)
    <3>1. Halfway(r, e, B)
        BY Zenon, <1>19, <1>a, <2>1, <2>3 DEF Halves
    <3>2. Flow(q, e, C)
        BY ZenonT(60), <1>t, <1>4, <2>1, <2>3, <3>1, FlowWriteRest
    <3>3. Halves(f, e, q, tt)
        BY Zenon, <2>3 DEF Halves, Again
    <3>4. Side(f, e, q, tt)
        BY ZenonT(60), <1>13, <1>16, <1>17, <2>1, <3>2, <3>3 DEF Side
    <3> QED
        BY Zenon, <1>12, <3>4, PairStep
  <2> QED
      BY Zenon, <2>2, <2>3
<1> QED
    BY ZenonT(30), <1>18, <1>19

\* Daemon d reads the next frame of its connection, g.
LEMMA Reads ==
    ASSUME NEW d \in Ends, NEW r, NEW e, NEW ss, Pair(d, r, e, ss), NEW q, NEW tt, NEW C \in Seq(Frames),
           NEW g, BufIs(ss, tt, r.sd, d, C), Sheds(ss[r.sd].buf[d], C, g),
           Steps(d, ss, q, tt), Piped(q), Narrows(r, q),
           r.established, r.state = "connected", r.main = NoSocket,
           q.sd = r.sd, q.main = NoSocket, q.established, q.state = "connected",
           q.half = r.half, q.deck = r.deck, q.worker = r.worker,
           IF g.t = "head" THEN q.recv = g.m /\ q.heard = r.heard
                           ELSE q.recv = NoMsg /\ Gains(r.heard, q.heard, r.recv)
    PROVE  Pair(d, q, e, tt)
<1> DEFINE f == Far(d)
           s == r.sd
           B == ss[s].buf[d]
<1>t. r \in Peer /\ e \in Peer /\ ss \in Seq(Sock) /\ f \in Ends
    BY Zenon, PairTypes
<1>0. HoldsSockets(r, d, ss) /\ HoldsSockets(e, f, ss) /\ f # d /\ Far(f) = d
    BY Zenon, PairTypes
<1>1. Side(d, r, e, ss) /\ Side(f, e, r, ss) /\ Piped(e) /\ Piped(r)
    BY Zenon DEF Pair
<1>2. s # NoSocket /\ s \in DOMAIN ss
    BY Zenon, <1>0, <1>1 DEF HoldsSockets, Side, Phases
<1>3. B \in Seq(Frames) /\ B # <<>> /\ B[1] = g /\ 1 \in DOMAIN B /\ IsData(g)
  <2>1. B \in Seq(Frames)
      BY Zenon, <1>t, <1>2, BufType
  <2>2. B # <<>> /\ B[1] = g /\ 1 \in DOMAIN B
      BY Zenon, <2>1 DEF Sheds, Loses
  <2>3. IsData(B[1])
      BY Zenon, <1>1, <2>2 DEF Side, DataOnly
  <2> QED
      BY Zenon, <2>1, <2>2, <2>3
<1>4. \/ IsHead(g) /\ g.t = "head"
      \/ IsTail(g) /\ g.t # "head"
  <2>1. g.t = "head" \/ g.t = "tail"
      BY Zenon, <1>3 DEF IsData
  <2> QED
      BY Zenon, <2>1 DEF IsHead, IsTail
<1>5. /\ DOMAIN tt = DOMAIN ss
      /\ \A k \in DOMAIN ss \ {s} : tt[k] = ss[k]
      /\ tt[s].by = ss[s].by /\ tt[s].taken = ss[s].taken /\ tt[s].broken = ss[s].broken
      /\ tt[s].open = ss[s].open /\ tt[s].buf[d] = C /\ tt[s].buf[f] = ss[s].buf[f]
    BY Zenon, <1>2 DEF BufIs
<1>6. \A i \in DOMAIN C : IsData(C[i])
  <2>1. \A i \in DOMAIN B : IsData(B[i])
      BY Zenon, <1>1 DEF Side, DataOnly
  <2>2. \A i \in DOMAIN C : i + 1 \in DOMAIN B /\ C[i] = B[i + 1]
      BY Zenon DEF Sheds, Loses
  <2> QED
      BY Zenon, <2>1, <2>2
<1>a. q.sd = s /\ r.sd = s /\ Sheds(B, C, g) /\ B = ss[s].buf[d]
    BY Zenon
<1>b. Inbox(r, d, ss) = B /\ Inbox(q, d, tt) = C
    BY Zenon, <1>2, <1>5 DEF Inbox
<1> HIDE DEF s, B
<1>c. e.sd # NoSocket =>
          /\ tt[e.sd].by = ss[e.sd].by /\ tt[e.sd].buf[f] = ss[e.sd].buf[f]
          /\ tt[e.sd].open = ss[e.sd].open /\ tt[e.sd].broken = ss[e.sd].broken
  <2>1. e.sd # NoSocket => e.sd \in DOMAIN ss
      BY Zenon, <1>0 DEF HoldsSockets
  <2> QED
      BY Zenon, <1>2, <1>5, <2>1
<1>d. Inbox(e, f, tt) = Inbox(e, f, ss)
    BY Zenon, <1>c DEF Inbox
<1>7. Phases(q, d, tt)
    BY Zenon, <1>1, <1>2, <1>5, <1>a DEF Side, Phases
<1>8. Shakes(d, q, e, tt)
  <2> SUFFICES ASSUME NEW k \in DOMAIN tt, tt[k].by = d
               PROVE  Shake(tt[k], d, q, e, k)
      BY Zenon DEF Shakes
  <2>1. CASE k = s
    <3>1. Shake(ss[s], d, r, e, s)
        BY Zenon, <1>1, <1>2, <1>5, <2>1 DEF Side, Shakes
    <3> QED
        BY ZenonT(30), <1>3, <1>5, <1>a, <2>1, <3>1 DEF Shake
  <2>2. CASE k # s
    <3>1. tt[k] = ss[k] /\ Shake(ss[k], d, r, e, k)
        BY Zenon, <1>1, <1>5, <2>2 DEF Side, Shakes
    <3> QED
        BY Zenon, <1>a, <2>2, <3>1 DEF Shake
  <2> QED
      BY Zenon, <2>1, <2>2
<1>9. DataOnly(q, d, tt)
    BY Zenon, <1>5, <1>6, <1>a DEF DataOnly
<1>10. Flow(e, q, C)
  <2>1. Flow(e, r, B)
      BY ZenonT(30), <1>1, <1>b DEF Side
  <2>2. CASE IsHead(g) /\ g.t = "head"
      BY SMTT(30), <1>t, <1>3, <1>a, <2>1, <2>2, FlowHead
  <2>3. CASE IsTail(g) /\ g.t # "head"
      BY ZenonT(60), <1>t, <1>1, <1>3, <1>a, <2>1, <2>3, FlowTail
  <2> QED
      BY Zenon, <1>4, <2>2, <2>3
<1>11. Halves(d, q, e, tt)
  <2>1. Again(e, q, C) => Again(e, r, B)
    <3>1. \A i \in DOMAIN C : i + 1 \in DOMAIN B /\ C[i] = B[i + 1]
        BY Zenon, <1>a DEF Sheds, Loses
    <3> QED
        BY Zenon, <1>3, <1>4, <3>1 DEF Again
  <2>2. Halfway(e, r, B) => Halfway(e, q, C)
    <3>1. Len(B) = Len(C) + 1 /\ Len(C) \in Nat /\ (Len(C) = 0 => C = <<>>)
        BY ZenonT(30), <1>a DEF Sheds
    <3>2. Len(C) # 0 => Len(C) \in DOMAIN C /\ C # <<>>
        BY SMTT(30), <3>1
    <3>3. Len(C) # 0 => C[Len(C)] = B[Len(B)]
        BY Zenon, <1>a, <3>1, <3>2 DEF Sheds, Loses
    <3>4. Len(C) = 0 /\ IsHead(g) /\ g.t = "head" /\ g.m = e.deck => Halfway(e, q, C)
        BY Zenon, <3>1 DEF Halfway
    <3>5. Len(C) = 0 => B[Len(B)] = g
        BY SMTT(30), <1>3, <3>1
    <3>6. IsHead(g) => g.t = "head"
        BY Zenon DEF IsHead
    <3> QED
        BY ZenonT(30), <1>3, <3>2, <3>3, <3>4, <3>5, <3>6 DEF Halfway
  <2> QED
      BY Zenon, <1>1, <1>a, <1>b, <1>c, <2>1, <2>2 DEF Side, Halves, Phases
<1>12. Side(d, q, e, tt)
    BY ZenonT(30), <1>7, <1>8, <1>9, <1>10, <1>11, <1>b DEF Side
<1>13. Phases(e, f, tt)
    BY Zenon, <1>1, <1>c DEF Side, Phases
<1>14. Shakes(f, e, q, tt)
  <2> SUFFICES ASSUME NEW k \in DOMAIN tt, tt[k].by = f
               PROVE  Shake(tt[k], f, e, q, k)
      BY ZenonT(30) DEF Shakes
  <2>0. k # NoSocket
      BY SMTT(30), <1>t, <1>5 DEF NoSocket
  <2>1. CASE k = s
    <3>1. Shake(ss[s], f, e, r, s)
        BY ZenonT(30), <1>1, <1>2, <1>5, <2>1 DEF Side, Shakes
    <3>2. ss[s].taken
        BY SMTT(30), <1>0, <1>2, <1>5, <1>a, <2>1 DEF HoldsSockets
    <3> QED
        BY ZenonT(30), <1>0, <1>3, <1>5, <1>a, <2>0, <2>1, <3>1, <3>2 DEF Shake
  <2>2. CASE k # s
    <3>1. tt[k] = ss[k] /\ Shake(ss[k], f, e, r, k)
        BY Zenon, <1>1, <1>5, <2>2 DEF Side, Shakes
    <3> QED
        BY Zenon, <1>a, <2>0, <2>2, <3>1 DEF Shake
  <2> QED
      BY Zenon, <2>1, <2>2
<1>15. DataOnly(e, f, tt)
    BY Zenon, <1>1, <1>c DEF Side, DataOnly, Phases
<1>16. Flow(q, e, Inbox(e, f, tt))
    BY Zenon, <1>1, <1>d, FlowSender DEF Side
<1>17. Halves(f, e, q, tt)
    BY ZenonT(60), <1>1, <1>2, <1>5, <1>a, <1>d DEF Side, Halves, Again, Halfway
<1>18. Side(f, e, q, tt)
    BY Zenon, <1>13, <1>14, <1>15, <1>16, <1>17 DEF Side
<1> QED
    BY Zenon, <1>12, <1>18, PairStep

\* The network breaks socket s.
Breaks(ss, tt, s) ==
    /\ DOMAIN tt = DOMAIN ss
    /\ \A k \in DOMAIN ss \ {s} : tt[k] = ss[k]
    /\ tt[s].by = ss[s].by /\ tt[s].taken = ss[s].taken /\ tt[s].broken
    /\ tt[s].open = ss[s].open /\ \A g \in Ends : tt[s].buf[g] = <<>>

\* A break leaves each end as good as it was.
LEMMA SideBreaks ==
    ASSUME NEW d \in Ends, NEW r, NEW e, NEW ss, Pair(d, r, e, ss), NEW s \in DOMAIN ss, NEW tt,
           Breaks(ss, tt, s)
    PROVE  Side(d, r, e, tt)
<1> DEFINE f == Far(d)
<1>t. r \in Peer /\ e \in Peer /\ ss \in Seq(Sock) /\ f \in Ends
    BY Zenon, PairTypes
<1>0. HoldsSockets(r, d, ss) /\ HoldsSockets(e, f, ss) /\ f # d /\ Far(f) = d
    BY Zenon, PairTypes
<1>1. Side(d, r, e, ss) /\ Side(f, e, r, ss)
    BY Zenon DEF Pair
<1>2. \A k \in DOMAIN ss : /\ tt[k].by = ss[k].by /\ tt[k].taken = ss[k].taken /\ tt[k].open = ss[k].open
                           /\ (ss[k].broken => tt[k].broken)
                           /\ \A g \in Ends : tt[k].buf[g] = ss[k].buf[g] \/ tt[k].buf[g] = <<>>
                           /\ (~tt[k].broken => tt[k] = ss[k])
      /\ DOMAIN tt = DOMAIN ss
    BY Zenon DEF Breaks
<1>3. /\ r.sd # NoSocket => r.sd \in DOMAIN ss
      /\ e.sd # NoSocket => e.sd \in DOMAIN ss
    BY Zenon, <1>0 DEF HoldsSockets
<1>4. Phases(r, d, tt)
    BY Zenon, <1>1, <1>2, <1>3 DEF Side, Phases
<1>5. Shakes(d, r, e, tt)
  <2> SUFFICES ASSUME NEW k \in DOMAIN tt, tt[k].by = d
               PROVE  Shake(tt[k], d, r, e, k)
      BY Zenon DEF Shakes
  <2>1. Shake(ss[k], d, r, e, k)
      BY Zenon, <1>1, <1>2 DEF Side, Shakes
  <2>2. Opening(<<>>) /\ IdentOnly(<<>>)
      BY Zenon, Idents
  <2>3. (tt[k].buf[d] = ss[k].buf[d] \/ tt[k].buf[d] = <<>>) /\ (tt[k].buf[f] = ss[k].buf[f] \/ tt[k].buf[f] = <<>>)
      BY ZenonT(60), <1>t, <1>2
  <2> QED
      BY ZenonT(60), <1>2, <2>1, <2>2, <2>3 DEF Shake
<1>6. \A i \in DOMAIN <<>> : FALSE
    BY SMTT(30)
<1>7. Inbox(r, d, tt) = Inbox(r, d, ss) \/ Inbox(r, d, tt) = <<>>
    BY ZenonT(30), <1>2, <1>3 DEF Inbox
<1>8. DataOnly(r, d, tt)
    BY SMTT(30), <1>1, <1>2, <1>3, <1>6 DEF Side, Phases, DataOnly
<1>9. Flow(e, r, Inbox(r, d, tt))
  <2>1. Flow(e, r, Inbox(r, d, ss)) => Flow(e, r, <<>>)
      BY Zenon, <1>6 DEF Flow, Reading, Behind
  <2> QED
      BY Zenon, <1>1, <1>7, <2>1 DEF Side
<1>10. Halves(d, r, e, tt)
  <2>1. Again(e, r, Inbox(r, d, tt)) => Again(e, r, Inbox(r, d, ss))
      BY Zenon, <1>6, <1>7 DEF Again
  <2>2. Again(e, r, Inbox(r, d, tt)) /\ ~e.half =>
           e.worker = "lift" \/ (e.established /\ ~tt[e.sd].open[d])
      BY Zenon, <1>1, <1>2, <1>3, <2>1 DEF Side, Halves, Phases
  <2>3. ASSUME e.half, e.worker # "lift", tt[e.sd].open[d], ~tt[e.sd].broken
        PROVE  r.sd = e.sd /\ Halfway(e, r, Inbox(r, d, tt))
    <3>1. e.sd # NoSocket /\ tt[e.sd] = ss[e.sd]
        BY Zenon, <1>1, <1>2, <1>3, <2>3 DEF Side, Phases
    <3>2. r.sd = e.sd /\ Halfway(e, r, Inbox(r, d, ss))
        BY Zenon, <1>1, <2>3, <3>1 DEF Side, Halves
    <3> QED
        BY Zenon, <3>1, <3>2 DEF Inbox
  <2> QED
      BY Zenon, <2>2, <2>3 DEF Halves
<1> QED
    BY Zenon, <1>4, <1>5, <1>8, <1>9, <1>10 DEF Side
=============================================================================

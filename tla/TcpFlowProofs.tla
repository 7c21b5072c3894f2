---------------------------- MODULE TcpFlowProofs ----------------------------
(***************************************************************************)
(* The stream from one end to the other: how what was read, what is in     *)
(* flight and what still waits at the sender follow each other (Flow),     *)
(* what the two ends of a connection know of one another (Pair), and what  *)
(* a step that touches no socket does to it.                               *)
(***************************************************************************)
EXTENDS TcpBase

\* The parts of a message.
IsData(f) == f.t \in {"head", "tail"}

IsHead(f) == f.t = "head"

IsTail(f) == f.t = "tail"

\* The frames daemon d has still to read from the socket it holds.
Inbox(r, d, ss) == IF r.sd = NoSocket THEN <<>> ELSE ss[r.sd].buf[d]

\* What was delivered to r was delivered in order.
HeardInOrder(r) ==
    \A i \in DOMAIN r.heard :
        /\ 0 < r.heard[i]
        /\ \A j \in DOMAIN r.heard : i < j => r.heard[i] < r.heard[j]

\* The header read last, and those still to read, come after it and each other; a
\* body follows its own header.
Reading(r, B) ==
    /\ r.recv # NoMsg => \A i \in DOMAIN r.heard : r.heard[i] < r.recv
    /\ \A i \in DOMAIN B : IsHead(B[i]) =>
           /\ r.recv < B[i].m
           /\ \A j \in DOMAIN r.heard : r.heard[j] < B[i].m
           /\ \A j \in DOMAIN B : IsHead(B[j]) /\ i < j => B[i].m < B[j].m
    /\ \A i \in DOMAIN B : IsTail(B[i]) =>
           \/ i = 1 /\ r.recv # NoMsg
           \/ i > 1 /\ i - 1 \in DOMAIN B /\ IsHead(B[i - 1])

\* All of it is behind what the sender e still holds, save for the header of the
\* message it has on deck, which is then the last thing sent.
Behind(e, r, B) ==
    /\ r.recv <= e.asked
    /\ \A i \in DOMAIN r.heard : r.heard[i] <= e.asked
    /\ \A i \in DOMAIN B : IsHead(B[i]) => B[i].m <= e.asked
    /\ \A m : m # NoMsg /\ Waiting(e, m) =>
           /\ \A i \in DOMAIN r.heard : r.heard[i] < m
           /\ r.recv < m \/ (r.recv = m /\ e.deck = m /\ B = <<>>)
           /\ \A i \in DOMAIN B : IsHead(B[i]) =>
                  B[i].m < m \/ (B[i].m = m /\ e.deck = m /\ i = Len(B))

\* The stream from e to r, with B in flight.
Flow(e, r, B) == HeardInOrder(r) /\ Reading(r, B) /\ Behind(e, r, B)

\* The message e has on deck has its header under way already.
Again(e, r, B) ==
    e.deck # NoMsg /\ (r.recv = e.deck \/ \E i \in DOMAIN B : IsHead(B[i]) /\ B[i].m = e.deck)

\* C is B without its first frame.
Sheds(B, C, f) ==
    /\ Loses(B, C, f)
    /\ Len(C) \in Nat /\ Len(B) = Len(C) + 1
    /\ B # <<>> /\ (Len(C) = 0 => C = <<>>)
    /\ \A i \in DOMAIN C : i \in 1 .. Len(C)

\* C is B with one more frame.
Grows(B, C, f) ==
    /\ Gains(B, C, f)
    /\ Len(B) \in Nat /\ Len(C) = Len(B) + 1
    /\ C # <<>> /\ (B # <<>> <=> Len(B) > 0)
    /\ \A i \in DOMAIN B : i \in 1 .. Len(B)
    /\ \A i \in 1 .. Len(B) : i \in DOMAIN B /\ i \in DOMAIN C /\ C[i] = B[i]

\* Tail does this.
LEMMA TailSheds ==
    ASSUME NEW B \in Seq(Frames), B # <<>>
    PROVE  Sheds(B, Tail(B), Head(B)) /\ Tail(B) \in Seq(Frames) /\ Head(B) \in Frames
<1>1. Loses(B, Tail(B), Head(B))
    BY Zenon, TailLoses
<1>a. Head(B) \in Frames /\ Tail(B) \in Seq(Frames)
    BY SMTT(30)
<1>b. Len(B) \in Nat /\ Len(Tail(B)) = Len(B) - 1
    BY SMTT(30)
<1>c. Len(Tail(B)) \in Nat
    BY SMTT(30), <1>a
<1>2. Len(Tail(B)) \in Nat /\ Len(B) = Len(Tail(B)) + 1 /\ Tail(B) \in Seq(Frames) /\ Head(B) \in Frames
    BY SMTT(30), <1>a, <1>b, <1>c
<1>d. \A C \in Seq(Frames) : Len(C) = 0 => C = <<>>
    BY SMTT(30)
<1>3. Len(Tail(B)) = 0 => Tail(B) = <<>>
    BY Zenon, <1>a, <1>d
<1>4. \A i \in DOMAIN Tail(B) : i \in 1 .. Len(Tail(B))
    BY SMTT(30), <1>2
<1> QED
    BY Zenon, <1>1, <1>2, <1>3, <1>4 DEF Sheds

\* Writing a frame does this.
LEMMA OneGrows ==
    ASSUME NEW B \in Seq(Frames), NEW f \in Frames
    PROVE  Grows(B, B \o <<f>>, f) /\ B \o <<f>> \in Seq(Frames)
<1>1. Gains(B, B \o <<f>>, f)
    BY Zenon, AppendGains
<1>2. Len(B) \in Nat /\ Len(B \o <<f>>) = Len(B) + 1 /\ B \o <<f>> \in Seq(Frames)
    BY SMTT(30)
<1>3. B \o <<f>> # <<>>
    BY SMTT(30), <1>2
<1>4. B # <<>> <=> Len(B) > 0
    BY SMTT(30)
<1>5. \A i \in DOMAIN B : i \in 1 .. Len(B)
    BY SMTT(30)
<1>6. \A i \in 1 .. Len(B) : i \in DOMAIN B /\ i \in DOMAIN (B \o <<f>>) /\ (B \o <<f>>)[i] = B[i]
    BY SMTT(30)
<1> QED
    BY Zenon, <1>1, <1>2, <1>3, <1>4, <1>5, <1>6 DEF Grows

\* The frames in flight to daemon d.
LEMMA FrameTypes ==
    ASSUME NEW B \in Seq(Frames)
    PROVE  /\ \A i \in DOMAIN B : B[i] \in Frames /\ B[i].m \in Nat /\ i \in Nat /\ i >= 1
           /\ Len(B) \in Nat
           /\ \A i \in DOMAIN B : ~IsData(B[i]) => ~IsHead(B[i]) /\ ~IsTail(B[i])
           /\ \A i \in DOMAIN B : IsData(B[i]) => IsHead(B[i]) \/ IsTail(B[i])
           /\ \A i \in DOMAIN B : IsHead(B[i]) => ~IsTail(B[i])
<1>1. \A i \in DOMAIN B : B[i] \in Frames /\ i \in Nat /\ i >= 1
    BY SMTT(30)
<1>2. \A f \in Frames : f.m \in Nat
    BY Zenon DEF Frames
<1> QED
    BY SMTT(30), <1>1, <1>2 DEF IsData, IsHead, IsTail

\* The sender's line gets shorter.
LEMMA FlowSender ==
    ASSUME NEW e, NEW q, NEW r, NEW B, Flow(e, r, B), Narrows(e, q)
    PROVE  Flow(q, r, B)
    BY Zenon DEF Flow, Narrows, Behind

\* It gets a message to send.
LEMMA FlowAsk ==
    ASSUME NEW e \in Peer, NEW q \in Peer, NEW r \in Peer, NEW B \in Seq(Frames), Flow(e, r, B),
           q.asked = e.asked + 1, q.deck = e.deck,
           \A m : Waiting(q, m) => Waiting(e, m) \/ m = e.asked + 1
    PROVE  Flow(q, r, B)
<1>1. e.asked \in Nat /\ r.recv \in Nat /\ \A i \in DOMAIN r.heard : r.heard[i] \in Nat
    BY Zenon, Numbers
<1>2. \A i \in DOMAIN B : B[i].m \in Nat
    BY Zenon, FrameTypes
<1>3. Behind(e, r, B)
    BY Zenon DEF Flow
<1>4. Behind(q, r, B)
    BY SMTT(30), <1>1, <1>2, <1>3 DEF Behind
<1> QED
    BY Zenon, <1>4 DEF Flow

\* The stream depends on these fields alone.
LEMMA FlowSame ==
    ASSUME NEW e, NEW q, NEW r, NEW B, Flow(e, r, B), q.heard = r.heard, q.recv = r.recv
    PROVE  Flow(e, q, B)
    BY Zenon DEF Flow, HeardInOrder, Reading, Behind

\* The receiver starts on a connection with no message on it.
LEMMA FlowClear ==
    ASSUME NEW e \in Peer, NEW q, NEW r, NEW B, NEW C \in Seq(Frames), Flow(e, r, B),
           q.heard = r.heard, q.recv = NoMsg, \A i \in DOMAIN C : ~IsData(C[i]), Piped(e)
    PROVE  Flow(e, q, C)
<1>1. \A i \in DOMAIN C : ~IsHead(C[i]) /\ ~IsTail(C[i])
    BY Zenon, FrameTypes
<1>2. HeardInOrder(q)
    BY Zenon DEF Flow, HeardInOrder
<1>3. Reading(q, C)
    BY Zenon, <1>1 DEF Reading
<1>4. Behind(e, q, C)
  <2>1. e.asked \in Nat /\ 0 <= e.asked /\ NoMsg = 0
      BY SMTT(30), Numbers DEF NoMsg
  <2>2. ASSUME NEW m, m # NoMsg, Waiting(e, m) PROVE 0 < m
    <3>1. m \in Nat
        BY Zenon, <2>2, Numbers DEF Waiting
    <3> QED
        BY SMTT(30), <2>1, <2>2, <3>1
  <2> QED
      BY Zenon, <1>1, <2>1, <2>2 DEF Flow, Behind
<1> QED
    BY Zenon, <1>2, <1>3, <1>4 DEF Flow

\* The receiver takes a frame of the handshake off the connection.
LEMMA FlowIdent ==
    ASSUME NEW e, NEW q, NEW r, NEW B \in Seq(Frames), NEW C \in Seq(Frames), NEW f,
           Flow(e, r, B), Sheds(B, C, f), ~IsData(f), q.heard = r.heard, q.recv = r.recv
    PROVE  Flow(e, q, C)
<1>1. B[1] = f /\ 1 \in DOMAIN B /\ B # <<>>
    BY Zenon DEF Sheds, Loses
<1>2. /\ \A i \in DOMAIN C : i \in Nat /\ i + 1 \in DOMAIN B /\ C[i] = B[i + 1] /\ 1 < i + 1
      /\ \A i, j \in DOMAIN C : i < j => i + 1 < j + 1
      /\ \A i \in DOMAIN C : i + 1 = Len(B) => i = Len(C)
    BY SMTT(30) DEF Sheds, Loses
<1>3. ~IsHead(B[1]) /\ ~IsTail(B[1])
    BY Zenon, <1>1, FrameTypes
<1>4. HeardInOrder(q) /\ HeardInOrder(r) /\ Reading(r, B) /\ Behind(e, r, B)
    BY Zenon DEF Flow, HeardInOrder
<1>5. Reading(q, C)
  <2>1. \A i \in DOMAIN C : IsHead(C[i]) =>
           /\ q.recv < C[i].m
           /\ \A j \in DOMAIN q.heard : q.heard[j] < C[i].m
           /\ \A j \in DOMAIN C : IsHead(C[j]) /\ i < j => C[i].m < C[j].m
      BY Zenon, <1>2, <1>4 DEF Reading
  <2>2. ASSUME NEW i \in DOMAIN C, IsTail(C[i])
        PROVE  i > 1 /\ i - 1 \in DOMAIN C /\ IsHead(C[i - 1])
    <3>1. i \in Nat /\ i + 1 \in DOMAIN B /\ IsTail(B[i + 1]) /\ i >= 1
        BY Zenon, <1>2, <2>2, FrameTypes
    <3>2. i + 1 > 1 /\ (i + 1) - 1 \in DOMAIN B /\ IsHead(B[(i + 1) - 1])
        BY SMTT(30), <1>4, <3>1 DEF Reading
    <3>3. IsHead(B[i]) /\ i # 1
        BY SMTT(30), <1>3, <3>1, <3>2
    <3>4. i > 1 /\ i - 1 \in DOMAIN C
        BY SMTT(30), <3>1, <3>3
    <3>5. C[i - 1] = B[(i - 1) + 1]
        BY Zenon, <1>2, <3>4
    <3> QED
        BY SMTT(30), <3>1, <3>3, <3>4, <3>5
  <2> QED
      BY Zenon, <1>4, <2>1, <2>2 DEF Reading
<1>6. Behind(e, q, C)
    BY ZenonT(30), <1>1, <1>2, <1>4 DEF Behind
<1> QED
    BY Zenon, <1>4, <1>5, <1>6 DEF Flow

\* The receiver reads a header.
LEMMA FlowHead ==
    ASSUME NEW e \in Peer, NEW q, NEW r \in Peer, NEW B \in Seq(Frames), NEW C \in Seq(Frames), NEW f,
           Flow(e, r, B), Sheds(B, C, f), IsHead(f), q.heard = r.heard, q.recv = f.m
    PROVE  Flow(e, q, C)
<1>1. B[1] = f /\ 1 \in DOMAIN B /\ B # <<>> /\ IsHead(B[1])
    BY Zenon DEF Sheds, Loses
<1>2. /\ \A i \in DOMAIN C : i \in Nat /\ i + 1 \in DOMAIN B /\ C[i] = B[i + 1] /\ 1 < i + 1
      /\ \A i, j \in DOMAIN C : i < j => i + 1 < j + 1
      /\ \A i \in DOMAIN C : i + 1 = Len(B) => i = Len(C)
    BY SMTT(30) DEF Sheds, Loses
<1>3. 1 = Len(B) => C = <<>>
    BY SMTT(30) DEF Sheds
<1>4. HeardInOrder(q) /\ HeardInOrder(r) /\ Reading(r, B) /\ Behind(e, r, B)
    BY Zenon DEF Flow, HeardInOrder
<1>5. f.m \in Nat /\ r.recv \in Nat /\ q.recv # NoMsg
  <2>1. f.m \in Nat /\ r.recv \in Nat
      BY Zenon, <1>1, FrameTypes, Numbers
  <2>2. r.recv < f.m
      BY Zenon, <1>1, <1>4 DEF Reading
  <2> QED
      BY SMTT(30), <2>1, <2>2 DEF NoMsg
<1>6. Reading(q, C)
  <2>1. \A i \in DOMAIN C : IsHead(C[i]) =>
           /\ q.recv < C[i].m
           /\ \A j \in DOMAIN q.heard : q.heard[j] < C[i].m
           /\ \A j \in DOMAIN C : IsHead(C[j]) /\ i < j => C[i].m < C[j].m
      BY ZenonT(30), <1>1, <1>2, <1>4 DEF Reading
  <2>2. ASSUME NEW i \in DOMAIN C, IsTail(C[i]), i # 1
        PROVE  i > 1 /\ i - 1 \in DOMAIN C /\ IsHead(C[i - 1])
    <3>1. i \in Nat /\ i + 1 \in DOMAIN B /\ IsTail(B[i + 1]) /\ i >= 1
        BY Zenon, <1>2, <2>2, FrameTypes
    <3>2. i + 1 > 1 /\ (i + 1) - 1 \in DOMAIN B /\ IsHead(B[(i + 1) - 1])
        BY SMTT(30), <1>4, <3>1 DEF Reading
    <3>3. IsHead(B[i])
        BY SMTT(30), <3>1, <3>2
    <3>4. i > 1 /\ i - 1 \in DOMAIN C
        BY SMTT(30), <2>2, <3>1
    <3>5. C[i - 1] = B[(i - 1) + 1]
        BY Zenon, <1>2, <3>4
    <3> QED
        BY SMTT(30), <3>1, <3>3, <3>4, <3>5
  <2>3. \A i \in DOMAIN q.heard : q.heard[i] < q.recv
      BY Zenon, <1>1, <1>4 DEF Reading
  <2> QED
      BY Zenon, <1>5, <2>1, <2>2, <2>3 DEF Reading
<1>7. Behind(e, q, C)
  <2>1. q.recv <= e.asked
      BY Zenon, <1>1, <1>4 DEF Behind
  <2>2. ASSUME NEW m, m # NoMsg, Waiting(e, m)
        PROVE  q.recv < m \/ (q.recv = m /\ e.deck = m /\ C = <<>>)
      BY Zenon, <1>1, <1>3, <1>4, <2>2 DEF Behind
  <2>3. ASSUME NEW m, m # NoMsg, Waiting(e, m)
        PROVE  \A i \in DOMAIN C : IsHead(C[i]) =>
                  C[i].m < m \/ (C[i].m = m /\ e.deck = m /\ i = Len(C))
      BY SMTT(30), <1>2, <1>4, <2>3 DEF Behind
  <2> QED
      BY ZenonT(60), <1>2, <1>4, <2>1, <2>2, <2>3 DEF Behind
<1> QED
    BY Zenon, <1>4, <1>6, <1>7 DEF Flow

\* The receiver reads a body, and delivers the message.
LEMMA FlowTail ==
    ASSUME NEW e \in Peer, NEW q, NEW r \in Peer, NEW B \in Seq(Frames), NEW C \in Seq(Frames), NEW f,
           Flow(e, r, B), Sheds(B, C, f), IsTail(f), Gains(r.heard, q.heard, r.recv), q.recv = NoMsg,
           Piped(e)
    PROVE  Flow(e, q, C)
<1>1. B[1] = f /\ 1 \in DOMAIN B /\ B # <<>> /\ IsTail(B[1])
    BY Zenon DEF Sheds, Loses
<1>2. /\ \A i \in DOMAIN C : i \in Nat /\ i + 1 \in DOMAIN B /\ C[i] = B[i + 1] /\ 1 < i + 1
      /\ \A i, j \in DOMAIN C : i < j => i + 1 < j + 1
      /\ \A i \in DOMAIN C : i + 1 = Len(B) => i = Len(C)
    BY SMTT(30) DEF Sheds, Loses
<1>3. HeardInOrder(r) /\ Reading(r, B) /\ Behind(e, r, B)
    BY Zenon DEF Flow
<1>4. r.recv # NoMsg /\ r.recv \in Nat /\ 0 < r.recv /\ e.asked \in Nat
  <2>1. r.recv # NoMsg
      BY SMTT(30), <1>1, <1>3 DEF Reading
  <2> QED
      BY SMTT(30), <2>1, Numbers DEF NoMsg
<1>5. \A i \in DOMAIN q.heard : q.heard[i] = r.recv \/ (i \in DOMAIN r.heard /\ q.heard[i] = r.heard[i])
    BY Zenon DEF Gains
<1>6. \A i, j \in DOMAIN q.heard : i < j => i \in DOMAIN r.heard /\ q.heard[i] = r.heard[i]
    BY SMTT(30) DEF Gains
<1>7. HeardInOrder(q)
    BY Zenon, <1>3, <1>4, <1>5, <1>6 DEF HeardInOrder, Reading
<1>8. Reading(q, C)
  <2>0. \A i \in DOMAIN C : C[i].m \in Nat
      BY Zenon, FrameTypes
  <2>1. \A i \in DOMAIN C : IsHead(C[i]) =>
           /\ q.recv < C[i].m
           /\ \A j \in DOMAIN q.heard : q.heard[j] < C[i].m
           /\ \A j \in DOMAIN C : IsHead(C[j]) /\ i < j => C[i].m < C[j].m
    <3>1. \A i \in DOMAIN C : IsHead(C[i]) =>
           /\ r.recv < C[i].m
           /\ \A j \in DOMAIN r.heard : r.heard[j] < C[i].m
           /\ \A j \in DOMAIN C : IsHead(C[j]) /\ i < j => C[i].m < C[j].m
        BY ZenonT(60), <1>2, <1>3 DEF Reading
    <3> QED
        BY SMTT(30), <1>4, <1>5, <2>0, <3>1 DEF NoMsg
  <2>2. ASSUME NEW i \in DOMAIN C, IsTail(C[i])
        PROVE  i > 1 /\ i - 1 \in DOMAIN C /\ IsHead(C[i - 1])
    <3>1. i \in Nat /\ i + 1 \in DOMAIN B /\ IsTail(B[i + 1]) /\ i >= 1
        BY Zenon, <1>2, <2>2, FrameTypes
    <3>2. i + 1 > 1 /\ (i + 1) - 1 \in DOMAIN B /\ IsHead(B[(i + 1) - 1])
        BY SMTT(30), <1>3, <3>1 DEF Reading
    <3>3. IsHead(B[i]) /\ i # 1
      <4>1. (i + 1) - 1 = i
          BY SMTT(30), <3>1
      <4>2. ~IsHead(B[1])
          BY Zenon, <1>1 DEF IsHead, IsTail
      <4> QED
          BY Zenon, <3>2, <4>1, <4>2
    <3>4. i > 1 /\ i - 1 \in DOMAIN C
        BY SMTT(30), <3>1, <3>3
    <3>5. C[i - 1] = B[(i - 1) + 1]
        BY Zenon, <1>2, <3>4
    <3> QED
        BY SMTT(30), <3>1, <3>3, <3>4, <3>5
  <2> QED
      BY Zenon, <2>1, <2>2 DEF Reading
<1>9. Behind(e, q, C)
  <2>1. q.recv <= e.asked /\ \A i \in DOMAIN q.heard : q.heard[i] <= e.asked
      BY SMTT(30), <1>3, <1>4, <1>5 DEF Behind, NoMsg
  <2>2. ASSUME NEW m, m # NoMsg, Waiting(e, m)
        PROVE  q.recv < m /\ \A i \in DOMAIN q.heard : q.heard[i] < m
    <3>1. m \in Nat
        BY Zenon, <2>2, Numbers DEF Waiting
    <3>2. r.recv < m /\ \A i \in DOMAIN r.heard : r.heard[i] < m
        BY Zenon, <1>1, <1>3, <2>2 DEF Behind
    <3>3. q.recv < m
        BY SMTT(30), <2>2, <3>1 DEF NoMsg
    <3>4. \A i \in DOMAIN q.heard : q.heard[i] < m
        BY Zenon, <1>5, <3>2
    <3> QED
        BY Zenon, <3>3, <3>4
  <2>3. ASSUME NEW m, m # NoMsg, Waiting(e, m)
        PROVE  \A i \in DOMAIN C : IsHead(C[i]) =>
                  C[i].m < m \/ (C[i].m = m /\ e.deck = m /\ i = Len(C))
      BY ZenonT(60), <1>2, <1>3, <2>3 DEF Behind
  <2>4. \A i \in DOMAIN C : IsHead(C[i]) => C[i].m <= e.asked
      BY Zenon, <1>2, <1>3 DEF Behind
  <2> QED
      BY Zenon, <2>1, <2>2, <2>3, <2>4 DEF Behind
<1> QED
    BY Zenon, <1>7, <1>8, <1>9 DEF Flow

\* What stands first in line is what is on deck.
LEMMA DeckFirst ==
    ASSUME NEW e \in Peer, PipeOK(e), e.deck # NoMsg, NEW m, Waiting(e, m)
    PROVE  m \in Nat /\ (m = e.deck \/ e.deck < m)
<1>1. m \in Nat
    BY Zenon, Numbers DEF Waiting
<1> QED
    BY Zenon, <1>1 DEF Waiting, PipeOK, InLine, QueueInLine, WorkInLine, PostedInLine

\* The sender puts the header of the message on deck on the connection.
LEMMA FlowWriteHead ==
    ASSUME NEW e \in Peer, NEW r \in Peer, NEW B \in Seq(Frames), NEW C \in Seq(Frames), NEW f,
           Flow(e, r, B), PipeOK(e), e.deck # NoMsg, ~Again(e, r, B),
           Grows(B, C, f), IsHead(f), f.m = e.deck
    PROVE  Flow(e, r, C)
<1> DEFINE n == Len(B) + 1
<1>1. /\ n \in DOMAIN C /\ C[n] = f /\ n = Len(C) /\ n \in Nat
      /\ \A i \in DOMAIN C : i # n => i \in DOMAIN B /\ C[i] = B[i] /\ i < n
      /\ \A i \in DOMAIN B : i \in DOMAIN C /\ C[i] = B[i] /\ i \in Nat
    BY Zenon DEF Grows, Gains
<1>2. HeardInOrder(r) /\ Reading(r, B) /\ Behind(e, r, B)
    BY Zenon DEF Flow
<1>3. e.deck \in Nat /\ e.asked \in Nat /\ r.recv \in Nat /\ e.deck <= e.asked
      /\ (\A i \in DOMAIN B : B[i].m \in Nat)
  <2>1. e.deck <= e.asked
      BY Zenon DEF PipeOK, InLine
  <2> QED
      BY Zenon, <2>1, Numbers, FrameTypes
<1>4. Waiting(e, e.deck)
    BY Zenon DEF Waiting
<1>5. /\ r.recv < e.deck
      /\ \A i \in DOMAIN r.heard : r.heard[i] < e.deck
      /\ \A i \in DOMAIN B : IsHead(B[i]) => B[i].m < e.deck
    BY Zenon, <1>2, <1>3, <1>4 DEF Behind, Again
<1> HIDE DEF n
<1>6. Reading(r, C)
  <2>1. \A i \in DOMAIN C : IsHead(C[i]) =>
           /\ r.recv < C[i].m
           /\ \A j \in DOMAIN r.heard : r.heard[j] < C[i].m
    <3>1. \A i \in DOMAIN B : IsHead(B[i]) =>
           /\ r.recv < B[i].m
           /\ \A j \in DOMAIN r.heard : r.heard[j] < B[i].m
        BY Zenon, <1>2 DEF Reading
    <3> QED
        BY Zenon, <1>1, <1>5, <3>1
  <2>2. ASSUME NEW i \in DOMAIN C, NEW j \in DOMAIN C, IsHead(C[i]), IsHead(C[j]), i < j
        PROVE  C[i].m < C[j].m
    <3>1. i # n /\ i \in DOMAIN B /\ C[i] = B[i]
      <4>1. i # n
          BY SMTT(30), <1>1, <2>2
      <4> QED
          BY Zenon, <1>1, <4>1
    <3>2. CASE j = n
        BY Zenon, <1>1, <1>5, <2>2, <3>1, <3>2
    <3>3. CASE j # n
      <4>1. j \in DOMAIN B /\ C[j] = B[j]
          BY Zenon, <1>1, <3>3
      <4> QED
          BY Zenon, <1>2, <2>2, <3>1, <4>1 DEF Reading
    <3> QED
        BY Zenon, <3>2, <3>3
  <2>3. ASSUME NEW i \in DOMAIN C, IsTail(C[i])
        PROVE  \/ i = 1 /\ r.recv # NoMsg
               \/ i > 1 /\ i - 1 \in DOMAIN C /\ IsHead(C[i - 1])
    <3>1. i # n
        BY Zenon, <1>1, <2>3 DEF IsHead, IsTail
    <3>2. i \in DOMAIN B /\ C[i] = B[i]
        BY Zenon, <1>1, <3>1
    <3>3. \/ i = 1 /\ r.recv # NoMsg
          \/ i > 1 /\ i - 1 \in DOMAIN B /\ IsHead(B[i - 1])
        BY Zenon, <1>2, <2>3, <3>2 DEF Reading
    <3> QED
        BY Zenon, <1>1, <3>3
  <2> QED
      BY Zenon, <1>2, <2>1, <2>2, <2>3 DEF Reading
<1>7. Behind(e, r, C)
  <2>1. \A i \in DOMAIN C : IsHead(C[i]) => C[i].m <= e.asked
      BY Zenon, <1>1, <1>2, <1>3 DEF Behind
  <2>2. ASSUME NEW m, m # NoMsg, Waiting(e, m)
        PROVE  /\ \A i \in DOMAIN r.heard : r.heard[i] < m
               /\ r.recv < m
               /\ \A i \in DOMAIN C : IsHead(C[i]) =>
                     C[i].m < m \/ (C[i].m = m /\ e.deck = m /\ i = Len(C))
    <3>1. m \in Nat /\ (m = e.deck \/ e.deck < m)
        BY Zenon, <2>2, DeckFirst
    <3>2. \A i \in DOMAIN r.heard : r.heard[i] < m
        BY Zenon, <1>2, <2>2 DEF Behind
    <3>3. r.recv < m
        BY SMTT(30), <1>3, <1>5, <3>1
    <3>4. ASSUME NEW i \in DOMAIN C, IsHead(C[i])
          PROVE  C[i].m < m \/ (C[i].m = m /\ e.deck = m /\ i = Len(C))
      <4>1. CASE i = n
          BY Zenon, <1>1, <3>1, <4>1
      <4>2. CASE i # n
        <5>1. i \in DOMAIN B /\ C[i] = B[i]
            BY Zenon, <1>1, <4>2
        <5>2. B[i].m < e.deck /\ B[i].m \in Nat
            BY Zenon, <1>3, <1>5, <3>4, <5>1
        <5> QED
            BY SMTT(30), <1>3, <3>1, <5>1, <5>2
      <4> QED
          BY Zenon, <4>1, <4>2
    <3> QED
        BY Zenon, <3>2, <3>3, <3>4
  <2> QED
      BY Zenon, <1>2, <2>1, <2>2 DEF Behind
<1> QED
    BY Zenon, <1>2, <1>6, <1>7 DEF Flow

\* The sender's last frame is the header of the message on deck, or it was read.
Halfway(e, r, B) ==
    \/ B = <<>> /\ r.recv = e.deck
    \/ B # <<>> /\ IsHead(B[Len(B)]) /\ B[Len(B)].m = e.deck

\* The sender puts the rest of that message on the connection.
LEMMA FlowWriteRest ==
    ASSUME NEW e \in Peer, NEW q, NEW r \in Peer, NEW B \in Seq(Frames), NEW C \in Seq(Frames), NEW f,
           Flow(e, r, B), e.deck # NoMsg, Halfway(e, r, B),
           Narrows(e, q), ~Waiting(q, e.deck), Grows(B, C, f), IsTail(f)
    PROVE  Flow(q, r, C)
<1> DEFINE n == Len(B) + 1
<1>1. /\ n \in DOMAIN C /\ C[n] = f /\ n = Len(C) /\ n \in Nat
      /\ \A i \in DOMAIN C : i # n => i \in DOMAIN B /\ C[i] = B[i] /\ i < n
      /\ \A i \in DOMAIN B : i \in DOMAIN C /\ C[i] = B[i] /\ i \in Nat
    BY Zenon DEF Grows, Gains
<1>a. n = 1 => B = <<>>
    BY SMTT(30) DEF Grows
<1>b. n # 1 => B # <<>> /\ n > 1 /\ n - 1 = Len(B) /\ n - 1 \in DOMAIN B
    BY SMTT(30) DEF Grows
<1>2. HeardInOrder(r) /\ Reading(r, B) /\ Behind(e, r, B)
    BY Zenon DEF Flow
<1> HIDE DEF n
<1>h. ~IsHead(C[n])
    BY Zenon, <1>1 DEF IsHead, IsTail
<1>6. Reading(r, C)
  <2>1. \A i \in DOMAIN C : IsHead(C[i]) => i \in DOMAIN B /\ C[i] = B[i]
      BY Zenon, <1>1, <1>h
  <2>2. \A i \in DOMAIN C : IsHead(C[i]) =>
           /\ r.recv < C[i].m
           /\ \A j \in DOMAIN r.heard : r.heard[j] < C[i].m
           /\ \A j \in DOMAIN C : IsHead(C[j]) /\ i < j => C[i].m < C[j].m
      BY Zenon, <1>2, <2>1 DEF Reading
  <2>3. ASSUME NEW i \in DOMAIN C, IsTail(C[i])
        PROVE  \/ i = 1 /\ r.recv # NoMsg
               \/ i > 1 /\ i - 1 \in DOMAIN C /\ IsHead(C[i - 1])
    <3>1. CASE i # n
      <4>1. i \in DOMAIN B /\ C[i] = B[i]
          BY Zenon, <1>1, <3>1
      <4>2. \/ i = 1 /\ r.recv # NoMsg
            \/ i > 1 /\ i - 1 \in DOMAIN B /\ IsHead(B[i - 1])
          BY Zenon, <1>2, <2>3, <4>1 DEF Reading
      <4> QED
          BY Zenon, <1>1, <4>2
    <3>2. CASE i = n /\ n = 1
        BY Zenon, <1>a, <3>2 DEF Halfway
    <3>3. CASE i = n /\ n # 1
      <4>1. IsHead(B[n - 1]) /\ n - 1 \in DOMAIN B
          BY Zenon, <1>b, <3>3 DEF Halfway
      <4> QED
          BY Zenon, <1>1, <1>b, <3>3, <4>1
    <3> QED
        BY Zenon, <3>1, <3>2, <3>3
  <2> QED
      BY Zenon, <1>2, <2>2, <2>3 DEF Reading
<1>7. Behind(q, r, C)
  <2>0. q.asked = e.asked /\ \A m : m # NoMsg /\ Waiting(q, m) => Waiting(e, m) /\ m # e.deck
      BY Zenon DEF Narrows
  <2>1. \A i \in DOMAIN C : IsHead(C[i]) => i \in DOMAIN B /\ C[i] = B[i]
      BY Zenon, <1>1, <1>h
  <2>2. ASSUME NEW m, m # NoMsg, Waiting(q, m)
        PROVE  /\ \A i \in DOMAIN r.heard : r.heard[i] < m
               /\ r.recv < m
               /\ \A i \in DOMAIN C : IsHead(C[i]) => C[i].m < m
      BY Zenon, <1>2, <2>0, <2>1, <2>2 DEF Behind
  <2> QED
      BY Zenon, <1>2, <2>0, <2>1, <2>2 DEF Behind
<1> QED
    BY Zenon, <1>2, <1>6, <1>7 DEF Flow

----------------------------------------------------------------------------
\* The connection state of an end, and the handshakes under way

\* What the state of a peer says of its socket.
Phases(r, d, ss) ==
    /\ r.main = NoSocket => (r.established <=> r.state = "connected")
    /\ r.established => r.sd # NoSocket
    /\ r.recv # NoMsg => r.established
    /\ r.half /\ r.worker # "lift" => r.established
    /\ r.half => r.deck # NoMsg
    /\ r.state \in {"connecting", "connect_ack"} /\ r.sd # NoSocket => ss[r.sd].by = d
    /\ r.sd # NoSocket /\ ss[r.sd].by # d => r.established

\* Behind the answer to a handshake come messages only.
Opening(b) == \A i \in DOMAIN b : IF i = 1 THEN ~IsData(b[i]) ELSE IsData(b[i])

\* At most an identification is in flight.
IdentOnly(b) == b = <<>> \/ b = <<Frame("ident", NoMsg)>>

\* The empty buffer and the lone identification.
LEMMA Idents ==
    /\ IdentOnly(<<>>) /\ Opening(<<>>)
    /\ \A t \in {"ident", "nack"} : LET b == <<>> \o <<Frame(t, NoMsg)>> IN
           b \in Seq(Frames) /\ b # <<>> /\ Opening(b) /\ \A i \in DOMAIN b : ~IsData(b[i])
    /\ IdentOnly(<<>> \o <<Frame("ident", NoMsg)>>)
    /\ \A b : IdentOnly(b) /\ b # <<>> => Tail(b) = <<>>
<1>1. \A t \in {"ident", "nack"} : Frame(t, NoMsg) \in Frames /\ ~IsData(Frame(t, NoMsg))
    BY Zenon DEF Frame, Frames, IsData, NoMsg
<1>2. \A g \in Frames : <<>> \o <<g>> = <<g>>
    BY SMTT(30)
<1>3. \A g \in Frames : LET b == <<g>> IN
          b \in Seq(Frames) /\ b # <<>> /\ Tail(b) = <<>> /\ \A i \in DOMAIN b : i = 1 /\ b[i] = g
    BY SMTT(30)
<1>4. Opening(<<>>)
    BY SMTT(30) DEF Opening
<1>5. \A t \in {"ident", "nack"} : LET b == <<>> \o <<Frame(t, NoMsg)>> IN
          b = <<Frame(t, NoMsg)>> /\ b \in Seq(Frames) /\ b # <<>> /\ Tail(b) = <<>>
          /\ (\A i \in DOMAIN b : i = 1 /\ ~IsData(b[i])) /\ Opening(b)
    BY ZenonT(30), <1>1, <1>2, <1>3 DEF Opening
<1> QED
    BY Zenon, <1>4, <1>5 DEF IdentOnly

\* A socket x = ss[s] that d dialled: until the other end e has accepted it no
\* message is on it, and d, which waits for the answer, has sent its ident only.
Shake(x, d, r, e, s) ==
    /\ ~x.taken => IdentOnly(x.buf[Far(d)])
    /\ e.main = s => x.buf[Far(d)] = <<>>
    /\ ~x.taken \/ e.main = s => x.buf[d] = <<>> /\ (r.sd = s => ~r.established)
    /\ r.sd = s /\ ~r.established =>
           /\ x.taken => x.buf[Far(d)] = <<>>
           /\ r.state = "connecting" =>
                  x.buf[Far(d)] = <<>> /\ x.buf[d] = <<>> /\ e.sd # s /\ e.main # s
           /\ Opening(x.buf[d])
           /\ e.sd = s /\ ~x.broken => x.buf[d] # <<>>

\* The handshakes on the sockets that d dialled.
Shakes(d, r, e, ss) == \A s \in DOMAIN ss : ss[s].by = d => Shake(ss[s], d, r, e, s)

\* An established connection carries messages only.
DataOnly(r, d, ss) ==
    r.established => \A i \in DOMAIN ss[r.sd].buf[d] : IsData(ss[r.sd].buf[d][i])

\* e has sent the header of the message on deck to r, at end d, and remembers it,
\* or the connection that carried it is gone.
Halves(d, r, e, ss) ==
    LET B == Inbox(r, d, ss) IN
    /\ Again(e, r, B) /\ ~e.half =>
           e.worker = "lift" \/ (e.established /\ ~ss[e.sd].open[d])
    /\ e.half /\ e.worker # "lift" /\ ss[e.sd].open[d] /\ ~ss[e.sd].broken =>
           r.sd = e.sd /\ Halfway(e, r, B)

\* The third invariant, for one end: d has record r, the other end e.
Side(d, r, e, ss) ==
    /\ Phases(r, d, ss)
    /\ Shakes(d, r, e, ss)
    /\ DataOnly(r, d, ss)
    /\ Flow(e, r, Inbox(r, d, ss))
    /\ Halves(d, r, e, ss)

\* Daemon d's record is r, the other's is e.
Pair(d, r, e, ss) ==
    /\ Holding(r, d, ss) /\ Holding(e, Far(d), ss)
    /\ Piped(r) /\ Piped(e)
    /\ Side(d, r, e, ss) /\ Side(Far(d), e, r, ss)

\* What a pair says of the types.
LEMMA PairTypes ==
    ASSUME NEW d \in Ends, NEW r, NEW e, NEW ss, Pair(d, r, e, ss)
    PROVE  /\ r \in Peer /\ e \in Peer /\ ss \in Seq(Sock) /\ SocketsTell(ss)
           /\ HoldsSockets(r, d, ss) /\ HoldsSockets(e, Far(d), ss)
           /\ PipeOK(r) /\ PipeOK(e)
           /\ Far(d) \in Ends /\ Far(d) # d /\ Far(Far(d)) = d
           /\ Inbox(r, d, ss) \in Seq(Frames) /\ Inbox(e, Far(d), ss) \in Seq(Frames)
<1>1. Far(d) \in Ends /\ Far(d) # d /\ Far(Far(d)) = d
    BY Zenon, FarEnd
<1>2. /\ r \in Peer /\ e \in Peer /\ ss \in Seq(Sock) /\ SocketsTell(ss)
      /\ HoldsSockets(r, d, ss) /\ HoldsSockets(e, Far(d), ss)
      /\ PipeOK(r) /\ PipeOK(e)
    BY Zenon DEF Pair, Holding, Piped
<1>3. ASSUME NEW g \in Ends, NEW o, HoldsSockets(o, g, ss)
      PROVE  Inbox(o, g, ss) \in Seq(Frames)
  <2>1. CASE o.sd = NoSocket
    <3>1. <<>> \in Seq(Frames)
        BY SMTT(30)
    <3> QED
        BY Zenon, <2>1, <3>1 DEF Inbox
  <2>2. CASE o.sd # NoSocket
    <3>1. o.sd \in DOMAIN ss
        BY Zenon, <1>3, <2>2 DEF HoldsSockets
    <3> QED
        BY Zenon, <1>2, <2>2, <3>1, BufType DEF Inbox
  <2> QED
      BY Zenon, <2>1, <2>2
<1> QED
    BY Zenon, <1>1, <1>2, <1>3

\* A step of d gives the next pair once both sides are in order again.
LEMMA PairStep ==
    ASSUME NEW d \in Ends, NEW r, NEW e, NEW ss, Pair(d, r, e, ss), NEW q, NEW tt,
           Steps(d, ss, q, tt), Piped(q), Side(d, q, e, tt), Side(Far(d), e, q, tt)
    PROVE  Pair(d, q, e, tt)
<1>1. e \in Peer /\ ss \in Seq(Sock) /\ HoldsSockets(e, Far(d), ss)
    BY Zenon, PairTypes
<1>2. HoldsSockets(e, Far(d), tt)
    BY Zenon, <1>1, OtherEndHolds DEF Steps
<1>3. tt \in Seq(Sock) /\ SocketsTell(tt)
    BY Zenon DEF Steps, Moves
<1> QED
    BY Zenon, <1>1, <1>2, <1>3 DEF Pair, Holding, Steps

\* An end that is connected to an end still open is connected to that end's socket.
LEMMA SameSocket ==
    ASSUME NEW d \in Ends, NEW r, NEW e, NEW ss, Pair(d, r, e, ss),
           r.established, ss[r.sd].open[Far(d)]
    PROVE  e.sd = r.sd
<1> DEFINE s == r.sd
           f == Far(d)
<1>1. /\ HoldsSockets(r, d, ss) /\ HoldsSockets(e, f, ss) /\ f \in Ends /\ f # d /\ Far(f) = d
      /\ ss \in Seq(Sock)
    BY Zenon, PairTypes
<1>2. s # NoSocket /\ s \in DOMAIN ss
    BY Zenon, <1>1 DEF Pair, Side, Phases, HoldsSockets
<1>3. s = e.sd \/ s = e.main \/ (ss[s].by = d /\ ~ss[s].taken)
    BY Zenon, <1>1, <1>2 DEF HoldsSockets
<1>4. ASSUME s = e.main \/ (ss[s].by = d /\ ~ss[s].taken) PROVE FALSE
  <2>1. ss[s].by = d
      BY Zenon, <1>1, <1>2, <1>4 DEF HoldsSockets
  <2>2. Shake(ss[s], d, r, e, s)
      BY Zenon, <1>2, <2>1 DEF Pair, Side, Shakes
  <2> QED
      BY Zenon, <1>4, <2>2 DEF Shake
<1> QED
    BY Zenon, <1>3, <1>4

\* What the sender's line lost has no header under way.
LEMMA AgainBack ==
    ASSUME NEW r, NEW q, NEW e, NEW B, Flow(r, e, B), Narrows(r, q), Again(q, e, B),
           e.recv \in Nat, \A i \in DOMAIN B : B[i].m \in Nat, q.deck \in Nat
    PROVE  Again(r, e, B) /\ r.deck = q.deck
<1> DEFINE m == q.deck
<1>1. m # NoMsg /\ Waiting(q, m)
    BY Zenon DEF Again, Waiting
<1>2. Waiting(r, m)
    BY Zenon, <1>1 DEF Narrows
<1>3. r.deck = m
    BY SMTT(30), <1>1, <1>2 DEF Flow, Behind, Again
<1> QED
    BY Zenon, <1>3 DEF Again

----------------------------------------------------------------------------
\* The kinds of step

\* A step that touches no socket.
LEMMA Quiet ==
    ASSUME NEW d \in Ends, NEW r, NEW e, NEW ss, Pair(d, r, e, ss), NEW q,
           Steps(d, ss, q, ss), Piped(q),
           q.sd = r.sd, q.main = r.main, q.established = r.established,
           q.recv = r.recv, q.heard = r.heard,
           \/ q.state = r.state
           \/ r.sd = NoSocket /\ r.main = NoSocket /\ q.state \in {"connecting", "failed"},
           q.half => r.half /\ q.deck = r.deck /\ (q.worker = "lift" <=> r.worker = "lift"),
           Flow(q, e, Inbox(e, Far(d), ss)),
           ~q.half /\ Again(q, e, Inbox(e, Far(d), ss)) =>
               ~r.half /\ Again(r, e, Inbox(e, Far(d), ss)) /\ (r.worker = "lift" => q.worker = "lift")
    PROVE  Pair(d, q, e, ss)
<1> DEFINE f == Far(d)
<1>1. Side(d, r, e, ss) /\ Side(f, e, r, ss)
    BY Zenon DEF Pair
<1>2. Phases(q, d, ss)
    BY Zenon, <1>1 DEF Side, Phases
<1>3. Shakes(d, q, e, ss)
  <2> SUFFICES ASSUME NEW s \in DOMAIN ss, ss[s].by = d
               PROVE  Shake(ss[s], d, q, e, s)
      BY Zenon DEF Shakes
  <2>1. Shake(ss[s], d, r, e, s)
      BY Zenon, <1>1 DEF Side, Shakes
  <2>2. s # NoSocket
      BY SMTT(30), PairTypes DEF NoSocket
  <2> QED
      BY Zenon, <2>1, <2>2 DEF Shake
<1>4. DataOnly(q, d, ss)
    BY Zenon, <1>1 DEF Side, DataOnly
<1>5. Inbox(q, d, ss) = Inbox(r, d, ss)
    BY Zenon DEF Inbox
<1>6. Flow(e, q, Inbox(q, d, ss))
    BY Zenon, <1>1, <1>5, FlowSame DEF Side
<1>7. Halves(d, q, e, ss)
    BY ZenonT(30), <1>1, <1>5 DEF Side, Halves, Again, Halfway
<1>8. Shakes(f, e, q, ss)
    BY ZenonT(60), <1>1 DEF Side, Shakes, Shake
<1>9. Halves(f, e, q, ss)
  <2> DEFINE B == Inbox(e, f, ss)
  <2>1. Again(q, e, B) /\ ~q.half => q.worker = "lift" \/ (q.established /\ ~ss[q.sd].open[f])
      BY Zenon, <1>1 DEF Side, Halves
  <2>2. q.half /\ q.worker # "lift" /\ ss[q.sd].open[f] /\ ~ss[q.sd].broken =>
           e.sd = q.sd /\ Halfway(q, e, B)
      BY Zenon, <1>1 DEF Side, Halves, Halfway
  <2> QED
      BY Zenon, <2>1, <2>2 DEF Halves
<1>10. Side(d, q, e, ss) /\ Side(f, e, q, ss)
    BY Zenon, <1>1, <1>2, <1>3, <1>4, <1>6, <1>7, <1>8, <1>9 DEF Side
<1> QED
    BY Zenon, <1>10, PairStep

\* A step that only moves messages along the line.
LEMMA Idles ==
    ASSUME NEW d \in Ends, NEW r, NEW e, NEW ss, Pair(d, r, e, ss), NEW q,
           Steps(d, ss, q, ss), Piped(q), Narrows(r, q),
           q.sd = r.sd, q.main = r.main, q.established = r.established,
           q.recv = r.recv, q.heard = r.heard, q.half = r.half,
           \/ q.state = r.state
           \/ r.sd = NoSocket /\ r.main = NoSocket /\ q.state \in {"connecting", "failed"},
           r.deck # NoMsg => q.deck = r.deck,
           q.worker = "lift" <=> r.worker = "lift"
    PROVE  Pair(d, q, e, ss)
<1> DEFINE B == Inbox(e, Far(d), ss)
<1>1. r \in Peer /\ e \in Peer /\ B \in Seq(Frames) /\ q \in Peer
    BY Zenon, PairTypes DEF Piped
<1>2. Flow(r, e, B) /\ (r.half => r.deck # NoMsg)
    BY Zenon DEF Pair, Side, Phases
<1>3. e.recv \in Nat /\ q.deck \in Nat /\ \A i \in DOMAIN B : B[i].m \in Nat
    BY ZenonT(30), <1>1, FrameTypes, Numbers
<1>4. Flow(q, e, B)
    BY Zenon, <1>2, FlowSender
<1>5. Again(q, e, B) => Again(r, e, B)
    BY ZenonT(30), <1>2, <1>3, AgainBack
<1> HIDE DEF B
<1>6. Flow(q, e, Inbox(e, Far(d), ss)) /\
      (Again(q, e, Inbox(e, Far(d), ss)) => Again(r, e, Inbox(e, Far(d), ss)))
    BY ZenonT(30), <1>4, <1>5 DEF B
<1>7. q.half => r.half /\ q.deck = r.deck /\ (q.worker = "lift" <=> r.worker = "lift")
    BY Zenon, <1>2
<1> QED
    BY ZenonT(30), <1>6, <1>7, Quiet

\* A step that lifts the messages off the line.
LEMMA Lifts ==
    ASSUME NEW d \in Ends, NEW r, NEW e, NEW ss, Pair(d, r, e, ss), NEW q,
           Steps(d, ss, q, ss), Piped(q), Narrows(r, q),
           q.sd = r.sd, q.main = r.main, q.established = r.established,
           q.recv = r.recv, q.heard = r.heard, q.half = FALSE, q.deck = NoMsg,
           \/ q.state = r.state
           \/ r.sd = NoSocket /\ r.main = NoSocket /\ q.state \in {"connecting", "failed"}
    PROVE  Pair(d, q, e, ss)
<1>1. Flow(q, e, Inbox(e, Far(d), ss))
    BY Zenon, FlowSender DEF Pair, Side
<1>2. ~Again(q, e, Inbox(e, Far(d), ss))
    BY Zenon DEF Again
<1> QED
    BY ZenonT(30), <1>1, <1>2, Quiet

\* Daemon d has a connection.
LEMMA Connected ==
    ASSUME NEW d \in Ends, NEW r, NEW e, NEW ss, Pair(d, r, e, ss), r.state = "connected"
    PROVE  /\ r \in Peer /\ ss \in Seq(Sock) /\ SocketsTell(ss) /\ HoldsSockets(r, d, ss)
           /\ r.main = NoSocket /\ r.established /\ r.sd # NoSocket /\ r.sd \in DOMAIN ss
           /\ ss[r.sd].open[d]
<1>1. r \in Peer /\ ss \in Seq(Sock) /\ SocketsTell(ss) /\ HoldsSockets(r, d, ss)
    BY Zenon, PairTypes
<1>2. r.main = NoSocket /\ r.sd # NoSocket /\ r.sd \in DOMAIN ss /\ ss[r.sd].open[d]
    BY ZenonT(30), <1>1 DEF HoldsSockets
<1>3. r.established
    BY Zenon, <1>2 DEF Pair, Side, Phases
<1> QED
    BY ZenonT(30), <1>1, <1>2, <1>3

\* Daemon d is establishing a connection.
LEMMA Establishing ==
    ASSUME NEW d \in Ends, NEW r, NEW e, NEW ss, Pair(d, r, e, ss),
           r.state \in {"connecting", "connect_ack"}
    PROVE  /\ r \in Peer /\ ss \in Seq(Sock) /\ HoldsSockets(r, d, ss)
           /\ r.main = NoSocket /\ ~r.established /\ r.recv = NoMsg
<1>1. r \in Peer /\ ss \in Seq(Sock) /\ HoldsSockets(r, d, ss)
    BY ZenonT(30), PairTypes
<1>2. r.main = NoSocket
    BY ZenonT(30), <1>1 DEF HoldsSockets
<1>3. ~r.established /\ r.recv = NoMsg
    BY ZenonT(30), <1>2 DEF Pair, Side, Phases
<1> QED
    BY Zenon, <1>1, <1>2, <1>3

\* What two writes put on the socket.
LEMMA WrittenTwice ==
    ASSUME NEW ss \in Seq(Sock), NEW s \in DOMAIN ss, NEW d \in Ends,
           NEW f \in Frames, NEW g \in Frames
    PROVE  Written(Written(ss, s, d, <<f>>), s, d, <<g>>) = Written(ss, s, d, <<f>> \o <<g>>)
<1> DEFINE x == ss[s]
           e == Far(d)
           With(b) == [ss EXCEPT ![s].buf[e] = b]
<1>1. CASE ~Reaches(ss, s, d)
    BY Zenon, <1>1 DEF Reaches, Written
<1>2. CASE Reaches(ss, s, d)
  <2>1. /\ Written(ss, s, d, <<f>>) = With(x.buf[e] \o <<f>>)
        /\ Written(ss, s, d, <<f>> \o <<g>>) = With(x.buf[e] \o (<<f>> \o <<g>>))
      BY Zenon, <1>2 DEF Reaches, Written
  <2>2. e \in Ends /\ x \in Sock /\ x.buf[e] \in Seq(Frames)
      BY ZenonT(30), FarEnd, SockAt, BufType
  <2>3. (x.buf[e] \o <<f>>) \o <<g>> = x.buf[e] \o (<<f>> \o <<g>>)
      BY SMTT(30), <2>2
  <2>4. ASSUME NEW b \in Seq(Frames)
        PROVE  Written(With(b), s, d, <<g>>) = With(b \o <<g>>)
    <3> DEFINE y == [x EXCEPT !.buf[e] = b]
    <3>a. y \in Sock /\ y.broken = x.broken /\ y.open = x.open /\ y.buf[e] = b
        BY SMTT(30), <2>2, SockWrite
    <3>b. ASSUME NEW c PROVE [y EXCEPT !.buf[e] = c] = [x EXCEPT !.buf[e] = c]
      <4>1. ASSUME NEW h \in [Ends -> Seq(Frames)]
            PROVE  [[h EXCEPT ![e] = b] EXCEPT ![e] = c] = [h EXCEPT ![e] = c]
          BY Zenon
      <4>2. x.buf \in [Ends -> Seq(Frames)]
          BY Zenon, <2>2 DEF Sock
      <4>3. ASSUME NEW h, NEW k PROVE [[x EXCEPT !.buf = h] EXCEPT !.buf = k] = [x EXCEPT !.buf = k]
          BY Zenon, <2>2 DEF Sock
      <4>4. y.buf = [x.buf EXCEPT ![e] = b]
          BY Zenon, <2>2 DEF Sock
      <4> QED
          BY ZenonT(30), <4>1, <4>2, <4>3, <4>4
    <3>1. /\ y \in Sock /\ y.broken = x.broken /\ y.open = x.open /\ y.buf[e] = b
          /\ [y EXCEPT !.buf[e] = b \o <<g>>] = [x EXCEPT !.buf[e] = b \o <<g>>]
        BY Zenon, <3>a, <3>b
    <3>2. With(b) = [ss EXCEPT ![s] = y]
        BY Zenon
    <3> HIDE DEF y
    <3>3. With(b)[s] = y
        BY ZenonT(30), <3>2
    <3> HIDE DEF With
    <3>4. Written(With(b), s, d, <<g>>) = [With(b) EXCEPT ![s] = [y EXCEPT !.buf[e] = b \o <<g>>]]
        BY ZenonT(30), <1>2, <3>1, <3>3 DEF Written, Reaches
    <3>5. [With(b) EXCEPT ![s] = [y EXCEPT !.buf[e] = b \o <<g>>]] = With(b \o <<g>>)
        BY ZenonT(30), <3>1, <3>2 DEF With
    <3> QED
        BY ZenonT(30), <3>4, <3>5
  <2>5. x.buf[e] \o <<f>> \in Seq(Frames)
      BY SMTT(30), <2>2
  <2> QED
      BY ZenonT(30), <2>1, <2>3, <2>4, <2>5
<1> QED
    BY Zenon, <1>1, <1>2


\* send_nb touches the line and the state, not the connection.
LEMMA SendNbFields ==
    ASSUME NEW r \in Peer, NEW m \in Nat
    PROVE  LET q == SendNb(r, m) IN
           /\ q.sd = r.sd /\ q.main = r.main /\ q.established = r.established
           /\ q.recv = r.recv /\ q.heard = r.heard /\ q.half = r.half
           /\ q.deck = r.deck /\ q.worker = r.worker /\ q.addrFailed = r.addrFailed
           /\ q.sev = r.sev /\ q.rev = r.rev
           /\ \/ q.state = r.state
              \/ q.state = "connecting" /\ r.state \in {"unconnected", "closed", "failed"}
<1> DEFINE q == SendNb(r, m)
<1>1. CASE r.down
  <2>1. q = Ended(r, <<m>>)
      BY ZenonT(30), <1>1 DEF SendNb
  <2> QED
      BY ZenonT(30), <2>1 DEF Ended, Peer
<1>2. CASE ~r.down /\ r.state = "connected"
  <2>1. q = [r EXCEPT !.work = Append(@, [m |-> m, activate |-> TRUE])]
      BY ZenonT(30), <1>2 DEF SendNb
  <2> QED
      BY ZenonT(30), <2>1 DEF Peer
<1>3. CASE ~r.down /\ r.state \in {"connecting", "connect_ack"}
  <2>1. q = [r EXCEPT !.work = Append(@, [m |-> m, activate |-> FALSE])]
      BY ZenonT(30), <1>3 DEF SendNb
  <2> QED
      BY ZenonT(60), <2>1 DEF Peer
<1>4. CASE ~r.down /\ r.state \in {"unconnected", "closed", "failed"}
  <2>1. q = Post([[r EXCEPT !.work = Append(@, [m |-> m, activate |-> FALSE])]
                     EXCEPT !.state = "connecting"], "try")
      BY Zenon, <1>4 DEF SendNb
  <2> QED
      BY ZenonT(60), <1>4, <2>1 DEF Post, Peer
<1>5. r.state \in States
    BY Zenon DEF Peer
<1> QED
    BY ZenonT(60), <1>1, <1>2, <1>3, <1>4, <1>5 DEF States


\* Closing a socket a daemon has open is a step it may take.
LEMMA ShutMoves ==
    ASSUME NEW d \in Ends, NEW ss \in Seq(Sock), NEW s \in DOMAIN ss, SocketsTell(ss), ss[s].taken
    PROVE  Moves(ss, Shut(ss, s, d), d)
<1> DEFINE tt == Shut(ss, s, d)
<1>1. Closes(ss, tt, s, d)
    BY ZenonT(30), ShutEffect
<1>2. Far(d) \in Ends /\ Far(d) # d /\ \A e \in Ends : e = d \/ e = Far(d)
    BY ZenonT(30), FarEnd
<1> HIDE DEF tt
<1>3. SocketsTell(tt)
  <2> SUFFICES ASSUME NEW k \in DOMAIN ss
               PROVE  /\ ~tt[k].taken => tt[k].open[Far(tt[k].by)]
                      /\ \A e \in Ends : ~tt[k].open[e] => tt[k].buf[e] = <<>>
      BY ZenonT(30), <1>1 DEF SocketsTell, Closes
  <2>1. CASE k = s
      BY ZenonT(30), <1>1, <1>2, <2>1 DEF SocketsTell, Closes
  <2>2. CASE k # s
      BY ZenonT(60), <1>1, <2>2 DEF SocketsTell, Closes
  <2> QED
      BY ZenonT(30), <2>1, <2>2
<1>4. ASSUME NEW k \in DOMAIN ss
      PROVE  /\ tt[k].by = ss[k].by /\ tt[k].open[Far(d)] = ss[k].open[Far(d)]
             /\ tt[k].taken = ss[k].taken
  <2>1. CASE k = s
      BY ZenonT(30), <1>1, <2>1 DEF Closes
  <2>2. CASE k # s
      BY ZenonT(30), <1>1, <2>2 DEF Closes
  <2> QED
      BY Zenon, <2>1, <2>2
<1>5. tt \in Seq(Sock) /\ DOMAIN tt = DOMAIN ss
    BY ZenonT(30), <1>1 DEF Closes
<1> QED
    BY ZenonT(60), <1>3, <1>4, <1>5 DEF Moves, tt

=============================================================================

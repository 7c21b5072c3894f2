--------------------------- MODULE TcpPipeProofs ---------------------------
(***************************************************************************)
(* Every handler keeps PipeInv: a message is in one place of the line, or  *)
(* completed, and the line keeps the order in which messages were handed   *)
(* in. Each send is completed at most once.                                *)
(***************************************************************************)
EXTENDS TcpPeerProofs

\* An event that brings no message leaves the line as it is.
LEMMA PipePost ==
    ASSUME NEW r \in Peer, NEW q \in Peer, PipeOK(r), NEW e \in Events \ {"send"},
           q.deck = r.deck, q.queue = r.queue, q.work = r.work, q.asked = r.asked, q.ended = r.ended,
           q.posted = Append(r.posted, [e |-> e, m |-> NoMsg])
    PROVE  PipeOK(q) /\ Narrows(r, q)
<1>1. r.posted \in Seq(Posted)
    BY Zenon DEF Peer
<1>2. /\ \A i \in DOMAIN q.posted : IsSend(q.posted[i]) => i \in DOMAIN r.posted /\ q.posted[i] = r.posted[i]
    BY SMTT(30), <1>1 DEF IsSend
<1>3. InLine(q)
    BY ZenonT(30), <1>2 DEF PipeOK, InLine, QueueInLine, WorkInLine, PostedInLine
<1>4. \A m : Waiting(q, m) => Waiting(r, m)
    BY Zenon, <1>2 DEF Waiting
<1>5. Narrows(r, q)
    BY Zenon, <1>4 DEF Narrows
<1> QED
    BY Zenon, <1>3, <1>4, <1>5 DEF PipeOK, EndedOnce

\* The next event is taken; the message it may bring is in no other place.
LEMMA PipePop ==
    ASSUME NEW r \in Peer, NEW q \in Peer, PipeOK(r), r.posted # <<>>,
           q.deck = r.deck, q.queue = r.queue, q.work = r.work, q.asked = r.asked, q.ended = r.ended,
           q.posted = Tail(r.posted)
    PROVE  /\ PipeOK(q) /\ Narrows(r, q)
           /\ IsSend(Head(r.posted)) =>
                 LET m == Head(r.posted).m IN
                 /\ Waiting(r, m)
                 /\ ~Waiting(q, m) /\ m \in 1 .. q.asked
                 /\ \A i \in DOMAIN q.ended : q.ended[i] # m
                 /\ q.deck < m
                 /\ \A i \in DOMAIN q.queue : q.queue[i] < m
                 /\ \A i \in DOMAIN q.work : q.work[i].m < m
                 /\ \A i \in DOMAIN q.posted : IsSend(q.posted[i]) => m < q.posted[i].m
<1>1. r.posted \in Seq(Posted) /\ r.deck \in Nat /\ r.asked \in Nat
    BY Zenon DEF Peer
<1>2. /\ \A i \in DOMAIN q.posted : i + 1 \in DOMAIN r.posted /\ q.posted[i] = r.posted[i + 1]
      /\ \A i \in DOMAIN q.posted : i \in Nat
      /\ 1 \in DOMAIN r.posted /\ Head(r.posted) = r.posted[1]
      /\ \A i \in DOMAIN q.posted : 1 < i + 1
      /\ \A i, j \in DOMAIN q.posted : i < j => i + 1 < j + 1
    BY SMTT(30), <1>1
<1>3. InLine(q)
    BY ZenonT(30), <1>2 DEF PipeOK, InLine, QueueInLine, WorkInLine, PostedInLine
<1>4. \A m : Waiting(q, m) => Waiting(r, m)
    BY Zenon, <1>2 DEF Waiting
<1>5. EndedOnce(q)
    BY Zenon, <1>4 DEF PipeOK, EndedOnce
<1>6. ASSUME IsSend(r.posted[1])
      PROVE  LET m == r.posted[1].m IN
                 /\ Waiting(r, m)
                 /\ ~Waiting(q, m) /\ m \in 1 .. q.asked
                 /\ \A i \in DOMAIN q.ended : q.ended[i] # m
                 /\ q.deck < m
                 /\ \A i \in DOMAIN q.queue : q.queue[i] < m
                 /\ \A i \in DOMAIN q.work : q.work[i].m < m
                 /\ \A i \in DOMAIN q.posted : IsSend(q.posted[i]) => m < q.posted[i].m
  <2> DEFINE m == r.posted[1].m
  <2>1. m \in Nat
      BY Zenon, <1>2, Numbers
  <2>2. /\ q.deck < m
        /\ \A i \in DOMAIN q.queue : q.queue[i] < m
        /\ \A i \in DOMAIN q.work : q.work[i].m < m
        /\ \A i \in DOMAIN q.posted : IsSend(q.posted[i]) => m < q.posted[i].m
      BY Zenon, <1>2, <1>6 DEF PipeOK, InLine, QueueInLine, WorkInLine, PostedInLine
  <2>3. m \in 1 .. q.asked
      BY SMTT(30), <1>1, <1>2, <1>6, <2>1, <2>2 DEF PipeOK, InLine, QueueInLine, WorkInLine, PostedInLine
  <2>4. ~Waiting(q, m)
    <3>1. /\ q.deck \in Nat
          /\ \A i \in DOMAIN q.queue : q.queue[i] \in Nat
          /\ \A i \in DOMAIN q.work : q.work[i].m \in Nat
          /\ \A i \in DOMAIN q.posted : q.posted[i].m \in Nat
        BY Zenon, Numbers
    <3> QED
        BY SMTT(30), <2>1, <2>2, <3>1 DEF Waiting
  <2>5. Waiting(r, m)
      BY Zenon, <1>2, <1>6 DEF Waiting
  <2>6. \A i \in DOMAIN q.ended : q.ended[i] # m
      BY Zenon, <2>5 DEF PipeOK, EndedOnce
  <2> QED
      BY Zenon, <2>2, <2>3, <2>4, <2>5, <2>6
<1>7. Narrows(r, q)
    BY Zenon, <1>4 DEF Narrows
<1> QED
    BY Zenon, <1>2, <1>3, <1>5, <1>6, <1>7 DEF PipeOK

\* A record with the same messages in line.
LEMMA PipeSame ==
    ASSUME NEW r \in Peer, NEW q \in Peer, PipeOK(r),
           q.deck = r.deck, q.queue = r.queue, q.work = r.work, q.asked = r.asked,
           q.ended = r.ended, q.posted = r.posted
    PROVE  PipeOK(q) /\ Narrows(r, q)
    BY ZenonT(60) DEF Narrows, PipeOK, InLine, QueueInLine, WorkInLine, PostedInLine, EndedOnce, Waiting

\* A message is handed in, behind all others.
LEMMA PipeAsk ==
    ASSUME NEW r \in Peer, NEW q \in Peer, PipeOK(r),
           q.deck = r.deck, q.queue = r.queue, q.work = r.work, q.asked = r.asked + 1,
           q.ended = r.ended, NEW x, Gains(r.posted, q.posted, x), IsSend(x), x.m = r.asked + 1
    PROVE  PipeOK(q)
<1>1. Gains(r.posted, q.posted, x)
    BY Zenon
<1>2. IsSend(x) /\ x.m = r.asked + 1 /\ r.asked \in Nat /\ r.deck \in Nat
    BY Zenon, Numbers
<1>3. /\ \A i \in DOMAIN r.queue : r.queue[i] \in Nat
      /\ \A i \in DOMAIN r.work : r.work[i].m \in Nat
      /\ \A i \in DOMAIN r.posted : r.posted[i].m \in Nat
      /\ \A i \in DOMAIN r.ended : r.ended[i] \in Nat
    BY Zenon, Numbers
<1>a. /\ QueueInLine(r) /\ WorkInLine(r) /\ PostedInLine(r) /\ r.deck <= r.asked
    BY Zenon DEF PipeOK, InLine
<1>b. \A j \in DOMAIN q.posted :
          \/ q.posted[j].m = r.asked + 1
          \/ j \in DOMAIN r.posted /\ q.posted[j] = r.posted[j]
    BY Zenon, <1>1, <1>2 DEF Gains
<1>c. \A i, j \in DOMAIN q.posted : i < j => i \in DOMAIN r.posted /\ q.posted[i] = r.posted[i]
    BY SMTT(30), <1>1 DEF Gains
<1>4. QueueInLine(q)
    BY SMTT(30), <1>a, <1>b, <1>2, <1>3 DEF QueueInLine
<1>5. WorkInLine(q)
    BY SMTT(30), <1>a, <1>b, <1>2, <1>3 DEF WorkInLine
<1>6. PostedInLine(q)
  <2> SUFFICES ASSUME NEW i \in DOMAIN q.posted, IsSend(q.posted[i])
               PROVE  /\ q.deck < q.posted[i].m /\ q.posted[i].m <= q.asked
                      /\ \A j \in DOMAIN q.posted : IsSend(q.posted[j]) /\ i < j => q.posted[i].m < q.posted[j].m
      BY Zenon DEF PostedInLine
  <2>1. q.deck < q.posted[i].m /\ q.posted[i].m <= q.asked
      BY SMTT(30), <1>a, <1>b, <1>2, <1>3 DEF PostedInLine
  <2>2. ASSUME NEW j \in DOMAIN q.posted, IsSend(q.posted[j]), i < j
        PROVE  q.posted[i].m < q.posted[j].m
    <3>1. i \in DOMAIN r.posted /\ q.posted[i] = r.posted[i]
        BY Zenon, <1>c, <2>2
    <3> QED
        BY SMTT(30), <1>a, <1>b, <1>2, <1>3, <2>2, <3>1 DEF PostedInLine
  <2> QED
      BY Zenon, <2>1, <2>2
<1>7. InLine(q)
    BY SMTT(30), <1>2, <1>4, <1>5, <1>6 DEF PipeOK, InLine
<1>8. \A m : Waiting(q, m) => Waiting(r, m) \/ m = r.asked + 1
    BY ZenonT(30), <1>1, <1>2 DEF Waiting, Gains
<1>9. EndedOnce(q)
    BY SMTT(30), <1>2, <1>3, <1>8 DEF PipeOK, EndedOnce
<1> QED
    BY Zenon, <1>7, <1>9 DEF PipeOK

\* A message of no place in the line yet.
Unplaced(q, m) ==
    /\ m \in 1 .. q.asked
    /\ ~Waiting(q, m)
    /\ \A i \in DOMAIN q.ended : q.ended[i] # m

\* A message that is in no place of the line is completed.
LEMMA PipeEnd ==
    ASSUME NEW r \in Peer, NEW q \in Peer, PipeOK(r), NEW m, Unplaced(r, m),
           q.deck = r.deck, q.queue = r.queue, q.work = r.work, q.asked = r.asked,
           q.ended = r.ended \o <<m>>, q.posted = r.posted
    PROVE  PipeOK(q) /\ Narrows(r, q)
<1>1. Gains(r.ended, q.ended, m)
    BY Zenon, Numbers, AppendGains
<1>2. InLine(q)
    BY Zenon DEF PipeOK, InLine, QueueInLine, WorkInLine, PostedInLine
<1>3. \A k : Waiting(q, k) <=> Waiting(r, k)
    BY Zenon DEF Waiting
<1>4. EndedOnce(q)
    BY ZenonT(60), <1>1, <1>3 DEF PipeOK, EndedOnce, Unplaced, Gains
<1> QED
    BY Zenon, <1>2, <1>3, <1>4 DEF PipeOK, Narrows

\* A message is handed to the worker thread.
LEMMA PipeWork ==
    ASSUME NEW r \in Peer, NEW q \in Peer, PipeOK(r), NEW m, Unplaced(r, m), NEW a,
           r.deck < m,
           \A i \in DOMAIN r.queue : r.queue[i] < m,
           \A i \in DOMAIN r.work : r.work[i].m < m,
           \A i \in DOMAIN r.posted : IsSend(r.posted[i]) => m < r.posted[i].m,
           q.deck = r.deck, q.queue = r.queue, q.asked = r.asked, q.ended = r.ended,
           q.posted = r.posted, q.work = Append(r.work, [m |-> m, activate |-> a])
    PROVE  PipeOK(q) /\ \A k : Waiting(q, k) => Waiting(r, k) \/ k = m
<1> DEFINE x == [m |-> m, activate |-> a]
<1>1. Gains(r.work, q.work, x)
    BY Zenon, Numbers, AppendGains
<1>2. x.m = m /\ m \in Nat /\ m <= r.asked /\ r.asked \in Nat
    BY SMTT(30), Numbers DEF Unplaced
<1> HIDE DEF x
<1>4. QueueInLine(q)
    BY Zenon, <1>1, <1>2 DEF PipeOK, InLine, QueueInLine, Gains
<1>5. WorkInLine(q)
    BY SMTT(30), <1>1, <1>2 DEF PipeOK, InLine, WorkInLine, Gains
<1>6. PostedInLine(q)
    BY Zenon DEF PipeOK, InLine, PostedInLine
<1>7. InLine(q)
    BY Zenon, <1>4, <1>5, <1>6 DEF PipeOK, InLine
<1>8. \A k : Waiting(q, k) => Waiting(r, k) \/ k = m
    BY ZenonT(30), <1>1, <1>2 DEF Waiting, Gains
<1>9. EndedOnce(q)
    BY Zenon, <1>8 DEF PipeOK, EndedOnce, Unplaced
<1> QED
    BY Zenon, <1>7, <1>8, <1>9 DEF PipeOK

\* The worker takes the next message: on deck, or behind the queue.
LEMMA PipeQueue ==
    ASSUME NEW r \in Peer, NEW q \in Peer, PipeOK(r), NEW w, Loses(r.work, q.work, w),
           \/ r.deck = NoMsg /\ q.deck = w.m /\ q.queue = r.queue /\ DOMAIN r.queue = {}
           \/ q.deck = r.deck /\ Gains(r.queue, q.queue, w.m),
           q.asked = r.asked, q.ended = r.ended, q.posted = r.posted
    PROVE  PipeOK(q) /\ Narrows(r, q)
<1> DEFINE m == w.m
<1>1. Loses(r.work, q.work, w)
    BY Zenon
<1>2. r.work[1] = w /\ 1 \in DOMAIN r.work
    BY Zenon, <1>1 DEF Loses
<1>3. m \in Nat /\ r.deck \in Nat /\ r.asked \in Nat /\ r.queue \in Seq(Nat) /\ m = r.work[1].m
    BY Zenon, <1>2, Numbers
<1>4. /\ \A i \in DOMAIN r.queue : r.queue[i] \in Nat
      /\ \A i \in DOMAIN r.work : r.work[i].m \in Nat
      /\ \A i \in DOMAIN r.posted : r.posted[i].m \in Nat
    BY Zenon, Numbers
<1>5. r.deck < m /\ m <= r.asked /\ \A i \in DOMAIN r.queue : r.queue[i] < m
    BY Zenon, <1>2, <1>3 DEF PipeOK, InLine, WorkInLine, QueueInLine
<1>6. \/ r.deck = NoMsg /\ q.deck = m /\ q.queue = r.queue /\ DOMAIN q.queue = {}
      \/ q.deck = r.deck /\ Gains(r.queue, q.queue, m)
    BY Zenon
<1> HIDE DEF m
<1>a. /\ QueueInLine(r) /\ WorkInLine(r) /\ PostedInLine(r) /\ r.deck <= r.asked
    BY Zenon DEF PipeOK, InLine
<1>b. /\ \A j \in DOMAIN q.work : m < q.work[j].m
      /\ \A j \in DOMAIN r.posted : IsSend(r.posted[j]) => m < r.posted[j].m
      /\ \A i \in DOMAIN r.queue : \A j \in DOMAIN q.work : r.queue[i] < q.work[j].m
    BY ZenonT(30), <1>a, <1>1, <1>2, <1>3 DEF WorkInLine, QueueInLine, Loses
<1>7. QueueInLine(q)
  <2>1. CASE DOMAIN q.queue = {}
      BY Zenon, <2>1 DEF QueueInLine
  <2>2. CASE q.deck = r.deck /\ Gains(r.queue, q.queue, m)
    <3>1. \A i \in DOMAIN q.queue : q.queue[i] = m \/ (i \in DOMAIN r.queue /\ q.queue[i] = r.queue[i])
        BY Zenon, <2>2 DEF Gains
    <3>2. \A i, j \in DOMAIN q.queue : i < j => i \in DOMAIN r.queue /\ q.queue[i] = r.queue[i]
        BY SMTT(30), <2>2 DEF Gains
    <3>3. \A i, j \in DOMAIN q.queue : i < j => q.queue[i] < q.queue[j]
        BY ZenonT(60), <1>a, <1>5, <3>1, <3>2 DEF QueueInLine
    <3> QED
        BY ZenonT(30), <1>a, <1>b, <1>3, <1>5, <2>2, <3>1, <3>3 DEF QueueInLine
  <2> QED
      BY Zenon, <1>6, <2>1, <2>2
<1>8. WorkInLine(q)
    BY ZenonT(30), <1>1, <1>2, <1>3, <1>4, <1>5, <1>6 DEF PipeOK, InLine, WorkInLine, Loses
<1>9. PostedInLine(q)
    BY ZenonT(30), <1>2, <1>3, <1>4, <1>5, <1>6 DEF PipeOK, InLine, WorkInLine, PostedInLine
<1>10. InLine(q)
    BY Zenon, <1>5, <1>6, <1>7, <1>8, <1>9 DEF PipeOK, InLine
<1>11. \A k : Waiting(q, k) => Waiting(r, k)
    BY SMTT(30), <1>1, <1>2, <1>3, <1>6 DEF Waiting, Loses, Gains
<1>12. Narrows(r, q)
    BY Zenon, <1>6, <1>11 DEF Narrows
<1> QED
    BY Zenon, <1>10, <1>11, <1>12 DEF PipeOK, EndedOnce

\* The next message moves on deck.
LEMMA PipeDeck ==
    ASSUME NEW r \in Peer, NEW q \in Peer, PipeOK(r), r.deck = NoMsg, r.queue # <<>>,
           q.deck = Head(r.queue), q.queue = Tail(r.queue),
           q.asked = r.asked, q.ended = r.ended, q.posted = r.posted, q.work = r.work
    PROVE  PipeOK(q) /\ q.deck # NoMsg /\ Narrows(r, q)
<1>1. Loses(r.queue, q.queue, q.deck)
    BY Zenon, Numbers, TailLoses
<1>2. r.queue[1] = q.deck /\ 1 \in DOMAIN r.queue /\ q.deck \in Nat /\ r.asked \in Nat
    BY Zenon, <1>1, Numbers DEF Loses
<1>3. QueueInLine(q)
    BY ZenonT(30), <1>1, <1>2 DEF PipeOK, InLine, QueueInLine, Loses
<1>4. WorkInLine(q)
    BY Zenon, <1>2 DEF PipeOK, InLine, QueueInLine, WorkInLine
<1>5. PostedInLine(q)
    BY Zenon, <1>2 DEF PipeOK, InLine, QueueInLine, PostedInLine
<1>6. q.deck <= q.asked /\ q.deck # NoMsg
    BY SMTT(30), <1>2 DEF PipeOK, InLine, QueueInLine, NoMsg
<1>7. \A k : Waiting(q, k) => Waiting(r, k)
    BY Zenon, <1>1, <1>2 DEF Waiting, Loses
<1>8. Narrows(r, q)
    BY Zenon, <1>7 DEF Narrows
<1> QED
    BY Zenon, <1>3, <1>4, <1>5, <1>6, <1>7, <1>8 DEF PipeOK, EndedOnce, InLine

\* u is s followed by t.
Joins(s, t, u) ==
    /\ \A i \in DOMAIN u : \/ i \in DOMAIN s /\ u[i] = s[i]
                           \/ i \notin DOMAIN s /\ i - Len(s) \in DOMAIN t /\ u[i] = t[i - Len(s)]
    /\ \A i, j \in DOMAIN u : i # j => i - Len(s) # j - Len(s)

\* Concatenation does this.
LEMMA ConcatJoins ==
    ASSUME NEW S, NEW s \in Seq(S), NEW t \in Seq(S)
    PROVE  Joins(s, t, s \o t)
    BY SMTT(30) DEF Joins

\* What is lifted was on deck or queued, and each only once.
LEMMA LiftedAll ==
    ASSUME NEW r \in Peer, PipeOK(r)
    PROVE  /\ Lifted(r) \in Seq(Nat)
           /\ \A i \in DOMAIN Lifted(r) :
                 /\ Lifted(r)[i] \in 1 .. r.asked
                 /\ Lifted(r)[i] = r.deck \/ \E k \in DOMAIN r.queue : Lifted(r)[i] = r.queue[k]
                 /\ \A j \in DOMAIN Lifted(r) : i # j => Lifted(r)[i] # Lifted(r)[j]
<1> DEFINE L == Lifted(r)
<1>1. r.deck \in Nat /\ r.queue \in Seq(Nat) /\ r.asked \in Nat
      /\ \A i \in DOMAIN r.queue : r.queue[i] \in Nat /\ i \in Nat
    BY SMTT(30), Numbers
<1>2. QueueInLine(r) /\ r.deck <= r.asked
    BY Zenon DEF PipeOK, InLine
<1>3. CASE r.deck = NoMsg
  <2>1. L = r.queue
      BY SMTT(30), <1>1, <1>3 DEF Lifted
  <2>2. \A i, j \in DOMAIN r.queue : i # j => r.queue[i] # r.queue[j]
    <3> SUFFICES ASSUME NEW i \in DOMAIN r.queue, NEW j \in DOMAIN r.queue, i < j
                 PROVE  r.queue[i] # r.queue[j]
        BY SMTT(30), <1>1
    <3> QED
        BY SMTT(30), <1>1, <1>2 DEF QueueInLine
  <2>3. \A i \in DOMAIN r.queue : r.queue[i] \in 1 .. r.asked
      BY SMTT(30), <1>1, <1>2, <1>3 DEF QueueInLine, NoMsg
  <2> QED
      BY Zenon, <1>1, <2>1, <2>2, <2>3
<1>4. CASE r.deck # NoMsg
  <2>1. L = <<r.deck>> \o r.queue
      BY Zenon, <1>4 DEF Lifted
  <2>2. /\ L \in Seq(Nat)
        /\ \A i \in DOMAIN L :
              \/ i = 1 /\ L[i] = r.deck
              \/ i > 1 /\ i \in Nat /\ i - 1 \in DOMAIN r.queue /\ L[i] = r.queue[i - 1]
      BY SMTT(30), <1>1, <2>1
  <2>n. \A i \in DOMAIN L : i \in Nat /\ i >= 1
      BY SMTT(30), <2>2
  <2> HIDE DEF L
  <2>3. ASSUME NEW i \in DOMAIN L PROVE L[i] \in 1 .. r.asked
    <3>1. CASE i = 1
      <4>1. L[i] = r.deck
          BY SMTT(30), <2>2, <3>1
      <4> QED
          BY SMTT(30), <1>1, <1>2, <1>4, <4>1 DEF NoMsg
    <3>2. CASE i # 1
      <4>1. i - 1 \in DOMAIN r.queue /\ L[i] = r.queue[i - 1]
          BY Zenon, <2>2, <3>2
      <4> QED
          BY SMTT(30), <1>1, <1>2, <4>1 DEF QueueInLine
    <3> QED
        BY Zenon, <3>1, <3>2
  <2>4. \A i, j \in DOMAIN L : i < j => L[i] # L[j]
    <3> SUFFICES ASSUME NEW i \in DOMAIN L, NEW j \in DOMAIN L, i < j
                 PROVE  L[i] # L[j]
        BY Zenon
    <3>1. j > 1 /\ j \in Nat /\ j - 1 \in DOMAIN r.queue /\ L[j] = r.queue[j - 1] /\ r.deck < L[j]
      <4>1. j > 1
          BY SMTT(30), <2>n
      <4>2. j \in Nat /\ j - 1 \in DOMAIN r.queue /\ L[j] = r.queue[j - 1]
          BY SMTT(30), <2>2, <4>1
      <4>3. \A k \in DOMAIN r.queue : r.deck < r.queue[k]
          BY Zenon, <1>2 DEF QueueInLine
      <4>4. r.deck < r.queue[j - 1]
          BY Zenon, <4>2, <4>3
      <4> QED
          BY Zenon, <4>1, <4>2, <4>4
    <3>2. CASE i = 1
      <4>1. L[i] = r.deck /\ L[j] \in Nat /\ r.deck \in Nat
          BY SMTT(30), <1>1, <2>2, <2>3, <3>2
      <4> QED
          BY SMTT(30), <3>1, <4>1
    <3>3. CASE i # 1
      <4>1. i - 1 \in DOMAIN r.queue /\ L[i] = r.queue[i - 1] /\ i - 1 < j - 1
          BY SMTT(30), <1>1, <2>2, <3>1, <3>3
      <4> QED
          BY SMTT(30), <1>1, <1>2, <3>1, <4>1 DEF QueueInLine
    <3> QED
        BY Zenon, <3>2, <3>3
  <2>5. \A i, j \in DOMAIN L : i # j => L[i] # L[j]
    <3>1. \A i \in DOMAIN L : i \in Nat
        BY SMTT(30), <2>2
    <3> QED
        BY SMTT(30), <2>4, <3>1
  <2> QED
      BY Zenon, <2>2, <2>3, <2>5 DEF L
<1> QED
    BY Zenon, <1>3, <1>4

\* The messages on deck and in the queue are lifted and completed.
LEMMA PipeLift ==
    ASSUME NEW r \in Peer, NEW q \in Peer, PipeOK(r),
           q.deck = NoMsg, q.queue = <<>>, q.work = r.work, q.asked = r.asked,
           q.ended = r.ended \o Lifted(r), q.posted = r.posted
    PROVE  PipeOK(q) /\ Narrows(r, q)
<1> DEFINE L == Lifted(r)
<1>1. /\ L \in Seq(Nat)
      /\ \A i \in DOMAIN L :
            /\ L[i] \in 1 .. r.asked
            /\ L[i] = r.deck \/ \E k \in DOMAIN r.queue : L[i] = r.queue[k]
            /\ \A j \in DOMAIN L : i # j => L[i] # L[j]
    BY ZenonT(30), LiftedAll
<1>2. r.ended \in Seq(Nat) /\ r.deck \in Nat /\ r.asked \in Nat
    BY ZenonT(30), Numbers
<1>3. /\ \A i \in DOMAIN r.queue : r.queue[i] \in Nat
      /\ \A i \in DOMAIN r.work : r.work[i].m \in Nat
      /\ \A i \in DOMAIN r.posted : r.posted[i].m \in Nat
    BY Zenon, Numbers
<1>4. Joins(r.ended, L, r.ended \o L)
    BY ZenonT(30), <1>1, <1>2, ConcatJoins
<1>5. Joins(r.ended, L, q.ended)
    BY Zenon, <1>4
<1> HIDE DEF L
<1>6. DOMAIN q.queue = {} /\ q.deck = 0
    BY SMTT(30) DEF NoMsg
<1>a. QueueInLine(r) /\ WorkInLine(r) /\ PostedInLine(r) /\ r.deck <= r.asked
    BY Zenon DEF PipeOK, InLine
<1>7. InLine(q)
  <2>1. QueueInLine(q)
      BY Zenon, <1>6 DEF QueueInLine
  <2>2. WorkInLine(q)
      BY SMTT(30), <1>a, <1>2, <1>3, <1>6 DEF WorkInLine
  <2>3. PostedInLine(q)
      BY SMTT(30), <1>a, <1>2, <1>3, <1>6 DEF PostedInLine
  <2> QED
      BY SMTT(30), <2>1, <2>2, <2>3, <1>2, <1>6 DEF InLine
<1>8. \A m : Waiting(q, m) /\ m # 0 => Waiting(r, m)
    BY Zenon, <1>6 DEF Waiting
<1>9. \A i \in DOMAIN L : ~Waiting(q, L[i]) /\ Waiting(r, L[i]) /\ L[i] # 0
  <2> SUFFICES ASSUME NEW i \in DOMAIN L PROVE ~Waiting(q, L[i]) /\ Waiting(r, L[i]) /\ L[i] # 0
      BY Zenon
  <2>1. L[i] \in Nat /\ L[i] # 0
      BY SMTT(30), <1>1, <1>2
  <2>2. \A j \in DOMAIN r.work : L[i] < r.work[j].m
      BY Zenon, <1>1, <1>a DEF QueueInLine, WorkInLine
  <2>3. \A j \in DOMAIN r.posted : IsSend(r.posted[j]) => L[i] < r.posted[j].m
      BY Zenon, <1>1, <1>a DEF QueueInLine, PostedInLine
  <2>4. ~Waiting(q, L[i])
      BY SMTT(30), <1>3, <1>6, <2>1, <2>2, <2>3 DEF Waiting
  <2> QED
      BY Zenon, <1>1, <2>1, <2>4 DEF Waiting
<1>10. EndedOnce(q)
  <2>1. EndedOnce(r)
      BY Zenon DEF PipeOK
  <2> SUFFICES ASSUME NEW i \in DOMAIN q.ended
               PROVE  /\ q.ended[i] \in 1 .. q.asked
                      /\ ~Waiting(q, q.ended[i])
                      /\ \A j \in DOMAIN q.ended : i # j => q.ended[i] # q.ended[j]
      BY Zenon DEF EndedOnce
  <2>2. q.ended[i] \in 1 .. q.asked
      BY ZenonT(30), <1>1, <1>5, <2>1 DEF Joins, EndedOnce
  <2>3. ~Waiting(q, q.ended[i])
    <3>1. q.ended[i] # 0
        BY SMTT(30), <2>2, <1>2
    <3> QED
        BY ZenonT(30), <1>5, <1>8, <1>9, <2>1, <3>1 DEF Joins, EndedOnce
  <2>4. ASSUME NEW j \in DOMAIN q.ended, i # j
        PROVE  q.ended[i] # q.ended[j]
    <3>1. CASE i \in DOMAIN r.ended /\ j \in DOMAIN r.ended
        BY ZenonT(30), <1>5, <2>1, <2>4, <3>1 DEF Joins, EndedOnce
    <3>2. CASE i \notin DOMAIN r.ended /\ j \notin DOMAIN r.ended
      <4>1. /\ i - Len(r.ended) \in DOMAIN L /\ q.ended[i] = L[i - Len(r.ended)]
            /\ j - Len(r.ended) \in DOMAIN L /\ q.ended[j] = L[j - Len(r.ended)]
            /\ i - Len(r.ended) # j - Len(r.ended)
          BY Zenon, <1>5, <2>4, <3>2 DEF Joins
      <4> QED
          BY ZenonT(60), <1>1, <4>1
    <3>3. CASE i \in DOMAIN r.ended /\ j \notin DOMAIN r.ended
        BY ZenonT(30), <1>5, <1>9, <2>1, <3>3 DEF Joins, EndedOnce
    <3>4. CASE i \notin DOMAIN r.ended /\ j \in DOMAIN r.ended
        BY ZenonT(30), <1>5, <1>9, <2>1, <3>4 DEF Joins, EndedOnce
    <3> QED
        BY Zenon, <3>1, <3>2, <3>3, <3>4
  <2> QED
      BY Zenon, <2>2, <2>3, <2>4
<1>11. r.deck # 0 => ~Waiting(q, r.deck)
    BY SMTT(30), <1>a, <1>2, <1>3, <1>6 DEF Waiting, WorkInLine, PostedInLine
<1>12. Narrows(r, q)
    BY Zenon, <1>8, <1>11 DEF Narrows, NoMsg
<1> QED
    BY Zenon, <1>7, <1>10, <1>12 DEF PipeOK

\* The send handler completes the message on deck.
LEMMA PipeDone ==
    ASSUME NEW r \in Peer, NEW q \in Peer, PipeOK(r), r.deck # NoMsg,
           q.deck = NoMsg, q.queue = r.queue, q.work = r.work, q.asked = r.asked,
           Gains(r.ended, q.ended, r.deck), q.posted = r.posted
    PROVE  PipeOK(q) /\ Narrows(r, q)
<1>1. r.deck \in Nat /\ r.asked \in Nat /\ r.deck # 0 /\ q.deck = 0
    BY Zenon, Numbers DEF NoMsg
<1>2. /\ \A i \in DOMAIN r.queue : r.queue[i] \in Nat
      /\ \A i \in DOMAIN r.work : r.work[i].m \in Nat
      /\ \A i \in DOMAIN r.posted : r.posted[i].m \in Nat
    BY Zenon, Numbers
<1>a. QueueInLine(r) /\ WorkInLine(r) /\ PostedInLine(r) /\ r.deck <= r.asked /\ EndedOnce(r)
    BY Zenon DEF PipeOK, InLine
<1>3. InLine(q)
  <2>1. QueueInLine(q)
      BY SMTT(30), <1>a, <1>1, <1>2 DEF QueueInLine
  <2>2. WorkInLine(q)
      BY SMTT(30), <1>a, <1>1, <1>2 DEF WorkInLine
  <2>3. PostedInLine(q)
      BY SMTT(30), <1>a, <1>1, <1>2 DEF PostedInLine
  <2> QED
      BY SMTT(30), <2>1, <2>2, <2>3, <1>1 DEF InLine
<1>4. \A m : Waiting(q, m) /\ m # 0 => Waiting(r, m)
    BY Zenon, <1>1 DEF Waiting
<1>5. ~Waiting(q, r.deck) /\ Waiting(r, r.deck)
    BY SMTT(30), <1>a, <1>1, <1>2 DEF Waiting, QueueInLine, WorkInLine, PostedInLine
<1>6. \A i \in DOMAIN q.ended : q.ended[i] = r.deck \/ (i \in DOMAIN r.ended /\ q.ended[i] = r.ended[i])
    BY Zenon DEF Gains
<1>7. \A i, j \in DOMAIN q.ended : i # j => i \in DOMAIN r.ended \/ j \in DOMAIN r.ended
    BY Zenon DEF Gains
<1>8. \A i \in DOMAIN r.ended : r.ended[i] # r.deck
    BY Zenon, <1>a, <1>5 DEF EndedOnce
<1>9. \A i \in DOMAIN q.ended : i \in DOMAIN r.ended => q.ended[i] = r.ended[i]
    BY Zenon DEF Gains
<1>10. EndedOnce(q)
  <2> SUFFICES ASSUME NEW i \in DOMAIN q.ended
               PROVE  /\ q.ended[i] \in 1 .. q.asked
                      /\ ~Waiting(q, q.ended[i])
                      /\ \A j \in DOMAIN q.ended : i # j => q.ended[i] # q.ended[j]
      BY Zenon DEF EndedOnce
  <2>2. q.ended[i] \in 1 .. q.asked
      BY SMTT(30), <1>1, <1>6, <1>a DEF EndedOnce
  <2>3. ~Waiting(q, q.ended[i])
    <3>1. q.ended[i] # 0
        BY SMTT(30), <2>2, <1>1
    <3> QED
        BY Zenon, <1>4, <1>5, <1>6, <1>a, <3>1 DEF EndedOnce
  <2>4. \A j \in DOMAIN q.ended : i # j => q.ended[i] # q.ended[j]
      BY ZenonT(30), <1>6, <1>7, <1>8, <1>9, <1>a DEF EndedOnce
  <2> QED
      BY Zenon, <2>2, <2>3, <2>4
<1>11. Narrows(r, q)
    BY Zenon, <1>4, <1>5 DEF Narrows, NoMsg
<1> QED
    BY Zenon, <1>3, <1>10, <1>11 DEF PipeOK


----------------------------------------------------------------------------
\* The operators of the peer object

\* Two steps of the line make one.
LEMMA GoesOn ==
    ASSUME NEW r, NEW p, NEW q, Goes(r, p), Goes(p, q)
    PROVE  Goes(r, q)
<1>1. \A m : m # NoMsg /\ Waiting(q, m) => Waiting(r, m) /\ (r.deck = m => q.deck = m)
    BY Zenon DEF Goes, Narrows
<1> QED
    BY Zenon, <1>1 DEF Goes, Narrows

\* The line depends on these fields alone.
LEMMA GoesSame ==
    ASSUME NEW r \in Peer, NEW q \in Peer, PipeOK(r),
           q.deck = r.deck, q.queue = r.queue, q.work = r.work, q.asked = r.asked,
           q.ended = r.ended, q.posted = r.posted
    PROVE  Goes(r, q)
    BY Zenon, PipeSame DEF Goes

\* The operations on the peer object, as steps of the line: an event is posted,
LEMMA GoesPost ==
    ASSUME NEW r \in Peer, PipeOK(r), NEW e \in Events \ {"send"}
    PROVE  Goes(r, Post(r, e))
<1> DEFINE p == Post(r, e)
<1>1. p \in Peer
    BY Zenon, PostType
<1>2. /\ p.deck = r.deck /\ p.queue = r.queue /\ p.work = r.work /\ p.asked = r.asked
      /\ p.ended = r.ended /\ p.posted = Append(r.posted, [e |-> e, m |-> NoMsg])
    BY ZenonT(60), PostFields
<1> HIDE DEF p
<1>3. Goes(r, p)
    BY Zenon, <1>1, <1>2, PipePost DEF Goes
<1> QED
    BY Zenon, <1>3 DEF p

\* the next message moves on deck,
LEMMA GoesOnDeck ==
    ASSUME NEW r \in Peer, PipeOK(r)
    PROVE  Goes(r, OnDeck(r)) /\ Fronted(OnDeck(r)) /\ (r.deck # NoMsg => OnDeck(r) = r)
<1>1. OnDeck(r) \in Peer
    BY Zenon, OnDeckType
<1>2. CASE r.deck = NoMsg /\ r.queue # <<>>
  <2> DEFINE q == OnDeck(r)
  <2>1. q = [r EXCEPT !.deck = Head(r.queue), !.queue = Tail(r.queue)]
      BY Zenon, <1>2 DEF OnDeck
  <2>2. q.deck = Head(r.queue) /\ q.queue = Tail(r.queue) /\ q.asked = r.asked /\ q.ended = r.ended
        /\ q.posted = r.posted /\ q.work = r.work
      BY ZenonT(30), <2>1 DEF Peer
  <2> HIDE DEF q
  <2>3. PipeOK(q) /\ q.deck # NoMsg /\ Narrows(r, q)
      BY Zenon, <1>1, <1>2, <2>2, PipeDeck DEF q
  <2> QED
      BY Zenon, <1>1, <1>2, <2>3 DEF q, Goes, Fronted
<1>3. CASE ~(r.deck = NoMsg /\ r.queue # <<>>)
  <2>1. OnDeck(r) = r
      BY Zenon, <1>3 DEF OnDeck
  <2> QED
      BY Zenon, <1>3, <2>1, GoesSame DEF Fronted
<1> QED
    BY Zenon, <1>2, <1>3

\* all are lifted,
LEMMA GoesLift ==
    ASSUME NEW r \in Peer, PipeOK(r)
    PROVE  Goes(r, LiftQueuedSends(r)) /\ Goes(r, LiftLostSends(r))
<1> DEFINE l == LiftQueuedSends(r)
           k == [l EXCEPT !.wasUp = FALSE]
<1>1. l \in Peer
    BY Zenon, LiftType
<1>2. l.deck = NoMsg /\ l.queue = <<>> /\ l.work = r.work /\ l.asked = r.asked
      /\ l.ended = r.ended \o Lifted(r) /\ l.posted = r.posted
    BY Zenon, LiftFields
<1>0. LiftLostSends(r) = IF r.wasUp THEN Post(k, "lost") ELSE k
    BY Zenon DEF LiftLostSends
<1> HIDE DEF l
<1>3. Goes(r, l)
    BY Zenon, <1>1, <1>2, PipeLift DEF Goes
<1>4. k \in Peer /\ k.deck = l.deck /\ k.queue = l.queue /\ k.work = l.work /\ k.asked = l.asked
      /\ k.ended = l.ended /\ k.posted = l.posted
    BY ZenonT(30), <1>1 DEF Peer
<1> HIDE DEF k
<1>5. Goes(l, k) /\ PipeOK(k)
    BY Zenon, <1>1, <1>3, <1>4, GoesSame DEF Goes
<1>6. Goes(k, Post(k, "lost"))
    BY Zenon, <1>4, <1>5, GoesPost DEF Events
<1> QED
    BY Zenon, <1>0, <1>3, <1>5, <1>6, GoesOn DEF l

\* the connection is up,
LEMMA GoesConnected ==
    ASSUME NEW r \in Peer, PipeOK(r)
    PROVE  LET q == TcpPeerConnected(r) IN
           Goes(r, q) /\ Fronted(q) /\ (r.deck # NoMsg => q.deck = r.deck)
<1> DEFINE x == [r EXCEPT !.state = "connected", !.established = TRUE, !.sev = FALSE, !.rev = TRUE]
           y == OnDeck(x)
           q == ArmSend(y)
<1>0. TcpPeerConnected(r) = q
    BY Zenon DEF TcpPeerConnected
<1>1. x \in Peer /\ x.deck = r.deck /\ x.queue = r.queue /\ x.work = r.work /\ x.asked = r.asked
      /\ x.ended = r.ended /\ x.posted = r.posted
    BY ZenonT(60) DEF Peer, States
<1> HIDE DEF x
<1>2. Goes(r, x) /\ PipeOK(x)
    BY Zenon, <1>1, GoesSame DEF Goes
<1>3. Goes(x, y) /\ Fronted(y) /\ (x.deck # NoMsg => y.deck = x.deck)
    BY Zenon, <1>1, <1>2, GoesOnDeck
<1> HIDE DEF y
<1>4. y \in Peer /\ PipeOK(y)
    BY Zenon, <1>3 DEF Goes
<1>5. q \in Peer
    BY Zenon, <1>4, SmallTypes
<1>6. q.deck = y.deck /\ q.queue = y.queue /\ q.work = y.work /\ q.asked = y.asked
      /\ q.ended = y.ended /\ q.posted = y.posted
    BY Zenon, <1>4 DEF ArmSend, Peer
<1> HIDE DEF q
<1>7. Goes(y, q)
    BY Zenon, <1>4, <1>5, <1>6, GoesSame
<1> QED
    BY ZenonT(30), <1>0, <1>1, <1>2, <1>3, <1>6, <1>7, GoesOn DEF Fronted

\* or closed,
LEMMA GoesClose ==
    ASSUME NEW r \in Peer, PipeOK(r)
    PROVE  Goes(r, MainClose(r)) /\ Goes(r, WorkerClose(r)) /\ Goes(r, TearDown(r))
<1>1. Goes(r, TearDown(r))
  <2> DEFINE p == TearDown(r)
  <2>1. p \in Peer /\ p.deck = r.deck /\ p.queue = r.queue /\ p.work = r.work /\ p.asked = r.asked
        /\ p.ended = r.ended /\ p.posted = r.posted
      BY Zenon, SmallTypes, TearDownFields
  <2> HIDE DEF p
  <2>2. Goes(r, p)
      BY Zenon, <2>1, GoesSame
  <2> QED
      BY Zenon, <2>2 DEF p
<1>2. Goes(r, LiftLostSends(TearDown(r)))
  <2>1. TearDown(r) \in Peer /\ PipeOK(TearDown(r))
      BY Zenon, <1>1 DEF Goes
  <2> QED
      BY Zenon, <1>1, <2>1, GoesLift, GoesOn
<1>3. Goes(r, RotateAddress(r))
  <2> DEFINE u == Unarmed(r)
             p == [u EXCEPT !.state = "connecting", !.sd = NoSocket, !.addrFailed = TRUE]
  <2>1. u \in Peer /\ u.deck = r.deck /\ u.queue = r.queue /\ u.work = r.work /\ u.asked = r.asked
        /\ u.ended = r.ended /\ u.posted = r.posted
      BY Zenon, UnarmedFields
  <2>2. RotateAddress(r) = Post(p, "try")
      BY Zenon DEF RotateAddress
  <2> HIDE DEF u
  <2>3. p \in Peer /\ p.deck = u.deck /\ p.queue = u.queue /\ p.work = u.work /\ p.asked = u.asked
        /\ p.ended = u.ended /\ p.posted = u.posted
      BY ZenonT(30), <2>1 DEF Peer, States, NoSocket
  <2> HIDE DEF p
  <2>4. Goes(r, p)
      BY Zenon, <2>1, <2>3, GoesSame
  <2>5. Goes(p, Post(p, "try"))
      BY Zenon, <2>3, <2>4, GoesPost DEF Goes, Events
  <2> QED
      BY Zenon, <2>2, <2>4, <2>5, GoesOn
<1>4. Goes(r, MainClose(r))
  <2>1. Goes(r, r)
      BY Zenon, GoesSame
  <2>2. MainClose(r) \in {r, RotateAddress(r), LiftLostSends(TearDown(r))}
    <3>1. CASE r.state = "closed"
        BY Zenon, <3>1 DEF MainClose, Rotates
    <3>2. CASE r.state # "closed" /\ Rotates(r)
        BY Zenon, <3>2 DEF MainClose
    <3>3. CASE r.state # "closed" /\ ~Rotates(r)
        BY Zenon, <3>3 DEF MainClose
    <3> QED
        BY Zenon, <3>1, <3>2, <3>3
  <2> QED
      BY Zenon, <1>2, <1>3, <2>1, <2>2
<1>5. Goes(r, WorkerClose(r))
  <2>1. ASSUME NEW p \in Peer, PipeOK(p), NEW w \in {"idle", "lift"}
        PROVE  Goes(p, [p EXCEPT !.worker = w])
    <3> DEFINE q == [p EXCEPT !.worker = w]
    <3>1. q \in Peer /\ q.deck = p.deck /\ q.queue = p.queue /\ q.work = p.work /\ q.asked = p.asked
          /\ q.ended = p.ended /\ q.posted = p.posted
        BY ZenonT(30) DEF Peer
    <3> HIDE DEF q
    <3>2. Goes(p, q)
        BY Zenon, <2>1, <3>1, GoesSame
    <3> QED
        BY Zenon, <3>2 DEF q
  <2>2. Goes(r, [r EXCEPT !.worker = "idle"])
      BY Zenon, <2>1
  <2>3. Goes(TearDown(r), [TearDown(r) EXCEPT !.worker = "lift"])
      BY Zenon, <1>1, <2>1 DEF Goes
  <2>4. Goes(r, [TearDown(r) EXCEPT !.worker = "lift"])
      BY Zenon, <1>1, <2>3, GoesOn
  <2> QED
      BY Zenon, <2>2, <2>4 DEF WorkerClose
<1> QED
    BY Zenon, <1>1, <1>4, <1>5

\* no address is left,
LEMMA GoesNoAddress ==
    ASSUME NEW r \in Peer, PipeOK(r)
    PROVE  LET q == NoAddressLeft(r) IN
           Goes(r, q) /\ (Fronted(r) => Fronted(q)) /\ q.worker = r.worker
<1>1. CASE r.recons < MaxRecon
  <2> DEFINE q == NoAddressLeft(r)
  <2>1. q = [r EXCEPT !.sd = NoSocket, !.addrFailed = FALSE, !.timers = @ + 1, !.recons = @ + 1]
      BY Zenon, <1>1 DEF NoAddressLeft
  <2>2. q.deck = r.deck /\ q.queue = r.queue /\ q.work = r.work /\ q.asked = r.asked
        /\ q.ended = r.ended /\ q.posted = r.posted /\ q.worker = r.worker
      BY Zenon, <2>1 DEF Peer
  <2>3. q \in Peer
      BY Zenon, NoAddressType
  <2> HIDE DEF q
  <2>4. Goes(r, q) /\ (Fronted(r) => Fronted(q))
      BY Zenon, <2>2, <2>3, GoesSame DEF Fronted
  <2> QED
      BY Zenon, <2>2, <2>4 DEF q
<1>2. CASE ~(r.recons < MaxRecon)
  <2> DEFINE x == [r EXCEPT !.sd = NoSocket, !.state = "failed"]
             y == Post(x, "failed")
  <2>1. NoAddressLeft(r) = LiftQueuedSends(y)
      BY Zenon, <1>2 DEF NoAddressLeft
  <2>2. x \in Peer /\ x.deck = r.deck /\ x.queue = r.queue /\ x.work = r.work /\ x.asked = r.asked
        /\ x.ended = r.ended /\ x.posted = r.posted /\ x.worker = r.worker
      BY Zenon DEF Peer, States, NoSocket
  <2> HIDE DEF x
  <2>3. Goes(r, x) /\ PipeOK(x)
      BY Zenon, <2>2, GoesSame DEF Goes
  <2>4. Goes(x, y) /\ y.worker = x.worker
      BY ZenonT(30), <2>2, <2>3, GoesPost, PostFields DEF Events
  <2> HIDE DEF y
  <2>5. y \in Peer /\ PipeOK(y)
      BY Zenon, <2>4 DEF Goes
  <2>6. Goes(y, LiftQueuedSends(y)) /\ LiftQueuedSends(y).queue = <<>>
        /\ LiftQueuedSends(y).worker = y.worker
      BY Zenon, <2>5, GoesLift, LiftFields
  <2> QED
      BY ZenonT(30), <2>1, <2>2, <2>3, <2>4, <2>6, GoesOn DEF Fronted
<1> QED
    BY Zenon, <1>1, <1>2

\* an event is taken.
LEMMA GoesPop ==
    ASSUME NEW o \in Peer, PipeOK(o), o.posted # <<>>
    PROVE  LET r == [o EXCEPT !.posted = Tail(@)] IN
           /\ Goes(o, r)
           /\ r.deck = o.deck /\ r.queue = o.queue /\ r.work = o.work /\ r.worker = o.worker
<1> DEFINE r == [o EXCEPT !.posted = Tail(@)]
<1>1. r \in Peer
    BY Zenon, PopType
<1>2. r.deck = o.deck /\ r.queue = o.queue /\ r.work = o.work /\ r.asked = o.asked
      /\ r.ended = o.ended /\ r.posted = Tail(o.posted) /\ r.worker = o.worker
    BY Zenon DEF Peer
<1> HIDE DEF r
<1>3. Goes(o, r)
    BY Zenon, <1>1, <1>2, PipePop DEF Goes
<1> QED
    BY Zenon, <1>2, <1>3 DEF r

\* A message the main thread takes from its queue and hands on.
LEMMA GoesSendNb ==
    ASSUME NEW o \in Peer, PipeOK(o), o.posted # <<>>, IsSend(Head(o.posted))
    PROVE  LET r == [o EXCEPT !.posted = Tail(@)]
               q == SendNb(r, Head(o.posted).m)
           IN  Goes(o, q) /\ q.deck = o.deck /\ q.queue = o.queue /\ q.worker = o.worker
<1> DEFINE r == [o EXCEPT !.posted = Tail(@)]
           m == Head(o.posted).m
           q == SendNb(r, m)
<1>1. r \in Peer /\ m \in Nat
    BY Zenon, PopType DEF Posted
<1>2. r.deck = o.deck /\ r.queue = o.queue /\ r.work = o.work /\ r.asked = o.asked
      /\ r.ended = o.ended /\ r.posted = Tail(o.posted) /\ r.worker = o.worker
    BY Zenon DEF Peer
<1> HIDE DEF r
<1>3. /\ Waiting(o, m)
      /\ Unplaced(r, m)
      /\ r.deck < m
      /\ \A i \in DOMAIN r.queue : r.queue[i] < m
      /\ \A i \in DOMAIN r.work : r.work[i].m < m
      /\ \A i \in DOMAIN r.posted : IsSend(r.posted[i]) => m < r.posted[i].m
    BY Zenon, <1>1, <1>2, PipePop DEF Unplaced
<1>4. Goes(o, r)
    BY ZenonT(30), <1>1, <1>2, PipePop DEF Goes
<1>n. m # o.deck
  <2>1. o.deck \in Nat
      BY Zenon, Numbers
  <2> QED
      BY SMTT(30), <1>1, <1>2, <1>3, <2>1
<1> HIDE DEF m
<1>5. ASSUME NEW p \in Peer, NEW a, p.work = Append(r.work, [m |-> m, activate |-> a]),
             p.deck = r.deck, p.queue = r.queue, p.asked = r.asked, p.ended = r.ended,
             p.posted = r.posted
      PROVE  Goes(o, p)
  <2>1. PipeOK(r)
      BY Zenon, <1>4 DEF Goes
  <2>2. PipeOK(p) /\ \A k : Waiting(p, k) => Waiting(r, k) \/ k = m
      BY ZenonT(30), <1>1, <1>3, <1>5, <2>1, PipeWork
  <2>3. Narrows(o, p)
      BY ZenonT(30), <1>2, <1>3, <1>4, <1>5, <1>n, <2>2 DEF Goes, Narrows
  <2> QED
      BY Zenon, <2>2, <2>3 DEF Goes
<1>6. q \in Peer
    BY Zenon, <1>1, SendNbType
<1>7. CASE r.down
  <2>1. q = Ended(r, <<m>>)
      BY Zenon, <1>7 DEF SendNb
  <2>2. q.deck = r.deck /\ q.queue = r.queue /\ q.work = r.work /\ q.asked = r.asked
        /\ q.ended = r.ended \o <<m>> /\ q.posted = r.posted /\ q.worker = r.worker
      BY Zenon, <1>1, <2>1 DEF Ended, Peer
  <2> HIDE DEF q
  <2>3. Goes(r, q)
      BY ZenonT(30), <1>1, <1>3, <1>4, <1>6, <2>2, PipeEnd DEF Goes
  <2> QED
      BY Zenon, <1>2, <1>4, <2>2, <2>3, GoesOn DEF q, r, m
<1>8. CASE ~r.down /\ (r.state = "connected" \/ r.state \in {"connecting", "connect_ack"})
  <2> DEFINE a == (r.state = "connected")
  <2>1. q = [r EXCEPT !.work = Append(@, [m |-> m, activate |-> a])]
      BY Zenon, <1>8 DEF SendNb
  <2>2. q.deck = r.deck /\ q.queue = r.queue /\ q.work = Append(r.work, [m |-> m, activate |-> a])
        /\ q.asked = r.asked /\ q.ended = r.ended /\ q.posted = r.posted /\ q.worker = r.worker
      BY ZenonT(30), <1>1, <2>1 DEF Peer
  <2> HIDE DEF q, a
  <2>3. Goes(o, q)
      BY Zenon, <1>5, <1>6, <2>2
  <2> QED
      BY Zenon, <1>2, <2>2, <2>3 DEF q, r, m
<1>9. CASE ~r.down /\ r.state \notin {"connected", "connecting", "connect_ack"}
  <2> DEFINE x == [r EXCEPT !.work = Append(@, [m |-> m, activate |-> FALSE])]
             p == [x EXCEPT !.state = "connecting"]
  <2>1. q = Post(p, "try")
      BY Zenon, <1>9 DEF SendNb
  <2>2. x \in Peer
    <3>1. [m |-> m, activate |-> FALSE] \in Queued /\ r.work \in Seq(Queued)
        BY Zenon, <1>1, Numbers DEF Queued, m
    <3>2. Append(r.work, [m |-> m, activate |-> FALSE]) \in Seq(Queued)
        BY SMTT(30), <3>1
    <3> QED
        BY ZenonT(30), <1>1, <3>2 DEF Peer
  <2>3. x.deck = r.deck /\ x.queue = r.queue /\ x.work = Append(r.work, [m |-> m, activate |-> FALSE])
        /\ x.asked = r.asked /\ x.ended = r.ended /\ x.posted = r.posted /\ x.worker = r.worker
      BY Zenon, <1>1 DEF Peer
  <2> HIDE DEF x, q
  <2>4. p \in Peer /\ p.deck = x.deck /\ p.queue = x.queue /\ p.work = x.work
        /\ p.asked = x.asked /\ p.ended = x.ended /\ p.posted = x.posted /\ p.worker = x.worker
      BY ZenonT(30), <2>2 DEF Peer, States
  <2> HIDE DEF p
  <2>5. Goes(o, p)
      BY ZenonT(30), <1>5, <2>3, <2>4
  <2>6. Goes(p, q)
      BY ZenonT(30), <2>1, <2>4, <2>5, GoesPost DEF Goes, Events
  <2>7. q.deck = p.deck /\ q.queue = p.queue /\ q.worker = p.worker
      BY ZenonT(60), <2>1, <2>4, PostFields
  <2> QED
      BY ZenonT(60), <1>2, <2>3, <2>4, <2>5, <2>6, <2>7, GoesOn DEF q, r, m
<1> QED
    BY Zenon, <1>7, <1>8, <1>9

\* The worker thread takes the message it was handed.
LEMMA GoesQueueMsg ==
    ASSUME NEW o \in Peer, PipeOK(o), Fronted(o), o.work # <<>>
    PROVE  LET r == [o EXCEPT !.work = Tail(@)]
               q == QueueMsg(r, Head(o.work))
           IN  Goes(o, q) /\ Fronted(q)
<1> DEFINE r == [o EXCEPT !.work = Tail(@)]
           w == Head(o.work)
           x == IF r.deck = NoMsg THEN [r EXCEPT !.deck = w.m]
                ELSE [r EXCEPT !.queue = Append(@, w.m)]
           q == QueueMsg(r, w)
<1>1. o.work \in Seq(Queued) /\ o.queue \in Seq(Nat)
    BY Zenon, Numbers
<1>2. w \in Queued /\ Tail(o.work) \in Seq(Queued) /\ Loses(o.work, Tail(o.work), w)
    BY SMTT(30), <1>1, TailLoses
<1>3. w.m \in Nat
    BY Zenon, <1>2 DEF Queued
<1>4. r \in Peer
    BY Zenon, <1>2 DEF Peer
<1>5. r.deck = o.deck /\ r.queue = o.queue /\ r.work = Tail(o.work) /\ r.asked = o.asked
      /\ r.ended = o.ended /\ r.posted = o.posted
    BY Zenon DEF Peer
<1>6. q = IF r.state = "connected" THEN ArmSend(x)
          ELSE IF w.activate THEN Post(x, "start") ELSE x
    BY Zenon DEF QueueMsg
<1> HIDE DEF r, w, q
<1>7. Append(r.queue, w.m) \in Seq(Nat) /\ Gains(r.queue, Append(r.queue, w.m), w.m)
  <2>1. r.queue \in Seq(Nat)
      BY Zenon, <1>1, <1>5
  <2>2. Append(r.queue, w.m) \in Seq(Nat)
      BY SMTT(30), <1>3, <2>1
  <2> QED
      BY Zenon, <2>1, <2>2, AppendGains
<1>8. x \in Peer
    BY ZenonT(30), <1>3, <1>4, <1>7 DEF Peer
<1>9. /\ x.work = r.work /\ x.asked = r.asked /\ x.ended = r.ended /\ x.posted = r.posted
      /\ \/ r.deck = NoMsg /\ x.deck = w.m /\ x.queue = r.queue
         \/ r.deck # NoMsg /\ x.deck = r.deck /\ x.queue = Append(r.queue, w.m)
    BY Zenon, <1>4 DEF Peer
<1> HIDE DEF x
<1>10. /\ Loses(o.work, x.work, w)
       /\ \/ o.deck = NoMsg /\ x.deck = w.m /\ x.queue = o.queue /\ o.queue = <<>>
          \/ x.deck = o.deck /\ o.deck # NoMsg /\ Gains(o.queue, x.queue, w.m)
    BY Zenon, <1>2, <1>5, <1>7, <1>9 DEF Fronted
<1>11. Goes(o, x)
  <2>1. /\ \/ o.deck = NoMsg /\ x.deck = w.m /\ x.queue = o.queue /\ DOMAIN o.queue = {}
           \/ x.deck = o.deck /\ Gains(o.queue, x.queue, w.m)
      BY SMTT(30), <1>10
  <2>2. x.asked = o.asked /\ x.ended = o.ended /\ x.posted = o.posted
      BY Zenon, <1>5, <1>9
  <2>3. PipeOK(x) /\ Narrows(o, x)
      BY Zenon, <1>8, <1>10, <2>1, <2>2, PipeQueue
  <2> QED
      BY Zenon, <1>8, <2>3 DEF Goes
<1>12. Fronted(x)
    BY Zenon, <1>5, <1>9, <1>10 DEF Fronted
<1>13. Goes(x, ArmSend(x)) /\ ArmSend(x).deck = x.deck /\ ArmSend(x).queue = x.queue
  <2> DEFINE y == ArmSend(x)
  <2>1. y.deck = x.deck /\ y.queue = x.queue /\ y.work = x.work /\ y.asked = x.asked
        /\ y.ended = x.ended /\ y.posted = x.posted
      BY Zenon, <1>8 DEF ArmSend, Peer
  <2>2. y \in Peer
      BY Zenon, <1>8, SmallTypes
  <2> HIDE DEF y
  <2>3. Goes(x, y)
      BY Zenon, <1>8, <1>11, <2>1, <2>2, GoesSame DEF Goes
  <2> QED
      BY Zenon, <2>1, <2>3 DEF y
<1>14. Goes(x, Post(x, "start")) /\ Post(x, "start").deck = x.deck /\ Post(x, "start").queue = x.queue
    BY ZenonT(30), <1>8, <1>11, GoesPost, PostFields DEF Goes, Events
<1>15. Goes(o, q) /\ Fronted(q)
    BY Zenon, <1>6, <1>11, <1>12, <1>13, <1>14, GoesOn DEF Fronted
<1> QED
    BY Zenon, <1>15 DEF q, r, w

----------------------------------------------------------------------------
\* One step per handler

\* Daemon d's next record keeps its messages in line.
Advances(d, r) == \E q : Turn(d, q) /\ Piped(q) /\ Goes(r, q)

\* A record with the same messages in line is as good.
LEMMA SamePiped ==
    ASSUME NEW r, NEW q \in Peer, Piped(r),
           q.deck = r.deck, q.queue = r.queue, q.work = r.work, q.asked = r.asked,
           q.ended = r.ended, q.posted = r.posted,
           q.worker \in {r.worker, "sent"} \/ r.worker # "sent"
    PROVE  Piped(q) /\ Goes(r, q)
<1>1. Goes(r, q)
    BY Zenon, GoesSame DEF Piped
<1> QED
    BY Zenon, <1>1 DEF Piped, Goes, Fronted

\* try_connect.
LEMMA TryAdvances ==
    ASSUME NEW d \in Ends, NEW r, Piped(r), TryConnect(d, r), socks \in Seq(Sock)
    PROVE  Advances(d, r)
<1>0. r \in Peer /\ PipeOK(r)
    BY Zenon DEF Piped
<1>1. CASE ~MayDial(r)
  <2>1. Turn(d, r)
      BY Zenon, <1>1 DEF TryConnect, Turn
  <2> QED
      BY Zenon, <1>0, <2>1, GoesSame DEF Advances
<1>2. CASE MayDial(r) /\ r.addrFailed
  <2>1. Turn(d, NoAddressLeft(r))
      BY Zenon, <1>2 DEF TryConnect, Turn
  <2>2. LET q == NoAddressLeft(r) IN
        Goes(r, q) /\ (Fronted(r) => Fronted(q)) /\ q.worker = r.worker
      BY Zenon, <1>0, GoesNoAddress
  <2> QED
      BY Zenon, <2>1, <2>2 DEF Advances, Piped, Goes
<1>3. CASE MayDial(r) /\ ~r.addrFailed
  <2> DEFINE q == [r EXCEPT !.sd = Len(socks) + 1, !.sev = TRUE]
  <2>1. Turn(d, q)
      BY Zenon, <1>3 DEF TryConnect, Turn
  <2>2. Len(socks) + 1 \in Nat
      BY SMTT(30)
  <2>3. q \in Peer /\ q.deck = r.deck /\ q.queue = r.queue /\ q.work = r.work /\ q.asked = r.asked
        /\ q.ended = r.ended /\ q.posted = r.posted /\ q.worker = r.worker
      BY Zenon, <1>0, <2>2 DEF Peer
  <2> HIDE DEF q
  <2>4. Piped(q) /\ Goes(r, q)
      BY Zenon, <2>3, SamePiped
  <2> QED
      BY Zenon, <2>1, <2>4 DEF Advances
<1> QED
    BY Zenon, <1>1, <1>2, <1>3

\* start_connect.
LEMMA StartAdvances ==
    ASSUME NEW d \in Ends, NEW r, Piped(r), StartConnect(d, r), socks \in Seq(Sock)
    PROVE  Advances(d, r)
<1>0. r \in Peer /\ PipeOK(r)
    BY Zenon DEF Piped
<1>1. CASE r.state \in {"connecting", "connect_ack"}
  <2>1. Turn(d, r)
      BY Zenon, <1>1 DEF StartConnect, Turn
  <2> QED
      BY Zenon, <1>0, <2>1, GoesSame DEF Advances
<1>2. CASE r.state = "connected"
  <2> DEFINE y == OnDeck(r)
             q == ArmSend(y)
  <2>1. Turn(d, q)
      BY Zenon, <1>2 DEF StartConnect, Turn
  <2>2. Goes(r, y) /\ Fronted(y)
      BY Zenon, <1>0, GoesOnDeck
  <2> HIDE DEF y
  <2>3. y \in Peer /\ PipeOK(y)
      BY Zenon, <2>2 DEF Goes
  <2>4. q.deck = y.deck /\ q.queue = y.queue /\ q.work = y.work /\ q.asked = y.asked
        /\ q.ended = y.ended /\ q.posted = y.posted
      BY Zenon, <2>3 DEF ArmSend, Peer
  <2>5. q \in Peer
      BY Zenon, <2>3, SmallTypes
  <2> HIDE DEF q
  <2>6. Goes(y, q) /\ Fronted(q)
      BY Zenon, <2>2, <2>3, <2>4, <2>5, GoesSame DEF Fronted
  <2>7. Goes(r, q) /\ Piped(q)
      BY Zenon, <2>2, <2>6, GoesOn DEF Piped, Goes
  <2> QED
      BY Zenon, <2>1, <2>7 DEF Advances
<1>3. CASE r.state \notin {"connecting", "connect_ack", "connected"}
  <2> DEFINE p == [r EXCEPT !.state = "connecting"]
  <2>1. p \in Peer /\ p.deck = r.deck /\ p.queue = r.queue /\ p.work = r.work /\ p.asked = r.asked
        /\ p.ended = r.ended /\ p.posted = r.posted /\ p.worker = r.worker
      BY ZenonT(30), <1>0 DEF Peer, States
  <2>2. TryConnect(d, p)
      BY Zenon, <1>3 DEF StartConnect
  <2> HIDE DEF p
  <2>3. Piped(p) /\ Goes(r, p)
      BY Zenon, <2>1, SamePiped
  <2>4. Advances(d, p)
      BY Zenon, <2>2, <2>3, TryAdvances
  <2> QED
      BY Zenon, <2>3, <2>4, GoesOn DEF Advances
<1> QED
    BY Zenon, <1>1, <1>2, <1>3

\* The handlers of the main thread, one by one.
LEMMA MainEventAdvances ==
    ASSUME SocketInv, PipeInv, NEW d \in Ends, TcpMainEvent(d)
    PROVE  Advances(d, oob[d])
<1> DEFINE o == oob[d]
           ev == Head(o.posted)
           r  == [o EXCEPT !.posted = Tail(@)]
<1>1. o \in Peer /\ PipeOK(o) /\ Piped(o) /\ o.posted # <<>> /\ socks \in Seq(Sock)
    BY Zenon DEF SocketInv, TcpTypeOK, PipeInv, Piped, TcpMainEvent
<1>2. ev \in Posted
    BY Zenon, <1>1, PopType
<1>3. (CASE ev.e = "try" -> TryConnect(d, r)
        [] ev.e = "start" -> StartConnect(d, r)
        [] ev.e = "send"  -> oob' = [oob EXCEPT ![d] = SendNb(r, ev.m)] /\ UNCHANGED socks
        [] OTHER -> oob' = [oob EXCEPT ![d] = [r EXCEPT !.down = TRUE]] /\ UNCHANGED socks)
    BY Zenon DEF TcpMainEvent
<1>4. Goes(o, r) /\ r.deck = o.deck /\ r.queue = o.queue /\ r.work = o.work /\ r.worker = o.worker
    BY Zenon, <1>1, GoesPop
<1>5. IsSend(ev) => LET q == SendNb(r, ev.m) IN
         Goes(o, q) /\ q.deck = o.deck /\ q.queue = o.queue /\ q.worker = o.worker
    BY Zenon, <1>1, GoesSendNb
<1> HIDE DEF o, r, ev
<1>6. r \in Peer /\ PipeOK(r) /\ Piped(r)
    BY Zenon, <1>1, <1>4 DEF Goes, Piped, Fronted
<1>7. CASE ev.e = "try"
  <2>1. Advances(d, r)
      BY Zenon, <1>1, <1>3, <1>6, <1>7, TryAdvances
  <2> QED
      BY Zenon, <1>4, <2>1, GoesOn DEF Advances, o
<1>8. CASE ev.e = "start"
  <2>1. Advances(d, r)
      BY Zenon, <1>1, <1>3, <1>6, <1>8, StartAdvances
  <2> QED
      BY Zenon, <1>4, <2>1, GoesOn DEF Advances, o
<1>9. CASE ev.e = "send"
  <2> DEFINE q == SendNb(r, ev.m)
  <2>1. Turn(d, q)
      BY Zenon, <1>3, <1>9 DEF Turn
  <2>2. Goes(o, q) /\ q.deck = o.deck /\ q.queue = o.queue /\ q.worker = o.worker
      BY Zenon, <1>5, <1>9 DEF IsSend
  <2>3. Piped(q)
      BY Zenon, <1>1, <2>2 DEF Piped, Goes, Fronted
  <2> QED
      BY Zenon, <2>1, <2>2, <2>3 DEF Advances, o
<1>10. CASE ev.e \notin {"try", "start", "send"}
  <2> DEFINE q == [r EXCEPT !.down = TRUE]
  <2>1. Turn(d, q)
      BY Zenon, <1>3, <1>10 DEF Turn
  <2>2. q \in Peer /\ q.deck = r.deck /\ q.queue = r.queue /\ q.work = r.work /\ q.asked = r.asked
        /\ q.ended = r.ended /\ q.posted = r.posted /\ q.worker = r.worker
      BY Zenon, <1>6 DEF Peer
  <2> HIDE DEF q
  <2>3. Piped(q) /\ Goes(r, q)
      BY Zenon, <1>6, <2>2, SamePiped
  <2> QED
      BY Zenon, <1>4, <2>1, <2>3, GoesOn DEF Advances, o
<1> QED
    BY ZenonT(30), <1>7, <1>8, <1>9, <1>10

\* The retry timer.
LEMMA RetryTimerAdvances ==
    ASSUME SocketInv, PipeInv, NEW d \in Ends, TcpRetryTimer(d)
    PROVE  Advances(d, oob[d])
<1> DEFINE r == [oob[d] EXCEPT !.timers = @ - 1]
<1>1. oob[d] \in Peer /\ Piped(oob[d]) /\ oob[d].timers > 0 /\ TryConnect(d, r) /\ socks \in Seq(Sock)
    BY Zenon DEF SocketInv, TcpTypeOK, PipeInv, TcpRetryTimer
<1>2. oob[d].timers - 1 \in Nat
    BY SMTT(30), <1>1 DEF Peer
<1>3. r \in Peer /\ r.deck = oob[d].deck /\ r.queue = oob[d].queue /\ r.work = oob[d].work
      /\ r.asked = oob[d].asked /\ r.ended = oob[d].ended /\ r.posted = oob[d].posted
      /\ r.worker = oob[d].worker
    BY Zenon, <1>1, <1>2 DEF Peer
<1> HIDE DEF r
<1>4. Piped(r) /\ Goes(oob[d], r)
    BY Zenon, <1>1, <1>3, SamePiped
<1>5. Advances(d, r)
    BY Zenon, <1>1, <1>4, TryAdvances
<1> QED
    BY Zenon, <1>4, <1>5, GoesOn DEF Advances

\* A connection given up, on either thread.
LEMMA ClosePiped ==
    ASSUME NEW r, Piped(r)
    PROVE  Goes(r, MainClose(r)) /\ Piped(MainClose(r))
           /\ Goes(r, WorkerClose(r)) /\ (r.worker # "sent" => Piped(WorkerClose(r)))
<1>0. r \in Peer /\ PipeOK(r)
    BY Zenon DEF Piped
<1>1. Goes(r, MainClose(r)) /\ Goes(r, WorkerClose(r))
    BY Zenon, <1>0, GoesClose
<1>2. \/ MainClose(r).queue = <<>>
      \/ MainClose(r).queue = r.queue /\ MainClose(r).deck = r.deck /\ MainClose(r).worker = r.worker
  <2>1. CASE r.state = "closed"
    <3>1. MainClose(r) = r
        BY Zenon, <2>1 DEF MainClose, Rotates
    <3> QED
        BY Zenon, <3>1
  <2>2. CASE r.state # "closed" /\ Rotates(r)
    <3> DEFINE u == Unarmed(r)
               p == [u EXCEPT !.state = "connecting", !.sd = NoSocket, !.addrFailed = TRUE]
    <3>1. MainClose(r) = Post(p, "try")
        BY Zenon, <2>2 DEF MainClose, RotateAddress
    <3>2. u \in Peer /\ u.deck = r.deck /\ u.queue = r.queue /\ u.worker = r.worker
        BY Zenon, <1>0, UnarmedFields
    <3> HIDE DEF u
    <3>3. p \in Peer /\ p.deck = u.deck /\ p.queue = u.queue /\ p.worker = u.worker
        BY ZenonT(30), <3>2 DEF Peer, States, NoSocket
    <3> HIDE DEF p
    <3>4. Post(p, "try").deck = p.deck /\ Post(p, "try").queue = p.queue /\ Post(p, "try").worker = p.worker
        BY ZenonT(60), <3>3, PostFields
    <3> QED
        BY Zenon, <3>1, <3>2, <3>3, <3>4
  <2>3. CASE r.state # "closed" /\ ~Rotates(r)
    <3>1. MainClose(r) = LiftLostSends(TearDown(r))
        BY Zenon, <2>3 DEF MainClose
    <3>2. TearDown(r) \in Peer
        BY Zenon, <1>0, SmallTypes
    <3>3. LiftLostSends(TearDown(r)).queue = <<>>
        BY Zenon, <3>2, LostFields
    <3> QED
        BY Zenon, <3>1, <3>3
  <2> QED
      BY Zenon, <2>1, <2>2, <2>3
<1>3. WorkerClose(r).queue = r.queue /\ WorkerClose(r).deck = r.deck
  <2>1. TearDown(r) \in Peer /\ TearDown(r).queue = r.queue /\ TearDown(r).deck = r.deck
      BY Zenon, <1>0, SmallTypes, TearDownFields
  <2>2. \A p \in Peer : \A w : [p EXCEPT !.worker = w].queue = p.queue /\ [p EXCEPT !.worker = w].deck = p.deck
      BY Zenon DEF Peer
  <2> QED
      BY Zenon, <1>0, <2>1, <2>2 DEF WorkerClose
<1> QED
    BY Zenon, <1>1, <1>2, <1>3 DEF Piped, Goes, Fronted

\* complete_connect.
LEMMA ConnectCompletesAdvances ==
    ASSUME SocketInv, PipeInv, NEW d \in Ends, TcpConnectCompletes(d)
    PROVE  Advances(d, oob[d])
<1> DEFINE r == oob[d]
           q == [r EXCEPT !.state = "connect_ack", !.sev = FALSE, !.rev = TRUE]
<1>1. r \in Peer /\ Piped(r) /\ (Turn(d, MainClose(r)) \/ Turn(d, q))
    BY Zenon DEF SocketInv, TcpTypeOK, PipeInv, TcpConnectCompletes, Turn
<1>2. q \in Peer /\ q.deck = r.deck /\ q.queue = r.queue /\ q.work = r.work /\ q.asked = r.asked
      /\ q.ended = r.ended /\ q.posted = r.posted /\ q.worker = r.worker
    BY ZenonT(30), <1>1 DEF Peer, States
<1> HIDE DEF q, r
<1>3. Piped(q) /\ Goes(r, q)
    BY Zenon, <1>1, <1>2, SamePiped
<1>4. Piped(MainClose(r)) /\ Goes(r, MainClose(r))
    BY Zenon, <1>1, ClosePiped
<1> QED
    BY Zenon, <1>1, <1>3, <1>4 DEF Advances, r

\* tcp_peer_connected puts a message on deck if there is one.
LEMMA ConnectedPiped ==
    ASSUME NEW r \in Peer, PipeOK(r)
    PROVE  Piped(TcpPeerConnected(r)) /\ Goes(r, TcpPeerConnected(r))
    BY Zenon, GoesConnected DEF Piped, Goes

\* recv_connect_ack on a socket this daemon dialled.
LEMMA AnsweredAdvances ==
    ASSUME SocketInv, PipeInv, NEW d \in Ends, TcpAnswered(d)
    PROVE  Advances(d, oob[d])
<1> DEFINE r == oob[d]
           p == [r EXCEPT !.state = "failed"]
           u == Unarmed(r)
           n == [u EXCEPT !.sd = NoSocket, !.state = "unconnected"]
<1>1. r \in Peer /\ Piped(r) /\ PipeOK(r)
      /\ (Turn(d, MainClose(p)) \/ Turn(d, n) \/ Turn(d, TcpPeerConnected(r)))
    BY Zenon DEF SocketInv, TcpTypeOK, PipeInv, Piped, TcpAnswered, Turn
<1>2. p \in Peer /\ p.deck = r.deck /\ p.queue = r.queue /\ p.work = r.work /\ p.asked = r.asked
      /\ p.ended = r.ended /\ p.posted = r.posted /\ p.worker = r.worker
    BY ZenonT(30), <1>1 DEF Peer, States
<1>3. u \in Peer /\ u.deck = r.deck /\ u.queue = r.queue /\ u.work = r.work /\ u.asked = r.asked
      /\ u.ended = r.ended /\ u.posted = r.posted /\ u.worker = r.worker
    BY Zenon, <1>1, UnarmedFields
<1> HIDE DEF u, r, p
<1>4. n \in Peer /\ n.deck = u.deck /\ n.queue = u.queue /\ n.work = u.work /\ n.asked = u.asked
      /\ n.ended = u.ended /\ n.posted = u.posted /\ n.worker = u.worker
    BY ZenonT(30), <1>3 DEF Peer, States, NoSocket
<1> HIDE DEF n
<1>5. Piped(p) /\ Goes(r, p)
    BY Zenon, <1>1, <1>2, SamePiped
<1>6. Piped(MainClose(p)) /\ Goes(r, MainClose(p))
    BY Zenon, <1>5, ClosePiped, GoesOn
<1>7. Piped(n) /\ Goes(r, n)
    BY Zenon, <1>1, <1>3, <1>4, SamePiped
<1>8. Piped(TcpPeerConnected(r)) /\ Goes(r, TcpPeerConnected(r))
    BY Zenon, <1>1, ConnectedPiped
<1> QED
    BY Zenon, <1>1, <1>6, <1>7, <1>8 DEF Advances, r

\* prte_oob_tcp_peer_accept.
LEMMA AcceptAdvances ==
    ASSUME NEW d \in Ends, NEW r, Piped(r), NEW s \in Nat, NEW ss, Accept(d, r, s, ss)
    PROVE  Advances(d, r)
<1> DEFINE p == [r EXCEPT !.sd = s, !.state = "failed"]
           c == [r EXCEPT !.sd = s]
<1>0. r \in Peer /\ PipeOK(r) /\ (Turn(d, MainClose(p)) \/ Turn(d, TcpPeerConnected(c)))
    BY Zenon DEF Piped, Accept, Turn
<1>1. p \in Peer /\ p.deck = r.deck /\ p.queue = r.queue /\ p.work = r.work /\ p.asked = r.asked
      /\ p.ended = r.ended /\ p.posted = r.posted /\ p.worker = r.worker
    BY Zenon, <1>0 DEF Peer, States
<1>2. c \in Peer /\ c.deck = r.deck /\ c.queue = r.queue /\ c.work = r.work /\ c.asked = r.asked
      /\ c.ended = r.ended /\ c.posted = r.posted /\ c.worker = r.worker
    BY Zenon, <1>0 DEF Peer
<1> HIDE DEF p, c
<1>3. Piped(p) /\ Goes(r, p)
    BY Zenon, <1>1, SamePiped
<1>4. Piped(MainClose(p)) /\ Goes(r, MainClose(p))
    BY Zenon, <1>3, ClosePiped, GoesOn
<1>5. Piped(c) /\ Goes(r, c) /\ PipeOK(c)
    BY Zenon, <1>2, SamePiped DEF Goes
<1>6. Piped(TcpPeerConnected(c)) /\ Goes(r, TcpPeerConnected(c))
    BY Zenon, <1>2, <1>5, ConnectedPiped, GoesOn
<1> QED
    BY Zenon, <1>0, <1>4, <1>6 DEF Advances

\* recv_connect_ack on a socket the other daemon dialled.
LEMMA CalledAdvances ==
    ASSUME SocketInv, PipeInv, NEW d \in Ends, TcpCalled(d)
    PROVE  Advances(d, oob[d])
<1> DEFINE r == oob[d]
<1>1. r \in Peer /\ Piped(r) /\ PipeOK(r) /\ oob \in [Ends -> Peer]
    BY Zenon DEF SocketInv, TcpTypeOK, PipeInv, Piped
<1>2. PICK s \in DOMAIN socks :
        \/ UNCHANGED oob
        \/ \E ss : Accept(d, r, s, ss)
        \/ Turn(d, [r EXCEPT !.state = "unconnected", !.main = s])
    BY Zenon DEF TcpCalled, Turn
<1>3. s \in Nat
    BY SMTT(30) DEF SocketInv, TcpTypeOK
<1>4. CASE UNCHANGED oob
  <2>1. Turn(d, r)
      BY Zenon, <1>1, <1>4 DEF Turn
  <2> QED
      BY Zenon, <1>1, <2>1, GoesSame DEF Advances
<1>5. CASE \E ss : Accept(d, r, s, ss)
    BY Zenon, <1>1, <1>3, <1>5, AcceptAdvances
<1>6. CASE Turn(d, [r EXCEPT !.state = "unconnected", !.main = s])
  <2> DEFINE q == [r EXCEPT !.state = "unconnected", !.main = s]
  <2>1. q \in Peer /\ q.deck = r.deck /\ q.queue = r.queue /\ q.work = r.work /\ q.asked = r.asked
        /\ q.ended = r.ended /\ q.posted = r.posted /\ q.worker = r.worker
      BY Zenon, <1>1, <1>3 DEF Peer, States
  <2> HIDE DEF q
  <2>2. Piped(q) /\ Goes(r, q)
      BY Zenon, <1>1, <2>1, SamePiped
  <2> QED
      BY Zenon, <1>6, <2>2 DEF Advances, q
<1> QED
    BY Zenon, <1>2, <1>4, <1>5, <1>6

\* The rest of retry().
LEMMA AbandonsAdvances ==
    ASSUME SocketInv, PipeInv, NEW d \in Ends, TcpAbandons(d)
    PROVE  Advances(d, oob[d])
<1> DEFINE r == oob[d]
           a == Abandon(r, r.main)
<1>1. r \in Peer /\ Piped(r) /\ Accept(d, a, r.main, Shut(socks, r.sd, d))
    BY Zenon DEF SocketInv, TcpTypeOK, PipeInv, TcpAbandons
<1>2. r.main \in Nat
    BY Zenon, <1>1 DEF Peer
<1>3. a \in Peer /\ a.deck = r.deck /\ a.queue = r.queue /\ a.work = r.work /\ a.asked = r.asked
      /\ a.ended = r.ended /\ a.posted = r.posted /\ a.worker = r.worker
    BY ZenonT(30), <1>1, <1>2, AbandonFields
<1> HIDE DEF a
<1>4. Piped(a) /\ Goes(r, a)
    BY Zenon, <1>1, <1>3, SamePiped
<1>5. Advances(d, a)
    BY Zenon, <1>1, <1>2, <1>4, AcceptAdvances
<1> QED
    BY Zenon, <1>4, <1>5, GoesOn DEF Advances

\* The handlers of the worker thread, one by one.
LEMMA QueueMsgAdvances ==
    ASSUME SocketInv, PipeInv, NEW d \in Ends, TcpQueueMsg(d)
    PROVE  Advances(d, oob[d])
<1> DEFINE o == oob[d]
           r == [o EXCEPT !.work = Tail(@)]
           q == QueueMsg(r, Head(o.work))
<1>q. Turn(d, q)
    BY Zenon DEF TcpQueueMsg, Turn
<1>1. o \in Peer /\ PipeOK(o) /\ o.worker = "idle" /\ Fronted(o) /\ o.work # <<>>
    BY Zenon DEF SocketInv, TcpTypeOK, PipeInv, Piped, TcpQueueMsg, WorkerIdle
<1>2. Goes(o, q) /\ Fronted(q)
    BY Zenon, <1>1, GoesQueueMsg
<1>3. Piped(q)
    BY Zenon, <1>2 DEF Piped, Goes
<1> QED
    BY Zenon, <1>q, <1>2, <1>3 DEF Advances

\* The send handler.
LEMMA SendHandlerAdvances ==
    ASSUME SocketInv, PipeInv, NEW d \in Ends, TcpSendHandler(d)
    PROVE  Advances(d, oob[d])
<1> DEFINE r == oob[d]
           sent == [r EXCEPT !.worker = "sent"]
           half == [r EXCEPT !.half = TRUE]
           done == [Ended(r, <<r.deck>>) EXCEPT !.deck = NoMsg, !.half = FALSE, !.worker = "sent"]
<1>1. r \in Peer /\ Piped(r) /\ PipeOK(r) /\ r.worker = "idle"
    BY Zenon DEF SocketInv, TcpTypeOK, PipeInv, Piped, TcpSendHandler, WorkerIdle
<1>2. \/ Turn(d, sent)
      \/ Turn(d, WorkerClose(r))
      \/ Turn(d, half)
      \/ r.deck # NoMsg /\ Turn(d, done)
    BY Zenon DEF TcpSendHandler, Turn
<1>3. sent \in Peer /\ sent.deck = r.deck /\ sent.queue = r.queue /\ sent.work = r.work
      /\ sent.asked = r.asked /\ sent.ended = r.ended /\ sent.posted = r.posted
    BY Zenon, <1>1 DEF Peer
<1>4. half \in Peer /\ half.deck = r.deck /\ half.queue = r.queue /\ half.work = r.work
      /\ half.asked = r.asked /\ half.ended = r.ended /\ half.posted = r.posted
    BY Zenon, <1>1 DEF Peer
<1>5. ASSUME r.deck # NoMsg
      PROVE  Piped(done) /\ Goes(r, done)
  <2> DEFINE x == Ended(r, <<r.deck>>)
  <2>1. r.deck \in Nat /\ r.ended \in Seq(Nat)
      BY Zenon, <1>1, Numbers
  <2>2. <<r.deck>> \in Seq(Nat)
      BY SMTT(30), <2>1
  <2>3. x \in Peer
      BY Zenon, <1>1, <2>2, EndedType
  <2>4. x.queue = r.queue /\ x.work = r.work /\ x.asked = r.asked
        /\ x.ended = r.ended \o <<r.deck>> /\ x.posted = r.posted
      BY Zenon, <1>1 DEF Ended, Peer
  <2>5. done = [x EXCEPT !.deck = NoMsg, !.half = FALSE, !.worker = "sent"]
      BY Zenon
  <2> HIDE DEF x
  <2>6. [x EXCEPT !.deck = NoMsg, !.half = FALSE, !.worker = "sent"] \in Peer
      BY Zenon, <2>3 DEF Peer, NoMsg
  <2>7. done \in Peer
      BY Zenon, <2>5, <2>6
  <2>8. done.deck = NoMsg /\ done.queue = x.queue /\ done.work = x.work /\ done.asked = x.asked
        /\ done.ended = x.ended /\ done.posted = x.posted /\ done.worker = "sent"
      BY Zenon, <2>3, <2>5 DEF Peer
  <2> HIDE DEF done
  <2>9. Gains(r.ended, r.ended \o <<r.deck>>, r.deck)
      BY Zenon, <2>1, AppendGains
  <2>10. Gains(r.ended, done.ended, r.deck)
      BY Zenon, <2>4, <2>8, <2>9
  <2>11. done.queue = r.queue /\ done.work = r.work /\ done.asked = r.asked /\ done.posted = r.posted
      BY Zenon, <2>4, <2>8
  <2>12. PipeOK(done) /\ Narrows(r, done)
      BY Zenon, <1>1, <1>5, <2>7, <2>8, <2>10, <2>11, PipeDone
  <2> QED
      BY Zenon, <2>7, <2>8, <2>12 DEF Goes, Piped
<1> HIDE DEF sent, half, done
<1>6. Piped(sent) /\ Goes(r, sent) /\ Piped(half) /\ Goes(r, half)
    BY Zenon, <1>1, <1>3, <1>4, SamePiped
<1>7. Piped(WorkerClose(r)) /\ Goes(r, WorkerClose(r))
    BY Zenon, <1>1, ClosePiped
<1> QED
    BY Zenon, <1>2, <1>5, <1>6, <1>7 DEF Advances

\* Its end.
LEMMA SendNextAdvances ==
    ASSUME SocketInv, PipeInv, NEW d \in Ends, TcpSendNext(d)
    PROVE  Advances(d, oob[d])
<1> DEFINE r == OnDeck(oob[d])
           q == [r EXCEPT !.sev = r.sev /\ r.deck # NoMsg, !.worker = "idle"]
<1>1. oob[d] \in Peer /\ PipeOK(oob[d])
    BY Zenon DEF SocketInv, TcpTypeOK, PipeInv, Piped
<1>2. Turn(d, q)
    BY Zenon DEF TcpSendNext, Turn
<1>3. Goes(oob[d], r) /\ Fronted(r)
    BY Zenon, <1>1, GoesOnDeck
<1> HIDE DEF r
<1>4. r \in Peer /\ PipeOK(r)
    BY Zenon, <1>3 DEF Goes
<1>5. (r.sev /\ r.deck # NoMsg) \in BOOLEAN
    BY Zenon
<1>6. q \in Peer
  <2> DEFINE b == r.sev /\ r.deck # NoMsg
  <2>1. b \in BOOLEAN
      BY Zenon
  <2>2. q = [r EXCEPT !.sev = b, !.worker = "idle"]
      BY Zenon
  <2> HIDE DEF b, q
  <2>3. [r EXCEPT !.sev = b, !.worker = "idle"] \in Peer
      BY Zenon, <1>4, <2>1 DEF Peer
  <2> QED
      BY Zenon, <2>2, <2>3
<1>7. q.deck = r.deck /\ q.queue = r.queue /\ q.work = r.work /\ q.asked = r.asked
      /\ q.ended = r.ended /\ q.posted = r.posted
    BY Zenon, <1>4 DEF Peer
<1> HIDE DEF q
<1>8. Goes(r, q) /\ Fronted(q)
    BY Zenon, <1>3, <1>4, <1>6, <1>7, GoesSame DEF Fronted
<1>9. Goes(oob[d], q) /\ Piped(q)
    BY Zenon, <1>3, <1>8, GoesOn DEF Piped, Goes
<1> QED
    BY Zenon, <1>2, <1>9 DEF Advances

\* The receive handler.
LEMMA RecvHandlerAdvances ==
    ASSUME SocketInv, PipeInv, NEW d \in Ends, TcpRecvHandler(d)
    PROVE  Advances(d, oob[d])
<1> DEFINE r == oob[d]
           f == Head(socks[r.sd].buf[d])
           h == [r EXCEPT !.recv = f.m]
           b == [r EXCEPT !.recv = NoMsg, !.heard = Append(@, r.recv)]
<1>1. r \in Peer /\ Piped(r) /\ r.worker = "idle"
    BY Zenon DEF SocketInv, TcpTypeOK, PipeInv, TcpRecvHandler, Received, WorkerIdle
<1>2. \/ Turn(d, WorkerClose(r))
      \/ r.sd \in DOMAIN socks /\ socks[r.sd].buf[d] # <<>> /\ Turn(d, h)
      \/ Turn(d, b)
  <2>1. r.state = "connected" => r.sd \in DOMAIN socks
      BY Zenon DEF SocketInv, HoldsSockets
  <2>2. \/ Turn(d, WorkerClose(r))
        \/ r.state = "connected" /\ socks[r.sd].buf[d] # <<>> /\ Turn(d, IF f.t = "head" THEN h ELSE b)
      BY Zenon DEF TcpRecvHandler, Received, Turn, AtEnd
  <2> QED
      BY Zenon, <2>1, <2>2
<1>3. ASSUME r.sd \in DOMAIN socks, socks[r.sd].buf[d] # <<>>
      PROVE  f.m \in Nat
  <2>1. socks[r.sd].buf[d] \in Seq(Frames)
      BY Zenon, <1>3, BufType DEF SocketInv, TcpTypeOK
  <2>2. f \in Frames
      BY SMTT(30), <1>3, <2>1
  <2> QED
      BY Zenon, <2>2 DEF Frames
<1>4. ASSUME f.m \in Nat
      PROVE  h \in Peer
    BY Zenon, <1>1, <1>4 DEF Peer
<1>5. h.deck = r.deck /\ h.queue = r.queue /\ h.work = r.work
      /\ h.asked = r.asked /\ h.ended = r.ended /\ h.posted = r.posted /\ h.worker = r.worker
    BY Zenon, <1>1 DEF Peer
<1>6. b \in Peer
  <2>1. r.heard \in Seq(Nat) /\ r.recv \in Nat
      BY Zenon, <1>1, Numbers
  <2>2. Append(r.heard, r.recv) \in Seq(Nat)
      BY SMTT(30), <2>1
  <2> QED
      BY Zenon, <1>1, <2>2 DEF Peer, NoMsg
<1>7. b.deck = r.deck /\ b.queue = r.queue /\ b.work = r.work
      /\ b.asked = r.asked /\ b.ended = r.ended /\ b.posted = r.posted /\ b.worker = r.worker
    BY Zenon, <1>1 DEF Peer
<1> HIDE DEF h, b
<1>8. h \in Peer => Piped(h) /\ Goes(r, h)
    BY Zenon, <1>1, <1>5, SamePiped
<1>9. Piped(b) /\ Goes(r, b)
    BY Zenon, <1>1, <1>6, <1>7, SamePiped
<1>10. Piped(WorkerClose(r)) /\ Goes(r, WorkerClose(r))
    BY Zenon, <1>1, ClosePiped
<1> QED
    BY ZenonT(30), <1>2, <1>3, <1>4, <1>8, <1>9, <1>10 DEF Advances

\* A handler that runs while retry() waits for it.
LEMMA StrayHandlerAdvances ==
    ASSUME SocketInv, PipeInv, NEW d \in Ends, TcpStrayHandler(d)
    PROVE  Advances(d, oob[d])
<1> DEFINE r == oob[d]
           q == [r EXCEPT !.sev = FALSE]
<1>1. r \in Peer /\ Piped(r) /\ r.worker = "idle"
    BY Zenon DEF SocketInv, TcpTypeOK, PipeInv, TcpStrayHandler, WorkerIdle
<1>2. Turn(d, q) \/ Turn(d, WorkerClose(r))
    BY Zenon DEF TcpStrayHandler, Turn
<1>3. q \in Peer /\ q.deck = r.deck /\ q.queue = r.queue /\ q.work = r.work
      /\ q.asked = r.asked /\ q.ended = r.ended /\ q.posted = r.posted /\ q.worker = r.worker
    BY Zenon, <1>1 DEF Peer
<1> HIDE DEF q
<1>4. Piped(q) /\ Goes(r, q)
    BY Zenon, <1>1, <1>3, SamePiped
<1>5. Piped(WorkerClose(r)) /\ Goes(r, WorkerClose(r))
    BY Zenon, <1>1, ClosePiped
<1> QED
    BY Zenon, <1>2, <1>4, <1>5 DEF Advances

\* The rest of peer_close on the worker thread.
LEMMA LiftAdvances ==
    ASSUME SocketInv, PipeInv, NEW d \in Ends, TcpLift(d)
    PROVE  Advances(d, oob[d])
<1> DEFINE r == oob[d]
           l == LiftLostSends(r)
           q == [l EXCEPT !.worker = "idle"]
<1>1. r \in Peer /\ PipeOK(r)
    BY Zenon DEF SocketInv, TcpTypeOK, PipeInv, Piped
<1>2. Turn(d, q)
    BY Zenon DEF TcpLift, Turn
<1>3. Goes(r, l) /\ l.queue = <<>>
    BY Zenon, <1>1, GoesLift, LostFields
<1> HIDE DEF l
<1>4. l \in Peer /\ PipeOK(l)
    BY Zenon, <1>3 DEF Goes
<1>5. q \in Peer /\ q.deck = l.deck /\ q.queue = l.queue /\ q.work = l.work /\ q.asked = l.asked
      /\ q.ended = l.ended /\ q.posted = l.posted
    BY Zenon, <1>4 DEF Peer
<1> HIDE DEF q
<1>6. Goes(l, q)
    BY Zenon, <1>4, <1>5, GoesSame
<1>7. Goes(r, q) /\ Piped(q)
    BY Zenon, <1>3, <1>5, <1>6, GoesOn DEF Goes, Piped, Fronted
<1> QED
    BY Zenon, <1>2, <1>7 DEF Advances

\* The RML hands in a message.
LEMMA SendPiped ==
    ASSUME SocketInv, PipeInv, NEW d \in Ends, TcpSend(d)
    PROVE  \E q : /\ Turn(d, q) /\ Piped(q)
                  /\ q.asked = oob[d].asked + 1 /\ q.deck = oob[d].deck
                  /\ \A m : Waiting(q, m) => Waiting(oob[d], m) \/ m = oob[d].asked + 1
<1> DEFINE r == oob[d]
           x == [e |-> "send", m |-> r.asked + 1]
           q == [r EXCEPT !.asked = @ + 1, !.posted = Append(@, x)]
<1>1. r \in Peer /\ PipeOK(r) /\ Piped(r)
    BY Zenon DEF SocketInv, TcpTypeOK, PipeInv, Piped
<1>2. Turn(d, q)
  <2>1. [oob EXCEPT ![d].asked = @ + 1, ![d].posted = Append(@, x)] = [oob EXCEPT ![d] = q]
      BY Zenon DEF SocketInv, TcpTypeOK
  <2> QED
      BY Zenon, <2>1 DEF TcpSend, Turn
<1>3. r.asked \in Nat /\ r.posted \in Seq(Posted)
    BY Zenon, <1>1, Numbers
<1>4. x \in Posted /\ IsSend(x) /\ x.m = r.asked + 1
    BY SMTT(30), <1>3 DEF Posted, Events, IsSend
<1> HIDE DEF x
<1>5. Append(r.posted, x) \in Seq(Posted) /\ r.asked + 1 \in Nat
    BY SMTT(30), <1>3, <1>4
<1>6. q \in Peer
    BY Zenon, <1>1, <1>5 DEF Peer
<1>7. q.deck = r.deck /\ q.queue = r.queue /\ q.work = r.work /\ q.asked = r.asked + 1
      /\ q.ended = r.ended /\ q.posted = Append(r.posted, x) /\ q.worker = r.worker
    BY Zenon, <1>1 DEF Peer
<1> HIDE DEF q, r
<1>8. Gains(r.posted, q.posted, x)
    BY Zenon, <1>3, <1>7, AppendGains
<1>9. PipeOK(q)
    BY ZenonT(30), <1>1, <1>4, <1>6, <1>7, <1>8, PipeAsk
<1>10. Piped(q)
    BY Zenon, <1>1, <1>6, <1>7, <1>9 DEF Piped, Fronted
<1>11. \A m : Waiting(q, m) => Waiting(r, m) \/ m = r.asked + 1
    BY ZenonT(30), <1>4, <1>7, <1>8 DEF Waiting, Gains
<1> QED
    BY Zenon, <1>2, <1>7, <1>10, <1>11 DEF r

\* Every handler.
LEMMA HandlerAdvances ==
    ASSUME SocketInv, PipeInv, NEW d \in Ends, TcpHandler(d)
    PROVE  Advances(d, oob[d])
    BY Zenon, MainEventAdvances, RetryTimerAdvances, ConnectCompletesAdvances, AnsweredAdvances,
       CalledAdvances, AbandonsAdvances, QueueMsgAdvances, SendHandlerAdvances, SendNextAdvances,
       RecvHandlerAdvances, StrayHandlerAdvances, LiftAdvances DEF TcpHandler

\* The lines are empty at the start.
LEMMA PipeInvInit == TcpInit => PipeInv
<1> SUFFICES ASSUME TcpInit, NEW d \in Ends PROVE Piped(oob[d])
    BY Zenon DEF PipeInv
<1>1. oob[d] \in Peer
    BY Zenon, SocketInvInit DEF SocketInv, TcpTypeOK
<1>2. oob[d].deck = 0 /\ oob[d].queue = <<>> /\ oob[d].work = <<>> /\ oob[d].asked = 0
      /\ oob[d].ended = <<>> /\ oob[d].posted = <<>>
    BY Zenon DEF TcpInit, NewPeer, NoMsg
<1>3. PipeOK(oob[d])
    BY SMTT(30), <1>2 DEF PipeOK, InLine, QueueInLine, WorkInLine, PostedInLine, EndedOnce
<1> QED
    BY Zenon, <1>1, <1>2, <1>3 DEF Piped, Fronted

\* The second invariant is inductive.
LEMMA PipeInvStep == SocketInv /\ PipeInv /\ [TcpNext]_tcpVars => PipeInv'
<1> SUFFICES ASSUME SocketInv, PipeInv, [TcpNext]_tcpVars PROVE PipeInv'
    BY Zenon
<1>1. ASSUME NEW d \in Ends, NEW q, Turn(d, q), Piped(q)
      PROVE  PipeInv'
  <2>1. oob \in [Ends -> Peer]
      BY Zenon DEF SocketInv, TcpTypeOK
  <2>2. \A e \in Ends : oob'[e] = q \/ oob'[e] = oob[e]
      BY Zenon, <1>1, <2>1 DEF Turn
  <2>3. \A e \in Ends : Piped(oob'[e])
      BY Zenon, <1>1, <2>2 DEF PipeInv
  <2> QED
      BY Zenon, <2>3 DEF PipeInv
<1>2. ASSUME NEW d \in Ends, TcpSend(d) PROVE PipeInv'
    BY Zenon, <1>1, <1>2, SendPiped
<1>3. ASSUME NEW d \in Ends, TcpHandler(d) PROVE PipeInv'
    BY Zenon, <1>1, <1>3, HandlerAdvances DEF Advances
<1>4. CASE UNCHANGED oob
    BY Zenon, <1>4 DEF PipeInv
<1>5. ASSUME NEW s \in DOMAIN socks, TcpBreak(s) PROVE PipeInv'
    BY Zenon, <1>4, <1>5 DEF TcpBreak
<1>6. CASE UNCHANGED tcpVars
    BY Zenon, <1>4, <1>6 DEF tcpVars
<1> QED
    BY Zenon, <1>2, <1>3, <1>5, <1>6 DEF TcpNext

\* What is completed was completed once.
LEMMA CompletedFollows == SocketInv /\ PipeInv => TcpCompletedOnce
    BY Zenon DEF PipeInv, Piped, PipeOK, EndedOnce, TcpCompletedOnce, IsInjective

\* complete_send is told of each message once, whoever completes it.
THEOREM AlwaysCompletedOnce == TcpSpec => []TcpCompletedOnce
<1>1. TcpSpec => []SocketInv
    BY SocketInvInit, SocketInvStep, PTL DEF TcpSpec
<1>2. TcpSpec => []PipeInv
    BY <1>1, PipeInvInit, PipeInvStep, PTL DEF TcpSpec
<1> QED
    BY <1>1, <1>2, CompletedFollows, PTL

=============================================================================

------------------------------- MODULE RmlMatch -------------------------------
(***************************************************************************)
(* Matching of inbound messages with posted receives at one daemon         *)
(* (src/rml/rml_base_msg_handlers.c, rml_recv.c, rml_purge.c).             *)
(*                                                                         *)
(* Everything runs on the progress thread, one event at a time: requests   *)
(* to post or cancel a receive and inbound messages all enter one FIFO     *)
(* event queue, and a parked message that finds its receive is activated   *)
(* again, which puts it at the END of that queue.                          *)
(*                                                                         *)
(* A message is <<sender, k, tag>>: the k-th message of that sender.       *)
(***************************************************************************)
EXTENDS Naturals, Sequences, SequencesExt

CONSTANTS
    Peers,      \* senders of messages
    AnyRank,    \* the wildcard rank in a receive's peer
    Tags,       \* RML tags, Warmup among them or not
    Warmup,     \* PRTE_RML_TAG_WARMUP_CONNECTION
    MaxMsgs,    \* bound: messages that arrive, over all senders
    MaxReqs,    \* bound: receive requests the local code makes
    MaxPurges   \* bound: peers that go away

ASSUME RmlMatchAssumption ==
    AnyRank \notin Peers /\ MaxMsgs \in Nat /\ MaxReqs \in Nat /\ MaxPurges \in Nat

VARIABLES
    arrived,        \* the messages that have arrived
    queue,          \* active events of prte_event_base
    posted_recvs,   \* prte_rml_base.posted_recvs
    unmatched_msgs, \* prte_rml_base.unmatched_msgs
    delivered,      \* messages handed to a receive's callback, in order
    aborted,        \* the duplicate-receive check called abort()
    reqs, purged,   \* requests made, peers purged
    parked          \* history: messages that were ever held as unmatched

vars == <<arrived, queue, posted_recvs, unmatched_msgs, delivered, aborted, reqs, purged, parked>>

Msgs == Peers \X (1 .. MaxMsgs) \X Tags

\* PMIX_CHECK_PROCID: equal, or either is the wildcard.
CheckProcid(a, b) == a = b \/ a = AnyRank \/ b = AnyRank

Matches(m, recv) == CheckProcid(m[1], recv.peer) /\ m[3] = recv.tag
SameRecv(p, q)   == CheckProcid(p.peer, q.peer) /\ p.tag = q.tag

MsgEvent(m)        == [kind |-> "msg", msg |-> m]
PostEvent(recv)    == [kind |-> "post", recv |-> recv]
CancelEvent(recv)  == [kind |-> "cancel", recv |-> recv]

Recvs == [peer : Peers \cup {AnyRank}, tag : Tags \ {Warmup}, persistent : BOOLEAN]

DropFirst(s, Test(_)) ==
    IF \E i \in DOMAIN s : Test(s[i]) THEN RemoveAt(s, SelectInSeq(s, Test)) ELSE s

Init ==
    /\ arrived = {}
    /\ queue = <<>> /\ posted_recvs = <<>> /\ unmatched_msgs = <<>>
    /\ delivered = <<>>
    /\ aborted = FALSE /\ reqs = 0 /\ purged = {} /\ parked = {}

(***************************************************************************)
(* Entry points: the transport and the local code, each adding an event.   *)
(***************************************************************************)
\* PRTE_RML_ACTIVATE_MESSAGE
Activate(msgs) == [i \in DOMAIN msgs |-> MsgEvent(msgs[i])]

\* Mutant of PostMessage: the newest event is handled first.
PostMessageFirst(p, tag) ==
    LET m == <<p, 1 + Cardinality({x \in arrived : x[1] = p}), tag>>
    IN  /\ Cardinality(arrived) < MaxMsgs /\ p \notin purged
        /\ arrived' = arrived \cup {m}
        /\ queue' = Activate(<<m>>) \o queue
        /\ UNCHANGED <<posted_recvs, unmatched_msgs, delivered, aborted, reqs, purged, parked>>

\* PRTE_RML_POST_MESSAGE: the transport delivers a connection's next message.
PostMessage(p, tag) ==
    LET m == <<p, 1 + Cardinality({x \in arrived : x[1] = p}), tag>>
    IN  /\ Cardinality(arrived) < MaxMsgs /\ p \notin purged
        /\ arrived' = arrived \cup {m}
        /\ queue' = queue \o Activate(<<m>>)
        /\ UNCHANGED <<posted_recvs, unmatched_msgs, delivered, aborted, reqs, purged, parked>>

\* The receives that will stand once the queued requests have been handled,
\* should no message arrive: what the local code knows it has posted.
Standing ==
    FoldLeft(LAMBDA s, e : CASE e.kind = "post"   -> Append(s, e.recv)
                             [] e.kind = "cancel" -> DropFirst(s, LAMBDA q : SameRecv(e.recv, q))
                             [] OTHER             -> s,
             posted_recvs, queue)

\* prte_rml_recv_buffer_nb. The local code never posts a receive over one that
\* it has standing (the duplicate check calls that a program error).
RecvBufferNb(recv) ==
    /\ reqs < MaxReqs
    /\ \A i \in DOMAIN Standing : ~SameRecv(recv, Standing[i])
    /\ reqs' = reqs + 1
    /\ queue' = Append(queue, PostEvent(recv))
    /\ UNCHANGED <<arrived, posted_recvs, unmatched_msgs, delivered, aborted, purged, parked>>

\* prte_rml_recv_cancel
RecvCancel(recv) ==
    /\ reqs < MaxReqs
    /\ reqs' = reqs + 1
    /\ queue' = Append(queue, CancelEvent(recv))
    /\ UNCHANGED <<arrived, posted_recvs, unmatched_msgs, delivered, aborted, purged, parked>>

\* prte_rml_purge: a departed peer's own receives and parked messages go.
Purge(p) ==
    /\ Cardinality(purged) < MaxPurges /\ p \notin purged
    /\ purged' = purged \cup {p}
    /\ posted_recvs' = SelectSeq(posted_recvs, LAMBDA q : q.peer # p)
    /\ unmatched_msgs' = SelectSeq(unmatched_msgs, LAMBDA m : m[1] # p)
    /\ UNCHANGED <<arrived, queue, delivered, aborted, reqs, parked>>

(***************************************************************************)
(* Event handlers.                                                         *)
(***************************************************************************)
\* Mutant of Taken: any receive takes only the first match.
TakeFirstOnly(recv) ==
    LET matching == SelectSeq(unmatched_msgs, LAMBDA m : Matches(m, recv))
    IN  IF matching = <<>> THEN matching ELSE <<Head(matching)>>

\* msg_match_recv: a persistent receive takes every parked message it matches,
\* any other only the first.
Taken(recv) ==
    LET matching == SelectSeq(unmatched_msgs, LAMBDA m : Matches(m, recv))
    IN  IF recv.persistent \/ matching = <<>> THEN matching ELSE <<Head(matching)>>

\* Mutant of PostRecv: what is activated stays parked.
PostRecvKeepsParked(recv) ==
    IF \E i \in DOMAIN posted_recvs : SameRecv(recv, posted_recvs[i])
    THEN aborted' = TRUE /\ queue' = Tail(queue) /\ UNCHANGED <<posted_recvs, unmatched_msgs>>
    ELSE /\ posted_recvs' = Append(posted_recvs, recv)
         /\ queue' = Tail(queue) \o Activate(Taken(recv))
         /\ UNCHANGED <<unmatched_msgs, aborted>>

\* prte_rml_base_post_recv for a post request
PostRecv(recv) ==
    IF \E i \in DOMAIN posted_recvs : SameRecv(recv, posted_recvs[i])
    THEN /\ aborted' = TRUE
         /\ queue' = Tail(queue)
         /\ UNCHANGED <<posted_recvs, unmatched_msgs>>
    ELSE /\ posted_recvs' = Append(posted_recvs, recv)
         /\ queue' = Tail(queue) \o Activate(Taken(recv))
         /\ unmatched_msgs' = SelectSeq(unmatched_msgs,
                                        LAMBDA m : m \notin ToSet(Taken(recv)))
         /\ UNCHANGED aborted

\* Mutant of CancelRecv: the wildcard is not honoured.
CancelExactPeer(recv) ==
    /\ posted_recvs' = DropFirst(posted_recvs, LAMBDA q : recv.peer = q.peer /\ recv.tag = q.tag)
    /\ queue' = Tail(queue)
    /\ UNCHANGED <<unmatched_msgs, aborted>>

\* prte_rml_base_post_recv for a cancel request
CancelRecv(recv) ==
    /\ posted_recvs' = DropFirst(posted_recvs, LAMBDA q : SameRecv(recv, q))
    /\ queue' = Tail(queue)
    /\ UNCHANGED <<unmatched_msgs, aborted>>

\* prte_rml_base_process_msg. A warm-up message dies here; the node map the
\* handler may answer it with is an outgoing send and touches none of this.
ProcessMsg(m) ==
    /\ queue' = Tail(queue)
    /\ UNCHANGED aborted
    /\ IF m[3] = Warmup
       THEN UNCHANGED <<posted_recvs, unmatched_msgs, delivered, parked>>
       ELSE IF \E i \in DOMAIN posted_recvs : Matches(m, posted_recvs[i])
       THEN /\ delivered' = Append(delivered, m)
            /\ posted_recvs' =
                 LET i == SelectInSeq(posted_recvs, LAMBDA q : Matches(m, q))
                 IN  IF posted_recvs[i].persistent THEN posted_recvs
                     ELSE RemoveAt(posted_recvs, i)
            /\ UNCHANGED <<unmatched_msgs, parked>>
       ELSE /\ unmatched_msgs' = Append(unmatched_msgs, m)
            /\ parked' = parked \cup {m}
            /\ UNCHANGED <<posted_recvs, delivered>>

\* One turn of the event loop.
HandleEvent ==
    /\ queue # <<>> /\ ~aborted
    /\ LET e == Head(queue)
       IN  \/ e.kind = "msg" /\ ProcessMsg(e.msg)
           \/ e.kind = "post" /\ PostRecv(e.recv) /\ UNCHANGED <<delivered, parked>>
           \/ e.kind = "cancel" /\ CancelRecv(e.recv) /\ UNCHANGED <<delivered, parked>>
    /\ UNCHANGED <<arrived, reqs, purged>>

Next ==
    \/ \E p \in Peers, tag \in Tags : PostMessage(p, tag)
    \/ \E r \in Recvs : RecvBufferNb(r)
    \/ \E r \in Recvs : r.persistent /\ RecvCancel(r)
    \/ \E p \in Peers : Purge(p)
    \/ HandleEvent

Spec == Init /\ [][Next]_vars

------------------------------------------------------------------------------
(***************************************************************************)
(* Properties.                                                             *)
(***************************************************************************)
Queued == {e.msg : e \in {e \in ToSet(queue) : e.kind = "msg"}}

\* The queue and the lists hold messages that arrived and receives that were asked
\* for.
TypeOK ==
    /\ arrived \subseteq Msgs
    /\ ToSet(posted_recvs) \subseteq Recvs
    /\ ToSet(unmatched_msgs) \subseteq Msgs /\ Queued \subseteq Msgs
    /\ aborted \in BOOLEAN

\* A message that has arrived is in exactly one place: on the event queue, held
\* as unmatched, delivered, consumed as a warm-up, or purged with its sender.
\* It is never delivered twice and never lost by being parked and activated.
NoMessageLostOrDuplicated ==
    /\ IsInjective(delivered) /\ IsInjective(unmatched_msgs)
    /\ \A m \in arrived :
        LET places == {q \in {"queue", "parked", "delivered"} :
                            \/ q = "queue"     /\ m \in Queued
                            \/ q = "parked"    /\ m \in ToSet(unmatched_msgs)
                            \/ q = "delivered" /\ m \in ToSet(delivered)}
        IN  \/ Cardinality(places) = 1
            \/ places = {} /\ (m[3] = Warmup \/ m[1] \in purged)

\* No message is stranded: one is held as unmatched beside a receive it matches
\* only when that receive takes a single message, and that message is already
\* on its way to it.
NoStrandedMessage ==
    \A i \in DOMAIN unmatched_msgs, j \in DOMAIN posted_recvs :
        Matches(unmatched_msgs[i], posted_recvs[j]) =>
            /\ ~posted_recvs[j].persistent
            /\ \E m \in Queued : Matches(m, posted_recvs[j])

\* Two standing receives never compete for a message, so which one a message
\* is matched with does not depend on the order of the list; and a caller that
\* cancels before it posts again is never aborted as posting twice, however
\* messages and purges interleave with its requests.
ReceivesNeverOverlap ==
    /\ ~aborted
    /\ \A i, j \in DOMAIN posted_recvs :
            i # j => ~SameRecv(posted_recvs[i], posted_recvs[j])

\* A message overtakes an earlier one of the same connection and tag only when
\* the earlier one had been parked: messages that find their receive standing
\* are delivered in the order they arrived.
OvertakesOnlyTheParked ==
    \A i, j \in DOMAIN delivered :
        (/\ i < j
         /\ delivered[i][1] = delivered[j][1]
         /\ delivered[i][3] = delivered[j][3]
         /\ delivered[j][2] < delivered[i][2]) => delivered[j] \in parked

==============================================================================

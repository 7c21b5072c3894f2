------------------------------- MODULE RelmOps -------------------------------
(***************************************************************************)
(* Reliable messaging (src/rml/relm), as functions of one daemon's state   *)
(*   msgs      the messages in the tables, by signature <src, uid, dst>    *)
(*   cached    cached_messages: signatures, oldest first                   *)
(*   last      my_last_msg, by destination                                 *)
(*   next_uid  the next uid of a message started here                      *)
(*   up, dn    upstream_links_updated, downstream_links_updated            *)
(*   posted    history: signatures handed to the receives, in order        *)
(* A message has prev and next (prev_uid, next_uid), a state, whether its  *)
(* data is held, and the hops of its sends whose callback has not run: the *)
(* callback ignores a message that has left the tables since.              *)
(*                                                                         *)
(* A function yields a step [m, out, exit]: the new state, what is sent,   *)
(* and whether a FORCED_EXIT was ordered. update_state(msg, X) is To...;   *)
(* the calls between the updates are not cyclic, so none is recursive.     *)
(***************************************************************************)
EXTENDS RmlFault

CONSTANT MaxCacheCount     \* cache_max_count

UidNone    == -1
UidInvalid == -2
Uids       == Nat          \* up to PRTE_RELM_UID_MAX

Sig(src, uid, dst) == [src |-> src, uid |-> uid, dst |-> dst]

\* The bits of the link bitmaps: the child slots, and radix for the parent.
LinkBits == 0 .. radix

NewMsg  == [prev |-> UidInvalid, next |-> UidNone, state |-> "invalid",
            data |-> FALSE, hops |-> <<>>]
NewRelm == [msgs |-> <<>>, cached |-> <<>>, last |-> [r \in Ranks |-> UidNone],
            next_uid |-> 0, up |-> LinkBits, dn |-> LinkBits, posted |-> <<>>]

RelmStep(m) == [m |-> m, out |-> <<>>, exit |-> FALSE]
Fail(s)     == [s EXCEPT !.exit = TRUE]
Out(s, dst, msg) == [s EXCEPT !.out = Append(@, Send(dst, msg))]

Known(s, sig)   == sig \in DOMAIN s.m.msgs
State(s, sig)   == s.m.msgs[sig].state
Prev(s, sig)    == [sig EXCEPT !.uid = s.m.msgs[sig].prev]
NextSig(s, sig) == [sig EXCEPT !.uid = s.m.msgs[sig].next]

SetState(s, sig, state) == [s EXCEPT !.m.msgs[sig].state = state]

\* prte_relm_get_msg
GetMsg(s, sig) ==
    IF Known(s, sig) THEN s
    ELSE [s EXCEPT !.m.msgs = [g \in DOMAIN @ \cup {sig} |-> IF g = sig THEN NewMsg ELSE @[g]]]

\* prte_relm_get_prev_msg
GetPrev(s, sig) == IF s.m.msgs[sig].prev \in Uids THEN GetMsg(s, Prev(s, sig)) ELSE s

\* Take messages out of the tables; a rank with none left goes, and with it
\* its my_last_msg.
Keep(s, sigs) ==
    [s EXCEPT !.m.msgs = [g \in sigs |-> @[g]],
              !.m.cached = SelectSeq(@, LAMBDA g : g \in sigs),
              !.m.last = [r \in Ranks |-> IF \E g \in sigs : g.dst = r THEN @[r] ELSE UidNone]]
Drop(s, sigs) == Keep(s, DOMAIN s.m.msgs \ sigs)

\* The message and all known ones before it in its chain, newest first.
RECURSIVE Chain(_, _)
Chain(s, sig) == IF Known(s, sig) THEN <<sig>> \o Chain(s, Prev(s, sig)) ELSE <<>>

\* prte_relm_release_msg
Unlink(s, next) == IF Known(s, next) THEN [s EXCEPT !.m.msgs[next].prev = UidNone] ELSE s

ReleaseMsg(s, sig) == Drop(Unlink(s, NextSig(s, sig)), ToSet(Chain(s, sig)))

(***************************************************************************)
(* State on the wire: one hop towards the destination or the source.       *)
(***************************************************************************)
Update(s, sig, state) == [tag |-> "relm", sig |-> sig, prev |-> s.m.msgs[sig].prev, state |-> state]

Upstream(me, dm, sig)   == GetRoute(me, dm.tree, sig.src)
Downstream(me, dm, sig) == GetRoute(me, dm.tree, sig.dst)

\* prte_relm_send_state_downstream; only the data's send has a callback
SendDownTo(hop, me, s, sig, state) ==
    IF hop = me THEN Fail(s)
    ELSE [Out(s, hop, Update(s, sig, state))
             EXCEPT !.m.msgs[sig].hops = IF state = "sending" THEN Append(@, hop) ELSE @]

SendDown(me, dm, s, sig, state) == SendDownTo(Downstream(me, dm, sig), me, s, sig, state)

\* prte_relm_send_state_upstream
SendUpTo(hop, me, dm, s, sig) ==
    CASE sig.src \in dm.failed -> s
      [] /\ sig.src \notin dm.failed
         /\ \/ State(s, sig) \notin {"acked", "requested"}
            \/ hop \in dm.failed \cup {me, Invalid} -> Fail(s)
      [] OTHER -> Out(s, hop, Update(s, sig, State(s, sig)))

SendUp(me, dm, s, sig) == SendUpTo(Upstream(me, dm, sig), me, dm, s, sig)

(***************************************************************************)
(* local_update                                                            *)
(***************************************************************************)
ToEvicted(s, sig) ==
    [s EXCEPT !.m.cached = SelectSeq(@, LAMBDA g : g # sig), !.m.msgs[sig].data = FALSE]

MakeRoom(s) ==
    IF Len(s.m.cached) > MaxCacheCount THEN ToEvicted(s, Head(s.m.cached)) ELSE s

ToCached(s, sig) ==
    MakeRoom([s EXCEPT !.m.cached = Append(SelectSeq(@, LAMBDA g : g # sig), sig)])

ForgetLast(me, s, sig) ==
    IF me = sig.src /\ s.m.last[sig.dst] = sig.uid
    THEN [s EXCEPT !.m.last[sig.dst] = UidNone] ELSE s

ToAckAcked(me, dm, s, sig) ==
    ReleaseMsg(ForgetLast(me, IF me = sig.dst THEN s ELSE SendDown(me, dm, s, sig, "ackacked"),
                          sig), sig)

\* ACKED up to the point where it wakes the next message: the ack goes up, and
\* those before it that are not acked yet are acked with it.
AckBefore(s, sig) ==
    LET ack(w, g) == IF w.stop \/ State(w.s, g) = "acked" THEN [w EXCEPT !.stop = TRUE]
                     ELSE [w EXCEPT !.s = ToEvicted(SetState(@, g, "acked"), g)]
    IN  FoldLeft(ack, [s |-> s, stop |-> FALSE], Tail(Chain(s, sig))).s

AckOne(me, dm, s, sig) ==
    AckBefore(ToEvicted(SendUp(me, dm, SetState(s, sig, "acked"), sig), sig), sig)

PrevIsPosted(s, sig) ==
    \/ s.m.msgs[sig].prev = UidNone
    \/ Known(s, Prev(s, sig)) /\ State(s, Prev(s, sig)) = "acked"

\* The data is here and this is the destination: post it, or hold it back until
\* its predecessor is posted.
PostIfNext(me, dm, s, sig) ==
    IF PrevIsPosted(s, sig)
    THEN AckOne(me, dm, [SetState(s, sig, "sent") EXCEPT !.m.posted = Append(@, sig)], sig)
    ELSE SetState(s, sig, "pending")

PostOrHold(me, dm, s, sig) == PostIfNext(me, dm, GetPrev(s, sig), sig)

\* The walk that posts the messages held back behind an acked one, to the first
\* that is not one of them.
WakeNext(me, dm, w, next) ==
    IF State(w.s, w.at) # "acked" \/ ~Known(w.s, next) \/ State(w.s, next) # "pending" THEN w
    ELSE [s |-> PostOrHold(me, dm, w.s, next), at |-> next]

WakePending(me, dm, s, sig) ==
    FoldLeft(LAMBDA w, n : WakeNext(me, dm, w, NextSig(w.s, w.at)), [s |-> s, at |-> sig],
             [n \in 1 .. Cardinality(DOMAIN s.m.msgs) |-> n]).s

ToAcked(me, dm, s, sig) ==
    IF me = sig.src THEN ToAckAcked(me, dm, SetState(s, sig, "acked"), sig)
    ELSE IF State(s, sig) = "acked" THEN s
    ELSE WakePending(me, dm, AckOne(me, dm, s, sig), sig)

\* SENDING, for a message that is not acked and whose data is held
PassOn(me, dm, s, sig) ==
    CASE me = sig.dst -> WakePending(me, dm, PostOrHold(me, dm, s, sig), sig)
      [] me # sig.dst /\ State(s, sig) # "sending" ->
            SendDown(me, dm, SetState(s, sig, "sending"), sig, "sending")
      [] OTHER -> s

\* REQUESTED, for a message whose data is not held
Request(me, dm, s, sig) ==
    CASE State(s, sig) \in {"sent", "invalid"} ->
            SendUp(me, dm, SetState(s, sig, "requested"), sig)
      [] State(s, sig) = "acked" -> SendUp(me, dm, s, sig)
      [] OTHER -> s

ToRequested(me, dm, s, sig) ==
    IF State(s, sig) \in {"sent", "invalid"} /\ s.m.msgs[sig].data
    THEN PassOn(me, dm, s, sig) ELSE Request(me, dm, s, sig)

\* Mutant of ToSending: that a message is acked is not looked at.
SendOnAgain(me, dm, s, sig) ==
    IF ~s.m.msgs[sig].data THEN Request(me, dm, s, sig) ELSE PassOn(me, dm, s, sig)

ToSending(me, dm, s, sig) ==
    CASE State(s, sig) = "acked" -> ToEvicted(SendUp(me, dm, s, sig), sig)
      [] State(s, sig) # "acked" /\ ~s.m.msgs[sig].data -> Request(me, dm, s, sig)
      [] State(s, sig) # "acked" /\ s.m.msgs[sig].data  -> PassOn(me, dm, s, sig)

\* (the destination logs an error and changes nothing)
ToSent(me, dm, s, sig) ==
    CASE me = sig.dst -> s
      [] me # sig.dst /\ State(s, sig) = "sending" ->
            IF me # sig.src /\ s.m.msgs[sig].data THEN ToCached(SetState(s, sig, "sent"), sig)
            ELSE SetState(s, sig, "sent")
      [] me # sig.dst /\ State(s, sig) \in {"acked", "requested"} -> SendUp(me, dm, s, sig)
      [] me # sig.dst /\ State(s, sig) = "invalid" -> SetState(s, sig, "sent")
      [] OTHER -> s

\* Its predecessor, when it is known, learns of its successor.
LinkToPrev(s, sig) ==
    IF Known(s, Prev(s, sig)) THEN [s EXCEPT !.m.msgs[Prev(s, sig)].next = sig.uid] ELSE s

ToNew(me, dm, s, sig) ==
    ToSending(me, dm, LinkToPrev([s EXCEPT !.m.msgs[sig].data = TRUE,
                                           !.m.msgs[sig].prev = s.m.last[sig.dst],
                                           !.m.last[sig.dst] = sig.uid], sig), sig)

(***************************************************************************)
(* Updates from the neighbours of the message's path.                      *)
(***************************************************************************)
DownstreamUpdate(me, dm, s, sig, state) ==
    CASE state = "acked" -> IF State(s, sig) = "invalid" THEN ToAckAcked(me, dm, s, sig)
                            ELSE ToAcked(me, dm, s, sig)
      [] state = "requested" -> ToSending(me, dm, s, sig)
      [] OTHER -> s

\* Mutant of UpstreamUpdate: a SENT that was never heard of is recorded, not
\* asked for.
RecordSent(me, dm, s, sig, state) ==
    CASE state = "sending"  -> ToSending(me, dm, [s EXCEPT !.m.msgs[sig].data = TRUE], sig)
      [] state = "ackacked" -> ToAckAcked(me, dm, s, sig)
      [] state = "sent"     -> IF me # sig.dst THEN ToSent(me, dm, s, sig) ELSE s
      [] state = "acked"    -> SetState(s, sig, "acked")
      [] OTHER -> s

\* All but SENDING and ACKACKED come from upstream only in a link update. A
\* SENT that was never heard of is asked for: nobody further down has it.
UpstreamUpdate(me, dm, s, sig, state) ==
    LET unknown == State(s, sig) = "invalid"
        answers == {"acked"} \cup IF state = "sent" THEN {"requested"} ELSE {}
    IN  CASE state = "sending" -> ToSending(me, dm, [s EXCEPT !.m.msgs[sig].data = TRUE], sig)
          [] state = "ackacked" -> ToAckAcked(me, dm, s, sig)
          [] state = "acked" -> SetState(s, sig, "acked")
          [] state \in {"sent", "requested"} /\ unknown -> ToRequested(me, dm, s, sig)
          [] state = "sent" /\ ~unknown /\ me # sig.dst -> ToSent(me, dm, s, sig)
          [] /\ state = "requested" \/ (state = "sent" /\ me = sig.dst)
             /\ State(s, sig) \in answers -> SendUp(me, dm, s, sig)
          [] OTHER -> s

\* lingering_update: from a link that is no longer on the path, or of a message
\* whose source is gone
Lingering(me, dm, from, sig) ==
    \/ from \notin {Downstream(me, dm, sig), Upstream(me, dm, sig)}
    \/ sig.src \in dm.failed

\* prte_relm_message_handler: the message is entered behind its predecessor
Enter(s, sig, prev) ==
    LinkToPrev(GetPrev([GetMsg(s, sig) EXCEPT !.m.msgs[sig].prev = prev], sig), sig)

Dispatch(me, dm, s, from, msg) ==
    CASE msg.prev = UidInvalid -> Fail(s)
      [] msg.prev # UidInvalid /\ from = Downstream(me, dm, msg.sig) ->
            DownstreamUpdate(me, dm, s, msg.sig, msg.state)
      [] msg.prev # UidInvalid /\ from # Downstream(me, dm, msg.sig) ->
            UpstreamUpdate(me, dm, s, msg.sig, msg.state)

MessageHandler(me, dm, s, from, msg) ==
    IF Lingering(me, dm, from, msg.sig) THEN s
    ELSE Dispatch(me, dm, Enter(s, msg.sig, msg.prev), from, msg)

\* prte_relm_start_msg_cb; the uid counter's wrap is out of the model's reach
StartMsg(me, dm, m, dst) ==
    LET sig == Sig(me, m.next_uid, dst)
    IN  ToNew(me, dm, GetMsg(RelmStep([m EXCEPT !.next_uid = @ + 1]), sig), sig)

\* sending_to_sent_cb: the i-th pending send of the data has ended
RetryFrom(hop, me, dm, s, sig) ==
    IF State(s, sig) = "sent" /\ s.m.msgs[sig].data /\ hop # Downstream(me, dm, sig)
    THEN ToSending(me, dm, s, sig) ELSE s

SendingToSent(me, dm, m, sig, i, success) ==
    LET sent == ToSent(me, dm, RelmStep([m EXCEPT !.msgs[sig].hops = RemoveAt(@, i)]), sig)
    IN  IF success THEN sent ELSE RetryFrom(m.msgs[sig].hops[i], me, dm, sent, sig)

(***************************************************************************)
(* Link updates: the messages in progress, told to a new neighbour.        *)
(***************************************************************************)
\* link_i_to_r and link_r_to_i
LinkRank(tree, bit)     == IF bit = radix THEN Lifeline(tree) ELSE tree.children[bit]
LinkBit(me, tree, rank) == {bit \in LinkBits : LinkRank(tree, bit) = rank}

Depth(dm) == Len(dm.tree.ancestors)

\* prte_relm_pack_link_update: what is sent through this link, in table order
LinkUpdate(me, dm, s, link) ==
    LET packed  == {g \in DOMAIN s.m.msgs : State(s, g) # "invalid" /\ Downstream(me, dm, g) = link}
        update(g) == Update(s, g, IF State(s, g) = "sending" THEN "sent" ELSE State(s, g))
        before(g, h) == \/ g.dst < h.dst
                        \/ g.dst = h.dst /\ g.src < h.src
                        \/ g.dst = h.dst /\ g.src = h.src /\ g.uid < h.uid
        order   == SetToSortSeq(packed, before)
    IN  [tag |-> "link", depth |-> Depth(dm), updates |-> [n \in DOMAIN order |-> update(order[n])]]

\* prte_relm_send_link_update
SendLinkUpdate(me, dm, s, link) ==
    IF link \in dm.failed \cup {Invalid} THEN Fail(s)
    ELSE Out(s, link, LinkUpdate(me, dm, s, link))

\* try_send_pending_link_updates: an update for a link needs the news of all
\* the others
TrySendPending(me, dm, s) ==
    LET pending_dn == LinkBits \ s.m.dn
        pending_up == LinkBits \ s.m.up
        send(w, bit) == IF /\ bit \in pending_dn
                           /\ pending_up \subseteq {bit}
                        THEN SendLinkUpdate(me, dm, [w EXCEPT !.m.dn = @ \cup {bit}],
                                            LinkRank(dm.tree, bit))
                        ELSE w
    IN  FoldLeft(send, s, [n \in 1 .. radix + 1 |-> n - 1])

\* prte_relm_handle_link_update; one from an old link, or from a time at which
\* the link stood elsewhere in the tree, is ignored
HandleLinkUpdate(me, dm, m, from, msg) ==
    LET expected == IF from = Lifeline(dm.tree) THEN Depth(dm) - 1 ELSE Depth(dm) + 1
    IN  IF GetRoute(me, dm.tree, from) # from \/ msg.depth # expected THEN RelmStep(m)
        ELSE TrySendPending(me, dm,
                [FoldLeft(LAMBDA w, u : MessageHandler(me, dm, w, from, u), RelmStep(m), msg.updates)
                    EXCEPT !.m.up = @ \cup LinkBit(me, dm.tree, from)])

\* purge: messages from or to the departed, and after a promotion those that no
\* longer pass through here
Purged(me, dm, delta, m) ==
    {g \in DOMAIN m.msgs :
        \/ g.dst \in delta.failed_ranks
        \/ g.src \in dm.failed
        \/ delta.promoted /\ Upstream(me, dm, g) = Downstream(me, dm, g)}

\* prte_relm_fault_handler, after a repair that made dm what it is
RelmFault(me, dm, delta, m) ==
    LET prev(bit) == IF bit = radix THEN delta.prev_parent ELSE delta.prev_children[bit]
        link(s, bit) ==
            LET rank == LinkRank(dm.tree, bit)
            IN  IF rank = Invalid
                THEN [s EXCEPT !.m.up = @ \cup {bit}, !.m.dn = @ \cup {bit}]
                ELSE IF delta.promoted
                THEN [s EXCEPT !.m.up = @ \ {bit}, !.m.dn = @ \ {bit}]
                ELSE IF bit \in s.m.dn /\ rank # prev(bit)
                THEN SendLinkUpdate(me, dm, s, rank)
                ELSE s
    IN  TrySendPending(me, dm,
            FoldLeft(link, Drop(RelmStep(m), Purged(me, dm, delta, m)),
                     [n \in 1 .. radix + 1 |-> n - 1]))

==============================================================================

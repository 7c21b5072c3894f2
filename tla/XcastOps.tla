------------------------------- MODULE XcastOps -------------------------------
(***************************************************************************)
(* The reliable broadcast of src/grpcomm/grpcomm_xcast.c on the routing    *)
(* tree, as functions of one daemon's broadcast state                      *)
(*   ops           XCAST.ops: the broadcasts under way, in op-id order     *)
(*   inited        op_id_inited                                            *)
(*   completed     op_id_completed                                         *)
(*   at_promotion  op_id_completed_at_promotion                            *)
(*   got           history: op-ids handed to process_msg, in order         *)
(*   finished      history (HNP): op-ids whose completion was called back  *)
(*   errors        history: what PRTE_ERROR_LOG was called with            *)
(* A function yields a step: the new state and what it puts out. A message *)
(* whose loss the broadcast wants to hear of (forward_lost) is marked      *)
(* tracked with its op-id; a payload is posted to the daemon's own queue.  *)
(***************************************************************************)
EXTENDS RmlFault

NewXcast == [ops |-> <<>>, inited |-> 0, completed |-> 0, at_promotion |-> 0,
             got |-> <<>>, finished |-> <<>>, errors |-> {}]

XStep(x) == [x |-> x, out |-> <<>>]

\* nexpected before the first forward: more than any daemon has children
SizeMax == radix + 1

NewOp(id, payload) ==
    [id |-> id, payload |-> payload, ack_id_up |-> 0, upstream |-> Invalid,
     ack_id_down |-> 0, nexpected |-> SizeMax, nreported |-> 0,
     processed |-> FALSE, replay_pending_parent |-> FALSE]

Forward(op) ==
    [tag |-> "xcast", id |-> op.id, payload |-> op.payload, ack_id |-> op.ack_id_down]
AckMsg(id, ack_id, is_request) ==
    [tag |-> "ack", id |-> id, ack_id |-> ack_id, is_request |-> is_request]

Tracked(dst, msg) == [out |-> "tracked", dst |-> dst, msg |-> msg]
Post(payload)     == [out |-> "post", payload |-> payload]

Put(step, out) == [step EXCEPT !.out = @ \o out]

Children(tree) ==
    SelectSeq([i \in 1 .. radix |-> tree.children[i - 1]], LAMBDA child : child # Invalid)

Held(x, id)    == \E i \in DOMAIN x.ops : x.ops[i].id = id
IndexOf(x, id) == CHOOSE i \in DOMAIN x.ops : x.ops[i].id = id
OpOf(x, id)    == x.ops[IndexOf(x, id)]
SetOp(step, op) == [step EXCEPT !.x.ops[IndexOf(step.x, op.id)] = op]
UpdateOp(step, id, Change(_)) == SetOp(step, Change(OpOf(step.x, id)))

\* Mutant of ProcessMsg: nothing remembers that the payload was delivered.
ProcessAgain(step, id) ==
    Put([step EXCEPT !.x.got = Append(@, id)], <<Post(OpOf(step.x, id).payload)>>)

\* process_msg: once per op
ProcessMsg(step, id) ==
    IF OpOf(step.x, id).processed THEN step
    ELSE Put([UpdateOp(step, id, LAMBDA op : [op EXCEPT !.processed = TRUE])
                 EXCEPT !.x.got = Append(@, id)],
             <<Post(OpOf(step.x, id).payload)>>)

\* forward_op
ForwardTo(children, step, id) ==
    Put(UpdateOp(step, id, LAMBDA op : [op EXCEPT !.replay_pending_parent = FALSE,
                                                  !.nexpected = Len(children),
                                                  !.nreported = 0]),
        [n \in DOMAIN children |-> Tracked(children[n], Forward(OpOf(step.x, id)))])

ForwardOp(tree, step, id) ==
    ForwardTo(Children(tree), step, id)

\* Mutant of SendAckTo: the ack goes nowhere unless it is for the root.
AckTheRootOnly(me, step, id, ack_id, up) ==
    IF me = 0 \/ up # 0 THEN step
    ELSE Put(step, <<Send(up, AckMsg(id, ack_id, FALSE))>>)

\* send_ack_to
SendAckTo(me, step, id, ack_id, up) ==
    IF me = 0 \/ up = Invalid THEN step
    ELSE Put(step, <<Send(up, AckMsg(id, ack_id, FALSE))>>)

\* finish_op
AckOp(me, tree, step, op) ==
    SendAckTo(me, step, op.id, op.ack_id_up,
              IF op.upstream # Invalid THEN op.upstream ELSE Lifeline(tree))

RetireOp(me, step, id) ==
    [step EXCEPT
        !.x.ops = SelectSeq(@, LAMBDA op : op.id # id),
        !.x.completed = IF id > step.x.at_promotion /\ id = @ + 1 THEN @ + 1 ELSE @,
        !.x.errors = IF id > step.x.at_promotion /\ id # step.x.completed + 1
                     THEN @ \cup {"out of order"} ELSE @,
        !.x.finished = IF me = 0 THEN Append(@, id) ELSE @]

FinishOp(me, tree, step, id) ==
    RetireOp(me, ProcessMsg(AckOp(me, tree, step, OpOf(step.x, id)), id), id)

\* drive_completions: settle every op whose subtree has reported
DriveCompletions(me, tree, step) ==
    FoldLeft(LAMBDA s, op : IF op.nreported >= op.nexpected
                            THEN FinishOp(me, tree, s, op.id) ELSE s,
             step, step.x.ops)

\* insert_forwarded_op, for an op that is not held
InsertOp(x, id, payload) ==
    LET before == SelectSeq(x.ops, LAMBDA op : op.id < id)
    IN  [x EXCEPT !.ops = InsertAt(@, Len(before) + 1, NewOp(id, payload))]

\* xcasts that change how messages are sent are processed before forwarding
ProcessFirst(payload) == payload.kind = "died"

ProcessAndForward(tree, step, id) ==
    CASE OpOf(step.x, id).processed              -> step
      [] ProcessFirst(OpOf(step.x, id).payload) -> ForwardOp(tree, ProcessMsg(step, id), id)
      [] OTHER                                   -> ProcessMsg(ForwardOp(tree, step, id), id)

\* A replay the op waited for goes on to the children; a payload not yet
\* delivered is.
Replay(tree, step, id) ==
    IF OpOf(step.x, id).replay_pending_parent THEN ForwardOp(tree, step, id) ELSE step

CarryOn(me, tree, id, step) ==
    IF OpOf(step.x, id).processed /\ ~OpOf(step.x, id).replay_pending_parent THEN step
    ELSE DriveCompletions(me, tree, ProcessAndForward(tree, Replay(tree, step, id), id))

\* The part of prte_grpcomm_xcast_recv that follows the screens: take up the op
\* with what the sender said of it, and do what is left to do for it.
TakeUp(me, tree, x, from, id, msg, assume_incomplete) ==
    CarryOn(me, tree, id,
        UpdateOp(XStep(IF Held(x, id) THEN x ELSE InsertOp(x, id, msg.payload)), id,
                 LAMBDA op : [op EXCEPT !.ack_id_up = msg.ack_id, !.upstream = from,
                                        !.processed = @ \/ assume_incomplete,
                                        !.replay_pending_parent = @ \/ assume_incomplete]))

\* A late joiner takes the ops before its first as complete.
CatchUp(x, late_joiner, id) ==
    [x EXCEPT !.inited = IF id > @ THEN id ELSE @,
              !.completed = IF late_joiner /\ id > 1 THEN id - 1 ELSE @,
              !.at_promotion = IF late_joiner /\ id > 1 THEN id - 1 ELSE @]

\* An op completed before a promotion may be incomplete in the larger subtree.
AssumeIncomplete(x, id) == id <= x.at_promotion /\ x.completed = x.at_promotion

Screen(me, tree, x, from, id, msg) ==
    IF ~AssumeIncomplete(x, id) /\ id <= x.completed
    THEN SendAckTo(me, XStep(x), id, msg.ack_id, from)
    ELSE TakeUp(me, tree, x, from, id, msg, AssumeIncomplete(x, id))

\* prte_grpcomm_xcast_recv
RecvXcast(me, tree, x, from, msg) ==
    IF me # 0 /\ from # Lifeline(tree) THEN XStep(x)         \* an old parent's
    ELSE Screen(me, tree, CatchUp(x, me # 0 /\ x.inited = 0, IF me = 0 THEN x.inited + 1 ELSE msg.id),
                from, IF me = 0 THEN x.inited + 1 ELSE msg.id, msg)

\* prte_grpcomm_xcast_ack: a parent's poll, and a child's report
RecvPoll(me, tree, step, from, msg) ==
    CASE from # Lifeline(tree) -> step
      [] from = Lifeline(tree) /\ Held(step.x, msg.id) ->
            UpdateOp(step, msg.id,
                     LAMBDA op : [op EXCEPT !.ack_id_up = msg.ack_id, !.upstream = from])
      [] from = Lifeline(tree) /\ ~Held(step.x, msg.id) ->
            IF msg.id <= step.x.completed THEN SendAckTo(me, step, msg.id, msg.ack_id, from)
            ELSE [step EXCEPT !.x.errors = @ \cup {"unknown op"}]

Tally(me, tree, id, step) ==
    CASE OpOf(step.x, id).nreported = OpOf(step.x, id).nexpected ->
            DriveCompletions(me, tree, step)
      [] OpOf(step.x, id).nreported > OpOf(step.x, id).nexpected ->
            [step EXCEPT !.x.errors = @ \cup {"duplicate ack"}]
      [] OTHER -> step

RecvAck(me, tree, x, from, msg) ==
    IF msg.is_request THEN RecvPoll(me, tree, XStep(x), from, msg)
    ELSE IF ~Held(x, msg.id) \/ OpOf(x, msg.id).ack_id_down # msg.ack_id THEN XStep(x)
    ELSE Tally(me, tree, msg.id, UpdateOp(XStep(x), msg.id,
                                          LAMBDA op : [op EXCEPT !.nreported = @ + 1]))

\* forward_lost: the transport gave up on a tracked message of op id
ForwardLost(me, tree, x, id) ==
    IF ~Held(x, id) THEN XStep(x)
    ELSE DriveCompletions(me, tree,
            SetOp(XStep(x), [OpOf(x, id) EXCEPT !.nexpected = IF @ > 0 THEN @ - 1 ELSE 0]))

(***************************************************************************)
(* prte_grpcomm_xcast_fault_handler, given the delta of a tree repair.     *)
(***************************************************************************)
\* If any child has reported, there is no knowing whether a departed one did.
NewAckRound(op, delta) == op.nreported > 0 \/ delta.promoted

\* What a child hears of an op: a new one the op, one that stays a poll for its
\* ack in the new round.
ChildUpdate(op, child, prev, new_round) ==
    IF child # prev THEN <<Tracked(child, Forward(op))>>
    ELSE IF new_round THEN <<Tracked(child, AckMsg(op.id, op.ack_id_down, TRUE))>>
    ELSE <<>>

\* A promoted daemon replays nothing before its parent does: its new children
\* may lack earlier ops.
UpdateChildren(tree, delta, new_round, id, step) ==
    LET update(s, i) ==
            IF tree.children[i] = Invalid THEN s
            ELSE Put(s, ChildUpdate(OpOf(step.x, id), tree.children[i],
                                    delta.prev_children[i], new_round))
    IN  IF delta.promoted THEN step ELSE FoldLeft(update, step, [i \in 1 .. radix |-> i - 1])

\* One op after the children changed or this daemon was promoted.
RepairOp(me, tree, delta, step, id) ==
    IF Children(tree) = <<>> THEN FinishOp(me, tree, step, id)
    ELSE UpdateChildren(tree, delta, NewAckRound(OpOf(step.x, id), delta), id,
            UpdateOp(step, id,
                LAMBDA op : [op EXCEPT !.nexpected = Len(Children(tree)),
                                       !.ack_id_down = IF NewAckRound(op, delta) THEN @ + 1 ELSE @,
                                       !.nreported = 0,
                                       !.replay_pending_parent = delta.promoted]))

\* The walk over the ops stops at the first that waits for a replay by the
\* parent: it and all after it get a new expectation only, when it is reached.
RepairOps(me, tree, delta, step) ==
    LET walk(w, op) ==
            IF w.stop THEN w
            ELSE IF Children(tree) # <<>> /\ op.replay_pending_parent
            THEN [step |-> SetOp(w.step, [op EXCEPT !.nexpected = Len(Children(tree))]),
                  stop |-> TRUE]
            ELSE [w EXCEPT !.step = RepairOp(me, tree, delta, @, op.id)]
    IN  FoldLeft(walk, [step |-> step, stop |-> FALSE], step.x.ops).step

\* Mutant of Suspect: a promotion leaves the completions trusted.
SuspectNone(delta, x) == x.at_promotion

\* After a promotion the subtree is larger than the one that completed the ops.
Suspect(delta, x) == IF delta.promoted THEN x.completed ELSE x.at_promotion

XcastFault(me, tree, delta, x) ==
    LET forget(op) == [op EXCEPT !.ack_id_up = Invalid]
        x1 == [x EXCEPT !.at_promotion = Suspect(delta, x),
                        !.ops = IF delta.parent_changed \/ delta.promoted
                                THEN [n \in DOMAIN @ |-> forget(@[n])] ELSE @]
    IN  DriveCompletions(me, tree,
            IF delta.children_changed \/ delta.promoted
            THEN RepairOps(me, tree, delta, XStep(x1)) ELSE XStep(x1))


==============================================================================

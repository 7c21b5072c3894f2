------------------------------- MODULE Recovery -------------------------------
(***************************************************************************)
(* Daemons crash; the survivors find out and agree. Each daemon runs the   *)
(* handlers of RmlFault. Notices travel over one FIFO connection per pair  *)
(* of daemons. The HNP's broadcast of departures is taken here as what     *)
(* src/grpcomm promises of it, an ordered broadcast every live daemon      *)
(* receives (module Xcast has the protocol).                               *)
(***************************************************************************)
EXTENDS RmlFault

CONSTANTS Mortal,     \* the ranks that may crash; the HNP's loss ends the DVM
          MaxCrashes  \* bound on the number of crashes

ASSUME RecoveryAssumption == Mortal \subseteq Ranks \ {0} /\ MaxCrashes \in Nat

VARIABLES
    dmn,      \* dmn[d]: the state of daemon d
    dead,     \* the daemons that have crashed
    wire,     \* wire[s][d]: messages sent by s that d has not handled
    bcast,    \* the departures the HNP has broadcast, oldest first
    heard,    \* heard[d]: how many of them d has handled
    exited    \* daemons that ordered a FORCED_EXIT

vars == <<dmn, dead, wire, bcast, heard, exited>>

Live == Ranks \ dead

Init ==
    /\ dmn = [d \in Ranks |-> NewDaemon(d)]
    /\ dead = {}
    /\ wire = [s \in Ranks |-> [d \in Ranks |-> <<>>]]
    /\ bcast = <<>>
    /\ heard = [d \in Ranks |-> 0]
    /\ exited = {}

\* What a handler put out takes effect in order. A message to a daemon that the
\* sender holds failed is refused at once (prte_oob_base_send_nb), one to a
\* crashed daemon is lost with it.
Emit(d, failed, net, out) ==
    CASE out.out = "send" ->
            IF out.dst \in failed \cup dead THEN net
            ELSE [net EXCEPT !.wire[d][out.dst] = Append(@, out.msg)]
      [] out.out = "broadcast" -> [net EXCEPT !.bcast = Append(@, out.ranks)]
      [] out.out = "repaired"  -> net

Apply(d, step, w) ==
    LET net == FoldLeft(LAMBDA n, o : Emit(d, step.dm.failed, n, o),
                        [wire |-> w, bcast |-> bcast], step.out)
    IN  /\ dmn' = [dmn EXCEPT ![d] = step.dm]
        /\ wire' = net.wire
        /\ bcast' = net.bcast
        /\ exited' = IF step.exit THEN exited \cup {d} ELSE exited

\* The crash of a daemon. What it had sent may still arrive, up to the point
\* at which the receiver notices the loss.
Crash(d) ==
    /\ d \in Mortal \ dead
    /\ Cardinality(dead) < MaxCrashes
    /\ dead' = dead \cup {d}
    /\ wire' = [s \in Ranks |-> [wire[s] EXCEPT ![d] = <<>>]]
    /\ UNCHANGED <<dmn, bcast, heard, exited>>

\* A connection exists between daemons either of which has the other as a
\* neighbour in its tree.
Connected(d, r) == \/ IsTreeNeighbor(d, dmn[d].tree, r)
                   \/ IsTreeNeighbor(r, dmn[r].tree, d)

\* prte_mca_oob_tcp_component_lost_connection; whatever was in flight is lost
MayLose(d, r) == d \in Live /\ r \in dead \ dmn[d].failed /\ Connected(d, r)

LostConnection(d, r) ==
    /\ MayLose(d, r)
    /\ Apply(d, RouteLost(d, dmn[d], r), [wire EXCEPT ![r][d] = <<>>])
    /\ UNCHANGED <<dead, heard>>

MayReceive(d, s) == d \in Live /\ wire[s][d] # <<>>

Takes(d, s) == Len(wire'[s][d]) < Len(wire[s][d])

Receive(d, s) ==
    /\ MayReceive(d, s)
    /\ Apply(d, RecvNotice(d, dmn[d], Head(wire[s][d])), [wire EXCEPT ![s][d] = Tail(@)])
    /\ UNCHANGED <<dead, heard>>

\* The HNP's broadcast reaches d (the HNP handles its own copy too).
MayHear(d) == d \in Live /\ heard[d] < Len(bcast)

ReceiveBroadcast(d) ==
    /\ MayHear(d)
    /\ heard' = [heard EXCEPT ![d] = @ + 1]
    /\ Apply(d, RecvGlobalFailures(d, dmn[d], bcast[heard[d] + 1]), wire)
    /\ UNCHANGED dead

Next ==
    \/ \E d \in Ranks : Crash(d)
    \/ \E d, r \in Ranks : LostConnection(d, r)
    \/ \E d, s \in Ranks : Receive(d, s)
    \/ \E d \in Ranks : ReceiveBroadcast(d)

(***************************************************************************)
(* Weak fairness: a lost socket is reported, the event loop serves every   *)
(* connection, and a broadcast reaches every live daemon. Each step is     *)
(* enabled exactly when its guard holds, so the guard stands for ENABLED,  *)
(* and a step is told by what no other does again and again: it takes from *)
(* its connection, or hears one broadcast more. The report of a loss takes *)
(* its own guard away for good.                                            *)
(***************************************************************************)
Fairness ==
    /\ \A d, r \in Ranks : []<>~MayLose(d, r)
    /\ \A d, s \in Ranks : []<>~MayReceive(d, s) \/ []<><<Takes(d, s)>>_vars
    /\ \A d \in Ranks : []<>~MayHear(d) \/ []<><<heard'[d] > heard[d]>>_vars

Spec == Init /\ [][Next]_vars /\ Fairness

------------------------------------------------------------------------------
\* The daemons' books name ranks of the DVM, and what the HNP has broadcast as
\* departed a daemon also has on record as departed itself.
TypeOK ==
    /\ dead \subseteq Mortal
    /\ exited \subseteq Ranks
    /\ \A d \in Ranks :
        /\ heard[d] \in 0 .. Len(bcast)
        /\ dmn[d].failed \subseteq Ranks /\ dmn[d].global \subseteq dmn[d].failed
        /\ \A i \in DOMAIN dmn[d].tree.ancestors : dmn[d].tree.ancestors[i] \in Ranks
        /\ dmn[d].tree.children \in [Slots -> Ranks \cup {Invalid}]

\* No daemon ever records a living daemon as departed, whatever lineages and
\* notices cross: a departure nobody observed is inferred only when it is true.
\* Nor does it meet a lineage it cannot explain, and order the DVM down for it.
OnlyTheDeadAreBuried ==
    /\ \A d \in Live : dmn[d].failed \subseteq dead
    /\ exited = {}

\* Every departure a daemon records was handed to its error manager, by
\* whichever path it learned of it: one that is recorded unreported would look
\* like a duplicate to every later notice.
EveryDepartureReported == \A d \in Live : dmn[d].reported = dmn[d].failed

\* Nothing is left to handle, and no connection to a crashed daemon is open.
Quiet ==
    /\ \A s \in Ranks, d \in Live : wire[s][d] = <<>>
    /\ \A d \in Live : heard[d] = Len(bcast)
    /\ \A d \in Live, r \in dead : Connected(d, r) => r \in dmn[d].failed

\* When it is quiet, the places the daemons computed apart fit together: a
\* daemon is in a child slot of exactly the daemon it has for a parent, and its
\* lineage is its parent's lineage and its parent.
QuietMeansOneTree ==
    Quiet => \A d \in Live :
        /\ \A i \in Slots : LET child == dmn[d].tree.children[i]
                            IN  child # Invalid => Lifeline(dmn[child].tree) = d
        /\ d # 0 => LET parent == Lifeline(dmn[d].tree)
                    IN  /\ \E i \in Slots : dmn[parent].tree.children[i] = d
                        /\ dmn[d].tree.ancestors = Append(dmn[parent].tree.ancestors, parent)

\* Every crash becomes known to every live daemon, both from its neighbours and
\* from the HNP's broadcast, and stays known.
AllLearn == <>[](\A d \in Live : dmn[d].failed = dead /\ dmn[d].global = dead)

-----------------------------------------------------------------------------
(***************************************************************************)
(* What a collective sends shares its connections with the notices: a      *)
(* queue of such messages keeps, with each message, how many notices are   *)
(* ahead of it.                                                            *)
(***************************************************************************)

\* prte_mca_oob_tcp_queue_msg: a message behind what its sender has sent before
Behind(s, d, msg) == [stamp |-> msg.stamp, body |-> msg.body, ahead |-> Len(wire'[s][d])]

\* The first message of the queue is the first on its connection.
FirstOnWire(queue) == queue # <<>> /\ Head(queue).ahead = 0

\* A notice ahead of the queue has been handled.
NoticeHandled(queue) == [i \in DOMAIN queue |-> [queue[i] EXCEPT !.ahead = @ - 1]]

==============================================================================

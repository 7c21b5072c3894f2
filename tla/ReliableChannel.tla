--------------------------- MODULE ReliableChannel ---------------------------
(***************************************************************************)
(* What reliable messaging promises (docs/how-things-work/rml/relm.rst):   *)
(* of the messages that one daemon sends another, each is delivered once,  *)
(* in the order of the sends. The loss of an end is no excuse for anything *)
(* but a delivery that does not come.                                      *)
(***************************************************************************)
EXTENDS Naturals, Sequences

CONSTANTS Flows, \* the pairs of a source and a destination
          Msgs   \* what may be sent
VARIABLES sent, delivered   \* by flow: the messages sent and delivered, in order

Init ==
    /\ sent = [f \in Flows |-> <<>>]
    /\ delivered = [f \in Flows |-> <<>>]

Send(f) ==
    /\ \E msg \in Msgs : sent' = [sent EXCEPT ![f] = Append(@, msg)]
    /\ UNCHANGED delivered

\* Messages that wait for one another are delivered together.
Deliver(f) ==
    /\ \E n \in Len(delivered[f]) + 1 .. Len(sent[f]) :
        delivered' = [delivered EXCEPT ![f] = SubSeq(sent[f], 1, n)]
    /\ UNCHANGED sent

Next == \E f \in Flows : Send(f) \/ Deliver(f)

Spec == Init /\ [][Next]_<<sent, delivered>>

==============================================================================

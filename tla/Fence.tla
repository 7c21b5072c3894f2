-------------------------------- MODULE Fence --------------------------------
(***************************************************************************)
(* Fence after fence over the same participants, while daemons crash and   *)
(* the tree is repaired under the rollup. The repair is module Recovery's; *)
(* every daemon also runs the handlers of FenceOps. Contributions travel   *)
(* on the connections of the notices, in one order with them. The releases *)
(* of a fence have a broadcast stream of their own, ordered by the HNP,    *)
(* that is independent of the stream of the departure notices.             *)
(***************************************************************************)
EXTENDS Recovery, FenceOps

CONSTANTS Asks,      \* Asks[d]: the operations a client of d may ask for
          Timed,     \* the <<daemon, round>> whose clients put a timeout on the fence
          MaxRounds  \* bound on the number of rounds

ASSUME RoundAssumption == Timed \subseteq Members \X Nat /\ MaxRounds \in Nat

VARIABLES
    fence,     \* fence[d]: the books of daemon d
    fwire,     \* fwire[s][d]: contributions sent by s that d has not handled
    releases,  \* the releases the HNP has broadcast, oldest first
    released,  \* released[d]: how many of them d has handled
    entered,   \* entered[d]: the rounds the clients of d have entered
    answers    \* answers[d]: what they were told of them, oldest first

fenceVars == <<fence, fwire, releases, released, entered, answers>>

FenceInit ==
    /\ Init
    /\ fence = [d \in Ranks |-> NewFences(d)]
    /\ fwire = [s \in Ranks |-> [d \in Ranks |-> <<>>]]
    /\ releases = <<>>
    /\ released = [d \in Ranks |-> 0]
    /\ entered = [d \in Ranks |-> {}]
    /\ answers = [d \in Ranks |-> <<>>]

FenceEmit(d, failed, net, out) ==
    CASE out.out = "send" ->
            IF out.dst \in failed \cup dead THEN net
            ELSE [net EXCEPT !.fwire[d][out.dst] = Append(@, Behind(d, out.dst, out.msg))]
      [] out.out = "release" -> [net EXCEPT !.releases = Append(@, out)]
      [] out.out = "answer" ->
            [net EXCEPT !.answers[d] = Append(@, [round |-> released[d], status |-> out.status,
                                                  data |-> out.data])]

\* The step of a fence handler of d takes effect; w is what is left on the wires.
FenceApply(d, step, failed, w) ==
    \E net \in {FoldLeft(LAMBDA n, o : FenceEmit(d, failed, n, o),
                         [fwire |-> w, releases |-> releases, answers |-> answers], step.out)} :
        /\ fence' = [fence EXCEPT ![d] = step.fd]
        /\ fwire' = net.fwire
        /\ releases' = net.releases
        /\ answers' = net.answers

------------------------------------------------------------------------------
\* A client of d calls PMIx_Fence, once its last fence has been answered. The
\* round it enters is the one after those that were released to it.
MayCall(d) == /\ d \in Members \cap Live
              /\ released[d] < MaxRounds /\ released[d] \notin entered[d]

FenceCalls(d) ==
    /\ MayCall(d) /\ UNCHANGED vars
    /\ entered' = [entered EXCEPT ![d] = @ \cup {released[d]}]
    /\ \E op \in Asks[d] :
        FenceApply(d, FenceCall(d, dmn[d], fence[d], op, <<d, released[d]>> \in Timed, <<d, released[d]>>),
                   dmn[d].failed, fwire)
    /\ UNCHANGED released

FenceReceives(d, s) ==
    /\ d \in Live /\ FirstOnWire(fwire[s][d]) /\ UNCHANGED vars
    /\ FenceApply(d, FenceRecv(d, dmn[d], fence[d], s, Head(fwire[s][d])), dmn[d].failed,
                  [fwire EXCEPT ![s][d] = Tail(@)])
    /\ UNCHANGED <<released, entered>>

\* A release reaches d; a broadcast is passed on before it is processed, so d
\* may be ahead of its parent or behind it.
FenceHearsRelease(d) ==
    /\ d \in Live /\ released[d] < Len(releases) /\ UNCHANGED vars
    /\ released' = [released EXCEPT ![d] = @ + 1]
    /\ FenceApply(d, FenceRelease(fence[d], releases[released[d] + 1]), {}, fwire)
    /\ UNCHANGED entered

FenceTimesOut ==
    /\ UNCHANGED vars
    /\ \E gen \in {g \in DOMAIN fence[0].ops : fence[0].ops[g].tev_active} :
        FenceApply(0, FenceTimeout(fence[0], gen), {}, fwire)
    /\ UNCHANGED <<released, entered>>

\* The notice of departures number n; the n-th is stamped with epoch n. It is
\* processed before it is passed on, so a parent has it before its children.
NoticeReached(d) == d # 0 => heard[Lifeline(dmn[d].tree)] > heard[d]

FenceHearsDeath(d) ==
    /\ MayHear(d) /\ NoticeReached(d)
    /\ ReceiveBroadcast(d)
    /\ FenceApply(d, IF bcast[heard[d] + 1] = {} THEN FenceStep(fence[d])
                     ELSE GlobalFault(d, dmn'[d], fence[d], heard[d] + 1),
                  dmn'[d].failed, fwire)
    /\ UNCHANGED <<released, entered>>

FenceCrash(d) ==
    /\ Crash(d)
    /\ fwire' = [s \in Ranks |-> [fwire[s] EXCEPT ![d] = <<>>]]
    /\ UNCHANGED <<fence, releases, released, entered, answers>>

FenceLosesConnection(d, r) ==
    /\ LostConnection(d, r)
    /\ fwire' = [fwire EXCEPT ![r][d] = <<>>]
    /\ UNCHANGED <<fence, releases, released, entered, answers>>

FenceReceivesNotice(d, s) ==
    /\ ~FirstOnWire(fwire[s][d])
    /\ Receive(d, s)
    /\ fwire' = [fwire EXCEPT ![s][d] = NoticeHandled(@)]
    /\ UNCHANGED <<fence, releases, released, entered, answers>>

FenceProgress ==
    \/ \E d \in Ranks : FenceCalls(d)
    \/ \E d, s \in Ranks : FenceReceives(d, s)
    \/ \E d \in Ranks : FenceHearsRelease(d)
    \/ \E d \in Ranks : FenceHearsDeath(d)
    \/ \E d, r \in Ranks : FenceLosesConnection(d, r)
    \/ \E d, s \in Ranks : FenceReceivesNotice(d, s)

FenceNext == FenceProgress \/ FenceTimesOut \/ \E d \in Ranks : FenceCrash(d)

\* Weak fairness of FenceProgress: the clients keep calling, the event loops keep
\* serving their queues and lost connections are noticed; no crash and no timeout
\* is owed. Its guard stands for ENABLED, and a step of it is one that is
\* neither a crash nor a timeout.
MayProgress ==
    \/ \E d \in Ranks : MayCall(d) \/ (MayHear(d) /\ NoticeReached(d))
    \/ \E d \in Live : released[d] < Len(releases)
    \/ \E d, s \in Ranks : MayLose(d, s) \/ MayReceive(d, s)
    \/ \E d \in Live, s \in Ranks : fwire[s][d] # <<>>

Progressed ==
    /\ dead' = dead
    /\ <<dmn, wire, heard, fwire, released, entered>>' # <<dmn, wire, heard, fwire, released, entered>>

FenceSpec == /\ FenceInit /\ [][FenceNext]_<<vars, fenceVars>>
             /\ []<>~MayProgress \/ []<><<Progressed>>_<<vars, fenceVars>>

------------------------------------------------------------------------------
\* A fence that succeeds is one that everybody entered, and an allgather hands
\* back one contribution of that very round from every participant, none twice:
\* whatever was restarted, resent, timed out or overtaken on the way.
SuccessMeansEveryone ==
    \A d \in Members : \A ans \in ToSet(answers[d]) :
        ans.status = "success" =>
            /\ \A m \in Members : ans.round \in entered[m]
            /\ ans.data \in {EmptyBag, SetToBag({<<m, ans.round>> : m \in Members})}

\* A client is answered once for every round it entered, when that round is
\* released, and for no other.
AnsweredOnce ==
    \A d \in Members :
        /\ {ans.round : ans \in ToSet(answers[d])} = {r \in entered[d] : r < released[d]}
        /\ IsInjective(answers[d])

==============================================================================

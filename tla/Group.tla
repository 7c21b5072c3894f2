-------------------------------- MODULE Group --------------------------------
(***************************************************************************)
(* Clients construct, cancel and destruct a group while daemons crash. The *)
(* repair of the tree is module Recovery's; every daemon also runs the     *)
(* handlers of GroupOps. Unlike those of a fence, the releases of a group  *)
(* share the HNP's broadcast stream with the departure notices, in one     *)
(* order. What a daemon sends straight to the HNP is relayed by the        *)
(* daemons between them.                                                   *)
(***************************************************************************)
EXTENDS Recovery, GroupOps

CONSTANTS Plans  \* the scenarios: plan[d] is what the client of d calls, in order

VARIABLES
    plan,     \* the scenario at hand
    group,    \* group[d]: the books of daemon d
    gwire,    \* gwire[s][d]: contributions sent by s that d has not handled
    stream,   \* releases and departure notices the HNP has broadcast
    taken,    \* taken[d]: how many of them d has handled
    regs,     \* regs[d]: the registrations the PMIx server of d is working on
    calls,    \* calls[d]: how many calls the client of d has made
    told      \* told[d]: the completions it was given, oldest first

groupVars == <<plan, group, gwire, stream, taken, regs, calls, told>>

GroupInit ==
    /\ plan \in Plans
    /\ group = [d \in Ranks |-> NewGroups]
    /\ gwire = [s \in Ranks |-> [d \in Ranks |-> <<>>]]
    /\ stream = <<>>
    /\ taken = [d \in Ranks |-> 0]
    /\ regs = [d \in Ranks |-> {}]
    /\ calls = [d \in Ranks |-> 0]
    /\ told = [d \in Ranks |-> <<>>]

GroupEmit(d, failed, net, out) ==
    CASE out.out = "send" ->
            IF out.dst \in failed \cup dead THEN net
            ELSE [net EXCEPT !.gwire[d][out.dst] = Append(@, Behind(d, out.dst, out.msg))]
      [] out.out = "release"  -> [net EXCEPT !.stream = Append(@, out)]
      [] out.out = "register" -> [net EXCEPT !.regs[d] = @ \cup {out.rel}]
      [] out.out = "answer"   -> [net EXCEPT !.told[d] = Append(@, out)]

GroupApply(d, step, failed, w, sofar, r) ==
    \E net \in {FoldLeft(LAMBDA n, o : GroupEmit(d, failed, n, o),
                         [gwire |-> w, stream |-> sofar, regs |-> r, told |-> told], step.out)} :
        /\ group' = [group EXCEPT ![d] = step.gd]
        /\ gwire' = net.gwire
        /\ stream' = net.stream
        /\ regs' = net.regs
        /\ told' = net.told

\* The departures a step of Recovery broadcasts, at the end of the stream.
WithDeaths(s) ==
    s \o [i \in 1 .. Len(bcast') - Len(bcast) |-> [out |-> "died"]]

------------------------------------------------------------------------------
\* The next call of the client of d. It waits for the one before to be completed,
\* except to cancel it, and gives up on a group that was not constructed.
NextCall(d) == plan[d][calls[d] + 1]

Succeeded(d) == \A i \in DOMAIN told[d] : told[d][i].op = "construct" => told[d][i].status = "success"

MayCallGroup(d) ==
    /\ d \in Live /\ calls[d] < Len(plan[d])
    /\ NextCall(d).sig.op # "cancel" => Len(told[d]) = calls[d]
    /\ NextCall(d).sig.op = "destruct" => Succeeded(d)

GroupCalls(d) ==
    /\ MayCallGroup(d) /\ UNCHANGED vars
    /\ calls' = [calls EXCEPT ![d] = @ + 1]
    /\ GroupApply(d, GroupCall(d, dmn[d], group[d], NextCall(d).sig, NextCall(d).timeout),
                  dmn[d].failed, gwire, stream, regs)
    /\ UNCHANGED <<plan, taken>>

GroupReceives(d, s) ==
    /\ d \in Live /\ FirstOnWire(gwire[s][d]) /\ UNCHANGED vars
    /\ GroupApply(d, GroupRecv(d, dmn[d], group[d], s, Head(gwire[s][d])), dmn[d].failed,
                  [gwire EXCEPT ![s][d] = Tail(@)], stream, regs)
    /\ UNCHANGED <<plan, taken, calls>>

GroupTimesOut ==
    /\ UNCHANGED vars
    /\ \E op \in {o \in DOMAIN group[0].ops : group[0].ops[o].tev_active} :
        GroupApply(0, GroupTimeout(group[0], op), {}, gwire, stream, regs)
    /\ UNCHANGED <<plan, taken, calls>>

\* The next item of the stream. A release is passed on before it is processed,
\* so the parent of d may be as far as d; a departure notice is processed first.
StreamItem(d) == stream[taken[d] + 1]

MayTake(d) == d \in Live /\ taken[d] < Len(stream)

GroupHearsRelease(d) ==
    /\ MayTake(d) /\ StreamItem(d).out = "release" /\ UNCHANGED vars
    /\ d # 0 => taken[Lifeline(dmn[d].tree)] >= taken[d]
    /\ taken' = [taken EXCEPT ![d] = @ + 1]
    /\ GroupApply(d, GrpRelease(group[d], StreamItem(d)), {}, gwire, stream, regs)
    /\ UNCHANGED <<plan, calls>>

\* grp_release_regcbfunc and grp_release_resume: the PMIx server of d has the
\* group's resources
GroupRegistered(d) ==
    /\ d \in Live /\ UNCHANGED vars
    /\ \E rel \in regs[d] :
        GroupApply(d, GrpReleaseComplete(group[d], rel), {}, gwire, stream,
                   [regs EXCEPT ![d] = @ \ {rel}])
    /\ UNCHANGED <<plan, taken, calls>>

GroupHearsDeath(d) ==
    /\ MayTake(d) /\ StreamItem(d).out = "died"
    /\ d # 0 => taken[Lifeline(dmn[d].tree)] > taken[d]
    /\ taken' = [taken EXCEPT ![d] = @ + 1]
    /\ ReceiveBroadcast(d)
    /\ GroupApply(d, IF bcast[heard[d] + 1] = {} THEN GroupStep(group[d])
                     ELSE GroupGlobalFault(d, dmn'[d], group[d], heard[d] + 1),
                  dmn'[d].failed, gwire, WithDeaths(stream), regs)
    /\ UNCHANGED <<plan, calls>>

\* What was on its way to the HNP through the crashed daemon may go with it.
Below(d) == {s \in Ranks \ {d} : d \in ToSet(dmn[s].tree.ancestors)}

GroupCrash(d) ==
    /\ Crash(d)
    /\ \E lose \in BOOLEAN :
        gwire' = [s \in Ranks |-> [gwire[s] EXCEPT ![d] = <<>>,
                    ![0] = IF lose /\ s \in Below(d) /\ Lifeline(dmn[s].tree) # 0
                           THEN <<>> ELSE @]]
    /\ UNCHANGED <<plan, group, stream, taken, regs, calls, told>>

GroupLosesConnection(d, r) ==
    /\ LostConnection(d, r)
    /\ gwire' = [gwire EXCEPT ![r][d] = <<>>]
    /\ stream' = WithDeaths(stream)
    /\ UNCHANGED <<plan, group, taken, regs, calls, told>>

GroupReceivesNotice(d, s) ==
    /\ ~FirstOnWire(gwire[s][d])
    /\ Receive(d, s)
    /\ gwire' = [gwire EXCEPT ![s][d] = NoticeHandled(@)]
    /\ stream' = WithDeaths(stream)
    /\ UNCHANGED <<plan, group, taken, regs, calls, told>>

GroupNext ==
    \/ \E d \in Ranks : GroupCalls(d)
    \/ \E d, s \in Ranks : GroupReceives(d, s)
    \/ GroupTimesOut
    \/ \E d \in Ranks : GroupHearsRelease(d)
    \/ \E d \in Ranks : GroupRegistered(d)
    \/ \E d \in Ranks : GroupHearsDeath(d)
    \/ \E d \in Ranks : GroupCrash(d)
    \/ \E d, r \in Ranks : GroupLosesConnection(d, r)
    \/ \E d, s \in Ranks : GroupReceivesNotice(d, s)

\* Weak fairness of everything but crashes and timeouts, as in module Fence.
GroupMayProgress ==
    \/ \E d \in Ranks : MayCallGroup(d) \/ MayTake(d)
    \/ \E d \in Live : regs[d] # {}
    \/ \E d, s \in Ranks : MayLose(d, s) \/ MayReceive(d, s)
    \/ \E d \in Live, s \in Ranks : gwire[s][d] # <<>>

GroupProgressed ==
    /\ dead' = dead
    /\ <<dmn, wire, taken, gwire, regs, calls>>' # <<dmn, wire, taken, gwire, regs, calls>>

------------------------------------------------------------------------------
\* No client puts a deadline on its construct or cancels it.
Undisturbed ==
    \A d \in Ranks : \A i \in DOMAIN plan[d] :
        plan[d][i].sig.op # "cancel" /\ ~plan[d][i].timeout

\* No client bootstraps: the operation rolls up the tree.
RollsUp == \A d \in Ranks : \A i \in DOMAIN plan[d] : ~Bootstraps(plan[d][i].sig)

\* All participants of an operation are told the same of it, and one that is
\* told a construct succeeded is told a membership that leaves out only daemons
\* that are gone, with the endpoints of every surviving member, none twice.
GroupsAgree ==
    \A d, e \in Ranks : \A a \in ToSet(told[d]), b \in ToSet(told[e]) :
        /\ (Undisturbed /\ a.op = b.op) => a = b
        /\ (a.op = "construct" /\ a.status = "success") =>
            /\ (plan[d][1].sig.members \cup plan[d][1].sig.addmembers) \ a.members \subseteq dead
            /\ a.members \ dead \subseteq BagToSet(a.endpts)
            /\ \A m \in BagToSet(a.endpts) : CopiesIn(m, a.endpts) = 1

==============================================================================

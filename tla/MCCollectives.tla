---------------------------- MODULE MCCollectives ----------------------------
(***************************************************************************)
(* The calls the clients make: Plans of module Group, Asks of module Fence.*)
(***************************************************************************)
EXTENDS Collectives

MCTimed == {<<3, 0>>}

MCAsks == [d \in Members |-> {"allgather"}]

Sig(op, members) ==
    [op |-> op, members |-> members, addmembers |-> {}, bootstrap |-> 0, follower |-> FALSE,
     ft_collective |-> FALSE, assignID |-> FALSE, final_order |-> NoOrder]

Call(sig) == [sig |-> sig, timeout |-> FALSE]

\* The processes of ms construct and destruct a group.
Lifetime(ms, construct) ==
    [d \in Ranks |-> IF d \in ms THEN <<construct, Call(Sig("destruct", ms))>> ELSE <<>>]

Plain == Lifetime({0, 3}, Call([Sig("construct", {0, 3}) EXCEPT !.assignID = TRUE]))

\* Without the destruct: one that survives its members, one with a deadline, and
\* one a member backs out of.
Once(ms, call) == [d \in Ranks |-> IF d \in ms THEN <<call>> ELSE <<>>]
Tolerant == Once({0, 1, 3}, Call([Sig("construct", {0, 1, 3}) EXCEPT !.ft_collective = TRUE]))
Hasty == Once({0, 3}, [Call(Sig("construct", {0, 3})) EXCEPT !.timeout = TRUE])
Cancelled == [Once({0, 1}, Call(Sig("construct", {0, 1}))) EXCEPT
                ![1] = Append(@, Call(Sig("cancel", {})))]

\* Two leaders bring in a follower.
Leader(d) == [Sig("construct", {d}) EXCEPT !.bootstrap = 2, !.addmembers = {3}]
Boot == [d \in Ranks |->
            IF d \in {0, 2} THEN <<Call(Leader(d))>>
            ELSE IF d = 3 THEN <<Call([Sig("construct", {}) EXCEPT !.follower = TRUE])>>
            ELSE <<>>]

MCPlans == {Plain, Tolerant, Hasty, Cancelled, Boot}

==============================================================================

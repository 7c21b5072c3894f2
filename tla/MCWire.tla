------------------------------- MODULE MCWire -------------------------------
(***************************************************************************)
(* The parts that carry data: a TCP connection, the data server, file      *)
(* positioning, standard I/O.                                              *)
(* They share no state, so one behaviour moves one of them: focus, chosen  *)
(* at the start, says which, and the others stay in an initial state.      *)
(***************************************************************************)
EXTENDS TcpPeer, DataServer, Filem, Iof, TLC

-----------------------------------------------------------------------------
(* Messages of a connection *)
MCTcpM11 == [d \in Ends |-> 1]

-----------------------------------------------------------------------------
(* What the clients of the data server do *)
MCDsProcs == {"a1", "a2", "b1"}
MCDsUser == [p \in MCDsProcs |-> IF p = "b1" THEN "v" ELSE "u"]
MCDsNspace == [p \in MCDsProcs |-> IF p = "b1" THEN "b" ELSE "a"]
MCDsApp == [p \in MCDsProcs |-> p]
MCDsDmn == [p \in MCDsProcs |-> IF p = "a2" THEN 0 ELSE 1]
MCDsPub(keys, range, persist, auids, replace) ==
  [op |-> "publish", keys |-> keys, range |-> range, persist |-> persist,
   auids |-> auids, replace |-> replace]
MCDsLook(keys, range, wait, nwait, timer) ==
  [op |-> "lookup", keys |-> keys, range |-> range, wait |-> wait, nwait |-> nwait, timer |-> timer]
MCDsUnp(keys) == [op |-> "unpublish", keys |-> keys, range |-> "session"]
MCDsPurge == [op |-> "purge", range |-> "session"]
MCDsBoth == {"u", "v"}
MCDsScript(a1, a2, b1) == [p \in MCDsProcs |-> CASE p = "a1" -> a1 [] p = "a2" -> a2 [] p = "b1" -> b1]
MCDsWaitKX == MCDsLook(<<"k","x">>, "session", TRUE, 0, FALSE)
MCDsGetKX == MCDsLook(<<"k","x">>, "session", FALSE, 0, FALSE)
MCDsPubKX == MCDsPub(<<"k","x">>, "session", "first_read", MCDsBoth, FALSE)
MCDsExit == [op |-> "exit"]
MCDsPlan(a1, a2, b1) == [ext |-> "none", todo |-> MCDsScript(a1, a2, b1)]
MCDsFar(x, a1, a2, b1) == [ext |-> x, todo |-> MCDsScript(a1, a2, b1)]
MCDsPlans == { \* two waiting readers, values that can be read once
  MCDsPlan(<<MCDsPubKX, MCDsPub(<<"k">>, "session", "indef", MCDsBoth, TRUE)>>,
       <<MCDsLook(<<"k","x">>, "namespace", TRUE, 1, TRUE)>>, <<MCDsWaitKX, MCDsGetKX>>),
  MCDsPlan(<<MCDsPub(<<"k">>, "session", "first_read", MCDsBoth, FALSE), MCDsExit>>,
       <<MCDsPub(<<"x">>, "session", "app", MCDsBoth, FALSE), MCDsUnp(<<"k">>), MCDsExit>>, <<MCDsWaitKX>>),
  MCDsPlan(<<MCDsPub(<<"k">>, "local", "proc", MCDsBoth, FALSE), MCDsPurge, MCDsExit>>,
       <<MCDsPub(<<"x">>, "namespace", "nspace", {}, FALSE), MCDsExit>>, 
       <<MCDsLook(<<"k">>, "local", TRUE, 0, FALSE), MCDsExit>>),
  \* the cap: a third item evicts the user's oldest
  MCDsPlan(<<MCDsPub(<<"k">>, "session", "indef", {}, FALSE), MCDsPub(<<"x">>, "session", "indef", MCDsBoth, FALSE)>>,
       <<MCDsPub(<<"y", "k">>, "global", "session", {}, FALSE)>>,
       <<MCDsGetKX>>),
  MCDsFar("up", <<MCDsPub(<<"k">>, "session", "first_read", MCDsBoth, FALSE)>>, <<>>,
       <<MCDsLook(<<"k">>, "session", TRUE, 0, TRUE), MCDsExit>>),
  MCDsFar("down", <<MCDsPub(<<"k">>, "local", "proc", MCDsBoth, FALSE), MCDsPurge>>, <<MCDsGetKX>>, <<MCDsGetKX>>)}

-----------------------------------------------------------------------------
(* What is positioned, and what fails meanwhile *)
MCFmA(n) == [src |-> n, name |-> n]
MCFmK == [a |-> "file", b |-> "exe", t |-> "tar"]
MCFmS == [a |-> 1, b |-> 2, t |-> 1]
MCFmP(first, jobs, faults, lose, join) == [first |-> first, jobs |-> jobs, faults |-> faults, lose |-> lose, join |-> join]
MCFmPlans == {
  MCFmP({0,1,2}, <<<<MCFmA("b")>>>>, {}, {1,2}, {}),
  MCFmP({0,1}, <<<<MCFmA("a")>>, <<MCFmA("a")>>>>, {}, {}, {2}),
  MCFmP({0,1,2}, <<<<MCFmA("a")>>, <<MCFmA("a")>>>>, {}, {1}, {}),
  MCFmP({0,1}, <<<<MCFmA("a")>>, <<[src |-> "b", name |-> "a"]>>>>, {<<"create",1>>, <<"read","a">>}, {}, {}),
  MCFmP({0,1}, <<<<MCFmA("t")>>, <<MCFmA("t")>>>>, {<<"extract",1>>}, {1}, {}),
  MCFmP({0,1}, <<<<MCFmA("a"),[src |-> "b", name |-> "a"]>>, <<MCFmA("a"), MCFmA("t")>>>>, {<<"abort">>, <<"open","t">>}, {}, {}),
  MCFmP({0,1}, <<<<MCFmA("b")>>, <<[src |-> "b", name |-> "bad"]>>>>, {<<"write",0>>}, {}, {}) }

-----------------------------------------------------------------------------
(* Who forwards what to whom *)
MCIoO(a,b) == [stdout |-> a, stderr |-> b]
MCIoP(loc, tool, push, target, nin, out, quits, pulls) == [loc |-> loc, tool |-> tool, push |-> push, target |-> target, nin |-> nin, out |-> out, quits |-> quits, pulls |-> pulls]
MCIoL(a,b) == [p |-> a, q |-> b]
MCIoPlans == {
  MCIoP(MCIoL("D1","D2"), "H", "H", "all", 2, MCIoL(MCIoO(0,0),MCIoO(0,0)), {}, {}),
  MCIoP(MCIoL("H","D1"), "H", "H", "all", 2, MCIoL(MCIoO(0,0),MCIoO(0,0)), {}, {}),
  MCIoP(MCIoL("H","D1"), "H", "H", "p", 3, MCIoL(MCIoO(0,0),MCIoO(0,0)), {"p"}, {}),
  MCIoP(MCIoL("H","D1"), "D2", "D2", "q", 2, MCIoL(MCIoO(1,0),MCIoO(0,0)), {"q"}, {}),
  MCIoP(MCIoL("H","D1"), "D1", "H", "q", 0, MCIoL(MCIoO(1,0),MCIoO(1,1)), {}, {"D1"}),
  MCIoP(MCIoL("D1","D2"), "D2", "H", "q", 0, MCIoL(MCIoO(1,0),MCIoO(1,0)), {}, {"D1"}) }

-----------------------------------------------------------------------------
CONSTANT Parts
VARIABLE focus

wireVars == <<focus, tcpVars, dsVars, fm, io>>

WireInit ==
    /\ focus \in Parts
    /\ TcpInit
    /\ DsInit /\ (focus = "ds" \/ dsTodo = (CHOOSE p \in DsPlans : p.ext = "up").todo)
    /\ FmInit /\ (focus = "fm" \/ fm.plan = CHOOSE p \in FmPlans : TRUE)
    /\ IoInit /\ (focus = "io" \/ io.plan = CHOOSE p \in IoPlans : TRUE)

WireNext ==
    \/ focus = "tcp" /\ TcpNext /\ UNCHANGED <<focus, dsVars, fm, io>>
    \/ focus = "ds" /\ DsNext /\ UNCHANGED <<focus, tcpVars, fm, io>>
    \/ focus = "fm" /\ FmNext /\ UNCHANGED <<focus, tcpVars, dsVars, io>>
    \/ focus = "io" /\ IoNext /\ UNCHANGED <<focus, tcpVars, dsVars, fm>>

\* Fair is what the event loops of the daemons run; not the network's breaks,
\* the exits and the arrivals of new work.
WireSpec ==
    /\ WireInit /\ [][WireNext]_wireVars
    /\ WF_tcpVars(focus = "tcp" /\ \E d \in Ends : TcpHandler(d))
    /\ WF_fm(focus = "fm" /\ FmProgress)
    /\ WF_io(focus = "io" /\ IoProgress)

\* What was handed to a part is carried through: every message sent ends, every
\* request to position files is answered once, and standard input and output
\* reach their readers.
WireSettles ==
    <>[](CASE focus = "tcp" -> TcpSettled
           [] focus = "fm" -> FmSettled
           [] focus = "io" -> IoSettled
           [] OTHER -> TRUE)

=============================================================================

----------------------------- MODULE DataServer -----------------------------
(***************************************************************************)
(* The data server behind PMIx_Publish, PMIx_Lookup and PMIx_Unpublish     *)
(* (src/runtime/data_server) and the daemon side that asks it              *)
(* (src/prted/pmix/pmix_server_pub.c).                                     *)
(*                                                                         *)
(* Every daemon holds a store: the master's holds everything that is not   *)
(* PMIX_RANGE_LOCAL, a daemon's own the local range.  A request waits in   *)
(* a room of its daemon's tracker array until the server answers with the  *)
(* number of that room.  A lookup that asked to wait is parked at the      *)
(* server until a publish completes it, its timer fires or its requestor   *)
(* ends.  A key's value is the number of the request that published it.    *)
(***************************************************************************)
EXTENDS Integers, Sequences, SequencesExt, FiniteSets, FiniteSetsExt

CONSTANTS DsProcs,          \* the client processes
          DsUser,           \* process -> its uid and gid, as one identity
          DsNspace,         \* process -> its namespace
          DsApp,            \* process -> its application in the namespace
          DsDaemon,         \* process -> its daemon; 0 is the master
          DsPlans,          \* bound: choices of what each process does, in order,
                            \* and of the external data server
          DsMaxSize,        \* prte_data_store.max_size, 0 for no cap
          DsTimeout,        \* prte_data_store.timeout, 0 for none
          DsMaxClock        \* bound: how far the clock goes

DsDaemons == {DsDaemon[p] : p \in DsProcs} \cup {0}
DsX == -1   \* the external data server, the store of another DVM
DsServers == DsDaemons \cup {DsX}
DsUsers == {DsUser[p] : p \in DsProcs}
DsLinks == {l \in DsServers \X DsServers : l[1] = l[2] \/ 0 \in {l[1], l[2]}}

ASSUME DsAssumption ==
    /\ \A p \in DsProcs : DsDaemon[p] \in Nat /\ \A q \in DsProcs : 
          DsNspace[p] = DsNspace[q] => DsUser[p] = DsUser[q]
    /\ {DsMaxSize, DsTimeout, DsMaxClock} \subseteq Nat

VARIABLES dsAt,     \* daemon -> its data server, and the external one
          dsExt,    \* whether there is an external one, and the jobs it serves
          dsRooms,  \* daemon -> local_reqs, a sequence of requests or NoAsk
          dsWire,   \* link -> what the RML carries over it
          dsEnded,  \* daemon -> the processes it has recorded as ended
          dsTodo,   \* process -> the calls it has still to make; "exit" is its end
          dsAsks,   \* how many calls were made
          dsClock

dsVars == <<dsAt, dsExt, dsRooms, dsWire, dsEnded, dsTodo, dsAsks, dsClock>>

DsNoAsk == [ask |-> 0]
DsKeys(rq) == Range(rq.call.keys)
DsNoItem == [keys |-> {}, bytes |-> 0]

-----------------------------------------------------------------------------
(* Who may see, and who owns, an item. *)

DsOwns(p, it) == DsUser[p] = DsUser[it.owner]

\* the publisher's access list, or the publishing user when it gave none
DsCheckAccess(p, it) ==
    IF it.auids = {} THEN DsOwns(p, it) ELSE DsUser[p] \in it.auids

\* no client belongs to the namespace of the host environment, so "rm" and
\* a requestor's "custom" admit nobody
DsRangeAdmits(range, anchor, subject) ==
    \/ range \in {"undef", "session", "global"}
    \/ range = "namespace" /\ DsNspace[anchor] = DsNspace[subject]
    \/ range = "local" /\ DsDaemon[anchor] = DsDaemon[subject]
    \/ range = "proc_local" /\ anchor = subject

DsCheckRange(p, it) ==
    IF it.range = "custom" THEN it.auids # {}
    ELSE DsRangeAdmits(it.range, it.owner, p)

DsSameRange(p, range, it) ==
    /\ range = it.range
    /\ DsOwns(p, it) \/ DsCheckAccess(p, it)
    /\ DsCheckRange(p, it)

\* the three tests of a lookup
DsSees(rq, it) ==
    /\ DsCheckAccess(rq.who, it)
    /\ DsCheckRange(rq.who, it)
    /\ DsRangeAdmits(rq.call.range, rq.who, it.owner)

DsReaches(p, it) ==
    it.range \in {"namespace", "local", "proc_local"} => DsCheckRange(p, it)

-----------------------------------------------------------------------------
(* The store of one server, a sequence of items and free slots, and what   *)
(* each user is charged for it.                                            *)

DsSlots(S) == {k \in DOMAIN S.store : S.store[k].keys # {}}

DsItemSize(it) == 1 + Cardinality(it.auids) + Cardinality(it.keys)

\* prte_ds_drop
DsDrop(S, k) ==
    [S EXCEPT !.store[k] = DsNoItem,
              !.usage[DsUser[S.store[k].owner]] = @ - S.store[k].bytes]

\* prte_ds_charge
DsCharge(S, k) ==
    LET it == S.store[k]
    IN  [S EXCEPT !.store[k].bytes = DsItemSize(it),
                  !.usage[DsUser[it.owner]] = @ - it.bytes + DsItemSize(it)]

\* take keys out of a slot: an item left empty leaves the store
DsRemoveKeys(S, k, keys) ==
    IF S.store[k].keys \cap keys = {} THEN S
    ELSE IF S.store[k].keys \subseteq keys THEN DsDrop(S, k)
    ELSE DsCharge([S EXCEPT !.store[k].keys = @ \ keys], k)

DsRemoveFrom(S, slots, keys) ==
    FoldSet(LAMBDA k, T : DsRemoveKeys(T, k, keys), S, slots)

DsDropAll(S, slots) == FoldSet(LAMBDA k, T : DsDrop(T, k), S, slots)

-----------------------------------------------------------------------------
(* prte_ds_collect, counting and taking. *)

DsHolders(S, rq, key) ==
    {k \in DsSlots(S) : key \in S.store[k].keys /\ DsSees(rq, S.store[k])}

DsFound(S, rq) == {key \in DsKeys(rq) : DsHolders(S, rq, key) # {}}

\* the lowest slot that holds the key answers it, and a FIRST_READ item
\* gives the key up
DsTakeKey(acc, rq, key) ==
    IF DsHolders(acc.S, rq, key) = {} THEN acc
    ELSE LET k == Min(DsHolders(acc.S, rq, key))
             T == [acc.S EXCEPT !.store[k].last = dsClock]
         IN  [S |-> IF T.store[k].persist = "first_read"
                    THEN DsRemoveKeys(T, k, {key}) ELSE T,
              vals |-> acc.vals \cup {<<key, T.store[k].id>>}]

DsCollect(S, rq) ==
    FoldLeft(LAMBDA acc, key : DsTakeKey(acc, rq, key),
             [S |-> S, vals |-> {}], rq.call.keys)

DsWaitTarget(rq) ==
    IF rq.call.nwait = 0 \/ rq.call.nwait > Len(rq.call.keys)
    THEN Len(rq.call.keys) ELSE rq.call.nwait

DsComplete(S, rq) == Cardinality(DsFound(S, rq)) >= DsWaitTarget(rq)

DsReply(rq, status, vals) ==
    [m |-> "reply", to |-> DsDaemon[rq.who], room |-> rq.room, ask |-> rq.ask,
     st |-> status, vals |-> vals]

DsFoundReply(rq, vals) ==
    DsReply(rq, IF Cardinality(vals) < Len(rq.call.keys)
                THEN "PARTIAL_SUCCESS" ELSE "SUCCESS", vals)

\* prte_ds_answer_parked, for one parked request: acc is the server and the
\* answers so far
DsAnswerParked(acc, rq) ==
    LET got == DsCollect(acc.S, rq)
    IN  [S |-> [got.S EXCEPT !.pending = SelectSeq(@, LAMBDA r : r # rq)],
         out |-> Append(acc.out, DsFoundReply(rq, got.vals))]

-----------------------------------------------------------------------------
(* The handlers: each gives the server after it and the answers it sends.  *)

DsDone(S, rq, status) ==
    [S |-> S, out |-> <<DsReply(rq, status, {})>>]

\* slots whose keys a publication repeats on its own range
DsDuplicates(S, rq) ==
    {k \in DsSlots(S) : /\ S.store[k].keys \cap DsKeys(rq) # {}
                        /\ DsSameRange(rq.who, rq.call.range, S.store[k])}

DsOldest(S, u) ==
    LET mine == {k \in DsSlots(S) : DsUser[S.store[k].owner] = u}
    IN  CHOOSE k \in mine : \A j \in mine :
            \/ S.store[k].last < S.store[j].last
            \/ S.store[k].last = S.store[j].last /\ k <= j

\* prte_ds_make_room, for an item that fits the cap by itself
DsMakeRoom(S, u, need) ==
    FoldLeft(LAMBDA T, n : IF DsMaxSize = 0 \/ T.usage[u] + need <= DsMaxSize THEN T
                           ELSE DsDrop(T, DsOldest(T, u)),
             S, S.store)

DsTimeoutApplies(it) == it.keys # {} /\ it.persist \in {"indef", "first_read"}

\* prte_ds_arm_sweep
DsArmSweep(S) ==
    [S EXCEPT !.sweep = @ \/ (DsTimeout > 0 /\ \E k \in DsSlots(S) :
                                                DsTimeoutApplies(S.store[k]))]

\* pmix_pointer_array_add: the lowest free slot, or a new one
DsAdd(S, it) ==
    LET free == DOMAIN S.store \ DsSlots(S)
        k == IF free = {} THEN Len(S.store) + 1 ELSE Min(free)
    IN  DsCharge([S EXCEPT !.store = IF free = {} THEN Append(@, it)
                                     ELSE [@ EXCEPT ![k] = it]], k)

DsItem(rq) ==
    [id |-> rq.ask, owner |-> rq.who, keys |-> DsKeys(rq), range |-> rq.call.range,
     persist |-> rq.call.persist, auids |-> rq.call.auids, last |-> dsClock,
     bytes |-> 0]

\* only the request at the head of the list
DsAnswerFirst(S, it) ==
    LET one == IF S.pending = <<>> THEN <<>> ELSE <<Head(S.pending)>>
    IN  FoldLeft(LAMBDA acc, rq :
                    IF /\ DsSees(rq, it) /\ DsKeys(rq) \cap it.keys # {}
                       /\ DsComplete(acc.S, rq)
                    THEN DsAnswerParked(acc, rq) ELSE acc,
                 [S |-> S, out |-> <<>>], one)

\* the parked requests the new item could advance, oldest first, each
\* answered if the whole store now completes it
DsAnswerWaiting(S, it) ==
    FoldLeft(LAMBDA acc, rq :
                IF /\ DsSees(rq, it) /\ DsKeys(rq) \cap it.keys # {}
                   /\ DsComplete(acc.S, rq)
                THEN DsAnswerParked(acc, rq) ELSE acc,
             [S |-> S, out |-> <<>>], S.pending)

DsStored(S, rq) ==
    LET it == DsItem(rq)
        T == DsArmSweep(DsAdd(DsMakeRoom(S, DsUser[rq.who], DsItemSize(it)), it))
        acc == DsAnswerWaiting(T, it)
    IN  [acc EXCEPT !.out = Append(@, DsReply(rq, "SUCCESS", {}))]

\* prte_ds_publish: refuse a duplicate unless it replaces the publisher's
\* own; then the prior keys go, room is made, and the item is stored
DsPublish(S, rq) ==
    LET dups == DsDuplicates(S, rq)
        foreign == \E k \in dups : ~DsOwns(rq.who, S.store[k])
        T == DsRemoveFrom(S, dups, DsKeys(rq))
    IN  IF rq.call.persist = "unknown" \/ rq.call.range = "unknown"
        THEN DsDone(S, rq, "BAD_PARAM")
        ELSE IF dups # {} /\ (foreign \/ ~rq.call.replace)
        THEN DsDone(S, rq, "DUPLICATE_KEY")
        ELSE IF DsMaxSize > 0 /\ DsItemSize(DsItem(rq)) > DsMaxSize
        THEN DsDone(T, rq, "OUT_OF_RESOURCE")
        ELSE DsStored(T, rq)

\* prte_ds_lookup
DsLookup(S, rq) ==
    LET got == DsCollect(S, rq)
        denied == \E k \in DsSlots(S) :
                     /\ S.store[k].keys \cap DsKeys(rq) # {}
                     /\ ~DsCheckAccess(rq.who, S.store[k])
    IN  IF rq.call.wait /\ ~DsComplete(S, rq)
        THEN [S |-> [S EXCEPT !.pending = Append(@, rq)], out |-> <<>>]
        ELSE IF got.vals = {}
        THEN DsDone(S, rq, IF denied THEN "NO_PERMISSIONS" ELSE "NOT_FOUND")
        ELSE [S |-> got.S,
              out |-> <<DsFoundReply(rq, got.vals)>>]

\* prte_ds_unpublish
DsUnpublish(S, rq) ==
    LET mine == {k \in DsSlots(S) : /\ DsOwns(rq.who, S.store[k])
                                    /\ DsReaches(rq.who, S.store[k])}
    IN  DsDone(DsRemoveFrom(S, mine, DsKeys(rq)), rq, "SUCCESS")

\* prte_data_server_expires_by
DsExpiresBy(persist, horizon) ==
    \/ horizon = "invalid"
    \/ persist = "proc"
    \/ persist = "app" /\ horizon \in {"app", "nspace", "session"}
    \/ persist = "nspace" /\ horizon \in {"nspace", "session"}
    \/ persist = "session" /\ horizon = "session"

\* purge_store for the processes a lifetime that ended belonged to, with
\* drop_parked
DsPurgeStore(S, procs, horizon) ==
    LET gone == {k \in DsSlots(S) : /\ S.store[k].owner \in procs
                                    /\ DsExpiresBy(S.store[k].persist, horizon)}
        left == IF horizon \in {"proc", "nspace"}
                THEN SelectSeq(S.pending, LAMBDA r : r.who \in procs) ELSE <<>>
    IN  [S |-> [DsDropAll(S, gone) EXCEPT
                  !.pending = SelectSeq(@, LAMBDA r : r \notin Range(left))],
         out |-> [i \in DOMAIN left |-> DsReply(left[i], "NOT_FOUND", {})]]

\* prte_ds_purge from a client: everything it published
DsPurge(S, rq) ==
    DsDone(DsPurgeStore(S, {rq.who}, "invalid").S, rq, "SUCCESS")

DsServe(S, rq) ==
    CASE rq.call.op = "publish" -> DsPublish(S, rq)
      [] rq.call.op = "lookup" -> DsLookup(S, rq)
      [] rq.call.op = "unpublish" -> DsUnpublish(S, rq)
      [] rq.call.op = "purge" -> DsPurge(S, rq)

-----------------------------------------------------------------------------
(* The daemons. *)

\* the answers server s sends, appended to its links; those of the external
\* one go to the master, whose tool connection it is
DsSent(wire, s, out) ==
    FoldLeft(LAMBDA w, m : [w EXCEPT ![<<s, IF s = DsX THEN 0 ELSE m.to>>] = Append(@, m)],
             wire, out)

\* the server at s becomes r.S and sends r.out, on top of wire
DsBecomes(s, r, wire) ==
    /\ dsAt' = [dsAt EXCEPT ![s] = r.S]
    /\ dsWire' = DsSent(wire, s, r.out)

DsTail(l) == [dsWire EXCEPT ![l] = Tail(@)]
DsNext1(l, m) == dsWire[l] # <<>> /\ Head(dsWire[l]).m = m

DsIsNext(p) == dsTodo[p] # <<>>

\* execute: a room in the tracker array, and the request to the master or,
\* for the local range, to the daemon's own server
DsCall(p) ==
    LET call == Head(dsTodo[p])
        d == DsDaemon[p]
        s == IF call.range = "local" THEN d ELSE 0
        free == {r \in DOMAIN dsRooms[d] : dsRooms[d][r] = DsNoAsk}
        room == IF free = {} THEN Len(dsRooms[d]) + 1 ELSE Min(free)
        rq == [m |-> "req", ask |-> dsAsks + 1, who |-> p, room |-> room, call |-> call]
    IN  /\ DsIsNext(p) /\ call.op # "exit" /\ ~(d = 0 /\ dsExt.mode = "down")
        /\ \A r \in DOMAIN dsRooms[d] : dsRooms[d][r].ask # 0 => dsRooms[d][r].who # p
        /\ dsRooms' = [dsRooms EXCEPT ![d] =
                          IF free = {} THEN Append(@, [ask |-> rq.ask, who |-> p])
                          ELSE [@ EXCEPT ![room] = [ask |-> rq.ask, who |-> p]]]
        /\ dsWire' = [dsWire EXCEPT ![<<d, s>>] = Append(@, rq)]
        /\ dsAsks' = dsAsks + 1 /\ dsTodo' = [dsTodo EXCEPT ![p] = Tail(@)]
        /\ UNCHANGED <<dsAt, dsExt, dsEnded, dsClock>>

\* init_server failed at the master: its own clients are told at once
DsCallRefused(p) ==
    /\ DsIsNext(p) /\ Head(dsTodo[p]).op # "exit"
    /\ DsDaemon[p] = 0 /\ dsExt.mode = "down"
    /\ dsTodo' = [dsTodo EXCEPT ![p] = Tail(@)]
    /\ UNCHANGED <<dsAt, dsExt, dsRooms, dsWire, dsEnded, dsAsks, dsClock>>

DsRelayed(l) ==
    l[2] = 0 /\ dsExt.mode # "none" /\ Head(dsWire[l]).call.range # "local"

\* prte_ds_relay: the request goes on to the external server, or is refused
\* because the attach failed
DsRelay(l) ==
    LET rq == Head(dsWire[l])
    IN  /\ DsNext1(l, "req") /\ DsRelayed(l)
        /\ IF dsExt.mode = "up"
           THEN /\ dsWire' = [DsTail(l) EXCEPT ![<<0, DsX>>] = Append(@, rq)]
                /\ dsExt' = IF rq.call.op = "purge" THEN dsExt
                            ELSE [dsExt EXCEPT !.jobs = @ \cup {DsNspace[rq.who]}]
           ELSE /\ dsWire' = DsSent(DsTail(l), 0, <<DsReply(rq, "UNREACH", {})>>)
                /\ dsExt' = dsExt
        /\ UNCHANGED <<dsAt, dsRooms, dsEnded, dsTodo, dsAsks, dsClock>>

\* relay_complete: the answer goes back to the daemon that asked
DsRelayComplete ==
    LET l == <<DsX, 0>>
    IN  /\ DsNext1(l, "reply")
        /\ dsWire' = DsSent(DsTail(l), 0, <<Head(dsWire[l])>>)
        /\ UNCHANGED <<dsAt, dsExt, dsRooms, dsEnded, dsTodo, dsAsks, dsClock>>

\* prte_data_server
DsRequest(l) ==
    /\ DsNext1(l, "req") /\ ~DsRelayed(l)
    /\ DsBecomes(l[2], DsServe(dsAt[l[2]], Head(dsWire[l])), DsTail(l))
    /\ UNCHANGED <<dsExt, dsRooms, dsEnded, dsTodo, dsAsks, dsClock>>

\* pmix_server_keyval_client: whatever request is in the room is answered
DsKeyvalClient(l) ==
    /\ DsNext1(l, "reply") /\ l[1] # DsX
    /\ dsWire' = DsTail(l)
    /\ dsRooms' = [dsRooms EXCEPT ![l[2]][Head(dsWire[l]).room] = DsNoAsk]
    /\ UNCHANGED <<dsAt, dsExt, dsEnded, dsTodo, dsAsks, dsClock>>

\* lookup_timeout
DsLookupTimeout(s, i) ==
    LET rq == dsAt[s].pending[i]
    IN  /\ rq.call.timer
        /\ DsBecomes(s, [S |-> [dsAt[s] EXCEPT !.pending = RemoveAt(@, i)],
                         out |-> <<DsReply(rq, "TIMEOUT", {})>>],
                     dsWire)
        /\ UNCHANGED <<dsExt, dsRooms, dsEnded, dsTodo, dsAsks, dsClock>>

\* sweep: what was idle for the whole timeout goes, and the timer is armed
\* again while an item it applies to is left
DsSweep(s) ==
    LET subject == {k \in DsSlots(dsAt[s]) : DsTimeoutApplies(dsAt[s].store[k])}
        stale == {k \in subject : dsClock - dsAt[s].store[k].last >= DsTimeout}
    IN  /\ dsAt[s].sweep
        /\ dsAt' = [dsAt EXCEPT ![s] = [DsDropAll(@, stale) EXCEPT
                                          !.sweep = stale # subject]]
        /\ UNCHANGED <<dsExt, dsRooms, dsWire, dsEnded, dsTodo, dsAsks, dsClock>>

DsTick == dsClock < DsMaxClock /\ dsClock' = dsClock + 1
          /\ UNCHANGED <<dsAt, dsExt, dsRooms, dsWire, dsEnded, dsTodo, dsAsks>>

DsJob(p) == {q \in DsProcs : DsNspace[q] = DsNspace[p]}

DsAlso(r, procs, horizon) ==
    LET q == DsPurgeStore(r.S, procs, horizon)
    IN  [S |-> q.S, out |-> r.out \o q.out]

\* the master records the end of procs of one job: each process's own data
\* goes, then that of each application this completes, then the namespace's,
\* and every daemon is told the job is over
DsMasterTracks(procs, wire) ==
    LET known == dsEnded[0] \cup procs
        job == DsJob(CHOOSE p \in procs : TRUE)
        apps == {q \in job : \A x \in job : DsApp[x] = DsApp[q] => x \in known}
        r == DsAlso(DsPurgeStore(dsAt[0], procs, "proc"), apps, "app")
        far(horizon, who) ==
            IF job \cap {q \in DsProcs : DsNspace[q] \in dsExt.jobs} = {} \/ who = {}
            THEN <<>> ELSE <<[m |-> "purge", procs |-> who, horizon |-> horizon]>>
        w == [wire EXCEPT ![<<0, 0>>] = @ \o far("proc", procs) \o far("app", apps)]
    IN  /\ dsEnded' = [dsEnded EXCEPT ![0] = known]
        /\ IF job \subseteq known
           THEN DsBecomes(0, DsAlso(r, job, "nspace"),
                          [l \in DsLinks |->
                              IF l = <<0, 0>> THEN w[l] \o far("nspace", job)
                              ELSE IF l[1] = 0 /\ l[2] # DsX
                              THEN Append(w[l], [m |-> "cleanup", procs |-> job])
                              ELSE w[l]])
           ELSE DsBecomes(0, r, w)

\* track_procs TERMINATED at the process's own daemon; the daemon reports
\* when all its processes of the job have ended
DsProcEnds(p) ==
    LET d == DsDaemon[p]
        mine == {q \in DsJob(p) : DsDaemon[q] = d}
    IN  /\ DsIsNext(p) /\ Head(dsTodo[p]).op = "exit"
        /\ IF d = 0 THEN DsMasterTracks({p}, dsWire)
           ELSE /\ dsEnded' = [dsEnded EXCEPT ![d] = @ \cup {p}]
                /\ DsBecomes(d, DsPurgeStore(dsAt[d], {p}, "proc"),
                             IF mine \subseteq dsEnded[d] \cup {p}
                             THEN [dsWire EXCEPT ![<<d, 0>>] =
                                     Append(@, [m |-> "update", procs |-> mine])]
                             ELSE dsWire)
        /\ dsTodo' = [dsTodo EXCEPT ![p] = Tail(@)]
        /\ UNCHANGED <<dsExt, dsRooms, dsAsks, dsClock>>

DsUpdate(l) ==
    /\ DsNext1(l, "update")
    /\ DsMasterTracks(Head(dsWire[l]).procs, DsTail(l))
    /\ UNCHANGED <<dsExt, dsRooms, dsTodo, dsAsks, dsClock>>

\* PRTE_DAEMON_DVM_CLEANUP_JOB_CMD
DsCleanup(l) ==
    /\ DsNext1(l, "cleanup")
    /\ DsBecomes(l[2], DsPurgeStore(dsAt[l[2]], Head(dsWire[l]).procs, "nspace"),
                 DsTail(l))
    /\ UNCHANGED <<dsExt, dsRooms, dsEnded, dsTodo, dsAsks, dsClock>>

\* a purge for the external server: relayed like a request, and taken there.
\* It names no room, so its answer is ignored.
DsFarPurge(l) ==
    LET msg == Head(dsWire[l])
    IN  /\ DsNext1(l, "purge")
        /\ IF l[2] = 0
           THEN dsWire' = [DsTail(l) EXCEPT ![<<0, DsX>>] = Append(@, msg)] /\ dsAt' = dsAt
           ELSE DsBecomes(DsX, DsPurgeStore(dsAt[DsX], msg.procs, msg.horizon), DsTail(l))
        /\ UNCHANGED <<dsExt, dsRooms, dsEnded, dsTodo, dsAsks, dsClock>>

DsInit ==
    /\ dsAt = [d \in DsServers |-> [store |-> <<>>, pending |-> <<>>, sweep |-> FALSE,
                                    usage |-> [u \in DsUsers |-> 0]]]
    /\ dsRooms = [d \in DsDaemons |-> <<>>]
    /\ dsWire = [l \in DsLinks |-> <<>>]
    /\ dsEnded = [d \in DsDaemons |-> {}]
    /\ \E plan \in DsPlans : dsTodo = plan.todo /\ dsExt = [mode |-> plan.ext, jobs |-> {}]
    /\ dsAsks = 0 /\ dsClock = 0

DsHandler(l) ==
    \/ DsRequest(l) \/ DsRelay(l) \/ DsKeyvalClient(l)
    \/ DsUpdate(l) \/ DsCleanup(l) \/ DsFarPurge(l)

DsNext ==
    \/ \E p \in DsProcs : DsCall(p) \/ DsCallRefused(p) \/ DsProcEnds(p)
    \/ \E l \in DsLinks : DsHandler(l)
    \/ DsRelayComplete
    \/ \E s \in DsServers : DsSweep(s) \/ \E i \in DOMAIN dsAt[s].pending :
                                             DsLookupTimeout(s, i)
    \/ DsTick

DsSpec == DsInit /\ [][DsNext]_dsVars

-----------------------------------------------------------------------------

\* A request in a room of a daemon is owed exactly one answer: it is on its
\* way to the server, or parked there, or its answer is on the way back; and
\* an answer on the way back finds its own request in the room it names,
\* never one that took the room over.
DsOneAnswerEach ==
    LET carried == UNION {{<<l, i>> : i \in DOMAIN dsWire[l]} : l \in DsLinks}
        parked == UNION {{<<s, i>> : i \in DOMAIN dsAt[s].pending} : s \in DsServers}
    IN  /\ \A d \in DsDaemons : \A r \in DOMAIN dsRooms[d] :
              LET a == dsRooms[d][r].ask
              IN  a # 0 =>
                  Cardinality({x \in carried : LET m == dsWire[x[1]][x[2]]
                                  IN m.m \in {"req", "reply"} /\ m.ask = a})
                  + Cardinality({x \in parked : dsAt[x[1]].pending[x[2]].ask = a}) = 1
        /\ \A x \in carried :
              LET m == dsWire[x[1]][x[2]]
              IN  m.m = "reply" => dsRooms[m.to][m.room].ask = m.ask

\* No lookup stays parked once the store holds what it waits for: a publish
\* answers every parked request it completes, not only one.
DsNoneLeftWaiting ==
    \A s \in DsServers : \A i \in DOMAIN dsAt[s].pending :
        ~DsComplete(dsAt[s], dsAt[s].pending[i])

\* What a user is charged is what the server holds for it, and never more
\* than the cap, over every publish, replacement, eviction, read and purge.
DsChargedWhatIsHeld ==
    \A s \in DsServers : \A u \in DsUsers :
        LET mine == {k \in DsSlots(dsAt[s]) : DsUser[dsAt[s].store[k].owner] = u}
        IN  /\ dsAt[s].usage[u] = FoldSet(LAMBDA k, n : n + DsItemSize(dsAt[s].store[k]),
                                          0, mine)
            /\ DsMaxSize > 0 => dsAt[s].usage[u] <= DsMaxSize

\* While a store holds an item only the retention timeout can reclaim, the
\* sweep is armed.
DsSweepArmed ==
    \A s \in DsServers : DsTimeout > 0 =>
        \A k \in DsSlots(dsAt[s]) : DsTimeoutApplies(dsAt[s].store[k]) => dsAt[s].sweep

\* The data server's books: who is owed an answer, who must wait, who is charged
\* and what is due to expire.
DsSound == DsOneAnswerEach /\ DsNoneLeftWaiting /\ DsChargedWhatIsHeld /\ DsSweepArmed

=============================================================================

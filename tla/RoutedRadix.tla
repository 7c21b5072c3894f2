----------------------------- MODULE RoutedRadix -----------------------------
(***************************************************************************)
(* The routing state of one daemon (prte_rml_base, src/rml/routed_radix.c) *)
(* under every history of departures, returns and DVM growth it can be     *)
(* told of. Departures arrive in batches of any composition and order:     *)
(* from a lost connection (one rank), a failure or adoption notice, a      *)
(* shrink campaign, or the HNP's global broadcast. What the other daemons  *)
(* hold is derived: the place each of them would compute from the same     *)
(* failed set.                                                             *)
(***************************************************************************)
EXTENDS Integers, FiniteSets, Sequences

CONSTANTS
    radix,          \* fan-out of the routing tree
    radix2,         \* fan-out of the release tree
    InitDmns,       \* set of daemon counts the DVM may start with
    MaxDmns,        \* bound: the DVM grows to at most this many daemons
    MaxBatch,       \* bound: departures named by one notice
    MaxEvents       \* bound: departures and returns the daemon is told of

ASSUME RoutedRadixAssumption ==
    /\ radix \in Nat \ {0, 1} /\ radix2 \in Nat \ {0, 1}
    /\ InitDmns \subseteq 1 .. MaxDmns
    /\ MaxDmns \in Nat /\ MaxBatch \in Nat /\ MaxEvents \in Nat

VARIABLES
    me,             \* PRTE_PROC_MY_NAME->rank
    bootstrap,      \* prte_bootstrap_setup: a departed daemon may return
    n_dmns,         \* prte_rml_base.n_dmns
    failed,         \* failed_dmns
    global_failed,  \* global_failed_dmns
    dead,           \* dead_dmns: departures that are permanent
    absent,         \* absent_dmns: departures that may be undone
    revived,        \* revived_dmns
    num_procs,      \* size of the daemon job, ahead of n_dmns while new daemons start
    tree,           \* ancestors, lifeline, children and cur_node
    tree_version

vars == <<me, bootstrap, n_dmns, failed, global_failed, dead, absent, revived,
          num_procs, tree, tree_version>>

T  == INSTANCE RadixTree
TN == INSTANCE RadixTree WITH n_dmns <- num_procs
R2 == INSTANCE ReleaseTree WITH radix <- radix2

Ranks == 0 .. n_dmns - 1
Living == Ranks \ failed

\* The place daemon r computes from nothing but the failed set.
Recompute(r) == T!BuildTree(r, failed)

Init ==
    /\ n_dmns \in InitDmns
    /\ me \in 0 .. n_dmns - 1
    /\ bootstrap \in BOOLEAN
    /\ failed = {} /\ global_failed = {} /\ dead = {} /\ absent = {} /\ revived = {}
    /\ num_procs = n_dmns
    /\ tree = T!BuildTree(me, {})
    /\ tree_version = 0

(***************************************************************************)
(* prte_rml_repair_routing_tree. A global notice first marks its ranks     *)
(* globally failed and then runs the local pass, which screens out the     *)
(* ranks already known; with no new rank the local pass changes nothing.   *)
(***************************************************************************)

\* Mutant of LocalRepair: a rank that is named again is counted again.
CountEveryRank(ranks) ==
    LET new == ranks \ failed
    IN  /\ failed' = failed \cup new
        /\ dead' = IF bootstrap THEN dead ELSE dead \cup new
        /\ absent' = IF bootstrap THEN absent \cup new ELSE absent
        /\ revived' = revived \ new
        /\ tree_version' = tree_version + Cardinality(ranks)
        /\ tree' = IF new = {} THEN tree ELSE T!RepairTree(me, failed', tree)

LocalRepair(ranks) ==
    LET new == ranks \ failed
    IN  /\ failed' = failed \cup new
        /\ dead' = IF bootstrap THEN dead ELSE dead \cup new
        /\ absent' = IF bootstrap THEN absent \cup new ELSE absent
        /\ revived' = revived \ new
        /\ tree_version' = tree_version + Cardinality(new)
        /\ tree' = IF new = {} THEN tree
                   ELSE T!RepairTree(me, failed', tree)

Repair(ranks, global) ==
    /\ tree_version + Cardinality(ranks) <= MaxEvents
    /\ global_failed' = IF global THEN global_failed \cup ranks ELSE global_failed
    /\ UNCHANGED <<me, bootstrap, n_dmns, num_procs>>
    /\ LocalRepair(ranks)

\* Mutant of Revive: the tree is repaired in place, not rebuilt from its base.
ReviveInPlace(rank) ==
    /\ tree_version < MaxEvents
    /\ rank \in absent
    /\ tree_version' = tree_version + 1
    /\ failed' = failed \ {rank}
    /\ global_failed' = global_failed \ {rank}
    /\ absent' = absent \ {rank}
    /\ revived' = revived \cup {rank}
    /\ tree' = T!RepairTree(me, failed \ {rank}, tree)
    /\ UNCHANGED <<me, bootstrap, n_dmns, num_procs, dead>>

\* prte_rml_revive_routing_tree: only an absent rank can return.
Revive(rank) ==
    /\ tree_version < MaxEvents
    /\ rank \in absent
    /\ tree_version' = tree_version + 1
    /\ failed' = failed \ {rank}
    /\ global_failed' = global_failed \ {rank}
    /\ absent' = absent \ {rank}
    /\ revived' = revived \cup {rank}
    /\ tree' = T!BuildTree(me, failed \ {rank})
    /\ UNCHANGED <<me, bootstrap, n_dmns, num_procs, dead>>

\* New daemons join the daemon job (the launcher's virtual machine setup).
AddDaemons(n) ==
    /\ n > num_procs
    /\ num_procs' = n
    /\ UNCHANGED <<me, bootstrap, n_dmns, failed, global_failed, dead, absent,
                   revived, tree, tree_version>>

\* Mutant of ComputeRoutingTree: only the permanent departures are restored.
ComputeWithoutAbsent(departed) ==
    /\ n_dmns' = num_procs
    /\ failed' = departed \ absent'
    /\ global_failed' = departed \cap global_failed
    /\ tree' = TN!BuildTree(me, departed)

\* prte_rml_compute_routing_tree, for the departures now on record: the failed
\* sets are wiped and restored from the persistent ones.
ComputeRoutingTree(departed) ==
    /\ n_dmns' = num_procs
    /\ failed' = departed
    /\ global_failed' = departed \cap global_failed
    /\ tree' = TN!BuildTree(me, departed)

\* prte_util_decode_nidmap (and, with no holes, the launcher at the HNP): the
\* span of ranks has grown; a new rank the map names no daemon for is a hole.
DecodeNidmap(holes) ==
    /\ n_dmns # num_procs
    /\ tree_version + Cardinality(holes) <= MaxEvents
    /\ dead' = IF bootstrap THEN dead ELSE dead \cup holes
    /\ absent' = IF bootstrap THEN absent \cup holes ELSE absent
    /\ ComputeRoutingTree(dead \cup absent \cup holes)
    /\ UNCHANGED <<me, bootstrap, num_procs, revived, tree_version>>

\* The HNP is never reported departed (its loss ends the DVM), nor is a daemon
\* ever told of its own departure.
Batches == {B \in SUBSET (Ranks \ {0, me}) : Cardinality(B) \in 1 .. MaxBatch}

Next ==
    \/ \E B \in Batches, global \in BOOLEAN : Repair(B, global)
    \/ \E r \in Ranks : Revive(r)
    \/ \E n \in 1 .. MaxDmns : AddDaemons(n)
    \/ \E holes \in SUBSET (n_dmns .. num_procs - 1) : DecodeNidmap(holes)

Spec == Init /\ [][Next]_vars

------------------------------------------------------------------------------
(***************************************************************************)
(* Properties.                                                             *)
(***************************************************************************)
\* The ranks in the failed set, the lineage and the child slots are ranks of this
\* DVM, and neither the HNP nor the daemon itself is ever on record as failed.
TypeOK ==
    /\ n_dmns \in 1 .. MaxDmns /\ me \in Ranks /\ bootstrap \in BOOLEAN
    /\ failed \subseteq Ranks \ {0, me}
    /\ tree_version \in 0 .. MaxEvents
    /\ \A i \in DOMAIN tree.ancestors : tree.ancestors[i] \in Ranks
    /\ DOMAIN tree.children = 0 .. radix - 1
    /\ \A i \in DOMAIN tree.children :
            tree.children[i] \in Ranks \cup {T!Invalid}

\* The three books of departures stay consistent through every notice, return
\* and recompute: a rank is failed exactly when it is on record as dead or
\* absent, never both, and only a failed rank is globally confirmed. A
\* departure the HNP broadcast before a grow is still known as broadcast.
DepartureBooksAgree ==
    /\ failed = dead \cup absent
    /\ dead \cap absent = {}
    /\ global_failed \subseteq failed
    /\ revived \cap failed = {}

\* The lineage a daemon holds after repairing its tree notice by notice is the
\* one it would compute from nothing: it depends on the failed set alone, not
\* on the order, the batching or the repetition of the news, nor on the returns
\* and recomputes in between. Parent (lifeline) and depth follow.
LineageIsPathIndependent == tree.ancestors = Recompute(me).ancestors

\* Every daemon this one lists as a child is alive, and names this daemon as
\* its own parent: nothing is ever sent down to a daemon that has another
\* parent, nor to one that has departed.
ListedChildrenAreMine ==
    \A i \in DOMAIN tree.children :
        tree.children[i] # T!Invalid =>
            /\ tree.children[i] \in Living
            /\ T!Lifeline(Recompute(tree.children[i])) = me

\* The converse, which a broadcast needs: every live daemon whose parent is this
\* daemon is among its children. The code's comment on what a repair does ("a
\* dead node is replaced by the next living one in its subtree") says so.
\* It does not hold: see the README on where the code disagrees.
MyChildrenAreListed ==
    \A r \in Living : T!Lifeline(Recompute(r)) = me =>
        \E i \in DOMAIN tree.children : tree.children[i] = r

\* A message for any live daemon gets there: each hop taken by the daemons'
\* freshly computed tables is to a live daemon, and the hops end at the target.
RoutesReachTheirTarget ==
    LET hop == [u, t \in Living |-> T!GetRoute(u, Recompute(u), t)]
        arrives[u \in Living, t \in Living, left \in 0 .. n_dmns] ==
            u = t \/ (left > 0 /\ hop[u, t] \in Living /\ arrives[hop[u, t], t, left - 1])
    IN  \A t \in Living : arrives[me, t, n_dmns]

\* The release tree every daemon derives for itself is one tree: this daemon lists
\* another as a child exactly when that one names it as its parent, and from it
\* live parents lead to the HNP. (It is any daemon of the DVM.)
ReleaseTreeSpansTheLiving ==
    LET par == [r \in Living |-> R2!ReleaseParent(failed, r)]
        rooted[r \in Living, left \in 0 .. n_dmns] ==
            r = 0 \/ (left > 0 /\ par[r] \in Living /\ rooted[par[r], left - 1])
    IN  /\ rooted[me, n_dmns]
        /\ R2!ReleaseChildren(failed, me) = {c \in Living \ {0} : par[c] = me}

\* The tree version counts ranks, not notices: every departure or return a
\* daemon is notified of moves it by one, told singly or in a batch, once or
\* repeatedly. It never goes back, though a return makes the failed set shrink.
VersionCountsTheNews ==
    [][/\ tree_version' >= tree_version
       /\ n_dmns' = n_dmns => tree_version' - tree_version =
            Cardinality((failed \ failed') \cup (failed' \ failed))]_vars

==============================================================================

-------------------------- MODULE RoutedRadixProofs --------------------------
(***************************************************************************)
(* What a daemon's departure records satisfy in every DVM, of any size and *)
(* radix, under every history of notices, returns and recomputes. None of  *)
(* it depends on the shape of the tree, which the proofs never look into.  *)
(***************************************************************************)
EXTENDS RoutedRadix, FiniteSetTheorems, TLAPS

\* Which of the two persistent records a departure goes to is settled by how
\* the DVM was started; without this DepartureBooksAgree is not inductive, for
\* a failed set split over both records could lose a rank to a return.
RecordedByMode ==
    /\ bootstrap \in BOOLEAN
    /\ bootstrap => dead = {}
    /\ ~bootstrap => absent = {}

\* A returned rank is one of the ranks the tree spans, so that a hole among
\* the ranks a grow adds is never one of them.
RevivedInSpan ==
    /\ n_dmns \in Nat /\ num_procs \in Nat /\ n_dmns <= num_procs
    /\ revived \subseteq Ranks

BooksInv == DepartureBooksAgree /\ RecordedByMode /\ RevivedInSpan

\* The books are consistent when a daemon starts, and no operation on them
\* (a local or global notice, a return, a recompute) makes them disagree.
LEMMA BooksInvStep == BooksInv /\ [Next]_vars => BooksInv'
<1> SUFFICES ASSUME BooksInv, [Next]_vars PROVE BooksInv'
    OBVIOUS
<1> USE DEF BooksInv, DepartureBooksAgree, RecordedByMode, RevivedInSpan, Ranks
<1>1. ASSUME NEW B \in Batches, NEW global \in BOOLEAN, Repair(B, global)
      PROVE  BooksInv'
    BY <1>1 DEF Repair, LocalRepair
<1>2. ASSUME NEW r \in Ranks, Revive(r)
      PROVE  BooksInv'
    BY <1>2 DEF Revive
<1>3. ASSUME NEW n \in 1 .. MaxDmns, AddDaemons(n)
      PROVE  BooksInv'
    BY <1>3 DEF AddDaemons
<1>4. ASSUME NEW holes \in SUBSET (n_dmns .. num_procs - 1), DecodeNidmap(holes)
      PROVE  BooksInv'
  <2>1. /\ n_dmns' = num_procs /\ num_procs' = num_procs
        /\ failed' = dead \cup absent \cup holes
        /\ global_failed' = failed' \cap global_failed
        /\ dead' = (IF bootstrap THEN dead ELSE dead \cup holes)
        /\ absent' = (IF bootstrap THEN absent \cup holes ELSE absent)
        /\ revived' = revived /\ bootstrap' = bootstrap
      BY <1>4 DEF DecodeNidmap, ComputeRoutingTree
  <2>2. holes \cap revived = {}
      OBVIOUS
  <2>3. DepartureBooksAgree' /\ RecordedByMode'
      BY <2>1, <2>2
  <2>4. RevivedInSpan'
      BY <2>1
  <2> QED
      BY <2>3, <2>4
<1>5. CASE UNCHANGED vars
    BY <1>5 DEF vars
<1> QED
    BY <1>1, <1>2, <1>3, <1>4, <1>5 DEF Next

\* A rank is failed exactly when it is on record as departed, a globally
\* confirmed departure is a known one, and a returned rank is not failed, at
\* every moment of every run of a daemon.
THEOREM DepartureBooksAlwaysAgree == Spec => []DepartureBooksAgree
<1>1. Init => BooksInv
    BY RoutedRadixAssumption DEF Init, BooksInv, DepartureBooksAgree, RecordedByMode,
                                 RevivedInSpan
<1>2. BooksInv => DepartureBooksAgree
    BY DEF BooksInv
<1> QED
    BY <1>1, <1>2, BooksInvStep, PTL DEF Spec

------------------------------------------------------------------------------
\* The ranks that become failed or stop being failed in a step.
News == (failed \ failed') \cup (failed' \ failed)

VersionIsCount == n_dmns \in Nat /\ num_procs \in Nat /\ tree_version \in Nat

CountStep ==
    /\ tree_version' >= tree_version
    /\ n_dmns' = n_dmns => tree_version' - tree_version = Cardinality(News)

\* The ranks a notice names are finitely many, for they are ranks of the DVM.
LEMMA BatchesAreFinite ==
    ASSUME VersionIsCount, NEW B \in Batches
    PROVE  IsFiniteSet(B \ failed) /\ Cardinality(B \ failed) \in Nat
<1>1. IsFiniteSet(Ranks)
    BY FS_Interval DEF VersionIsCount, Ranks
<1>2. B \ failed \subseteq Ranks
    BY DEF Batches
<1> QED
    BY <1>1, <1>2, FS_Subset, FS_CardinalityType

\* A notice moves the version by the number of ranks in it that are news, a
\* return by one, and nothing else by anything.
LEMMA CountsEveryStep ==
    ASSUME BooksInv, VersionIsCount, [Next]_vars
    PROVE  VersionIsCount' /\ CountStep
<1> USE DEF VersionIsCount, CountStep
<1>1. ASSUME NEW B \in Batches, NEW global \in BOOLEAN, Repair(B, global)
      PROVE  VersionIsCount' /\ CountStep
  <2>1. /\ tree_version' = tree_version + Cardinality(B \ failed)
        /\ failed' = failed \cup (B \ failed)
        /\ n_dmns' = n_dmns /\ num_procs' = num_procs
      BY <1>1 DEF Repair, LocalRepair
  <2>2. News = B \ failed
      BY <2>1 DEF News
  <2>3. Cardinality(B \ failed) \in Nat
      BY BatchesAreFinite
  <2> QED
      BY <2>1, <2>2, <2>3
<1>2. ASSUME NEW r \in Ranks, Revive(r)
      PROVE  VersionIsCount' /\ CountStep
  <2>1. /\ tree_version' = tree_version + 1 /\ failed' = failed \ {r}
        /\ n_dmns' = n_dmns /\ num_procs' = num_procs
      BY <1>2 DEF Revive
  <2>2. News = {r}
      BY <1>2, <2>1 DEF News, Revive, BooksInv, DepartureBooksAgree
  <2> QED
      BY <2>1, <2>2, FS_Singleton
<1>3. ASSUME NEW n \in 1 .. MaxDmns, AddDaemons(n)
      PROVE  VersionIsCount' /\ CountStep
  <2>1. News = {} /\ tree_version' = tree_version /\ n_dmns' = n_dmns /\ num_procs' = n
      BY <1>3 DEF AddDaemons, News
  <2> QED
      BY <2>1, FS_EmptySet
<1>4. ASSUME NEW holes \in SUBSET (n_dmns .. num_procs - 1), DecodeNidmap(holes)
      PROVE  VersionIsCount' /\ CountStep
    BY <1>4 DEF DecodeNidmap, ComputeRoutingTree
<1>5. CASE UNCHANGED vars
  <2>1. News = {} /\ UNCHANGED <<tree_version, n_dmns, num_procs>>
      BY <1>5 DEF vars, News
  <2> QED
      BY <2>1, FS_EmptySet
<1> QED
    BY <1>1, <1>2, <1>3, <1>4, <1>5 DEF Next

\* The version of a daemon's trees is the number of departures and returns it
\* was notified of, each counted once however the news was batched or repeated,
\* and it never goes back.
THEOREM VersionAlwaysCountsTheNews == Spec => VersionCountsTheNews
<1>1. Init => BooksInv /\ VersionIsCount
    BY RoutedRadixAssumption DEF Init, BooksInv, DepartureBooksAgree, RecordedByMode,
                                 RevivedInSpan, VersionIsCount
<1>2. BooksInv /\ VersionIsCount /\ [Next]_vars => (BooksInv /\ VersionIsCount)'
    BY BooksInvStep, CountsEveryStep
<1>3. BooksInv /\ VersionIsCount /\ [Next]_vars => [CountStep]_vars
    BY CountsEveryStep
<1>4. [][CountStep]_vars => VersionCountsTheNews
    BY DEF VersionCountsTheNews, CountStep, News
<1> QED
    BY <1>1, <1>2, <1>3, <1>4, PTL DEF Spec

------------------------------------------------------------------------------
\* What the wiping and restoring of the failed sets by a recompute must not do: a
\* permanent departure stands for ever, and any other departure, and the HNP's
\* confirmation of it, until the very step that brings the daemon back.
DeparturesStand ==
    [][/\ dead \subseteq dead'
       /\ failed \ failed' \subseteq revived' \ revived
       /\ global_failed \ global_failed' \subseteq revived' \ revived]_vars

StandStep ==
    /\ dead \subseteq dead'
    /\ failed \ failed' \subseteq revived' \ revived
    /\ global_failed \ global_failed' \subseteq revived' \ revived

\* No action of the daemon takes back a departure otherwise.
LEMMA EveryStepStands == BooksInv /\ [Next]_vars => StandStep
<1> SUFFICES ASSUME BooksInv, [Next]_vars PROVE StandStep
    OBVIOUS
<1> USE DEF BooksInv, DepartureBooksAgree, StandStep
<1>1. ASSUME NEW B \in Batches, NEW global \in BOOLEAN, Repair(B, global)
      PROVE  StandStep
    BY <1>1 DEF Repair, LocalRepair
<1>2. ASSUME NEW r \in Ranks, Revive(r)
      PROVE  StandStep
    BY <1>2 DEF Revive
<1>3. ASSUME NEW n \in 1 .. MaxDmns, AddDaemons(n)
      PROVE  StandStep
    BY <1>3 DEF AddDaemons
<1>4. ASSUME NEW holes \in SUBSET (n_dmns .. num_procs - 1), DecodeNidmap(holes)
      PROVE  StandStep
    BY <1>4 DEF DecodeNidmap, ComputeRoutingTree
<1>5. CASE UNCHANGED vars
    BY <1>5 DEF vars
<1> QED
    BY <1>1, <1>2, <1>3, <1>4, <1>5 DEF Next

\* No history of notices, returns and recomputes loses a departure, or the HNP's
\* confirmation of one, in any other way than by the daemon's return.
THEOREM DeparturesAlwaysStand == Spec => DeparturesStand
<1>1. Init => BooksInv
    BY RoutedRadixAssumption DEF Init, BooksInv, DepartureBooksAgree, RecordedByMode,
                                 RevivedInSpan
<1>2. BooksInv /\ [Next]_vars => [StandStep]_vars
    BY EveryStepStands
<1>3. [][StandStep]_vars => DeparturesStand
    BY DEF DeparturesStand, StandStep
<1> QED
    BY <1>1, <1>2, <1>3, BooksInvStep, PTL DEF Spec
==============================================================================

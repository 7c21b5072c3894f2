----------------------------- MODULE MapPolicy -----------------------------
(***************************************************************************)
(* How the mapper settles what a job asked for: the directives on the      *)
(* command line (rmaps_base_frame.c), what a spawned job inherits from its *)
(* parent or from the DVM's defaults, and the options the mappers work     *)
(* from (rmaps_base_map_job.c).                                            *)
(*                                                                         *)
(* Levels are the binding policies' numbers, which are also the depth      *)
(* order the code compares: 1 none (the machine), 2 package, 3 NUMA,       *)
(* 4 L3, 5 L2, 6 L1, 7 core, 8 hardware thread.                            *)
(***************************************************************************)
EXTENDS Integers, Sequences, FiniteSets, SequencesExt

PoBynode == 1
PoBynuma == 2
PoBypackage == 3
PoBycore == 7
PoByhwthread == 8
PoByslot == 9
PoBydevice == 10
PoPelist == 11
PoRR == 16
PoSeq == 20
PoColocate == 21
PoByuser == 22
PoPPR == 23

PoRankNode == 1
PoRankSlot == 2
PoRankFill == 3
PoRankSpan == 4
PoRankUser == 5

PoNone == 1
PoPackage == 2
PoNuma == 3
PoCore == 7
PoHwthread == 8

\* the level a mapping policy by object names
PoLevelOf(m) ==
  CASE m = PoBynuma -> PoNuma
    [] m = PoBypackage -> PoPackage
    [] m \in 4 .. 8 -> m
    [] OTHER -> PoNone

\* and the policy that maps by the objects of a level
PoMapOf(lvl) ==
  CASE lvl = PoNone -> PoByslot
    [] lvl = PoNuma -> PoBynuma
    [] lvl = PoPackage -> PoBypackage
    [] OTHER -> lvl

PoByObject(m) == PoBynuma <= m /\ m <= PoByhwthread

\* a binding word: policy, BIND_GIVEN, IF_SUPPORTED, ALLOW_OVERLOAD, OVERLOAD_GIVEN
PoNoBinding == [pol |-> 0, set |-> FALSE, ifsup |-> FALSE, over |-> FALSE, overset |-> FALSE]

\* an app with no directive of its own
PoPlainApp ==
  [np |-> 0, computed |-> FALSE, mapby |-> FALSE, map |-> 0, dir |-> {}, rank |-> 0,
   bindto |-> FALSE, bind |-> PoNoBinding, pes |-> 0, cpus |-> "any", cpuset |-> <<>>,
   ppr |-> <<>>, file |-> <<>>, limit |-> 0, hosts |-> <<>>, dev |-> "", shared |-> FALSE,
   ndev |-> 0, interleave |-> 0, inherit |-> FALSE, noinherit |-> FALSE]

\* a job with no directive of its own
PoPlainJob ==
  [map |-> 0, dir |-> {}, rank |-> 0, bind |-> PoNoBinding, pes |-> 0, cpus |-> "any",
   cpuset |-> <<>>, ppr |-> <<>>, file |-> <<>>, limit |-> 0, dev |-> "", shared |-> FALSE,
   ndev |-> 0, interleave |-> 0, inherit |-> FALSE, noinherit |-> FALSE, parent |-> 0,
   bookmark |-> 0, coloc |-> [by |-> "none", daemons |-> FALSE, targets |-> <<>>, num |-> 0],
   apps |-> <<>>]

---------------------------------------------------------------------------
(* Directives: a mapping specification is a policy and a sequence of        *)
(* modifiers, each [m |-> name, v |-> value].                               *)

\* what a modifier may not follow
PoConflicts(m) ==
  CASE m = "oversub" -> "noover"
    [] m = "noover" -> "oversub"
    [] m = "inherit" -> "noinherit"
    [] m = "noinherit" -> "inherit"
    [] m = "hwtcpus" -> "corecpus"
    [] m = "corecpus" -> "hwtcpus"
    [] OTHER -> ""

\* modifiers that cannot be a DVM-wide default
PoNotADefault == {"ordered", "interleave", "ndev", "shared"}

\* check_modifiers: t is the record (job, app or default) the modifiers are left in
PoModifier(t, mod, who, havecores) ==
  CASE mod.m = "span" -> [t EXCEPT !.dir = @ \cup {"span", "given"}]
    [] mod.m = "oversub" -> [t EXCEPT !.dir = (@ \ {"noover"}) \cup {"subscribe"}]
    [] mod.m = "noover" -> [t EXCEPT !.dir = @ \cup {"noover", "subscribe"}]
    [] mod.m = "nolocal" -> [t EXCEPT !.dir = @ \cup {"nolocal"}]
    [] mod.m = "ordered" -> [t EXCEPT !.dir = @ \cup {"ordered"}]
    [] mod.m = "pe" -> [t EXCEPT !.pes = mod.v]
    [] mod.m = "inherit" -> [t EXCEPT !.inherit = TRUE]
    [] mod.m = "noinherit" -> IF who = "default" THEN [t EXCEPT !.inherit = FALSE]
                              ELSE [t EXCEPT !.noinherit = TRUE]
    [] mod.m = "hwtcpus" -> [t EXCEPT !.cpus = "hwt"]
    [] mod.m = "corecpus" -> [t EXCEPT !.cpus = IF havecores THEN "core" ELSE "hwt"]
    [] mod.m = "file" -> [t EXCEPT !.file = mod.v]
    [] mod.m = "interleave" -> [t EXCEPT !.interleave = mod.v]
    [] mod.m = "ndev" -> [t EXCEPT !.ndev = mod.v]
    [] mod.m = "shared" -> [t EXCEPT !.shared = TRUE]

PoModifiersAllowed(mods, who) ==
  /\ \A i, k \in DOMAIN mods : mods[i].m # PoConflicts(mods[k].m)
  /\ who = "default" => \A i \in DOMAIN mods : mods[i].m \notin PoNotADefault

PoApplyModifiers(t, mods, who, havecores) ==
  FoldLeft(LAMBDA acc, mod : PoModifier(acc, mod, who, havecores), t, mods)

\* the policy word a name stands for; a machine without cores maps by thread
PoNamed(pol, havecores) ==
  IF pol = PoBycore /\ ~havecores THEN PoByhwthread ELSE pol

\* set_mapping_policy.  A specification of modifiers alone has pol = 0, and only SPAN then
\* marks it as given.  The directives go to a fresh word, so an earlier specification's are
\* lost.  m is the record with the modifiers applied.
PoRefused(m, pol, who) ==
  \/ who = "default" /\ pol \in {PoPelist, PoBydevice}
  \/ pol = PoByuser /\ m.file = <<>>
  \/ pol # PoBydevice /\ (m.interleave # 0 \/ m.shared \/ m.ndev # 0)

PoWithPolicy(m, pol, val, havecores) ==
  [m EXCEPT !.map = PoNamed(pol, havecores),
            !.dir = IF pol = 0 THEN @ ELSE @ \cup {"given"},
            !.cpus = IF pol = PoByhwthread THEN "hwt" ELSE @,
            !.ppr = IF pol = PoPPR THEN val ELSE @,
            !.cpuset = IF pol = PoPelist THEN val ELSE @,
            !.dev = IF pol = PoBydevice THEN val ELSE @]

PoPolicySet(t, m, pol, val, who, havecores) ==
  IF PoRefused(m, pol, who) THEN [rc |-> "silent", t |-> t]
  ELSE [rc |-> "ok", t |-> PoWithPolicy(m, pol, val, havecores)]

PoSetMapping(t, pol, val, mods, who, base) ==
  IF ~PoModifiersAllowed(mods, who) THEN [rc |-> "silent", t |-> t]
  ELSE PoPolicySet(t, PoApplyModifiers([t EXCEPT !.dir = {}], mods, who, base.havecores), pol, val,
                   who, base.havecores)

\* set_app_mapping_policy: the same for one app, which has a mapping of its own from then on;
\* its rankfile falls back on the DVM's
PoAppFile(app, pol, base) ==
  IF pol = PoByuser /\ app.file = <<>> THEN [app EXCEPT !.file = base.file] ELSE app

PoSetAppMapping(app, pol, val, mods, base) ==
  IF ~PoModifiersAllowed(mods, "app") THEN [rc |-> "silent", t |-> app]
  ELSE PoPolicySet(app, PoAppFile(PoApplyModifiers([app EXCEPT !.dir = {}, !.mapby = TRUE], mods,
                                                   "app", base.havecores), pol, base),
                   pol, val, "app", base.havecores)

\* set_binding_policy for a job and set_app_binding_policy
PoSetBinding(t, lvl, quals, havecores) ==
  [t EXCEPT !.bind = [pol |-> IF lvl = PoCore /\ ~havecores THEN PoHwthread ELSE lvl,
                      set |-> TRUE, ifsup |-> "ifsup" \in quals, over |-> "over" \in quals,
                      overset |-> quals \cap {"over", "noover"} # {}]]

---------------------------------------------------------------------------
(* The job-wide directives an app may carry *)

PoSays(d) == IF "noover" \in d THEN "noover" ELSE "over"

\* hoist_job_directives: the apps must agree with the job and with one another
PoHoistApp(acc, i) ==
  LET J == acc.J
      app == J.apps[i]
      subscribes == app.mapby /\ "subscribe" \in app.dir
      says == PoSays(app.dir)
      left == app.dir \ {"subscribe", "noover"}
  IN IF acc.rc # "ok" THEN acc
     ELSE IF subscribes /\ acc.over \notin {"", says} THEN [acc EXCEPT !.rc = "silent"]
     ELSE IF app.inherit /\ J.noinherit THEN [acc EXCEPT !.rc = "silent"]
     ELSE IF app.noinherit /\ (J.inherit \/ app.inherit) THEN [acc EXCEPT !.rc = "silent"]
     ELSE [rc |-> "ok",
           over |-> IF subscribes THEN says ELSE acc.over,
           J |-> [J EXCEPT !.inherit = @ \/ app.inherit, !.noinherit = @ \/ app.noinherit,
                           !.apps[i] = [app EXCEPT !.inherit = FALSE, !.noinherit = FALSE,
                             !.dir = IF subscribes THEN left ELSE @,
                             !.mapby = @ /\ (subscribes => left # {} \/ app.map # 0)]]]

PoHoist(J) ==
  FoldLeft(PoHoistApp,
           [rc |-> "ok", J |-> J, over |-> IF "subscribe" \in J.dir THEN PoSays(J.dir) ELSE ""],
           [i \in DOMAIN J.apps |-> i])

---------------------------------------------------------------------------
(* Inheritance *)

PoTool == -1

\* Whom a job spawned by a process takes its policies from.  up is the parent's job, or
\* the plain job when there is none; parent is 0 when there is none or it is unknown.  The statement that would pass INHERIT on to the
\* child (line 824) has its key and flag arguments exchanged, so the child's own
\* attribute is not set.
PoInherits(J, up, base) ==
  IF J.parent = 0 THEN [yes |-> TRUE, from |-> FALSE]
  ELSE IF J.parent = PoTool THEN [yes |-> FALSE, from |-> FALSE]
  ELSE IF up.inherit THEN [yes |-> TRUE, from |-> TRUE]
  ELSE IF up.noinherit THEN [yes |-> FALSE, from |-> FALSE]
  ELSE [yes |-> base.inherit, from |-> TRUE]

\* the binding is settled first, because the default mapping follows it
PoInheritBinding(J, up, in, base) ==
  IF J.bind.set \/ ~in.yes THEN [J |-> J, taken |-> FALSE]
  ELSE IF in.from THEN [J |-> [J EXCEPT !.bind = up.bind], taken |-> TRUE]
  ELSE IF base.bind.set THEN [J |-> [J EXCEPT !.bind = base.bind], taken |-> TRUE]
  ELSE [J |-> J, taken |-> FALSE]

PoPick(mine, its, dflt, unset) ==
  IF mine # unset THEN mine ELSE IF its # unset THEN its ELSE dflt

\* set_default_mapping.  The options have counted no process yet (nprocs is 0 here), and
\* cpus_per_rank is set only where the DVM's default supplied it.
PoDefaultMapping(J, pes, hwt) ==
  [J EXCEPT !.map =
     IF pes > 1 THEN PoByslot
     ELSE IF J.bind.set THEN PoMapOf(J.bind.pol)
     ELSE IF hwt THEN PoByhwthread ELSE PoBycore]

\* the mapping policy, with the attributes that travel with it
PoInheritMapping(J, up, in, base) ==
  IF J.map # 0 THEN J
  ELSE IF ~in.yes THEN PoDefaultMapping(J, 0, FALSE)
  ELSE LET K == [J EXCEPT
             !.ppr = PoPick(@, IF in.from THEN up.ppr ELSE <<>>, base.ppr, <<>>),
             !.pes = PoPick(@, IF in.from THEN up.pes ELSE 0, base.pes, 0),
             !.cpus = PoPick(@, IF in.from THEN up.cpus ELSE "any", base.cpus, "any"),
             !.file = IF in.from THEN @ ELSE PoPick(@, <<>>, base.file, <<>>)]
       IN IF in.from THEN [K EXCEPT !.map = up.map, !.dir = up.dir]
          ELSE IF "given" \in base.dir THEN [K EXCEPT !.map = base.map, !.dir = base.dir]
          ELSE PoDefaultMapping(K, IF J.pes = 0 THEN base.pes ELSE 0, FALSE)

\* the oversubscription answer: the apps', then the parent's, then the DVM's
PoDecide(d, no, say) ==
  (IF no THEN d \cup {"noover"} ELSE d \ {"noover"}) \cup (IF say THEN {"subscribe"} ELSE {})

PoAgree(J, up, in, hoisted) ==
  LET a == IF hoisted = "" THEN J.dir ELSE PoDecide(J.dir, hoisted = "noover", TRUE)
      b == IF in.from /\ "subscribe" \notin a
           THEN PoDecide(a, "noover" \in up.dir, "noover" \notin up.dir) ELSE a
  IN [J EXCEPT !.dir = b]

\* no answer at all means no oversubscription
PoSubscribe(J, base) ==
  [J EXCEPT !.dir =
     IF "subscribe" \in @ THEN @
     ELSE IF "subscribe" \notin base.dir THEN @ \cup {"noover"}
     ELSE PoDecide(@, "noover" \in base.dir, "noover" \notin base.dir)]

PoUseLocal(J, in, base) ==
  IF base.onhead \/ (in.yes /\ "nolocal" \in base.dir)
  THEN [J EXCEPT !.dir = @ \cup {"nolocal"}] ELSE J

---------------------------------------------------------------------------
(* The options *)

\* derive_ranking, and set_ranking_policy without a specification
PoDeriveRanking(map, dir) ==
  CASE map = PoBynode -> PoRankNode
    [] map = PoByslot -> PoRankSlot
    [] map \notin {PoBynode, PoByslot} /\ "span" \in dir -> PoRankSpan
    [] PoByObject(map) /\ "span" \notin dir -> PoRankFill
    [] OTHER -> PoRankSlot

PoCpuLevel(hwt) == IF hwt THEN PoHwthread ELSE PoCore

\* derive_binding for an app, set_default_binding for a job: the app's asks for more than
\* one cpu per process, the job's for any number given
PoDeriveBinding(map, lvl, multi, hwt, nprocs, base) ==
  IF multi THEN PoCpuLevel(hwt \/ base.reqhwt)
  ELSE IF PoByObject(map) THEN PoLevelOf(map)
  ELSE IF map = PoPelist THEN PoCpuLevel(hwt)
  ELSE IF map = PoPPR /\ lvl # PoNone THEN lvl
  ELSE IF nprocs <= 2 THEN PoCpuLevel(hwt \/ base.reqhwt)
  ELSE PoNuma

PoDefaultBinding(J, o, base) ==
  [J EXCEPT !.bind.pol = PoDeriveBinding(J.map, o.lvl, J.pes # 0, o.hwt, o.nprocs, base),
            !.bind.ifsup = TRUE,
            !.bind.over = @ \/ (~J.bind.overset /\ base.bind.over)]

\* what a mapping policy makes of the object level (a per-resource mapping brings its own)
PoLevel(o) ==
  IF o.map \in {0, PoPPR} THEN o
  ELSE [o EXCEPT !.lvl = PoLevelOf(o.map), !.userranked = @ \/ o.map \in {PoByuser, PoSeq}]

\* a core cannot hold several cpus, nor a thread several threads
PoTooLow(o) ==
  o.pes > 1 /\ (o.map = PoByhwthread \/ (o.map = PoBycore /\ ~o.hwt))

PoMustMapByObj(o) ==
  o.rank \in {PoRankSpan, PoRankFill} /\ o.map # PoPPR /\ ~PoByObject(o.map)

PoBindUpwards(o) == o.lvl > o.bind /\ o.bind # PoNone

\* several cpus per process, and an ordered list, bind to cpus
PoCpusOnly(J, o) ==
  IF o.pes <= 1 /\ ~o.ordered THEN [rc |-> "ok", J |-> J, o |-> o]
  ELSE IF J.bind.set
  THEN [rc |-> IF o.bind \in {PoCore, PoHwthread} THEN "ok" ELSE "bad", J |-> J,
        o |-> [o EXCEPT !.hwt = (o.bind = PoHwthread)]]
  ELSE [rc |-> "ok", J |-> [J EXCEPT !.bind.pol = PoCpuLevel(o.hwt), !.bind.set = TRUE],
        o |-> [o EXCEPT !.bind = PoCpuLevel(o.hwt)]]

\* the options of a job before its mapping policy is read off (lines 1113-1164)
PoOptions(J, nprocs) ==
  [map |-> 0, lvl |-> IF J.ppr = <<>> THEN PoNone ELSE J.ppr[2], rank |-> 0, bind |-> 0,
   pes |-> IF J.pes = 0 THEN 1 ELSE J.pes, hwt |-> J.cpus = "hwt", overload |-> FALSE,
   oversub |-> "noover" \notin J.dir, span |-> FALSE, ordered |-> FALSE,
   userranked |-> FALSE, cpuset |-> J.cpuset, pprn |-> IF J.ppr = <<>> THEN 0 ELSE J.ppr[1],
   limit |-> J.limit, nprocs |-> nprocs, app |-> 0, start |-> 0, mapgiven |-> FALSE,
   dev |-> J.dev, shared |-> J.shared, ndev |-> J.ndev, interleave |-> J.interleave,
   hwb |-> PoNone, jcpus |-> {}, target |-> {}]

\* the ranking label onwards: ranking, binding and the checks between them
PoResolveRanking(J, up, in, base, o) ==
  IF o.userranked THEN [J EXCEPT !.rank = PoRankUser]
  ELSE IF J.rank # 0 THEN J
  ELSE IF in.yes /\ in.from THEN [J EXCEPT !.rank = up.rank]
  ELSE IF in.yes /\ base.rank # 0 THEN [J EXCEPT !.rank = base.rank]
  ELSE [J EXCEPT !.rank = PoDeriveRanking(J.map, J.dir)]

PoBound(o, bind, dir) ==
  [o EXCEPT !.bind = bind.pol, !.overload = bind.over, !.hwb = bind.pol, !.mapgiven = "given" \in dir]
PoChecked(J, o) ==
  IF PoTooLow(o) \/ PoMustMapByObj(o) \/ PoBindUpwards(o) \/ o.bind = 0
  THEN [rc |-> "silent", J |-> J, o |-> o]
  ELSE PoCpusOnly(J, o)
PoWithBinding(J, o) == PoChecked(J, PoBound(o, J.bind, J.dir))
PoWithRanking(J, o, base, taken) ==
  PoWithBinding(IF taken \/ J.bind.set THEN J ELSE PoDefaultBinding(J, o, base), o)
PoRankedJob(J, o, base, taken) == PoWithRanking(J, [o EXCEPT !.rank = J.rank], base, taken)
PoWithLevel(J, up, in, base, taken, o) ==
  PoRankedJob(PoResolveRanking(J, up, in, base, o), o, base, taken)

PoResolve(J, up, in, base, taken, opts) ==
  IF J.map = 0 THEN [rc |-> "bad", J |-> J, o |-> opts]
  ELSE PoWithLevel(J, up, in, base, taken,
                   PoLevel([opts EXCEPT !.map = J.map, !.span = "span" \in J.dir,
                                        !.ordered = "ordered" \in J.dir]))

\* resolve_app_options: the job's options overridden by the app's.  A mapping an app names
\* brings its own ranking and binding, as the job's would; the checks the job's options
\* pass (too low, upwards, by object, cpus only) are not made again.
PoAppBound(app, o, base) ==
  IF app.bindto
  THEN [o EXCEPT !.bind = app.bind.pol, !.overload = app.bind.over, !.hwb = app.bind.pol]
  ELSE IF app.mapby
  THEN LET pol == PoDeriveBinding(o.map, o.lvl, o.pes > 1, o.hwt, o.nprocs, base)
       IN [o EXCEPT !.bind = pol, !.hwb = pol]
  ELSE [o EXCEPT !.hwb = o.bind]
PoAppRank(app, o) ==
  IF app.rank # 0 THEN app.rank ELSE IF app.mapby THEN PoDeriveRanking(app.map, app.dir) ELSE o.rank
PoAppOptions(app, o, base) ==
  PoAppBound(app, [o EXCEPT
    !.lvl = IF o.map = PoPPR /\ app.ppr # <<>> THEN app.ppr[2] ELSE @,
    !.pprn = IF o.map = PoPPR /\ app.ppr # <<>> THEN app.ppr[1] ELSE @,
    !.pes = IF app.pes = 0 THEN @ ELSE app.pes,
    !.hwt = IF app.cpus = "any" THEN @ ELSE app.cpus = "hwt",
    !.cpuset = IF app.cpuset = <<>> THEN @ ELSE app.cpuset,
    !.dev = IF app.dev = "" THEN @ ELSE app.dev,
    !.interleave = IF app.interleave = 0 THEN @ ELSE app.interleave,
    !.shared = app.shared,
    !.ndev = IF app.ndev = 0 THEN @ ELSE app.ndev,
    !.limit = IF app.limit = 0 THEN @ ELSE app.limit,
    !.rank = PoAppRank(app, o)], base)

PoResolveApp(J, app, opts, base) ==
  PoAppOptions(app, IF ~app.mapby THEN opts
                    ELSE PoLevel([opts EXCEPT !.map = app.map, !.mapgiven = "given" \in app.dir,
                                   !.span = "span" \in app.dir, !.ordered = "ordered" \in app.dir]),
               base)
=============================================================================

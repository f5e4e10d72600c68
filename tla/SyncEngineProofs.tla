-------------------------- MODULE SyncEngineProofs --------------------------
(***************************************************************************)
(* Proofs about SyncEngine, for every catalogue, mapping and number of     *)
(* runs: types, the guard, the contract of SyncContract, that a sync never *)
(* destroys, and what an undisturbed one leaves.                           *)
(***************************************************************************)
EXTENDS SyncEngine, TLAPS

LEMMA IdleRunType == IdleRun \in Run
  BY DEF IdleRun, Run, Phases, NoPlan, NoChange, Change

\* What a merge writes on an individual is a Change.
LEMMA MergeChangeType ==
  ASSUME TypeOK, NEW r \in Runs, NEW c \in Classes, NEW e \in Present
  PROVE  MergeChange(r, c, e) \in Change
<1>1. e \in Entities /\ upstream[e] \in Contents
  BY DEF Present, TypeOK, Catalogues
<1>2. upstream[e] \in ContentType
  BY <1>1, ContentsAssumption
<1>3. ShapeOf[c] \in ShapeType /\ RefOf[e] \in Refs
  BY <1>1, ShapeOfAssumption, RefOfAssumption
<1>4. MappedValue(c, upstream[e]) \in Values \cup {Keep}
  BY <1>2, <1>3 DEF MappedValue, ContentType, Values
<1>5. RepresentsLink(r, c, upstream[e]) \in Targets \cup {None, Keep}
  BY <1>2 DEF RepresentsLink, ContentType, TypeOK, ConfigType
<1>6. QED
  BY <1>3, <1>4, <1>5 DEF MergeChange, Change

LEMMA MergedType ==
  ASSUME NEW g \in Individual, NEW ch \in Change
  PROVE  Merged(g, ch) \in Individual
  BY DEF Merged, Individual, Change

\* Executing well-typed ops leaves the store well-typed.
LEMMA ExecuteType ==
  ASSUME TypeOK, NEW ops \in Batch, Execute(ops)
  PROVE  /\ graph' \in [Individuals -> Individual]
         /\ declared' \subseteq Namespaces
         /\ masters' \subseteq Classes
<1>1. \A i \in Individuals : graph[i] \in Individual /\ ops.plan[i] \in Change
  BY DEF TypeOK, Batch
<1>2. \A i \in Individuals : Merged(graph[i], ops.plan[i]) \in Individual
  BY <1>1, MergedType
<1>3. QED
  BY <1>2 DEF Execute, TypeOK, Batch

LEMMA OpsType ==
  ASSUME TypeOK, NEW r \in Runs
  PROVE  Ops(r) \in Batch
  BY DEF Ops, TypeOK, Run, Batch

\* The end of a run, however it ends.
LEMMA ReturnType ==
  ASSUME TypeOK, NEW r \in Runs, NEW res \in {"ok", "error"}, Return(r, res)
  PROVE  /\ run' \in [Runs -> Run]
         /\ result' \in [Runs -> {"none", "ok", "error", "busy"}]
         /\ inFlight' \in BOOLEAN
         /\ quiet' \in [Runs -> BOOLEAN]
<1>1. IdleRun \in Run
  BY IdleRunType
<1>2. run' \in [Runs -> Run]
  BY <1>1 DEF Return, TypeOK
<1>3. result' \in [Runs -> {"none", "ok", "error", "busy"}]
  BY DEF Return, TypeOK
<1>4. inFlight' \in BOOLEAN
  BY DEF Return, TypeOK
<1>5. quiet' \in [Runs -> BOOLEAN]
  BY DEF Return, TypeOK
<1>6. QED
  BY <1>2, <1>3, <1>4, <1>5

\* The ops planned for one kind are well-typed.
LEMMA PlannedKindType ==
  ASSUME TypeOK, NEW r \in Runs, NEW k, NEW c \in Classes, NEW ns
  PROVE  PlannedKind(r, k, c, ns) \in [Individuals -> Change]
<1> DEFINE seen == {iri(ns, e) : e \in {x \in Present : KindOf[x] = k}}
<1>1. ASSUME NEW i \in Individuals, i \in seen
      PROVE  MergeChange(r, c, i[2]) \in Change
  <2>1. PICK e \in Present : i = iri(ns, e)
    BY <1>1
  <2>2. i[2] = e
    BY <2>1 DEF iri
  <2>3. QED
    BY <2>2, MergeChangeType
<1>2. ASSUME NEW i \in Individuals
      PROVE  /\ run[r].plan[i] \in Change
             /\ [run[r].plan[i] EXCEPT !.status = "flag"] \in Change
  <2>1. run[r].plan[i] \in Change
    BY DEF TypeOK, Run
  <2>2. QED
    BY <2>1 DEF Change
<1>3. QED
  BY <1>1, <1>2 DEF PlannedKind

\* The run-local steps keep the run's record well-typed.
LEMMA AdvanceType ==
  ASSUME TypeOK, NEW r \in Runs, Advance(r)
  PROVE  TypeOK'
<1>0. run[r] \in Run
  BY DEF TypeOK
<1>1. CASE ReadMapping(r)
  <2>1. PICK m \in KindMappings :
          run' = [run EXCEPT ![r].pc = "discover", ![r].mapping = m, ![r].represents = config.represents]
    BY <1>1 DEF ReadMapping
  <2>2. m \in [Kinds -> Classes \cup {None}] /\ config.represents \in BOOLEAN
    BY DEF KindMappings, TypeOK, ConfigType
  <2>3. [run[r] EXCEPT !.pc = "discover", !.mapping = m, !.represents = config.represents] \in Run
    BY <1>0, <2>2 DEF Run, Phases
  <2>4. run' \in [Runs -> Run]
    BY <2>1, <2>3 DEF TypeOK
  <2>5. QED
    BY <1>1, <2>4 DEF ReadMapping, TypeOK, world, store
<1>2. CASE DiscoverKinds(r)
  <2>1. {KindOf[e] : e \in Present} \subseteq Kinds
    BY KindOfAssumption DEF Present
  <2>2. {SourceNamespace} \ declared \subseteq Namespaces
    BY SourceNamespaceAssumption
  <2>3. [run[r] EXCEPT !.pc = "kinds", !.todo = {KindOf[e] : e \in Present},
                       !.declare = {SourceNamespace} \ declared] \in Run
    BY <1>0, <2>1, <2>2 DEF Run, Phases
  <2>4. run' \in [Runs -> Run]
    BY <1>2, <2>3 DEF TypeOK, DiscoverKinds
  <2>5. QED
    BY <1>2, <2>4 DEF DiscoverKinds, TypeOK, world, store
<1>3. ASSUME NEW k \in Kinds, SkipKind(r, k)
      PROVE  TypeOK'
  <2>1. [run[r] EXCEPT !.todo = @ \ {k}] \in Run
    BY <1>0 DEF Run
  <2>2. run' \in [Runs -> Run]
    BY <1>3, <2>1 DEF TypeOK, SkipKind
  <2>3. QED
    BY <1>3, <2>2 DEF SkipKind, TypeOK, world, store
<1>4. ASSUME NEW k \in Kinds, PlanKind(r, k)
      PROVE  TypeOK'
  <2> DEFINE c == run[r].mapping[k]
             ns == config.home[c]
             fetched == {e \in Present : KindOf[e] = k}
             rels == [i \in Individuals |->
                        IF i[1] = ns /\ i[2] \in fetched THEN upstream[i[2]].relations
                        ELSE run[r].relations[i]]
  <2>1. c \in Classes /\ ns \in Namespaces
    BY <1>0, <1>4 DEF PlanKind, Run, TypeOK, ConfigType
  <2>2. PlannedKind(r, k, c, ns) \in [Individuals -> Change]
    BY <2>1, PlannedKindType
  <2>3. rels \in [Individuals -> SUBSET Refs]
    <3>1. ASSUME NEW e \in fetched PROVE upstream[e].relations \in SUBSET Refs
      BY ContentsAssumption DEF Present, TypeOK, Catalogues, ContentType
    <3>2. \A i \in Individuals : run[r].relations[i] \in SUBSET Refs
      BY <1>0 DEF Run
    <3>3. QED
      BY <3>1, <3>2
  <2>4. run[r].declare \cup ({ns} \ declared) \subseteq Namespaces
    BY <1>0, <2>1 DEF Run
  <2>5. (IF fetched = {} THEN run[r].masters ELSE run[r].masters \cup {c}) \subseteq Classes
    BY <1>0, <2>1 DEF Run
  <2> DEFINE next == [run[r] EXCEPT
                        !.todo = @ \ {k},
                        !.plan = PlannedKind(r, k, c, ns),
                        !.relations = rels,
                        !.declare = @ \cup ({ns} \ declared),
                        !.masters = IF fetched = {} THEN @ ELSE @ \cup {c}]
  <2>6. next \in Run
    <3> HIDE DEF rels, c, ns, fetched
    <3> QED BY <1>0, <2>2, <2>3, <2>4, <2>5 DEF Run
  <2>7. run' = [run EXCEPT ![r] = next]
    BY <1>4 DEF PlanKind, TypeOK
  <2>8. run' \in [Runs -> Run]
    BY <2>6, <2>7 DEF TypeOK
  <2>9. QED
    BY <1>4, <2>8 DEF PlanKind, TypeOK, world, store
<1>5. CASE PlanRelations(r)
  <2>1. PICK pick \in Resolutions(r) :
          run' = [run EXCEPT
                    ![r].pc = "commit",
                    ![r].plan = [i \in Individuals |->
                                   [@[i] EXCEPT !.edges = ResolvedEdges(r, pick, i)]],
                    ![r].masters = @ \ masters]
    BY <1>5 DEF PlanRelations
  <2>2. \A i \in Individuals : ResolvedEdges(r, pick, i) \in SUBSET Individuals
    BY <1>0 DEF ResolvedEdges, Resolutions, Run
  <2> DEFINE planned == [i \in Individuals |->
                           [run[r].plan[i] EXCEPT !.edges = ResolvedEdges(r, pick, i)]]
  <2>3. planned \in [Individuals -> Change]
    <3>1. \A i \in Individuals : run[r].plan[i] \in Change
      BY <1>0 DEF Run
    <3>2. QED
      BY <2>2, <3>1 DEF Change
  <2> DEFINE next == [run[r] EXCEPT !.pc = "commit", !.plan = planned, !.masters = @ \ masters]
  <2>4. next \in Run
    <3> HIDE DEF planned
    <3> QED BY <1>0, <2>3 DEF Run, Phases
  <2>5. run' = [run EXCEPT ![r] = next]
    BY <2>1 DEF TypeOK
  <2>6. run' \in [Runs -> Run]
    BY <2>4, <2>5 DEF TypeOK
  <2>7. QED
    BY <1>5, <2>6 DEF PlanRelations, TypeOK, world, store
<1>6. CASE ReturnDry(r)
  BY <1>6, ReturnType DEF ReturnDry, TypeOK, world, store
<1>7. QED
  BY <1>1, <1>2, <1>3, <1>4, <1>5, <1>6 DEF Advance

LEMMA InitType == Init => TypeOK
<1> SUFFICES ASSUME Init PROVE TypeOK
  OBVIOUS
<1>1. Nobody \in Individual
  BY DEF Nobody, Individual, Values
<1>2. config \in ConfigType
  BY SettingsAssumption DEF Init
<1>3. graph \in [Individuals -> Individual]
  BY <1>1 DEF Init
<1>4. run \in [Runs -> Run]
  BY IdleRunType DEF Init
<1>5. changes \in 0..MaxChanges
  BY MaxChangesAssumption DEF Init
<1>6. QED
  BY <1>2, <1>3, <1>4, <1>5 DEF Init, TypeOK

\* What the users and the catalogue do keeps every domain.
LEMMA SurroundingsType ==
  ASSUME TypeOK, Surroundings
  PROVE  TypeOK'
<1>0. ASSUME NEW what, Changing(what)
      PROVE  /\ changes' \in 0..MaxChanges /\ quiet' \in [Runs -> BOOLEAN]
             /\ UNCHANGED <<declared, masters, inFlight, run, result, late>>
  BY <1>0, MaxChangesAssumption DEF Changing, TypeOK
<1>1. ASSUME NEW e \in Entities, ChangeEntity(e) PROVE TypeOK'
  BY <1>0, <1>1 DEF ChangeEntity, TypeOK
<1>2. ASSUME NEW c \in Classes, SetBackstageKind(c) PROVE TypeOK'
  <2>1. config' \in ConfigType
    BY <1>2 DEF SetBackstageKind, TypeOK, ConfigType
  <2>2. QED
    BY <1>0, <1>2, <2>1 DEF SetBackstageKind, TypeOK
<1>3. ASSUME NEW c \in Classes, SetNamespace(c) PROVE TypeOK'
  <2>1. config' \in ConfigType
    BY <1>3 DEF SetNamespace, TypeOK, ConfigType
  <2>2. QED
    BY <1>0, <1>3, <2>1 DEF SetNamespace, TypeOK
<1>4. CASE SetRepresents
  <2> DEFINE flipped == [config EXCEPT !.represents = ~@]
  <2>1. config \in ConfigType
    BY DEF TypeOK
  <2>2. flipped \in ConfigType
    BY <2>1 DEF ConfigType
  <2>3. \A t \in config.targets : [config EXCEPT !.targets = @ \ {t}] \in ConfigType
    BY <2>1 DEF ConfigType
  <2>4. config' \in ConfigType
    BY <1>4, <2>2, <2>3 DEF SetRepresents
  <2>5. QED
    BY <1>0, <1>4, <2>4 DEF SetRepresents, TypeOK
<1>5. ASSUME NEW i \in Individuals, EditIndividual(i) PROVE TypeOK'
  <2>1. Nobody \in Individual
    BY DEF Nobody, Individual, Values
  <2>2. [graph[i] EXCEPT !.note = TRUE] \in Individual
    <3>1. graph[i] \in Individual
      BY DEF TypeOK
    <3>2. QED
      BY <3>1 DEF Individual
  <2>3. graph' \in [Individuals -> Individual]
    BY <1>5, <2>1, <2>2 DEF EditIndividual, TypeOK
  <2>4. QED
    BY <1>0, <1>5, <2>3 DEF EditIndividual, TypeOK
<1>6. QED
  BY <1>1, <1>2, <1>3, <1>4, <1>5 DEF Surroundings

LEMMA NextType ==
  ASSUME TypeOK, [Next]_vars
  PROVE  TypeOK'
<1>0. [IdleRun EXCEPT !.pc = "mapping"] \in Run /\ [IdleRun EXCEPT !.pc = "mapping", !.dry = TRUE] \in Run
  BY IdleRunType DEF Run, Phases
<1>1. ASSUME NEW r \in Runs, BeginReal(r) PROVE TypeOK'
  BY <1>0, <1>1 DEF BeginReal, TypeOK, world, store
<1>2. ASSUME NEW r \in Runs, RejectReal(r) PROVE TypeOK'
  BY <1>2 DEF RejectReal, TypeOK, world, store
<1>3. ASSUME NEW r \in Runs, BeginDry(r) PROVE TypeOK'
  BY <1>0, <1>3 DEF BeginDry, TypeOK, world, store
<1>4. ASSUME NEW r \in Runs, Advance(r) PROVE TypeOK'
  BY <1>4, AdvanceType
<1>5. ASSUME NEW r \in Runs, CommitOk(r) \/ CommitLost(r) PROVE TypeOK'
  <2>1. Execute(Ops(r)) /\ UNCHANGED <<world, late>>
    BY <1>5 DEF CommitOk, CommitLost
  <2>2. Return(r, "ok") \/ Return(r, "error")
    BY <1>5 DEF CommitOk, CommitLost
  <2>3. QED
    BY <2>1, <2>2, ReturnType, ExecuteType, OpsType DEF TypeOK, world
<1>6. ASSUME NEW r \in Runs, Abandon(r) PROVE TypeOK'
  <2>1. Return(r, "error") /\ late' \in Batch /\ UNCHANGED <<world, store>>
    BY <1>6, OpsType DEF Abandon
  <2>2. QED
    BY <2>1, ReturnType DEF TypeOK, world, store
<1>7. ASSUME NEW r \in Runs, Fail(r) PROVE TypeOK'
  BY <1>7, ReturnType DEF Fail, TypeOK, world, store
<1>8. CASE ExecuteLate
  <2>1. late \in Batch
    BY <1>8 DEF ExecuteLate, TypeOK
  <2>2. QED
    BY <1>8, <2>1, ExecuteType DEF ExecuteLate, TypeOK, world
<1>9. CASE Surroundings
  BY <1>9, SurroundingsType
<1>10. CASE UNCHANGED vars
  BY <1>10 DEF TypeOK, vars
<1>11. QED
  BY <1>1, <1>2, <1>3, <1>4, <1>5, <1>6, <1>7, <1>8, <1>9, <1>10 DEF Next

\* Every reachable state of the engine is well-typed.
THEOREM TypeCorrect == Spec => []TypeOK
<1>1. Init => TypeOK
  BY InitType
<1>2. TypeOK /\ [Next]_vars => TypeOK'
  BY NextType
<1>3. QED
  BY <1>1, <1>2, PTL DEF Spec
-----------------------------------------------------------------------------
(* The guard.  OneRealRun alone is not inductive: the step that begins a run  *)
(* only knows that inFlight is FALSE, the step that ends one sets it to FALSE *)
(* without looking at the other runs.  With GuardHeldExactly both are covered;*)
(* IdleIsReset says that a slot between two runs remembers no dry run.        *)
IdleIsReset == \A r \in Runs : run[r].pc = "idle" => ~run[r].dry

Guard == TypeOK /\ OneRealRun /\ GuardHeldExactly /\ IdleIsReset

\* A step within a run: nobody begins, nobody ends.
Within ==
  /\ UNCHANGED inFlight
  /\ \A s \in Runs : run'[s].dry = run[s].dry /\ (run'[s].pc = "idle" <=> run[s].pc = "idle")

LEMMA AdvanceWithin ==
  ASSUME TypeOK, NEW r \in Runs, Advance(r), ~ReturnDry(r)
  PROVE  Within
<1>1. run \in [Runs -> Run] /\ run[r] \in Run
  BY DEF TypeOK
<1>2. ASSUME NEW next, run' = [run EXCEPT ![r] = next], next.dry = run[r].dry,
             next.pc # "idle", run[r].pc # "idle", UNCHANGED inFlight
      PROVE  Within
  <2>1. run'[r] = next /\ \A s \in Runs \ {r} : run'[s] = run[s]
    BY <1>1, <1>2
  <2>2. QED
    BY <1>2, <2>1 DEF Within
<1>3. CASE ReadMapping(r)
  <2>1. PICK m \in KindMappings :
          run' = [run EXCEPT ![r].pc = "discover", ![r].mapping = m, ![r].represents = config.represents]
    BY <1>3 DEF ReadMapping
  <2> DEFINE next == [run[r] EXCEPT !.pc = "discover", !.mapping = m, !.represents = config.represents]
  <2>2. run' = [run EXCEPT ![r] = next]
    BY <1>1, <2>1
  <2>3. next.dry = run[r].dry /\ next.pc = "discover"
    BY <1>1 DEF Run
  <2>4. QED
    BY <1>2, <1>3, <2>2, <2>3 DEF ReadMapping
<1>4. CASE DiscoverKinds(r)
  <2> DEFINE next == [run[r] EXCEPT !.pc = "kinds", !.todo = {KindOf[e] : e \in Present},
                                    !.declare = {SourceNamespace} \ declared]
  <2>1. run' = [run EXCEPT ![r] = next]
    BY <1>1, <1>4 DEF DiscoverKinds
  <2>2. next.dry = run[r].dry /\ next.pc = "kinds"
    BY <1>1 DEF Run
  <2>3. QED
    BY <1>2, <1>4, <2>1, <2>2 DEF DiscoverKinds
<1>5. ASSUME NEW k \in Kinds, SkipKind(r, k) PROVE Within
  <2> DEFINE next == [run[r] EXCEPT !.todo = @ \ {k}]
  <2>1. run' = [run EXCEPT ![r] = next]
    BY <1>1, <1>5 DEF SkipKind
  <2>2. next.dry = run[r].dry /\ next.pc = run[r].pc
    BY <1>1 DEF Run
  <2>3. QED
    BY <1>2, <1>5, <2>1, <2>2 DEF SkipKind
<1>6. ASSUME NEW k \in Kinds, PlanKind(r, k) PROVE Within
  <2>1. PICK plan, rels, declare, asserted :
          run' = [run EXCEPT ![r].todo = @ \ {k}, ![r].plan = plan, ![r].relations = rels,
                             ![r].declare = declare, ![r].masters = asserted]
    BY <1>6 DEF PlanKind
  <2> DEFINE next == [run[r] EXCEPT !.todo = @ \ {k}, !.plan = plan, !.relations = rels,
                                    !.declare = declare, !.masters = asserted]
  <2>2. run' = [run EXCEPT ![r] = next]
    BY <1>1, <2>1
  <2>3. next.dry = run[r].dry /\ next.pc = run[r].pc
    BY <1>1 DEF Run
  <2>4. QED
    BY <1>2, <1>6, <2>2, <2>3 DEF PlanKind
<1>7. CASE PlanRelations(r)
  <2>1. PICK plan, asserted :
          run' = [run EXCEPT ![r].pc = "commit", ![r].plan = plan, ![r].masters = asserted]
    BY <1>7 DEF PlanRelations
  <2> DEFINE next == [run[r] EXCEPT !.pc = "commit", !.plan = plan, !.masters = asserted]
  <2>2. run' = [run EXCEPT ![r] = next]
    BY <1>1, <2>1
  <2>3. next.dry = run[r].dry /\ next.pc = "commit"
    BY <1>1 DEF Run
  <2>4. QED
    BY <1>2, <1>7, <2>2, <2>3 DEF PlanRelations
<1>8. QED
  BY <1>3, <1>4, <1>5, <1>6, <1>7 DEF Advance

LEMMA WithinKeepsGuard ==
  ASSUME Guard, Within
  PROVE  OneRealRun' /\ GuardHeldExactly' /\ IdleIsReset'
  BY DEF Guard, Within, OneRealRun, GuardHeldExactly, RealRun, IdleIsReset

\* Ending a run -- real or dry, with or without an error -- frees the guard exactly when
\* the run held it.
LEMMA ReturnKeepsGuard ==
  ASSUME Guard, NEW r \in Runs, NEW res, run[r].pc # "idle", Return(r, res)
  PROVE  OneRealRun' /\ GuardHeldExactly' /\ IdleIsReset'
<1>1. run' = [run EXCEPT ![r] = IdleRun] /\ IdleRun.pc = "idle"
  BY DEF Return, IdleRun
<1>2. \A s \in Runs : RealRun(s)' <=> (s # r /\ RealRun(s))
  BY <1>1 DEF RealRun, Guard, TypeOK
<1>3. OneRealRun' /\ IdleIsReset'
  <2>1. OneRealRun'
    BY <1>2 DEF Guard, OneRealRun
  <2>2. ~IdleRun.dry
    BY DEF IdleRun
  <2>3. IdleIsReset'
    BY <1>1, <2>2 DEF Guard, IdleIsReset, TypeOK
  <2>4. QED
    BY <2>1, <2>3
<1>4. CASE run[r].dry
  <2>1. \A s \in Runs : RealRun(s)' <=> RealRun(s)
    BY <1>2, <1>4 DEF RealRun
  <2>2. inFlight' = inFlight
    BY <1>4 DEF Return
  <2>3. QED
    BY <1>3, <2>1, <2>2 DEF Guard, GuardHeldExactly
<1>5. CASE ~run[r].dry
  <2>1. RealRun(r)
    BY <1>5 DEF RealRun
  <2>2. \A s \in Runs : ~RealRun(s)'
    BY <1>2, <2>1 DEF Guard, OneRealRun
  <2>3. ~inFlight'
    BY <1>5 DEF Return
  <2>4. QED
    BY <1>3, <2>2, <2>3 DEF GuardHeldExactly
<1>6. QED
  BY <1>3, <1>4, <1>5

LEMMA GuardInductive ==
  ASSUME Guard, [Next]_vars
  PROVE  Guard'
<1>1. TypeOK'
  BY NextType DEF Guard
<1>2. ASSUME NEW r \in Runs, BeginReal(r) PROVE OneRealRun' /\ GuardHeldExactly' /\ IdleIsReset'
  <2>1. \A s \in Runs : ~RealRun(s)
    BY <1>2 DEF BeginReal, Guard, GuardHeldExactly
  <2>2. run' = [run EXCEPT ![r] = [IdleRun EXCEPT !.pc = "mapping"]] /\ inFlight'
    BY <1>2 DEF BeginReal
  <2>3. \A s \in Runs : RealRun(s)' <=> s = r
    BY <2>1, <2>2 DEF RealRun, Guard, TypeOK, IdleRun
  <2>4. IdleIsReset'
    BY <2>2 DEF IdleIsReset, Guard, TypeOK, IdleRun
  <2>5. QED
    BY <2>2, <2>3, <2>4 DEF OneRealRun, GuardHeldExactly
<1>3. ASSUME NEW r \in Runs, RejectReal(r) PROVE Within
  BY <1>3 DEF RejectReal, Within
<1>4. ASSUME NEW r \in Runs, BeginDry(r) PROVE OneRealRun' /\ GuardHeldExactly' /\ IdleIsReset'
  <2>1. \A s \in Runs : RealRun(s)' <=> RealRun(s)
    BY <1>4 DEF BeginDry, RealRun, Guard, TypeOK, IdleRun
  <2>2. IdleIsReset'
    BY <1>4 DEF BeginDry, IdleIsReset, Guard, TypeOK, IdleRun
  <2>3. QED
    BY <1>4, <2>1, <2>2 DEF BeginDry, Guard, OneRealRun, GuardHeldExactly
<1>5. ASSUME NEW r \in Runs, Advance(r), ~ReturnDry(r) PROVE Within
  BY <1>5, AdvanceWithin DEF Guard
<1>6. ASSUME NEW r \in Runs, ReturnDry(r) \/ CommitOk(r) \/ CommitLost(r) \/ Abandon(r) \/ Fail(r)
      PROVE  OneRealRun' /\ GuardHeldExactly' /\ IdleIsReset'
  <2>1. run[r].pc # "idle" /\ \E res \in {"ok", "error"} : Return(r, res)
    BY <1>6 DEF ReturnDry, CommitOk, CommitLost, Abandon, Fail
  <2>2. QED
    BY <2>1, ReturnKeepsGuard
<1>7. ASSUME ExecuteLate PROVE Within
  BY <1>7 DEF ExecuteLate, Within
<1>8. ASSUME Surroundings PROVE Within
  <2>1. UNCHANGED <<run, inFlight>>
    BY <1>8 DEF Surroundings, ChangeEntity, SetBackstageKind, SetNamespace, SetRepresents,
                EditIndividual, Changing
  <2>2. QED
    BY <2>1 DEF Within
<1>9. ASSUME UNCHANGED vars PROVE Within
  BY <1>9 DEF Within, vars
<1>10. QED
  BY <1>1, <1>2, <1>3, <1>4, <1>5, <1>6, <1>7, <1>8, <1>9, WithinKeepsGuard DEF Next, Guard

LEMMA GuardInitially == Init => Guard
<1> SUFFICES ASSUME Init PROVE Guard
  OBVIOUS
<1>1. \A r \in Runs : ~RealRun(r)
  BY DEF Init, RealRun, IdleRun
<1>2. QED
  BY <1>1, InitType DEF Guard, OneRealRun, GuardHeldExactly, IdleIsReset, Init, IdleRun

LEMMA GuardInvariant == Spec => []Guard
  BY GuardInitially, GuardInductive, PTL DEF Spec

\* Never two real runs past the guard, for any number of triggers beside the worker.
THEOREM NeverTwoRealRuns == Spec => []OneRealRun
<1>1. Guard => OneRealRun
  BY DEF Guard
<1>2. QED
  BY <1>1, GuardInvariant, PTL

\* The guard is held exactly while a real run is in progress: no path leaks it.
THEOREM GuardNeverLeaks == Spec => []GuardHeldExactly
<1>1. Guard => GuardHeldExactly
  BY DEF Guard
<1>2. QED
  BY <1>1, GuardInvariant, PTL
-----------------------------------------------------------------------------
(* The contract.  A step within a run stutters; beginning, rejecting, ending *)
(* and a late Update are the contract's steps of the same meaning.           *)
Mode(r) == IF run[r].pc = "idle" THEN "idle" ELSE IF run[r].dry THEN "dry" ELSE "real"

LEMMA WithinStutters ==
  ASSUME TypeOK, Within, UNCHANGED <<result, store, late>>
  PROVE  UNCHANGED Contract!vars
<1>1. \A r \in Runs : Mode(r)' = Mode(r)
  BY DEF Within, Mode
<1>2. [r \in Runs |-> Mode(r)]' = [r \in Runs |-> Mode(r)]
  BY <1>1
<1>3. (declared \cup masters)' = declared \cup masters
  BY DEF store
<1>4. QED
  BY <1>2, <1>3 DEF Contract!vars, Within, Mode

\* Executing a well-typed batch only adds facts.
LEMMA ExecuteGrows ==
  ASSUME TypeOK, NEW ops \in Batch, Execute(ops)
  PROVE  Contract!Grow
  BY ExecuteType DEF Execute, Contract!Grow

\* The slot a run leaves is idle, the others are as they were.
LEMMA ReturnMode ==
  ASSUME TypeOK, NEW r \in Runs, NEW res, Return(r, res)
  PROVE  [s \in Runs |-> Mode(s)]' = [[s \in Runs |-> Mode(s)] EXCEPT ![r] = "idle"]
  BY DEF Return, Mode, TypeOK, IdleRun

LEMMA StepImplements ==
  ASSUME Guard, [Next]_vars
  PROVE  [Contract!Next]_(Contract!vars)
<1>0. TypeOK
  BY DEF Guard
<1>1. ASSUME NEW r \in Runs, BeginReal(r) PROVE Contract!Begin(r)
  <2>1. [s \in Runs |-> Mode(s)]' = [[s \in Runs |-> Mode(s)] EXCEPT ![r] = "real"]
    BY <1>0, <1>1 DEF BeginReal, Mode, TypeOK, IdleRun
  <2>2. Mode(r) = "idle" /\ ~inFlight /\ inFlight' = TRUE
    BY <1>1 DEF BeginReal, Mode
  <2>3. UNCHANGED <<result, declared, masters, late>>
    BY <1>1 DEF BeginReal, store
  <2>4. QED
    BY <2>1, <2>2, <2>3 DEF Contract!Begin, Mode
<1>2. ASSUME NEW r \in Runs, RejectReal(r) PROVE Contract!Reject(r)
  BY <1>2 DEF RejectReal, Contract!Reject, store
<1>3. ASSUME NEW r \in Runs, BeginDry(r) PROVE Contract!BeginDry(r)
  <2>1. [s \in Runs |-> Mode(s)]' = [[s \in Runs |-> Mode(s)] EXCEPT ![r] = "dry"]
    BY <1>0, <1>3 DEF BeginDry, Mode, TypeOK, IdleRun
  <2>2. Mode(r) = "idle"
    BY <1>3 DEF BeginDry, Mode
  <2>3. UNCHANGED <<inFlight, result, declared, masters, late>>
    BY <1>3 DEF BeginDry, store
  <2>4. QED
    BY <2>1, <2>2, <2>3 DEF Contract!BeginDry, Mode
<1>4. ASSUME NEW r \in Runs, Advance(r), ~ReturnDry(r) PROVE UNCHANGED Contract!vars
  <2>1. UNCHANGED <<result, store, late>>
    BY <1>4 DEF Advance, ReadMapping, DiscoverKinds, SkipKind, PlanKind, PlanRelations
  <2>2. QED
    BY <1>0, <1>4, <2>1, AdvanceWithin, WithinStutters
<1>5. ASSUME NEW r \in Runs, NEW res \in {"ok", "error"}, Return(r, res), Mode(r) = "real",
             \/ Execute(Ops(r)) /\ UNCHANGED late
             \/ UNCHANGED <<store, late>>
             \/ res = "error" /\ late = None /\ late' # None /\ UNCHANGED store
      PROVE  Contract!Return(r)
  <2>1. [s \in Runs |-> Mode(s)]' = [[s \in Runs |-> Mode(s)] EXCEPT ![r] = "idle"]
    BY <1>0, <1>5, ReturnMode
  <2>2. inFlight' = FALSE /\ result' = [result EXCEPT ![r] = res]
    BY <1>5 DEF Return, Mode
  <2>3. CASE Execute(Ops(r)) /\ UNCHANGED late
    BY <1>0, <1>5, <2>1, <2>2, <2>3, OpsType, ExecuteGrows DEF Contract!Return, Mode
  <2>4. CASE UNCHANGED <<store, late>>
    <3>1. Contract!Grow
      BY <1>0, <2>4 DEF Contract!Grow, store, TypeOK
    <3>2. QED
      BY <1>5, <2>1, <2>2, <2>4, <3>1 DEF Contract!Return, Mode
  <2>5. CASE res = "error" /\ late = None /\ late' # None /\ UNCHANGED store
    BY <1>5, <2>1, <2>2, <2>5 DEF Contract!Return, Mode, store
  <2>6. QED
    BY <1>5, <2>3, <2>4, <2>5
<1>6. ASSUME NEW r \in Runs, NEW res \in {"ok", "error"}, Return(r, res), Mode(r) = "dry",
             UNCHANGED <<store, late>>
      PROVE  Contract!ReturnDry(r)
  <2>1. [s \in Runs |-> Mode(s)]' = [[s \in Runs |-> Mode(s)] EXCEPT ![r] = "idle"]
    BY <1>0, <1>6, ReturnMode
  <2>2. inFlight' = inFlight /\ result' = [result EXCEPT ![r] = res]
    BY <1>6 DEF Return, Mode
  <2>3. QED
    BY <1>6, <2>1, <2>2 DEF Contract!ReturnDry, Mode, store
<1>7. ASSUME NEW r \in Runs, ReturnDry(r) PROVE Contract!ReturnDry(r)
  BY <1>6, <1>7 DEF ReturnDry, Mode
<1>8. ASSUME NEW r \in Runs, CommitOk(r) \/ CommitLost(r) PROVE Contract!Return(r)
  BY <1>5, <1>8 DEF CommitOk, CommitLost, Mode
<1>9. ASSUME NEW r \in Runs, Abandon(r) PROVE Contract!Return(r)
  <2>1. Ops(r) # None
    BY <1>0, OpsType, NoneIsNoBatch
  <2>2. QED
    BY <1>5, <1>9, <2>1 DEF Abandon, Mode
<1>10. ASSUME NEW r \in Runs, Fail(r) PROVE Contract!Return(r) \/ Contract!ReturnDry(r)
  BY <1>5, <1>6, <1>10 DEF Fail, Mode
<1>11. ASSUME ExecuteLate PROVE Contract!ExecuteOrphan
  <2>1. late \in Batch
    BY <1>0, <1>11 DEF ExecuteLate, TypeOK
  <2>2. Contract!Grow
    BY <1>0, <1>11, <2>1, ExecuteGrows DEF ExecuteLate
  <2>3. QED
    BY <1>11, <2>2 DEF ExecuteLate, Contract!ExecuteOrphan
<1>12. ASSUME Surroundings PROVE UNCHANGED Contract!vars
  BY <1>12 DEF Surroundings, ChangeEntity, SetBackstageKind, SetNamespace, SetRepresents,
               EditIndividual, Changing, Contract!vars
<1>13. ASSUME UNCHANGED vars PROVE UNCHANGED Contract!vars
  BY <1>13 DEF vars, Contract!vars
<1>14. QED
  BY <1>1, <1>2, <1>3, <1>4, <1>7, <1>8, <1>9, <1>10, <1>11, <1>12, <1>13
     DEF Next, Contract!Next

\* The engine implements the contract its callers rely on.
THEOREM EngineImplementsContract == Spec => ImplementsContract
<1>1. Init => Contract!Init
  BY DEF Init, Contract!Init, IdleRun
<1>2. Guard /\ [Next]_vars => [Contract!Next]_(Contract!vars)
  BY StepImplements
<1>3. QED
  BY <1>1, <1>2, GuardInvariant, PTL DEF Spec, ImplementsContract, Contract!Spec
-----------------------------------------------------------------------------
\* No step of a dry run, at any point of any interleaving, writes to the store, takes or
\* frees the guard, or leaves an Update behind.
THEOREM DryRunsAreHarmless == Spec => DryRunsTouchNothing
<1> DEFINE Harmless == \A r \in Runs :
             (run[r].dry /\ run'[r] # run[r]) => UNCHANGED <<store, inFlight, late>>
<1>1. ASSUME Guard, [Next]_vars PROVE Harmless
  <2> SUFFICES ASSUME NEW r \in Runs, run[r].dry, run'[r] # run[r]
               PROVE  UNCHANGED <<store, inFlight, late>>
    OBVIOUS
  <2>0. TypeOK /\ run[r].pc # "idle"
    BY <1>1 DEF Guard, IdleIsReset
  <2>1. ASSUME NEW s \in Runs, BeginReal(s) PROVE FALSE
    BY <2>0, <2>1 DEF BeginReal, TypeOK
  <2>2. ASSUME NEW s \in Runs, RejectReal(s) PROVE FALSE
    BY <2>2 DEF RejectReal
  <2>3. ASSUME NEW s \in Runs, BeginDry(s) PROVE FALSE
    BY <2>0, <2>3 DEF BeginDry, TypeOK
  <2>4. ASSUME NEW s \in Runs, Advance(s), ~ReturnDry(s) PROVE UNCHANGED <<store, inFlight, late>>
    BY <2>4 DEF Advance, ReadMapping, DiscoverKinds, SkipKind, PlanKind, PlanRelations
  <2>5. ASSUME NEW s \in Runs, NEW res, Return(s, res) PROVE s = r /\ UNCHANGED inFlight
    BY <2>0, <2>5 DEF Return, TypeOK
  <2>6. ASSUME NEW s \in Runs, CommitOk(s) \/ CommitLost(s) \/ Abandon(s) PROVE FALSE
    BY <2>5, <2>6 DEF CommitOk, CommitLost, Abandon
  <2>7. ASSUME NEW s \in Runs, ReturnDry(s) \/ Fail(s) PROVE UNCHANGED <<store, inFlight, late>>
    BY <2>5, <2>7 DEF ReturnDry, Fail
  <2>8. CASE ExecuteLate
    BY <2>8 DEF ExecuteLate
  <2>9. CASE Surroundings
    BY <2>9 DEF Surroundings, ChangeEntity, SetBackstageKind, SetNamespace, SetRepresents,
                EditIndividual, Changing
  <2>10. CASE UNCHANGED vars
    BY <2>10 DEF vars
  <2>11. QED
    BY <1>1, <2>1, <2>2, <2>3, <2>4, <2>6, <2>7, <2>8, <2>9, <2>10 DEF Next
<1>2. Guard /\ [Next]_vars => [Harmless]_vars
  BY <1>1
<1>3. QED
  BY <1>2, GuardInvariant, PTL DEF Spec, DryRunsTouchNothing

\* No Update of any run, in time or late, takes an individual, its sync marker or a user's
\* own statement away.
THEOREM SyncIsNonDestructive == Spec => SyncNeverDestroys
<1> DEFINE Kept(i) == /\ graph[i].note => graph'[i].note
                      /\ graph[i].synced => graph'[i].synced
                      /\ graph[i].type # {} => graph'[i].type # {}
<1>1. ASSUME Guard, [Next]_vars, changes' = changes, NEW i \in Individuals
      PROVE  Kept(i)
  <2>1. ASSUME NEW ops, Execute(ops) PROVE Kept(i)
    <3>1. graph'[i] = Merged(graph[i], ops.plan[i])
      BY <2>1 DEF Execute
    <3> DEFINE ch == ops.plan[i]
    <3>2. graph'[i].note = graph[i].note
      BY <3>1 DEF Merged
    <3>3. graph'[i].synced = (graph[i].synced \/ ch.class # None)
      BY <3>1, SMT DEF Merged
    <3>4. graph'[i].type = IF ch.class = None THEN graph[i].type ELSE {ch.class}
      BY <3>1 DEF Merged
    <3>5. graph[i].type # {} => graph'[i].type # {}
      BY <3>4
    <3>6. QED
      BY <3>2, <3>3, <3>5, Zenon
  <2>2. ASSUME UNCHANGED graph PROVE Kept(i)
    BY <2>2
  <2>3. ASSUME NEW s \in Runs, BeginReal(s) \/ RejectReal(s) \/ BeginDry(s) PROVE UNCHANGED graph
    BY <2>3 DEF BeginReal, RejectReal, BeginDry, store
  <2>4. ASSUME NEW s \in Runs, Advance(s) PROVE UNCHANGED graph
    BY <2>4 DEF Advance, ReadMapping, DiscoverKinds, SkipKind, PlanKind, PlanRelations, ReturnDry, store
  <2>5. ASSUME NEW s \in Runs, CommitOk(s) \/ CommitLost(s) PROVE Kept(i)
    BY <2>1, <2>5 DEF CommitOk, CommitLost
  <2>6. ASSUME NEW s \in Runs, Abandon(s) \/ Fail(s) PROVE UNCHANGED graph
    BY <2>6 DEF Abandon, Fail, store
  <2>7. CASE ExecuteLate
    BY <2>1, <2>7 DEF ExecuteLate
  <2>8. ~Surroundings
    <3>1. changes \in Nat
      BY <1>1, MaxChangesAssumption DEF Guard, TypeOK
    <3>2. \A what : ~Changing(what)
      BY <1>1, <3>1 DEF Changing
    <3>3. QED
      BY <3>2 DEF Surroundings, ChangeEntity, SetBackstageKind, SetNamespace, SetRepresents,
                  EditIndividual
  <2>9. CASE UNCHANGED vars
    BY <2>9 DEF vars
  <2>10. QED
    BY <1>1, <2>2, <2>3, <2>4, <2>5, <2>6, <2>7, <2>8, <2>9 DEF Next
<1>2. Guard /\ [Next]_vars => [changes' = changes => \A i \in Individuals : Kept(i)]_vars
  BY <1>1
<1>3. QED
  BY <1>2, GuardInvariant, PTL DEF Spec, SyncNeverDestroys
-----------------------------------------------------------------------------
(* What an undisturbed run achieves.  Between its first read and its commit   *)
(* nothing it read has changed, so its plan, built kind by kind, can be told  *)
(* from the world as it is: PlanTells says what is planned for the kinds that *)
(* are settled, and that nothing is planned for anyone else.                  *)
Settled(r, e) == e \in Present /\ KindOf[e] \notin run[r].todo /\ Mapped(r, e)

\* The individual is one that run r has planned to merge by now, or to flag.
Planned(r, i) == Settled(r, i[2]) /\ i = SyncedAs(r, i[2])
Missed(r, i) ==
  /\ graph[i].synced
  /\ \E e \in Entities : /\ Settled(r, e) /\ ClassFor(r, e) \in graph[i].type
                         /\ config.home[ClassFor(r, e)] = i[1]

MergeIsFor(r, i) ==
  LET ch == run[r].plan[i]
      e == i[2]
  IN  /\ ch.class = ClassFor(r, e) /\ ch.ref = RefOf[e]
      /\ ch.value = MappedValue(ch.class, upstream[e])
      /\ ch.link = RepresentsLink(r, ch.class, upstream[e])
      /\ run[r].relations[i] = upstream[e].relations
      /\ ch.status = "clear" \/ (ch.status = "flag" /\ \E c \in graph[i].type : c # ch.class)

NoMergeFor(r, i) ==
  LET ch == run[r].plan[i]
  IN  /\ ch.class = None /\ ch.value = Keep /\ ch.link = Keep
      /\ ch.status = IF Missed(r, i) THEN "flag" ELSE "keep"

PlanTells(r) ==
  \A i \in Individuals : IF Planned(r, i) THEN MergeIsFor(r, i) ELSE NoMergeFor(r, i)

EdgesTell(r) ==
  \E pick \in Resolutions(r) :
    \A i \in Individuals : run[r].plan[i].edges = ResolvedEdges(r, pick, i)

QuietPlan(r) ==
  LET at == run[r].pc
  IN  (RealRun(r) /\ quiet[r]) =>
        /\ at \in {"mapping", "discover"} => run[r].plan = NoPlan
        /\ at \in {"discover", "kinds", "commit"} =>
             run[r].mapping \in KindMappings /\ run[r].represents = config.represents
        /\ at \in {"kinds", "commit"} =>
             PlanTells(r) /\ run[r].todo \subseteq {KindOf[e] : e \in Present}
        /\ at = "commit" => run[r].todo = {} /\ EdgesTell(r)

\* A merge gives an individual the ref of its own entity.
OwnRef(plan) == \A i \in Individuals : plan[i].class # None => plan[i].ref = RefOf[i[2]]
RefsAreOwn ==
  /\ \A i \in Individuals : graph[i].ref \in {None, RefOf[i[2]]}
  /\ \A r \in Runs : OwnRef(run[r].plan)
  /\ late # None => OwnRef(late.plan)

Undisturbed == Guard /\ RefsAreOwn /\ \A r \in Runs : QuietPlan(r)

\* A settled kind has one class, and no two kinds share it.
LEMMA KindsApart ==
  ASSUME NEW m \in KindMappings, NEW k \in Kinds, NEW l \in Kinds, m[k] = m[l], m[k] # None
  PROVE  k = l
<1>1. \A j \in Kinds : m[j] # None => config.kind[m[j]] = j
  BY DEF KindMappings
<1>2. QED
  BY <1>1

\* What a run has planned depends on its record and on what it read, only.
LEMMA PlanFrame ==
  ASSUME NEW r \in Runs, UNCHANGED <<upstream, config, graph>>,
         run'[r].mapping = run[r].mapping, run'[r].todo = run[r].todo
  PROVE  /\ \A e : Settled(r, e)' <=> Settled(r, e)
         /\ \A i : Planned(r, i)' <=> Planned(r, i)
         /\ \A i : Missed(r, i)' <=> Missed(r, i)
<1>1. \A e : ClassFor(r, e)' = ClassFor(r, e) /\ (Mapped(r, e)' <=> Mapped(r, e))
  BY DEF ClassFor, Mapped
<1>2. \A e : Settled(r, e)' <=> Settled(r, e)
  BY <1>1 DEF Settled, Present
<1>3. \A e : SyncedAs(r, e)' = SyncedAs(r, e)
  BY <1>1 DEF SyncedAs, iri
<1>4. \A i : Planned(r, i)' <=> Planned(r, i)
  BY <1>2, <1>3 DEF Planned
<1>5. \A i : Missed(r, i)' <=> Missed(r, i)
  BY <1>1, <1>2 DEF Missed
<1>6. QED
  BY <1>2, <1>4, <1>5

LEMMA QuietFrame ==
  ASSUME NEW r \in Runs, QuietPlan(r), UNCHANGED <<upstream, config, graph>>,
         run'[r] = run[r], quiet'[r] => quiet[r]
  PROVE  QuietPlan(r)'
<1>1. /\ \A i : Planned(r, i)' <=> Planned(r, i)
      /\ \A i : Missed(r, i)' <=> Missed(r, i)
  BY PlanFrame
<1>2. \A i : MergeIsFor(r, i)' <=> MergeIsFor(r, i)
  BY DEF MergeIsFor, ClassFor, RepresentsLink
<1>3. \A i : NoMergeFor(r, i)' <=> NoMergeFor(r, i)
  BY <1>1 DEF NoMergeFor
<1>4. PlanTells(r)' <=> PlanTells(r)
  BY <1>1, <1>2, <1>3 DEF PlanTells
<1>5. \A ref : Candidates(r, ref)' = Candidates(r, ref)
  BY DEF Candidates, Minted, Stored
<1>6. Resolutions(r)' = Resolutions(r)
  BY <1>5 DEF Resolutions
<1>7. \A pick, i : ResolvedEdges(r, pick, i)' = ResolvedEdges(r, pick, i)
  BY DEF ResolvedEdges
<1>8. EdgesTell(r)' <=> EdgesTell(r)
  BY <1>6, <1>7 DEF EdgesTell
<1>9. KindMappings' = KindMappings /\ Present' = Present /\ (RealRun(r)' <=> RealRun(r))
  BY DEF KindMappings, Present, RealRun
<1>10. QED
  BY <1>4, <1>8, <1>9 DEF QuietPlan

\* A run that reads the mapping or finds the kinds has settled nothing yet.
LEMMA FirstReadsTell ==
  ASSUME TypeOK, NEW r \in Runs, QuietPlan(r), ReadMapping(r) \/ DiscoverKinds(r)
  PROVE  QuietPlan(r)'
<1>0. run \in [Runs -> Run] /\ run[r] \in Run
  BY DEF TypeOK
<1>1. CASE ReadMapping(r)
  <2>1. PICK m \in KindMappings :
          run' = [run EXCEPT ![r].pc = "discover", ![r].mapping = m, ![r].represents = config.represents]
    BY <1>1 DEF ReadMapping
  <2>2. /\ run'[r].pc = "discover" /\ run'[r].mapping = m /\ run'[r].plan = run[r].plan
        /\ run'[r].represents = config.represents /\ run'[r].dry = run[r].dry
    BY <1>0, <2>1 DEF Run
  <2>3. UNCHANGED <<config, quiet>> /\ run[r].pc = "mapping"
    BY <1>1 DEF ReadMapping, world
  <2>4. KindMappings' = KindMappings
    BY <2>3 DEF KindMappings
  <2>5. QED
    BY <2>2, <2>3, <2>4 DEF QuietPlan, RealRun
<1>2. CASE DiscoverKinds(r)
  <2>1. UNCHANGED <<upstream, config, graph, quiet>> /\ run[r].pc = "discover"
    BY <1>2 DEF DiscoverKinds, world, store
  <2>2. /\ run'[r].pc = "kinds" /\ run'[r].mapping = run[r].mapping
        /\ run'[r].plan = run[r].plan /\ run'[r].todo = {KindOf[e] : e \in Present}
        /\ run'[r].represents = run[r].represents /\ run'[r].dry = run[r].dry
    BY <1>0, <1>2 DEF DiscoverKinds, Run
  <2>3. KindMappings' = KindMappings /\ Present' = Present
    BY <2>1 DEF KindMappings, Present
  <2>4. \A e : ~Settled(r, e)'
    BY <2>2, <2>3 DEF Settled
  <2>5. \A i : ~Planned(r, i)' /\ ~Missed(r, i)'
    BY <2>4 DEF Planned, Missed
  <2>6. run[r].plan = NoPlan => PlanTells(r)'
    BY <2>2, <2>5 DEF PlanTells, NoMergeFor, NoPlan, NoChange
  <2>7. QED
    BY <2>1, <2>2, <2>3, <2>6 DEF QuietPlan, RealRun
<1>3. QED
  BY <1>1, <1>2

LEMMA SkipTells ==
  ASSUME TypeOK, NEW r \in Runs, QuietPlan(r), NEW k \in Kinds, SkipKind(r, k)
  PROVE  QuietPlan(r)'
<1>0. run \in [Runs -> Run] /\ run[r] \in Run
  BY DEF TypeOK
<1>1. UNCHANGED <<upstream, config, graph, quiet>> /\ run[r].pc = "kinds"
  BY DEF SkipKind, world, store
<1>2. /\ run'[r].pc = "kinds" /\ run'[r].mapping = run[r].mapping
      /\ run'[r].plan = run[r].plan /\ run'[r].todo = run[r].todo \ {k}
      /\ run'[r].represents = run[r].represents /\ run'[r].dry = run[r].dry
      /\ run'[r].relations = run[r].relations
  BY <1>0 DEF SkipKind, Run
<1>3. \A e : /\ ClassFor(r, e)' = ClassFor(r, e) /\ (Mapped(r, e)' <=> Mapped(r, e))
             /\ SyncedAs(r, e)' = SyncedAs(r, e)
  BY <1>1, <1>2 DEF ClassFor, Mapped, SyncedAs, iri
<1>4. \A e : KindOf[e] = k => ~Mapped(r, e)
  BY DEF SkipKind, Mapped, ClassFor
<1>5. \A e : Settled(r, e)' <=> Settled(r, e)
  BY <1>1, <1>2, <1>3, <1>4 DEF Settled, Present
<1>6. \A i : (Planned(r, i)' <=> Planned(r, i)) /\ (Missed(r, i)' <=> Missed(r, i))
  BY <1>1, <1>3, <1>5 DEF Planned, Missed
<1>7. \A i : (MergeIsFor(r, i)' <=> MergeIsFor(r, i)) /\ (NoMergeFor(r, i)' <=> NoMergeFor(r, i))
  BY <1>1, <1>2, <1>3, <1>6 DEF MergeIsFor, NoMergeFor, RepresentsLink
<1>8. PlanTells(r)' <=> PlanTells(r)
  BY <1>6, <1>7 DEF PlanTells
<1>9. KindMappings' = KindMappings /\ Present' = Present
  BY <1>1 DEF KindMappings, Present
<1>10. QED
  BY <1>1, <1>2, <1>8, <1>9 DEF QuietPlan, RealRun

\* One kind more is settled: its entities are planned to be merged, and the individuals
\* of its class that the fetch no longer has to be flagged.  An individual that was
\* planned already belongs to another kind, so to another class.
LEMMA KindTells ==
  ASSUME TypeOK, NEW r \in Runs, QuietPlan(r), NEW k \in Kinds, PlanKind(r, k)
  PROVE  QuietPlan(r)'
<1> DEFINE c == run[r].mapping[k]
           ns == config.home[c]
           fetched == {e \in Present : KindOf[e] = k}
           seen == {iri(ns, e) : e \in fetched}
           rels == [i \in Individuals |->
                      IF i[1] = ns /\ i[2] \in fetched THEN upstream[i[2]].relations
                      ELSE run[r].relations[i]]
<1>0. run \in [Runs -> Run] /\ run[r] \in Run
  BY DEF TypeOK
<1>1. /\ UNCHANGED <<upstream, config, graph, quiet>> /\ run[r].pc = "kinds"
      /\ k \in run[r].todo /\ c # None /\ ns # None
  BY DEF PlanKind, world, store
<1>2. /\ run'[r].pc = "kinds" /\ run'[r].mapping = run[r].mapping
      /\ run'[r].plan = PlannedKind(r, k, c, ns) /\ run'[r].todo = run[r].todo \ {k}
      /\ run'[r].represents = run[r].represents /\ run'[r].dry = run[r].dry
      /\ run'[r].relations = rels
  <2>1. PICK asserted, declare :
          run' = [run EXCEPT ![r].todo = @ \ {k}, ![r].plan = PlannedKind(r, k, c, ns),
                             ![r].relations = [i \in Individuals |->
                                IF i[1] = ns /\ i[2] \in fetched THEN upstream[i[2]].relations ELSE @[i]],
                             ![r].declare = declare, ![r].masters = asserted]
    BY DEF PlanKind
  <2> HIDE DEF c, ns, fetched
  <2>2. QED
    BY <1>0, <1>1, <2>1 DEF Run
<1>3. KindMappings' = KindMappings /\ Present' = Present
  BY <1>1 DEF KindMappings, Present
<1>4. SUFFICES ASSUME RealRun(r), quiet[r]
               PROVE  PlanTells(r)'
  BY <1>1, <1>2, <1>3 DEF QuietPlan, RealRun
<1>5. /\ PlanTells(r) /\ run[r].mapping \in KindMappings /\ run[r].represents = config.represents
      /\ run[r].todo \subseteq {KindOf[e] : e \in Present}
  BY <1>1, <1>4 DEF QuietPlan
<1>6. PICK w \in Present : KindOf[w] = k
  BY <1>1, <1>5
<1>7. \A e : /\ ClassFor(r, e)' = ClassFor(r, e) /\ (Mapped(r, e)' <=> Mapped(r, e))
             /\ SyncedAs(r, e)' = SyncedAs(r, e)
  BY <1>1, <1>2 DEF ClassFor, Mapped, SyncedAs, iri
<1>8. \A e : KindOf[e] = k => Mapped(r, e) /\ ClassFor(r, e) = c /\ SyncedAs(r, e) = iri(ns, e)
  BY <1>1 DEF Mapped, ClassFor, SyncedAs
<1>9. \A e : Settled(r, e)' <=> (Settled(r, e) \/ e \in fetched)
  BY <1>1, <1>2, <1>3, <1>7, <1>8 DEF Settled
<1>10. \A i \in Individuals : i \in seen <=> (i[2] \in fetched /\ i = SyncedAs(r, i[2]))
  BY <1>8 DEF iri, Individuals
<1>11. \A i \in Individuals : Planned(r, i)' <=> (Planned(r, i) \/ i \in seen)
  BY <1>7, <1>9, <1>10 DEF Planned
<1>12. \A i \in Individuals : Missed(r, i)' <=> (Missed(r, i) \/ i \in Existing(c, ns))
  <2>1. SUFFICES ASSUME NEW i \in Individuals
                 PROVE  Missed(r, i)' <=> (Missed(r, i) \/ i \in Existing(c, ns))
    OBVIOUS
  <2>2. Missed(r, i)' <=> /\ graph[i].synced
                          /\ \E e \in Entities : /\ Settled(r, e) \/ e \in fetched
                                                 /\ ClassFor(r, e) \in graph[i].type
                                                 /\ config.home[ClassFor(r, e)] = i[1]
    BY <1>1, <1>7, <1>9 DEF Missed
  <2>3. \A e \in fetched : /\ ClassFor(r, e) \in graph[i].type /\ graph[i].synced
                           /\ config.home[ClassFor(r, e)] = i[1]
                           <=> i \in Existing(c, ns)
    BY <1>8 DEF Existing
  <2>4. w \in fetched /\ fetched \subseteq Entities
    BY <1>6 DEF Present
  <2> HIDE DEF fetched, c, ns
  <2>5. QED
    BY <2>2, <2>3, <2>4 DEF Missed
<1>13. ASSUME NEW i \in Individuals, i \in seen PROVE MergeIsFor(r, i)'
  <2>1. i[2] \in fetched /\ i[1] = ns
    BY <1>13 DEF iri
  <2>2. run'[r].plan[i] = MergeChange(r, c, i[2])
    BY <1>2, <1>13 DEF PlannedKind
  <2>3. run'[r].relations[i] = upstream[i[2]].relations
    BY <1>2, <2>1
  <2>4. ClassFor(r, i[2])' = c
    BY <1>7, <1>8, <2>1
  <2>5. \A cl, content : RepresentsLink(r, cl, content)' = RepresentsLink(r, cl, content)
    BY <1>1, <1>2 DEF RepresentsLink
  <2> HIDE DEF c
  <2> DEFINE then == run'[r].plan[i]
  <2>6. /\ then.class = c /\ then.ref = RefOf[i[2]] /\ then.status = "clear"
        /\ then.value = MappedValue(c, upstream[i[2]])
        /\ then.link = RepresentsLink(r, c, upstream[i[2]])
    BY <2>2 DEF MergeChange
  <2>7. QED
    BY <1>1, <2>3, <2>4, <2>5, <2>6 DEF MergeIsFor
<1>14. ASSUME NEW i \in Individuals, i \notin seen, Planned(r, i) PROVE MergeIsFor(r, i)'
  <2>1. MergeIsFor(r, i) /\ Settled(r, i[2])
    BY <1>5, <1>14 DEF PlanTells, Planned
  <2>2. KindOf[i[2]] # k /\ i[2] \notin fetched
    BY <1>1, <2>1 DEF Settled
  <2>3. run'[r].relations[i] = run[r].relations[i]
    BY <1>2, <2>2
  <2>4. run[r].plan[i].class = ClassFor(r, i[2]) /\ ClassFor(r, i[2]) # None
    BY <2>1 DEF MergeIsFor, Settled, Mapped
  <2>5. c # run[r].plan[i].class
    <3>1. KindOf[i[2]] \in Kinds
      BY KindOfAssumption DEF Individuals
    <3>2. QED
      BY <1>5, <2>2, <2>4, <3>1, KindsApart DEF ClassFor
  <2>6. run'[r].plan[i] = IF i \in Existing(c, ns) THEN [run[r].plan[i] EXCEPT !.status = "flag"]
                          ELSE run[r].plan[i]
    BY <1>2, <1>14 DEF PlannedKind
  <2>7. run[r].plan[i] \in Change
    BY <1>0 DEF Run
  <2> DEFINE now == run[r].plan[i]
             then == run'[r].plan[i]
  <2>8. /\ then.class = now.class /\ then.ref = now.ref /\ then.value = now.value /\ then.link = now.link
        /\ then.status = now.status \/ (then.status = "flag" /\ i \in Existing(c, ns))
    BY <2>6, <2>7 DEF Change
  <2>9. i \in Existing(c, ns) => c \in graph[i].type
    BY DEF Existing
  <2>10. \A cl, content : RepresentsLink(r, cl, content)' = RepresentsLink(r, cl, content)
    BY <1>1, <1>2 DEF RepresentsLink
  <2>11. ClassFor(r, i[2])' = ClassFor(r, i[2])
    BY <1>7
  <2> HIDE DEF c, ns
  <2>12. then.status = "clear" \/ (then.status = "flag" /\ \E d \in graph[i].type : d # then.class)
    BY <2>1, <2>5, <2>8, <2>9 DEF MergeIsFor
  <2>13. QED
    BY <1>1, <2>1, <2>3, <2>8, <2>10, <2>11, <2>12 DEF MergeIsFor
<1>15. ASSUME NEW i \in Individuals, i \notin seen, ~Planned(r, i) PROVE NoMergeFor(r, i)'
  <2>1. NoMergeFor(r, i)
    BY <1>5, <1>15 DEF PlanTells
  <2>2. run'[r].plan[i] = IF i \in Existing(c, ns) THEN [run[r].plan[i] EXCEPT !.status = "flag"]
                          ELSE run[r].plan[i]
    BY <1>2, <1>15 DEF PlannedKind
  <2>3. run[r].plan[i] \in Change
    BY <1>0 DEF Run
  <2> HIDE DEF c, ns
  <2>4. CASE i \in Existing(c, ns)
    <3>1. Missed(r, i)'
      BY <1>12, <2>4
    <3> DEFINE then == run'[r].plan[i]
    <3>2. then.class = None /\ then.value = Keep /\ then.link = Keep /\ then.status = "flag"
      BY <2>1, <2>2, <2>3, <2>4 DEF NoMergeFor, Change
    <3>3. QED
      BY <3>1, <3>2 DEF NoMergeFor
  <2>5. CASE i \notin Existing(c, ns)
    <3>1. Missed(r, i)' <=> Missed(r, i)
      BY <1>12, <2>5
    <3>2. QED
      BY <2>1, <2>2, <2>5, <3>1 DEF NoMergeFor
  <2>6. QED
    BY <2>4, <2>5
<1>16. QED
  <2> HIDE DEF seen
  <2> QED BY <1>11, <1>13, <1>14, <1>15 DEF PlanTells

\* The relations only add the edges that the targets resolve to.
LEMMA RelationsTell ==
  ASSUME TypeOK, NEW r \in Runs, QuietPlan(r), PlanRelations(r)
  PROVE  QuietPlan(r)'
<1>0. run \in [Runs -> Run] /\ run[r] \in Run
  BY DEF TypeOK
<1>1. UNCHANGED <<upstream, config, graph, quiet>> /\ run[r].pc = "kinds" /\ run[r].todo = {}
  BY DEF PlanRelations, world, store
<1>2. PICK pick \in Resolutions(r) :
        run' = [run EXCEPT
                  ![r].pc = "commit",
                  ![r].plan = [i \in Individuals |->
                                 [@[i] EXCEPT !.edges = ResolvedEdges(r, pick, i)]],
                  ![r].masters = @ \ masters]
  BY DEF PlanRelations
<1>3. /\ run'[r].pc = "commit" /\ run'[r].mapping = run[r].mapping /\ run'[r].todo = {}
      /\ run'[r].plan = [i \in Individuals |->
                           [run[r].plan[i] EXCEPT !.edges = ResolvedEdges(r, pick, i)]]
      /\ run'[r].represents = run[r].represents /\ run'[r].dry = run[r].dry
      /\ run'[r].relations = run[r].relations
  BY <1>0, <1>1, <1>2 DEF Run
<1>4. ASSUME NEW i \in Individuals
      PROVE  /\ run'[r].plan[i].class = run[r].plan[i].class
             /\ run'[r].plan[i].ref = run[r].plan[i].ref
             /\ run'[r].plan[i].value = run[r].plan[i].value
             /\ run'[r].plan[i].link = run[r].plan[i].link
             /\ run'[r].plan[i].status = run[r].plan[i].status
             /\ run'[r].plan[i].edges = ResolvedEdges(r, pick, i)
  <2>1. run[r].plan[i] \in Change
    BY <1>0 DEF Run
  <2> DEFINE edges == ResolvedEdges(r, pick, i)
  <2>2. run'[r].plan[i] = [run[r].plan[i] EXCEPT !.edges = edges]
    BY <1>3
  <2> HIDE DEF edges
  <2>3. /\ run'[r].plan[i].class = run[r].plan[i].class
        /\ run'[r].plan[i].ref = run[r].plan[i].ref
        /\ run'[r].plan[i].value = run[r].plan[i].value
        /\ run'[r].plan[i].link = run[r].plan[i].link
        /\ run'[r].plan[i].status = run[r].plan[i].status
        /\ run'[r].plan[i].edges = edges
    BY <2>1, <2>2 DEF Change
  <2>4. QED
    BY <2>3 DEF edges
<1>5. /\ \A i : Planned(r, i)' <=> Planned(r, i)
      /\ \A i : Missed(r, i)' <=> Missed(r, i)
  BY <1>1, <1>3, PlanFrame
<1>6. \A i \in Individuals : MergeIsFor(r, i)' <=> MergeIsFor(r, i)
  <2>1. \A e : ClassFor(r, e)' = ClassFor(r, e)
    BY <1>3 DEF ClassFor
  <2>2. \A cl, content : RepresentsLink(r, cl, content)' = RepresentsLink(r, cl, content)
    BY <1>1, <1>3 DEF RepresentsLink
  <2>3. QED
    BY <1>1, <1>3, <1>4, <2>1, <2>2 DEF MergeIsFor
<1>7. \A i \in Individuals : NoMergeFor(r, i)' <=> NoMergeFor(r, i)
  BY <1>4, <1>5 DEF NoMergeFor
<1>8. PlanTells(r)' <=> PlanTells(r)
  BY <1>5, <1>6, <1>7 DEF PlanTells
<1>9. KindMappings' = KindMappings /\ Present' = Present /\ (RealRun(r)' <=> RealRun(r))
  BY <1>1, <1>3 DEF KindMappings, Present, RealRun
<1>10. EdgesTell(r)'
  <2>1. \A ref : Minted(r, ref)' = Minted(r, ref)
    BY <1>4 DEF Minted
  <2>2. \A ref : Stored(ref)' = Stored(ref)
    BY <1>1 DEF Stored
  <2>3. Resolutions(r)' = Resolutions(r)
    BY <2>1, <2>2 DEF Resolutions, Candidates
  <2>4. \A i \in Individuals : ResolvedEdges(r, pick, i)' = ResolvedEdges(r, pick, i)
    BY <1>3, <1>4 DEF ResolvedEdges
  <2>5. QED
    BY <1>4, <2>3, <2>4 DEF EdgesTell
<1>11. QED
  BY <1>1, <1>3, <1>8, <1>9, <1>10 DEF QuietPlan

LEMMA MergedRef ==
  ASSUME NEW g, NEW ch
  PROVE  Merged(g, ch).ref = IF ch.class = None THEN g.ref ELSE ch.ref
  BY DEF Merged

\* Executing ops whose refs are their entities' own keeps every ref its entity's own.
LEMMA ExecuteOwn ==
  ASSUME TypeOK, RefsAreOwn, NEW ops \in Batch, OwnRef(ops.plan), Execute(ops)
  PROVE  \A i \in Individuals : graph'[i].ref \in {None, RefOf[i[2]]}
<1>1. \A i \in Individuals : graph'[i].ref = IF ops.plan[i].class = None THEN graph[i].ref
                                             ELSE ops.plan[i].ref
  BY DEF Execute, Merged
<1>2. QED
  BY <1>1 DEF RefsAreOwn, OwnRef

LEMMA AdvanceOwn ==
  ASSUME TypeOK, NEW r \in Runs, OwnRef(run[r].plan), Advance(r)
  PROVE  OwnRef(run'[r].plan)
<1>0. run \in [Runs -> Run] /\ run[r] \in Run
  BY DEF TypeOK
<1>1. CASE ReadMapping(r)
  BY <1>0, <1>1 DEF ReadMapping, OwnRef, Run
<1>2. CASE DiscoverKinds(r)
  BY <1>0, <1>2 DEF DiscoverKinds, OwnRef, Run
<1>3. ASSUME NEW k \in Kinds, SkipKind(r, k) PROVE OwnRef(run'[r].plan)
  BY <1>0, <1>3 DEF SkipKind, OwnRef, Run
<1>4. ASSUME NEW k \in Kinds, PlanKind(r, k) PROVE OwnRef(run'[r].plan)
  <2> DEFINE c == run[r].mapping[k]
             ns == config.home[c]
  <2>1. run'[r].plan = PlannedKind(r, k, c, ns)
    <3>1. PICK asserted, declare, rels :
            run' = [run EXCEPT ![r].todo = @ \ {k}, ![r].plan = PlannedKind(r, k, c, ns),
                               ![r].relations = rels, ![r].declare = declare, ![r].masters = asserted]
      BY <1>4 DEF PlanKind
    <3> HIDE DEF c, ns
    <3>2. QED
      BY <1>0, <3>1 DEF Run
  <2> SUFFICES ASSUME NEW i \in Individuals, run'[r].plan[i].class # None
               PROVE  run'[r].plan[i].ref = RefOf[i[2]]
    BY DEF OwnRef
  <2>2. run[r].plan[i] \in Change
    BY <1>0 DEF Run
  <2>3. CASE run'[r].plan[i] = MergeChange(r, c, i[2])
    BY <2>3 DEF MergeChange
  <2>4. CASE run'[r].plan[i] = [run[r].plan[i] EXCEPT !.status = "flag"]
    BY <2>2, <2>4 DEF Change, OwnRef
  <2>5. CASE run'[r].plan[i] = run[r].plan[i]
    BY <2>5 DEF OwnRef
  <2>6. QED
    BY <2>1, <2>3, <2>4, <2>5 DEF PlannedKind
<1>5. CASE PlanRelations(r)
  <2>1. PICK pick \in Resolutions(r) :
          run' = [run EXCEPT
                    ![r].pc = "commit",
                    ![r].plan = [i \in Individuals |->
                                   [@[i] EXCEPT !.edges = ResolvedEdges(r, pick, i)]],
                    ![r].masters = @ \ masters]
    BY <1>5 DEF PlanRelations
  <2>2. run'[r].plan = [i \in Individuals |->
                          [run[r].plan[i] EXCEPT !.edges = ResolvedEdges(r, pick, i)]]
    BY <1>0, <2>1 DEF Run
  <2> SUFFICES ASSUME NEW i \in Individuals, run'[r].plan[i].class # None
               PROVE  run'[r].plan[i].ref = RefOf[i[2]]
    BY DEF OwnRef
  <2> DEFINE edges == ResolvedEdges(r, pick, i)
  <2>3. run[r].plan[i] \in Change /\ run'[r].plan[i] = [run[r].plan[i] EXCEPT !.edges = edges]
    BY <1>0, <2>2 DEF Run
  <2> HIDE DEF edges
  <2>4. QED
    BY <2>3 DEF Change, OwnRef
<1>6. CASE ReturnDry(r)
  BY <1>0, <1>6 DEF ReturnDry, Return, OwnRef, IdleRun, NoPlan, NoChange
<1>7. QED
  BY <1>1, <1>2, <1>3, <1>4, <1>5, <1>6 DEF Advance

\* A step of one run leaves the records of the others alone.
LEMMA OthersStay ==
  ASSUME TypeOK, NEW r \in Runs, NEW s \in Runs \ {r},
         \/ BeginReal(r) \/ RejectReal(r) \/ BeginDry(r) \/ Advance(r)
         \/ CommitOk(r) \/ CommitLost(r) \/ Abandon(r) \/ Fail(r)
  PROVE  run'[s] = run[s] /\ quiet'[s] = quiet[s]
<1>1. run \in [Runs -> Run] /\ quiet \in [Runs -> BOOLEAN]
  BY DEF TypeOK
<1>2. CASE BeginReal(r) \/ BeginDry(r) \/ RejectReal(r)
  BY <1>1, <1>2 DEF BeginReal, BeginDry, RejectReal
<1>3. ASSUME NEW res, Return(r, res) PROVE run'[s] = run[s] /\ quiet'[s] = quiet[s]
  BY <1>1, <1>3 DEF Return
<1>4. CASE CommitOk(r) \/ CommitLost(r) \/ Abandon(r) \/ Fail(r) \/ ReturnDry(r)
  BY <1>3, <1>4 DEF CommitOk, CommitLost, Abandon, Fail, ReturnDry
<1>6. CASE ReadMapping(r) \/ DiscoverKinds(r)
  BY <1>1, <1>6 DEF ReadMapping, DiscoverKinds
<1>7. ASSUME NEW k \in Kinds, SkipKind(r, k) \/ PlanKind(r, k)
      PROVE  run'[s] = run[s] /\ quiet'[s] = quiet[s]
  <2>1. CASE SkipKind(r, k)
    BY <1>1, <2>1 DEF SkipKind
  <2>2. CASE PlanKind(r, k)
    BY <1>1, <2>2 DEF PlanKind
  <2>3. QED
    BY <1>7, <2>1, <2>2
<1>8. CASE PlanRelations(r)
  BY <1>1, <1>8 DEF PlanRelations
<1>9. QED
  BY <1>2, <1>4, <1>6, <1>7, <1>8 DEF Advance

LEMMA OwnStep ==
  ASSUME TypeOK, RefsAreOwn, [Next]_vars
  PROVE  RefsAreOwn'
<1> DEFINE Refs1 == \A i \in Individuals : graph[i].ref \in {None, RefOf[i[2]]}
           Plans1 == \A r \in Runs : OwnRef(run[r].plan)
           Late1 == late # None => OwnRef(late.plan)
<1>0. run \in [Runs -> Run]
  BY DEF TypeOK
<1>1. OwnRef(NoPlan)
  BY DEF OwnRef, NoPlan, NoChange
<1>2. ASSUME NEW r \in Runs, OwnRef(run'[r].plan),
             \A s \in Runs \ {r} : run'[s] = run[s]
      PROVE  Plans1'
  BY <1>2 DEF RefsAreOwn, OwnRef
<1>3. ASSUME NEW r \in Runs, NEW res, Return(r, res)
      PROVE  Plans1'
  BY <1>0, <1>1, <1>2, <1>3 DEF Return, IdleRun
<1>4. ASSUME NEW r \in Runs, BeginReal(r) \/ BeginDry(r) PROVE RefsAreOwn'
  <2>1. OwnRef(run'[r].plan) /\ UNCHANGED <<graph, late>>
    BY <1>0, <1>1, <1>4 DEF BeginReal, BeginDry, IdleRun, store
  <2>2. Plans1'
    BY <1>2, <1>4, <2>1, OthersStay
  <2>3. QED
    BY <2>1, <2>2 DEF RefsAreOwn
<1>5. ASSUME NEW r \in Runs, RejectReal(r) PROVE RefsAreOwn'
  BY <1>5 DEF RejectReal, RefsAreOwn, store
<1>6. ASSUME NEW r \in Runs, Advance(r) PROVE RefsAreOwn'
  <2>1. OwnRef(run'[r].plan)
    BY <1>6, AdvanceOwn DEF RefsAreOwn
  <2>2. UNCHANGED <<graph, late>>
    BY <1>6 DEF Advance, ReadMapping, DiscoverKinds, SkipKind, PlanKind, PlanRelations, ReturnDry, store
  <2>3. Plans1'
    BY <1>2, <1>6, <2>1, OthersStay
  <2>4. QED
    BY <2>2, <2>3 DEF RefsAreOwn
<1>7. ASSUME NEW r \in Runs, CommitOk(r) \/ CommitLost(r) PROVE RefsAreOwn'
  <2>1. Execute(Ops(r)) /\ UNCHANGED late /\ Plans1'
    BY <1>3, <1>7 DEF CommitOk, CommitLost
  <2>2. OwnRef(Ops(r).plan)
    BY DEF Ops, RefsAreOwn
  <2>3. Refs1'
    BY <2>1, <2>2, ExecuteOwn, OpsType
  <2>4. QED
    BY <2>1, <2>3 DEF RefsAreOwn
<1>8. ASSUME NEW r \in Runs, Abandon(r) PROVE RefsAreOwn'
  <2>1. Plans1' /\ late' = Ops(r) /\ UNCHANGED graph
    BY <1>3, <1>8 DEF Abandon, store
  <2>2. OwnRef(Ops(r).plan)
    BY DEF Ops, RefsAreOwn
  <2>3. QED
    BY <2>1, <2>2 DEF RefsAreOwn, OwnRef
<1>9. ASSUME NEW r \in Runs, Fail(r) PROVE RefsAreOwn'
  <2>1. Plans1' /\ UNCHANGED <<late, graph>>
    BY <1>3, <1>9 DEF Fail, store
  <2>2. QED
    BY <2>1 DEF RefsAreOwn
<1>10. CASE ExecuteLate
  <2>1. Execute(late) /\ late # None /\ late' = None /\ UNCHANGED run
    BY <1>10 DEF ExecuteLate
  <2>2. Refs1'
    BY <2>1, ExecuteOwn DEF RefsAreOwn, TypeOK
  <2>3. QED
    BY <2>1, <2>2 DEF RefsAreOwn
<1>11. CASE Surroundings
  <2>1. UNCHANGED <<run, late>>
    BY <1>11 DEF Surroundings, ChangeEntity, SetBackstageKind, SetNamespace, SetRepresents,
                 EditIndividual, Changing
  <2>2. ASSUME NEW i \in Individuals, EditIndividual(i) PROVE Refs1'
    <3> SUFFICES ASSUME NEW j \in Individuals PROVE graph'[j].ref \in {None, RefOf[j[2]]}
      OBVIOUS
    <3>1. graph \in [Individuals -> Individual] /\ graph[i] \in Individual
      BY DEF TypeOK
    <3>2. graph'[j] \in {graph[j], [graph[j] EXCEPT !.note = TRUE], Nobody}
      BY <2>2, <3>1 DEF EditIndividual
    <3>3. graph[j] \in Individual
      BY <3>1
    <3>4. graph'[j].ref \in {graph[j].ref, None}
      BY <3>2, <3>3 DEF Individual, Nobody
    <3>5. QED
      BY <3>4 DEF RefsAreOwn
  <2>3. (\E i \in Individuals : EditIndividual(i)) \/ UNCHANGED graph
    BY <1>11 DEF Surroundings, ChangeEntity, SetBackstageKind, SetNamespace, SetRepresents
  <2>4. Refs1'
    BY <2>2, <2>3 DEF RefsAreOwn
  <2>5. QED
    BY <2>1, <2>4 DEF RefsAreOwn
<1>12. CASE UNCHANGED vars
  BY <1>12 DEF vars, RefsAreOwn
<1>13. QED
  BY <1>4, <1>5, <1>6, <1>7, <1>8, <1>9, <1>10, <1>11, <1>12 DEF Next

LEMMA UndisturbedInitially == Init => Undisturbed
<1> SUFFICES ASSUME Init PROVE Undisturbed
  OBVIOUS
<1>1. RefsAreOwn
  BY DEF Init, RefsAreOwn, OwnRef, Nobody, IdleRun, NoPlan, NoChange
<1>2. \A r \in Runs : QuietPlan(r)
  BY DEF Init, QuietPlan, RealRun, IdleRun
<1>3. QED
  BY <1>1, <1>2, GuardInitially DEF Undisturbed

\* Only the run itself, the surroundings and the Updates of real runs touch what a quiet
\* real run relies on; and while it is real, no other run is.
LEMMA UndisturbedInductive ==
  ASSUME Undisturbed, [Next]_vars
  PROVE  Undisturbed'
<1>0. Guard /\ TypeOK /\ RefsAreOwn /\ \A s \in Runs : QuietPlan(s)
  BY DEF Undisturbed, Guard
<1>1. Guard' /\ RefsAreOwn'
  BY <1>0, GuardInductive, OwnStep
<1>2. SUFFICES ASSUME NEW r \in Runs PROVE QuietPlan(r)'
  BY <1>1 DEF Undisturbed
<1>3. run \in [Runs -> Run] /\ quiet \in [Runs -> BOOLEAN]
  BY <1>0 DEF TypeOK
<1>4. ASSUME ~RealRun(r)' \/ ~quiet'[r] PROVE QuietPlan(r)'
  BY <1>4 DEF QuietPlan
<1>5. ASSUME NEW s \in Runs, BeginReal(s) \/ RejectReal(s) \/ BeginDry(s) PROVE QuietPlan(r)'
  <2>1. UNCHANGED <<upstream, config, graph>>
    BY <1>5 DEF BeginReal, RejectReal, BeginDry, world, store
  <2>2. CASE s = r /\ ~RejectReal(s)
    <3>1. run'[r].pc = "mapping" /\ run'[r].plan = NoPlan
      <4>1. run'[r] = [IdleRun EXCEPT !.pc = "mapping"] \/ run'[r] = [IdleRun EXCEPT !.pc = "mapping", !.dry = TRUE]
        BY <1>3, <1>5, <2>2 DEF BeginReal, BeginDry
      <4>2. QED
        BY <4>1 DEF IdleRun
    <3>2. QED
      BY <3>1 DEF QuietPlan
  <2>3. CASE s # r
    <3>1. run'[r] = run[r] /\ quiet'[r] = quiet[r]
      BY <1>0, <1>5, <2>3, OthersStay
    <3>2. QED
      BY <1>0, <2>1, <3>1, QuietFrame
  <2>4. CASE RejectReal(s)
    <3>1. run'[r] = run[r] /\ quiet'[r] = quiet[r]
      BY <2>4 DEF RejectReal
    <3>2. QED
      BY <1>0, <2>1, <3>1, QuietFrame
  <2>5. QED
    BY <2>2, <2>3, <2>4
<1>6. ASSUME NEW s \in Runs, Advance(s) PROVE QuietPlan(r)'
  <2>1. UNCHANGED <<upstream, config, graph>>
    BY <1>6 DEF Advance, ReadMapping, DiscoverKinds, SkipKind, PlanKind, PlanRelations, ReturnDry,
                world, store
  <2>2. CASE s = r
    <3>1. CASE ReturnDry(r)
      <4>1. run'[r] = IdleRun
        BY <1>3, <3>1 DEF ReturnDry, Return
      <4>2. QED
        BY <4>1, <1>4 DEF RealRun, IdleRun
    <3>2. QED
      BY <1>0, <1>6, <2>2, <3>1, FirstReadsTell, SkipTells, KindTells, RelationsTell DEF Advance
  <2>3. CASE s # r
    <3>1. run'[r] = run[r] /\ quiet'[r] = quiet[r]
      BY <1>0, <1>6, <2>3, OthersStay
    <3>2. QED
      BY <1>0, <2>1, <3>1, QuietFrame
  <2>4. QED
    BY <2>2, <2>3
<1>7. ASSUME NEW s \in Runs, CommitOk(s) \/ CommitLost(s) \/ Abandon(s) \/ Fail(s)
      PROVE  QuietPlan(r)'
  <2>1. CASE s = r
    <3>1. run'[r] = IdleRun
      BY <1>3, <1>7, <2>1 DEF CommitOk, CommitLost, Abandon, Fail, Return
    <3>2. QED
      BY <3>1, <1>4 DEF RealRun, IdleRun
  <2>2. CASE s # r
    <3>1. run'[r] = run[r] /\ quiet'[r] = quiet[r]
      BY <1>0, <1>7, <2>2, OthersStay
    <3>2. CASE Abandon(s) \/ Fail(s)
      <4>1. UNCHANGED <<upstream, config, graph>>
        BY <3>2 DEF Abandon, Fail, world, store
      <4>2. QED
        BY <1>0, <3>1, <4>1, QuietFrame
    <3>3. CASE CommitOk(s) \/ CommitLost(s)
      <4>1. RealRun(s)
        BY <3>3 DEF CommitOk, CommitLost, RealRun
      <4>2. ~RealRun(r)
        BY <1>0, <2>2, <4>1 DEF Guard, OneRealRun
      <4>3. QED
        BY <1>4, <3>1, <4>2 DEF RealRun
    <3>4. QED
      BY <1>7, <3>2, <3>3
  <2>3. QED
    BY <2>1, <2>2
<1>8. CASE ExecuteLate
  BY <1>4, <1>8 DEF ExecuteLate
<1>9. CASE Surroundings
  BY <1>4, <1>9 DEF Surroundings, ChangeEntity, SetBackstageKind, SetNamespace, SetRepresents,
                    EditIndividual, Changing
<1>10. CASE UNCHANGED vars
  BY <1>0, <1>10, QuietFrame DEF vars
<1>11. QED
  BY <1>5, <1>6, <1>7, <1>8, <1>9, <1>10 DEF Next

LEMMA UndisturbedInvariant == Spec => []Undisturbed
  BY UndisturbedInitially, UndisturbedInductive, PTL DEF Spec

\* An undisturbed commit is the one whose answer arrived.
LEMMA QuietCommitIsOk ==
  ASSUME TypeOK, [Next]_vars, NEW r \in Runs, QuietCommit(r)
  PROVE  CommitOk(r)
<1>0. run \in [Runs -> Run] /\ result \in [Runs -> {"none", "ok", "error", "busy"}]
  BY DEF TypeOK
<1>1. run'[r] # run[r] /\ run[r].pc = "commit" /\ ~run[r].dry /\ result'[r] = "ok" /\ run'[r].pc = "idle"
  BY DEF QuietCommit
<1>2. ASSUME NEW s \in Runs \ {r},
             \/ BeginReal(s) \/ RejectReal(s) \/ BeginDry(s) \/ Advance(s)
             \/ CommitOk(s) \/ CommitLost(s) \/ Abandon(s) \/ Fail(s)
      PROVE  FALSE
  BY <1>1, <1>2, OthersStay
<1>3. ~(BeginReal(r) \/ RejectReal(r) \/ BeginDry(r) \/ Advance(r))
  BY <1>1 DEF BeginReal, RejectReal, BeginDry, Advance, ReadMapping, DiscoverKinds, SkipKind,
              PlanKind, PlanRelations, ReturnDry
<1>4. ~(CommitLost(r) \/ Abandon(r) \/ Fail(r))
  BY <1>0, <1>1 DEF CommitLost, Abandon, Fail, Return
<1>5. ~(ExecuteLate \/ Surroundings \/ UNCHANGED vars)
  BY <1>1 DEF ExecuteLate, Surroundings, ChangeEntity, SetBackstageKind, SetNamespace,
              SetRepresents, EditIndividual, Changing, vars
<1>6. QED
  BY <1>2, <1>3, <1>4, <1>5 DEF Next

\* What such a commit does to an individual, in terms of what the run relied on.
LEMMA QuietCommitWrites ==
  ASSUME Undisturbed, [Next]_vars, NEW r \in Runs, QuietCommit(r)
  PROVE  /\ \A i \in Individuals : graph'[i] = Merged(graph[i], run[r].plan[i])
         /\ PlanTells(r) /\ EdgesTell(r)
         /\ \A e : Settled(r, e) <=> (e \in Present /\ Mapped(r, e))
         /\ run[r].represents = config.represents
<1>1. CommitOk(r)
  BY QuietCommitIsOk DEF Undisturbed, Guard
<1>2. \A i \in Individuals : graph'[i] = Merged(graph[i], run[r].plan[i])
  BY <1>1 DEF CommitOk, Execute, Ops
<1>3. RealRun(r) /\ quiet[r] /\ run[r].pc = "commit" /\ QuietPlan(r)
  BY DEF QuietCommit, RealRun, Undisturbed
<1>4. PlanTells(r) /\ EdgesTell(r) /\ run[r].todo = {} /\ run[r].represents = config.represents
  BY <1>3 DEF QuietPlan
<1>5. QED
  BY <1>2, <1>4 DEF Settled

\* The individual of a mapped entity, and what is planned for it.
LEMMA MappedIsPlanned ==
  ASSUME TypeOK, NEW r \in Runs, PlanTells(r), NEW e \in Present, Mapped(r, e), Settled(r, e)
  PROVE  /\ SyncedAs(r, e) \in Individuals /\ SyncedAs(r, e)[2] = e
         /\ Planned(r, SyncedAs(r, e)) /\ MergeIsFor(r, SyncedAs(r, e))
         /\ ClassFor(r, e) \in Classes
<1>1. e \in Entities /\ KindOf[e] \in Kinds
  BY KindOfAssumption DEF Present
<1>2. run[r].mapping \in [Kinds -> Classes \cup {None}] /\ config.home \in [Classes -> Namespaces \cup {None}]
  BY DEF TypeOK, Run, ConfigType
<1>3. ClassFor(r, e) \in Classes /\ config.home[ClassFor(r, e)] \in Namespaces
  BY <1>1, <1>2 DEF Mapped, ClassFor
<1>4. SyncedAs(r, e) \in Individuals /\ SyncedAs(r, e)[2] = e
  BY <1>1, <1>3 DEF SyncedAs, iri, Individuals
<1>5. Planned(r, SyncedAs(r, e))
  BY <1>4 DEF Planned
<1>6. QED
  BY <1>3, <1>4, <1>5 DEF PlanTells

\* An undisturbed sync makes every mapped entity an individual of its class, with its own
\* ref, attribute and represents link, for any catalogue, mapping and earlier history.
THEOREM QuietSyncsMirror == Spec => QuietSyncMirrors
<1> DEFINE Mirrors(r) == QuietCommit(r) =>
       \A e \in Present : Mapped(r, e) =>
         LET g == graph'[SyncedAs(r, e)]
             c == ClassFor(r, e)
             content == upstream[e]
         IN  /\ g.synced /\ g.type = {c} /\ g.ref = RefOf[e]
             /\ ShapeOf[c].field = "repeatable" => g.value = content.field
             /\ ShapeOf[c].field = "single" => (g.value = "scalar" <=> content.field = "scalar")
             /\ config.represents =>
                  \A t \in Targets :
                    g.link = t <=> (content.annotation = t /\ t \in config.targets /\ ShapeOf[c].represents)
<1>1. ASSUME Undisturbed, [Next]_vars, NEW r \in Runs PROVE Mirrors(r)
  <2> SUFFICES ASSUME QuietCommit(r), NEW e \in Present, Mapped(r, e)
               PROVE
         LET g == graph'[SyncedAs(r, e)]
             c == ClassFor(r, e)
             content == upstream[e]
         IN  /\ g.synced /\ g.type = {c} /\ g.ref = RefOf[e]
             /\ ShapeOf[c].field = "repeatable" => g.value = content.field
             /\ ShapeOf[c].field = "single" => (g.value = "scalar" <=> content.field = "scalar")
             /\ config.represents =>
                  \A t \in Targets :
                    g.link = t <=> (content.annotation = t /\ t \in config.targets /\ ShapeOf[c].represents)
    OBVIOUS
  <2> DEFINE i == SyncedAs(r, e)
             g == graph'[i]
             c == ClassFor(r, e)
             ch == run[r].plan[i]
             content == upstream[e]
  <2>0. TypeOK
    BY <1>1 DEF Undisturbed, Guard
  <2>1. /\ \A j \in Individuals : graph'[j] = Merged(graph[j], run[r].plan[j])
        /\ PlanTells(r) /\ Settled(r, e) /\ run[r].represents = config.represents
    BY <1>1, QuietCommitWrites
  <2>2. i \in Individuals /\ i[2] = e /\ MergeIsFor(r, i) /\ c \in Classes
    BY <2>0, <2>1, MappedIsPlanned
  <2>3. /\ ch.class = c /\ c # None /\ ch.ref = RefOf[e]
        /\ ch.value = MappedValue(c, content) /\ ch.link = RepresentsLink(r, c, content)
    BY <2>2 DEF MergeIsFor, Mapped
  <2>4. g = Merged(graph[i], ch)
    BY <2>1, <2>2
  <2>5. content \in ContentType /\ ShapeOf[c] \in ShapeType
    BY <2>0, <2>2, ContentsAssumption, ShapeOfAssumption DEF Present, TypeOK, Catalogues
  <2> HIDE DEF i, g, c, ch, content
  <2>6. g.synced /\ g.type = {c} /\ g.ref = RefOf[e]
    <3>1. g.type = {c} /\ g.ref = RefOf[e]
      BY <2>3, <2>4 DEF Merged
    <3>2. g.synced = (graph[i].synced \/ ch.class # None)
      BY <2>4 DEF Merged
    <3>3. QED
      BY <2>3, <3>1, <3>2, Zenon
  <2>7. g.value = IF ch.value = Keep THEN graph[i].value ELSE ch.value
    BY <2>4 DEF Merged
  <2>8. content.field \in Values /\ Keep \notin Values
    BY <2>5, MarkersAssumption DEF ContentType
  <2>9. ShapeOf[c].field = "repeatable" => g.value = content.field
    BY <2>3, <2>7, <2>8 DEF MappedValue
  <2>10. ShapeOf[c].field = "single" => (g.value = "scalar" <=> content.field = "scalar")
    BY <2>3, <2>7, <2>8 DEF MappedValue, Values
  <2>11. ASSUME config.represents, NEW t \in Targets
         PROVE  g.link = t <=> (content.annotation = t /\ t \in config.targets /\ ShapeOf[c].represents)
    <3>1. ch.link = IF ShapeOf[c].represents /\ content.annotation \in config.targets
                    THEN content.annotation ELSE None
      BY <2>1, <2>3, <2>11 DEF RepresentsLink
    <3>2. g.link = IF ch.link = Keep THEN graph[i].link ELSE ch.link
      BY <2>4 DEF Merged
    <3>3. config.targets \subseteq Targets /\ Keep \notin Targets /\ None \notin Targets /\ Keep # None
      BY <2>0, MarkersAssumption DEF TypeOK, ConfigType
    <3>4. ch.link # Keep
      BY <3>1, <3>3
    <3>5. QED
      BY <3>1, <3>2, <3>3, <3>4
  <2>12. QED
    BY <2>6, <2>9, <2>10, <2>11 DEF i, g, c, content
<1>2. Undisturbed /\ [Next]_vars => [\A r \in Runs : Mirrors(r)]_vars
  BY <1>1
<1>3. QED
  BY <1>2, UndisturbedInvariant, PTL DEF Spec, QuietSyncMirrors

\* In an undisturbed sync every relation to an entity that is synced in the same run gets
\* its edge, whatever the order of the kinds, to the individual the entity is synced as now
\* and to no older one; and no edge outside the entity's relations survives beside it.
THEOREM QuietSyncsRelate == Spec => QuietSyncRelates
<1> DEFINE Relates(r) == QuietCommit(r) =>
       \A e \in Present : (Mapped(r, e) /\ ShapeOf[ClassFor(r, e)].relation) =>
         LET edges == graph'[SyncedAs(r, e)].edges
             hit == {x \in Present : Mapped(r, x) /\ RefOf[x] \in upstream[e].relations}
         IN  /\ \A x \in hit : {j \in edges : graph'[j].ref = RefOf[x]} = {SyncedAs(r, x)}
             /\ hit # {} => \A j \in edges : graph'[j].ref \in upstream[e].relations
<1>1. ASSUME Undisturbed, [Next]_vars, NEW r \in Runs PROVE Relates(r)
  <2> SUFFICES ASSUME QuietCommit(r), NEW e \in Present, Mapped(r, e), ShapeOf[ClassFor(r, e)].relation
               PROVE
         LET edges == graph'[SyncedAs(r, e)].edges
             hit == {x \in Present : Mapped(r, x) /\ RefOf[x] \in upstream[e].relations}
         IN  /\ \A x \in hit : {j \in edges : graph'[j].ref = RefOf[x]} = {SyncedAs(r, x)}
             /\ hit # {} => \A j \in edges : graph'[j].ref \in upstream[e].relations
    OBVIOUS
  <2> DEFINE i == SyncedAs(r, e)
             named == upstream[e].relations
             edges == graph'[i].edges
             hit == {x \in Present : Mapped(r, x) /\ RefOf[x] \in named}
             ch == run[r].plan[i]
  <2>0. TypeOK /\ RefsAreOwn
    BY <1>1 DEF Undisturbed, Guard
  <2>1. /\ \A j \in Individuals : graph'[j] = Merged(graph[j], run[r].plan[j])
        /\ PlanTells(r) /\ EdgesTell(r)
        /\ \A x : Settled(r, x) <=> (x \in Present /\ Mapped(r, x))
    BY <1>1, QuietCommitWrites
  <2>2. i \in Individuals /\ MergeIsFor(r, i) /\ ClassFor(r, e) \in Classes
    BY <2>0, <2>1, MappedIsPlanned
  <2>3. ch.class = ClassFor(r, e) /\ ch.class # None /\ run[r].relations[i] = named
    <3>1. i[2] = e
      BY DEF SyncedAs, iri
    <3>2. QED
      BY <2>2, <3>1 DEF MergeIsFor, Mapped
  <2>4. named \subseteq Refs
    BY <2>0, ContentsAssumption DEF Present, TypeOK, Catalogues, ContentType
  <2>5. PICK pick \in Resolutions(r) :
          \A j \in Individuals : run[r].plan[j].edges = ResolvedEdges(r, pick, j)
    BY <2>1 DEF EdgesTell
  <2>6. ch.edges = {pick[ref] : ref \in named} \ {None}
    BY <2>2, <2>3, <2>5 DEF ResolvedEdges
  <2>7. graph'[i] = Merged(graph[i], ch)
    BY <2>1, <2>2
  <2>8. edges = IF ch.edges = {} THEN graph[i].edges ELSE ch.edges
    BY <2>7 DEF Merged
  <2>9. \A j \in Individuals : graph'[j].ref = IF run[r].plan[j].class = None THEN graph[j].ref
                                               ELSE run[r].plan[j].ref
    <3>1. \A j \in Individuals : graph'[j] = Merged(graph[j], run[r].plan[j])
      BY <2>1
    <3>2. QED
      BY <3>1, MergedRef
  <2>10. ASSUME NEW x \in hit
         PROVE  SyncedAs(r, x) \in ch.edges /\ SyncedAs(r, x) = pick[RefOf[x]]
                /\ graph'[SyncedAs(r, x)].ref = RefOf[x]
    <3>1. x \in Present /\ Mapped(r, x) /\ Settled(r, x) /\ RefOf[x] \in named
      BY <2>1
    <3> DEFINE own == SyncedAs(r, x)
               ref == RefOf[x]
    <3>2. own \in Individuals /\ own[2] = x /\ MergeIsFor(r, own)
      BY <2>0, <2>1, <3>1, MappedIsPlanned
    <3>3. own \in Minted(r, ref)
      BY <3>1, <3>2 DEF MergeIsFor, Mapped, Minted
    <3>4. pick[ref] \in Minted(r, ref)
      BY <2>4, <3>1, <3>3 DEF Resolutions, Candidates
    <3>5. pick[ref] \in Individuals /\ pick[ref] # None /\ graph'[pick[ref]].ref = ref
      BY <2>9, <3>4, MarkersAssumption DEF Minted, Individuals
    <3>6. pick[ref] = own
      <4> DEFINE j == pick[ref]
      <4>1. j \in Individuals /\ run[r].plan[j].class # None /\ run[r].plan[j].ref = ref
        BY <3>4 DEF Minted
      <4>2. RefOf[j[2]] = ref
        BY <2>0, <4>1 DEF RefsAreOwn, OwnRef
      <4>3. Planned(r, j)
        BY <2>1, <4>1 DEF PlanTells, NoMergeFor
      <4>4. j[2] \in Present /\ j = SyncedAs(r, j[2])
        BY <2>1, <4>3 DEF Planned
      <4>5. j[2] = x
        BY <2>0, <3>1, <4>2, <4>4 DEF Present, TypeOK, Catalogues
      <4>6. QED
        BY <4>4, <4>5
    <3>7. pick[ref] \in ch.edges
      BY <2>6, <3>1, <3>5
    <3>8. QED
      BY <3>5, <3>6, <3>7
  <2>11. ASSUME NEW j \in ch.edges PROVE graph'[j].ref \in named /\ j = pick[graph'[j].ref]
    <3>1. PICK ref \in named : j = pick[ref]
      BY <2>6
    <3>2. j # None /\ ref \in Refs
      BY <2>4, <2>6
    <3>3. j \in Candidates(r, ref)
      BY <3>1, <3>2 DEF Resolutions
    <3>4. j \in Individuals
      BY <3>3 DEF Candidates, Minted, Stored
    <3>5. CASE j \in Minted(r, ref)
      BY <2>9, <3>1, <3>4, <3>5 DEF Minted
    <3>6. CASE j \in Stored(ref) /\ Minted(r, ref) = {}
      <4>1. graph[j].ref = ref /\ ref # None
        BY <3>2, <3>6, MarkersAssumption DEF Stored
      <4>2. ref = RefOf[j[2]]
        BY <2>0, <3>4, <4>1 DEF RefsAreOwn
      <4>3. run[r].plan[j].class = None
        BY <2>0, <3>4, <3>6, <4>2 DEF RefsAreOwn, OwnRef, Minted
      <4>4. graph'[j].ref = graph[j].ref
        BY <2>9, <3>4, <4>3
      <4>5. QED
        BY <3>1, <4>1, <4>4
    <3>7. QED
      BY <3>3, <3>5, <3>6 DEF Candidates
  <2> HIDE DEF i, edges, hit, ch
  <2>12. \A x \in hit : ch.edges # {}
    BY <2>10
  <2>13. \A x \in hit : {j \in edges : graph'[j].ref = RefOf[x]} = {SyncedAs(r, x)}
    BY <2>8, <2>10, <2>11, <2>12
  <2>14. hit # {} => \A j \in edges : graph'[j].ref \in named
    BY <2>8, <2>11, <2>12
  <2>15. QED
    BY <2>13, <2>14 DEF i, edges, hit
<1>2. Undisturbed /\ [Next]_vars => [\A r \in Runs : Relates(r)]_vars
  BY <1>1
<1>3. QED
  BY <1>2, UndisturbedInvariant, PTL DEF Spec, QuietSyncRelates

\* An undisturbed sync flags exactly what it looks for and does not find, unflags what it
\* finds again under the same class, and leaves every other flag alone.
THEOREM QuietSyncsFlag == Spec => QuietSyncFlags
<1> DEFINE Flags(r) == QuietCommit(r) =>
       \A i \in Individuals :
         IF i \in Seen(r) THEN graph[i].type \subseteq graph'[i].type => ~graph'[i].stale
         ELSE graph'[i].stale <=> (graph[i].stale \/ i \in Watched(r))
<1>1. ASSUME Undisturbed, [Next]_vars, NEW r \in Runs PROVE Flags(r)
  <2> SUFFICES ASSUME QuietCommit(r), NEW i \in Individuals
               PROVE  IF i \in Seen(r) THEN graph[i].type \subseteq graph'[i].type => ~graph'[i].stale
                      ELSE graph'[i].stale <=> (graph[i].stale \/ i \in Watched(r))
    OBVIOUS
  <2> DEFINE ch == run[r].plan[i]
  <2>0. TypeOK
    BY <1>1 DEF Undisturbed, Guard
  <2>1. /\ graph'[i] = Merged(graph[i], ch) /\ PlanTells(r)
        /\ \A x : Settled(r, x) <=> (x \in Present /\ Mapped(r, x))
    BY <1>1, QuietCommitWrites
  <2>2. /\ graph'[i].stale = (ch.status = "flag" \/ (ch.status = "keep" /\ graph[i].stale))
        /\ graph'[i].type = IF ch.class = None THEN graph[i].type ELSE {ch.class}
    BY <2>1 DEF Merged
  <2>3. i \in Seen(r) <=> Planned(r, i)
    <3>1. i \in Seen(r) => Planned(r, i)
      BY <2>0, <2>1, MappedIsPlanned DEF Seen
    <3>2. Planned(r, i) => i \in Seen(r)
      BY <2>1 DEF Planned, Seen
    <3>3. QED
      BY <3>1, <3>2
  <2>4. CASE i \in Seen(r)
    <3>1. MergeIsFor(r, i) /\ Settled(r, i[2])
      BY <2>1, <2>3, <2>4 DEF PlanTells, Planned
    <3>2. ch.class = ClassFor(r, i[2]) /\ ch.class # None
      BY <2>1, <3>1 DEF MergeIsFor, Mapped
    <3>3. ch.status = "clear" \/ (ch.status = "flag" /\ \E c \in graph[i].type : c # ch.class)
      BY <3>1 DEF MergeIsFor
    <3> HIDE DEF ch
    <3>4. graph[i].type \subseteq graph'[i].type => ch.status = "clear"
      BY <2>2, <3>2, <3>3
    <3>5. ch.status = "clear" => ~graph'[i].stale
      BY <2>2
    <3>6. QED
      BY <2>4, <3>4, <3>5
  <2>5. CASE i \notin Seen(r)
    <3>1. ch.status = IF Missed(r, i) THEN "flag" ELSE "keep"
      BY <2>1, <2>3, <2>5 DEF PlanTells, NoMergeFor
    <3>2. Missed(r, i) <=> i \in Watched(r)
      BY <2>1 DEF Missed, Watched, Present
    <3> HIDE DEF ch
    <3>3. graph'[i].stale <=> (graph[i].stale \/ i \in Watched(r))
      <4>1. CASE i \in Watched(r)
        BY <2>2, <3>1, <3>2, <4>1
      <4>2. CASE i \notin Watched(r)
        <5>1. ch.status = "keep"
          BY <3>1, <3>2, <4>2
        <5>2. graph'[i].stale = (FALSE \/ (TRUE /\ graph[i].stale))
          BY <2>2, <5>1
        <5>3. QED
          BY <4>2, <5>2, Zenon
      <4>3. QED
        BY <4>1, <4>2
    <3>4. QED
      BY <2>5, <3>3
  <2>6. QED
    BY <2>4, <2>5
<1>2. Undisturbed /\ [Next]_vars => [\A r \in Runs : Flags(r)]_vars
  BY <1>1
<1>3. QED
  BY <1>2, UndisturbedInvariant, PTL DEF Spec, QuietSyncFlags
=============================================================================

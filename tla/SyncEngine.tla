----------------------------- MODULE SyncEngine -----------------------------
(***************************************************************************)
(* The ingestion engine of the backend (internal/sync): Engine.RunSync,    *)
(* run by the background worker and by the manual trigger for ONE source.  *)
(* A run takes the in-flight guard (unless it is a dry run), reads the     *)
(* mapping, the catalogue and the graph step by step, plans every merge in *)
(* memory, and sends all of it as one Update.  Users edit mapping and      *)
(* individuals meanwhile, and the catalogue changes.                       *)
(*                                                                         *)
(* The ops of a run are a sequence of DELETE/INSERT pairs, each on one     *)
(* (individual, predicate).  Their joint effect on an individual is the    *)
(* last write per predicate, so a plan maps each individual to one Change. *)
(***************************************************************************)
EXTENDS Naturals, FiniteSets

CONSTANTS
  Kinds, Classes, Namespaces, Entities, Refs, Targets,
  KindOf,       \* the kind of each upstream entity
  RefOf,        \* its SourceRef; a recreated entity has a new uid and the old ref
  Contents,     \* what an entity can hold: field, relations, annotation
  ShapeOf,      \* what each class's SHACL shape maps: field, relation, represents
  Runs,         \* run slots: the worker's tick and the manual triggers
  Triggers,     \* the manual ones, which alone may ask for a dry run
  Settings,     \* the configurations users may have made before the first run
  Environment,  \* which changes, and which failures, happen around the runs
  MaxChanges,   \* bound: how many of them
  SourceNamespace,  \* where the source's own SystemOfWork individual lives
  None, Keep    \* no value; leave the predicate alone

Values == {"absent", "scalar", "list"}

ContentType == [field : Values, relations : SUBSET Refs, annotation : Targets \cup {None}]
ShapeType == [field : {"none", "single", "repeatable"}, relation : BOOLEAN, represents : BOOLEAN]

ASSUME KindOfAssumption == KindOf \in [Entities -> Kinds]
ASSUME RefOfAssumption == RefOf \in [Entities -> Refs]
ASSUME ContentsAssumption == Contents \subseteq ContentType
ASSUME ShapeOfAssumption == ShapeOf \in [Classes -> ShapeType]
ConfigType == [kind : [Classes -> Kinds \cup {None}],
               home : [Classes -> Namespaces \cup {None}],
               represents : BOOLEAN, targets : SUBSET Targets]
ASSUME SettingsAssumption == Settings \subseteq ConfigType
ASSUME TriggersAssumption == Triggers \subseteq Runs
ASSUME SourceNamespaceAssumption == SourceNamespace \in Namespaces
ASSUME MaxChangesAssumption == MaxChanges \in Nat
ASSUME MarkersAssumption ==
  /\ Keep # None
  /\ {None, Keep} \cap (Classes \cup Targets \cup Namespaces \cup Kinds \cup Refs \cup Contents) = {}
  /\ {None, Keep} \cap Values = {} /\ None \notin Namespaces \X Entities

\* The states of the catalogue: an entity ref names one entity at a time.
Catalogues ==
  {u \in [Entities -> Contents \cup {None}] :
     \A e, f \in Entities : (u[e] # None /\ u[f] # None /\ RefOf[e] = RefOf[f]) => e = f}

\* individualIRI: the class's Concept Namespace and the entity's uid.
Individuals == Namespaces \X Entities
iri(ns, e) == <<ns, e>>

Individual == [
  type : SUBSET Classes, synced : BOOLEAN, ref : Refs \cup {None}, stale : BOOLEAN,
  value : Values, link : Targets \cup {None}, edges : SUBSET Individuals, note : BOOLEAN]

Nobody == [type |-> {}, synced |-> FALSE, ref |-> None, stale |-> FALSE,
           value |-> "absent", link |-> None, edges |-> {}, note |-> FALSE]

\* What a run writes on one individual: a merge has a class; `edges' = {} leaves the
\* relation alone, since the pair is only deleted before its first resolved edge.
Change == [
  class : Classes \cup {None}, ref : Refs \cup {None}, status : {"keep", "clear", "flag"},
  value : Values \cup {Keep}, link : Targets \cup {None, Keep}, edges : SUBSET Individuals]

NoChange == [class |-> None, ref |-> None, status |-> "keep",
             value |-> Keep, link |-> Keep, edges |-> {}]
NoPlan == [i \in Individuals |-> NoChange]

\* The whole Update of a run: its plan, the namespaces it declares, the isMasterFor classes.
Batch == [plan : [Individuals -> Change], declare : SUBSET Namespaces, masters : SUBSET Classes]

ASSUME NoneIsNoBatch == None \notin Batch

Phases == {"idle", "mapping", "discover", "kinds", "relations", "commit"}

Run == [
  pc : Phases, dry : BOOLEAN, mapping : [Kinds -> Classes \cup {None}], represents : BOOLEAN,
  todo : SUBSET Kinds, plan : [Individuals -> Change], relations : [Individuals -> SUBSET Refs],
  declare : SUBSET Namespaces, masters : SUBSET Classes]

IdleRun == [
  pc |-> "idle", dry |-> FALSE, mapping |-> [k \in Kinds |-> None], represents |-> FALSE,
  todo |-> {}, plan |-> NoPlan, relations |-> [i \in Individuals |-> {}],
  declare |-> {}, masters |-> {}]

VARIABLES
  upstream,   \* the catalogue: the content of each entity, None when absent
  config,     \* per class its backstageKind and its namespace; the represents setting;
              \* the individuals a represents annotation may name
  graph,      \* the individuals
  declared,   \* the namespaces with a declaration
  masters,    \* the classes the source is asserted isMasterFor
  inFlight,   \* Engine.inFlight[source]
  run,        \* the runs in progress
  result,     \* the outcome of the last run of each slot
  late,       \* an Update whose request was abandoned and is still being executed, or None
  quiet,      \* history: nothing changed around the run since it began
  changes     \* bound on the environment

vars == <<upstream, config, graph, declared, masters, inFlight, run, result, late, quiet, changes>>
store == <<graph, declared, masters>>
world == <<upstream, config, changes>>
-----------------------------------------------------------------------------
Present == {e \in Entities : upstream[e] # None}

\* Any state the users and the catalogue may have reached before the first sync.
Init ==
  /\ upstream \in Catalogues
  /\ config \in Settings
  /\ graph = [i \in Individuals |-> Nobody]
  /\ declared = {}
  /\ masters = {}
  /\ inFlight = FALSE
  /\ run = [r \in Runs |-> IdleRun]
  /\ result = [r \in Runs |-> "none"]
  /\ late = None
  /\ quiet = [r \in Runs |-> FALSE]
  /\ changes = 0

\* RunSync(dryRun = false): take the guard.
BeginReal(r) ==
  /\ run[r].pc = "idle"
  /\ ~inFlight
  /\ inFlight' = TRUE
  /\ run' = [run EXCEPT ![r] = [IdleRun EXCEPT !.pc = "mapping"]]
  /\ quiet' = [quiet EXCEPT ![r] = TRUE]
  /\ UNCHANGED <<world, store, result, late>>

\* ErrSyncInProgress: another real run holds the guard.
RejectReal(r) ==
  /\ run[r].pc = "idle"
  /\ inFlight
  /\ result' = [result EXCEPT ![r] = "busy"]
  /\ UNCHANGED <<world, store, inFlight, run, late, quiet>>

\* RunSync(dryRun = true): the guard is neither tested nor taken.
BeginDry(r) ==
  /\ r \in Triggers
  /\ run[r].pc = "idle"
  /\ run' = [run EXCEPT ![r] = [IdleRun EXCEPT !.pc = "mapping", !.dry = TRUE]]
  /\ quiet' = [quiet EXCEPT ![r] = TRUE]
  /\ UNCHANGED <<world, store, inFlight, result, late>>

\* Several classes may carry one kind: the last binding of the answer wins, in an
\* order the store chooses.
KindMappings ==
  {m \in [Kinds -> Classes \cup {None}] :
     \A k \in Kinds : LET of == {c \in Classes : config.kind[c] = k}
                      IN  IF of = {} THEN m[k] = None ELSE m[k] \in of}

\* FetchKindMapping and FetchRepresentsPredicateIri.
ReadMapping(r) ==
  /\ run[r].pc = "mapping"
  /\ \E m \in KindMappings :
       run' = [run EXCEPT ![r].pc = "discover", ![r].mapping = m,
                          ![r].represents = config.represents]
  /\ UNCHANGED <<world, store, inFlight, result, late, quiet>>

\* DiscoverKinds, then planBootstrap of the source's own namespace.
DiscoverKinds(r) ==
  /\ run[r].pc = "discover"
  /\ run' = [run EXCEPT ![r].pc = "kinds",
                        ![r].todo = {KindOf[e] : e \in Present},
                        ![r].declare = {SourceNamespace} \ declared]
  /\ UNCHANGED <<world, store, inFlight, result, late, quiet>>

\* A kind without a class, or whose class is declared nowhere, is skipped.
SkipKind(r, k) ==
  /\ run[r].pc = "kinds" /\ k \in run[r].todo
  /\ LET c == run[r].mapping[k] IN c # None => config.home[c] = None
  /\ run' = [run EXCEPT ![r].todo = @ \ {k}]
  /\ UNCHANGED <<world, store, inFlight, result, late, quiet>>

\* mappedAttributeOps: always cleared, and an array only fits a repeatable property.
MappedValue(c, content) ==
  IF ShapeOf[c].field = "none" THEN Keep
  ELSE IF content.field = "list" /\ ShapeOf[c].field = "single" THEN "absent"
  ELSE content.field

\* resolveRepresentsTarget and representsOps: always cleared while the setting is on,
\* written when the annotation names an individual of the required type.
RepresentsLink(r, c, content) ==
  IF ~run[r].represents THEN Keep
  ELSE IF ShapeOf[c].represents /\ content.annotation \in config.targets
  THEN content.annotation ELSE None

\* Mutant of MergeChange: the stale flag of an entity that is back is not cleared.
MergeChange_KeepsFlag(r, c, e) ==
  [class |-> c, ref |-> RefOf[e], status |-> "keep",
   value |-> MappedValue(c, upstream[e]), link |-> RepresentsLink(r, c, upstream[e]),
   edges |-> {}]

\* Mutant of MergeChange: the attribute is only written when it is there, never cleared.
MergeChange_NoValue(r, c, e) ==
  [class |-> c, ref |-> RefOf[e], status |-> "clear",
   value |-> IF MappedValue(c, upstream[e]) = "absent" THEN Keep ELSE MappedValue(c, upstream[e]),
   link |-> RepresentsLink(r, c, upstream[e]),
   edges |-> {}]

\* mergeWriteOps and the per-entity ops that follow it.
MergeChange(r, c, e) ==
  [class |-> c, ref |-> RefOf[e], status |-> "clear",
   value |-> MappedValue(c, upstream[e]), link |-> RepresentsLink(r, c, upstream[e]),
   edges |-> {}]

\* fetchExistingSyncedIRIs: what an earlier run merged under this class, in this namespace.
Existing(c, ns) ==
  {i \in Individuals : i[1] = ns /\ c \in graph[i].type /\ graph[i].synced}

\* Mutant of PlannedKind: the individuals the fetch no longer has are not flagged.
PlannedKind_NoStale(r, k, c, ns) ==
  LET seen == {iri(ns, e) : e \in {x \in Present : KindOf[x] = k}}
  IN  [i \in Individuals |-> IF i \in seen THEN MergeChange(r, c, i[2]) ELSE run[r].plan[i]]

\* The ops of one kind: a merge per entity, then a stale flag per unseen individual.
PlannedKind(r, k, c, ns) ==
  LET seen == {iri(ns, e) : e \in {x \in Present : KindOf[x] = k}}
  IN  [i \in Individuals |->
         IF i \in seen THEN MergeChange(r, c, i[2])
         ELSE IF i \in Existing(c, ns) THEN [run[r].plan[i] EXCEPT !.status = "flag"]
         ELSE run[r].plan[i]]

\* One iteration of RunSync's loop over the kinds, for a kind mapped to a class.
PlanKind(r, k) ==
  LET c == run[r].mapping[k] IN
  /\ run[r].pc = "kinds" /\ k \in run[r].todo
  /\ c # None
  /\ config.home[c] # None
  /\ LET ns == config.home[c]
         fetched == {e \in Present : KindOf[e] = k}
     IN  run' = [run EXCEPT ![r].todo = @ \ {k},
                   ![r].plan = PlannedKind(r, k, c, ns),
                   ![r].relations = [i \in Individuals |->
                      IF i[1] = ns /\ i[2] \in fetched THEN upstream[i[2]].relations ELSE @[i]],
                   ![r].declare = @ \cup ({ns} \ declared),
                   ![r].masters = IF fetched = {} THEN @ ELSE @ \cup {c}]
  /\ UNCHANGED <<world, store, inFlight, result, late, quiet>>

\* A target minted this run is known from the run itself; any other from the graph,
\* whichever individual with that ref the store answers with.
Minted(r, ref) == {i \in Individuals : run[r].plan[i].class # None /\ run[r].plan[i].ref = ref}
Stored(ref) == {i \in Individuals : graph[i].ref = ref}

\* Mutant of Candidates: the graph is asked first, and may know an older individual.
Candidates_GraphFirst(r, ref) == IF Stored(ref) # {} THEN Stored(ref) ELSE Minted(r, ref)

Candidates(r, ref) == IF Minted(r, ref) # {} THEN Minted(r, ref) ELSE Stored(ref)

Resolutions(r) ==
  {pick \in [Refs -> Individuals \cup {None}] :
     \A ref \in Refs : IF Candidates(r, ref) = {} THEN pick[ref] = None
                       ELSE pick[ref] \in Candidates(r, ref)}

\* planRelationEdges: only an individual merged this run, of a class whose shape has the
\* property, gets edges, and only to the targets that resolve.
ResolvedEdges(r, pick, i) ==
  LET c == run[r].plan[i].class
  IN  IF c # None /\ (c # None => ShapeOf[c].relation)
      THEN {pick[ref] : ref \in run[r].relations[i]} \ {None} ELSE {}

\* planRelationEdges over the whole run, then planIsMasterForAssertions.
PlanRelations(r) ==
  /\ run[r].pc = "kinds" /\ run[r].todo = {}
  /\ \E pick \in Resolutions(r) :
       run' = [run EXCEPT
                 ![r].pc = "commit",
                 ![r].plan = [i \in Individuals |->
                                [@[i] EXCEPT !.edges = ResolvedEdges(r, pick, i)]],
                 ![r].masters = @ \ masters]
  /\ UNCHANGED <<world, store, inFlight, result, late, quiet>>

\* Mutant of Merged: a merge replaces the individual, what users added to it included.
Merged_Replaces(g, ch) == [
  type |-> IF ch.class = None THEN g.type ELSE {ch.class},
  synced |-> g.synced \/ ch.class # None, ref |-> IF ch.class = None THEN g.ref ELSE ch.ref,
  stale |-> ch.status = "flag" \/ (ch.status = "keep" /\ g.stale),
  value |-> IF ch.value = Keep THEN g.value ELSE ch.value,
  link |-> IF ch.link = Keep THEN g.link ELSE ch.link,
  edges |-> IF ch.edges = {} THEN g.edges ELSE ch.edges,
  note |-> g.note /\ ch.class = None]

\* The DELETE/INSERT pairs of one change, applied to the individual.
Merged(g, ch) == [
  type   |-> IF ch.class = None THEN g.type ELSE {ch.class},
  synced |-> g.synced \/ ch.class # None,
  ref    |-> IF ch.class = None THEN g.ref ELSE ch.ref,
  stale  |-> ch.status = "flag" \/ (ch.status = "keep" /\ g.stale),
  value  |-> IF ch.value = Keep THEN g.value ELSE ch.value,
  link   |-> IF ch.link = Keep THEN g.link ELSE ch.link,
  edges  |-> IF ch.edges = {} THEN g.edges ELSE ch.edges,
  note   |-> g.note]

Ops(r) == [plan |-> run[r].plan, declare |-> run[r].declare, masters |-> run[r].masters]

\* gdb.Update of the joined ops: one request, all or nothing.
Execute(ops) ==
  /\ graph' = [i \in Individuals |-> Merged(graph[i], ops.plan[i])]
  /\ declared' = declared \cup ops.declare
  /\ masters' = masters \cup ops.masters

\* Mutant of Return: an error leaves the guard taken.
Return_KeepsGuard(r, res) ==
  /\ run' = [run EXCEPT ![r] = IdleRun]
  /\ result' = [result EXCEPT ![r] = res]
  /\ inFlight' = IF run[r].dry \/ res = "error" THEN inFlight ELSE FALSE
  /\ quiet' = [quiet EXCEPT ![r] = FALSE]

\* Mutant of Return: a dry run releases the guard a real run holds.
Return_DryReleases(r, res) ==
  /\ run' = [run EXCEPT ![r] = IdleRun]
  /\ result' = [result EXCEPT ![r] = res]
  /\ inFlight' = FALSE
  /\ quiet' = [quiet EXCEPT ![r] = FALSE]

\* RunSync returns: the deferred delete runs on every path of a real run.
Return(r, res) ==
  /\ run' = [run EXCEPT ![r] = IdleRun]
  /\ result' = [result EXCEPT ![r] = res]
  /\ inFlight' = IF run[r].dry THEN inFlight ELSE FALSE
  /\ quiet' = [quiet EXCEPT ![r] = FALSE]

CommitOk(r) ==
  /\ run[r].pc = "commit" /\ ~run[r].dry
  /\ Execute(Ops(r))
  /\ Return(r, "ok")
  /\ UNCHANGED <<world, late>>

\* The Update is executed but its answer is lost: RunSync returns an error.
CommitLost(r) ==
  /\ run[r].pc = "commit" /\ ~run[r].dry
  /\ Execute(Ops(r))
  /\ Return(r, "error")
  /\ UNCHANGED <<world, late>>

\* The caller's context is cancelled while the store still works on the Update.
Abandon(r) ==
  /\ run[r].pc = "commit" /\ ~run[r].dry
  /\ "late" \in Environment
  /\ late = None
  /\ late' = Ops(r)
  /\ Return(r, "error")
  /\ UNCHANGED <<world, store>>

\* The store gets to the abandoned Update, whoever runs by then.
ExecuteLate ==
  /\ late # None
  /\ Execute(late)
  /\ late' = None
  /\ quiet' = [r \in Runs |-> FALSE]
  /\ UNCHANGED <<world, inFlight, run, result>>

\* A dry run returns its summary without sending anything.
ReturnDry(r) ==
  /\ run[r].pc = "commit" /\ run[r].dry
  /\ Return(r, "ok")
  /\ UNCHANGED <<world, store, late>>

\* Any request of the run fails, or its context is cancelled: no op was sent.
Fail(r) ==
  /\ run[r].pc # "idle"
  /\ run[r].pc = "commit" => ~run[r].dry
  /\ Return(r, "error")
  /\ UNCHANGED <<world, store, late>>
-----------------------------------------------------------------------------
\* What goes on around the runs, as far as Environment lets it.
Changing(what) ==
  /\ what \in Environment
  /\ changes < MaxChanges
  /\ changes' = changes + 1
  /\ quiet' = [r \in Runs |-> FALSE]
  /\ UNCHANGED <<declared, masters, inFlight, run, result, late>>

\* The catalogue adds, removes or rewrites an entity.
ChangeEntity(e) ==
  /\ Changing("upstream")
  /\ \E content \in (Contents \cup {None}) \ {upstream[e]} :
       upstream' = [upstream EXCEPT ![e] = content]
  /\ upstream' \in Catalogues
  /\ UNCHANGED <<config, graph>>

\* setBackstageKind and clearBackstageKind: a class carries at most one kind.
SetBackstageKind(c) ==
  /\ Changing("mapping")
  /\ \E k \in (Kinds \cup {None}) \ {config.kind[c]} :
       config' = [config EXCEPT !.kind[c] = k]
  /\ UNCHANGED <<upstream, graph>>

\* The class's rse:namespace changes, or the class is deleted.
SetNamespace(c) ==
  /\ Changing("home")
  /\ \E ns \in (Namespaces \cup {None}) \ {config.home[c]} :
       config' = [config EXCEPT !.home[c] = ns]
  /\ UNCHANGED <<upstream, graph>>

\* The represents setting is set or unset; an individual it may name goes.
SetRepresents ==
  /\ Changing("represents")
  /\ \/ config' = [config EXCEPT !.represents = ~@]
     \/ \E t \in config.targets : config' = [config EXCEPT !.targets = @ \ {t}]
  /\ UNCHANGED <<upstream, graph>>

\* A user adds a statement of their own to an individual, or deletes the individual.
EditIndividual(i) ==
  /\ Changing("graph")
  /\ graph[i].type # {}
  /\ \/ graph' = [graph EXCEPT ![i].note = TRUE]
     \/ graph' = [graph EXCEPT ![i] = Nobody]
  /\ UNCHANGED <<upstream, config>>

Surroundings ==
  \/ \E e \in Entities : ChangeEntity(e)
  \/ \E c \in Classes : SetBackstageKind(c) \/ SetNamespace(c)
  \/ SetRepresents
  \/ \E i \in Individuals : EditIndividual(i)

Advance(r) ==
  \/ ReadMapping(r)
  \/ DiscoverKinds(r)
  \/ \E k \in Kinds : SkipKind(r, k) \/ PlanKind(r, k)
  \/ PlanRelations(r)
  \/ ReturnDry(r)

Next ==
  \/ \E r \in Runs :
       \/ BeginReal(r) \/ RejectReal(r) \/ BeginDry(r)
       \/ Advance(r)
       \/ CommitOk(r) \/ CommitLost(r) \/ Abandon(r) \/ Fail(r)
  \/ ExecuteLate
  \/ Surroundings

Spec == Init /\ [][Next]_vars

\* The worker's ticker never stops and a run gets on or fails; the outages of catalogue
\* and store end (a tick's error is logged and the next tick tries again).
Fairness ==
  /\ \A r \in Runs \ Triggers : WF_vars(BeginReal(r))
  /\ \A r \in Runs : WF_vars(Advance(r) \/ CommitOk(r))
  /\ WF_vars(ExecuteLate)
  /\ <>[][\A r \in Runs : ~(Fail(r) \/ CommitLost(r) \/ Abandon(r))]_vars

FairSpec == Spec /\ Fairness
-----------------------------------------------------------------------------
\* Types: every variable stays in its domain.
TypeOK ==
  /\ upstream \in Catalogues
  /\ config \in ConfigType
  /\ graph \in [Individuals -> Individual]
  /\ declared \subseteq Namespaces
  /\ masters \subseteq Classes
  /\ inFlight \in BOOLEAN
  /\ run \in [Runs -> Run]
  /\ result \in [Runs -> {"none", "ok", "error", "busy"}]
  /\ late = None \/ late \in Batch
  /\ quiet \in [Runs -> BOOLEAN]
  /\ changes \in 0..MaxChanges

RealRun(r) == run[r].pc # "idle" /\ ~run[r].dry

\* The guard: the scheduler and the manual triggers never have two real runs of the
\* source past it, wherever each of them is (Story 008).
OneRealRun == \A r, s \in Runs : RealRun(r) /\ RealRun(s) => r = s

\* The guard is taken exactly while a real run is in progress: no error path leaks it
\* (every later sync would answer 409 for ever) and no dry run ever releases it.
GuardHeldExactly == inFlight <=> \E r \in Runs : RealRun(r)

\* A dry run, step by step, leaves the store and the guard as they are, whatever real
\* run goes on beside it.
DryRunsTouchNothing ==
  [][\A r \in Runs :
       (run[r].dry /\ run'[r] # run[r]) => UNCHANGED <<store, inFlight, late>>]_vars

\* The contract the callers rely on, read off the engine's state.
Contract == INSTANCE SyncContract WITH
  Facts <- Namespaces \cup Classes,
  busy <- inFlight,
  mode <- [r \in Runs |-> IF run[r].pc = "idle" THEN "idle" ELSE IF run[r].dry THEN "dry" ELSE "real"],
  facts <- declared \cup masters,
  orphan <- (late # None)

\* The engine implements that contract: every step of a run is one of its steps or none.
ImplementsContract == Contract!Spec

\* Run r commits in this step, and nothing it read changed since it began.
QuietCommit(r) ==
  /\ run[r].pc = "commit" /\ ~run[r].dry /\ quiet[r]
  /\ run'[r].pc = "idle" /\ result'[r] = "ok"

ClassFor(r, e) == run[r].mapping[KindOf[e]]
Mapped(r, e) == ClassFor(r, e) # None /\ (ClassFor(r, e) # None => config.home[ClassFor(r, e)] # None)
SyncedAs(r, e) == iri(config.home[ClassFor(r, e)], e)

\* After an undisturbed sync every catalogue entity of a mapped kind is an individual of
\* its class with the catalogue's attribute (cleared when it is gone or is an array that
\* does not fit) and represents link (cleared when it became invalid), whatever earlier
\* runs left there.
QuietSyncMirrors ==
  [][\A r \in Runs : QuietCommit(r) =>
       \A e \in Present : Mapped(r, e) =>
         LET g == graph'[SyncedAs(r, e)]
             c == ClassFor(r, e)
             content == upstream[e]
         IN  /\ g.synced /\ g.type = {c} /\ g.ref = RefOf[e]
             /\ ShapeOf[c].field = "repeatable" => g.value = content.field
             /\ ShapeOf[c].field = "single" => (g.value = "scalar" <=> content.field = "scalar")
             /\ config.represents =>
                  \A t \in Targets :
                    g.link = t <=> (content.annotation = t /\ t \in config.targets /\ ShapeOf[c].represents)
     ]_vars

\* A relation whose target is synced in the same run gets its edge in that run, even when
\* the target's kind comes later or the target was never synced before; the edge leads to
\* the individual the target is synced as now and not to one it had before its class moved
\* to another namespace or it was recreated with another uid; and no edge to something the
\* entity no longer names survives beside it.
QuietSyncRelates ==
  [][\A r \in Runs : QuietCommit(r) =>
       \A e \in Present : (Mapped(r, e) /\ ShapeOf[ClassFor(r, e)].relation) =>
         LET edges == graph'[SyncedAs(r, e)].edges
             hit == {x \in Present : Mapped(r, x) /\ RefOf[x] \in upstream[e].relations}
         IN  /\ \A x \in hit : {j \in edges : graph'[j].ref = RefOf[x]} = {SyncedAs(r, x)}
             /\ hit # {} => \A j \in edges : graph'[j].ref \in upstream[e].relations
     ]_vars

\* The individuals an undisturbed run r merges, and those of the classes it looks at.
Seen(r) == {SyncedAs(r, e) : e \in {x \in Present : Mapped(r, x)}}
Watched(r) ==
  {i \in Individuals : graph[i].synced /\
     \E e \in Present : /\ Mapped(r, e)
                        /\ ClassFor(r, e) \in graph[i].type
                        /\ config.home[ClassFor(r, e)] = i[1]}

\* An undisturbed sync flags exactly the individuals it looks for and does not find, it
\* unflags those it finds again (if their class did not change hands meanwhile), and it
\* leaves the flag of all others alone.
QuietSyncFlags ==
  [][\A r \in Runs : QuietCommit(r) =>
       \A i \in Individuals :
         IF i \in Seen(r) THEN graph[i].type \subseteq graph'[i].type => ~graph'[i].stale
         ELSE graph'[i].stale <=> (graph[i].stale \/ i \in Watched(r))
     ]_vars

\* The engine is non-destructive: no Update, late or not, takes away an individual, its
\* sync marker or a statement a user added to it.
SyncNeverDestroys ==
  [][changes' = changes =>
       \A i \in Individuals :
         /\ graph[i].note => graph'[i].note
         /\ graph[i].synced => graph'[i].synced
         /\ graph[i].type # {} => graph'[i].type # {}]_vars

\* Once the surroundings are quiet for good, every entity of a mapped kind is mirrored,
\* not flagged, and stays so: failures and lost answers heal.
MirroredInTheEnd ==
  <>[](\A e \in Present :
         (\E c \in Classes : config.kind[c] = KindOf[e])
         /\ (\A c \in Classes : config.kind[c] = KindOf[e] => config.home[c] # None)
         => \E c \in Classes :
              /\ config.kind[c] = KindOf[e]
              /\ LET g == graph[iri(config.home[c], e)]
                 IN  g.type = {c} /\ g.synced /\ ~g.stale)

\* What ops.go says of mergeWriteOps: a seen-this-run individual can never be stale.
SeenNeverStale ==
  [][\A r \in Runs : QuietCommit(r) =>
       \A i \in Individuals : run[r].plan[i].class # None => ~graph'[i].stale]_vars

\* What the README and the canvas legend say: an individual that disappears from the
\* catalogue is flagged by a later sync.
DisappearedIsFlagged ==
  [][\A r \in Runs : QuietCommit(r) =>
       \A i \in Individuals :
         (graph[i].synced /\ i[2] \notin Present) => graph'[i].stale]_vars
=============================================================================

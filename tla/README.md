# Formal verification of the RDF schema editor

TLA+ models of the parts of this repository where interleavings, failures,
ordering and references between data decide correctness, checked with TLC on
small instances, and TLAPS proofs of the main safety results for all instances.
The source is the reference: each definition of a module is a translation of the
code, and `PROJECT.json` ("map") names the lines each one stands for.

## 1. The system

The repository is a browser app (`app/`, SvelteKit) that edits RDF schemas,
identities and saved queries in a GraphDB triple store, and a Go backend
(`backend/`) that proxies SPARQL, serves a few transactional routes and runs
an ingestion engine that copies a Backstage catalogue into the store.

| Component | State it keeps | Operations | Interacts with |
|---|---|---|---|
| Sync engine (`backend/internal/sync`) | `Engine.inFlight`; a run's plan in memory | `RunSync` (real, dry) | Backstage client, GraphDB, mapping edited by users |
| Sync worker (`sync/worker.go`), `POST /sources/{s}/sync` (`handler/sources.go`) | none | tick, manual trigger | engine |
| Backstage client (`backstage/client.go`) | none | `DiscoverKinds`, `FetchEntities` (paged) | catalogue |
| GraphDB client (`graphdb/client.go`) | none | `Select`, `Ask`, `Update` | GraphDB |
| Annotations (`internal/annotations`, `handler/annotations.go`, `annotation-edits.ts`, `QueryResultsTable.svelte`) | none; reified statements and annotations in the store; the page's optimistic lists | list, add, remove; the connector's cascades when a fact changes | GraphDB, member form, result table |
| Shared queries and short links (`handler/sharedqueries.go`, `shortlinks`) | none; shared models in the store | share, resolve | GraphDB, `saved-queries-store` |
| Validation (`internal/validation`, `services/validation.ts`) | none | snapshot, check | GraphDB, imports |
| SPARQL proxy, sessions, CSRF, configuration | none | proxy, login | GraphDB, identity provider |
| Request limiter (`concurrency-limiter.ts`) | `active`, `waiting` | `run` | every SPARQL request of the app |
| SPARQL connector (`sparql-connector.ts`) | `writes` | some 300 queries and updates | limiter, backend proxy |
| Schema cache (`schema-store.ts`) | `slots` | `ensureLoaded`, `invalidate`, `refresh` | namespace list, connector |
| Namespace list (`namespace-store.svelte.ts`) | `namespaces`, `pending`, `initialized` | `ensureLoaded`, `refresh` | connector |
| Workspace load and first-run migrations (`schema-load.ts`, connector) | markers in the store: the registered namespace, the backfill's completion | `loadWorkspaceSchema`, `ensureDefaultNamespaceMigrated`, `ensureDefaultWorkspace` | all stores, canvas; every tab of every user |
| Workspace membership (connector) | one row of triples per placed element | add, add many, move, remove | canvas page, backfill, layout store |
| Layout store (`layout-store.ts`) | `cache`, `activeWorkspaceIri`, a debounce timer per element | `setPosition`, `reload` | connector, canvas page |
| Data model edits (connector and canvas page) | the schema and shapes graphs of each namespace | create, rename, delete classes, attributes, relations, reverses, inheritance, associations | every page |
| Individuals and facts (`MemberForm.svelte`, connector) | types, facts, statements, annotations | create, save, retype, delete; attribute and relation edits | annotations, canvas, result table |
| Canvas page (`routes/+page.svelte`, `canvas-model.ts`) | `lastFetchedSchema`, `nodes`, `edges`, `noteRecords`, `workspaceMembers`, active workspace, overlay | switch, reload, drag, and every dialog's submit | layout store, connector |
| Query runs (`query-run-store.svelte.ts`, workbench page) | published table, total, offset; `seq`; the page's `ranKey` and debounce timer | `run`, `next`, `previous`, `setPageSize`, `rerun`, the re-run effect | connector, query builder |
| Query builder (`query-builder-store`, `query-model-edit`, `query-object-browser`) | the query model | edits of hops, columns, filters, sort, measures, thresholds, colour rules | compiler, saved queries |
| Turtle in and out (`turtle.ts`, `TriplesPanel.svelte`, the connector's imports, exports and saves, the layout's import buttons) | the panel's text and scope; files on the user's disk | export and import a bundle, import a file, open, edit and save a scope | connector, membership rows |
| Query language, table exports, ERD | none | pure functions | |
| Other pages and components | view state | user events | all stores |

What is hard here:

- *Interleavings*: the worker's tick against manual triggers; dry runs beside
  real ones; several pages awaiting shared promises; a drag against a switch;
  two tabs running the same migration; two calls choosing one subject; two
  annotators of one fact; an annotator and a form that changes the fact.
- *Failures*: any request of a run may fail or lose its answer; an abandoned
  Update may be executed later; the first fetch of a store may fail; a tab is
  closed half way through a migration; a dialog's handler makes up to five calls
  and stops at the one that fails.
- *Ordering*: answers that overtake each other, loads that overlap writes,
  relations whose target is only planned later in the same run.
- *Stale reads*: the engine plans from reads taken minutes before its Update;
  the browser caches a schema and guesses from a counter whether it is fresh;
  the membership subject is chosen by three ASKs and used by a later update; the
  canvas is rebuilt from a schema that some handlers update and others do not.
- *References*: classes, properties, shapes, individuals, statements, hops,
  columns and filters refer to each other by name across graphs that no
  transaction joins; each deletion has its own idea of what goes along.
- *Selections*: what of three graphs belongs to an entity is decided once when its
  text is shown, again when it is checked and again when it is replaced, and by an
  import for files that were exported from another repository.

`PROJECT.json` lists every such place under "hazards", with the property that
covers it or the reason why none does.

What makes each part correct, in the order of the modules below: real syncs
are serialised and never destructive, an undisturbed one mirrors the catalogue,
and repeated ones get there in the end; the limiter neither leaks nor doubles a
slot and is fair; a cached schema is never older than what its consumer knows to
be written; the result table, its message and its spinner tell of the newest
run; every element of a workspace has one row of its own; a migration's marker
is never set before its work is whole; a drag only reaches the workspace it was
made in, and canvas, store and user agree when calls do not overlap; schema and
shapes say the same, hierarchies end, and no deletion leaves a reference its
warning did not mention; an annotation belongs to the fact it was made on and
survives edits of others; a query model never refers to what was removed from
it; what the canvas shows is what a load would show; and a bundle arrives whole,
an import only adds, and a saved text replaces what it showed and nothing else.

## 2. Modules

| Module | Models | State and actions against the code |
|---|---|---|
| `SyncEngine` | one source's `RunSync`, worker and trigger, users and catalogue around it | `inFlight` is the guard; `run[r]` the locals of a run, its `pc` the place it awaits; `plan` the ops of the run; `graph` the individuals. `BeginReal`, `RejectReal`, `BeginDry` are the head of `RunSync`; `ReadMapping`, `DiscoverKinds`, `SkipKind`, `PlanKind`, `PlanRelations` its steps; `CommitOk`, `CommitLost`, `Abandon`, `ReturnDry`, `Fail` its ends; `ExecuteLate` the store finishing an abandoned Update |
| `SyncContract` | what callers of `RunSync` rely on | serialised real runs, refused and dry runs without effect, facts never retracted and asserted at once |
| `ConcurrencyLimiter` | `createConcurrencyLimiter` | `active`, `waiting` as in the code; `stage` tells a caller whose promise is resolved but who has not resumed (`granted`) from one that runs |
| `SchemaStore` | `createSchemaStore`, `namespaceStore`, the connector's write count | `slots`, `namespaces`, `pending` as in the code; `load` the promises, `ask` the awaiting consumers, `write` the updates on their way |
| `QueryRunStore` | `QueryRunStore` and the workbench page that drives it | `run` the calls of `execute` by sequence number (`Len(run)` is `seq`), `shown` the run whose table is on screen, `builder`, `ranKey`, `timer` the page's effect. `Run`, `LoadModel`, `Sort`, `NextPage`, `PreviousPage`, `SetPageSize` are the buttons, `AutoRun` the effect's timer, `Answer` and `Fail` what follows the await in `execute` |
| `WorkspaceMembership` | the connector's membership calls | `rows` the triples of each subject; a call asks `hashed?`, `legacy?`, `taken?`, `exists?` and then writes, one request per action; `SelectMembers` and `InsertChunk` are the batch |
| `FirstRun` | the staged load of the canvas page and its two migrations, in several tabs | `load[l]` a load: `pc` its stage, `schema` and `chain` the two sides of its parallel stage, `todo` the backfill's remaining items; `page[t]` what a tab shows; the rest is GraphDB |
| `WorkspaceCanvas` | one canvas page over the layout store | `active`, `members`, `notesOf`, `loading` of the page, `primed`, `cache`, `timer` of the store, `stored` in GraphDB; `call` the requests under way; `want` is what the user last asked for |
| `SchemaEdits` | the handlers of the canvas page for the data model, over the schema and shapes graphs of all namespaces | `graph` the statements and shapes; `todo[e]` the calls editor `e`'s handler has still to make, each call one step; an edit of the page (`CreateEntity`, `DeleteEntity`, `EditRelation`, `CreateAssociation`, ...) puts its calls there in the code's order |
| `FactEdits` | the member form, the relation modal, deletions and the annotation service's requests | `store` the types, facts, statements and annotations; `todo[c]` the requests client `c` has still to make; `Add`, `Find`, `Mint`, `Insert` of the service are steps of their own |
| `AnnotationTable` | the annotations beside the facts of a result table | EXTENDS `FactEdits`: `table`, `load`, `shown` the page; `adding`, `removing` the optimistic entries; the page's requests are two of `FactEdits`' clients |
| `QueryEdits` | the edits of the query builder's model and its validation | `model` as the code's `QueryModel`, with sets for its lists; one operator per exported function, composed as the components call them |
| `CanvasEdits` | what the canvas page's handlers tell the kept schema and the screen | `store` the graphs, `snapshot` is `lastFetchedSchema`, `canvas` nodes and edges, `calls` the handlers that await their write; each handler is a record of what it does to the store, to the snapshot and to the canvas |
| `TurtleGraphs` | the pure functions over graphs behind the panel, imports and exports | a namespace's graphs are sets of triples and blocks; `Scope`, `Part`, `Closure` select, `InsertInto` and `DeleteScope` edit, `Clean` is the triage of an import, `Accepted` the blocking checks |
| `Transfers` | bundles, imports and the Turtle panel, beside the membership calls | EXTENDS `WorkspaceMembership` and `TurtleGraphs`: `store` the graphs, `rows` the membership rows, `job` the import with its next step, `panel` the panel with its loads in flight, `saving` a save between its check and its update, `files` what was exported |
| `*Proofs` | theorems of the module named; `RequestProofs` those of `ConcurrencyLimiter`, `SchemaStore` and `QueryRunStore` | |
| `MC*` | small instances for TLC | |

The composition follows the code: `SyncEngine` implements `SyncContract`;
`SchemaStore` has its namespace list and the connector's write count inside;
`AnnotationTable` runs on `FactEdits`, its page two of the clients that edit the
same facts; `FirstRun` and `WorkspaceCanvas` take a membership row as one value
per element, which `WorkspaceMembership` shows it is as long as calls do not
overlap; `CanvasEdits` takes a connector call as one write, whose detail is in
`SchemaEdits` and `FactEdits`; `Transfers` runs on `WorkspaceMembership`, an
import's members being calls of it beside those of the canvas.

### How the sync engine is abstracted

The ops of a run are DELETE/INSERT pairs on one (individual, predicate) each,
so their joint effect is the last write per predicate: a plan maps each
individual to one `Change`, which `Merged` applies. `class # None` says it is
merged (type, marker, source ref, status cleared), `status` what happens to
`rse:syncStatus`, `value`, `link` and `edges` the mapped attribute, the
represents link and the mapped relation. A Change with `edges = {}` leaves the
relation alone, as the code only deletes a pair before its first resolved edge.

`PlanKind` is one iteration of the loop over the kinds: between its requests
nothing else of the same run happens, and each surrounding change touches one
of the things it reads, so it stands for the iteration at the moment of its
reads. `KindMappings` chooses among the classes that carry one kind, as the
store's row order does; `Resolutions` chooses among the individuals with one
ref, as `LIMIT 1` does. `Fail` is any error return, and also a process that
dies before the Update: both leave the store as it was. Labels, the
`prov:Activity` individual and the summary are left out. A merge keeps a
user's statement (`note`) because only the predicates the engine owns are named
in its DELETEs.

### How the schema cache is abstracted

A schema is the set of writes it reflects. A load first awaits the namespace
list, then sends its queries (`FetchSchema`); a write executed before that is
in the answer, one executed while the queries are under way may or may not be
(`LoadResolves`). A write that registers a namespace is only reflected when the
list has it. `Deliver` is a consumer's await that returns or throws.

### How the workbench is abstracted

What a query matches does not change: `Matches` gives the number of rows and
`RowLimit` the query's own limit, so a table is told by the run that published
it. A sort changes the order only, so it is a run like any other from the first
row. A compile error is a run that waits for nothing. The effect's debounce is
the `timer`; the text of the model, colours and the clock are left out.

### How membership rows are abstracted

A subject is a local name (`Legacy`) or an element's own hash (`Hashed`, assumed
free of collisions); a row is the set of its elements and the set of its
positions, since an INSERT DATA adds values and a DELETE/INSERT replaces them.
`BulkStep` is the loop body of `addWorkspaceMembers`, and `AddOne`, written from
`addWorkspaceMember`, is the reference it is compared with.

### How the first run is abstracted

The legacy graph is a fixed set of elements, its copy one Update, its content
what a schema fetch returns. External vocabularies, settings and the
attributed-relationship class are left out: no later step reads them. A load
that fails in one side of the parallel stage leaves the other side running, as
`Promise.all` does. The grid position of an element is its place in the list of
the missing ones, in any order.

### How the canvas and its workspaces are abstracted

A position is the click that chose it. A write, an add and a removal are each
executed when their request arrives (`sent`) and end when the answer is seen
(`answered`); requests overlap in any order. Notes count only as the workspace
whose notes are shown: a load asks for those of the workspace that was active when it
asked for the layout (`schema-load.ts:67-70`), a switch for those of what is active
when its members have arrived. One page is modelled: others would only change `stored`.

### How data model edits are abstracted

A property is specific (a class and a name) or generic (a namespace and a name),
as its IRI is. The graphs are sets of statements: which classes and properties
are declared, labelled, have which domain, range, type, superclass and inverse,
and which property shapes each class has; a shape's paths, targets and names are
what the code reads back from it. A call of the connector is one step with its
reads and its update, although they are separate requests (`wouldCreateCycle` at
`sparql-connector.ts:2743` and the insert at `:2747`, the remaining uses at `:8318-8330`
and the deletion): between them only another editor could write, so what the module
says is about one editor at a time, as the run and the theorems have it; a handler's later calls are separate steps, and any of them may fail,
executed or not, which ends the handler. Names are interchangeable; display
names, descriptions, property settings, workspaces, notes and individuals are left
out, except that an individual may refer to a class (`findExternalReferences`).

### How facts and annotations are abstracted

A fact is (individual, field, object). A statement is a reified node that repeats
a fact, identified by a number for its minted IRI; an annotation belongs to a
statement. The service's `findStatement`, `mint` and `insert` are separate
requests; a form's save is the list of calls it makes, in order. Individuals
without a class count as gone, minted predicates, `ensureClasses`, the label ASK,
renaming and the cascades onto memberships and notes are left out, and so are the
assertions about statements themselves.

### How query models are abstracted

A model is a record of sets: hops (a tree by `parent`), columns, filters, sort
keys, measures, thresholds, colour rules. Ids, aliases and group names are a prefix
and a number, as `nextId` and `freshAlias` make them, because two of the properties
are about ids that collide. Order, headers, values, the row limit, sort directions,
namespaces and `includeSubclasses` are left out: no edit reads them. A saved query,
a shared link and typed text enter through `Stored`.

### How the canvas page's edits are abstracted

A handler is three effects: on the graphs (when its call is executed), on the kept
schema and on nodes and edges (when the call returns), guarded by `viewMode` where
the code asks for it. `Fetched` is what `fetchSchema` and the individuals' queries
return for a store and `Drawn` what `canvas-model.ts` builds from that, for each
view. `behind` and `reverted` are history: which changes each handler is known to
keep from the snapshot, and which of them a rebuild has undone; `stray` holds what a
handler has drawn into a view that does not show it, until the next rebuild. The
properties say that canvas and snapshot differ from what a load would give in these parts
and in nothing else: every layer of nodes and edges is compared, in either view, and a
handler that enters nothing there is shown to keep both up to date.
Self relations, names, values, colours, hidden flags, attribute shadowing, relation
fields, untyped individuals, the workspace switch, `handleToggleAssociation`,
`handleEditAssociationSubmit` and `handleEditLinkSubmit` are left out.

### How Turtle in and out is abstracted

A document is a set of triples and a set of blocks: a property shape is a blank
node, which has no name outside one document, so it is told by the shape it hangs
on and its path. Two blocks of one shape and path are one here, where the store
has two (section 6). Text is what a parse returns: writing and reading Turtle
is left out, and with it the check for syntax. IRIs are model values; `HomeOf` is
the namespace an IRI starts with, `ShapeIri` the IRI of a class's shape in each
namespace, which has the local name only, as `nodeShapeIri` makes it.

An export is one step: nothing it reads is written by it, and the properties are
about what arrives. An import makes one step per request that reads or writes, in the code's
order (namespaces, then one group per namespace with its lookups, its fetch and its
update, the workspace, the members, the notes); `insertNamespace`, `ensureWorkspace`
and `ensureNoteAtIri` are one step each. `addWorkspaceMember` is
`WorkspaceMembership`'s call, request by request. Which of several namespaces a
lookup finds a subject in is any of them, as `LIMIT 1` leaves it. A save reads and
checks in one step (one read of one namespace) and writes in another, with
anything in between; a load's answer is what is stored when it is answered.
`base`, `alone` and `shown` are history: the store at an import's beginning, whether
anybody wrote beside it, and the scope the panel's text is of. A property has
one domain here, whose first value the code takes. The catalogue's tab, the read-only text of a
workspace, N-Quads and files of more than one workspace are left out.


## 3. Runs

| Run | Question | Bounds |
|---|---|---|
| `limiter` | slots never leak or double, FIFO hand-over, every waiter runs | 4 callers, 2 slots: two waiters behind two holders, so hand-over, overtaking and an idle slot can all go wrong |
| `sync_mirror` | which individuals an undisturbed sync flags, and the attributes, represents link, relations and types it leaves; the catalogue is mirrored in the end | one ticker over 2 kinds, 2 classes that carry them in either order or not at all, 2 namespaces, 3 entities of which one is another recreated under the same ref with a new uid, with relations to each other across the kinds; 2 changes (an entity comes, goes, changes or is recreated, a class is remapped or moved, the represents annotation comes or goes), failures and lost answers until the outages end (313,000 states). So a relation's target may be planned later, live in the other namespace, or be the old individual of its ref |
| `sync_guard` | guard and dry runs; refinement of `SyncContract`; nothing is destroyed | the ticker and a trigger, real or dry, over 1 entity, 2 classes and 2 namespaces, 1 change (a user's statement, a remap, a move, a change upstream), failures, lost answers and one Update executed late (610,000 states): two runs overlap in every order, and the late Update of one meets the next |
| `schema_cache` | no stale copy, no eviction of a newer copy, every request is answered | 2 consumers, 2 promises alive, 1 write, 2 namespace fetches, outages that come and go: a load in flight, a newer one in its slot, and a write that overlaps either |
| `query_runs` | spinner, message and table tell of the newest run; edits are followed; every run ends | 3 queries (two pages and a row limit; one row; one that does not compile), page sizes 1 and 2, 4 clicks: a page, a page size and a new query may all be under way at once |
| `transfers` | rows stay one per element and a batch is repeated adds; a bundle arrives whole; imports only add; what is written was checked; a save replaces its scope and nothing else | a full repository, an empty one and one that says otherwise, with two namespaces and a class of the same name in both; one file from elsewhere with both classes; 1 import, export, opening or save with 1 membership call beside it, 3 of them alone (export then import, open then save, import twice), or 5 calls of 3 elements in 2 positions alone, chunks of 1; 5 edits of the text, and each block taken out; any request failing (230,000 states) |
| `first_run` | markers after their work, whole canvases, every tab loads | 2 tabs, 2 elements, 2 loads at once, 3 loads a tab, 1 failure at any request: a tab dies half way and the other, or its own reload, finishes |
| `canvas` | drags stay in their workspace; canvas, store and user agree | 2 workspaces, 1 element, 2 calls at once, 4 clicks, 1 failure |
| `schema_edits` | what deletions leave behind, hierarchies end, generic relations stay declared, schema and shapes say the same | 3 classes in 2 namespaces and an external one, 2 names, 1 editor, 3 edits of up to six calls each, 1 failure at any call (1.2 million states): a property of one class, its reverse, its redraw and its deletion all fit |
| `annotations` | annotations follow their fact and outlive its edits, forms merge, the table shows what is stored | 2 individuals of 2 classes, a single, a repeatable and a relation field, a fact two annotators already met at; the page's two clients and two more, 2 edits, 1 failure of the page's requests (1.2 million states): a lookup, an optimistic entry and a form that changes the fact overlap |
| `query_edits` | no reference to what was removed, every hop joins where it hangs, filter groups are choices | 2 classes that refer to each other and one to itself, an empty model, a saved one (a path there and back, a group across two hops) and typed ones with aggregation and an alias that looks like an id; a relationship may also be walked inversely, so a path could step straight back; every sequence of 3 edits (131,000 states) |
| `canvas_edits` | what the page keeps and shows is what a load would read and draw | a page with 2 classes, a subclass, an attribute, a relation with its reverse and two individuals, and one with an association of three links, a stub, an untyped individual and a linked note; 2 edits with a switch of view or a reload between a handler's call and its return (306,000 states) |

The other `.cfg` files are instances that show disagreements of section 6 by
TLC's counterexample; `FactEdits.cfg` is `FactEdits` alone, with two clients, three
edits and both failing, and passes. To repeat an entry of section 6, put the
property it names in the place of those of the `.cfg` it names.

Bounds on otherwise unbounded behaviour, all in guards: `MaxChanges` (changes
around the runs), `Loads` and `Refreshes` of `SchemaStore` (promises alive,
fetches in flight), `MaxClicks` (clicks and edits), `MaxCalls` (membership
calls, and the handlers of `CanvasEdits` under way), `Loads`, `MaxLoads`,
`MaxFailures` of `FirstRun`, `Calls`, `MaxClicks`, `MaxFailures` of
`WorkspaceCanvas`, `MaxEdits` (edits begun) and `MaxFailures` of the edit modules,
`CallsBeside` (imports, exports, openings and saves, and the membership calls beside
so many of them) and `MaxLoads` (loads of the panel in flight) of `Transfers`.
One Update at most is late at a time. A bound that is used up stops the user,
never a request under way, so deadlock is not checked where clicks, edits or
loads run out. Symmetry is used in two runs without liveness properties:
`schema_edits` permutes the two classes of one namespace, `annotations` the two
clients that are not the page's; nothing tells either pair apart.

Several properties are conjunctions of named parts: `RowsAreTheirOwn` (`OneRowEach`,
`NoSharedSubject`), `DeletionsLeaveNothing` (`OwnersAreThere`, `NoOrphanedSubclass`),
`PictureKeepsUp` (`CanvasKeepsUp`, `NotesKeepUp`), `CallsInTurnAgree` (`StoreFollowsUser`,
`CanvasFollowsStore`).

`CallsInTurnAgree` is about calls that do not overlap (`disturbed` remembers whether
any did, or failed): overlapping calls break it in this code (section 6).
`RowsAreTheirOwn` is about one call after the other for the same reason.
`BundleArrives` is about imports that ran to their end and that no save or membership
call wrote beside; `SavesAreTheirText` and the second half of `WritesAreChecked` about saves
whose graph nobody changed between read and write. The first leaves out what the code gets
wrong (section 6, 27, and triples outside the graph of their entity's kind, 28), the second
saves of which the store keeps what the text had dropped (28). `ShapesFollowSchema` is about handlers that
did not fail, until a relation may no longer be told from what had its name (`blurred`: a class
created again, a relation drawn over a property, an attribute declared where a deleted relation
has left its range or its reverse) or an association is made a plain class again; `TableShowsStored` about a table at rest
that no other edit has blurred. `QuietSyncFlags` leaves out an individual that the same run merged
under another class (section 6, 1). `PictureKeepsUp` leaves out, layer by layer, what a handler
wrote and does not draw (`reverted`, 21 to 25) and what it drew into the view that does not show it
(`stray`, 24); `FormsMerge` is about repeatable fields, as a single value is its last writer's. Each of these conditions is reached in the runs,
and each of them is needed: section 6 says what happens without.

### Fairness

- `SyncEngine`: weak fairness of `BeginReal` of the ticker (which never stops; nobody
  need ever press the manual trigger), of the
  steps of a run (it gets on or ends), of `ExecuteLate`; failures, lost answers
  and abandoned requests eventually stop (the outages end). The worker logs an
  error and keeps ticking (`worker.go:21-23`), which is all the retry there is.
- `ConcurrencyLimiter`: weak fairness of resuming (the microtask queue) and of
  a task's settling (every request ends). The queue needs none of its own.
- `SchemaStore`: weak fairness of answers (each request is answered or fails)
  and of delivery. `RecoverySpec` adds users who ask again and reload the list.
- `QueryRunStore`: weak fairness of each run's answers and of the effect's timer.
- `FirstRun`: weak fairness of each load's requests, and of a user who presses
  Reload while the tab shows no canvas, which the page offers after a failure.
- `WorkspaceCanvas`: weak fairness of requests and of the debounce timers.

No fairness makes an environment change happen. The edit modules and `Transfers` have
safety properties only: their handlers end with the user's last call.

## 4. Proofs

Proved with TLAPS for every value of the constants that satisfies the named
assumptions of the module (finite sets, well-typed constant functions, markers such
as `None` that are no class or value):

- `SyncEngineProofs`: `TypeCorrect`; `NeverTwoRealRuns` and `GuardNeverLeaks`
  from one inductive invariant (the guard is held exactly by one real run: that
  no two real runs exist is not inductive without it, since a `Return` would
  free a guard another run relies on); `DryRunsAreHarmless` (a step that changes
  a dry run's state is one of its own, none of which touches store, guard or
  late Update); `SyncIsNonDestructive` (the effect of a Change on an individual
  only adds, because every Change comes from the planning operators, which
  `TypeCorrect` bounds); `EngineImplementsContract` (initial states and steps
  map to those of `SyncContract`; needs the type and guard invariants).
  `QuietSyncsMirror`, `QuietSyncsRelate` and `QuietSyncsFlag` say what an undisturbed
  sync leaves behind. Their invariant, `Undisturbed`, says of a quiet run at each of
  its steps what its plan is by then: for the kinds it has been through exactly what
  the catalogue asks, nothing for those still to do, and relations only once all
  kinds are planned. That two kinds never plan for one individual needs that a source
  ref is its entity's own (`RefsAreOwn`) and that no two kinds share a class.
- `RequestProofs`, the limiter: `LimiterTypes`, `NoSlotLeaks` (the counter equals
  the cardinality of the holders), `NoIdleSlot`, `FirstComeFirstServed`, from an
  inductive invariant that also says that `waiting` holds exactly the queued
  callers, each once.
- `RequestProofs`, the schema cache: `CacheTypes`, `NoStaleCopy`, `FailureIsNotRemembered`,
  `LateFailureSparesNewer`. The store decides by a counter, so the invariant says
  what the counter stands for: no load has counted more updates than have settled,
  a load whose count is still the true one holds all that had settled (when its
  answers are in), and a request remembers only what was executed. An update that
  settles moves the count (`Counted`, the one lemma on cardinalities), which makes
  every older copy unusable at once. A failed load leaves its slot only because
  a slot holds loads of its own variant (`SlotsHealthy`, part of the invariant).
- `RequestProofs`, the query runs: `WorkbenchTypes`, `NewestRunIsTold`, `RangeMatchesTable`,
  `TableNeverGoesBack`. The invariant adds that the newest run was asked for with
  the page size the buttons show; `RangeMatchesTable` is not inductive without it.
- `FirstRunProofs`: `BackfillIsComplete`, `MigrationIsComplete`, `DrawnIsWhole`.
  That a marker is set after its work follows from what each load knows at each of
  its steps (`Knows`: before it marks, every element has a row; before it
  registers, the copy is whole), and a load's knowledge survives the steps of the
  others because nothing is ever taken back (`StoreGrown`, `PageGrown`).
- `WorkspaceCanvasProofs`: `CanvasTypes`, `DragsStayHome`, `CanvasInTurn`. A drag is
  stored long after it was made: the invariant says that the timer it waits in and the
  call that writes it carry the workspace the user saw. `CanvasInTurn` is the agreement
  of user, store and canvas while calls do not overlap. In between they differ, so its
  invariant (`InTurn`) says that at most one call or timer is under way, and what that one
  will bring: everything but its own element agrees already, or, for a load and the
  steps of a switch, which workspace it is about and what has been read so far.
- `SchemaEditsProofs`: `NoCycles` and `GenericsDeclared`. A hierarchy ends when
  from no class a chain leads back to it; the proof reads "no chain" as "a set of
  classes that holds all superclasses of its members and not the class": the
  insertion of one pair that `wouldCreateCycle` lets pass leaves such a set for
  every class, and all other calls only take pairs away or add one to a set that
  is never a superclass's own. Both are about one editor (`OneEditor`), because the model makes a
  call's reads and its update one step: with two editors the code may pass two checks
  before either inserts, and drop a declaration while a use of it is drawn. `GenericsDeclared` needs that the calls queued in
  `todo` are well typed, which is the invariant's other half (`CallsAreTyped`).
  `DeletionsAreWhole` and `DeletionsWarn` are about one editor (`OneEditor`, true of the
  run) as well: with two, one can write about a class between the calls that delete it, and
  TLC shows `DeletionsLeaveNothing` broken by `Editors = {u1, u2}` within two edits.
  What a handler leaves is settled by calls still to come, so the invariant (`AloneInv`)
  says of each call in `todo` what the graph will have when its turn comes (`Ready`:
  classes a later call refers to are there, or inserted first; a class is dropped last,
  and then nothing is left of it). A call may fail and take the rest with it at any place.
  `ShapesAgree` is `ShapesFollowSchema`, for one editor too. Each call writes both halves of one
  property; what could part them is a call that is meant for another: an update or a
  deletion of what is not a relation of the class it names. The calls for a reverse are of this
  kind, since the handler takes the reverse from a link in the graph and its class from the edge
  on the canvas. So the invariant (`JoinedInv`) says what links stand for (`Coupled`): the two
  relations are drawn to each other's class and are each other's only reverse, unless one
  belongs to an association or to a class that is gone or about to be dropped, or is about to be
  unlinked; that each call still to come will find what it is meant for (`Sound`); that nothing
  which may throw stands before an unlink and a link comes last (`Ordered`), so that a handler
  that throws leaves no half of a pair; and that the two relations to be linked will have been drawn
  to each other (`Matched`). It promises nothing once a request has failed. The attempt found that
  the property was too strong as it was: with five edits of which none fails, a deleted link of
  an association leaves its reverse's `inverseOf`, an attribute may be given its name, and editing
  the reverse then treats the attribute as a relation (section 6, 17). The run's three edits do not reach it.
  The history variable `blurred` now covers it, and the model has `handleToggleAssociation`, which it lacked.
  Assumed of the constants (`NamesApart`): classes and properties are told from the marks `None`,
  `String` and `Marker`.
- `FactEditsProofs`: `AnnotationsFollow`, `AnnotationsOutlive`, `FormsMergeAlways`, `TableAgrees`. That an annotation's
  statement is never another fact's needs statement numbers that are unique and
  never minted again, and for every update of the store the kind it is of
  (statements kept, restated with their fact, or dropped with it); each request is
  shown to be of one of the kinds.
  `FormsMergeAlways` asks that relations can be told apart by their labels
  (`LabelsApart`, true of the runs; item 20 of section 6 is what happens when they
  cannot). Its invariant (`MergeInv`) says of every call in `todo`, those inside an
  `attributes` call too, which facts it may add or take (`MayAdd`, `MayTake`), that
  its edit announced each of them when it began, and that what was asked for
  and is not so yet is a call still to come (`Coming`, `Going`). A lost answer ends the promise,
  as it does in `FormsMerge`. That a form's calls are those of its changed values, for
  any fields and any order they are put in, is `FormCalls`: it rests on what
  `SetToSeq`, `\o` and `FlattenSeq` hold of a set and of lists (`ListOfSet`,
  `JoinedLists`, `Flattened`), the last one again by a least counterexample. Assumed of the
  constants: finitely many fields and facts, single-valued attributes that are neither
  repeatable nor relations and take no individuals, and that the page's two clients are
  two of the clients.
  `TableAgrees` is the property `TableShowsStored`. Between a click and its answer table
  and store differ, and its invariant says by how much: what a fact is shown with is what
  is stored of it, less the entry being removed, and with a pending entry for the one being
  added, whether or not that has an id by then (`ListsFit`, `AddsFit`, `RemovesFit`, while no
  other edit has blurred the page). For that it must know what is left of the two
  requests at each step (`AtWork`), and that a statement minted now cannot have annotations yet:
  every call still to come that annotates names a number minted before (`Tied`). The list
  operations are shown to keep a list free of repetitions (`Longer`, `Shorter`, `Replaces`,
  `PutBack`); numbers are put in order by counting those below (`InOrder`, `Ordered`), as
  `SortSeq` and `SelectSeq` have no definition the prover could use.
- `QueryEditsProofs`: `ModelsAreTyped`, `ModelsAreSound`, `NothingEverDangles`,
  `HopsStayJoins`, `GroupsStayChoices`, after any number of edits. The invariant `Sound`
  adds to the references that columns have ids of their own: removing a column
  cleans up after its id, and a second column of that id would keep what refers to it from
  being seen. `HopsStayJoins` adds that hops have ids of their own too: the
  ancestors of a hop are a closure over ids, and an edit keeps them because it adds
  below what is there or takes whole branches. Ids are fresh because a finite set of
  numbers has a largest one; this and the closure are the two places that would be
  inductions, and both are proved by a least counterexample (finite sets under
  inclusion are well founded), which needs no induction theorem.
  Two theorems ask something of the models that are loaded, beyond what
  `validateQueryModel` checks of them: `StoredJoins` (their hops are joins) and
  `StoredAlone` (their groups are choices). What the builder saved satisfies both, by
  the theorems themselves; a link or SPL text written by hand need not, and then only
  what the edits add is a join or a choice. `WellFormed` asks that filters have ids
  of their own, which `parseQueryModel` does not check either, but every writer of
  models sees to.
- `TransfersProofs`, the rows: `RowsStayTheirOwn` and `BatchesAdd`, for one membership call
  at a time (`SingleCall`, true of the run; with two at once `NoSharedSubject` is broken,
  section 6, 9), any elements, names, positions, chunk size and files. The invariant
  (`Placing`) says that rows are sound and that what each call has learnt from the store by
  its step is true of them: which subjects it has ruled out, and that the one it will
  write under is the element's own, or free with no row of the element elsewhere. Of a
  batch it says that its remaining rows are of free subjects and elements, each once
  (`Fresh`), which a chunk keeps. That a batch of any length gives each element the subject
  that repeated additions would (`BatchHolds`) is an induction over the prefixes of a list,
  done without an induction theorem: the numbers of prefixes of which it holds are a set
  with 0 and with the next of each (`AllNumbers`, from finite sets under inclusion), and
  each of the model's folds is shown to take its items one after the other (`FoldsStep`).
- `TransfersProofs`, the graphs: `FormsHold` (each triple is in the graph the app would put it
  into), `WritesChecked`, `ImportsAdd` (its third conjunct, on positions, again for one call at
  a time) and `SavesReplace`. What was triaged or checked is what the update leads to
  as long as nobody else wrote (`FetchStands`, `SavingForm`), and what a save deletes was in
  the text it replaces, but for statements no check looks at (`DeletedAreNeutral`). Assumed
  of repositories, files and edits (`TransfersAssumption`): graphs sorted and rows sound as the
  app leaves them, a subject of one kind, the IRIs of the app's own declarations different
  from each other and declared in the app's way alone. TLC evaluates it on the repositories
  of the run, and `FormsHold` and `Flow` show that it stays so.
- `TransfersProofs`, the import: `BundlesArrive` is `BundleArrives` for one membership call at a
  time (`SingleCall`) and any repositories, files and edits of `TransfersAssumption`. A followed
  import (`Followed`: nobody else has written since it began) has the invariant `Arriving`: the
  store has all it had at the beginning (`Grown`), and what it has more is the app's own
  declarations or came from a group written (`OnlyOfFile`); the groups cover the file, no two of
  them have a triple of the same subject, and a subject whose namespace is known is in that
  one's group (`GroupsSplit`, which needs the registrations to come before the grouping); a
  subject the store did not know is still found nowhere when its group's turn comes and is sent
  to the group's namespace (`HomesFound`), because no earlier group brought it; a written group
  has arrived and stays (`GroupArrived`); and every namespace, note and member of the file is
  declared or placed, waits, or is the one being added (`DeclaredSoFar`, `MembersSoFar`, which
  takes from the rows' proof that a call ends with its row in place). The attempt
  found the property too strong as it was: an import that is repeated may look for a
  subject that is split over namespaces in another one than the first time and insert there
  what was left out, and a subject minted under a namespace that neither file nor store has
  goes to the default one. Both are now in its statement.

Each proof module ends with the same shape: `Init` gives the invariant, one lemma
per action (or group of actions that touch the same parts) keeps it, and the
theorems follow from it. The invariants `Undisturbed`, `InTurn`, `AloneInv`, `JoinedInv`,
`MergeInv`, `Sound`, `Arriving`, and `Tied` with `AtWork` and `AsShown`, were checked by TLC on the instances of
their runs before they were proved.

Some of what is proved is no longer in a run's list, because the proof says more:
the type invariants, `OneRealRun`, `DryRunsTouchNothing`, `NoOvertaking`,
`QueueOnlyWhenFull`, `SlotsHealthy`, `PageSizeMatchesTable`, `RegisteredIsCopied`.
Each is still an operator of its module and can be put back into its `.cfg`.

Only model-checked:

- everything under fairness (`EveryWaiterRuns`, `MirroredInTheEnd`, `EveryAskSettles`,
  `EditsAreFollowed`, `EveryTabLoads`): liveness and ENABLED are out of the prover's
  reach;
- `SnapshotKeepsUp` and `PictureKeepsUp`, for whose
  inductive invariants see the plan in section 7.

## 5. Not modelled

See "components" in `PROJECT.json`. Half of the implementation is markup, styling,
wording, dialogs' local state, text formats and the text of queries, which hold no
state a property could be about and are left out for good: pages and components
beyond the handlers named above, SPL, LinkML and ERD text, geometry, stateless request
handling and proxying, configuration parsing, escaping, `importctl`. Left out for
now, with state worth a model: shared and saved queries, reports, the identities
pages, the Backstage mapping's forms, the backend's validation, and the items of section 7.

What a module leaves out of the code it does model is said in section 2. Three
cases matter most. Paging over a changing catalogue is one read of `SyncEngine`.
The requests of one connector call of `SchemaEdits` are one step, so two calls that
interleave between a check and the write that relies on it are not seen there, and its run
and all its theorems are about one editor (such interleavings
are in `WorkspaceMembership`, `FirstRun` and `FactEdits`, where the code is most exposed to
it). And the pages of other users only count as what they write.

## 6. Where code and documents disagree

Each entry names the property and the `.cfg` that TLC refutes it with. Entries
without one were seen in the source while modelling and concern code the modules
leave out.

Sync engine, schema cache:

1. `SeenNeverStale`, `SyncSeenStale.cfg`: an individual merged by a run can leave that
   run flagged stale. The diff compares the individuals of a *class* with the entities
   of a *kind*; after two classes swapped kinds the second kind's diff flags what the
   first merged. `ops.go:44-46` says it can never happen. The next run heals it.
2. `DisappearedIsFlagged`, `SyncSeenStale.cfg`: when a kind has left the catalogue
   altogether, or the mapping, its individuals are never flagged, against
   `README.md:326-327`.
3. `OutageIsForgotten`, `SchemaOutage.cfg`: `namespaceStore.ensureLoaded` keeps a rejected
   promise, so one failed first fetch fails every later schema load until the page is
   reloaded, against `schema-store.ts:54`.
4. `ListedNamespaceLoaded`, `SchemaNamespace.cfg`: a load begun between a namespace write
   and the arrival of the refreshed list is reused afterwards, without that namespace
   (`schema-store.ts:9-11`, `namespace-store.svelte.ts:6-7`).

Workbench and query builder:

5. `TotalMatchesTable`, `QueryRuns.cfg`: a sort, page or page-size change issued before a
   counted run of a new query has published supersedes that run and its count, and the
   new table stands above the old total (`query-run-store.svelte.ts:29`, `:76`).
   `SortKeepsPage`: `rerun` starts at offset 0, while its comment says it re-queries the
   current page (`:76`).
6. `TableFollowsBuilder`, `QueryRuns.cfg`: an edit made before the first table has arrived
   is never followed, against `routes/workbench/+page.svelte:109-110`.
7. `EditingKeepsTheGroup`, `QueryEdits.cfg`: the filter dialog takes an edited filter out
   of its OR group (`FilterModal.svelte:78-82`; `query-model-edit.spec.ts:565` keeps it).
8. `enableAggregation` (`query-model-edit.ts:372`) keeps sort keys that aggregation does
   not allow, and `cycleSort` cannot clear them then (`QueryResultShapePanel.svelte:5-8`).
   `nextId` reuses a removed highest id, though its doc says never (`:19`), and a fresh
   column id can equal an alias that was typed.

Workspaces, first run, canvas layout:

9. `NoSharedSubject`, `MembersAtOnce.cfg`: two calls at once for elements of one name both
   find the legacy subject free and share it, which `sparql-connector.ts:5414-5418` says
   the resolution avoids.
10. Two tabs on a first run, `FirstRunLoads.cfg`: `OnePositionEach`, both insert a grid
    position for one element, against `sparql-connector.ts:6027-6029`; `LoadsDoNotClash`, the
    second registration throws and that tab's load fails, against `:5975` and `:6061-6065`.
    `FailedLoadAppliesNothing`: a load that rejects has already activated a workspace and
    its members, against `schema-load.ts:10-11`.
11. `CanvasShowsActive`, `CanvasCalls.cfg`: two quick switches answered in the other order
    leave the canvas on a workspace that is not the active one, against the select's title
    (`routes/+layout.svelte:234`), and drags go to the one shown.
12. `DragsAreKept`, `CanvasCalls.cfg`: two drags of one element more than the debounce apart
    may be written in the other order, and a drag in another workspace cancels the first
    one's timer (`layout-store.ts:129-130`).
13. `RemovedStaysRemoved`, `CanvasCalls.cfg`: a position write or an add under way when the
    user removes the element creates its row again (the write upserts, a removal cancels
    no timer), against `app/src/lib/content/docs/node-menu.md:17`.
14. `AddedWhereAsked`, `CanvasCalls.cfg`: after its await, an add hands the position to a
    layout store that may have switched workspace; the delayed write gives the element a
    row there too (`routes/+page.svelte:3258-3259`).

Data model edits:

15. `NeverDrifts`, `EveryUseIsDeclared`, `SchemaEdits.cfg`: a name drawn as attribute and
    as relation has both types and later edits change only one half; after a redraw, or a
    retry after a failed retarget, an edit with the reverse unticked deletes the reverse's
    declaration but not its shape; an update of a deleted property leaves a range without
    a property; dropping one of several targets puts the block's old name back as label.
16. `AssociationsLinkTwo`, `SchemaEdits.cfg`: an association created with two links of one
    name ends with one (`sparql-connector.ts:2661`).
17. `deletePropertyTriples` counts the remaining references within one namespace, against
    its doc (`sparql-connector.ts:8318-8330`): removing the last use of a generic relation
    there drops a declaration another namespace uses. `findExternalReferences` looks into
    one namespace, so an unforced `deleteClass` leaves a range in another one dangling
    without a warning (`:1350-1356`). `deleteClass` and `DeleteLink` do not unlink reverses:
    an attribute given the name of a deleted link is then edited, or deleted, as the reverse of what
    still points there. Links of an association move without their reverses, so once it is a plain
    class (`handleToggleAssociation`) a reverse is sought in the class its relation moved to;
    redrawing gives several inverses, of which one is unlinked. A generic relation renamed
    from another namespace gets a second label. A hierarchy across namespaces may become a
    cycle (the check is local by design).

Facts and annotations:

18. `AnnotationsGoWithTheirFact`, `AnnotationTable.cfg`: `deleteClass`, `deleteIdentity`, and a
    fact edited or deleted while its annotation is on its way, leave statements and
    annotations of no fact, which come back when the fact is entered again
    (`sparql-connector.ts:1579-1583`).
19. `SavedIsShown`, `AnnotationTable.cfg`: an annotation saved while a page's lookup is in
    flight is not shown; a failed removal after a reload shows one twice, in a list keyed
    by its IRI (`AnnotationPanel.svelte:61`).
20. `FormsMerge` with `LabelOf <- MCSameLabel`, `FactEdits.cfg`: relation fields are saved by
    label, so with two relations of one label the value may go to the other.
    `setIndividualAttributeValue` in a batch can write to an individual deleted meanwhile.

The canvas page (`CanvasEdits.cfg`):

21. `EditsStayDrawn`: a created entity, attribute or relation vanishes and a deleted class
    comes back when the canvas is rebuilt from the kept schema, as on a switch of view
    (`app/src/lib/content/docs/view-mode-toggle.md:13-14`); deleting a class leaves its
    individuals and the links of notes drawn (`routes/+page.svelte:973-976`); re-adding a
    vanished member does nothing; an instance deleted and created again under its name gets
    its old incoming relations back.
22. `NotesStayDrawn`: notes vanish when Add Element refetches the schema (`:3210`, `:3284`;
    comment `:3019-3024`).
23. `AssociationsKeepTwo`: links a rebuild has drawn again let `handleDeleteLinkConfirm`
    leave an association with one link.
24. `NewFactsAreDrawn`: relations entered with a new instance are neither drawn nor told to
    the kept schema (comment `:1370-1374`), and a fact whose call returns after a switch to
    Schema view is filed as a relation of classes.
    `EdgesInTheirView`: a relation whose call returns after a switch to Instances view is
    drawn there (`:2441`), a fact in Schema view (`:2151`), and a class deleted in Instances view
    leaves the stubs its deletion orphans (`:964-995`), until the next rebuild; against
    `app/src/lib/content/docs/view-mode-toggle.md:7-10`, which says what each view shows.
25. `handleCreateRelationSubmit` reads `edges` before it writes the reverse and puts them
    back after; editing a reverse relation drops its reverse mark; the edit dialogs'
    prefetches are not ordered (`:2024-2042`).

Import, export and the Turtle panel:

26. `PanelShowsItsScope`, `TransfersPanel.cfg`: loads of `TriplesPanel` are not ordered. A
    late answer of an earlier scope puts its text under the new one, where Save writes it,
    or closes an edit (`TriplesPanel.svelte:112-150`, `:185-188`).
27. What `SavesAreTheirText` leaves out, against `sparql-connector.ts:7694-7703`: saving the
    Schema tab of the whole default namespace moves the app's own rows (memberships,
    notes, workspaces, namespaces) into the instances graph, where no query looks for them,
    as the text shows them and `splitInstancesFromSchema` takes them for individuals; and
    `selectScope` looks for a class's shape under the default namespace while
    `buildScopeDeleteOps` deletes the one under the class's own, so saving the empty Shapes tab
    of a class elsewhere deletes its shape.
28. What a save keeps although its text dropped it: the class scope shows individuals and
    what refers to the class, and deletes the class's own statements only, so one removed in
    the text stays, edited labels double, and a class deleted by text leaves its individuals
    dangling. Statements are deleted in one graph, that of what the entity is by then: an
    individual whose type was removed in the panel has its other statements put into the
    schema graph, and with a type in the instances graph again they are out of every save's
    reach (`Elsewhere` in `SavesAreTheirText`, which could not be proved without it). Saving a property's Shapes tab unchanged loses the link from its shape
    (`sh:property` is not in the text). Relations from other namespaces, which the text shows too, are
    copied into the class's own. The namespace chosen in the panel outlives its
    scope, so an entity may be saved into another namespace. A relation into another
    namespace makes every save in its namespace refused.
29. `buildMembershipTurtle` names members without the disambiguation of `resolveMembershipIri`:
    two members of one local name leave in one subject and arrive as one, which
    `OnePerSubject` models and `BundleArrives` therefore does not hold against the import. Bundles
    have no shapes of classes outside the default namespace.
    Bundles lack the declarations of attributes and relations their classes use.
    `importTurtle`'s conflict rule skips further values of a predicate that may have several;
    each import of the same text stores its property shapes again, without a link.

## 7. Plan

Next, in order:

1. `SharedQueries` with `ShortLinks` (an ASK for a free short id and the later INSERT) and
   saved queries; reports (a route change while a report loads).
2. The query language: what a printed model keeps and a parse restores, over clauses
   instead of text. `validation/check.go` as operators.
3. A paged catalogue under `SyncEngine` (entities that move between two pages).
4. Proofs: `SnapshotKeepsUp` and `PictureKeepsUp`, part by
   part: a handler under way is the only difference between the store, the snapshot and
   the canvas.

------------------------------ MODULE Transfers ------------------------------
(***************************************************************************)
(* Turtle in and out of the store, beside the membership calls of the      *)
(* canvas: a workspace exported as one bundle, bundles and plain files     *)
(* imported request by request, and the Turtle panel, which loads the text *)
(* of an entity and replaces what is stored by an edited text              *)
(* (services/sparql-connector.ts, components/TriplesPanel.svelte).         *)
(***************************************************************************)
EXTENDS WorkspaceMembership, TurtleGraphs

CONSTANTS
  HomeOf,      \* the namespace whose graphs an IRI starts with
  Notes,
  Workspace,   \* the one workspace here
  Repositories, \* what the app may find: graphs and membership rows
  Foreign,     \* files exported from other repositories
  Scopes,      \* what the panel is opened on, an IRI or "all", and the namespace chosen in it
  Edits,       \* triples a user may write into a text or take out of it
  MaxLoads,    \* bound on the panel's loads in flight
  CallsBeside  \* bound on the membership calls beside n imports, exports, openings and saves

\* What the app may find and be given.  A subject has one kind: what the app declares for itself
\* is declared in this way alone, and the panel is opened on neither shapes nor reified statements.
Declaration(iri, class) == {<<class, "a", "Class">>, <<iri, "a", class>>}
OwnDeclarations ==
  UNION ({Declaration(n, "Namespace") : n \in Namespaces} \cup {Declaration(Workspace, "Workspace")}
           \cup {Declaration(n, "Note") : n \in Notes})
OwnIris == Namespaces \cup {Workspace} \cup Notes \cup {"Namespace", "Workspace", "Note"}

OwnIrisDiffer ==
  /\ Namespaces \cap Notes = {} /\ Workspace \notin Namespaces \cup Notes
  /\ {"Namespace", "Workspace", "Note"} \cap (Namespaces \cup Notes \cup {Workspace}) = {}
  /\ "all" \notin OwnIris

Fits(q) ==
  /\ q[1] # "all"
  /\ q[1] \in OwnIris /\ q[2] = "a" => q \in OwnDeclarations
  /\ \A s \in Scopes : q[1] = s[1] => ~IsReified(q) /\ ~IsShape(q)

\* Each triple is in the graph the app would put it into.
Sorted(g) ==
  /\ g = [instances |-> g.instances, schema |-> g.schema, shapes |-> g.shapes, blocks |-> g.blocks]
  /\ \A q \in g.schema : ~IsReified(q) /\ ~IsShape(q)
  /\ \A q \in g.instances : ~IsShape(q)
  /\ \A q \in g.shapes : IsShape(q)

\* Rows as the calls leave them: whole, each of one element under one of the two subjects it may
\* have, and none of an element that has another.
SubjectOf(s, e) == s \in {Legacy(e), Hashed(e)}
RowsSound(rs) ==
  /\ rs = [s \in Subjects |-> rs[s]]
  /\ \A s \in Subjects : \/ rs[s] = NoRow
                         \/ \E e \in Elements, p \in Positions :
                              SubjectOf(s, e) /\ rs[s] = [elements |-> {e}, positions |-> {p}]
  /\ \A e \in Elements, s, t \in Subjects : Owned(rs, s, e) /\ Owned(rs, t, e) => s = t

ASSUME TransfersAssumption ==
  /\ OwnIrisDiffer
  /\ \A r \in Repositories :
       /\ r.graphs = [n \in Namespaces |-> r.graphs[n]]
       /\ \A n \in Namespaces : Sorted(r.graphs[n]) /\ \A q \in Whole(r.graphs[n]).quads : Fits(q)
       /\ RowsSound(r.rows)
  /\ \A f \in Foreign :
       /\ f.namespaces \subseteq Namespaces /\ f.notes \subseteq Notes
       /\ f.members \subseteq [element : Elements, position : Positions]
       /\ \A q \in f.doc.quads : Fits(q)
  /\ \A q \in Edits : Fits(q)
  /\ \A s \in Scopes : s[1] \notin OwnIris

VARIABLES
  store,       \* the graphs of each namespace; rows are in the default one's schema graph, too
  files,       \* the bundles on the user's disk
  job,         \* the import under way
  panel,       \* the Turtle panel
  saving,      \* its save under way
  moves        \* number of imports, exports, openings of the panel and saves

transferVars == <<store, files, job, panel, saving, moves>>
allVars == <<rows, call, made, transferVars>>
-----------------------------------------------------------------------------
\* Declarations in the default namespace's schema graph: namespaces, the workspace, its notes.
\* insertNamespace, ensureWorkspace and ensureNoteAtIri declare the class and the thing.
IsDeclared(st, iri, class) == <<iri, "a", class>> \in st[Default].schema
Ensured(st, iri, class) == [st EXCEPT ![Default].schema = @ \cup Declaration(iri, class)]
Registered(st) == {n \in Namespaces : IsDeclared(st, n, "Namespace")}
StoredNotes(st) == {n \in Notes : IsDeclared(st, n, "Note")}

NoJob == [pc |-> "idle", caller |-> {}]
NoFile == [doc |-> NoDoc, namespaces |-> {}, members |-> {}, notes |-> {}]
NoPanel == [scope |-> "none", ns |-> Default, loads |-> {}, text |-> NoDoc, shown |-> <<"none", Default>>,
            loading |-> FALSE, error |-> FALSE]
NotSaving == [ns |-> "none"]

TransferInit ==
  /\ call = [c \in Calls |-> Idle] /\ made = 0
  /\ \E r \in Repositories : store = r.graphs /\ rows = r.rows
  /\ files = Foreign
  /\ job = NoJob /\ panel = NoPanel /\ saving = NotSaving /\ moves = 0

Counted ==
  /\ moves + 1 \in DOMAIN CallsBeside /\ made <= CallsBeside[moves + 1]
  /\ moves' = moves + 1
-----------------------------------------------------------------------------
\* Export.  exportWorkspaceBundle: what it reads does not change while it reads it.

\* The namespaces that list an element as a class or as an individual of one of their classes.
ListedIn(st, e) ==
  {n \in Registered(st) : \/ <<e, "a", "Class">> \in st[n].schema
                          \/ \E q \in st[n].instances : q[1] = e /\ q[2] = "a" /\ IsClass(Whole(st[n]), q[3])}

\* namespaceByIri: one namespace for each listed element.
Locations(st, els) ==
  {at \in [{e \in els : ListedIn(st, e) # {}} -> Namespaces] : \A e \in DOMAIN at : at[e] \in ListedIn(st, e)}

MembersOf(rs) == {e \in Elements : \E s \in Subjects : Owned(rs, s, e)}
RowItems(rs) == UNION {[element : rs[s].elements, position : rs[s].positions] : s \in Subjects}

\* Each namespace's members and what they refer to, with what belongs to them.
BundledDoc(st, at) ==
  LET group(n) == {e \in DOMAIN at : at[e] = n}
      doc(n) == Whole(st[n])
      scoped(n) == group(n) \cup Closure(doc(n), group(n))
  IN  Joined(UNION {{Part(Scope(doc(n), i), tab) : i \in scoped(n), tab \in {"schema", "shapes"}}
                    : n \in {at[e] : e \in DOMAIN at}})

\* The rows are written under the subject made of local names, so that of those of one name
\* an import reads one.
OnePerSubject(items) ==
  {kept \in SUBSET items : /\ \A i \in items : \E k \in kept : Legacy(k.element) = Legacy(i.element)
                           /\ \A i, k \in kept : Legacy(i.element) = Legacy(k.element) => i = k}

Exports(st, rs) ==
  {[doc |-> BundledDoc(st, at), namespaces |-> {at[e] : e \in DOMAIN at}, members |-> kept, notes |-> StoredNotes(st)]
     : at \in Locations(st, MembersOf(rs)), kept \in OnePerSubject(RowItems(rs))}

Export ==
  /\ Counted
  /\ IsDeclared(store, Workspace, "Workspace")
  /\ \E f \in Exports(store, rows) : files' = files \cup {f}
  /\ UNCHANGED <<rows, call, made, store, job, panel, saving>>
-----------------------------------------------------------------------------
\* Import.  kind: a bundle through importWorkspaceBundle, or a file of triples through importTurtle.

\* groups: what each importTurtle gets; homes: the namespace of each of its subjects; clean: what
\* it will insert, by namespace.  base and alone are history: the store when the import began,
\* and whether nobody else has written since.
Begun(kind, file, todo, pc) ==
  [pc |-> pc, kind |-> kind, file |-> file, todo |-> todo, groups |-> <<>>, group |-> Default, homes |-> <<>>,
   clean |-> <<>>, caller |-> {}, base |-> store, alone |-> TRUE]

ImportBundle(file) ==
  /\ Counted /\ job.pc \in {"idle", "done"}
  /\ job' = Begun("bundle", file, file.namespaces, "register")
  /\ UNCHANGED <<rows, call, made, store, files, panel, saving>>

ImportFile(doc, ns) ==
  /\ Counted /\ job.pc \in {"idle", "done"} /\ ns \in Registered(store)
  /\ job' = [Begun("file", NoFile, {ns}, "find") EXCEPT !.groups = [n \in {ns} |-> doc]]
  /\ UNCHANGED <<rows, call, made, store, files, panel, saving>>

RestUnchanged == UNCHANGED <<rows, call, made, files, panel, saving, moves>>

\* Step 2: the namespaces of the bundle, before its triples.
Register ==
  /\ job.pc = "register"
  /\ \E n \in job.todo :
       /\ store' = IF IsDeclared(store, n, "Namespace") THEN store ELSE Ensured(store, n, "Namespace")
       /\ job' = [job EXCEPT !.todo = @ \ {n}]
  /\ RestUnchanged

\* Mutant of GroupNamespace: only namespaces that were there before the import are looked at.
GroupNamespace_Before(iri) == IF HomeOf[iri] \in Registered(job.base) THEN HomeOf[iri] ELSE Default

\* resolveGroupNamespace: the namespace an IRI was minted under, if it is known by now.
GroupNamespace(iri) ==
  IF HomeOf[iri] \in job.file.namespaces \cup Registered(store) THEN HomeOf[iri] ELSE Default

\* Step 3: one importTurtle for each namespace the triples belong to.
Group ==
  /\ job.pc = "register" /\ job.todo = {}
  /\ LET doc == job.file.doc
         of(b) == IF b.of = "none" THEN Default ELSE GroupNamespace(b.of)
         groups == {GroupNamespace(q[1]) : q \in doc.quads} \cup {of(b) : b \in doc.blocks}
     IN  job' = [job EXCEPT !.todo = groups, !.pc = IF groups = {} THEN "workspace" ELSE "find",
                   !.groups = [n \in groups |-> Doc({q \in doc.quads : GroupNamespace(q[1]) = n},
                                                    {b \in doc.blocks : of(b) = n})]]
  /\ UNCHANGED store /\ RestUnchanged

\* findNamespaceOfSubject, for each subject: any namespace that has a triple of it, else ns.
Holding(iri) == {n \in Namespaces : \E q \in Whole(store[n]).quads : q[1] = iri}
HomesOf(doc, ns) ==
  {homes \in [{q[1] : q \in doc.quads} -> Namespaces] :
     \A s \in DOMAIN homes : homes[s] \in (IF Holding(s) = {} THEN {ns} ELSE Holding(s))}

Find ==
  /\ job.pc = "find"
  /\ \E ns \in job.todo : \E homes \in HomesOf(job.groups[ns], ns) :
       job' = [job EXCEPT !.pc = "fetch", !.group = ns, !.homes = homes]
  /\ UNCHANGED store /\ RestUnchanged

\* resolveBlankNamespace, and the part of a document that goes to namespace n.
HomeOfBlock(b, homes, ns) == IF b.of \in DOMAIN homes THEN homes[b.of] ELSE ns
PartIn(doc, homes, ns, n) ==
  Doc({q \in doc.quads : homes[q[1]] = n}, {b \in doc.blocks : HomeOfBlock(b, homes, ns) = n})

\* existingByNamespace
Involved(doc, homes, ns) == {ns} \cup {n \in Namespaces : PartIn(doc, homes, ns, n) # NoDoc}
Existing(doc, homes, ns) == Joined({Whole(store[n]) : n \in Involved(doc, homes, ns)})

\* The involved namespaces are read; triage and checks follow, and a refusal ends the import.
Fetch ==
  /\ job.pc = "fetch"
  /\ LET doc == job.groups[job.group]
         existing == Existing(doc, job.homes, job.group)
         clean == [n \in Namespaces |-> Clean(PartIn(doc, job.homes, job.group, n), existing)]
         all == Joined({clean[n] : n \in Namespaces})
     IN  job' = IF Accepted(all, Joined({existing, all})) THEN [job EXCEPT !.pc = "write", !.clean = clean] ELSE NoJob
  /\ UNCHANGED store /\ RestUnchanged

\* One update for all the namespaces of a group.
AfterGroup(todo) == IF todo # {} THEN "find" ELSE IF job.kind = "bundle" THEN "workspace" ELSE "done"

WriteGroup ==
  /\ job.pc = "write"
  /\ store' = [n \in Namespaces |-> InsertInto(store[n], job.clean[n])]
  /\ job' = [job EXCEPT !.todo = @ \ {job.group}, !.pc = AfterGroup(job.todo \ {job.group}), !.clean = <<>>]
  /\ RestUnchanged

\* Step 4
EnsureWorkspace ==
  /\ job.pc = "workspace"
  /\ store' = IF IsDeclared(store, Workspace, "Workspace") THEN store ELSE Ensured(store, Workspace, "Workspace")
  /\ job' = [job EXCEPT !.pc = "members", !.todo = job.file.members]
  /\ RestUnchanged

\* Step 5: one addWorkspaceMember after the other, each of them several requests.
AddMember(c) ==
  /\ job.pc = "members" /\ call[c] = Idle
  /\ \E i \in job.todo :
       /\ Started(c, "add", i.element, i.position)
       /\ job' = [job EXCEPT !.pc = "adding", !.caller = {c}, !.todo = @ \ {i}]
  /\ UNCHANGED <<rows, made, store, files, panel, saving, moves>>

MemberAdded ==
  /\ job.pc = "adding" /\ \A c \in job.caller : call[c] = Idle
  /\ job' = [job EXCEPT !.pc = "members", !.caller = {}]
  /\ UNCHANGED store /\ RestUnchanged

NotesNext ==
  /\ job.pc = "members" /\ job.todo = {}
  /\ job' = [job EXCEPT !.pc = "notes", !.todo = job.file.notes]
  /\ UNCHANGED store /\ RestUnchanged

\* Step 6
EnsureNote ==
  /\ job.pc = "notes"
  /\ \E n \in job.todo :
       /\ store' = IF IsDeclared(store, n, "Note") THEN store ELSE Ensured(store, n, "Note")
       /\ job' = [job EXCEPT !.todo = @ \ {n}]
  /\ RestUnchanged

Finish ==
  /\ job.pc = "notes" /\ job.todo = {}
  /\ job' = [job EXCEPT !.pc = "done"]
  /\ UNCHANGED store /\ RestUnchanged

\* A request of the import itself fails.
ImportFails ==
  /\ job.pc \notin {"idle", "done", "adding"}
  /\ job' = NoJob
  /\ UNCHANGED store /\ RestUnchanged
-----------------------------------------------------------------------------
\* The panel.  The namespace chosen in it outlives the scope it was opened on.

\* fetchScopedTurtlePair, both tabs: with what refers to a class from other namespaces.
FromElsewhere(st, iri, ns) ==
  IF ~IsClass(Whole(st[ns]), iri) THEN {}
  ELSE UNION {Incoming(Whole(st[n]), IncomingTargets(Whole(st[ns]), iri), {}) : n \in Registered(st) \ {ns}}

TextOf(st, iri, ns) == Joined({Scope(Whole(st[ns]), iri), Doc(FromElsewhere(st, iri, ns), {})})

\* load, whenever scope or namespace change and after a save; answers come in any order.
Loading(p) == [p EXCEPT !.loads = @ \cup {<<p.scope, p.ns>>}, !.loading = TRUE, !.error = FALSE]

Open(iri, ns) ==
  /\ Counted /\ Cardinality(panel.loads) < MaxLoads
  /\ panel' = Loading([panel EXCEPT !.scope = iri, !.ns = ns])
  /\ UNCHANGED <<rows, call, made, store, files, job, saving>>

PanelOnly == UNCHANGED <<rows, call, made, store, files, job, saving, moves>>

\* A save under way goes on, but reloads no panel opened later.
Close ==
  /\ panel # NoPanel /\ panel' = NoPanel
  /\ saving' = IF saving = NotSaving THEN saving ELSE [saving EXCEPT !.watched = FALSE]
  /\ UNCHANGED <<rows, call, made, store, files, job, moves>>

Loaded(l) ==
  /\ panel' = [panel EXCEPT !.loads = @ \ {l}, !.text = TextOf(store, l[1], l[2]), !.shown = l,
                              !.loading = FALSE]
  /\ PanelOnly

LoadFails(l) ==
  /\ panel' = [panel EXCEPT !.loads = @ \ {l}, !.loading = FALSE, !.error = TRUE]
  /\ PanelOnly

\* A draft: the text as it is, or with one triple or block more or less.
Drafts(t) ==
  {t} \cup {Doc(IF q \in t.quads THEN t.quads \ {q} ELSE t.quads \cup {q}, t.blocks) : q \in Edits}
      \cup {Doc(t.quads, t.blocks \ {b}) : b \in t.blocks}

\* saveScopedTurtle up to its update: read, check, and send or refuse.
Save(tab, text) ==
  /\ Counted /\ panel.scope # "none" /\ ~panel.loading /\ ~panel.error /\ saving = NotSaving
  /\ LET d == Whole(store[panel.ns])
         full == Scope(d, panel.scope)
         rest == Less(d, Part(full, tab))
     IN  saving' = IF Accepted(text, Joined({rest, text}))
                   THEN [scope |-> panel.scope, ns |-> panel.ns, tab |-> tab, text |-> text, full |-> full, read |-> d,
                         watched |-> TRUE]
                   ELSE NotSaving
  /\ UNCHANGED <<rows, call, made, store, files, job, panel>>

Disturbed == IF job.pc = "idle" THEN job ELSE [job EXCEPT !.alone = FALSE]

\* The update.  The text of the whole default schema graph has the membership rows, too; what
\* has a type of the app's own is put into the instances graph, where no query of rows looks.
SaveWrites ==
  /\ saving # NotSaving
  /\ LET s == saving
     IN  /\ store' = [store EXCEPT ![s.ns] = InsertInto(DeleteScope(@, s.scope, s.full, s.tab, s.ns), s.text)]
         /\ rows' = IF <<s.scope, s.ns, s.tab>> = <<"all", Default, "schema">> THEN [r \in Subjects |-> NoRow] ELSE rows
  /\ saving' = NotSaving
  /\ panel' = IF saving.watched THEN Loading(panel) ELSE panel
  /\ job' = Disturbed
  /\ UNCHANGED <<call, made, files, moves>>

SaveFails ==
  /\ saving # NotSaving /\ saving' = NotSaving
  /\ UNCHANGED <<rows, call, made, store, files, job, panel, moves>>
-----------------------------------------------------------------------------
\* The membership calls go on beside all this; one of them may be the import's.
OwnRequest(c) == AskHashed(c) \/ AskLegacy(c) \/ AskTaken(c) \/ AskExists(c) \/ WriteRow(c) \/ InsertChunk(c)

UserCall(c) ==
  /\ c \notin job.caller /\ made < CallsBeside[moves]
  /\ \/ \E e \in Elements, p \in Positions : Resolve(c, "add", e, p) \/ Resolve(c, "update", e, p)
     \/ \E e \in Elements : RemoveMember(c, e)
     \/ \E e, f \in Elements, p, q \in Positions : e # f /\ SelectMembers(c, Item2(e, f, p, q))

MemberStep(c) ==
  /\ UserCall(c) \/ OwnRequest(c)
  /\ job' = IF rows' # rows /\ c \notin job.caller THEN Disturbed ELSE job
  /\ UNCHANGED <<store, files, panel, saving, moves>>

CallFails(c) ==
  /\ Fail(c)
  /\ job' = IF c \in job.caller THEN NoJob ELSE job
  /\ UNCHANGED <<store, files, panel, saving, moves>>

TransferNext ==
  \/ Export
  \/ \E f \in files : ImportBundle(f) \/ \E n \in Namespaces : ImportFile(f.doc, n)
  \/ Register \/ Group \/ Find \/ Fetch \/ WriteGroup \/ EnsureWorkspace
  \/ (\E c \in Calls : AddMember(c)) \/ MemberAdded \/ NotesNext \/ EnsureNote \/ Finish \/ ImportFails
  \/ \E s \in Scopes : s[2] \in Registered(store) /\ Open(s[1], s[2])
  \/ Close \/ \E l \in panel.loads : Loaded(l) \/ LoadFails(l)
  \/ \E tab \in {"schema", "shapes"} : \E text \in Drafts(Part(panel.text, tab)) : Save(tab, text)
  \/ SaveWrites \/ SaveFails
  \/ \E c \in Calls : MemberStep(c) \/ CallFails(c)

TransferSpec == TransferInit /\ [][TransferNext]_allVars
-----------------------------------------------------------------------------
\* No element has two rows and no two elements one, in whatever way rows are made: by hand,
\* in a batch, or by an import.
RowsAreTheirOwn == OneRowEach /\ NoSharedSubject

\* A batch adds what repeated adds would.  Said of the rows whenever nothing
\* is under way and the panel is closed, which changes no row.
BatchAtRest ==
  (job = NoJob /\ panel = NoPanel /\ saving = NotSaving /\ \A c \in Calls : call[c] = Idle) => BatchIsAddRepeated

Triples(st, n) == Whole(st[n]).quads
HasValue(st, q) == \E n \in Namespaces : \E t \in Triples(st, n) : t[1] = q[1] /\ t[2] = q[2]
IsNew(st, iri) == \A n \in Namespaces : \A t \in Triples(st, n) : t[1] # iri

\* importWorkspaceBundle, uninterrupted and undisturbed, brings the whole file: every triple is
\* stored unless its subject had that predicate before, an unknown subject is in the namespace it
\* was minted under if file or store has that one (the import's own declarations, which come first,
\* are in the default one), shapes have their properties, the workspace its members and notes; and
\* a second import would insert nothing, but for a subject that is split over namespaces, which may
\* be looked for in another one then.
BundleArrives ==
  (job.pc = "done" /\ job.kind = "bundle" /\ job.alone) =>
    LET f == job.file
    IN  /\ f.namespaces \subseteq Registered(store) /\ IsDeclared(store, Workspace, "Workspace")
        /\ f.notes \subseteq StoredNotes(store)
        /\ {i.element : i \in f.members} \subseteq MembersOf(rows)
        /\ \A q \in f.doc.quads : HasValue(job.base, q) \/ \E n \in Namespaces : q \in Triples(store, n)
        /\ \A q \in f.doc.quads :
             (q[1] \notin OwnIris /\ IsNew(job.base, q[1]) /\ HomeOf[q[1]] \in f.namespaces \cup Registered(job.base)) =>
               q \in Triples(store, HomeOf[q[1]])
        /\ \A b \in f.doc.blocks : b.of # "none" => \E n \in Namespaces : b \in store[n].blocks
                                                       \/ \E e \in job.base[n].blocks : e.of = b.of
        /\ \A ns \in DOMAIN job.groups : \A homes \in HomesOf(job.groups[ns], ns) :
             \A q \in Clean(job.groups[ns], Existing(job.groups[ns], homes, ns)).quads :
               \E m, n \in Holding(q[1]) : m # n

\* What an import's step wrote: the store, or by its own call the rows.
ImportWrote == store' # store /\ saving' = saving

Others(callers) == \A c \in Calls \ callers : call'[c] = call[c]

\* An import only adds: nothing stored goes or moves, no position is overwritten, and a predicate
\* that had a value in the namespace gets no other one.
ImportsOnlyAdd ==
  [][/\ ImportWrote =>
          \A n \in Namespaces :
            /\ Triples(store, n) \subseteq Triples(store', n) /\ store[n].blocks \subseteq store'[n].blocks
            /\ job.alone => \A q \in Triples(store', n) \ Triples(store, n), t \in Triples(store, n) :
                              ~(t[1] = q[1] /\ t[2] = q[2])
     /\ (job.caller # {} /\ job'.caller = job.caller /\ saving' = saving /\ Others(job.caller)) =>
          \A e \in Elements : PositionsOf(e) # {} => PositionsOf(e)' = PositionsOf(e)]_allVars

\* The check before a write is about the graph the write leads to: what an import or a save has
\* written breaks no structural rule of the namespaces it looked at, unless somebody wrote since
\* they were read, or the store kept triples the text had dropped.
WritesAreChecked ==
  [][/\ (job.pc = "write" /\ ImportWrote /\ job.alone) =>
          StructuralIssues(UNION {Triples(store', n) :
                                    n \in Involved(job.groups[job.group], job.homes, job.group)}) = {}
     /\ (saving # NotSaving /\ store' # store /\ saving' # saving) =>
          LET dropped == Part(saving.full, saving.tab).quads \ saving.text.quads
          IN  \/ Whole(store[saving.ns]) # saving.read
              \/ dropped \cap Triples(store', saving.ns) # {}
              \/ StructuralIssues(Triples(store', saving.ns)) = {}]_allVars

\* A save replaces its scope by its text and touches nothing else: the text is stored, the
\* entity's own triples that were dropped are gone, all other triples stay, in all namespaces,
\* and so do the app's own rows.  Left out are a class's shape outside the default namespace, the
\* rows when the whole default schema graph is saved, and triples that are not in the graph of
\* their entity's kind, where a save looks for them: these the code gets wrong.
Rebuilds(s) == <<s.scope, s.ns, s.tab>> = <<"all", Default, "schema">>
Unseen(s) == IF IsClass(s.full, s.scope) /\ s.tab = "shapes" THEN {ShapeIri[s.scope][s.ns]} ELSE {}

Elsewhere(g, s) ==
  IF ~IsClass(s.full, s.scope) /\ LooksLikeIndividual(s.full.quads, s.scope) THEN g.schema ELSE g.instances

SavesAreTheirText ==
  [][(saving # NotSaving /\ saving' # saving /\ store' # store /\ Whole(store[saving.ns]) = saving.read) =>
       LET s == saving
           before == s.read
           after == Whole(store'[s.ns])
           old == Part(s.full, s.tab)
       IN  /\ s.text.quads \subseteq after.quads /\ s.text.blocks \subseteq after.blocks
           /\ after.quads \subseteq before.quads \cup s.text.quads
           /\ {q \in before.quads \ old.quads : q[1] \notin Unseen(s)} \subseteq after.quads
           /\ \A q \in old.quads \ s.text.quads :
                q[1] = s.scope => q \notin after.quads \/ q \in Elsewhere(store[s.ns], s)
           /\ \A b \in before.blocks \ after.blocks : \/ b \in old.blocks \/ b.of \in Unseen(s)
                                                      \/ s.tab = "shapes" /\ b.path = s.scope
           /\ \A n \in Namespaces \ {s.ns} : store'[n] = store[n]
           /\ Rebuilds(s) \/ <<Registered(store'), StoredNotes(store'), rows'>>
                               = <<Registered(store), StoredNotes(store), rows>>]_allVars

\* By hand, violated.  What is shown, and would be saved, is what the panel is open on.
PanelShowsItsScope ==
  panel.scope # "none" /\ ~panel.loading /\ ~panel.error => panel.shown = <<panel.scope, panel.ns>>
=============================================================================

---------------------------- MODULE CanvasEdits ----------------------------
(***************************************************************************)
(* What an edit on the canvas page (routes/+page.svelte) does to the       *)
(* graphs, to the schema the page keeps from its last load                 *)
(* (lastFetchedSchema) and to the nodes and edges on screen.  A handler    *)
(* writes first and touches the page when the call returns; in between the *)
(* view may be switched.  Some handlers update the kept schema and rebuild *)
(* the canvas from it (services/canvas-model.ts), the others only patch    *)
(* what is on screen.  One workspace and one namespace: SchemaEdits has    *)
(* the connector's calls in detail, WorkspaceCanvas the workspaces.        *)
(***************************************************************************)
EXTENDS Naturals, FiniteSets

CONSTANTS
  Classes, Externals, Individuals, Notes,
  Associations,   \* the classes that carry attributed links
  LinkNames,
  StartStores,    \* what the graphs hold when the page is first loaded
  MaxCalls,       \* the handlers that may be under way at once
  MaxEdits,       \* bound on the handlers begun
  LoadsOverlap    \* whether Reload may be pressed while a handler is under way

None == "none"
Absent == "absent"      \* a note that does not exist
Unlinked == "unlinked"  \* a note that points at nothing

VARIABLES
  store,      \* the graphs
  snapshot,   \* lastFetchedSchema
  canvas,     \* nodes and edges
  view,       \* viewMode
  notes,      \* noteRecords
  members,    \* workspaceMembers
  calls,      \* the handlers whose calls are under way
  loading,    \* the answer of a load under way
  edits,
  behind,     \* history: what was written since the last load without the snapshot being told
  reverted,   \* history: what the canvas has been rebuilt, or left, without
  stray       \* history: what was drawn since the last rebuild that no load draws in this view

history == <<behind, reverted, stray>>
vars == <<store, snapshot, canvas, view, notes, members, calls, loading, edits, history>>
-----------------------------------------------------------------------------
(* What a load reads.  Only instances of a declared class are individuals; a fact about a class
   needs it declared, and a fact about an individual needs that to have a type.  A class has at
   most one attribute of its own here, named by the class. *)
Fetched(s) ==
  [classes |-> s.classes, attrs |-> s.attrs, supers |-> s.supers, rels |-> s.rels,
   typed |-> [i \in Individuals |-> IF s.typed[i] \in s.classes THEN s.typed[i] ELSE None],
   facts |-> {[fact |-> f, of |-> "class"] : f \in {g \in s.facts : g[2] \in s.classes}}
      \cup {[fact |-> f, of |-> "individual"] :
              f \in {g \in s.facts : g[2] \in Individuals /\ s.typed[g[2]] # None}}]

Parts == {"classes", "attrs", "supers", "rels", "typed", "facts"}

Above(supers, c) ==
  {d \in Classes : \A S \in SUBSET Classes :
     (\A e \in supers : e[1] \in S \cup {c} /\ e[2] \in Classes => e[2] \in S) => d \in S}

NotesDrawn(records) == {<<n, records[n]>> : n \in {m \in Notes : records[m] # Absent}}

(* The nodes and edges of a schema.  Relations and is-a edges are those of the Schema view,
   individuals and their facts those of the Instances view; entities list their own and inherited
   attributes, and their instances, in both. *)
Drawn(v, schema, records) ==
  LET instances == {i \in Individuals : schema.typed[i] # None}
      types == {<<i, schema.typed[i]>> : i \in instances}
  IN [entities    |-> schema.classes,
      externals   |-> IF v = "schema" THEN {e[2] : e \in schema.supers} \ schema.classes ELSE {},
      fields      |-> {f \in schema.classes \X schema.attrs : f[2] \in Above(schema.supers, f[1]) \cup {f[1]}},
      members     |-> {t \in types : t[2] \in schema.classes},
      relations   |-> IF v = "schema" THEN schema.rels ELSE {},
      supers      |-> IF v = "schema" THEN schema.supers ELSE {},
      individuals |-> IF v = "instances" THEN instances ELSE {},
      types       |-> IF v = "instances" THEN types ELSE {},
      facts       |-> IF v = "instances" THEN {r.fact : r \in schema.facts} ELSE {},
      notes       |-> NotesDrawn(records)]

Init ==
  /\ store \in StartStores
  /\ snapshot = Fetched(store)
  /\ view \in {"schema", "instances"}
  /\ notes = store.notes
  /\ canvas = Drawn(view, snapshot, notes)
  /\ members = store.classes \cup {i \in Individuals : store.typed[i] # None}
  /\ calls = {} /\ loading = {} /\ edits = 0
  /\ behind = {} /\ reverted = {} /\ stray = {}
-----------------------------------------------------------------------------
(* A handler begins: its writes are executed, and its call is under way.  told are the parts of
   the snapshot it will update when the call returns. *)
Begins(what, s, told) ==
  LET changed == {part \in Parts : s[part] # store[part] \/ Fetched(s)[part] # Fetched(store)[part]}
  IN /\ Cardinality(calls) < MaxCalls /\ edits < MaxEdits
     /\ (loading = {} \/ LoadsOverlap)
     /\ store' = s
     /\ calls' = calls \cup {[what |-> what, changed |-> changed]}
     /\ edits' = edits + 1
     /\ behind' = behind \cup (changed \ told)
     /\ UNCHANGED <<snapshot, canvas, view, notes, members, loading, reverted, stray>>

(* It returns and patches the canvas, whatever the view is by then; lost are the parts that it wrote
   and does not draw, astray what it leaves on screen and a load would not. *)
Patches(c, nodesAndEdges, lost, astray) ==
  /\ calls' = calls \ {c}
  /\ canvas' = nodesAndEdges
  /\ reverted' = reverted \cup lost
  /\ stray' = stray \cup astray
  /\ UNCHANGED <<store, snapshot, view, loading, edits>>

(* It returns, updates the snapshot and rebuilds the canvas and its notes from it. *)
Rebuilds(c, schema, records, missed) ==
  /\ calls' = calls \ {c}
  /\ snapshot' = schema /\ notes' = records
  /\ canvas' = Drawn(view, schema, records)
  /\ behind' = behind \cup missed
  /\ reverted' = (reverted \cup behind \cup missed) \ {"notes", "edges"}
  /\ stray' = {}
  /\ UNCHANGED <<store, view, loading, edits>>

(* A call fails, before or after its writes: the page shows an error and nothing else. *)
CallFails ==
  \E c \in calls :
    /\ calls' = calls \ {c}
    /\ behind' = behind \cup c.changed \cup {"records"}
    /\ reverted' = reverted \cup c.changed
    /\ UNCHANGED <<store, snapshot, canvas, view, notes, members, loading, edits, stray>>

(* Relations are edges of the Schema view; this one is put on screen. *)
InWrongView(relations) == IF view = "schema" THEN {} ELSE relations
Without(edges, e) == {f \in edges : e \notin {f[1], f[2]}}
Relink(records, gone) == [n \in Notes |-> IF records[n] \in gone THEN Unlinked ELSE records[n]]
-----------------------------------------------------------------------------
(* Entities and attributes. *)
CreateEntity(c) ==
  /\ c \notin store.classes
  /\ Begins([do |-> "create entity", class |-> c], [store EXCEPT !.classes = @ \cup {c}], {})

(* What was said of a class of that name before is read again. *)
Resurfaced(c, changed) == (changed \ {"classes"}) \cup (IF c \in store.attrs THEN {"attrs"} ELSE {})

EntityCreated ==
  \E k \in calls :
    /\ k.what.do = "create entity"
    /\ members' = members \cup {k.what.class}
    /\ Patches(k, [canvas EXCEPT !.entities = @ \cup {k.what.class}], Resurfaced(k.what.class, k.changed), {})
    /\ UNCHANGED <<notes, behind>>

(* The connector removes the class with its own properties and is-a rows, its individuals with
   what is said of them, and the links of notes to any of these. *)
DeleteEntity(c) ==
  LET gone == {i \in Individuals : store.typed[i] = c}
  IN /\ c \in canvas.entities
     /\ Begins([do |-> "delete entity", class |-> c, gone |-> gone],
               [store EXCEPT !.classes = @ \ {c}, !.attrs = @ \ {c}, !.supers = Without(@, c),
                  !.rels = {r \in @ : r[2] # c},
                  !.typed = [i \in Individuals |-> IF i \in gone THEN None ELSE @[i]],
                  !.facts = {f \in @ : f[1] \notin gone},
                  !.notes = Relink(@, gone \cup {c})],
               {})

EntityDeleted ==
  \E k \in calls :
    LET c == k.what.class
        left == IF k.what.gone = {} THEN {} ELSE {"typed", "facts"}
        into == IF \E r \in store.rels : r[3] = c THEN {"rels"} ELSE {}
        orphans == {e[2] : e \in canvas.supers} \ {e[2] : e \in Without(canvas.supers, c)}
    IN /\ k.what.do = "delete entity"
       /\ notes' = Relink(notes, {c})
       /\ Patches(k, [canvas EXCEPT !.entities = @ \ {c}, !.externals = @ \ {c},
                        !.fields = {f \in @ : f[1] # c}, !.members = {m \in @ : m[2] # c},
                        !.relations = {r \in @ : c \notin {r[2], r[3]}}, !.supers = Without(@, c),
                        !.types = Without(@, c), !.facts = Without(@, c),
                        !.notes = NotesDrawn(notes')],
                  left \cup into, orphans)
       /\ behind' = behind \cup (IF k.what.gone = {} THEN {} ELSE {"records"})
       /\ UNCHANGED members

AddAttribute(c) ==
  /\ c \in canvas.entities /\ <<c, c>> \notin canvas.fields
  /\ Begins([do |-> "add attribute", class |-> c], [store EXCEPT !.attrs = @ \cup {c}], {})

AttributeAdded ==
  \E k \in calls :
    LET c == k.what.class
    IN /\ k.what.do = "add attribute"
       /\ Patches(k, [canvas EXCEPT !.fields = @ \cup ({<<c, c>>} \cap (canvas.entities \X Classes))], {}, {})
       /\ UNCHANGED <<notes, members, behind>>

DeleteAttribute(c) ==
  /\ <<c, c>> \in canvas.fields
  /\ Begins([do |-> "delete attribute", class |-> c], [store EXCEPT !.attrs = @ \ {c}], {})

AttributeDeleted ==
  \E k \in calls :
    /\ k.what.do = "delete attribute"
    /\ Patches(k, [canvas EXCEPT !.fields = @ \ {<<k.what.class, k.what.class>>}], {}, {})
    /\ UNCHANGED <<notes, members, behind>>
-----------------------------------------------------------------------------
(* Relations and their generated reverses, as <<name, source, target>>. *)
Reverse(r) == <<"rev", r[3], r[2]>>
Edges == [relations |-> canvas.relations, supers |-> canvas.supers, types |-> canvas.types, facts |-> canvas.facts]

CreateRelation(r, reverse) ==
  /\ {r[2], r[3]} \subseteq canvas.entities /\ r \notin canvas.relations
  /\ Begins([do |-> "create relation", relation |-> r, reverse |-> reverse],
            [store EXCEPT !.rels = @ \cup {r}], {})

(* The edges are read before the reverse is written, and put back after it. *)
ReverseWritten ==
  \E k \in calls :
    /\ k.what.do = "create relation" /\ k.what.reverse
    /\ store' = [store EXCEPT !.rels = @ \cup {Reverse(k.what.relation)}]
    /\ calls' = (calls \ {k}) \cup
                  {[what |-> [do |-> "reverse written", relation |-> k.what.relation, view |-> view,
                              edges |-> Edges, stray |-> stray, lost |-> reverted \cap {"edges"}],
                    changed |-> {"rels"}]}
    /\ behind' = behind \cup {"rels"}
    /\ UNCHANGED <<snapshot, canvas, view, notes, members, loading, edits, reverted, stray>>

RelationCreated ==
  \E k \in calls :
    /\ \/ /\ k.what.do = "create relation" /\ ~k.what.reverse
          /\ Patches(k, [canvas EXCEPT !.relations = @ \cup {k.what.relation}], {},
                     InWrongView({k.what.relation}))
       \/ /\ k.what.do = "reverse written"
          /\ LET before == k.what.edges
             IN Patches(k, [canvas EXCEPT !.relations = before.relations \cup {k.what.relation, Reverse(k.what.relation)},
                              !.supers = before.supers, !.types = before.types, !.facts = before.facts],
                        IF k.what.view = view THEN k.what.lost ELSE {"edges"},
                        k.what.stray \cup InWrongView({k.what.relation, Reverse(k.what.relation)}))
    /\ UNCHANGED <<notes, members, behind>>

(* Retargets a relation; its reverse, if it has one, is deleted or written anew. *)
EditRelation(r, target, reverse) ==
  LET old == {r} \cup ({Reverse(r)} \cap store.rels)
      new == {<<r[1], r[2], target>>} \cup (IF reverse THEN {Reverse(<<r[1], r[2], target>>)} ELSE {})
  IN /\ r \in canvas.relations /\ r[1] = "rel" /\ target \in canvas.entities \ {r[2]}
     /\ Begins([do |-> "edit relation", old |-> old, new |-> new, edge |-> r],
               [store EXCEPT !.rels = (@ \ old) \cup new], {})

RelationEdited ==
  \E k \in calls :
    /\ k.what.do = "edit relation"
    /\ Patches(k, [canvas EXCEPT !.relations =
                     (@ \ k.what.old) \cup {r \in k.what.new : r[1] = "rev" \/ k.what.edge \in canvas.relations}], {},
               InWrongView(k.what.new))
    /\ UNCHANGED <<notes, members, behind>>

DeleteRelation(r) ==
  /\ r \in canvas.relations /\ r[1] \in {"rel", "rev"}
  /\ Begins([do |-> "delete relation", relation |-> r], [store EXCEPT !.rels = @ \ {r}], {})

RelationDeleted ==
  \E k \in calls :
    /\ k.what.do = "delete relation"
    /\ Patches(k, [canvas EXCEPT !.relations = @ \ {k.what.relation}], {}, {})
    /\ UNCHANGED <<notes, members, behind>>
-----------------------------------------------------------------------------
(* Association classes and their links, of which the page keeps at least two. *)
LinksOn(relations, c) == {r \in relations : r[1] \in LinkNames /\ r[2] = c}

CreateAssociation(c, links) ==
  /\ c \in Associations /\ c \notin store.classes
  /\ Cardinality(links) = 2 /\ \A l \in links : l[2] = c /\ l[3] \in canvas.entities
  /\ \A l, m \in links : l[1] = m[1] => l = m
  /\ Begins([do |-> "create association", class |-> c, links |-> links],
            [store EXCEPT !.classes = @ \cup {c}, !.rels = @ \cup links], {})

AssociationCreated ==
  \E k \in calls :
    /\ k.what.do = "create association"
    /\ members' = members \cup {k.what.class}
    /\ Patches(k, [canvas EXCEPT !.entities = @ \cup {k.what.class}, !.relations = @ \cup k.what.links],
               Resurfaced(k.what.class, k.changed \ {"rels"}), InWrongView(k.what.links))
    /\ UNCHANGED <<notes, behind>>

CreateLink(l) ==
  /\ l[2] \in canvas.entities \cap Associations /\ l[3] \in canvas.entities
  /\ l[1] \notin {r[1] : r \in LinksOn(canvas.relations \cup store.rels, l[2])}
  /\ Begins([do |-> "create link", link |-> l], [store EXCEPT !.rels = @ \cup {l}], {})

LinkCreated ==
  \E k \in calls :
    /\ k.what.do = "create link"
    /\ Patches(k, [canvas EXCEPT !.relations = @ \cup {k.what.link}], {}, InWrongView({k.what.link}))
    /\ UNCHANGED <<notes, members, behind>>

(* The guard counts the edges on screen, not the links in the graphs. *)
DeleteLink(l) ==
  /\ l \in canvas.relations /\ l[1] \in LinkNames
  /\ Cardinality(LinksOn(canvas.relations, l[2]) \ {l}) >= 2
  /\ Begins([do |-> "delete link", link |-> l], [store EXCEPT !.rels = @ \ {l}], {})

LinkDeleted ==
  \E k \in calls :
    /\ k.what.do = "delete link"
    /\ Patches(k, [canvas EXCEPT !.relations = @ \ {k.what.link}], {}, {})
    /\ UNCHANGED <<notes, members, behind>>
-----------------------------------------------------------------------------
(* Is-a edges and the stubs of external classes. *)
CreateInheritance(c, d) ==
  /\ c \in canvas.entities /\ d \in canvas.entities \cup canvas.externals
  /\ c # d /\ c \notin Above(store.supers, d)
  /\ Begins([do |-> "is-a", edge |-> <<c, d>>], [store EXCEPT !.supers = @ \cup {<<c, d>>}], {"supers"})

\* Mutant of InheritanceCreated: the edge is patched in, and what is inherited along it is not.
InheritanceCreated_Patches ==
  \E k \in calls :
    /\ k.what.do = "is-a"
    /\ calls' = calls \ {k}
    /\ snapshot' = [snapshot EXCEPT !.supers = @ \cup {k.what.edge}]
    /\ canvas' = [canvas EXCEPT !.supers = @ \cup (IF view = "schema" THEN {k.what.edge} ELSE {})]
    /\ UNCHANGED <<store, view, notes, members, loading, edits, history>>

InheritanceCreated ==
  \E k \in calls :
    /\ k.what.do = "is-a"
    /\ Rebuilds(k, [snapshot EXCEPT !.supers = @ \cup {k.what.edge}], notes, {})
    /\ UNCHANGED members

DeleteInheritance(e) ==
  /\ e \in canvas.supers
  /\ Begins([do |-> "not is-a", edge |-> e], [store EXCEPT !.supers = @ \ {e}], {"supers"})

InheritanceDeleted ==
  \E k \in calls :
    /\ k.what.do = "not is-a"
    /\ Rebuilds(k, [snapshot EXCEPT !.supers = @ \ {k.what.edge}], notes, {})
    /\ UNCHANGED members

AddExternalClass(x) ==
  /\ x \notin canvas.externals
  /\ Begins([do |-> "add stub", class |-> x], store, {})

ExternalClassAdded ==
  \E k \in calls :
    /\ k.what.do = "add stub"
    /\ Patches(k, [canvas EXCEPT !.externals = @ \cup {k.what.class}], {}, {k.what.class})
    /\ UNCHANGED <<notes, members, behind>>

RemoveExternalStub(x) ==
  /\ x \in canvas.externals
  /\ Begins([do |-> "remove stub", class |-> x],
            [store EXCEPT !.supers = @ \ {e \in canvas.supers : x \in {e[1], e[2]}}], {})

ExternalStubRemoved ==
  \E k \in calls :
    LET x == k.what.class
        left == IF \E e \in store.supers : e[2] = x THEN {"supers"} ELSE {}
    IN /\ k.what.do = "remove stub"
       /\ Patches(k, [canvas EXCEPT !.externals = @ \ {x}, !.supers = Without(@, x)], left, {})
       /\ UNCHANGED <<notes, members, behind>>
-----------------------------------------------------------------------------
(* Instances and their facts, as <<instance, object>>.  An editor lists an entity's instances in
   either view.  The relations of a form are drawn, and told to the snapshot, only in the Instances
   view with both ends on screen. *)
IsNode(o) == o \in canvas.entities \cup canvas.individuals
Kind(o) == IF o \in canvas.individuals THEN "individual" ELSE "class"
CanShow(f) == view = "instances" /\ f[1] \in canvas.individuals /\ IsNode(f[2])
ToDraw(added) == {f \in added : CanShow(f)}

FactsAfter(facts, added, removed) ==
  {r \in facts : r.fact \notin removed \cap canvas.facts}
    \cup {[fact |-> f, of |-> Kind(f[2])] : f \in ToDraw(added) \ canvas.facts}

Untold(added, removed) ==
  IF ToDraw(added) = added /\ removed \subseteq canvas.facts THEN {} ELSE {"facts"}

AddMember(i, c, facts) ==
  /\ c \in canvas.entities /\ store.typed[i] = None
  /\ \A f \in facts : f[1] = i /\ f[2] # i
  /\ Begins([do |-> "add member", individual |-> i, class |-> c, added |-> facts],
            [store EXCEPT !.typed[i] = c, !.facts = @ \cup facts], {"typed"})

MemberAdded ==
  \E k \in calls :
    /\ k.what.do = "add member"
    /\ members' = members \cup {k.what.individual}
    /\ Rebuilds(k, [snapshot EXCEPT !.typed[k.what.individual] = k.what.class,
                                    !.facts = FactsAfter(@, k.what.added, {})],
                notes, Untold(k.what.added, {}))

(* The edit form: of the instance, or of its node with a change of class, which drops its facts. *)
EditMember(i, added, removed) ==
  /\ i \in canvas.individuals \cup {m[1] : m \in canvas.members} /\ store.typed[i] # None
  /\ \A f \in added \cup removed : f[1] = i /\ f[2] # i
  /\ added \cap store.facts = {} /\ removed \subseteq store.facts
  /\ Begins([do |-> "edit member", individual |-> i, added |-> added, removed |-> removed],
            [store EXCEPT !.facts = (@ \cup added) \ removed], {"facts"})

MemberEdited ==
  \E k \in calls :
    /\ k.what.do = "edit member"
    /\ Rebuilds(k, [snapshot EXCEPT !.facts = FactsAfter(@, k.what.added, k.what.removed)],
                notes, Untold(k.what.added, k.what.removed))
    /\ UNCHANGED members

ChangeClass(i, c, drop) ==
  /\ i \in canvas.individuals /\ store.typed[i] # None /\ c \in snapshot.classes \ Associations
  /\ Begins([do |-> "change class", individual |-> i, class |-> c, drop |-> drop],
            [store EXCEPT !.typed[i] = c, !.facts = {f \in @ : ~drop \/ f[1] # i}],
            {"typed", "facts"})

ClassChanged ==
  \E k \in calls :
    /\ k.what.do = "change class"
    /\ Rebuilds(k, IF snapshot.typed[k.what.individual] = None THEN snapshot
                   ELSE [snapshot EXCEPT !.typed[k.what.individual] = k.what.class,
                                         !.facts = {r \in @ : ~k.what.drop \/ r.fact[1] # k.what.individual}],
                notes, IF snapshot.typed[k.what.individual] = None THEN {"typed", "facts"} ELSE {})
    /\ UNCHANGED members

(* Only what the individual says goes: what others say of it stays, to be seen again if an
   instance of its name is added. *)
DeleteMember(i) ==
  /\ i \in canvas.individuals \cup {m[1] : m \in canvas.members} /\ store.typed[i] # None
  /\ Begins([do |-> "delete member", individual |-> i],
            [store EXCEPT !.typed[i] = None, !.facts = {f \in @ : f[1] # i}, !.notes = Relink(@, {i})],
            {"typed", "facts"})

\* Mutant of Forget: a fact that ends at the individual is kept.
Forget_KeepsTargets(schema, i) ==
  [schema EXCEPT !.typed[i] = None, !.facts = {r \in @ : r.fact[1] # i}]

(* The cascade of the connector, repeated on the snapshot. *)
Forget(schema, i) ==
  [schema EXCEPT !.typed[i] = None,
     !.facts = {r \in @ : r.fact[1] # i /\ (r.of = "individual" => r.fact[2] # i)}]

MemberDeleted ==
  \E k \in calls :
    /\ k.what.do = "delete member"
    /\ Rebuilds(k, Forget(snapshot, k.what.individual), Relink(notes, {k.what.individual}), {})
    /\ UNCHANGED members

(* A relation drawn between two nodes, edited or deleted at its edge, is told in either view. *)
WriteFacts(do, old, new) ==
  /\ old \subseteq canvas.facts
  /\ \A f \in new : f[1] \in canvas.individuals /\ IsNode(f[2]) /\ f[1] # f[2]
  /\ Begins([do |-> do, old |-> old, new |-> new],
            [store EXCEPT !.facts = (@ \ old) \cup new], {"facts"})

CreateFact(f) == f \notin canvas.facts /\ WriteFacts("write facts", {}, {f})
EditFact(f, g) == f[1] = g[1] /\ f # g /\ WriteFacts("write facts", {f}, {g})
DeleteFact(f) == WriteFacts("write facts", {f}, {})

FactsWritten ==
  \E k \in calls :
    /\ k.what.do = "write facts"
    /\ snapshot' = [snapshot EXCEPT !.facts =
          {r \in @ : r.fact \notin k.what.old} \cup {[fact |-> f, of |-> Kind(f[2])] : f \in k.what.new}]
    /\ calls' = calls \ {k}
    /\ canvas' = [canvas EXCEPT !.facts = (@ \ k.what.old)
                     \cup (IF k.what.old \subseteq canvas.facts THEN k.what.new ELSE {})]
    /\ LET misfiled == IF \A f \in k.what.new : IsNode(f[2]) THEN {} ELSE {"facts"}
       IN behind' = behind \cup misfiled /\ reverted' = reverted \cup misfiled
    /\ stray' = stray \cup (IF view = "instances" THEN {} ELSE k.what.new)
    /\ UNCHANGED <<store, view, notes, members, loading, edits>>

(* One assertion, in the editor of an instance. *)
AddAssertion(f) ==
  /\ f[1] \in canvas.individuals \cup {m[1] : m \in canvas.members} /\ store.typed[f[1]] # None
  /\ f[1] # f[2] /\ f \notin store.facts
  /\ Begins([do |-> "assert", added |-> {f}, removed |-> {}], [store EXCEPT !.facts = @ \cup {f}], {"facts"})

DeleteAssertion(f) ==
  /\ f[1] \in canvas.individuals \cup {m[1] : m \in canvas.members} /\ f \in store.facts
  /\ Begins([do |-> "assert", added |-> {}, removed |-> {f}], [store EXCEPT !.facts = @ \ {f}], {"facts"})

AssertionMade ==
  \E k \in calls :
    LET missed == Untold(k.what.added, k.what.removed)
    IN /\ k.what.do = "assert"
       /\ snapshot' = [snapshot EXCEPT !.facts = FactsAfter(@, k.what.added, k.what.removed)]
       /\ canvas' = [canvas EXCEPT !.facts = (@ \cup ToDraw(k.what.added)) \ k.what.removed]
       /\ calls' = calls \ {k}
       /\ behind' = behind \cup missed /\ reverted' = reverted \cup missed
       /\ UNCHANGED <<store, view, notes, members, loading, edits, stray>>
-----------------------------------------------------------------------------
(* Notes, which link to a class or an individual. *)
WriteNote(do, n, link) ==
  Begins([do |-> do, note |-> n, link |-> link], [store EXCEPT !.notes[n] = link], {})

AddNote(n) == store.notes[n] = Absent /\ notes[n] = Absent /\ WriteNote("note", n, Unlinked)
LinkNote(n, e) == <<n, notes[n]>> \in canvas.notes /\ IsNode(e) /\ WriteNote("note", n, e)
UnlinkNote(n) == <<n, notes[n]>> \in canvas.notes /\ notes[n] # Unlinked /\ WriteNote("note", n, Unlinked)
DeleteNote(n) == <<n, notes[n]>> \in canvas.notes /\ WriteNote("note", n, Absent)

NoteWritten ==
  \E k \in calls :
    /\ k.what.do = "note"
    /\ notes' = [notes EXCEPT ![k.what.note] = k.what.link]
    /\ calls' = calls \ {k}
    /\ canvas' = [canvas EXCEPT !.notes = NotesDrawn(notes')]
    /\ reverted' = reverted \ {"notes"}
    /\ UNCHANGED <<store, snapshot, view, members, loading, edits, behind, stray>>
-----------------------------------------------------------------------------
(* Membership of the workspace.  An element that has no node makes the page fetch the schema and
   rebuild the canvas, and here without its notes. *)
AddElements(elements) ==
  /\ elements # {} /\ elements \subseteq store.classes \cup {i \in Individuals : store.typed[i] # None}
  /\ Begins([do |-> "add elements", new |-> elements \ members], store, {})

ElementsAdded ==
  \E k \in calls :
    /\ k.what.do = "add elements" /\ \A e \in k.what.new : IsNode(e)
    /\ members' = members \cup k.what.new
    /\ Patches(k, canvas, {}, {})
    /\ UNCHANGED <<notes, behind>>

SchemaRefetched ==
  \E k \in calls :
    /\ k.what.do = "add elements" /\ \E e \in k.what.new : ~IsNode(e)
    /\ members' = members \cup k.what.new
    /\ calls' = (calls \ {k}) \cup {[k EXCEPT !.what = [do |-> "apply", schema |-> Fetched(store)]]}
    /\ UNCHANGED <<store, snapshot, canvas, view, notes, loading, edits, history>>

SchemaApplied ==
  \E k \in calls :
    /\ k.what.do = "apply"
    /\ snapshot' = k.what.schema
    /\ canvas' = [Drawn(view, k.what.schema, notes) EXCEPT !.notes = {}]
    /\ calls' = calls \ {k}
    /\ behind' = behind \ Parts /\ reverted' = {"notes"} /\ stray' = {}
    /\ UNCHANGED <<store, view, notes, members, loading, edits>>

RemoveFromWorkspace(c) ==
  c \in canvas.entities \cap members /\ Begins([do |-> "remove element", element |-> c], store, {})

ElementRemoved ==
  \E k \in calls :
    /\ k.what.do = "remove element"
    /\ members' = members \ {k.what.element}
    /\ calls' = calls \ {k}
    /\ canvas' = [canvas EXCEPT !.notes = NotesDrawn(notes)]
    /\ reverted' = reverted \ {"notes"}
    /\ UNCHANGED <<store, snapshot, view, notes, loading, edits, behind, stray>>
-----------------------------------------------------------------------------
(* The toggle of the navbar redraws what the page has; Reload fetches everything. *)
ChangeView ==
  /\ loading = {}
  /\ view' = (CHOOSE v \in {"schema", "instances"} : v # view)
  /\ canvas' = Drawn(view', snapshot, notes)
  /\ reverted' = (reverted \cup behind) \ {"notes", "edges"} /\ stray' = {}
  /\ UNCHANGED <<store, snapshot, notes, members, calls, loading, edits, behind>>

LoadFetches ==
  /\ loading = {}
  /\ calls = {} \/ LoadsOverlap
  /\ behind \cup reverted # {}
  /\ loading' = {[schema |-> Fetched(store), notes |-> store.notes]}
  /\ UNCHANGED <<store, snapshot, canvas, view, notes, members, calls, edits, history>>

LoadApplies ==
  \E load \in loading :
    /\ snapshot' = load.schema /\ notes' = load.notes
    /\ canvas' = Drawn(view, load.schema, load.notes)
    /\ loading' = {}
    /\ behind' = {} /\ reverted' = {} /\ stray' = {}
    /\ UNCHANGED <<store, view, members, calls, edits>>

Elements == Classes \cup Individuals
RelationsOf(names) == {r \in names \X Classes \X Classes : r[2] # r[3]}
Facts == {f \in Individuals \X Elements : f[1] # f[2]}
FewFacts == {{}} \cup {{f} : f \in Facts}

Begin ==
  \/ \E c \in Classes \ Associations : CreateEntity(c)
  \/ \E c \in Classes : DeleteEntity(c) \/ AddAttribute(c) \/ DeleteAttribute(c) \/ RemoveFromWorkspace(c)
  \/ \E r \in RelationsOf({"rel"}), reverse \in BOOLEAN :
        \/ CreateRelation(r, reverse)
        \/ \E target \in Classes : EditRelation(r, target, reverse)
  \/ \E r \in RelationsOf({"rel", "rev"}) : DeleteRelation(r)
  \/ \E c \in Associations, l, k \in RelationsOf(LinkNames) : CreateAssociation(c, {l, k})
  \/ \E l \in RelationsOf(LinkNames) : CreateLink(l) \/ DeleteLink(l)
  \/ \E c \in Classes, d \in Classes \cup Externals : CreateInheritance(c, d) \/ DeleteInheritance(<<c, d>>)
  \/ \E x \in Externals : AddExternalClass(x) \/ RemoveExternalStub(x)
  \/ \E i \in Individuals, c \in Classes :
        \/ \E facts \in FewFacts : AddMember(i, c, facts)
        \/ \E drop \in BOOLEAN : ChangeClass(i, c, drop)
  \/ \E i \in Individuals :
        \/ \E added, removed \in FewFacts : EditMember(i, added, removed)
        \/ DeleteMember(i)
  \/ \E f \in Facts : \/ CreateFact(f) \/ DeleteFact(f) \/ AddAssertion(f) \/ DeleteAssertion(f)
                       \/ \E g \in Facts : EditFact(f, g)
  \/ \E n \in Notes : \/ AddNote(n) \/ UnlinkNote(n) \/ DeleteNote(n)
                      \/ \E e \in Elements : LinkNote(n, e)
  \/ \E e \in Elements, more \in SUBSET Classes : AddElements({e} \cup more)

Return ==
  \/ EntityCreated \/ EntityDeleted \/ AttributeAdded \/ AttributeDeleted
  \/ ReverseWritten \/ RelationCreated \/ RelationEdited \/ RelationDeleted
  \/ AssociationCreated \/ LinkCreated \/ LinkDeleted
  \/ InheritanceCreated \/ InheritanceDeleted \/ ExternalClassAdded \/ ExternalStubRemoved
  \/ MemberAdded \/ MemberEdited \/ ClassChanged \/ MemberDeleted \/ FactsWritten \/ AssertionMade
  \/ NoteWritten \/ ElementsAdded \/ SchemaRefetched \/ SchemaApplied \/ ElementRemoved
  \/ CallFails

Next == (edits < MaxEdits /\ Begin) \/ Return \/ ChangeView \/ LoadFetches \/ LoadApplies
Spec == Init /\ [][Next]_vars
-----------------------------------------------------------------------------
TypeOK ==
  /\ store \in [classes : SUBSET Classes, attrs : SUBSET Classes,
                supers : SUBSET (Classes \X (Classes \cup Externals)),
                rels : SUBSET RelationsOf({"rel", "rev"} \cup LinkNames),
                typed : [Individuals -> Classes \cup {None}], facts : SUBSET Facts,
                notes : [Notes -> Elements \cup {Absent, Unlinked}]]
  /\ view \in {"schema", "instances"}
  /\ notes \in [Notes -> Elements \cup {Absent, Unlinked}]
  /\ members \subseteq Elements
  /\ behind \subseteq Parts \cup {"records"} /\ reverted \subseteq Parts \cup {"records", "notes", "edges"}
  /\ stray \subseteq Externals \cup Facts \cup RelationsOf({"rel", "rev"} \cup LinkNames)

AtRest == calls = {} /\ loading = {}

(* The snapshot holds what a load would read, but for the parts an edit wrote without telling it:
   what updateSubClassOfAndRebuild, updateIndividualRelationsInSchema and the updaters of
   individual-cache.ts are there for.  They follow the cascades of the connector. *)
Known ==
  (IF "classes" \in behind THEN snapshot.classes \cap store.classes ELSE Classes)
    \cup (IF "typed" \in behind THEN {i \in Individuals : None \notin {snapshot.typed[i], store.typed[i]}}
         ELSE Individuals)
Reads(schema, part) ==
  CASE part = "typed" -> {t \in Individuals \X (Classes \cap Known) : schema.typed[t[1]] = t[2]}
    [] part = "facts" -> {r \in schema.facts : r.fact[2] \in Known}
    [] OTHER -> schema[part]

SnapshotKeepsUp ==
  AtRest => \A part \in Parts \ behind : Reads(snapshot, part) = Reads(Fetched(store), part)

(* The canvas shows what a load would draw in the present view, nothing less in any layer and
   nothing more, but for the parts rebuilt from a snapshot that had not been told, those an edit
   wrote and did not draw, and what a patch left on screen that is no part of this view. *)
LayersOf ==
  [classes |-> {"entities"}, rels |-> {"relations"}, supers |-> {"supers", "externals"},
   typed |-> {"members", "individuals", "types"}, facts |-> {"facts"}, attrs |-> {}]
Exempt(layer) ==
  CASE layer \in {"relations", "supers"} -> {"edges"}
    [] layer \in {"types", "externals"} -> {"classes", "edges"}
    [] layer \in {"members", "individuals"} -> {"classes"}
    [] layer = "facts" -> {"classes", "typed", "edges"}
    [] OTHER -> {}
OwnFields(fields) == {f \in fields : f[1] = f[2]}

CanvasKeepsUp ==
  AtRest =>
    LET now == Drawn(view, Fetched(store), notes)
    IN /\ \A part \in Parts \ reverted : \A layer \in LayersOf[part] :
            reverted \cap Exempt(layer) = {} => canvas[layer] \ stray = now[layer] \ stray
       /\ reverted \cap {"classes", "attrs"} = {} => OwnFields(canvas.fields) = OwnFields(now.fields)
       /\ (behind \cup reverted) \cap {"classes", "attrs", "supers"} = {} => canvas.fields = now.fields

(* Notes are drawn as they are stored, and their links go with what they point at. *)
NotesKeepUp ==
  AtRest =>
    /\ "records" \notin behind => notes = store.notes
    /\ "notes" \notin reverted => canvas.notes = NotesDrawn(notes)

(* After every edit the picture is the one a load would draw, elements and notes alike, with the
   exceptions the two parts name. *)
PictureKeepsUp == CanvasKeepsUp /\ NotesKeepUp

(* By hand, violated.  An edit stays on the canvas when the view is switched and back. *)
EditsStayDrawn ==
  AtRest /\ view = "schema" => canvas.entities = store.classes /\ canvas.relations = store.rels

(* By hand, violated.  Relations are edges of the Schema view, facts of individuals of the
   Instances view, also when the view is switched while a call is under way. *)
EdgesInTheirView ==
  AtRest => /\ view = "instances" => canvas.relations = {}
            /\ view = "schema" => canvas.facts = {}

(* By hand, violated.  A rebuild is followed by one of the notes, whatever caused it. *)
NotesStayDrawn ==
  AtRest => canvas.notes = NotesDrawn(notes)

(* By hand, violated.  An association keeps at least two links. *)
AssociationsKeepTwo ==
  AtRest => \A c \in Associations : Cardinality(LinksOn(store.rels, c)) # 1

(* By hand, violated.  The relations entered with a new instance are drawn with it. *)
NewFactsAreDrawn ==
  AtRest /\ view = "instances" /\ behind \subseteq {"facts"} =>
    \A f \in store.facts : {f[1], f[2]} \subseteq canvas.individuals => f \in canvas.facts
=============================================================================

-------------------------- MODULE TransfersProofs --------------------------
(***************************************************************************)
(* What imports, saves and membership calls do to each other in the store, *)
(* proved for all graphs, files, texts, elements and positions.            *)
(***************************************************************************)
EXTENDS Transfers, FiniteSetTheorems, SequenceTheorems, WellFoundedInduction, TLAPS

\* The four parts of a namespace, and nothing else.
IsGraph(g) ==
  g = [instances |-> g.instances, schema |-> g.schema, shapes |-> g.shapes, blocks |-> g.blocks]

\* Nothing but shapes in the shapes graph.
ShapesApart(g) == \A q \in g.shapes : IsShape(q)

\* Statements no structural check looks at.
Neutral(q) == IsReified(q) \/ IsShape(q)

\* The two tabs split what is not reified by what a shape is.
LEMMA PartQuads ==
  ASSUME NEW d
  PROVE  /\ Part(d, "schema").quads = {q \in d.quads : ~IsReified(q) /\ ~IsShape(q)}
         /\ Part(d, "shapes").quads = {q \in d.quads : ~IsReified(q) /\ IsShape(q)}
         /\ Part(d, "schema").blocks = {} /\ Part(d, "shapes").blocks = d.blocks
  BY DEF Part, Doc

\* An insertion stores the whole text, each triple in one of the graphs, and takes nothing away.
LEMMA InsertGraph ==
  ASSUME NEW g, NEW d
  PROVE  /\ IsGraph(InsertInto(g, d))
         /\ Whole(InsertInto(g, d)).quads = Whole(g).quads \cup d.quads
         /\ Whole(InsertInto(g, d)).blocks = Whole(g).blocks \cup d.blocks
         /\ g.instances \subseteq InsertInto(g, d).instances
         /\ g.schema \subseteq InsertInto(g, d).schema
         /\ InsertInto(g, d).shapes = g.shapes \cup Part(d, "shapes").quads
<1> DEFINE h == InsertInto(g, d)
<1> DEFINE schema == Part(d, "schema").quads
<1> DEFINE individual == {q \in schema : LooksLikeIndividual(schema, q[1])}
<1> DEFINE reified == {q \in d.quads : IsReified(q)}
<1>1. h = [instances |-> g.instances \cup individual \cup reified, schema |-> g.schema \cup (schema \ individual),
           shapes |-> g.shapes \cup Part(d, "shapes").quads, blocks |-> g.blocks \cup Part(d, "shapes").blocks]
  BY DEF InsertInto
<1>2. individual \subseteq schema  OBVIOUS
<1>3. schema \cup Part(d, "shapes").quads \cup reified = d.quads  BY PartQuads
<1>4. Part(d, "shapes").blocks = d.blocks  BY PartQuads
<1> HIDE DEF h, schema, individual, reified
<1>5. /\ h.instances = g.instances \cup individual \cup reified /\ h.schema = g.schema \cup (schema \ individual)
      /\ h.shapes = g.shapes \cup Part(d, "shapes").quads /\ h.blocks = g.blocks \cup d.blocks
  BY <1>1, <1>4
<1>6. IsGraph(h)  BY <1>1 DEF IsGraph
<1>7. Whole(h).quads = Whole(g).quads \cup d.quads
  BY <1>2, <1>3, <1>5 DEF Whole, Doc
<1>8. Whole(h).blocks = Whole(g).blocks \cup d.blocks  BY <1>5 DEF Whole, Doc
<1> QED  BY <1>5, <1>6, <1>7, <1>8 DEF h

\* A deletion leaves graphs, and in each of them what was there or less.
LEMMA DeleteGraph ==
  ASSUME NEW g, IsGraph(g), NEW iri, NEW full, NEW tab \in {"schema", "shapes"}, NEW ns
  PROVE  LET h == DeleteScope(g, iri, full, tab, ns)
         IN  /\ IsGraph(h)
             /\ h.instances \subseteq g.instances /\ h.schema \subseteq g.schema
             /\ h.shapes \subseteq g.shapes /\ h.blocks \subseteq g.blocks
<1> DEFINE h == DeleteScope(g, iri, full, tab, ns)
<1> DEFINE shapes == {ShapeIri[c][ns] : c \in Domains(full, iri)}
<1>1. CASE iri = "all" /\ tab = "schema"
  <2>1. h = [g EXCEPT !.schema = {}]  BY <1>1 DEF DeleteScope
  <2> QED BY <2>1 DEF IsGraph
<1>2. CASE iri = "all" /\ tab = "shapes"
  <2>1. h = [g EXCEPT !.shapes = {}, !.blocks = {}]  BY <1>2 DEF DeleteScope
  <2> QED BY <2>1 DEF IsGraph
<1>3. CASE iri # "all" /\ IsClass(full, iri) /\ tab = "schema"
  <2>1. h = [g EXCEPT !.schema = {q \in @ : q[1] # iri}]  BY <1>3 DEF DeleteScope
  <2> QED BY <2>1 DEF IsGraph
<1>4. CASE iri # "all" /\ IsClass(full, iri) /\ tab = "shapes"
  <2>1. h = [g EXCEPT !.shapes = {q \in @ : q[1] # ShapeIri[iri][ns]},
                      !.blocks = {b \in @ : b.of # ShapeIri[iri][ns]}]
    BY <1>4 DEF DeleteScope
  <2> QED BY <2>1 DEF IsGraph
<1>5. CASE iri # "all" /\ ~IsClass(full, iri) /\ tab = "schema"
  <2>1. h = IF LooksLikeIndividual(full.quads, iri) THEN [g EXCEPT !.instances = {q \in @ : q[1] # iri}]
                                                     ELSE [g EXCEPT !.schema = {q \in @ : q[1] # iri}]
    BY <1>5 DEF DeleteScope
  <2> QED BY <2>1 DEF IsGraph
<1>6. CASE iri # "all" /\ ~IsClass(full, iri) /\ tab = "shapes"
  <2>1. h = [g EXCEPT !.blocks = {b \in @ : b.of \notin shapes \/ b.path # iri}]
    BY <1>6 DEF DeleteScope
  <2> QED BY <2>1 DEF IsGraph
<1> QED  BY <1>1, <1>2, <1>3, <1>4, <1>5, <1>6

\* The text of an entity is of the document it is cut from, has the entity's triples, and knows its classes.
LEMMA ScopeHolds ==
  ASSUME NEW d, NEW iri
  PROVE  /\ Scope(d, iri).quads \subseteq d.quads
         /\ iri = "all" => Scope(d, iri) = d
         /\ \A q \in d.quads : q[1] = iri => q \in Scope(d, iri).quads
         /\ iri # "all" => (IsClass(Scope(d, iri), iri) <=> IsClass(d, iri))
<1>1. CASE iri = "all"
  BY <1>1 DEF Scope
<1>2. CASE iri # "all" /\ IsClass(d, iri)
  <2>1. Scope(d, iri) = ClassScope(d, iri)  BY <1>2 DEF Scope
  <2> DEFINE shape == ShapeIri[iri][Default]
  <2> DEFINE mine == {iri, shape} \cup Individuals(d, iri)
  <2>2. ClassScope(d, iri).quads
          = {q \in d.quads : q[1] \in mine} \cup Incoming(d, IncomingTargets(d, iri), Individuals(d, iri))
    BY DEF ClassScope, Doc
  <2>3. Incoming(d, IncomingTargets(d, iri), Individuals(d, iri)) \subseteq d.quads  BY DEF Incoming
  <2>4. \A q \in d.quads : q[1] = iri => q \in Scope(d, iri).quads  BY <2>1, <2>2
  <2>5. <<iri, "a", "Class">>[1] = iri  OBVIOUS
  <2>6. Scope(d, iri).quads \subseteq d.quads  BY <2>1, <2>2, <2>3
  <2> QED  BY <1>2, <2>4, <2>5, <2>6 DEF IsClass
<1>3. CASE iri # "all" /\ ~IsClass(d, iri) /\ IsProperty(d, iri)
  <2>1. Scope(d, iri) = PropertyScope(d, iri)  BY <1>3 DEF Scope
  <2>2. PropertyScope(d, iri).quads = Own(d, iri)  BY DEF PropertyScope, Doc
  <2> QED  BY <1>3, <2>1, <2>2 DEF Own, IsClass
<1>4. CASE iri # "all" /\ ~IsClass(d, iri) /\ ~IsProperty(d, iri)
  <2>1. Scope(d, iri) = Doc(Own(d, iri), {})  BY <1>4 DEF Scope
  <2> QED  BY <1>4, <2>1 DEF Own, IsClass, Doc
<1> QED  BY <1>1, <1>2, <1>3, <1>4

\* What a save deletes was in the text it replaces, or counts for no check.
LEMMA DeletedAreNeutral ==
  ASSUME NEW g, IsGraph(g), ShapesApart(g), NEW iri, NEW tab \in {"schema", "shapes"}, NEW ns,
         NEW q \in Whole(g).quads,
         q \notin Whole(DeleteScope(g, iri, Scope(Whole(g), iri), tab, ns)).quads
  PROVE  q \in Part(Scope(Whole(g), iri), tab).quads \/ Neutral(q)
<1> DEFINE full == Scope(Whole(g), iri)
<1> DEFINE h == DeleteScope(g, iri, full, tab, ns)
<1>w. \A k : Whole(k).quads = k.instances \cup k.schema \cup k.shapes  BY DEF Whole, Doc
<1>a. /\ q \in g.instances \cup g.schema \cup g.shapes
      /\ q \notin h.instances /\ q \notin h.schema /\ q \notin h.shapes
  BY <1>w
<1>s. q \in g.shapes => Neutral(q)  BY DEF ShapesApart, Neutral
<1>f. /\ iri = "all" => q \in full.quads
      /\ q[1] = iri => q \in full.quads
  BY ScopeHolds
<1>p. q \in full.quads /\ ~Neutral(q) => q \in Part(full, "schema").quads
  BY PartQuads DEF Neutral
<1>1. CASE iri = "all" /\ tab = "schema"
  <2> HIDE DEF full
  <2>1. q \in Part(full, tab).quads \/ Neutral(q)  BY <1>1, <1>f, <1>p
  <2> QED  BY <2>1 DEF full
<1>2. CASE iri = "all" /\ tab = "shapes"
  <2>1. h = [g EXCEPT !.shapes = {}, !.blocks = {}]  BY <1>2 DEF DeleteScope
  <2> QED BY <2>1, <1>a, <1>s DEF IsGraph
<1>3. CASE iri # "all" /\ IsClass(full, iri) /\ tab = "schema"
  <2>1. h = [g EXCEPT !.schema = {t \in @ : t[1] # iri}]  BY <1>3 DEF DeleteScope
  <2> HIDE DEF full, h
  <2>2. q \in Part(full, tab).quads \/ Neutral(q)  BY <2>1, <1>3, <1>a, <1>s, <1>f, <1>p DEF IsGraph
  <2> QED  BY <2>2 DEF full
<1>4. CASE iri # "all" /\ IsClass(full, iri) /\ tab = "shapes"
  <2>1. h = [g EXCEPT !.shapes = {t \in @ : t[1] # ShapeIri[iri][ns]},
                      !.blocks = {b \in @ : b.of # ShapeIri[iri][ns]}]
    BY <1>4 DEF DeleteScope
  <2> QED BY <2>1, <1>a, <1>s DEF IsGraph
<1>5. CASE iri # "all" /\ ~IsClass(full, iri) /\ tab = "schema"
  <2>1. h = IF LooksLikeIndividual(full.quads, iri) THEN [g EXCEPT !.instances = {t \in @ : t[1] # iri}]
                                                     ELSE [g EXCEPT !.schema = {t \in @ : t[1] # iri}]
    BY <1>5 DEF DeleteScope
  <2> HIDE DEF full, h
  <2>2. q \in Part(full, tab).quads \/ Neutral(q)  BY <2>1, <1>5, <1>a, <1>s, <1>f, <1>p DEF IsGraph
  <2> QED  BY <2>2 DEF full
<1>6. CASE iri # "all" /\ ~IsClass(full, iri) /\ tab = "shapes"
  <2> DEFINE shapes == {ShapeIri[c][ns] : c \in Domains(full, iri)}
  <2>1. h = [g EXCEPT !.blocks = {b \in @ : b.of \notin shapes \/ b.path # iri}]
    BY <1>6 DEF DeleteScope
  <2> QED BY <2>1, <1>a, <1>s DEF IsGraph
<1> QED  BY <1>1, <1>2, <1>3, <1>4, <1>5, <1>6

\* The classes of a set of triples.
LEMMA ClassesOf ==
  ASSUME NEW S, NEW c
  PROVE  c \in Classes(Doc(S, {})) <=> <<c, "a", "Class">> \in S
<1>1. Doc(S, {}).quads = S  BY DEF Doc
<1>2. <<c, "a", "Class">>[1] = c  OBVIOUS
<1>3. ASSUME <<c, "a", "Class">> \in S PROVE c \in Classes(Doc(S, {}))
  <2> DEFINE q == <<c, "a", "Class">>
  <2>1. q \in {t \in S : IsClass(Doc(S, {}), t[1])}  BY <1>1, <1>2, <1>3 DEF IsClass
  <2> QED  BY <2>1, <1>1, <1>2 DEF Classes
<1>4. ASSUME c \in Classes(Doc(S, {})) PROVE <<c, "a", "Class">> \in S
  BY <1>4, <1>1 DEF Classes, IsClass
<1> QED  BY <1>3, <1>4

\* Triples that count for no check can be left out of one.
LEMMA NeutralsDoNotCount ==
  ASSUME NEW S, NEW T \in SUBSET S, \A q \in S \ T : Neutral(q), StructuralIssues(S) = {}
  PROVE  StructuralIssues(T) = {}
<1> DEFINE C(X) == Classes(Doc(X, {}))
<1> DEFINE dangles(X, q) == \/ q[2] = "domain" /\ q[3] \notin C(X)
                            \/ q[2] = "range" /\ q[3] \notin C(X) \cup Datatypes
                            \/ q[2] = "a" /\ q[3] \notin C(X) \cup MetaTypes \cup {"Statement"}
<1> DEFINE conflicts(X, q) == q[2] = "range" /\ \E t \in X : t[1] = q[1] /\ t[2] = "range" /\ t # q
<1>1. \A X : StructuralIssues(X) = {q \in X : dangles(X, q) \/ conflicts(X, q)}
                                     \cup {q \in X : q[2] = "subClassOf" /\ HasCycle(X)}
  BY DEF StructuralIssues
<1>2. \A c : c \in C(S) <=> c \in C(T)
  <2> SUFFICES ASSUME NEW c PROVE <<c, "a", "Class">> \in S => <<c, "a", "Class">> \in T
    BY ClassesOf
  <2> QED  BY DEF Neutral, IsReified, IsShape
<1>3. HasCycle(T) => HasCycle(S)
  <2> SUFFICES ASSUME HasCycle(T) PROVE HasCycle(S)  OBVIOUS
  <2>1. PICK U \in SUBSET {q[1] : q \in {t \in T : t[2] = "subClassOf"}} :
             U # {} /\ \A c \in U : \E e \in U : <<c, "subClassOf", e>> \in T
    BY DEF HasCycle
  <2>2. U \in SUBSET {q[1] : q \in {t \in S : t[2] = "subClassOf"}}  BY <2>1
  <2> QED  BY <2>1, <2>2 DEF HasCycle
<1> HIDE DEF C
<1>4. ASSUME NEW q \in T, dangles(T, q) \/ conflicts(T, q) PROVE FALSE
  <2>1. dangles(S, q) \/ conflicts(S, q)  BY <1>2, <1>4
  <2>2. q \in StructuralIssues(S)  BY <1>1, <2>1
  <2> QED  BY <2>2
<1>5. ASSUME NEW q \in T, q[2] = "subClassOf", HasCycle(T) PROVE FALSE
  <2>1. q \in StructuralIssues(S)  BY <1>1, <1>3, <1>5
  <2> QED  BY <2>1
<1> QED  BY <1>1, <1>4, <1>5

\* A sorted graph is a graph with its shapes apart.
LEMMA SortedGraph ==
  ASSUME NEW g, Sorted(g)
  PROVE  IsGraph(g) /\ ShapesApart(g)
  BY DEF Sorted, IsGraph, ShapesApart

\* Insertion puts each triple where it belongs.
LEMMA InsertSorted ==
  ASSUME NEW g, Sorted(g), NEW d
  PROVE  Sorted(InsertInto(g, d))
<1> DEFINE h == InsertInto(g, d)
<1> DEFINE schema == Part(d, "schema").quads
<1> DEFINE individual == {q \in schema : LooksLikeIndividual(schema, q[1])}
<1> DEFINE reified == {q \in d.quads : IsReified(q)}
<1>1. h = [instances |-> g.instances \cup individual \cup reified, schema |-> g.schema \cup (schema \ individual),
           shapes |-> g.shapes \cup Part(d, "shapes").quads, blocks |-> g.blocks \cup Part(d, "shapes").blocks]
  BY DEF InsertInto
<1>2. individual \subseteq schema  OBVIOUS
<1>3. \A q \in reified : ~IsShape(q)
  <2> SUFFICES ASSUME NEW q, IsReified(q) PROVE ~IsShape(q)  OBVIOUS
  <2> QED  BY DEF IsReified, IsShape
<1>4. /\ \A q \in schema : ~IsReified(q) /\ ~IsShape(q)
      /\ \A q \in Part(d, "shapes").quads : IsShape(q)
  BY PartQuads
<1> HIDE DEF h, schema, individual, reified
<1>5. /\ h.instances = g.instances \cup individual \cup reified /\ h.schema = g.schema \cup (schema \ individual)
      /\ h.shapes = g.shapes \cup Part(d, "shapes").quads
  BY <1>1
<1>6. h = [instances |-> h.instances, schema |-> h.schema, shapes |-> h.shapes, blocks |-> h.blocks]  BY <1>1
<1> QED  BY <1>2, <1>3, <1>4, <1>5, <1>6 DEF Sorted, h

\* Deletion moves nothing.
LEMMA DeleteSorted ==
  ASSUME NEW g, Sorted(g), NEW iri, NEW full, NEW tab \in {"schema", "shapes"}, NEW ns
  PROVE  Sorted(DeleteScope(g, iri, full, tab, ns))
<1> DEFINE h == DeleteScope(g, iri, full, tab, ns)
<1>1. IsGraph(h) /\ h.instances \subseteq g.instances /\ h.schema \subseteq g.schema /\ h.shapes \subseteq g.shapes
  BY SortedGraph, DeleteGraph
<1> HIDE DEF h
<1> QED  BY <1>1 DEF Sorted, IsGraph, h

-----------------------------------------------------------------------------
\* The steps of an import.
Busy == {"register", "find", "fetch", "write", "workspace", "members", "adding", "notes", "done"}

\* An import has a step, and a file's import has no bundle's steps.
JobForm ==
  \/ job = NoJob
  \/ /\ job.pc \in Busy
     /\ job = [pc |-> job.pc, kind |-> job.kind, file |-> job.file, todo |-> job.todo, groups |-> job.groups,
               group |-> job.group, homes |-> job.homes, clean |-> job.clean, caller |-> job.caller,
               base |-> job.base, alone |-> job.alone]

\* The panel's parts.
PanelForm ==
  /\ panel = [scope |-> panel.scope, ns |-> panel.ns, loads |-> panel.loads, text |-> panel.text,
              shown |-> panel.shown, loading |-> panel.loading, error |-> panel.error]
  /\ panel.ns \in Namespaces /\ \A l \in panel.loads : l[2] \in Namespaces

\* The document a save was checked against.
Merged(s) == Joined({Less(s.read, Part(s.full, s.tab)), s.text})

\* A save under way was accepted, for the text it read.
SavingForm ==
  \/ saving = NotSaving
  \/ /\ saving = [scope |-> saving.scope, ns |-> saving.ns, tab |-> saving.tab, text |-> saving.text,
                  full |-> saving.full, read |-> saving.read, watched |-> saving.watched]
     /\ saving.ns \in Namespaces /\ saving.tab \in {"schema", "shapes"}
     /\ saving.full = Scope(saving.read, saving.scope)
     /\ Accepted(saving.text, Merged(saving))

\* All graphs stay sorted.
GraphsForm == store = [n \in Namespaces |-> store[n]] /\ \A n \in Namespaces : Sorted(store[n])

\* The shape of the state.
Forms == GraphsForm /\ JobForm /\ PanelForm /\ SavingForm

\* What is to be written, as long as nobody else has written.
Cleaned(n) == Clean(PartIn(job.groups[job.group], job.homes, job.group, n),
                    Existing(job.groups[job.group], job.homes, job.group))
\* Between the reads and the update of an undisturbed import the triage stays what it was.
FetchStands ==
  (job.pc = "write" /\ job.alone) =>
    LET existing == Existing(job.groups[job.group], job.homes, job.group)
        all == Joined({job.clean[n] : n \in Namespaces})
    IN  job.clean = [n \in Namespaces |-> Cleaned(n)] /\ Accepted(all, Joined({existing, all}))

\* The shape of the state, at first.
LEMMA InitForms == TransferInit => Forms /\ FetchStands
<1> SUFFICES ASSUME TransferInit PROVE Forms /\ FetchStands  OBVIOUS
<1>1. GraphsForm  BY TransfersAssumption DEF TransferInit, GraphsForm
<1>2. JobForm  BY DEF TransferInit, JobForm
<1>3. PanelForm  BY GraphAssumption DEF TransferInit, PanelForm, NoPanel
<1>4. SavingForm  BY DEF TransferInit, SavingForm
<1>5. FetchStands  BY DEF TransferInit, FetchStands, NoJob
<1> QED  BY <1>1, <1>2, <1>3, <1>4, <1>5 DEF Forms

\* A declaration is a schema triple.
LEMMA EnsuredForm ==
  ASSUME GraphsForm, NEW iri, NEW class \in {"Namespace", "Workspace", "Note"}
  PROVE  LET st == Ensured(store, iri, class)
         IN  st = [n \in Namespaces |-> st[n]] /\ \A n \in Namespaces : Sorted(st[n])
<1> DEFINE st == Ensured(store, iri, class)
<1> DEFINE g == [store[Default] EXCEPT !.schema = @ \cup Declaration(iri, class)]
<1>1. st = [n \in Namespaces |-> IF n = Default THEN g ELSE store[n]]
  BY GraphAssumption DEF Ensured, GraphsForm
<1>2. \A q \in Declaration(iri, class) : ~IsReified(q) /\ ~IsShape(q)
  BY DEF Declaration, IsReified, IsShape
<1>3. Sorted(store[Default])  BY GraphAssumption DEF GraphsForm
<1>4. Sorted(g)  BY <1>2, <1>3 DEF Sorted
<1> HIDE DEF g, st
<1> QED  BY <1>1, <1>4 DEF GraphsForm, st

\* The parts of the shape, when their variables stay.
LEMMA KeepGraphs == GraphsForm /\ UNCHANGED store => GraphsForm'
  BY DEF GraphsForm
\* The import's part.
LEMMA KeepJob == JobForm /\ UNCHANGED job => JobForm'
  BY DEF JobForm
\* The panel's.
LEMMA KeepPanel == PanelForm /\ UNCHANGED panel => PanelForm'
  BY DEF PanelForm
\* The save's.
LEMMA KeepSaving == SavingForm /\ UNCHANGED saving => SavingForm'
  BY DEF SavingForm, Merged

\* To be disturbed is no step.
LEMMA DisturbedForm == JobForm /\ job' = Disturbed => JobForm'
  BY DEF JobForm, Disturbed, NoJob, Busy

\* To load is to be the same panel.
LEMMA LoadingForm ==
  ASSUME PanelForm, NEW scope, NEW ns \in Namespaces,
         \/ panel' = Loading(panel)
         \/ panel' = Loading([panel EXCEPT !.scope = scope, !.ns = ns])
  PROVE  PanelForm'
<1>1. PICK p : /\ panel' = Loading(p) /\ p.ns \in Namespaces /\ p.loads = panel.loads
               /\ p = [scope |-> p.scope, ns |-> p.ns, loads |-> p.loads, text |-> p.text, shown |-> p.shown,
                       loading |-> p.loading, error |-> p.error]
  <2>1. CASE panel' = Loading(panel)  BY <2>1 DEF PanelForm
  <2>2. CASE panel' = Loading([panel EXCEPT !.scope = scope, !.ns = ns])
    <3>1. PICK q : /\ q = [scope |-> scope, ns |-> ns, loads |-> panel.loads, text |-> panel.text,
                           shown |-> panel.shown, loading |-> panel.loading, error |-> panel.error]
                   /\ panel' = Loading(q)
      <4>1. [panel EXCEPT !.scope = scope, !.ns = ns]
              = [scope |-> scope, ns |-> ns, loads |-> panel.loads, text |-> panel.text,
                 shown |-> panel.shown, loading |-> panel.loading, error |-> panel.error]
        <5>1. PICK a, b, c, d, e, f, g :
                panel = [scope |-> a, ns |-> b, loads |-> c, text |-> d, shown |-> e, loading |-> f, error |-> g]
          BY DEF PanelForm
        <5>2. [panel EXCEPT !.scope = scope, !.ns = ns]
                = [scope |-> scope, ns |-> ns, loads |-> c, text |-> d, shown |-> e, loading |-> f, error |-> g]
          <6>1. [panel EXCEPT !.scope = scope]
                  = [scope |-> scope, ns |-> b, loads |-> c, text |-> d, shown |-> e, loading |-> f, error |-> g]
            BY <5>1
          <6>2. PICK p : p = [panel EXCEPT !.scope = scope]  OBVIOUS
          <6>4. [p EXCEPT !.ns = ns]
                  = [scope |-> scope, ns |-> ns, loads |-> c, text |-> d, shown |-> e, loading |-> f, error |-> g]
            <7>1. p = [scope |-> scope, ns |-> b, loads |-> c, text |-> d, shown |-> e, loading |-> f, error |-> g]
              BY <6>1, <6>2
            <7> HIDE <6>1, <6>2
            <7> QED  BY ONLY <7>1
          <6>5. PICK q : q = [p EXCEPT !.ns = ns]  OBVIOUS
          <6>3. [panel EXCEPT !.scope = scope, !.ns = ns] = q  BY <5>1, <6>2, <6>5
          <6> QED  BY <6>3, <6>4, <6>5
        <5>3. /\ panel.loads = c /\ panel.text = d /\ panel.shown = e
              /\ panel.loading = f /\ panel.error = g
          BY <5>1
        <5> QED  BY <5>2, <5>3
      <4> QED  BY <2>2, <4>1
    <3> QED  BY <3>1
  <2> QED  BY <2>1, <2>2
<1>2. panel' = [p EXCEPT !.loads = @ \cup {<<p.scope, p.ns>>}, !.loading = TRUE, !.error = FALSE]
  BY <1>1 DEF Loading
<1>3. \A l \in panel.loads \cup {<<p.scope, p.ns>>} : l[2] \in Namespaces  BY <1>1 DEF PanelForm
<1> QED  BY <1>1, <1>2, <1>3 DEF PanelForm

\* The steps of an import that write nothing, and those of the panel.
JobOnly == Group \/ Find \/ Fetch \/ MemberAdded \/ NotesNext \/ Finish \/ ImportFails

\* Every import begins at a step.
LEMMA BegunForm ==
  ASSUME NEW kind, NEW file, NEW todo, NEW pc \in {"register", "find"}, NEW groups,
         \/ job' = Begun(kind, file, todo, pc)
         \/ job' = [Begun(kind, file, todo, pc) EXCEPT !.groups = groups]
  PROVE  JobForm'
  BY DEF Begun, JobForm, Busy

\* Every assignment the steps of an import make keeps its shape.
LEMMA JobMoves ==
  ASSUME JobForm, job.pc # "idle", NEW pc \in Busy, NEW todo, NEW groups, NEW group, NEW homes, NEW clean,
         NEW caller,
         \/ job' = [job EXCEPT !.pc = pc, !.caller = caller]
         \/ job' = [job EXCEPT !.pc = pc, !.todo = todo]
         \/ job' = [job EXCEPT !.todo = todo, !.pc = pc, !.groups = groups]
         \/ job' = [job EXCEPT !.todo = todo, !.pc = pc, !.clean = clean]
         \/ job' = [job EXCEPT !.pc = pc, !.group = group, !.homes = homes]
         \/ job' = [job EXCEPT !.pc = pc, !.clean = clean]
         \/ job' = [job EXCEPT !.pc = pc, !.caller = caller, !.todo = todo]
  PROVE  JobForm'
<1> DEFINE R(p, k, f, t, gs, g, h, c, cl, b, a) ==
      [pc |-> p, kind |-> k, file |-> f, todo |-> t, groups |-> gs, group |-> g, homes |-> h, clean |-> c,
       caller |-> cl, base |-> b, alone |-> a]
<1>1. PICK p, k, f, t, gs, g, h, c, cl, b, a : job = R(p, k, f, t, gs, g, h, c, cl, b, a)
  BY DEF JobForm, NoJob
<1>2. \E t2, gs2, g2, h2, c2, cl2 : job' = R(pc, k, f, t2, gs2, g2, h2, c2, cl2, b, a)
  <2>1. CASE job' = [job EXCEPT !.pc = pc, !.caller = caller]
    <3>1. job' = R(pc, k, f, t, gs, g, h, c, caller, b, a)  BY <1>1, <2>1
    <3> QED  BY <3>1
  <2>2. CASE job' = [job EXCEPT !.pc = pc, !.todo = todo]
    <3>1. job' = R(pc, k, f, todo, gs, g, h, c, cl, b, a)  BY <1>1, <2>2
    <3> QED  BY <3>1
  <2>3. CASE job' = [job EXCEPT !.todo = todo, !.pc = pc, !.groups = groups]
    <3>1. job' = R(pc, k, f, todo, groups, g, h, c, cl, b, a)  BY <1>1, <2>3
    <3> QED  BY <3>1
  <2>4. CASE job' = [job EXCEPT !.todo = todo, !.pc = pc, !.clean = clean]
    <3>1. job' = R(pc, k, f, todo, gs, g, h, clean, cl, b, a)  BY <1>1, <2>4
    <3> QED  BY <3>1
  <2>5. CASE job' = [job EXCEPT !.pc = pc, !.group = group, !.homes = homes]
    <3>1. job' = R(pc, k, f, t, gs, group, homes, c, cl, b, a)  BY <1>1, <2>5
    <3> QED  BY <3>1
  <2>6. CASE job' = [job EXCEPT !.pc = pc, !.clean = clean]
    <3>1. job' = R(pc, k, f, t, gs, g, h, clean, cl, b, a)  BY <1>1, <2>6
    <3> QED  BY <3>1
  <2>7. CASE job' = [job EXCEPT !.pc = pc, !.caller = caller, !.todo = todo]
    <3>1. job' = R(pc, k, f, todo, gs, g, h, c, caller, b, a)  BY <1>1, <2>7
    <3> QED  BY <3>1
  <2> QED  BY <2>1, <2>2, <2>3, <2>4, <2>5, <2>6, <2>7
<1>3. PICK t2, gs2, g2, h2, c2, cl2 : job' = R(pc, k, f, t2, gs2, g2, h2, c2, cl2, b, a)  BY <1>2
<1> QED  BY <1>3 DEF JobForm

\* Grouping is such an assignment.
LEMMA GroupMoves ==
  ASSUME Group
  PROVE  \E todo, groups : \E pc \in {"workspace", "find"} :
           job' = [job EXCEPT !.todo = todo, !.pc = pc, !.groups = groups]
<1> DEFINE doc == job.file.doc
<1> DEFINE of(b) == IF b.of = "none" THEN Default ELSE GroupNamespace(b.of)
<1> DEFINE groups == {GroupNamespace(q[1]) : q \in doc.quads} \cup {of(b) : b \in doc.blocks}
<1> DEFINE pc == IF groups = {} THEN "workspace" ELSE "find"
<1> DEFINE parts == [n \in groups |-> Doc({q \in doc.quads : GroupNamespace(q[1]) = n},
                                          {b \in doc.blocks : of(b) = n})]
<1>1. job' = [job EXCEPT !.todo = groups, !.pc = pc, !.groups = parts]  BY Zenon DEF Group
<1>2. pc \in {"workspace", "find"}  OBVIOUS
<1> HIDE DEF groups, pc, parts
<1> QED  BY <1>1, <1>2

\* These steps keep the import's shape.
LEMMA JobOnlyForm == JobForm /\ JobOnly => JobForm'
<1> SUFFICES ASSUME JobForm, JobOnly PROVE JobForm'  OBVIOUS
<1>1. CASE Group
  <2>1. PICK todo, groups, pc : pc \in {"workspace", "find"} /\ job' = [job EXCEPT !.todo = todo, !.pc = pc, !.groups = groups]
    BY <1>1, GroupMoves
  <2>2. pc \in Busy /\ job.pc # "idle"  BY <2>1, <1>1 DEF Group, Busy
  <2> QED  BY <2>1, <2>2, JobMoves
<1>2. CASE Find
  <2>1. PICK group, homes : job' = [job EXCEPT !.pc = "fetch", !.group = group, !.homes = homes]
    BY <1>2 DEF Find
  <2> QED  BY <2>1, <1>2, JobMoves DEF Find, Busy
<1>3. CASE Fetch
  <2>1. PICK clean : job' = [job EXCEPT !.pc = "write", !.clean = clean] \/ job' = NoJob  BY <1>3 DEF Fetch
  <2> QED  BY <2>1, <1>3, JobMoves DEF Fetch, JobForm, Busy
<1>4. CASE MemberAdded  BY <1>4, JobMoves DEF MemberAdded, Busy
<1>5. CASE NotesNext  BY <1>5, JobMoves DEF NotesNext, Busy
<1>6. CASE Finish  BY <1>6 DEF Finish, JobForm, NoJob, Busy
<1>7. CASE ImportFails  BY <1>7 DEF ImportFails, JobForm
<1> QED  BY <1>1, <1>2, <1>3, <1>4, <1>5, <1>6, <1>7 DEF JobOnly

\* The steps of an import that write to the graphs.
JobWrites == Register \/ WriteGroup \/ EnsureWorkspace \/ EnsureNote

\* Those keep the graphs' shape, too.
LEMMA JobWritesForm == GraphsForm /\ JobForm /\ JobWrites => GraphsForm' /\ JobForm'
<1> SUFFICES ASSUME GraphsForm, JobForm, JobWrites PROVE GraphsForm' /\ JobForm'  OBVIOUS
<1>1. CASE Register
  <2>1. PICK n : store' = (IF IsDeclared(store, n, "Namespace") THEN store ELSE Ensured(store, n, "Namespace"))
                 /\ job' = [job EXCEPT !.todo = @ \ {n}]
    BY <1>1 DEF Register
  <2>2. GraphsForm'  BY <2>1, EnsuredForm DEF GraphsForm
  <2> QED  BY <2>1, <2>2, <1>1 DEF Register, JobForm, NoJob, Busy
<1>2. CASE WriteGroup
  <2>1. store' = [n \in Namespaces |-> InsertInto(store[n], job.clean[n])]  BY <1>2 DEF WriteGroup
  <2>2. \A n \in Namespaces : Sorted(store'[n])  BY <2>1, InsertSorted DEF GraphsForm
  <2>3. GraphsForm'  BY <2>1, <2>2 DEF GraphsForm
  <2>4. AfterGroup(job.todo \ {job.group}) \in Busy  BY DEF AfterGroup, Busy
  <2>5. job' = [job EXCEPT !.todo = @ \ {job.group}, !.pc = AfterGroup(job.todo \ {job.group}), !.clean = <<>>]
    BY <1>2 DEF WriteGroup
  <2> QED  BY <2>3, <2>4, <2>5, <1>2, JobMoves DEF WriteGroup
<1>3. CASE EnsureWorkspace
  <2>1. GraphsForm'  BY <1>3, EnsuredForm DEF GraphsForm, EnsureWorkspace
  <2> QED  BY <2>1, <1>3, JobMoves DEF EnsureWorkspace, Busy
<1>4. CASE EnsureNote
  <2>1. PICK n : store' = (IF IsDeclared(store, n, "Note") THEN store ELSE Ensured(store, n, "Note"))
                 /\ job' = [job EXCEPT !.todo = @ \ {n}]
    BY <1>4 DEF EnsureNote
  <2>2. GraphsForm'  BY <2>1, EnsuredForm DEF GraphsForm
  <2> QED  BY <2>1, <2>2, <1>4 DEF EnsureNote, JobForm, NoJob, Busy
<1> QED  BY <1>1, <1>2, <1>3, <1>4 DEF JobWrites

\* A save is sent only when it was accepted.
LEMMA SaveForm ==
  ASSUME Forms, NEW tab \in {"schema", "shapes"}, NEW text, Save(tab, text)
  PROVE  SavingForm'
<1> DEFINE d == Whole(store[panel.ns])
<1> DEFINE full == Scope(d, panel.scope)
<1> DEFINE new == [scope |-> panel.scope, ns |-> panel.ns, tab |-> tab, text |-> text, full |-> full, read |-> d,
                   watched |-> TRUE]
<1>1. saving' = IF Accepted(text, Joined({Less(d, Part(full, tab)), text})) THEN new ELSE NotSaving
  BY DEF Save
<1>2. CASE saving' = NotSaving  BY <1>2 DEF SavingForm
<1>3. CASE saving' = new /\ Accepted(text, Joined({Less(d, Part(full, tab)), text}))
  <2>1. panel.ns \in Namespaces  BY DEF Forms, PanelForm
  <2>2. Accepted(saving'.text, Merged(saving)')
    <3>1. Merged(saving)' = Joined({Less(d, Part(full, tab)), text})  BY <1>3 DEF Merged
    <3> QED  BY <1>3, <3>1
  <2> HIDE DEF d
  <2> QED  BY <1>3, <2>1, <2>2 DEF SavingForm
<1> QED  BY <1>1, <1>2, <1>3

\* A save's update keeps all shapes.
LEMMA SaveWritesForm == Forms /\ SaveWrites => Forms'
<1> SUFFICES ASSUME Forms, SaveWrites PROVE Forms'  OBVIOUS
<1> USE DEF Forms
<1>1. saving # NotSaving /\ saving.ns \in Namespaces /\ saving.tab \in {"schema", "shapes"}
  BY DEF SaveWrites, SavingForm
<1> DEFINE g == InsertInto(DeleteScope(store[saving.ns], saving.scope, saving.full, saving.tab, saving.ns), saving.text)
<1>2. store' = [store EXCEPT ![saving.ns] = g]  BY DEF SaveWrites
<1>3. Sorted(g)  BY <1>1, DeleteSorted, InsertSorted DEF GraphsForm
<1>4. GraphsForm'
  <2> HIDE DEF g
  <2> QED  BY <1>1, <1>2, <1>3 DEF GraphsForm
<1>5. JobForm'  BY DisturbedForm DEF SaveWrites
<1>6. PanelForm'  BY LoadingForm, KeepPanel DEF SaveWrites, PanelForm
<1>7. SavingForm'  BY DEF SaveWrites, SavingForm
<1> QED  BY <1>4, <1>5, <1>6, <1>7

\* Every step keeps the shape of the state.
LEMMA StepForms == Forms /\ [TransferNext]_allVars => Forms'
<1> SUFFICES ASSUME Forms, [TransferNext]_allVars PROVE Forms'  OBVIOUS
<1> USE DEF Forms
<1>k. /\ UNCHANGED store => GraphsForm'
      /\ UNCHANGED job => JobForm'
      /\ UNCHANGED panel => PanelForm'
      /\ UNCHANGED saving => SavingForm'
  BY KeepGraphs, KeepJob, KeepPanel, KeepSaving
<1>1. CASE Export  BY <1>1, <1>k DEF Export
<1>2. ASSUME NEW f, ImportBundle(f) PROVE Forms'
  BY <1>2, <1>k, BegunForm DEF ImportBundle
<1>3. ASSUME NEW doc, NEW n, ImportFile(doc, n) PROVE Forms'
  BY <1>3, <1>k, BegunForm DEF ImportFile
<1>4. CASE JobOnly
  <2>1. UNCHANGED <<store, panel, saving>>
    BY <1>4 DEF JobOnly, Group, Find, Fetch, MemberAdded, NotesNext, Finish, ImportFails, RestUnchanged
  <2> QED  BY <1>4, <2>1, <1>k, JobOnlyForm
<1>5. CASE JobWrites
  <2>1. UNCHANGED <<panel, saving>>
    BY <1>5 DEF JobWrites, Register, WriteGroup, EnsureWorkspace, EnsureNote, RestUnchanged
  <2> QED  BY <1>5, <2>1, <1>k, JobWritesForm
<1>6. ASSUME NEW c, AddMember(c) PROVE Forms'
  <2>0. PICK i : job' = [job EXCEPT !.pc = "adding", !.caller = {c}, !.todo = @ \ {i}]
    BY <1>6 DEF AddMember
  <2>1. JobForm'  BY <2>0, <1>6, JobMoves DEF AddMember, Busy
  <2> QED  BY <1>6, <2>1, <1>k DEF AddMember
<1>7. ASSUME NEW iri, NEW ns \in Namespaces, Open(iri, ns) PROVE Forms'
  BY <1>7, <1>k, LoadingForm DEF Open
<1>8. CASE Close
  <2>1. PanelForm'  BY <1>8, GraphAssumption DEF Close, PanelForm, NoPanel
  <2>2. SavingForm'
    <3>1. CASE saving = NotSaving  BY <3>1, <1>8, <1>k DEF Close
    <3>2. CASE saving # NotSaving
      <4>1. saving' = [saving EXCEPT !.watched = FALSE]  BY <1>8, <3>2 DEF Close
      <4> QED  BY <3>2, <4>1 DEF SavingForm, Merged
    <3> QED  BY <3>1, <3>2
  <2> QED  BY <1>8, <2>1, <2>2, <1>k DEF Close
<1>9. ASSUME NEW l, Loaded(l) \/ LoadFails(l) PROVE Forms'
  <2>1. PanelForm'  BY <1>9 DEF Loaded, LoadFails, PanelForm
  <2> QED  BY <1>9, <2>1, <1>k DEF Loaded, LoadFails, PanelOnly
<1>10. ASSUME NEW tab \in {"schema", "shapes"}, NEW text, Save(tab, text) PROVE Forms'
  BY <1>10, SaveForm, <1>k DEF Save
<1>11. CASE SaveWrites  BY <1>11, SaveWritesForm
<1>12. CASE SaveFails  BY <1>12, <1>k DEF SaveFails, SavingForm
<1>13. ASSUME NEW c, MemberStep(c) \/ CallFails(c) PROVE Forms'
  <2>1. job' = job \/ job' = Disturbed \/ job' = NoJob  BY <1>13 DEF MemberStep, CallFails
  <2>2. JobForm'  BY <2>1, KeepJob, DisturbedForm DEF JobForm
  <2> QED  BY <1>13, <2>2, <1>k DEF MemberStep, CallFails
<1>14. CASE UNCHANGED allVars  BY <1>14, <1>k DEF allVars, transferVars
<1>15. \A n : n \in Registered(store) => n \in Namespaces  BY DEF Registered
<1> QED
  BY <1>1, <1>2, <1>3, <1>4, <1>5, <1>6, <1>7, <1>8, <1>9, <1>10, <1>11, <1>12, <1>13, <1>14, <1>15
  DEF TransferNext, JobOnly, JobWrites

\* In every behaviour each triple is in the graph the app would put it into, and a save under way was checked.
THEOREM FormsHold == TransferSpec => []Forms
<1>1. TransferInit => Forms  BY InitForms
<1> QED  BY <1>1, StepForms, PTL DEF TransferSpec

\* The triage that Fetch leaves is the one of the store it read.
LEMMA FetchForm ==
  ASSUME Forms, Fetch, job'.pc = "write"
  PROVE  FetchStands'
<1> DEFINE doc == job.groups[job.group]
<1> DEFINE existing == Existing(doc, job.homes, job.group)
<1> DEFINE clean == [n \in Namespaces |-> Clean(PartIn(doc, job.homes, job.group, n), existing)]
<1> DEFINE all == Joined({clean[n] : n \in Namespaces})
<1>1. job' = IF Accepted(all, Joined({existing, all})) THEN [job EXCEPT !.pc = "write", !.clean = clean] ELSE NoJob
  BY DEF Fetch
<1>2. NoJob.pc # "write"  BY DEF NoJob
<1>3. Accepted(all, Joined({existing, all})) /\ job' = [job EXCEPT !.pc = "write", !.clean = clean]
  BY <1>1, <1>2, Zenon
<1>4. job.pc # "idle"  BY DEF Fetch
<1>5. job'.clean = clean /\ job'.groups = job.groups /\ job'.group = job.group /\ job'.homes = job.homes
  <2> HIDE DEF clean
  <2> QED  BY <1>3, <1>4 DEF Forms, JobForm, NoJob
<1>6. store' = store  BY DEF Fetch
<1>7. existing = Existing(job'.groups[job'.group], job'.homes, job'.group)  BY <1>5
<1>8. Existing(job.groups[job.group], job.homes, job.group)' = existing
  BY <1>5, <1>6 DEF Existing, Involved
<1>9. job'.clean = [n \in Namespaces |-> Cleaned(n)']
  BY <1>5, <1>8 DEF Cleaned
<1>10. Joined({job'.clean[n] : n \in Namespaces}) = all  BY <1>5
<1> HIDE DEF all, existing, clean, doc
<1> QED  BY <1>3, <1>8, <1>9, <1>10 DEF FetchStands

\* Until the update nobody but somebody else writes.
LEMMA WritesWait ==
  ASSUME Forms, [TransferNext]_allVars, job'.pc = "write", job'.alone
  PROVE  Fetch \/ (job' = job /\ store' = store)
<1>0. NoJob.pc = "idle"  BY DEF NoJob
<1>1. ASSUME NEW kind, NEW file, NEW todo, NEW pc \in {"register", "find"}, NEW groups,
             \/ job' = Begun(kind, file, todo, pc)
             \/ job' = [Begun(kind, file, todo, pc) EXCEPT !.groups = groups]
      PROVE  FALSE
  BY <1>1 DEF Begun
<1>2. job' = Disturbed => job' = job
  BY <1>0 DEF Disturbed, Forms, JobForm, Busy
<1>3. CASE Export  BY <1>3 DEF Export
<1>4. ASSUME NEW f, ImportBundle(f) PROVE FALSE  BY <1>1, <1>4 DEF ImportBundle
<1>5. ASSUME NEW doc, NEW n, ImportFile(doc, n) PROVE FALSE  BY <1>1, <1>5 DEF ImportFile
<1>6. CASE JobOnly
  <2>1. CASE Group
    <3>1. PICK todo, groups, pc : pc \in {"workspace", "find"} /\ job' = [job EXCEPT !.todo = todo, !.pc = pc, !.groups = groups]
      BY <2>1, GroupMoves
    <3> QED  BY <3>1, <2>1 DEF Group, Forms, JobForm, NoJob
  <2>2. CASE Find  BY <2>2 DEF Find, Forms, JobForm, NoJob
  <2>3. CASE MemberAdded  BY <2>3 DEF MemberAdded, Forms, JobForm, NoJob
  <2>4. CASE NotesNext  BY <2>4 DEF NotesNext, Forms, JobForm, NoJob
  <2>5. CASE Finish  BY <2>5 DEF Finish, Forms, JobForm, NoJob
  <2>6. CASE ImportFails  BY <2>6, <1>0 DEF ImportFails
  <2> QED  BY <1>6, <2>1, <2>2, <2>3, <2>4, <2>5, <2>6 DEF JobOnly
<1>7. CASE JobWrites
  <2>1. CASE Register
    <3>1. PICK n : job' = [job EXCEPT !.todo = @ \ {n}]  BY <2>1 DEF Register
    <3> QED  BY <3>1, <2>1 DEF Register, Forms, JobForm, NoJob
  <2>2. CASE WriteGroup
    <3> DEFINE pc == AfterGroup(job.todo \ {job.group})
    <3>1. pc # "write"  BY DEF AfterGroup
    <3>2. job' = [job EXCEPT !.todo = @ \ {job.group}, !.pc = pc, !.clean = <<>>]  BY <2>2 DEF WriteGroup
    <3> HIDE DEF pc
    <3> QED  BY <3>1, <3>2, <2>2 DEF WriteGroup, Forms, JobForm, NoJob
  <2>3. CASE EnsureWorkspace  BY <2>3 DEF EnsureWorkspace, Forms, JobForm, NoJob
  <2>4. CASE EnsureNote
    <3>1. PICK n : job' = [job EXCEPT !.todo = @ \ {n}]  BY <2>4 DEF EnsureNote
    <3> QED  BY <3>1, <2>4 DEF EnsureNote, Forms, JobForm, NoJob
  <2> QED  BY <1>7, <2>1, <2>2, <2>3, <2>4 DEF JobWrites
<1>8. ASSUME NEW c, AddMember(c) PROVE FALSE
  <2>1. PICK i : job' = [job EXCEPT !.pc = "adding", !.caller = {c}, !.todo = @ \ {i}]  BY <1>8 DEF AddMember
  <2> QED  BY <2>1, <1>8 DEF AddMember, Forms, JobForm, NoJob
<1>9. ASSUME NEW iri, NEW ns, Open(iri, ns) PROVE job' = job /\ store' = store  BY <1>9 DEF Open
<1>10. CASE Close  BY <1>10 DEF Close
<1>11. ASSUME NEW l, Loaded(l) \/ LoadFails(l) PROVE job' = job /\ store' = store
  BY <1>11 DEF Loaded, LoadFails, PanelOnly
<1>12. ASSUME NEW tab, NEW text, Save(tab, text) PROVE job' = job /\ store' = store  BY <1>12 DEF Save
<1>13. CASE SaveWrites
  <2>1. job' = Disturbed  BY <1>13 DEF SaveWrites
  <2> QED  BY <2>1, <1>0 DEF Disturbed, Forms, JobForm, Busy
<1>14. CASE SaveFails  BY <1>14 DEF SaveFails
<1>15. ASSUME NEW c, MemberStep(c) \/ CallFails(c) PROVE job' = job /\ store' = store
  <2>1. job' = job \/ job' = Disturbed \/ job' = NoJob  BY <1>15 DEF MemberStep, CallFails
  <2> QED  BY <1>0, <1>2, <1>15, <2>1 DEF MemberStep, CallFails
<1>16. CASE UNCHANGED allVars  BY <1>16 DEF allVars, transferVars
<1> QED
  BY <1>3, <1>4, <1>5, <1>6, <1>7, <1>8, <1>9, <1>10, <1>11, <1>12, <1>13, <1>14, <1>15, <1>16
  DEF TransferNext, JobOnly, JobWrites

\* So the triage stands.
LEMMA StepFetch == Forms /\ FetchStands /\ [TransferNext]_allVars => FetchStands'
<1> SUFFICES ASSUME Forms, FetchStands, [TransferNext]_allVars PROVE FetchStands'  OBVIOUS
<1>1. CASE ~(job'.pc = "write" /\ job'.alone)  BY <1>1 DEF FetchStands
<1>2. CASE Fetch /\ job'.pc = "write"  BY <1>2, FetchForm
<1>3. CASE job' = job /\ store' = store
  BY <1>3 DEF FetchStands, Cleaned, Existing, Involved
<1> QED  BY <1>1, <1>2, <1>3, WritesWait

-----------------------------------------------------------------------------
\* A subject has one kind, in all triples that may be seen.
AllFit(quads) == \A q \in quads : Fits(q)

\* A file the app may be given or may have written.
FileFits(f) == f.namespaces \subseteq Namespaces /\ f.notes \subseteq Notes /\ AllFit(f.doc.quads)

\* What an import gives to importTurtle.
GroupsFit ==
  /\ job.todo \subseteq Namespaces /\ job.todo \subseteq DOMAIN job.groups
  /\ \A n \in DOMAIN job.groups : AllFit(job.groups[n].quads)

\* All an import holds.
JobFits ==
  /\ job.pc # "idle" => FileFits(job.file)
  /\ job.pc = "register" => job.todo \subseteq Namespaces
  /\ job.pc \in {"find", "fetch", "write"} => GroupsFit
  /\ job.pc \in {"fetch", "write"} => job.group \in job.todo
  /\ job.pc = "write" => \A n \in Namespaces : AllFit(job.clean[n].quads)
  /\ job.pc = "notes" => job.todo \subseteq Notes

\* Triples come from the store, from files and from what users write, and so they fit everywhere.
Flow ==
  /\ \A n \in Namespaces : AllFit(Whole(store[n]).quads)
  /\ \A f \in files : FileFits(f)
  /\ JobFits
  /\ AllFit(panel.text.quads)
  /\ saving # NotSaving => AllFit(saving.text.quads)

\* At first they do.
LEMMA InitFlow == TransferInit => Flow
<1> SUFFICES ASSUME TransferInit PROVE Flow  OBVIOUS
<1>1. \A n \in Namespaces : AllFit(Whole(store[n]).quads)  BY TransfersAssumption DEF TransferInit, AllFit
<1>2. \A f \in files : FileFits(f)  BY TransfersAssumption DEF TransferInit, FileFits, AllFit
<1>3. JobFits  BY DEF TransferInit, JobFits, NoJob
<1>4. AllFit(panel.text.quads)  BY DEF TransferInit, AllFit, NoPanel, NoDoc, Doc
<1> QED  BY <1>1, <1>2, <1>3, <1>4 DEF Flow, TransferInit

\* What is exported was stored.
LEMMA ExportFits ==
  ASSUME Flow, NEW f \in Exports(store, rows)
  PROVE  FileFits(f)
<1>1. PICK at \in Locations(store, MembersOf(rows)), kept \in OnePerSubject(RowItems(rows)) :
        f = [doc |-> BundledDoc(store, at), namespaces |-> {at[e] : e \in DOMAIN at}, members |-> kept,
             notes |-> StoredNotes(store)]
  BY DEF Exports
<1>2. {at[e] : e \in DOMAIN at} \subseteq Namespaces  BY DEF Locations, ListedIn, Registered
<1>3. StoredNotes(store) \subseteq Notes  BY DEF StoredNotes
<1>4. AllFit(BundledDoc(store, at).quads)
  <2> DEFINE group(n) == {e \in DOMAIN at : at[e] = n}
  <2> DEFINE doc(n) == Whole(store[n])
  <2> DEFINE scoped(n) == group(n) \cup Closure(doc(n), group(n))
  <2> DEFINE docs == UNION {{Part(Scope(doc(n), i), tab) : i \in scoped(n), tab \in {"schema", "shapes"}}
                            : n \in {at[e] : e \in DOMAIN at}}
  <2>1. BundledDoc(store, at) = Joined(docs)  BY DEF BundledDoc
  <2>2. \A d \in docs : AllFit(d.quads)
    <3> SUFFICES ASSUME NEW d \in docs PROVE AllFit(d.quads)  OBVIOUS
    <3>0. PICK n \in {at[e] : e \in DOMAIN at} :
            d \in {Part(Scope(doc(n), i), tab) : i \in scoped(n), tab \in {"schema", "shapes"}}
      OBVIOUS
    <3>p. PICK i \in scoped(n), tab \in {"schema", "shapes"} : d = Part(Scope(doc(n), i), tab)  BY <3>0
    <3>n. n \in Namespaces  BY <1>2
    <3>1. Part(Scope(doc(n), i), tab).quads \subseteq Scope(doc(n), i).quads  BY PartQuads
    <3>2. Scope(doc(n), i).quads \subseteq doc(n).quads  BY ScopeHolds
    <3> QED  BY <3>p, <3>n, <3>1, <3>2 DEF Flow, AllFit
  <2> HIDE DEF docs
  <2> QED  BY <2>1, <2>2 DEF Joined, Doc, AllFit
<1> QED  BY <1>1, <1>2, <1>3, <1>4 DEF FileFits

\* The app's declarations fit.
LEMMA EnsuredFits ==
  ASSUME GraphsForm, Flow, NEW iri, NEW class,
         \/ class = "Namespace" /\ iri \in Namespaces
         \/ class = "Workspace" /\ iri = Workspace
         \/ class = "Note" /\ iri \in Notes
  PROVE  \A n \in Namespaces : AllFit(Whole(Ensured(store, iri, class)[n]).quads)
<1> DEFINE st == Ensured(store, iri, class)
<1>1. st = [store EXCEPT ![Default].schema = @ \cup Declaration(iri, class)]  BY DEF Ensured
<1>2. \A n \in Namespaces : Whole(st[n]).quads \subseteq Whole(store[n]).quads \cup Declaration(iri, class)
  <2> SUFFICES ASSUME NEW n \in Namespaces
               PROVE  Whole(st[n]).quads \subseteq Whole(store[n]).quads \cup Declaration(iri, class)
    OBVIOUS
  <2>1. CASE n = Default
    <3>1. st[n] = [store[n] EXCEPT !.schema = @ \cup Declaration(iri, class)]
      BY <1>1, <2>1 DEF GraphsForm
    <3> QED  BY <3>1 DEF GraphsForm, Sorted, Whole, Doc
  <2>2. CASE n # Default
    <3>1. st[n] = store[n]  BY <1>1, <2>2 DEF GraphsForm
    <3> QED  BY <3>1
  <2> QED  BY <2>1, <2>2
<1>3. AllFit(Declaration(iri, class))
  <2>1. Declaration(iri, class) \subseteq OwnDeclarations  BY DEF OwnDeclarations
  <2>2. \A q \in Declaration(iri, class) : ~IsReified(q) /\ ~IsShape(q)
    BY DEF Declaration, IsReified, IsShape
  <2>3. \A q \in Declaration(iri, class) : q[1] # "all"
    <3>1. class \in OwnIris /\ iri \in OwnIris  BY DEF OwnIris
    <3>2. "all" \notin OwnIris  BY TransfersAssumption DEF OwnIrisDiffer
    <3> QED  BY <3>1, <3>2 DEF Declaration
  <2> QED  BY <2>1, <2>2, <2>3 DEF AllFit, Fits
<1> HIDE DEF st
<1> QED  BY <1>2, <1>3 DEF Flow, AllFit, st

\* The panel's text was stored.
LEMMA TextFits ==
  ASSUME Flow, NEW iri, NEW ns \in Namespaces
  PROVE  AllFit(TextOf(store, iri, ns).quads)
<1>1. TextOf(store, iri, ns).quads = Scope(Whole(store[ns]), iri).quads \cup FromElsewhere(store, iri, ns)
  BY DEF TextOf, Joined, Doc
<1>2. Scope(Whole(store[ns]), iri).quads \subseteq Whole(store[ns]).quads  BY ScopeHolds
<1>3. \A q \in FromElsewhere(store, iri, ns) : \E n \in Namespaces : q \in Whole(store[n]).quads
  BY DEF FromElsewhere, Incoming, Registered
<1> QED  BY <1>1, <1>2, <1>3 DEF Flow, AllFit

\* A draft is stored triples and the user's.
LEMMA DraftsFit ==
  ASSUME NEW t, AllFit(t.quads), NEW tab \in {"schema", "shapes"}, NEW text \in Drafts(Part(t, tab))
  PROVE  AllFit(text.quads)
<1>1. AllFit(Part(t, tab).quads)  BY PartQuads DEF AllFit
<1>2. \A q \in Edits : Fits(q)  BY TransfersAssumption
<1> QED  BY <1>1, <1>2 DEF Drafts, Doc, AllFit

\* Groups are parts of the file.
LEMMA GroupFits ==
  ASSUME Forms, Flow, Group
  PROVE  JobFits'
<1> DEFINE doc == job.file.doc
<1> DEFINE of(b) == IF b.of = "none" THEN Default ELSE GroupNamespace(b.of)
<1> DEFINE groups == {GroupNamespace(q[1]) : q \in doc.quads} \cup {of(b) : b \in doc.blocks}
<1> DEFINE pc == IF groups = {} THEN "workspace" ELSE "find"
<1> DEFINE parts == [n \in groups |-> Doc({q \in doc.quads : GroupNamespace(q[1]) = n},
                                          {b \in doc.blocks : of(b) = n})]
<1>1. job' = [job EXCEPT !.todo = groups, !.pc = pc, !.groups = parts]  BY Zenon DEF Group
<1>2. pc \in {"workspace", "find"}  OBVIOUS
<1>3. FileFits(job.file)  BY DEF Flow, JobFits, Group
<1>4. \A iri : GroupNamespace(iri) \in Namespaces
  BY <1>3, GraphAssumption DEF FileFits, GroupNamespace, Registered
<1>5. groups \subseteq Namespaces  BY <1>4, GraphAssumption
<1>6. DOMAIN parts = groups /\ \A n \in groups : AllFit(parts[n].quads)
  BY <1>3 DEF FileFits, AllFit, Doc
<1>7. job.pc # "idle"  BY DEF Group
<1> HIDE DEF groups, pc, parts
<1>8. job'.pc = pc /\ job'.todo = groups /\ job'.groups = parts /\ job'.file = job.file
  BY <1>1, <1>7 DEF Forms, JobForm, NoJob
<1> QED  BY <1>2, <1>3, <1>5, <1>6, <1>8 DEF JobFits, GroupsFit, FileFits, AllFit

\* What is clean is part of a group.
LEMMA FetchFits ==
  ASSUME Forms, Flow, Fetch
  PROVE  JobFits'
<1> DEFINE doc == job.groups[job.group]
<1> DEFINE existing == Existing(doc, job.homes, job.group)
<1> DEFINE clean == [n \in Namespaces |-> Clean(PartIn(doc, job.homes, job.group, n), existing)]
<1> DEFINE all == Joined({clean[n] : n \in Namespaces})
<1>1. job' = IF Accepted(all, Joined({existing, all})) THEN [job EXCEPT !.pc = "write", !.clean = clean] ELSE NoJob
  BY DEF Fetch
<1>2. CASE job' = NoJob  BY <1>2 DEF NoJob, JobFits
<1>3. CASE job' = [job EXCEPT !.pc = "write", !.clean = clean]
  <2>1. GroupsFit /\ job.group \in job.todo /\ FileFits(job.file)  BY DEF Flow, JobFits, Fetch
  <2>2. AllFit(doc.quads)  BY <2>1 DEF GroupsFit
  <2>3. \A n \in Namespaces : AllFit(clean[n].quads)  BY <2>2 DEF AllFit, Clean, PartIn, Doc
  <2>4. job.pc # "idle"  BY DEF Fetch
  <2> HIDE DEF clean
  <2>5. /\ job'.pc = "write" /\ job'.clean = clean /\ job'.todo = job.todo /\ job'.groups = job.groups
        /\ job'.group = job.group /\ job'.file = job.file
    BY <1>3, <2>4 DEF Forms, JobForm, NoJob
  <2> QED  BY <2>1, <2>3, <2>5 DEF JobFits, GroupsFit, FileFits, AllFit
<1> QED  BY <1>1, <1>2, <1>3

\* The other steps of an import: what it has still to do shrinks, or is taken from its file.
LEMMA KeepsFit ==
  ASSUME JobFits, JobForm, job' = job \/ job' = Disturbed \/ job' = NoJob
  PROVE  JobFits'
<1>1. CASE job' = job  BY <1>1 DEF JobFits, GroupsFit, FileFits, AllFit
<1>2. CASE job' = NoJob  BY <1>2 DEF NoJob, JobFits
<1>3. CASE job.pc # "idle" /\ job' = [job EXCEPT !.alone = FALSE]
  <2>1. /\ job'.pc = job.pc /\ job'.clean = job.clean /\ job'.todo = job.todo /\ job'.groups = job.groups
        /\ job'.group = job.group /\ job'.file = job.file
    BY <1>3 DEF JobForm, NoJob
  <2> QED  BY <2>1 DEF JobFits, GroupsFit, FileFits, AllFit
<1> QED  BY <1>1, <1>2, <1>3 DEF Disturbed

\* No other step of an import brings a triple.
LEMMA JobStepFits ==
  ASSUME Forms, Flow,
         \/ Register \/ Find \/ WriteGroup \/ EnsureWorkspace \/ MemberAdded \/ NotesNext \/ EnsureNote
         \/ Finish \/ ImportFails \/ \E c \in Calls : AddMember(c)
  PROVE  JobFits'
<1>0. JobForm /\ JobFits  BY DEF Forms, Flow
<1>n. NoJob.pc = "idle"  BY DEF NoJob
<1>1. CASE Register
  <2>1. PICK n : job' = [job EXCEPT !.todo = @ \ {n}]  BY <1>1 DEF Register
  <2>2. job'.pc = "register" /\ job'.todo \subseteq job.todo /\ job'.file = job.file
    BY <2>1, <1>0, <1>1, <1>n DEF Register, JobForm
  <2> QED  BY <2>2, <1>0, <1>1 DEF Register, JobFits, FileFits, AllFit
<1>2. CASE Find
  <2>1. PICK ns \in job.todo : \E homes : job' = [job EXCEPT !.pc = "fetch", !.group = ns, !.homes = homes]
    BY <1>2 DEF Find
  <2>2. PICK homes : job' = [job EXCEPT !.pc = "fetch", !.group = ns, !.homes = homes]  BY <2>1
  <2>3. /\ job'.pc = "fetch" /\ job'.todo = job.todo /\ job'.groups = job.groups /\ job'.group = ns
        /\ job'.file = job.file
    BY <2>2, <1>0, <1>2, <1>n DEF Find, JobForm
  <2> QED  BY <2>1, <2>3, <1>0, <1>2 DEF Find, JobFits, GroupsFit, FileFits, AllFit
<1>3. CASE WriteGroup
  <2> DEFINE pc == AfterGroup(job.todo \ {job.group})
  <2>1. pc \in {"find", "workspace", "done"}  BY DEF AfterGroup
  <2>2. job' = [job EXCEPT !.todo = @ \ {job.group}, !.pc = pc, !.clean = <<>>]  BY <1>3 DEF WriteGroup
  <2> HIDE DEF pc
  <2>3. /\ job'.pc = pc /\ job'.todo \subseteq job.todo /\ job'.groups = job.groups /\ job'.file = job.file
    BY <2>2, <1>0, <1>3, <1>n DEF WriteGroup, JobForm
  <2> QED  BY <2>1, <2>3, <1>0, <1>3 DEF WriteGroup, JobFits, GroupsFit, FileFits, AllFit
<1>4. CASE EnsureWorkspace
  <2>1. job'.pc = "members" /\ job'.file = job.file
    BY <1>0, <1>4, <1>n DEF EnsureWorkspace, JobForm
  <2> QED  BY <2>1, <1>0, <1>4 DEF EnsureWorkspace, JobFits, FileFits, AllFit
<1>5. CASE MemberAdded
  <2>1. job'.pc = "members" /\ job'.file = job.file
    BY <1>0, <1>5, <1>n DEF MemberAdded, JobForm
  <2> QED  BY <2>1, <1>0, <1>5 DEF MemberAdded, JobFits, FileFits, AllFit
<1>6. CASE NotesNext
  <2>1. job'.pc = "notes" /\ job'.todo = job.file.notes /\ job'.file = job.file
    BY <1>0, <1>6, <1>n DEF NotesNext, JobForm
  <2> QED  BY <2>1, <1>0, <1>6 DEF NotesNext, JobFits, FileFits, AllFit
<1>7. CASE EnsureNote
  <2>1. PICK n : job' = [job EXCEPT !.todo = @ \ {n}]  BY <1>7 DEF EnsureNote
  <2>2. job'.pc = "notes" /\ job'.todo \subseteq job.todo /\ job'.file = job.file
    BY <2>1, <1>0, <1>7, <1>n DEF EnsureNote, JobForm
  <2> QED  BY <2>2, <1>0, <1>7 DEF EnsureNote, JobFits, FileFits, AllFit
<1>8. CASE Finish
  <2>1. job'.pc = "done" /\ job'.file = job.file
    BY <1>0, <1>8, <1>n DEF Finish, JobForm
  <2> QED  BY <2>1, <1>0, <1>8 DEF Finish, JobFits, FileFits, AllFit
<1>9. CASE ImportFails  BY <1>0, <1>9, KeepsFit DEF ImportFails
<1>10. ASSUME NEW c \in Calls, AddMember(c) PROVE JobFits'
  <2>1. PICK i : job' = [job EXCEPT !.pc = "adding", !.caller = {c}, !.todo = @ \ {i}]  BY <1>10 DEF AddMember
  <2>2. job'.pc = "adding" /\ job'.file = job.file  BY <2>1, <1>0, <1>10, <1>n DEF AddMember, JobForm
  <2> QED  BY <2>2, <1>0, <1>10 DEF AddMember, JobFits, FileFits, AllFit
<1> QED  BY <1>1, <1>2, <1>3, <1>4, <1>5, <1>6, <1>7, <1>8, <1>9, <1>10

\* What is written was held by the import or the save.
LEMMA GraphsFit ==
  ASSUME Forms, Flow, JobWrites \/ SaveWrites
  PROVE  \A n \in Namespaces : AllFit(Whole(store'[n]).quads)
<1>0. \A n \in Namespaces : AllFit(Whole(store[n]).quads)  BY DEF Flow
<1>1. CASE Register
  <2>1. PICK n \in job.todo : store' = IF IsDeclared(store, n, "Namespace") THEN store ELSE Ensured(store, n, "Namespace")
    BY <1>1 DEF Register
  <2>2. n \in Namespaces  BY <2>1, <1>1 DEF Flow, JobFits, Register
  <2>3. \A m \in Namespaces : AllFit(Whole(Ensured(store, n, "Namespace")[m]).quads)
    BY <2>2, EnsuredFits DEF Forms
  <2> QED  BY <1>0, <2>1, <2>3
<1>2. CASE WriteGroup
  <2> SUFFICES ASSUME NEW n \in Namespaces PROVE AllFit(Whole(store'[n]).quads)  OBVIOUS
  <2>1. store'[n] = InsertInto(store[n], job.clean[n])  BY <1>2 DEF WriteGroup
  <2>2. AllFit(job.clean[n].quads)  BY <1>2 DEF WriteGroup, Flow, JobFits
  <2> QED  BY <1>0, <2>1, <2>2, InsertGraph DEF AllFit
<1>3. CASE EnsureWorkspace
  <2>1. \A m \in Namespaces : AllFit(Whole(Ensured(store, Workspace, "Workspace")[m]).quads)
    BY EnsuredFits DEF Forms
  <2> QED  BY <1>0, <1>3, <2>1 DEF EnsureWorkspace
<1>4. CASE EnsureNote
  <2>1. PICK n \in job.todo : store' = IF IsDeclared(store, n, "Note") THEN store ELSE Ensured(store, n, "Note")
    BY <1>4 DEF EnsureNote
  <2>2. n \in Notes  BY <2>1, <1>4 DEF Flow, JobFits, EnsureNote
  <2>3. \A m \in Namespaces : AllFit(Whole(Ensured(store, n, "Note")[m]).quads)
    BY <2>2, EnsuredFits DEF Forms
  <2> QED  BY <1>0, <2>1, <2>3
<1>5. CASE SaveWrites
  <2> SUFFICES ASSUME NEW n \in Namespaces PROVE AllFit(Whole(store'[n]).quads)  OBVIOUS
  <2> DEFINE h == DeleteScope(store[saving.ns], saving.scope, saving.full, saving.tab, saving.ns)
  <2>1. store' = [store EXCEPT ![saving.ns] = InsertInto(h, saving.text)]  BY <1>5 DEF SaveWrites
  <2>2. saving # NotSaving  BY <1>5 DEF SaveWrites
  <2>3. saving.ns \in Namespaces /\ saving.tab \in {"schema", "shapes"}  BY <2>2 DEF Forms, SavingForm
  <2>4. AllFit(saving.text.quads)  BY <2>2 DEF Flow
  <2>5. IsGraph(store[saving.ns])  BY <2>3, SortedGraph DEF Forms, GraphsForm
  <2>6. Whole(h).quads \subseteq Whole(store[saving.ns]).quads
    <3>1. /\ h.instances \subseteq store[saving.ns].instances /\ h.schema \subseteq store[saving.ns].schema
          /\ h.shapes \subseteq store[saving.ns].shapes
      BY <2>3, <2>5, DeleteGraph
    <3> HIDE DEF h
    <3> QED  BY <3>1 DEF Whole, Doc
  <2>7. Whole(InsertInto(h, saving.text)).quads = Whole(h).quads \cup saving.text.quads  BY InsertGraph
  <2>8. AllFit(Whole(InsertInto(h, saving.text)).quads)  BY <1>0, <2>3, <2>4, <2>6, <2>7 DEF AllFit
  <2> HIDE DEF h
  <2> QED  BY <1>0, <2>1, <2>8 DEF Forms, GraphsForm
<1> QED  BY <1>1, <1>2, <1>3, <1>4, <1>5 DEF JobWrites

\* An import begins with a file that fits.
LEMMA BegunFits ==
  ASSUME NEW f, FileFits(f), NEW kind, NEW todo \in SUBSET Namespaces
  PROVE  /\ job' = Begun(kind, f, todo, "register") => JobFits'
         /\ \A groups : (/\ job' = [Begun(kind, f, todo, "find") EXCEPT !.groups = groups]
                         /\ todo \subseteq DOMAIN groups
                         /\ \A n \in DOMAIN groups : AllFit(groups[n].quads)) => JobFits'
<1>1. ASSUME job' = Begun(kind, f, todo, "register") PROVE JobFits'
  <2>1. job'.pc = "register" /\ job'.todo = todo /\ job'.file = f  BY <1>1 DEF Begun
  <2> QED  BY <2>1 DEF JobFits, FileFits, AllFit
<1>2. ASSUME NEW groups, job' = [Begun(kind, f, todo, "find") EXCEPT !.groups = groups],
             todo \subseteq DOMAIN groups, \A n \in DOMAIN groups : AllFit(groups[n].quads)
      PROVE  JobFits'
  <2>1. job'.pc = "find" /\ job'.todo = todo /\ job'.file = f /\ job'.groups = groups  BY <1>2 DEF Begun
  <2> QED  BY <2>1, <1>2 DEF JobFits, GroupsFit, FileFits, AllFit
<1> QED  BY <1>1, <1>2

\* No step brings a triple that does not fit.
LEMMA StepFlow == Forms /\ Flow /\ [TransferNext]_allVars => Flow'
<1> SUFFICES ASSUME Forms, Flow, [TransferNext]_allVars PROVE Flow'  OBVIOUS
<1>k. /\ UNCHANGED store => \A n \in Namespaces : AllFit(Whole(store'[n]).quads)
      /\ UNCHANGED files => \A f \in files' : FileFits(f)
      /\ UNCHANGED panel => AllFit(panel'.text.quads)
      /\ UNCHANGED saving => (saving' # NotSaving => AllFit(saving'.text.quads))
      /\ UNCHANGED job => JobFits'
  BY KeepsFit DEF Flow, Forms
<1> DEFINE Parts == /\ \A n \in Namespaces : AllFit(Whole(store'[n]).quads)
                    /\ \A f \in files' : FileFits(f)
                    /\ JobFits'
                    /\ AllFit(panel'.text.quads)
                    /\ (saving' # NotSaving => AllFit(saving'.text.quads))
<1>q. Parts => Flow'  BY DEF Flow, AllFit, FileFits
<1>1. CASE Export
  <2>1. PICK f \in Exports(store, rows) : files' = files \cup {f}  BY <1>1 DEF Export
  <2>2. FileFits(f)  BY ExportFits
  <2> QED  BY <1>1, <1>k, <1>q, <2>1, <2>2 DEF Export, Flow
<1>2. ASSUME NEW f \in files, ImportBundle(f) PROVE Flow'
  <2>1. FileFits(f)  BY DEF Flow
  <2>2. job' = Begun("bundle", f, f.namespaces, "register") /\ f.namespaces \in SUBSET Namespaces
    BY <1>2, <2>1 DEF ImportBundle, FileFits
  <2>3. JobFits'  BY <2>1, <2>2, BegunFits
  <2> QED  BY <1>2, <1>k, <1>q, <2>3 DEF ImportBundle
<1>3. ASSUME NEW f \in files, NEW n \in Namespaces, ImportFile(f.doc, n) PROVE Flow'
  <2>1. FileFits(NoFile)  BY DEF FileFits, NoFile, AllFit, NoDoc, Doc
  <2> DEFINE groups == [m \in {n} |-> f.doc]
  <2>2. job' = [Begun("file", NoFile, {n}, "find") EXCEPT !.groups = groups]  BY <1>3 DEF ImportFile
  <2>3. {n} \subseteq DOMAIN groups /\ \A m \in DOMAIN groups : AllFit(groups[m].quads)
    BY DEF Flow, FileFits
  <2>4. {n} \in SUBSET Namespaces  OBVIOUS
  <2> HIDE DEF groups
  <2>5. JobFits'  BY <2>1, <2>2, <2>3, <2>4, BegunFits
  <2> QED  BY <1>3, <1>k, <1>q, <2>5 DEF ImportFile
<1>4. CASE JobOnly
  <2>1. UNCHANGED <<store, files, panel, saving>>
    BY <1>4 DEF JobOnly, Group, Find, Fetch, MemberAdded, NotesNext, Finish, ImportFails, RestUnchanged
  <2>2. JobFits'  BY <1>4, GroupFits, FetchFits, JobStepFits DEF JobOnly
  <2> QED  BY <1>k, <1>q, <2>1, <2>2
<1>5. CASE JobWrites
  <2>1. UNCHANGED <<files, panel, saving>>
    BY <1>5 DEF JobWrites, Register, WriteGroup, EnsureWorkspace, EnsureNote, RestUnchanged
  <2>2. JobFits'  BY <1>5, JobStepFits DEF JobWrites
  <2>3. \A n \in Namespaces : AllFit(Whole(store'[n]).quads)  BY <1>5, GraphsFit
  <2> QED  BY <1>k, <1>q, <2>1, <2>2, <2>3
<1>6. ASSUME NEW c \in Calls, AddMember(c) PROVE Flow'
  <2>1. JobFits'  BY <1>6, JobStepFits
  <2> QED  BY <1>6, <1>k, <1>q, <2>1 DEF AddMember
<1>7. ASSUME NEW iri, NEW ns, Open(iri, ns) PROVE Flow'
  <2>1. panel'.text = panel.text  BY <1>7 DEF Open, Loading, Forms, PanelForm
  <2> QED  BY <1>7, <1>k, <1>q, <2>1 DEF Open, Flow
<1>8. CASE Close
  <2>1. AllFit(panel'.text.quads)  BY <1>8 DEF Close, NoPanel, NoDoc, Doc, AllFit
  <2>2. saving' # NotSaving => AllFit(saving'.text.quads)
    <3>1. CASE saving = NotSaving  BY <3>1, <1>8 DEF Close
    <3>2. CASE saving # NotSaving
      <4>1. saving' = [saving EXCEPT !.watched = FALSE]  BY <1>8, <3>2 DEF Close
      <4> QED  BY <3>2, <4>1 DEF Forms, SavingForm, Flow
    <3> QED  BY <3>1, <3>2
  <2> QED  BY <1>8, <1>k, <1>q, <2>1, <2>2 DEF Close
<1>9. ASSUME NEW l, Loaded(l) \/ LoadFails(l), l[2] \in Namespaces PROVE Flow'
  <2>1. AllFit(panel'.text.quads)
    <3>1. CASE Loaded(l)
      <4>1. panel'.text = TextOf(store, l[1], l[2])  BY <3>1 DEF Loaded, Forms, PanelForm
      <4> QED  BY <4>1, <1>9, TextFits
    <3>2. CASE LoadFails(l)
      <4>1. panel'.text = panel.text  BY <3>2 DEF LoadFails, Forms, PanelForm
      <4> QED  BY <4>1 DEF Flow
    <3> QED  BY <1>9, <3>1, <3>2
  <2> QED  BY <1>9, <1>k, <1>q, <2>1 DEF Loaded, LoadFails, PanelOnly
<1>10. ASSUME NEW tab \in {"schema", "shapes"}, NEW text \in Drafts(Part(panel.text, tab)), Save(tab, text) PROVE Flow'
  <2>1. AllFit(text.quads)  BY DraftsFit DEF Flow
  <2>2. saving' # NotSaving => AllFit(saving'.text.quads)
    <3>1. saving' = NotSaving \/ saving'.text = text  BY <1>10 DEF Save
    <3> QED  BY <2>1, <3>1
  <2> QED  BY <1>10, <1>k, <1>q, <2>2 DEF Save
<1>11. CASE SaveWrites
  <2>1. \A n \in Namespaces : AllFit(Whole(store'[n]).quads)  BY <1>11, GraphsFit
  <2>2. panel'.text = panel.text  BY <1>11 DEF SaveWrites, Loading, Forms, PanelForm
  <2>3. JobFits'  BY <1>11, KeepsFit DEF SaveWrites, Forms, Flow
  <2> QED  BY <1>11, <1>k, <1>q, <2>1, <2>2, <2>3 DEF SaveWrites, Flow
<1>12. CASE SaveFails  BY <1>12, <1>k, <1>q DEF SaveFails
<1>13. ASSUME NEW c, MemberStep(c) \/ CallFails(c) PROVE Flow'
  <2>1. job' = job \/ job' = Disturbed \/ job' = NoJob  BY <1>13 DEF MemberStep, CallFails
  <2>2. JobFits'  BY <2>1, KeepsFit DEF Forms, Flow
  <2> QED  BY <1>13, <1>k, <1>q, <2>2 DEF MemberStep, CallFails
<1>14. CASE UNCHANGED allVars  BY <1>14, <1>k, <1>q DEF allVars, transferVars
<1>15. \A l \in panel.loads : l[2] \in Namespaces  BY DEF Forms, PanelForm
<1> HIDE DEF Parts
<1> QED
  BY <1>1, <1>2, <1>3, <1>4, <1>5, <1>6, <1>7, <1>8, <1>9, <1>10, <1>11, <1>12, <1>13, <1>14, <1>15
  DEF TransferNext, JobOnly, JobWrites

\* The update of an undisturbed group leads to the graph that was checked.
LEMMA WriteChecked ==
  ASSUME Forms, Flow, FetchStands, [TransferNext]_allVars, job.pc = "write", ImportWrote, job.alone
  PROVE  StructuralIssues(UNION {Triples(store', n) :
                                   n \in Involved(job.groups[job.group], job.homes, job.group)}) = {}
<1> DEFINE doc == job.groups[job.group]
<1> DEFINE involved == Involved(doc, job.homes, job.group)
<1> DEFINE existing == Existing(doc, job.homes, job.group)
<1> DEFINE all == Joined({job.clean[n] : n \in Namespaces})
<1>1. WriteGroup
  <2>1. ~SaveWrites  BY DEF ImportWrote, SaveWrites
  <2>2. store' # store  BY DEF ImportWrote
  <2> QED
    BY <2>1, <2>2
    DEF TransferNext, Export, ImportBundle, ImportFile, Register, Group, Find, Fetch, EnsureWorkspace, AddMember,
        MemberAdded, NotesNext, EnsureNote, Finish, ImportFails, Open, Close, Loaded, LoadFails, PanelOnly, Save,
        SaveFails, MemberStep, CallFails, RestUnchanged, allVars, transferVars
<1>2. job.clean = [n \in Namespaces |-> Cleaned(n)] /\ Accepted(all, Joined({existing, all}))
  BY DEF FetchStands
<1>3. \A n \in Namespaces : Triples(store', n) = Whole(store[n]).quads \cup job.clean[n].quads
  <2> SUFFICES ASSUME NEW n \in Namespaces
               PROVE  Triples(store', n) = Whole(store[n]).quads \cup job.clean[n].quads
    OBVIOUS
  <2>1. store'[n] = InsertInto(store[n], job.clean[n])  BY <1>1 DEF WriteGroup
  <2> QED  BY <2>1, InsertGraph DEF Triples
<1>4. \A n \in Namespaces \ involved : job.clean[n].quads = {}
  <2> SUFFICES ASSUME NEW n \in Namespaces, n \notin involved PROVE job.clean[n].quads = {}  OBVIOUS
  <2>1. PartIn(doc, job.homes, job.group, n) = NoDoc  BY DEF Involved
  <2>2. job.clean[n] = Clean(NoDoc, existing)  BY <1>2, <2>1 DEF Cleaned
  <2>3. Clean(NoDoc, existing).quads = {}  BY DEF Clean, NoDoc, Doc
  <2> QED  BY <2>2, <2>3
<1>5. existing.quads = UNION {Whole(store[n]).quads : n \in involved}
  BY DEF Existing, Joined, Doc
<1>6. all.quads = UNION {job.clean[n].quads : n \in Namespaces}
  BY DEF Joined, Doc
<1>7. Joined({existing, all}).quads = existing.quads \cup all.quads
  BY DEF Joined, Doc
<1>8. CASE involved \subseteq Namespaces
  <2>1. UNION {Triples(store', n) : n \in involved} = existing.quads \cup all.quads
    <3> HIDE DEF involved, existing, all
    <3> QED  BY <1>3, <1>4, <1>5, <1>6, <1>8
  <2> QED  BY <1>2, <1>7, <2>1 DEF Accepted
<1>9. job.group \in Namespaces  BY DEF Flow, JobFits, GroupsFit
<1> QED  BY <1>8, <1>9 DEF Involved

\* The update of a save whose namespace nobody wrote to, and which lost what the text dropped, does too.
LEMMA SaveChecked ==
  ASSUME Forms, SaveWrites, Whole(store[saving.ns]) = saving.read,
         (Part(saving.full, saving.tab).quads \ saving.text.quads) \cap Triples(store', saving.ns) = {}
  PROVE  StructuralIssues(Triples(store', saving.ns)) = {}
<1> DEFINE s == saving
<1> DEFINE g == store[s.ns]
<1> DEFINE h == DeleteScope(g, s.scope, s.full, s.tab, s.ns)
<1> DEFINE old == Part(s.full, s.tab).quads
<1>1. /\ s.ns \in Namespaces /\ s.tab \in {"schema", "shapes"} /\ s.full = Scope(Whole(g), s.scope)
      /\ Accepted(s.text, Merged(s))
  BY DEF Forms, SavingForm, SaveWrites
<1>2. IsGraph(g) /\ ShapesApart(g)  BY <1>1, SortedGraph DEF Forms, GraphsForm
<1>3. store'[s.ns] = InsertInto(h, s.text)  BY <1>1 DEF SaveWrites, Forms, GraphsForm
<1>4. Triples(store', s.ns) = Whole(h).quads \cup s.text.quads  BY <1>3, InsertGraph DEF Triples
<1>5. Whole(h).quads \subseteq Whole(g).quads
  <2>1. h.instances \subseteq g.instances /\ h.schema \subseteq g.schema /\ h.shapes \subseteq g.shapes
    BY <1>1, <1>2, DeleteGraph
  <2> HIDE DEF h, g
  <2> QED  BY <2>1 DEF Whole, Doc
<1>6. Merged(s).quads = (Whole(g).quads \ old) \cup s.text.quads  BY DEF Merged, Joined, Less, Doc
<1>7. \A q \in Whole(g).quads \ Whole(h).quads : q \in old \/ Neutral(q)
  BY <1>1, <1>2, DeletedAreNeutral
<1>8. StructuralIssues(Merged(s).quads) = {}  BY <1>1 DEF Accepted
<1>9. (old \ s.text.quads) \cap Triples(store', s.ns) = {}  OBVIOUS
<1> HIDE DEF s, g, h, old
<1>10. Triples(store', s.ns) \in SUBSET Merged(s).quads  BY <1>4, <1>5, <1>6, <1>9
<1>11. \A q \in Merged(s).quads \ Triples(store', s.ns) : Neutral(q)  BY <1>4, <1>6, <1>7
<1> QED  BY <1>8, <1>10, <1>11, NeutralsDoNotCount DEF s

\* The invariant of the checks.
ChecksInv == Forms /\ Flow /\ FetchStands

\* It holds in every behaviour.
LEMMA ChecksHold == TransferSpec => []ChecksInv
<1>1. TransferInit => ChecksInv  BY InitForms, InitFlow DEF ChecksInv
<1>2. ChecksInv /\ [TransferNext]_allVars => ChecksInv'  BY StepForms, StepFlow, StepFetch DEF ChecksInv
<1> QED  BY <1>1, <1>2, PTL DEF TransferSpec

\* importTurtle and saveScopedTurtle check the graph their update leads to: what they write breaks no
\* structural rule, unless somebody wrote in between or the store kept what the text had dropped.
THEOREM WritesChecked == TransferSpec => WritesAreChecked
<1> DEFINE Checked ==
      /\ (job.pc = "write" /\ ImportWrote /\ job.alone) =>
           StructuralIssues(UNION {Triples(store', n) :
                                     n \in Involved(job.groups[job.group], job.homes, job.group)}) = {}
      /\ (saving # NotSaving /\ store' # store /\ saving' # saving) =>
           LET dropped == Part(saving.full, saving.tab).quads \ saving.text.quads
           IN  \/ Whole(store[saving.ns]) # saving.read
               \/ dropped \cap Triples(store', saving.ns) # {}
               \/ StructuralIssues(Triples(store', saving.ns)) = {}
<1>1. ASSUME ChecksInv, [TransferNext]_allVars PROVE Checked
  <2>1. ASSUME saving # NotSaving, store' # store, saving' # saving PROVE SaveWrites
    BY <1>1, <2>1
    DEF TransferNext, Export, ImportBundle, ImportFile, Register, Group, Find, Fetch, WriteGroup, EnsureWorkspace,
        AddMember, MemberAdded, NotesNext, EnsureNote, Finish, ImportFails, Open, Close, Loaded, LoadFails, PanelOnly,
        Save, SaveFails, MemberStep, CallFails, RestUnchanged, allVars, transferVars
  <2> QED  BY <1>1, <2>1, WriteChecked, SaveChecked DEF ChecksInv
<1>2. ChecksInv /\ [TransferNext]_allVars => [Checked]_allVars  BY <1>1
<1> QED  BY <1>2, ChecksHold, PTL DEF TransferSpec, WritesAreChecked

-----------------------------------------------------------------------------
(* Membership: the rows, and batches of them as folds.                     *)

(* A set of numbers that holds 0 and with each number the next holds all: else there is a least *)
(* interval whose end it misses.                                                                *)
LEMMA AllNumbers ==
  ASSUME NEW S, 0 \in S, \A n \in Nat : n \in S => n + 1 \in S
  PROVE  Nat \subseteq S
<1> DEFINE Missed == {T \in FiniteSubsetsOf(Nat) : \E n \in Nat : T = 1..n /\ n \notin S}
<1>1. SUFFICES ASSUME NEW k \in Nat, k \notin S PROVE FALSE
  OBVIOUS
<1>2. 1..k \in Missed
  <2>1. IsFiniteSet(1..k)
    BY FS_Interval
  <2> QED  BY <1>1, <2>1 DEF FiniteSubsetsOf
<1>3. PICK T \in Missed : \A U \in Missed : <<U, T>> \notin StrictSubsetOrdering(Nat)
  <2>1. IsWellFoundedOn(StrictSubsetOrdering(Nat), FiniteSubsetsOf(Nat))
    BY FS_StrictSubsetOrderingWellFounded
  <2>2. Missed \subseteq FiniteSubsetsOf(Nat) /\ Missed # {}
    BY <1>2
  <2> HIDE DEF Missed
  <2> QED  BY <2>1, <2>2, WFMin
<1>4. PICK n \in Nat : T = 1..n /\ n \notin S
  BY <1>3
<1>5. n # 0 /\ n - 1 \in Nat /\ n - 1 \notin S
  BY <1>4
<1>6. IsFiniteSet(1..(n - 1)) /\ 1..(n - 1) \in SUBSET Nat
  BY <1>5, FS_Interval
<1>7. 1..(n - 1) \in Missed
  BY <1>5, <1>6 DEF FiniteSubsetsOf
<1>8. 1..(n - 1) \subseteq 1..n /\ n \in 1..n /\ n \notin 1..(n - 1)
  BY <1>5
<1>9. <<1..(n - 1), T>> \in StrictSubsetOrdering(Nat)
  BY <1>4, <1>6, <1>8 DEF StrictSubsetOrdering
<1> QED  BY <1>3, <1>7, <1>9

(***************************************************************************)
(* Folds.  The three folds over a list of items differ in their step: what *)
(* holds of any fold that is built up list element by list element is      *)
(* stated once, for a step with a name.                                    *)
(***************************************************************************)
Step(kind, acc, x) ==
  IF kind = "row" THEN BulkStep(acc, x) ELSE IF kind = "insert" THEN Inserted(acc, x[1], x[2]) ELSE AddOne(acc, x)

\* The function a fold over the first n items is the last value of.
FoldOn(kind, f, base, items, n) ==
  f = [s \in SUBSET (1..n) |-> IF s = {} THEN base ELSE Step(kind, f[s \ {Max(s)}], items[Max(s)])]

\* The greatest of a set with the greatest possible member.
LEMMA MaxIs ==
  ASSUME NEW n \in Nat, NEW s \in SUBSET (1..(n + 1)), n + 1 \in s
  PROVE  Max(s) = n + 1
<1>1. n + 1 \in s /\ \A y \in s : n + 1 >= y
  OBVIOUS
<1>2. Max(s) \in s /\ \A y \in s : Max(s) >= y
  BY <1>1 DEF Max
<1>3. Max(s) \in 1..(n + 1) /\ Max(s) >= n + 1
  BY <1>1, <1>2
<1> QED  BY <1>3

\* The greatest of a set is in it.
LEMMA MaxIn ==
  ASSUME NEW n \in Nat, NEW s \in SUBSET (1..n), s # {}
  PROVE  Max(s) \in s
<1> DEFINE S == {m \in Nat : \A t \in SUBSET (1..m) : t # {} => Max(t) \in t}
<1>1. 0 \in S
  <2>1. SUBSET (1..0) = {{}}  OBVIOUS
  <2> QED  BY <2>1
<1>2. ASSUME NEW m \in Nat, m \in S PROVE m + 1 \in S
  <2>1. SUFFICES ASSUME NEW t \in SUBSET (1..(m + 1)), t # {} PROVE Max(t) \in t
    OBVIOUS
  <2>2. CASE m + 1 \in t  BY <2>2, MaxIs
  <2>3. CASE m + 1 \notin t
    <3>1. t \in SUBSET (1..m)  BY <2>3
    <3> QED  BY <3>1, <2>1, <1>2
  <2> QED  BY <2>2, <2>3
<1>3. n \in S
  <2> HIDE DEF S
  <2> QED  BY <1>1, <1>2, AllNumbers
<1> QED  BY <1>3

(* There is a fold over the first n items. *)
LEMMA FoldExists ==
  ASSUME NEW kind, NEW base, NEW items, NEW n \in Nat
  PROVE  \E f : FoldOn(kind, f, base, items, n)
<1> DEFINE S == {m \in Nat : \E f : FoldOn(kind, f, base, items, m)}
<1>1. 0 \in S
  <2> DEFINE f == [s \in {{}} |-> base]
  <2>1. SUBSET (1..0) = {{}}  OBVIOUS
  <2>2. f = [s \in {{}} |-> IF s = {} THEN base ELSE Step(kind, f[s \ {Max(s)}], items[Max(s)])]
    OBVIOUS
  <2>3. FoldOn(kind, f, base, items, 0)
    BY <2>1, <2>2 DEF FoldOn
  <2> QED  BY <2>3
<1>2. ASSUME NEW m \in Nat, m \in S PROVE m + 1 \in S
  <2>1. PICK f : FoldOn(kind, f, base, items, m)
    BY <1>2
  <2> DEFINE G(s) == IF m + 1 \in s THEN Step(kind, f[s \ {m + 1}], items[m + 1]) ELSE f[s]
  <2> DEFINE g == [s \in SUBSET (1..(m + 1)) |-> G(s)]
  <2>2. ASSUME NEW s \in SUBSET (1..(m + 1))
        PROVE  G(s) = IF s = {} THEN base ELSE Step(kind, g[s \ {Max(s)}], items[Max(s)])
    <3>1. CASE m + 1 \in s
      <4>1. Max(s) = m + 1 /\ s # {}  BY <3>1, MaxIs
      <4>2. s \ {m + 1} \in SUBSET (1..(m + 1)) /\ m + 1 \notin s \ {m + 1}  OBVIOUS
      <4>3. g[s \ {m + 1}] = f[s \ {m + 1}]  BY <4>2
      <4> HIDE DEF g
      <4> QED  BY <3>1, <4>1, <4>3
    <3>2. CASE m + 1 \notin s
      <4>1. s \in SUBSET (1..m)  BY <3>2
      <4>2. f[s] = IF s = {} THEN base ELSE Step(kind, f[s \ {Max(s)}], items[Max(s)])
        BY <2>1, <4>1 DEF FoldOn
      <4>3. \A x : s \ {x} \in SUBSET (1..(m + 1)) /\ m + 1 \notin s \ {x}
        <5>1. \A y \in s : y \in 1..(m + 1) /\ y # m + 1  BY <4>1
        <5> QED  BY <5>1, Zenon
      <4>4. g[s \ {Max(s)}] = f[s \ {Max(s)}]  BY <4>3
      <4> HIDE DEF g
      <4> QED  BY <3>2, <4>2, <4>4
    <3> QED  BY <3>1, <3>2
  <2>3. g = [s \in SUBSET (1..(m + 1)) |-> IF s = {} THEN base ELSE Step(kind, g[s \ {Max(s)}], items[Max(s)])]
    <3>1. g = [s \in SUBSET (1..(m + 1)) |-> G(s)]  OBVIOUS
    <3> HIDE DEF g, G
    <3> QED  BY <2>2, <3>1
  <2>4. FoldOn(kind, g, base, items, m + 1)
    <3> HIDE DEF g
    <3> QED  BY <2>3 DEF FoldOn
  <2> QED  BY <2>4
<1>3. n \in S
  <2> HIDE DEF S
  <2> QED  BY <1>1, <1>2, AllNumbers
<1> QED  BY <1>3

(* What a fold over n items has after m of them depends on these alone. *)
LEMMA FoldStart ==
  ASSUME NEW kind, NEW base, NEW items, NEW n \in Nat, NEW f, FoldOn(kind, f, base, items, n)
  PROVE  f[{}] = base
<1>1. {} \in SUBSET (1..n)  OBVIOUS
<1> QED  BY <1>1 DEF FoldOn

\* One item more is one step more.
LEMMA FoldNext ==
  ASSUME NEW kind, NEW base, NEW items, NEW n \in Nat, NEW f, FoldOn(kind, f, base, items, n),
         NEW m \in Nat, m + 1 <= n
  PROVE  f[1..(m + 1)] = Step(kind, f[1..m], items[m + 1])
<1>1. 1..(m + 1) \in SUBSET (1..n) /\ 1..(m + 1) # {} /\ m + 1 \in 1..(m + 1)  OBVIOUS
<1>2. Max(1..(m + 1)) = m + 1
  <2>1. 1..(m + 1) \in SUBSET (1..(m + 1))  OBVIOUS
  <2> QED  BY <1>1, <2>1, MaxIs
<1>3. (1..(m + 1)) \ {m + 1} = 1..m  OBVIOUS
<1> QED  BY <1>1, <1>2, <1>3 DEF FoldOn

\* Folds over lists with the same beginning agree on it.
LEMMA FoldsAgree ==
  ASSUME NEW kind, NEW base, NEW items, NEW others, NEW n \in Nat, NEW k \in Nat, NEW f, NEW g,
         FoldOn(kind, f, base, items, n), FoldOn(kind, g, base, others, k),
         NEW j \in Nat, j <= n, j <= k, \A i \in 1..j : items[i] = others[i]
  PROVE  f[1..j] = g[1..j]
<1> DEFINE S == {m \in Nat : m <= j => f[1..m] = g[1..m]}
<1>1. 0 \in S
  <2>1. 1..0 = {}  OBVIOUS
  <2>2. f[{}] = base  BY FoldStart
  <2>3. g[{}] = base  BY FoldStart
  <2> QED  BY <2>1, <2>2, <2>3
<1>2. ASSUME NEW m \in Nat, m \in S PROVE m + 1 \in S
  <2>1. SUFFICES ASSUME m + 1 <= j PROVE f[1..(m + 1)] = g[1..(m + 1)]
    OBVIOUS
  <2>2. m <= j /\ m + 1 <= n /\ m + 1 <= k /\ m + 1 \in 1..j  BY <2>1
  <2>3. f[1..(m + 1)] = Step(kind, f[1..m], items[m + 1])  BY <2>2, FoldNext
  <2>4. g[1..(m + 1)] = Step(kind, g[1..m], others[m + 1])  BY <2>2, FoldNext
  <2> QED  BY <2>2, <2>3, <2>4, <1>2
<1>3. j \in S
  <2> HIDE DEF S
  <2> QED  BY <1>1, <1>2, AllNumbers
<1> QED  BY <1>3

(* The folds of the model. *)
Start(rs) == [known |-> rs, out |-> <<>>]
Claimed(rs, items) == FoldLeft(BulkStep, Start(rs), items)
Added(rs, items) == FoldLeft(AddOne, rs, items)

\* The result of a fold.
FoldedBy(kind, base, items, result) == \E f : FoldOn(kind, f, base, items, Len(items)) /\ result = f[1..Len(items)]

\* The model's folds are such folds.
LEMMA ModelFolds ==
  ASSUME NEW S, NEW items \in Seq(S), NEW rs
  PROVE  /\ FoldedBy("row", Start(rs), items, Claimed(rs, items))
         /\ FoldedBy("insert", rs, items, BulkInserted(rs, items))
         /\ FoldedBy("add", rs, items, Added(rs, items))
<1>0. Len(items) \in Nat /\ DOMAIN items = 1..Len(items)  OBVIOUS
<1> DEFINE n == Len(items)
<1>1. FoldedBy("row", Start(rs), items, Claimed(rs, items))
  <2> DEFINE IsFold(f) == f = [s \in SUBSET (1..n) |-> IF s = {} THEN Start(rs) ELSE BulkStep(f[s \ {Max(s)}], items[Max(s)])]
  <2>1. \A f : FoldOn("row", f, Start(rs), items, n) <=> IsFold(f)  BY DEF FoldOn, Step
  <2>2. Claimed(rs, items) = (CHOOSE f : IsFold(f))[1..n]
    BY <1>0 DEF Claimed, FoldLeft, MapThenFoldSet
  <2>3. \E f : IsFold(f)  BY <1>0, <2>1, FoldExists
  <2> HIDE DEF IsFold
  <2> QED  BY <2>1, <2>2, <2>3 DEF FoldedBy
<1>2. FoldedBy("insert", rs, items, BulkInserted(rs, items))
  <2> DEFINE IsFold(f) == f = [s \in SUBSET (1..n) |-> IF s = {} THEN rs ELSE Inserted(f[s \ {Max(s)}], items[Max(s)][1], items[Max(s)][2])]
  <2>1. \A f : FoldOn("insert", f, rs, items, n) <=> IsFold(f)  BY DEF FoldOn, Step
  <2>2. BulkInserted(rs, items) = (CHOOSE f : IsFold(f))[1..n]
    BY <1>0 DEF BulkInserted, FoldLeft, MapThenFoldSet
  <2>3. \E f : IsFold(f)  BY <1>0, <2>1, FoldExists
  <2> HIDE DEF IsFold
  <2> QED  BY <2>1, <2>2, <2>3 DEF FoldedBy
<1>3. FoldedBy("add", rs, items, Added(rs, items))
  <2> DEFINE IsFold(f) == f = [s \in SUBSET (1..n) |-> IF s = {} THEN rs ELSE AddOne(f[s \ {Max(s)}], items[Max(s)])]
  <2>1. \A f : FoldOn("add", f, rs, items, n) <=> IsFold(f)  BY DEF FoldOn, Step
  <2>2. Added(rs, items) = (CHOOSE f : IsFold(f))[1..n]
    BY <1>0 DEF Added, FoldLeft, MapThenFoldSet
  <2>3. \E f : IsFold(f)  BY <1>0, <2>1, FoldExists
  <2> HIDE DEF IsFold
  <2> QED  BY <2>1, <2>2, <2>3 DEF FoldedBy
<1> QED  BY <1>1, <1>2, <1>3

\* An item at the end is one step more.
LEMMA FoldedAppend ==
  ASSUME NEW kind, NEW base, NEW S, NEW items \in Seq(S), NEW x \in S, NEW r, NEW t,
         FoldedBy(kind, base, items, r), FoldedBy(kind, base, Append(items, x), t)
  PROVE  t = Step(kind, r, x)
<1> DEFINE n == Len(items)
           more == Append(items, x)
<1>1. n \in Nat /\ Len(more) = n + 1 /\ more[n + 1] = x /\ \A i \in 1..n : items[i] = more[i]
  OBVIOUS
<1> HIDE DEF more, n
<1>2. PICK f : FoldOn(kind, f, base, items, n) /\ r = f[1..n]  BY DEF FoldedBy, n
<1>3. PICK g : FoldOn(kind, g, base, more, n + 1) /\ t = g[1..(n + 1)]  BY <1>1 DEF FoldedBy, more
<1>4. g[1..(n + 1)] = Step(kind, g[1..n], more[n + 1])  BY <1>1, <1>3, FoldNext
<1>5. f[1..n] = g[1..n]
  <2>1. PICK k : k \in Nat /\ k = n + 1 /\ n <= n /\ n <= k  BY <1>1
  <2>2. FoldOn(kind, f, base, items, n) /\ FoldOn(kind, g, base, more, k)  BY <1>2, <1>3, <2>1
  <2>3. n \in Nat /\ \A i \in 1..n : items[i] = more[i]  BY <1>1
  <2> QED  BY ONLY <2>1, <2>2, <2>3, FoldsAgree
<1> QED  BY <1>1, <1>2, <1>3, <1>4, <1>5

\* No item, no step.
LEMMA FoldedEmpty == ASSUME NEW kind, NEW base, NEW r, FoldedBy(kind, base, <<>>, r) PROVE r = base
<1>1. Len(<<>>) = 0 /\ 1..0 = {}  OBVIOUS
<1>2. PICK f : FoldOn(kind, f, base, <<>>, 0) /\ r = f[1..0]  BY <1>1 DEF FoldedBy
<1>3. f[{}] = base
  <2>1. 0 \in Nat  OBVIOUS
  <2> QED  BY <1>2, <2>1, FoldStart
<1> QED  BY <1>1, <1>2, <1>3

(* Each of the model's folds takes its items one after the other. *)
LEMMA FoldsStep ==
  ASSUME NEW S, NEW items \in Seq(S), NEW x \in S, NEW rs
  PROVE  /\ Claimed(rs, Append(items, x)) = BulkStep(Claimed(rs, items), x)
         /\ BulkInserted(rs, Append(items, x)) = Inserted(BulkInserted(rs, items), x[1], x[2])
         /\ Added(rs, Append(items, x)) = AddOne(Added(rs, items), x)
<1>1. Append(items, x) \in Seq(S)  OBVIOUS
<1>2. Claimed(rs, Append(items, x)) = Step("row", Claimed(rs, items), x)
  <2>1. FoldedBy("row", Start(rs), items, Claimed(rs, items))  BY ModelFolds
  <2>2. FoldedBy("row", Start(rs), Append(items, x), Claimed(rs, Append(items, x)))  BY <1>1, ModelFolds
  <2> QED  BY <2>1, <2>2, FoldedAppend
<1>3. BulkInserted(rs, Append(items, x)) = Step("insert", BulkInserted(rs, items), x)
  <2>1. FoldedBy("insert", rs, items, BulkInserted(rs, items))  BY ModelFolds
  <2>2. FoldedBy("insert", rs, Append(items, x), BulkInserted(rs, Append(items, x)))  BY <1>1, ModelFolds
  <2> QED  BY <2>1, <2>2, FoldedAppend
<1>4. Added(rs, Append(items, x)) = Step("add", Added(rs, items), x)
  <2>1. FoldedBy("add", rs, items, Added(rs, items))  BY ModelFolds
  <2>2. FoldedBy("add", rs, Append(items, x), Added(rs, Append(items, x)))  BY <1>1, ModelFolds
  <2> QED  BY <2>1, <2>2, FoldedAppend
<1> QED  BY <1>2, <1>3, <1>4 DEF Step

\* The model's folds over nothing.
LEMMA FoldsStart ==
  ASSUME NEW rs
  PROVE  Claimed(rs, <<>>) = Start(rs) /\ BulkInserted(rs, <<>>) = rs /\ Added(rs, <<>>) = rs
<1>1. <<>> \in Seq({})  OBVIOUS
<1>2. /\ FoldedBy("row", Start(rs), <<>>, Claimed(rs, <<>>))
      /\ FoldedBy("insert", rs, <<>>, BulkInserted(rs, <<>>))
      /\ FoldedBy("add", rs, <<>>, Added(rs, <<>>))
  BY <1>1, ModelFolds
<1> QED  BY <1>2, FoldedEmpty

-----------------------------------------------------------------------------
(***************************************************************************)
(* Rows.  A row is whole and belongs to one element, under one of the two  *)
(* subjects that element may have; what a call knows of the subject it has *)
(* chosen is still true when it writes, as long as no other call writes.   *)
(***************************************************************************)
Items == [element : Elements, position : Positions]
\* The element has no row.
NotPlaced(rs, e) == \A t \in Subjects : ~Owned(rs, t, e)

\* An element's two subjects are subjects, and are two.
LEMMA SubjectsAre ==
  ASSUME NEW e \in Elements
  PROVE  Legacy(e) \in Subjects /\ Hashed(e) \in Subjects /\ Legacy(e) # Hashed(e)
  BY MembershipAssumption DEF Legacy, Hashed, Subjects

(* Only under its own subjects an element is found, and a subject is another's only by its name. *)
LEMMA OwnRows ==
  ASSUME NEW rs, RowsSound(rs), NEW e \in Elements
  PROVE  /\ \A t \in Subjects : Owned(rs, t, e) => SubjectOf(t, e)
         /\ ~Owned(rs, Hashed(e), e) => rs[Hashed(e)] = NoRow
         /\ ~Taken(rs, Legacy(e)) => rs[Legacy(e)] = NoRow
<1>1. ASSUME NEW t \in Subjects, Owned(rs, t, e) PROVE SubjectOf(t, e)
  <2>1. rs[t] # NoRow  BY <1>1 DEF Owned, NoRow
  <2>2. PICK f \in Elements, p \in Positions : SubjectOf(t, f) /\ rs[t] = [elements |-> {f}, positions |-> {p}]
    BY <2>1 DEF RowsSound
  <2>3. e = f  BY <1>1, <2>2 DEF Owned
  <2> QED  BY <2>2, <2>3
<1>2. ASSUME ~Owned(rs, Hashed(e), e), rs[Hashed(e)] # NoRow PROVE FALSE
  <2>1. PICK f \in Elements, p \in Positions :
          SubjectOf(Hashed(e), f) /\ rs[Hashed(e)] = [elements |-> {f}, positions |-> {p}]
    BY <1>2, SubjectsAre DEF RowsSound
  <2>2. f = e  BY <2>1, MembershipAssumption DEF SubjectOf, Legacy, Hashed
  <2> QED  BY <1>2, <2>1, <2>2 DEF Owned
<1>3. ASSUME ~Taken(rs, Legacy(e)), rs[Legacy(e)] # NoRow PROVE FALSE
  <2>1. PICK f \in Elements, p \in Positions : rs[Legacy(e)] = [elements |-> {f}, positions |-> {p}]
    BY <1>3, SubjectsAre DEF RowsSound
  <2> QED  BY <1>3, <2>1 DEF Taken
<1> QED  BY <1>1, <1>2, <1>3

\* An insertion of an element without a row under a free subject of it.
LEMMA InsertSound ==
  ASSUME NEW rs, RowsSound(rs), NEW i \in Items, NEW s, SubjectOf(s, i.element), rs[s] = NoRow, NotPlaced(rs, i.element)
  PROVE  LET new == Inserted(rs, s, i)
         IN  /\ RowsSound(new)
             /\ s \in Subjects /\ new[s] = [elements |-> {i.element}, positions |-> {i.position}]
             /\ \A t \in Subjects \ {s} : new[t] = rs[t]
<1> DEFINE new == Inserted(rs, s, i)
           row == [elements |-> {i.element}, positions |-> {i.position}]
<1>1. i.element \in Elements /\ i.position \in Positions  BY DEF Items
<1>2. s \in Subjects  BY <1>1, SubjectsAre DEF SubjectOf
<1>3. new = [rs EXCEPT ![s] = row]
  <2>1. rs[s].elements \cup {i.element} = {i.element} /\ rs[s].positions \cup {i.position} = {i.position}
    BY DEF NoRow
  <2>2. [[rs[s] EXCEPT !.elements = @ \cup {i.element}] EXCEPT !.positions = @ \cup {i.position}] = row
    <3>1. [rs[s] EXCEPT !.elements = @ \cup {i.element}] = [elements |-> {i.element}, positions |-> {}]
      BY DEF NoRow
    <3>2. PICK r : r = [rs[s] EXCEPT !.elements = @ \cup {i.element}]  OBVIOUS
    <3>3. r = [elements |-> {i.element}, positions |-> {}]  BY <3>1, <3>2
    <3>4. [r EXCEPT !.positions = @ \cup {i.position}] = row  BY ONLY <3>3
    <3> QED  BY <3>2, <3>4
  <2>3. new = [rs EXCEPT ![s] = [[rs[s] EXCEPT !.elements = @ \cup {i.element}] EXCEPT !.positions = @ \cup {i.position}]]
    BY <1>2 DEF Inserted, RowsSound
  <2> QED  BY <2>2, <2>3
<1> HIDE DEF new
<1>4. new = [t \in Subjects |-> IF t = s THEN row ELSE rs[t]]
  <2> HIDE DEF row
  <2> QED  BY <1>2, <1>3 DEF RowsSound
<1>5. new[s] = row /\ \A t \in Subjects \ {s} : new[t] = rs[t]
  <2> HIDE DEF row
  <2> QED  BY <1>2, <1>4
<1>6. \A t \in Subjects : \/ new[t] = NoRow
                          \/ \E e \in Elements, p \in Positions :
                               SubjectOf(t, e) /\ new[t] = [elements |-> {e}, positions |-> {p}]
  <2>1. SUFFICES ASSUME NEW t \in Subjects
                 PROVE  \/ new[t] = NoRow
                        \/ \E e \in Elements, p \in Positions :
                             SubjectOf(t, e) /\ new[t] = [elements |-> {e}, positions |-> {p}]
    OBVIOUS
  <2>2. CASE t = s  BY <1>1, <1>5, <2>2
  <2>3. CASE t # s
    <3>1. new[t] = rs[t]  BY <1>5, <2>3
    <3> QED  BY <3>1 DEF RowsSound
  <2> QED  BY <2>2, <2>3
<1>7. ASSUME NEW e \in Elements, NEW t \in Subjects, NEW u \in Subjects, Owned(new, t, e), Owned(new, u, e)
      PROVE  t = u
  <2>1. CASE t # s /\ u # s
    <3>1. Owned(rs, t, e) /\ Owned(rs, u, e)  BY <1>5, <1>7, <2>1 DEF Owned
    <3> QED  BY <3>1 DEF RowsSound
  <2>2. ASSUME NEW v \in Subjects, Owned(new, v, e), v # s, Owned(new, s, e) PROVE FALSE
    <3>1. e = i.element  BY <1>5, <2>2 DEF Owned
    <3>2. Owned(rs, v, e)  BY <1>5, <2>2 DEF Owned
    <3> QED  BY <3>1, <3>2 DEF NotPlaced
  <2> QED  BY <1>7, <2>1, <2>2
<1>8. RowsSound(new)
  <2>1. new = [t \in Subjects |-> new[t]]  BY <1>4
  <2> QED  BY <1>6, <1>7, <2>1 DEF RowsSound
<1> QED  BY <1>2, <1>5, <1>8 DEF new

\* A replacement of the element's own row, or of none.
LEMMA ReplaceSound ==
  ASSUME NEW rs, RowsSound(rs), NEW i \in Items, NEW s, SubjectOf(s, i.element),
         rs[s].elements \subseteq {i.element}, \A t \in Subjects : Owned(rs, t, i.element) => t = s
  PROVE  RowsSound(Replaced(rs, s, i))
<1> DEFINE new == Replaced(rs, s, i)
           row == [elements |-> {i.element}, positions |-> {i.position}]
<1>1. i.element \in Elements /\ i.position \in Positions  BY DEF Items
<1>2. s \in Subjects  BY <1>1, SubjectsAre DEF SubjectOf
<1>3. new = [t \in Subjects |-> IF t = s THEN row ELSE rs[t]]  BY <1>2 DEF Replaced, RowsSound
<1> HIDE DEF new
<1>5. new[s] = row /\ \A t \in Subjects \ {s} : new[t] = rs[t]
  <2> HIDE DEF row
  <2> QED  BY <1>2, <1>3
<1>6. \A t \in Subjects : \/ new[t] = NoRow
                          \/ \E e \in Elements, p \in Positions :
                               SubjectOf(t, e) /\ new[t] = [elements |-> {e}, positions |-> {p}]
  <2>1. SUFFICES ASSUME NEW t \in Subjects
                 PROVE  \/ new[t] = NoRow
                        \/ \E e \in Elements, p \in Positions :
                             SubjectOf(t, e) /\ new[t] = [elements |-> {e}, positions |-> {p}]
    OBVIOUS
  <2>2. CASE t = s  BY <1>1, <1>5, <2>2
  <2>3. CASE t # s
    <3>1. new[t] = rs[t]  BY <1>5, <2>3
    <3> QED  BY <3>1 DEF RowsSound
  <2> QED  BY <2>2, <2>3
<1>7. ASSUME NEW e \in Elements, NEW t \in Subjects, NEW u \in Subjects, Owned(new, t, e), Owned(new, u, e)
      PROVE  t = u
  <2>1. CASE t # s /\ u # s
    <3>1. Owned(rs, t, e) /\ Owned(rs, u, e)  BY <1>5, <1>7, <2>1 DEF Owned
    <3> QED  BY <3>1 DEF RowsSound
  <2>2. ASSUME NEW v \in Subjects, Owned(new, v, e), v # s, Owned(new, s, e) PROVE FALSE
    <3>1. e = i.element  BY <1>5, <2>2 DEF Owned
    <3>2. Owned(rs, v, e)  BY <1>5, <2>2 DEF Owned
    <3> QED  BY <2>2, <3>1, <3>2
  <2> QED  BY <1>7, <2>1, <2>2
<1>8. new = [t \in Subjects |-> new[t]]  BY <1>3
<1> QED  BY <1>6, <1>7, <1>8 DEF RowsSound, new

(* Fewer rows are sound rows. *)
LEMMA FewerSound ==
  ASSUME NEW rs, RowsSound(rs), NEW new, new = [s \in Subjects |-> new[s]],
         \A s \in Subjects : new[s] = NoRow \/ new[s] = rs[s]
  PROVE  RowsSound(new)
<1>1. \A s \in Subjects, e \in Elements : Owned(new, s, e) => Owned(rs, s, e)  BY DEF Owned, NoRow
<1>2. \A e \in Elements, s, t \in Subjects : Owned(new, s, e) /\ Owned(new, t, e) => s = t
  BY <1>1 DEF RowsSound
<1> QED  BY <1>2 DEF RowsSound

\* Sound rows have each one element, and each element one.
LEMMA SoundIsOwn == RowsSound(rows) => OneRowEach /\ NoSharedSubject
<1> SUFFICES ASSUME RowsSound(rows) PROVE OneRowEach /\ NoSharedSubject  OBVIOUS
<1>0. \A x : Cardinality({x}) = 1 /\ Cardinality({}) = 0  BY FS_EmptySet, FS_Singleton
<1>1. ASSUME NEW e \in Elements PROVE Cardinality(SubjectsOf(e)) <= 1 /\ Cardinality(PositionsOf(e)) <= 1
  <2>1. CASE SubjectsOf(e) = {}
    <3>1. PositionsOf(e) = {}  BY <2>1 DEF PositionsOf
    <3> QED  BY <1>0, <2>1, <3>1
  <2>2. CASE SubjectsOf(e) # {}
    <3>1. PICK s : s \in SubjectsOf(e)  BY <2>2
    <3>2. SubjectsOf(e) = {s}  BY <3>1 DEF SubjectsOf, RowsSound
    <3>3. s \in Subjects /\ Owned(rows, s, e)  BY <3>1 DEF SubjectsOf
    <3>4. rows[s] # NoRow  BY <3>3 DEF Owned, NoRow
    <3>5. PICK p : rows[s].positions = {p}  BY <3>3, <3>4 DEF RowsSound
    <3>6. PositionsOf(e) = {p}  BY <3>2, <3>5 DEF PositionsOf
    <3>7. Cardinality({s}) = 1 /\ Cardinality({p}) = 1  BY <1>0
    <3>8. Cardinality(SubjectsOf(e)) = 1 /\ Cardinality(PositionsOf(e)) = 1  BY <3>2, <3>6, <3>7
    <3> QED  BY <3>8
  <2> QED  BY <2>1, <2>2
<1>2. ASSUME NEW s \in Subjects PROVE Cardinality(rows[s].elements) <= 1
  <2>1. CASE rows[s] = NoRow  BY <1>0, <2>1 DEF NoRow
  <2>2. CASE rows[s] # NoRow
    <3>1. PICK e : rows[s].elements = {e}  BY <2>2 DEF RowsSound
    <3>2. Cardinality({e}) = 1  BY <1>0
    <3>3. Cardinality(rows[s].elements) = 1  BY <3>1, <3>2
    <3> QED  BY <3>3
  <2> QED  BY <2>1, <2>2
<1> QED  BY <1>1, <1>2 DEF OneRowEach, NoSharedSubject

\* Rows to come, none of which is in the way of another.
Fresh(rs, out) ==
  /\ out \in Seq(Subjects \X Items)
  /\ \A k \in DOMAIN out : /\ SubjectOf(out[k][1], out[k][2].element)
                           /\ rs[out[k][1]] = NoRow /\ NotPlaced(rs, out[k][2].element)
  /\ \A k, l \in DOMAIN out :
       out[k][1] = out[l][1] \/ out[k][2].element = out[l][2].element => k = l

(***************************************************************************)
(* A batch, item by item.  What it has claimed so far is what adding the   *)
(* same items one by one would have written so far.                        *)
(***************************************************************************)
BatchSound(rs, acc, built, added) ==
  /\ acc = [known |-> acc.known, out |-> acc.out]
  /\ acc.known = [s \in Subjects |-> acc.known[s]]
  /\ \A s \in Subjects : acc.known[s] = [elements |-> acc.known[s].elements, positions |-> acc.known[s].positions]
  /\ \A s \in Subjects : acc.known[s].elements = built[s].elements
  /\ built = added /\ RowsSound(built)
  /\ \A s \in Subjects : rs[s].elements \subseteq built[s].elements
  /\ acc.out \in Seq(Subjects \X Items)
  /\ Fresh(rs, acc.out)
  /\ \A k \in DOMAIN acc.out : acc.out[k][2].element \in built[acc.out[k][1]].elements

\* An element known to have a row is skipped by both.
LEMMA ClaimKeeps ==
  ASSUME NEW rs, RowsSound(rs), NEW acc, NEW built, NEW added, BatchSound(rs, acc, built, added), NEW i \in Items,
         \/ Owned(acc.known, Hashed(i.element), i.element)
         \/ Owned(acc.known, Legacy(i.element), i.element)
  PROVE  BulkStep(acc, i) = acc /\ AddOne(added, i) = added
<1>1. i.element \in Elements  BY DEF Items
<1>2. \A s \in {Legacy(i.element), Hashed(i.element)} : Owned(acc.known, s, i.element) <=> Owned(added, s, i.element)
  <2>1. \A s \in Subjects : acc.known[s].elements = added[s].elements  BY DEF BatchSound
  <2> QED  BY <1>1, <2>1, SubjectsAre DEF Owned
<1>3. BulkStep(acc, i) = acc  BY DEF BulkStep
<1>4. AddOne(added, i) = added  BY <1>2 DEF AddOne
<1> QED  BY <1>3, <1>4

\* Another one gets the same subject from both.
LEMMA ClaimAdds ==
  ASSUME NEW rs, RowsSound(rs), NEW acc, NEW built, NEW added, BatchSound(rs, acc, built, added), NEW i \in Items,
         ~Owned(acc.known, Hashed(i.element), i.element),
         ~Owned(acc.known, Legacy(i.element), i.element)
  PROVE  \E s \in Subjects :
           /\ BulkStep(acc, i) = [known |-> [acc.known EXCEPT ![s].elements = {i.element}], out |-> Append(acc.out, <<s, i>>)]
           /\ AddOne(added, i) = Inserted(added, s, i)
           /\ SubjectOf(s, i.element) /\ built[s] = NoRow /\ NotPlaced(built, i.element)
<1> DEFINE e == i.element
<1>1. e \in Elements  BY DEF Items
<1>2. \A s \in Subjects : acc.known[s].elements = built[s].elements  BY DEF BatchSound
<1>3. Legacy(e) \in Subjects /\ Hashed(e) \in Subjects  BY <1>1, SubjectsAre
<1>4. ~Owned(built, Hashed(e), e) /\ ~Owned(built, Legacy(e), e)  BY <1>2, <1>3 DEF Owned
<1>5. Taken(acc.known, Legacy(e)) <=> Taken(built, Legacy(e))  BY <1>2, <1>3 DEF Taken
<1>6. RowsSound(built) /\ added = built  BY DEF BatchSound
<1>7. PICK s : s = IF Taken(built, Legacy(e)) THEN Hashed(e) ELSE Legacy(e)  OBVIOUS
<1>8. BulkStep(acc, i) = [known |-> [acc.known EXCEPT ![s].elements = {i.element}], out |-> Append(acc.out, <<s, i>>)]
  BY <1>5, <1>7 DEF BulkStep
<1>9. SubjectOf(s, e) /\ s \in Subjects  BY <1>3, <1>7 DEF SubjectOf
<1>10. built[s] = NoRow  BY <1>1, <1>4, <1>6, <1>7, OwnRows
<1>11. NotPlaced(built, e)
  <2>1. \A t \in Subjects : Owned(built, t, e) => SubjectOf(t, e)  BY <1>1, <1>6, OwnRows
  <2> QED  BY <1>4, <2>1 DEF NotPlaced, SubjectOf
<1>12. ~Owned(added, s, e)  BY <1>6, <1>9, <1>11 DEF NotPlaced
<1>13. AddOne(added, i) = Inserted(added, s, i)  BY <1>4, <1>6, <1>7, <1>12 DEF AddOne
<1> QED  BY <1>8, <1>9, <1>10, <1>11, <1>13

\* And stays sound.
LEMMA ClaimSound ==
  ASSUME NEW rs, RowsSound(rs), NEW acc, NEW built, NEW added, BatchSound(rs, acc, built, added), NEW i \in Items,
         NEW s \in Subjects, SubjectOf(s, i.element), built[s] = NoRow, NotPlaced(built, i.element),
         NEW next, next = [known |-> [acc.known EXCEPT ![s].elements = {i.element}], out |-> Append(acc.out, <<s, i>>)]
  PROVE  BatchSound(rs, next, Inserted(built, s, i), Inserted(added, s, i))
<1> DEFINE e == i.element
           new == Inserted(built, s, i)
           known == [acc.known EXCEPT ![s].elements = {e}]
           out == Append(acc.out, <<s, i>>)
<1>1. /\ RowsSound(new) /\ new[s] = [elements |-> {e}, positions |-> {i.position}]
      /\ \A t \in Subjects \ {s} : new[t] = built[t]
  BY InsertSound DEF BatchSound
<1>2. /\ known = [t \in Subjects |-> known[t]]
      /\ known[s] = [elements |-> {e}, positions |-> acc.known[s].positions]
      /\ \A t \in Subjects \ {s} : known[t] = acc.known[t]
  <2>1. acc.known = [t \in Subjects |-> acc.known[t]]  BY DEF BatchSound
  <2>2. acc.known[s] = [elements |-> acc.known[s].elements, positions |-> acc.known[s].positions]  BY DEF BatchSound
  <2>3. [acc.known[s] EXCEPT !.elements = {e}] = [elements |-> {e}, positions |-> acc.known[s].positions]
    <3>1. PICK r, a, b : r = acc.known[s] /\ r = [elements |-> a, positions |-> b]  BY <2>2
    <3>2. r.positions = b /\ [r EXCEPT !.elements = {e}] = [elements |-> {e}, positions |-> b]
      <4>1. r = [elements |-> a, positions |-> b]  BY <3>1
      <4> QED  BY ONLY <4>1
    <3> QED  BY <3>1, <3>2
  <2>4. known = [acc.known EXCEPT ![s] = [acc.known[s] EXCEPT !.elements = {e}]]  OBVIOUS
  <2> HIDE DEF known
  <2> QED  BY <2>1, <2>3, <2>4
<1>3. \A t \in Subjects : /\ known[t] = [elements |-> known[t].elements, positions |-> known[t].positions]
                         /\ known[t].elements = new[t].elements
  <2>1. SUFFICES ASSUME NEW t \in Subjects
                 PROVE  /\ known[t] = [elements |-> known[t].elements, positions |-> known[t].positions]
                        /\ known[t].elements = new[t].elements
    OBVIOUS
  <2> HIDE DEF known, new
  <2>2. CASE t = s
    <3>1. PICK r, a : r = known[t] /\ r = [elements |-> {e}, positions |-> a]  BY <1>2, <2>2
    <3>2. r = [elements |-> r.elements, positions |-> r.positions] /\ r.elements = {e}
      <4>1. r = [elements |-> {e}, positions |-> a]  BY <3>1
      <4> QED  BY ONLY <4>1
    <3>3. new[t].elements = {e}  BY <1>1, <2>2
    <3> QED  BY <3>1, <3>2, <3>3
  <2>3. CASE t # s
    <3>1. known[t] = acc.known[t] /\ new[t] = built[t]  BY <1>1, <1>2, <2>3
    <3>2. acc.known[t] = [elements |-> acc.known[t].elements, positions |-> acc.known[t].positions]
      BY DEF BatchSound
    <3>3. acc.known[t].elements = built[t].elements  BY DEF BatchSound
    <3> QED  BY <3>1, <3>2, <3>3
  <2> QED  BY <2>2, <2>3
<1>4. \A t \in Subjects : rs[t].elements \subseteq new[t].elements
  <2>1. \A t \in Subjects : rs[t].elements \subseteq built[t].elements  BY DEF BatchSound
  <2>2. built[s].elements = {}  BY DEF NoRow
  <2> HIDE DEF new
  <2> QED  BY <1>1, <2>1, <2>2
<1>5. /\ acc.out \in Seq(Subjects \X Items) /\ <<s, i>> \in Subjects \X Items
      /\ Fresh(rs, acc.out)
      /\ \A k \in DOMAIN acc.out : acc.out[k][2].element \in built[acc.out[k][1]].elements
  BY DEF BatchSound
<1>6. /\ out \in Seq(Subjects \X Items)
      /\ DOMAIN out = DOMAIN acc.out \cup {Len(acc.out) + 1} /\ Len(acc.out) + 1 \notin DOMAIN acc.out
      /\ \A k \in DOMAIN acc.out : out[k] = acc.out[k] /\ acc.out[k] \in Subjects \X Items
      /\ out[Len(acc.out) + 1] = <<s, i>>
  <2> HIDE DEF BatchSound
  <2> QED  BY <1>5
<1> HIDE DEF out
<1> DEFINE last == Len(acc.out) + 1
<1>7. rs[s] = NoRow /\ NotPlaced(rs, e)
  <2>1. \A t \in Subjects : rs[t].elements \subseteq built[t].elements  BY DEF BatchSound
  <2>2. NotPlaced(rs, e)  BY <2>1 DEF NotPlaced, Owned
  <2>3. rs[s].elements = {}  BY <2>1 DEF NoRow
  <2>4. ASSUME rs[s] # NoRow PROVE FALSE
    <3>1. \A r \in Subjects : \/ rs[r] = NoRow
                             \/ \E f \in Elements, p \in Positions : rs[r] = [elements |-> {f}, positions |-> {p}]
      BY DEF RowsSound
    <3>2. PICK f \in Elements, p \in Positions : rs[s] = [elements |-> {f}, positions |-> {p}]  BY <2>4, <3>1
    <3>3. rs[s].elements = {f}  BY <3>2
    <3> QED  BY <2>3, <3>3
  <2> QED  BY <2>2, <2>4
<1>8. ASSUME NEW k \in DOMAIN acc.out PROVE acc.out[k][1] # s /\ acc.out[k][2].element # e
  <2>1. acc.out[k][2].element \in built[acc.out[k][1]].elements /\ acc.out[k][1] \in Subjects  BY <1>5, <1>6
  <2>2. built[s].elements = {}  BY DEF NoRow
  <2>3. ~Owned(built, acc.out[k][1], e)  BY <2>1 DEF NotPlaced
  <2> QED  BY <2>1, <2>2, <2>3 DEF Owned
<1>9. Fresh(rs, out)
  <2>1. \A k \in DOMAIN out : /\ SubjectOf(out[k][1], out[k][2].element)
                              /\ rs[out[k][1]] = NoRow /\ NotPlaced(rs, out[k][2].element)
    <3>1. SUFFICES ASSUME NEW k \in DOMAIN out
                   PROVE  /\ SubjectOf(out[k][1], out[k][2].element)
                          /\ rs[out[k][1]] = NoRow /\ NotPlaced(rs, out[k][2].element)
      OBVIOUS
    <3>2. CASE k = last  BY <1>6, <1>7, <3>2
    <3>3. CASE k # last
      <4>1. k \in DOMAIN acc.out /\ out[k] = acc.out[k]  BY <1>6, <3>3
      <4> QED  BY <1>5, <4>1 DEF Fresh
    <3> QED  BY <3>2, <3>3
  <2>2. ASSUME NEW k \in DOMAIN out, NEW l \in DOMAIN out,
               out[k][1] = out[l][1] \/ out[k][2].element = out[l][2].element
        PROVE  k = l
    <3>1. CASE k # last /\ l # last
      <4>1. k \in DOMAIN acc.out /\ out[k] = acc.out[k] /\ l \in DOMAIN acc.out /\ out[l] = acc.out[l]  BY <1>6, <3>1
      <4> QED  BY <1>5, <2>2, <4>1 DEF Fresh
    <3>2. ASSUME k = last, l # last PROVE FALSE
      <4>1. l \in DOMAIN acc.out /\ out[l] = acc.out[l]  BY <1>6, <3>2
      <4>2. out[k] = <<s, i>>  BY <1>6, <3>2
      <4> QED  BY <1>8, <2>2, <4>1, <4>2
    <3>3. ASSUME k # last, l = last PROVE FALSE
      <4>1. k \in DOMAIN acc.out /\ out[k] = acc.out[k]  BY <1>6, <3>3
      <4>2. out[l] = <<s, i>>  BY <1>6, <3>3
      <4> QED  BY <1>8, <2>2, <4>1, <4>2
    <3> QED  BY <3>1, <3>2, <3>3
  <2> QED  BY <1>6, <2>1, <2>2 DEF Fresh
<1>10. \A k \in DOMAIN out : out[k][2].element \in new[out[k][1]].elements
  <2>1. SUFFICES ASSUME NEW k \in DOMAIN out PROVE out[k][2].element \in new[out[k][1]].elements  OBVIOUS
  <2> HIDE DEF new
  <2>2. CASE k = last
    <3>1. out[k] = <<s, i>>  BY <1>6, <2>2
    <3> QED  BY <1>1, <3>1
  <2>3. CASE k # last
    <3>1. k \in DOMAIN acc.out /\ out[k] = acc.out[k] /\ acc.out[k][1] \in Subjects  BY <1>6, <2>3
    <3>2. acc.out[k][1] # s  BY <1>8, <3>1
    <3> QED  BY <1>1, <1>5, <3>1, <3>2
  <2> QED  BY <2>2, <2>3
<1>11. Inserted(built, s, i) = Inserted(added, s, i)  BY DEF BatchSound
<1>12. next = [known |-> known, out |-> out]  BY DEF out
<1> HIDE DEF known, new
<1>13. next.known = known /\ next.out = out /\ next = [known |-> next.known, out |-> next.out]  BY <1>12
<1>14. BatchSound(rs, next, new, Inserted(added, s, i))
  <2>1. new = Inserted(added, s, i) /\ RowsSound(new)  BY <1>1, <1>11 DEF new
  <2>2. next.known = [t \in Subjects |-> next.known[t]]  BY <1>2, <1>13
  <2>3. \A t \in Subjects : next.known[t] = [elements |-> next.known[t].elements, positions |-> next.known[t].positions]
    BY <1>3, <1>13
  <2>4. \A t \in Subjects : next.known[t].elements = new[t].elements  BY <1>3, <1>13
  <2>5. next.out \in Seq(Subjects \X Items) /\ Fresh(rs, next.out)  BY <1>6, <1>9, <1>13
  <2>6. \A k \in DOMAIN next.out : next.out[k][2].element \in new[next.out[k][1]].elements  BY <1>10, <1>13
  <2> QED  BY <1>4, <1>13, <2>1, <2>2, <2>3, <2>4, <2>5, <2>6 DEF BatchSound
<1> QED  BY <1>14 DEF new

\* One after m, within the list.
IsNext(items, m, k) == m \in Nat /\ k = m + 1 /\ k <= Len(items)

\* The next prefix of a list.
LEMMA PrefixGrows ==
  ASSUME NEW S, NEW items \in Seq(S), NEW m, NEW k, IsNext(items, m, k)
  PROVE  /\ SubSeq(items, 1, m) \in Seq(S) /\ items[k] \in S
         /\ SubSeq(items, 1, k) = Append(SubSeq(items, 1, m), items[k])
<1>0. m \in Nat /\ k = m + 1 /\ k <= Len(items)  BY DEF IsNext
<1>1. Len(items) \in Nat /\ \A j \in 1..Len(items) : items[j] \in S  OBVIOUS
<1> DEFINE a == SubSeq(items, 1, m)
           b == SubSeq(items, 1, k)
<1>2. a \in Seq(S) /\ Len(a) = m /\ \A j \in 1..m : a[j] = items[j]  BY <1>0, <1>1
<1>3. b \in Seq(S) /\ Len(b) = m + 1 /\ \A j \in 1..(m + 1) : b[j] = items[j]  BY <1>0, <1>1
<1>4. items[k] \in S  BY <1>0, <1>1
<1> HIDE DEF a, b
<1>5. b = Append(a, items[k])  BY <1>0, <1>2, <1>3, <1>4
<1> QED  BY <1>2, <1>4, <1>5 DEF a, b

\* By induction over its prefixes, for a batch of any length.
LEMMA BatchHolds ==
  ASSUME NEW rs, RowsSound(rs), NEW items \in Seq(Items)
  PROVE  BatchSound(rs, Claimed(rs, items), BulkInserted(rs, Claimed(rs, items).out), Added(rs, items))
<1> DEFINE Sound(list) == BatchSound(rs, Claimed(rs, list), BulkInserted(rs, Claimed(rs, list).out), Added(rs, list))
           S == {m \in Nat : m <= Len(items) => Sound(SubSeq(items, 1, m))}
<1>0. Len(items) \in Nat  OBVIOUS
<1>1. 0 \in S
  <2>1. SubSeq(items, 1, 0) = <<>>  BY <1>0
  <2>2. Sound(<<>>)
    <3>1. Claimed(rs, <<>>) = [known |-> rs, out |-> <<>>] /\ Added(rs, <<>>) = rs /\ BulkInserted(rs, <<>>) = rs
      BY FoldsStart DEF Start
    <3>2. Claimed(rs, <<>>).known = rs /\ Claimed(rs, <<>>).out = <<>>  BY <3>1
    <3>3. <<>> \in Seq(Subjects \X Items) /\ DOMAIN <<>> = {}  OBVIOUS
    <3>4. Fresh(rs, <<>>)  BY <3>3 DEF Fresh
    <3>5. \A s \in Subjects : rs[s] = [elements |-> rs[s].elements, positions |-> rs[s].positions]
      BY DEF RowsSound, NoRow
    <3>6. rs = [s \in Subjects |-> rs[s]]  BY DEF RowsSound
    <3> QED  BY <3>1, <3>2, <3>3, <3>4, <3>5, <3>6 DEF BatchSound
  <2> HIDE DEF Sound
  <2> QED  BY <2>1, <2>2
<1>2. ASSUME NEW m \in Nat, m \in S PROVE m + 1 \in S
  <2>1. SUFFICES ASSUME m + 1 <= Len(items) PROVE Sound(SubSeq(items, 1, m + 1))
    BY <1>0
  <2> DEFINE list == SubSeq(items, 1, m)
             i == items[m + 1]
             acc == Claimed(rs, list)
             built == BulkInserted(rs, acc.out)
             added == Added(rs, list)
  <2>2. list \in Seq(Items) /\ i \in Items /\ SubSeq(items, 1, m + 1) = Append(list, i)
    <3>1. PICK k : k = m + 1 /\ IsNext(items, m, k)  BY <2>1 DEF IsNext
    <3>2. SubSeq(items, 1, m) \in Seq(Items) /\ items[k] \in Items
          /\ SubSeq(items, 1, k) = Append(SubSeq(items, 1, m), items[k])
      <4>1. items \in Seq(Items)  OBVIOUS
      <4>2. IsNext(items, m, k)  BY <3>1
      <4> QED  BY ONLY <4>1, <4>2, PrefixGrows
    <3> QED  BY <3>1, <3>2
  <2>3. Sound(list)  BY <1>0, <1>2, <2>1
  <2>4. BatchSound(rs, acc, built, added)  BY <2>3
  <2>5. Claimed(rs, Append(list, i)) = BulkStep(acc, i) /\ Added(rs, Append(list, i)) = AddOne(added, i)
    <3> HIDE DEF list, i
    <3> QED  BY <2>2, FoldsStep DEF acc, added
  <2>6. CASE Owned(acc.known, Hashed(i.element), i.element) \/ Owned(acc.known, Legacy(i.element), i.element)
    <3>1. BulkStep(acc, i) = acc /\ AddOne(added, i) = added
      <4> HIDE DEF list, i, acc, built, added
      <4> QED  BY <2>2, <2>4, <2>6, ClaimKeeps
    <3> HIDE DEF list, i, acc, added
    <3> QED  BY <2>2, <2>4, <2>5, <3>1
  <2>7. CASE ~(Owned(acc.known, Hashed(i.element), i.element) \/ Owned(acc.known, Legacy(i.element), i.element))
    <3> HIDE DEF list, i, acc, built, added
    <3>1. PICK s \in Subjects :
            /\ BulkStep(acc, i) = [known |-> [acc.known EXCEPT ![s].elements = {i.element}], out |-> Append(acc.out, <<s, i>>)]
            /\ AddOne(added, i) = Inserted(added, s, i)
            /\ SubjectOf(s, i.element) /\ built[s] = NoRow /\ NotPlaced(built, i.element)
      BY <2>2, <2>4, <2>7, ClaimAdds
    <3>2. PICK next : next = BulkStep(acc, i)  OBVIOUS
    <3>3. BatchSound(rs, next, Inserted(built, s, i), Inserted(added, s, i))
      BY <2>2, <2>4, <3>1, <3>2, ClaimSound
    <3>4. next.out = Append(acc.out, <<s, i>>)  BY <3>1, <3>2
    <3>5. BulkInserted(rs, next.out) = Inserted(built, s, i)
      <4>1. acc.out \in Seq(Subjects \X Items) /\ <<s, i>> \in Subjects \X Items  BY <2>2, <2>4 DEF BatchSound
      <4>2. BulkInserted(rs, Append(acc.out, <<s, i>>)) = Inserted(BulkInserted(rs, acc.out), <<s, i>>[1], <<s, i>>[2])
        BY <4>1, FoldsStep
      <4> QED  BY <3>4, <4>2 DEF built
    <3> QED  BY <2>2, <2>5, <3>1, <3>2, <3>3, <3>5
  <2> HIDE DEF Sound, list, i, acc, built, added
  <2> QED  BY <2>6, <2>7
<1>3. Len(items) \in S
  <2> HIDE DEF S
  <2> QED  BY <1>0, <1>1, <1>2, AllNumbers
<1>4. SubSeq(items, 1, Len(items)) = items  OBVIOUS
<1>5. Sound(items)
  <2> HIDE DEF Sound
  <2>1. Sound(SubSeq(items, 1, Len(items)))  BY <1>0, <1>3
  <2> QED  BY <1>4, <2>1
<1> QED  BY <1>5

(* A batch of any length adds what adding its items one by one adds. *)
LEMMA BatchAdds ==
  ASSUME NEW rs, RowsSound(rs), NEW items \in Seq(Items)
  PROVE  /\ BulkInserted(rs, BulkRows(rs, items)) = FoldLeft(AddOne, rs, items)
         /\ Fresh(rs, BulkRows(rs, items))
<1>1. BulkRows(rs, items) = Claimed(rs, items).out  BY DEF BulkRows, Claimed, Start
<1>2. Added(rs, items) = FoldLeft(AddOne, rs, items)  BY DEF Added
<1>3. BatchSound(rs, Claimed(rs, items), BulkInserted(rs, Claimed(rs, items).out), Added(rs, items))  BY BatchHolds
<1> QED  BY <1>1, <1>2, <1>3 DEF BatchSound

\* selectMembers does what addWorkspaceMember, repeated, would do.
LEMMA SoundIsBatch == RowsSound(rows) => BatchIsAddRepeated
<1> SUFFICES ASSUME RowsSound(rows), NEW items \in [1..3 -> [element : Elements, position : Positions]]
             PROVE  BulkInserted(rows, BulkRows(rows, items)) = FoldLeft(AddOne, rows, items)
  BY DEF BatchIsAddRepeated
<1>1. items \in Seq(Items)
  <2>1. items \in [1..3 -> Items] /\ 3 \in Nat  BY DEF Items
  <2>2. [1..3 -> Items] \in {[1..n -> Items] : n \in Nat}  BY <2>1
  <2>3. items \in UNION {[1..n -> Items] : n \in Nat}  BY <2>1, <2>2
  <2> QED  BY <2>3, SeqDef
<1> QED  BY <1>1, BatchAdds

(* A chunk of a batch's rows, and what is left of it. *)
LEMMA ChunkSound ==
  ASSUME NEW rs, NEW out, RowsSound(rs), Fresh(rs, out), NEW n \in Nat, n <= Len(out)
  PROVE  LET new == BulkInserted(rs, SubSeq(out, 1, n))
         IN  RowsSound(new) /\ Fresh(new, SubSeq(out, n + 1, Len(out)))
<1>0. out \in Seq(Subjects \X Items) /\ Len(out) \in Nat /\ DOMAIN out = 1..Len(out)
  <2>1. out \in Seq(Subjects \X Items)  BY DEF Fresh
  <2> QED  BY <2>1
<1> DEFINE After(m) == BulkInserted(rs, SubSeq(out, 1, m))
           Left(m) == \A k \in (m + 1)..Len(out) : /\ After(m)[out[k][1]] = NoRow
                                                   /\ NotPlaced(After(m), out[k][2].element)
           S == {m \in Nat : m <= Len(out) => RowsSound(After(m)) /\ Left(m)}
<1>1. 0 \in S
  <2>1. SubSeq(out, 1, 0) = <<>>  BY <1>0
  <2>2. After(0) = rs  BY <2>1, FoldsStart
  <2> HIDE DEF After
  <2> QED  BY <1>0, <2>2 DEF Fresh
<1>2. ASSUME NEW m \in Nat, m \in S PROVE m + 1 \in S
  <2>1. SUFFICES ASSUME m + 1 <= Len(out) PROVE RowsSound(After(m + 1)) /\ Left(m + 1)
    OBVIOUS
  <2> DEFINE s == out[m + 1][1]
             i == out[m + 1][2]
  <2>2. RowsSound(After(m)) /\ Left(m)  BY <1>0, <1>2, <2>1
  <2>3. m + 1 \in DOMAIN out /\ out[m + 1] = <<s, i>> /\ s \in Subjects /\ i \in Items  BY <1>0, <2>1
  <2>4. After(m + 1) = Inserted(After(m), s, i)
    <3>1. SubSeq(out, 1, m + 1) = Append(SubSeq(out, 1, m), out[m + 1]) /\ SubSeq(out, 1, m) \in Seq(Subjects \X Items)
          /\ out[m + 1] \in Subjects \X Items
      <4>1. PICK k : k = m + 1 /\ IsNext(out, m, k)  BY <2>1 DEF IsNext
      <4>2. SubSeq(out, 1, m) \in Seq(Subjects \X Items) /\ out[k] \in Subjects \X Items
            /\ SubSeq(out, 1, k) = Append(SubSeq(out, 1, m), out[k])
        <5>1. out \in Seq(Subjects \X Items)  BY <1>0
        <5>2. IsNext(out, m, k)  BY <4>1
        <5> QED  BY ONLY <5>1, <5>2, PrefixGrows
      <4> QED  BY <4>1, <4>2
    <3> QED  BY <3>1, FoldsStep
  <2> HIDE DEF After
  <2>5. After(m)[s] = NoRow /\ NotPlaced(After(m), i.element) /\ SubjectOf(s, i.element)
    <3>1. m + 1 \in (m + 1)..Len(out)  BY <1>0, <2>1
    <3> QED  BY <2>2, <2>3, <3>1 DEF Fresh
  <2> HIDE DEF s, i
  <2>6. /\ RowsSound(After(m + 1))
        /\ After(m + 1)[s] = [elements |-> {i.element}, positions |-> {i.position}]
        /\ \A t \in Subjects \ {s} : After(m + 1)[t] = After(m)[t]
    BY <2>2, <2>3, <2>4, <2>5, InsertSound
  <2>7. ASSUME NEW k \in (m + 2)..Len(out)
        PROVE  After(m + 1)[out[k][1]] = NoRow /\ NotPlaced(After(m + 1), out[k][2].element)
    <3>1. k \in (m + 1)..Len(out) /\ k \in DOMAIN out /\ k # m + 1  BY <1>0
    <3>2. out[k][1] # s /\ out[k][2].element # i.element  BY <2>3, <3>1 DEF Fresh, s, i
    <3>3. out[k][1] \in Subjects  BY <1>0, <3>1
    <3>4. After(m)[out[k][1]] = NoRow /\ NotPlaced(After(m), out[k][2].element)  BY <2>2, <3>1
    <3>5. After(m + 1)[out[k][1]] = NoRow  BY <2>6, <3>2, <3>3, <3>4
    <3>6. NotPlaced(After(m + 1), out[k][2].element)  BY <2>6, <3>2, <3>4 DEF NotPlaced, Owned
    <3> QED  BY <3>5, <3>6
  <2>8. Left(m + 1)
    <3>1. (m + 1) + 1 = m + 2  OBVIOUS
    <3> QED  BY <2>7, <3>1
  <2> QED  BY <2>6, <2>8
<1>3. RowsSound(After(n)) /\ Left(n)
  <2>1. n \in S
    <3> HIDE DEF S
    <3> QED  BY <1>1, <1>2, AllNumbers
  <2> QED  BY <2>1
<1> DEFINE rest == SubSeq(out, n + 1, Len(out))
<1>4. rest \in Seq(Subjects \X Items) /\ DOMAIN rest = 1..(Len(out) - n) /\ \A k \in DOMAIN rest : rest[k] = out[n + k]
  BY <1>0
<1> HIDE DEF After, rest
<1>5. \A k \in DOMAIN rest : n + k \in (n + 1)..Len(out) /\ n + k \in DOMAIN out  BY <1>0, <1>4
<1>6. Fresh(After(n), rest)
  <2>1. \A k \in DOMAIN rest : /\ SubjectOf(rest[k][1], rest[k][2].element)
                               /\ After(n)[rest[k][1]] = NoRow /\ NotPlaced(After(n), rest[k][2].element)
    BY <1>3, <1>4, <1>5 DEF Fresh
  <2>2. ASSUME NEW k \in DOMAIN rest, NEW l \in DOMAIN rest,
               rest[k][1] = rest[l][1] \/ rest[k][2].element = rest[l][2].element
        PROVE  k = l
    <3>1. n + k = n + l  BY <1>4, <1>5, <2>2 DEF Fresh
    <3> QED  BY <1>4, <3>1
  <2> QED  BY <1>4, <2>1, <2>2 DEF Fresh
<1> QED  BY <1>3, <1>6 DEF After, rest

-----------------------------------------------------------------------------
(***************************************************************************)
(* Placing.  One call of the connector at a time: what it has found out is *)
(* still true when it writes.                                              *)
(***************************************************************************)
SingleCall == \A c, d \in Calls : c = d

\* The subject a call has found for an element: nobody else's, and the element has no other.
Slot(rs, s, e) ==
  /\ SubjectOf(s, e) /\ rs[s].elements \subseteq {e}
  /\ \A t \in Subjects : Owned(rs, t, e) => t = s

\* The record of a call.
Record(pc, op, items, s) == [pc |-> pc, op |-> op, items |-> items, subject |-> s]

\* A call by how far it is.
Asking(rs, k) ==
  \E op \in {"add", "update"}, i \in Items :
    \/ k = Record("hashed?", op, <<i>>, "none")
    \/ k = Record("legacy?", op, <<i>>, "none") /\ ~Owned(rs, Hashed(i.element), i.element)
    \/ k = Record("taken?", op, <<i>>, "none") /\ ~Owned(rs, Hashed(i.element), i.element)
                                               /\ ~Owned(rs, Legacy(i.element), i.element)

\* A call that writes has a subject it may write under.
Placed(rs, k) ==
  \E i \in Items, s \in Subjects :
    /\ Slot(rs, s, i.element)
    /\ \/ k = Record("exists?", "add", <<i>>, s)
       \/ k = Record("write", "add", <<i>>, s) /\ ~Owned(rs, s, i.element)
       \/ k = Record("write", "update", <<i>>, s)

\* A batch has subjects it may insert.
Batch(rs, k) == \E out : k = Record("write", "bulk", out, "none") /\ Fresh(rs, out)

\* What a call has learnt from the store is true of the rows.
CallSound(rs, k) == k = Idle \/ Asking(rs, k) \/ Placed(rs, k) \/ Batch(rs, k)

\* The rows and the calls: the inductive invariant.
Placing ==
  /\ RowsSound(rows)
  /\ call = [c \in Calls |-> call[c]]
  /\ \A c \in Calls : CallSound(rows, call[c])

\* Fewer rows, and what a call knows of them stays true.
LEMMA FewerKeeps ==
  ASSUME NEW rs, RowsSound(rs), NEW new, new = [s \in Subjects |-> new[s]],
         \A s \in Subjects : new[s] = NoRow \/ new[s] = rs[s], NEW k, CallSound(rs, k)
  PROVE  RowsSound(new) /\ CallSound(new, k)
<1>1. RowsSound(new)  BY FewerSound
<1>2. \A s \in Subjects : \A e : Owned(new, s, e) => Owned(rs, s, e)  BY DEF Owned, NoRow
<1>3. CASE k = Idle  BY <1>1, <1>3 DEF CallSound
<1>4. CASE Asking(rs, k)
  <2>1. \A e \in Elements : Hashed(e) \in Subjects /\ Legacy(e) \in Subjects  BY SubjectsAre
  <2>2. \A i \in Items : i.element \in Elements  BY DEF Items
  <2>3. Asking(new, k)  BY <1>2, <1>4, <2>1, <2>2 DEF Asking
  <2> QED  BY <1>1, <2>3 DEF CallSound
<1>5. CASE Placed(rs, k)
  <2>1. \A s \in Subjects : \A e : Slot(rs, s, e) => Slot(new, s, e)
    <3>1. SUFFICES ASSUME NEW s \in Subjects, NEW e, Slot(rs, s, e) PROVE Slot(new, s, e)  OBVIOUS
    <3>2. new[s].elements \subseteq {e}  BY <3>1 DEF Slot, NoRow
    <3> QED  BY <1>2, <3>1, <3>2 DEF Slot
  <2>2. Placed(new, k)  BY <1>2, <1>5, <2>1 DEF Placed
  <2> QED  BY <1>1, <2>2 DEF CallSound
<1>6. CASE Batch(rs, k)
  <2>1. PICK out : k = Record("write", "bulk", out, "none") /\ Fresh(rs, out)  BY <1>6 DEF Batch
  <2>2. out \in Seq(Subjects \X Items)  BY <2>1 DEF Fresh
  <2>3. \A n \in DOMAIN out : out[n][1] \in Subjects  BY <2>2
  <2>4. \A n \in DOMAIN out : new[out[n][1]] = NoRow /\ NotPlaced(new, out[n][2].element)
    BY <1>2, <2>1, <2>3 DEF Fresh, NotPlaced
  <2>5. Fresh(new, out)  BY <2>1, <2>4 DEF Fresh
  <2>6. Batch(new, k)  BY <2>1, <2>5 DEF Batch
  <2> QED  BY <1>1, <2>6 DEF CallSound
<1> QED  BY <1>3, <1>4, <1>5, <1>6 DEF CallSound

\* With one call at a time it is enough to look at the one that makes the step.
LEMMA OneCall ==
  ASSUME SingleCall, NEW c \in Calls, RowsSound(rows'), call' = [d \in Calls |-> call'[d]], CallSound(rows', call'[c])
  PROVE  Placing'
<1>1. \A d \in Calls : d = c  BY DEF SingleCall
<1>2. \A d \in Calls : CallSound(rows', call'[d])  BY <1>1
<1>3. (\A d \in Calls : CallSound(rows, call[d]))' <=> \A d \in Calls : CallSound(rows', call'[d])
  OBVIOUS
<1>4. RowsSound(rows)' <=> RowsSound(rows')  OBVIOUS
<1> QED  BY <1>2, <1>3, <1>4 DEF Placing

\* What an assignment to fields of a call makes of it.
LEMMA AskCall ==
  ASSUME call = [d \in Calls |-> call[d]], NEW c \in Calls, NEW op, NEW items, NEW s, NEW pc, NEW p,
         call[c] = Record(pc, op, items, s), Ask(c, p)
  PROVE  call' = [d \in Calls |-> call'[d]] /\ call'[c] = Record(p, op, items, s)
<1>1. PICK k : k = call[c] /\ k = Record(pc, op, items, s)  OBVIOUS
<1>2. [k EXCEPT !.pc = p] = Record(p, op, items, s)  
  <2>1. k = Record(pc, op, items, s)  BY <1>1
  <2> QED  BY ONLY <2>1 DEF Record
<1>3. call' = [call EXCEPT ![c] = [call[c] EXCEPT !.pc = p]]  BY DEF Ask
<1>4. call' = [call EXCEPT ![c] = Record(p, op, items, s)]  BY <1>1, <1>2, <1>3
<1> QED  BY <1>4

\* What finding a subject makes of it.
LEMMA FoundCall ==
  ASSUME call = [d \in Calls |-> call[d]], NEW c \in Calls, NEW op, NEW items, NEW s, NEW pc, NEW t,
         call[c] = Record(pc, op, items, s), Found(c, t)
  PROVE  call' = [d \in Calls |-> call'[d]] /\ call'[c] = Record(Write[op], op, items, t)
<1>1. PICK k : k = call[c] /\ k = Record(pc, op, items, s)  OBVIOUS
<1>2. PICK p : p = Write[op] /\ p = Write[k.op]
  <2>1. k.op = op  BY <1>1 DEF Record
  <2> QED  BY <2>1
<1>3. PICK m : m = [k EXCEPT !.pc = p]  OBVIOUS
<1>4. m = Record(p, op, items, s)
  <2>1. k = Record(pc, op, items, s) /\ m = [k EXCEPT !.pc = p]  BY <1>1, <1>3
  <2> QED  BY ONLY <2>1 DEF Record
<1>5. [m EXCEPT !.subject = t] = Record(p, op, items, t)
  <2>1. m = Record(p, op, items, s)  BY <1>4
  <2> QED  BY ONLY <2>1 DEF Record
<1>6. call' = [call EXCEPT ![c].pc = p, ![c].subject = t]  BY <1>1, <1>2 DEF Found
<1>7. call' = [call EXCEPT ![c] = [[call[c] EXCEPT !.pc = p] EXCEPT !.subject = t]]
  BY <1>6
<1>8. call' = [call EXCEPT ![c] = Record(p, op, items, t)]  BY <1>1, <1>3, <1>5, <1>7
<1> QED  BY <1>2, <1>8

\* A subject that has the element is its slot.
LEMMA OwnedSlot ==
  ASSUME NEW rs, RowsSound(rs), NEW e \in Elements, NEW s, SubjectOf(s, e), Owned(rs, s, e)
  PROVE  Slot(rs, s, e) /\ s \in Subjects
<1>1. s \in Subjects  BY SubjectsAre DEF SubjectOf
<1>2. rs[s] # NoRow  BY DEF Owned, NoRow
<1>3. rs[s].elements \subseteq {e}  BY <1>1, <1>2 DEF RowsSound, Owned
<1>4. \A t \in Subjects : Owned(rs, t, e) => t = s  BY <1>1 DEF RowsSound
<1> QED  BY <1>1, <1>3, <1>4 DEF Slot

\* The call's record, by the pc at which it makes a step.
LEMMA CallAt ==
  ASSUME NEW rs, NEW k, CallSound(rs, k)
  PROVE  /\ k.pc = "hashed?" => \E op \in {"add", "update"}, i \in Items : k = Record("hashed?", op, <<i>>, "none")
         /\ k.pc = "legacy?" => \E op \in {"add", "update"}, i \in Items :
              k = Record("legacy?", op, <<i>>, "none") /\ ~Owned(rs, Hashed(i.element), i.element)
         /\ k.pc = "taken?" => \E op \in {"add", "update"}, i \in Items :
              /\ k = Record("taken?", op, <<i>>, "none") /\ ~Owned(rs, Hashed(i.element), i.element)
              /\ ~Owned(rs, Legacy(i.element), i.element)
         /\ k.pc = "exists?" => \E i \in Items, s \in Subjects :
              k = Record("exists?", "add", <<i>>, s) /\ Slot(rs, s, i.element)
         /\ k.pc = "write" /\ k.op # "bulk" => \E i \in Items, s \in Subjects :
              /\ Slot(rs, s, i.element)
              /\ \/ k = Record("write", "add", <<i>>, s) /\ ~Owned(rs, s, i.element)
                 \/ k = Record("write", "update", <<i>>, s)
         /\ k.pc = "write" /\ k.op = "bulk" => \E out : k = Record("write", "bulk", out, "none") /\ Fresh(rs, out)
<1>0. \A pc, op, items, s : Record(pc, op, items, s).pc = pc /\ Record(pc, op, items, s).op = op  BY DEF Record
<1>1. Idle.pc = "idle"  BY DEF Idle
<1>2. CASE k = Idle  BY <1>1, <1>2
<1>3. CASE Asking(rs, k)
  <2>1. PICK op \in {"add", "update"}, i \in Items :
          \/ k = Record("hashed?", op, <<i>>, "none")
          \/ k = Record("legacy?", op, <<i>>, "none") /\ ~Owned(rs, Hashed(i.element), i.element)
          \/ k = Record("taken?", op, <<i>>, "none") /\ ~Owned(rs, Hashed(i.element), i.element)
                                                     /\ ~Owned(rs, Legacy(i.element), i.element)
    BY <1>3 DEF Asking
  <2>2. CASE k = Record("hashed?", op, <<i>>, "none")
    <3>1. k.pc = "hashed?"  BY <1>0, <2>2
    <3> QED  BY <2>2, <3>1
  <2>3. CASE k = Record("legacy?", op, <<i>>, "none") /\ ~Owned(rs, Hashed(i.element), i.element)
    <3>1. k.pc = "legacy?"  BY <1>0, <2>3
    <3> QED  BY <2>3, <3>1
  <2>4. CASE k = Record("taken?", op, <<i>>, "none") /\ ~Owned(rs, Hashed(i.element), i.element)
             /\ ~Owned(rs, Legacy(i.element), i.element)
    <3>1. k.pc = "taken?"  BY <1>0, <2>4
    <3> QED  BY <2>4, <3>1
  <2> QED  BY <2>1, <2>2, <2>3, <2>4
<1>4. CASE Placed(rs, k)  BY <1>0, <1>4 DEF Placed
<1>5. CASE Batch(rs, k)  BY <1>0, <1>5 DEF Batch
<1> QED  BY <1>2, <1>3, <1>4, <1>5 DEF CallSound

\* The fields of a call about one item.
LEMMA CallsItem ==
  ASSUME NEW c, NEW pc, NEW op, NEW i, NEW s, call[c] = Record(pc, op, <<i>>, s)
  PROVE  E(c) = i.element /\ call[c].items[1] = i /\ call[c].subject = s /\ call[c].op = op /\ call[c].pc = pc
  BY DEF E, Record

\* The request for the hashed subject.
LEMMA AskHashedKeeps == ASSUME SingleCall, Placing, NEW c \in Calls, AskHashed(c) PROVE Placing'
<1>1. PICK op \in {"add", "update"}, i \in Items : call[c] = Record("hashed?", op, <<i>>, "none")
  BY CallAt DEF AskHashed, Placing
<1>2. E(c) = i.element /\ i.element \in Elements  BY <1>1, CallsItem DEF Items
<1>3. rows' = rows /\ RowsSound(rows')  BY DEF AskHashed, Placing
<1>4. CASE Owned(rows, Hashed(E(c)), E(c))
  <2>1. Found(c, Hashed(i.element))  BY <1>2, <1>4 DEF AskHashed
  <2>2. call' = [d \in Calls |-> call'[d]] /\ call'[c] = Record(Write[op], op, <<i>>, Hashed(i.element))
    BY <1>1, <2>1, FoundCall DEF Placing
  <2>3. Slot(rows, Hashed(i.element), i.element) /\ Hashed(i.element) \in Subjects
    BY <1>2, <1>4, OwnedSlot DEF Placing, SubjectOf
  <2>4. Write[op] = (IF op = "add" THEN "exists?" ELSE "write")  BY DEF Write
  <2>5. CallSound(rows', call'[c])  BY <1>3, <2>2, <2>3, <2>4 DEF CallSound, Placed
  <2> QED  BY <1>3, <2>2, <2>5, OneCall
<1>5. CASE ~Owned(rows, Hashed(E(c)), E(c))
  <2>1. Ask(c, "legacy?")  BY <1>5 DEF AskHashed
  <2>2. call' = [d \in Calls |-> call'[d]] /\ call'[c] = Record("legacy?", op, <<i>>, "none")
    <3>1. PICK o, items, was, none :
            o = op /\ items = <<i>> /\ none = "none" /\ call[c] = Record(was, o, items, none)
      BY <1>1
    <3>2. call = [d \in Calls |-> call[d]]  BY DEF Placing
    <3>3. call[c] = Record(was, o, items, none)  BY <3>1
    <3>4. c \in Calls  OBVIOUS
    <3>5. call' = [d \in Calls |-> call'[d]] /\ call'[c] = Record("legacy?", o, items, none)
      BY ONLY <2>1, <3>2, <3>3, <3>4, AskCall
    <3> QED  BY <3>1, <3>5
  <2>3. CallSound(rows', call'[c])  BY <1>2, <1>3, <1>5, <2>2 DEF CallSound, Asking
  <2> QED  BY <1>3, <2>2, <2>3, OneCall
<1> QED  BY <1>4, <1>5

\* The request for the subject made of the local name.
LEMMA AskLegacyKeeps == ASSUME SingleCall, Placing, NEW c \in Calls, AskLegacy(c) PROVE Placing'
<1>1. PICK op \in {"add", "update"}, i \in Items :
        call[c] = Record("legacy?", op, <<i>>, "none") /\ ~Owned(rows, Hashed(i.element), i.element)
  BY CallAt DEF AskLegacy, Placing
<1>2. E(c) = i.element /\ i.element \in Elements  BY <1>1, CallsItem DEF Items
<1>3. rows' = rows /\ RowsSound(rows')  BY DEF AskLegacy, Placing
<1>4. CASE Owned(rows, Legacy(E(c)), E(c))
  <2>1. Found(c, Legacy(i.element))  BY <1>2, <1>4 DEF AskLegacy
  <2>2. call' = [d \in Calls |-> call'[d]] /\ call'[c] = Record(Write[op], op, <<i>>, Legacy(i.element))
    BY <1>1, <2>1, FoundCall DEF Placing
  <2>3. Slot(rows, Legacy(i.element), i.element) /\ Legacy(i.element) \in Subjects
    BY <1>2, <1>4, OwnedSlot DEF Placing, SubjectOf
  <2>4. Write[op] = (IF op = "add" THEN "exists?" ELSE "write")  BY DEF Write
  <2>5. CallSound(rows', call'[c])  BY <1>3, <2>2, <2>3, <2>4 DEF CallSound, Placed
  <2> QED  BY <1>3, <2>2, <2>5, OneCall
<1>5. CASE ~Owned(rows, Legacy(E(c)), E(c))
  <2>1. Ask(c, "taken?")  BY <1>5 DEF AskLegacy
  <2>2. call' = [d \in Calls |-> call'[d]] /\ call'[c] = Record("taken?", op, <<i>>, "none")
    <3>1. PICK o, items, was, none :
            o = op /\ items = <<i>> /\ none = "none" /\ call[c] = Record(was, o, items, none)
      BY <1>1
    <3>2. call = [d \in Calls |-> call[d]]  BY DEF Placing
    <3>3. call[c] = Record(was, o, items, none)  BY <3>1
    <3>4. c \in Calls  OBVIOUS
    <3>5. call' = [d \in Calls |-> call'[d]] /\ call'[c] = Record("taken?", o, items, none)
      BY ONLY <2>1, <3>2, <3>3, <3>4, AskCall
    <3> QED  BY <3>1, <3>5
  <2>3. CallSound(rows', call'[c])  BY <1>1, <1>2, <1>3, <1>5, <2>2 DEF CallSound, Asking
  <2> QED  BY <1>3, <2>2, <2>3, OneCall
<1> QED  BY <1>4, <1>5

\* The request whether another element has that subject.
LEMMA AskTakenKeeps == ASSUME SingleCall, Placing, NEW c \in Calls, AskTaken(c) PROVE Placing'
<1>1. PICK op \in {"add", "update"}, i \in Items :
        /\ call[c] = Record("taken?", op, <<i>>, "none") /\ ~Owned(rows, Hashed(i.element), i.element)
        /\ ~Owned(rows, Legacy(i.element), i.element)
  BY CallAt DEF AskTaken, Placing
<1>2. E(c) = i.element /\ i.element \in Elements  BY <1>1, CallsItem DEF Items
<1>3. rows' = rows /\ RowsSound(rows') /\ RowsSound(rows)  BY DEF AskTaken, Placing
<1>4. PICK s : s = IF Taken(rows, Legacy(i.element)) THEN Hashed(i.element) ELSE Legacy(i.element)  OBVIOUS
<1>5. Found(c, s)  BY <1>2, <1>4 DEF AskTaken
<1>6. call' = [d \in Calls |-> call'[d]] /\ call'[c] = Record(Write[op], op, <<i>>, s)
  BY <1>1, <1>5, FoundCall DEF Placing
<1>7. s \in Subjects /\ SubjectOf(s, i.element)  BY <1>2, <1>4, SubjectsAre DEF SubjectOf
<1>8. rows[s] = NoRow  BY <1>1, <1>2, <1>3, <1>4, OwnRows
<1>9. NotPlaced(rows, i.element)
  <2>1. \A t \in Subjects : Owned(rows, t, i.element) => SubjectOf(t, i.element)  BY <1>2, <1>3, OwnRows
  <2> QED  BY <1>1, <2>1 DEF NotPlaced, SubjectOf
<1>10. Slot(rows, s, i.element)  BY <1>7, <1>8, <1>9 DEF Slot, NotPlaced, NoRow
<1>11. Write[op] = (IF op = "add" THEN "exists?" ELSE "write")  BY DEF Write
<1>12. CallSound(rows', call'[c])  BY <1>3, <1>6, <1>7, <1>10, <1>11 DEF CallSound, Placed
<1> QED  BY <1>3, <1>6, <1>12, OneCall

\* The request whether there is a row to keep.
LEMMA AskExistsKeeps == ASSUME SingleCall, Placing, NEW c \in Calls, AskExists(c) PROVE Placing'
<1>1. PICK i \in Items, s \in Subjects : call[c] = Record("exists?", "add", <<i>>, s) /\ Slot(rows, s, i.element)
  BY CallAt DEF AskExists, Placing
<1>2. E(c) = i.element /\ call[c].subject = s  BY <1>1, CallsItem
<1>3. rows' = rows /\ RowsSound(rows')  BY DEF AskExists, Placing
<1>4. CASE Owned(rows, call[c].subject, E(c))
  <2>1. call' = [call EXCEPT ![c] = Idle]  BY <1>4 DEF AskExists
  <2>2. call' = [d \in Calls |-> call'[d]] /\ call'[c] = Idle  BY <2>1 DEF Placing
  <2> QED  BY <1>3, <2>2, OneCall DEF CallSound
<1>5. CASE ~Owned(rows, call[c].subject, E(c))
  <2>1. Ask(c, "write")  BY <1>5 DEF AskExists
  <2>2. call' = [d \in Calls |-> call'[d]] /\ call'[c] = Record("write", "add", <<i>>, s)
    BY <1>1, <2>1, AskCall DEF Placing
  <2>3. CallSound(rows', call'[c])  BY <1>1, <1>2, <1>3, <1>5, <2>2 DEF CallSound, Placed
  <2> QED  BY <1>3, <2>2, <2>3, OneCall
<1> QED  BY <1>4, <1>5

\* The update of one row.
LEMMA WriteRowKeeps == ASSUME SingleCall, Placing, NEW c \in Calls, WriteRow(c) PROVE Placing'
<1>1. PICK i \in Items, s \in Subjects :
        /\ Slot(rows, s, i.element)
        /\ \/ call[c] = Record("write", "add", <<i>>, s) /\ ~Owned(rows, s, i.element)
           \/ call[c] = Record("write", "update", <<i>>, s)
  BY CallAt DEF WriteRow, Placing
<1>2. call' = [d \in Calls |-> call'[d]] /\ call'[c] = Idle  BY DEF WriteRow, Placing
<1>3. RowsSound(rows)  BY DEF Placing
<1>4. RowsSound(rows')
  <2>1. CASE call[c] = Record("write", "add", <<i>>, s) /\ ~Owned(rows, s, i.element)
    <3>1. call[c].items[1] = i /\ call[c].subject = s /\ call[c].op = "add"  BY <2>1, CallsItem
    <3>2. rows' = Inserted(rows, s, i)  BY <3>1 DEF WriteRow
    <3>3. rows[s] = NoRow
      <4>1. rows[s].elements = {}  BY <1>1, <2>1 DEF Slot, Owned
      <4> QED  BY <1>3, <4>1 DEF RowsSound
    <3>4. NotPlaced(rows, i.element)  BY <1>1, <2>1 DEF Slot, NotPlaced
    <3>5. SubjectOf(s, i.element)  BY <1>1 DEF Slot
    <3> QED  BY <1>3, <3>2, <3>3, <3>4, <3>5, InsertSound
  <2>2. CASE call[c] = Record("write", "update", <<i>>, s)
    <3>1. call[c].items[1] = i /\ call[c].subject = s /\ call[c].op = "update"  BY <2>2, CallsItem
    <3>2. rows' = Replaced(rows, s, i)  BY <3>1 DEF WriteRow
    <3> QED  BY <1>1, <1>3, <3>2, ReplaceSound DEF Slot
  <2> QED  BY <1>1, <2>1, <2>2
<1> QED  BY <1>2, <1>4, OneCall DEF CallSound

\* The update of one chunk of a batch.
LEMMA InsertChunkKeeps == ASSUME SingleCall, Placing, NEW c \in Calls, InsertChunk(c) PROVE Placing'
<1>1. PICK out : call[c] = Record("write", "bulk", out, "none") /\ Fresh(rows, out)
  BY CallAt DEF InsertChunk, Placing
<1>2. call[c].items = out  BY <1>1 DEF Record
<1>3. Len(out) \in Nat
  <2>1. out \in Seq(Subjects \X Items)  BY <1>1 DEF Fresh
  <2> QED  BY <2>1
<1>4. PICK n : n = IF Len(out) <= ChunkSize THEN Len(out) ELSE ChunkSize  OBVIOUS
<1>5. n \in Nat /\ n <= Len(out)  BY <1>3, <1>4, MembershipAssumption
<1>6. PICK rest : rest = SubSeq(out, n + 1, Len(out))  OBVIOUS
<1>7. rows' = BulkInserted(rows, SubSeq(out, 1, n))  BY <1>2, <1>4 DEF InsertChunk
<1>8. call' = [call EXCEPT ![c] = IF rest = <<>> THEN Idle ELSE [@ EXCEPT !.items = rest]]
  BY <1>2, <1>4, <1>6 DEF InsertChunk
<1>9. RowsSound(rows') /\ Fresh(rows', rest)
  <2>1. RowsSound(rows)  BY DEF Placing
  <2> QED  BY <1>1, <1>5, <1>6, <1>7, <2>1, ChunkSound
<1>10. call' = [d \in Calls |-> call'[d]] /\ call'[c] = IF rest = <<>> THEN Idle ELSE Record("write", "bulk", rest, "none")
  <2>1. PICK k : k = call[c] /\ k = Record("write", "bulk", out, "none")  BY <1>1
  <2>2. [k EXCEPT !.items = rest] = Record("write", "bulk", rest, "none")
    <3>1. k = Record("write", "bulk", out, "none")  BY <2>1
    <3> QED  BY ONLY <3>1 DEF Record
  <2>3. call' = [call EXCEPT ![c] = IF rest = <<>> THEN Idle ELSE Record("write", "bulk", rest, "none")]
    BY <1>8, <2>1, <2>2
  <2> QED  BY <2>3 DEF Placing
<1>11. CallSound(rows', call'[c])  BY <1>9, <1>10 DEF CallSound, Batch
<1> QED  BY <1>9, <1>10, <1>11, OneCall

\* A call begins.
LEMMA StartKeeps ==
  ASSUME SingleCall, Placing, NEW c \in Calls, NEW op \in {"add", "update"}, NEW i \in Items,
         Started(c, op, i.element, i.position), UNCHANGED rows
  PROVE  Placing'
<1>1. Item(i.element, i.position) = i  BY DEF Item, Items
<1>2. call' = [call EXCEPT ![c] = Record("hashed?", op, <<i>>, "none")]  BY <1>1 DEF Started, Begin, Record
<1>3. call' = [d \in Calls |-> call'[d]] /\ call'[c] = Record("hashed?", op, <<i>>, "none")  BY <1>2 DEF Placing
<1>4. RowsSound(rows')  BY DEF Placing
<1>5. CallSound(rows', call'[c])  BY <1>3 DEF CallSound, Asking
<1> QED  BY <1>3, <1>4, <1>5, OneCall

\* A batch begins, with its subjects chosen at once.
LEMMA SelectKeeps ==
  ASSUME SingleCall, Placing, NEW c \in Calls, NEW items \in Seq(Items), SelectMembers(c, items)
  PROVE  Placing'
<1>1. RowsSound(rows) /\ rows' = rows  BY DEF Placing, SelectMembers
<1>2. Fresh(rows, BulkRows(rows, items))  BY <1>1, BatchAdds
<1>3. call' = [call EXCEPT ![c] = Record("write", "bulk", BulkRows(rows, items), "none")]
  BY DEF SelectMembers, Begin, Record
<1>4. call' = [d \in Calls |-> call'[d]] /\ call'[c] = Record("write", "bulk", BulkRows(rows, items), "none")
  BY <1>3 DEF Placing
<1>5. CallSound(rows', call'[c])  BY <1>1, <1>2, <1>4 DEF CallSound, Batch
<1> QED  BY <1>1, <1>4, <1>5, OneCall

\* Rows that go away make nothing false.
LEMMA FewerRowsKeep ==
  ASSUME Placing, UNCHANGED call, rows' = [s \in Subjects |-> rows'[s]],
         \A s \in Subjects : rows'[s] = NoRow \/ rows'[s] = rows[s]
  PROVE  Placing'
<1>1. RowsSound(rows) /\ \A d \in Calls : CallSound(rows, call[d])  BY DEF Placing
<1>2. PICK new : new = rows'  OBVIOUS
<1>3. \A d \in Calls : CallSound(new, call[d])  BY <1>1, <1>2, FewerKeeps
<1>4. RowsSound(new)  BY <1>1, <1>2, FewerSound
<1>5. call' = [d \in Calls |-> call'[d]]  BY DEF Placing
<1>6. (\A d \in Calls : CallSound(rows, call[d]))' <=> \A d \in Calls : CallSound(rows', call[d])  OBVIOUS
<1> QED  BY <1>2, <1>3, <1>4, <1>5, <1>6 DEF Placing

\* As when a member is removed.
LEMMA RemoveKeeps == ASSUME Placing, NEW c, NEW e, RemoveMember(c, e) PROVE Placing'
<1>1. rows' = [s \in Subjects |-> IF Owned(rows, s, e) THEN NoRow ELSE rows[s]] /\ UNCHANGED call
  BY DEF RemoveMember, Removed
<1> QED  BY <1>1, FewerRowsKeep

\* And when a save of the default schema graph takes all rows away.
LEMMA SaveKeeps == ASSUME Placing, SaveWrites PROVE Placing'
<1>1. rows' = [r \in Subjects |-> NoRow] \/ rows' = rows  BY DEF SaveWrites
<1>2. UNCHANGED call  BY DEF SaveWrites
<1> QED  BY <1>1, <1>2, FewerRowsKeep DEF Placing, RowsSound

\* A call that fails knows nothing.
LEMMA FailKeeps == ASSUME SingleCall, Placing, NEW c \in Calls, Fail(c) PROVE Placing'
<1>1. call' = [d \in Calls |-> call'[d]] /\ call'[c] = Idle /\ RowsSound(rows')  BY DEF Fail, Placing
<1> QED  BY <1>1, OneCall DEF CallSound

\* What a user begins.
LEMMA UserCallKeeps == ASSUME SingleCall, Placing, NEW c \in Calls, UserCall(c) PROVE Placing'
<1>1. ASSUME NEW e \in Elements, NEW p \in Positions, NEW op \in {"add", "update"}, Resolve(c, op, e, p)
      PROVE  Placing'
  <2>1. PICK i : i = Item(e, p)  OBVIOUS
  <2>2. i \in Items /\ i.element = e /\ i.position = p  BY <2>1 DEF Item, Items
  <2>3. Started(c, op, i.element, i.position) /\ UNCHANGED rows  BY <1>1, <2>2 DEF Resolve
  <2> QED  BY <2>2, <2>3, StartKeeps
<1>2. ASSUME NEW e \in Elements, NEW f \in Elements, NEW p \in Positions, NEW q \in Positions,
             SelectMembers(c, Item2(e, f, p, q))
      PROVE  Placing'
  <2>1. Item2(e, f, p, q) \in Seq(Items)
    <3>1. Item(e, p) \in Items /\ Item(f, q) \in Items  BY DEF Item, Items
    <3> QED  BY <3>1 DEF Item2
  <2>2. PICK items \in Seq(Items) : SelectMembers(c, items)  BY <1>2, <2>1
  <2> QED  BY <2>2, SelectKeeps
<1> QED  BY <1>1, <1>2, RemoveKeeps DEF UserCall

\* What is to be placed by an import: members of its file.
MembersSound ==
  /\ \A f \in files : f.members \subseteq Items
  /\ job.pc # "idle" => job.file.members \subseteq Items
  /\ job.pc \in {"members", "adding"} => job.todo \subseteq Items

\* With one call at a time every step keeps what calls know true.
LEMMA StepPlacing ==
  ASSUME SingleCall, MembersSound, Placing, [TransferNext]_allVars
  PROVE  Placing'
<1>0. UNCHANGED <<rows, call>> => Placing'
  <2>1. ASSUME UNCHANGED <<rows, call>> PROVE Placing'
    <3>1. \A s \in Subjects : rows'[s] = rows[s]  BY <2>1
    <3> QED  BY <2>1, <3>1, FewerRowsKeep DEF Placing, RowsSound
  <2> QED  BY <2>1
<1>1. CASE SaveWrites  BY <1>1, SaveKeeps
<1>2. ASSUME NEW c \in Calls, MemberStep(c) PROVE Placing'
  <2>1. UserCall(c) \/ OwnRequest(c)  BY <1>2 DEF MemberStep
  <2> QED
    BY <2>1, UserCallKeeps, AskHashedKeeps, AskLegacyKeeps, AskTakenKeeps, AskExistsKeeps, WriteRowKeeps, InsertChunkKeeps
    DEF OwnRequest
<1>3. ASSUME NEW c \in Calls, CallFails(c) PROVE Placing'  BY <1>3, FailKeeps DEF CallFails
<1>4. ASSUME NEW c \in Calls, AddMember(c) PROVE Placing'
  <2>1. PICK i \in job.todo : Started(c, "add", i.element, i.position) /\ UNCHANGED rows  BY <1>4 DEF AddMember
  <2>2. i \in Items  BY <1>4, <2>1 DEF AddMember, MembersSound
  <2> QED  BY <2>1, <2>2, StartKeeps
<1>5. CASE UNCHANGED allVars  BY <1>0, <1>5 DEF allVars
<1>6. CASE Export  BY <1>0, <1>6 DEF Export
<1>7. ASSUME NEW f, ImportBundle(f) PROVE Placing'  BY <1>0, <1>7 DEF ImportBundle
<1>8. ASSUME NEW doc, NEW n, ImportFile(doc, n) PROVE Placing'  BY <1>0, <1>8 DEF ImportFile
<1>9. CASE JobOnly \/ JobWrites
  <2>1. RestUnchanged
    BY <1>9 DEF JobOnly, JobWrites, Register, Group, Find, Fetch, WriteGroup, EnsureWorkspace, MemberAdded, NotesNext,
                EnsureNote, Finish, ImportFails
  <2> QED  BY <1>0, <2>1 DEF RestUnchanged
<1>10. ASSUME NEW iri, NEW ns, Open(iri, ns) PROVE Placing'  BY <1>0, <1>10 DEF Open
<1>11. CASE Close \/ SaveFails  BY <1>0, <1>11 DEF Close, SaveFails
<1>12. ASSUME NEW l, Loaded(l) \/ LoadFails(l) PROVE Placing'  BY <1>0, <1>12 DEF Loaded, LoadFails, PanelOnly
<1>13. ASSUME NEW tab, NEW text, Save(tab, text) PROVE Placing'  BY <1>0, <1>13 DEF Save
<1> QED
  BY <1>1, <1>2, <1>3, <1>4, <1>5, <1>6, <1>7, <1>8, <1>9, <1>10, <1>11, <1>12, <1>13
  DEF TransferNext, JobOnly, JobWrites

\* Exported are the rows' items.
LEMMA ExportMembers ==
  ASSUME RowsSound(rows), NEW f \in Exports(store, rows)
  PROVE  f.members \subseteq Items
<1>1. PICK at \in Locations(store, MembersOf(rows)), kept \in OnePerSubject(RowItems(rows)) :
        f = [doc |-> BundledDoc(store, at), namespaces |-> {at[e] : e \in DOMAIN at}, members |-> kept,
             notes |-> StoredNotes(store)]
  BY DEF Exports
<1>2. f.members = kept /\ kept \subseteq RowItems(rows)  BY <1>1 DEF OnePerSubject
<1>3. \A s \in Subjects : [element : rows[s].elements, position : rows[s].positions] \subseteq Items
  <2>1. SUFFICES ASSUME NEW s \in Subjects
                 PROVE  [element : rows[s].elements, position : rows[s].positions] \subseteq Items
    OBVIOUS
  <2>2. rows[s].elements \subseteq Elements /\ rows[s].positions \subseteq Positions  BY DEF RowsSound, NoRow
  <2> QED  BY <2>2 DEF Items
<1>4. RowItems(rows) \subseteq Items  BY <1>3 DEF RowItems
<1> QED  BY <1>2, <1>4

\* Steps of an import that add none.
LEMMA KeepMembers ==
  ASSUME MembersSound, JobForm, UNCHANGED files,
         \/ job' = job \/ job' = NoJob \/ job' = Disturbed
         \/ /\ job.pc # "idle" /\ job'.file = job.file /\ job'.pc \notin {"members", "adding"}
         \/ /\ job.pc \in {"members", "adding"} /\ job'.file = job.file /\ job'.todo \subseteq job.todo
  PROVE  MembersSound'
<1>1. NoJob.pc = "idle"  BY DEF NoJob
<1>2. job' = Disturbed => /\ job'.pc = job.pc
                          /\ job.pc # "idle" => job'.file = job.file /\ job'.todo = job.todo
  BY <1>1 DEF Disturbed, JobForm
<1> QED  BY <1>1, <1>2 DEF MembersSound

\* Every step.
LEMMA StepMembers ==
  ASSUME Forms, RowsSound(rows), MembersSound, [TransferNext]_allVars
  PROVE  MembersSound'
<1>n. NoJob.pc = "idle" /\ JobForm  BY DEF NoJob, Forms
<1>1. CASE Export
  <2>1. PICK f \in Exports(store, rows) : files' = files \cup {f}  BY <1>1 DEF Export
  <2>2. f.members \subseteq Items  BY ExportMembers
  <2> QED  BY <1>1, <2>1, <2>2 DEF Export, MembersSound
<1>2. ASSUME NEW f \in files, ImportBundle(f) PROVE MembersSound'
  <2>1. job'.pc = "register" /\ job'.file = f /\ files' = files  BY <1>2 DEF ImportBundle, Begun
  <2> QED  BY <2>1 DEF MembersSound
<1>3. ASSUME NEW doc, NEW n, ImportFile(doc, n) PROVE MembersSound'
  <2>1. job'.pc = "find" /\ job'.file.members = {} /\ files' = files  BY <1>3 DEF ImportFile, Begun, NoFile
  <2> QED  BY <2>1 DEF MembersSound
<1>4. CASE Register
  <2>1. PICK n : job' = [job EXCEPT !.todo = @ \ {n}]  BY <1>4 DEF Register
  <2>2. job.pc # "idle" /\ job'.file = job.file /\ job'.pc = "register" /\ UNCHANGED files
    BY <1>4, <1>n, <2>1 DEF Register, JobForm, RestUnchanged
  <2> QED  BY <1>n, <2>2, KeepMembers
<1>5. CASE Group
  <2>1. PICK todo, groups, pc : pc \in {"workspace", "find"} /\ job' = [job EXCEPT !.todo = todo, !.pc = pc, !.groups = groups]
    BY <1>5, GroupMoves
  <2>2. job.pc # "idle" /\ job'.file = job.file /\ job'.pc = pc /\ UNCHANGED files
    BY <1>5, <1>n, <2>1 DEF Group, JobForm, RestUnchanged
  <2> QED  BY <1>n, <2>1, <2>2, KeepMembers
<1>6. CASE Find
  <2>1. PICK ns, homes : job' = [job EXCEPT !.pc = "fetch", !.group = ns, !.homes = homes]  BY <1>6 DEF Find
  <2>2. job.pc # "idle" /\ job'.file = job.file /\ job'.pc = "fetch" /\ UNCHANGED files
    BY <1>6, <1>n, <2>1 DEF Find, JobForm, RestUnchanged
  <2> QED  BY <1>n, <2>2, KeepMembers
<1>7. CASE Fetch
  <2>1. PICK clean : job' = [job EXCEPT !.pc = "write", !.clean = clean] \/ job' = NoJob  BY <1>7 DEF Fetch
  <2>2. CASE job' = NoJob  BY <1>7, <1>n, <2>2, KeepMembers DEF Fetch, RestUnchanged
  <2>3. CASE job' = [job EXCEPT !.pc = "write", !.clean = clean]
    <3>1. job.pc # "idle" /\ job'.file = job.file /\ job'.pc = "write" /\ UNCHANGED files
      BY <1>7, <1>n, <2>3 DEF Fetch, JobForm, RestUnchanged
    <3> QED  BY <1>n, <3>1, KeepMembers
  <2> QED  BY <2>1, <2>2, <2>3
<1>8. CASE WriteGroup
  <2>1. PICK pc, todo : pc = AfterGroup(job.todo \ {job.group}) /\ job' = [job EXCEPT !.todo = todo, !.pc = pc, !.clean = <<>>]
    BY <1>8 DEF WriteGroup
  <2>2. pc \in {"find", "workspace", "done"}  BY <2>1 DEF AfterGroup
  <2>3. job.pc # "idle" /\ job'.file = job.file /\ job'.pc = pc /\ UNCHANGED files
    BY <1>8, <1>n, <2>1 DEF WriteGroup, JobForm, RestUnchanged
  <2> QED  BY <1>n, <2>2, <2>3, KeepMembers
<1>9. CASE EnsureWorkspace
  <2>1. job' = [job EXCEPT !.pc = "members", !.todo = job.file.members] /\ job.pc # "idle" /\ UNCHANGED files
    BY <1>9 DEF EnsureWorkspace, RestUnchanged
  <2>2. job'.file = job.file /\ job'.todo = job.file.members  BY <1>n, <2>1 DEF JobForm
  <2> QED  BY <2>1, <2>2 DEF MembersSound
<1>10. ASSUME NEW c, AddMember(c) PROVE MembersSound'
  <2>1. PICK i : job' = [job EXCEPT !.pc = "adding", !.caller = {c}, !.todo = @ \ {i}]  BY <1>10 DEF AddMember
  <2>2. job'.file = job.file /\ job'.todo \subseteq job.todo /\ UNCHANGED files /\ job.pc = "members"
    BY <1>10, <1>n, <2>1 DEF AddMember, JobForm
  <2> QED  BY <1>n, <2>2, KeepMembers
<1>11. CASE MemberAdded
  <2>1. job'.file = job.file /\ job'.todo = job.todo /\ UNCHANGED files /\ job.pc = "adding"
    BY <1>11, <1>n DEF MemberAdded, JobForm, RestUnchanged
  <2> QED  BY <1>n, <2>1, KeepMembers
<1>12. CASE NotesNext
  <2>1. job'.file = job.file /\ job'.pc = "notes" /\ UNCHANGED files /\ job.pc # "idle"
    BY <1>12, <1>n DEF NotesNext, JobForm, RestUnchanged
  <2> QED  BY <1>n, <2>1, KeepMembers
<1>13. CASE EnsureNote
  <2>1. PICK n : job' = [job EXCEPT !.todo = @ \ {n}]  BY <1>13 DEF EnsureNote
  <2>2. job.pc # "idle" /\ job'.file = job.file /\ job'.pc = "notes" /\ UNCHANGED files
    BY <1>13, <1>n, <2>1 DEF EnsureNote, JobForm, RestUnchanged
  <2> QED  BY <1>n, <2>2, KeepMembers
<1>14. CASE Finish
  <2>1. job'.file = job.file /\ job'.pc = "done" /\ UNCHANGED files /\ job.pc # "idle"
    BY <1>14, <1>n DEF Finish, JobForm, RestUnchanged
  <2> QED  BY <1>n, <2>1, KeepMembers
<1>15. CASE ImportFails  BY <1>15, <1>n, KeepMembers DEF ImportFails, RestUnchanged
<1>16. ASSUME NEW iri, NEW ns, Open(iri, ns) PROVE MembersSound'  BY <1>n, <1>16, KeepMembers DEF Open
<1>17. CASE Close \/ SaveFails  BY <1>n, <1>17, KeepMembers DEF Close, SaveFails
<1>18. ASSUME NEW l, Loaded(l) \/ LoadFails(l) PROVE MembersSound'
  BY <1>n, <1>18, KeepMembers DEF Loaded, LoadFails, PanelOnly
<1>19. ASSUME NEW tab, NEW text, Save(tab, text) PROVE MembersSound'  BY <1>n, <1>19, KeepMembers DEF Save
<1>20. CASE SaveWrites  BY <1>n, <1>20, KeepMembers DEF SaveWrites
<1>21. ASSUME NEW c, MemberStep(c) \/ CallFails(c) PROVE MembersSound'
  <2>1. job' = job \/ job' = Disturbed \/ job' = NoJob  BY <1>21 DEF MemberStep, CallFails
  <2> QED  BY <1>n, <1>21, <2>1, KeepMembers DEF MemberStep, CallFails
<1>22. CASE UNCHANGED allVars  BY <1>n, <1>22, KeepMembers DEF allVars, transferVars
<1> QED
  BY <1>1, <1>2, <1>3, <1>4, <1>5, <1>6, <1>7, <1>8, <1>9, <1>10, <1>11, <1>12, <1>13, <1>14, <1>15, <1>16, <1>17,
     <1>18, <1>19, <1>20, <1>21, <1>22
  DEF TransferNext

\* The rows found are sound, and no call knows anything.
LEMMA InitPlacing == TransferInit => Placing /\ MembersSound
<1> SUFFICES ASSUME TransferInit PROVE Placing /\ MembersSound  OBVIOUS
<1>1. RowsSound(rows)  BY TransfersAssumption DEF TransferInit
<1>2. Placing  BY <1>1 DEF TransferInit, Placing, CallSound
<1>3. MembersSound  BY TransfersAssumption DEF TransferInit, MembersSound, NoJob, Items
<1> QED  BY <1>2, <1>3

\* The invariant of the rows.
PlacingInv == Forms /\ MembersSound /\ Placing

\* It holds in every behaviour with one call at a time.
LEMMA PlacingHolds == ASSUME SingleCall PROVE TransferSpec => []PlacingInv
<1>1. TransferInit => PlacingInv  BY InitForms, InitPlacing DEF PlacingInv
<1>2. PlacingInv /\ [TransferNext]_allVars => PlacingInv'
  <2>1. ASSUME PlacingInv, [TransferNext]_allVars PROVE PlacingInv'
    <3>1. Forms'  BY <2>1, StepForms DEF PlacingInv
    <3>2. Placing'  BY <2>1, StepPlacing DEF PlacingInv
    <3>3. MembersSound'  BY <2>1, StepMembers DEF PlacingInv, Placing
    <3> QED  BY <3>1, <3>2, <3>3 DEF PlacingInv
  <2> QED  BY <2>1
<1> QED  BY <1>1, <1>2, PTL DEF TransferSpec

\* addWorkspaceMember, updateMember, selectMembers, removeMember and imports, one call at a time, never
\* give an element two rows or two elements one, for any elements, names, positions, chunks and files.
THEOREM RowsStayTheirOwn == ASSUME SingleCall PROVE TransferSpec => []RowsAreTheirOwn
<1>1. PlacingInv => RowsAreTheirOwn  BY SoundIsOwn DEF PlacingInv, Placing, RowsAreTheirOwn
<1> QED  BY <1>1, PlacingHolds, PTL

\* Whenever nothing is under way, a batch of any length would store what its additions one by one would.
THEOREM BatchesAdd == ASSUME SingleCall PROVE TransferSpec => []BatchAtRest
<1>1. PlacingInv => BatchAtRest  BY SoundIsBatch DEF PlacingInv, Placing, BatchAtRest
<1> QED  BY <1>1, PlacingHolds, PTL

-----------------------------------------------------------------------------
(* What an import adds.                                                    *)

\* The calls of an import are additions.
CallerSound == \A c \in job.caller : c \in Calls /\ (call[c] = Idle \/ call[c].op = "add")

\* Steps that leave the calls.
LEMMA KeepCaller ==
  ASSUME CallerSound, UNCHANGED call, job'.caller \in {{}, job.caller}
  PROVE  CallerSound'
  BY DEF CallerSound

\* The import's own steps.
LEMMA JobCallers ==
  ASSUME JobForm, JobOnly \/ JobWrites
  PROVE  job'.caller \in {{}, job.caller}
<1>n. NoJob.caller = {} /\ NoJob.pc = "idle"  BY DEF NoJob
<1>1. CASE Register
  <2>1. PICK n : job' = [job EXCEPT !.todo = @ \ {n}]  BY <1>1 DEF Register
  <2> QED  BY <1>1, <1>n, <2>1 DEF Register, JobForm
<1>2. CASE Group
  <2>1. PICK todo, groups, pc : job' = [job EXCEPT !.todo = todo, !.pc = pc, !.groups = groups]  BY <1>2, GroupMoves
  <2> QED  BY <1>2, <1>n, <2>1 DEF Group, JobForm
<1>3. CASE Find
  <2>1. PICK ns, homes : job' = [job EXCEPT !.pc = "fetch", !.group = ns, !.homes = homes]  BY <1>3 DEF Find
  <2> QED  BY <1>3, <1>n, <2>1 DEF Find, JobForm
<1>4. CASE Fetch
  <2>1. PICK clean : job' = [job EXCEPT !.pc = "write", !.clean = clean] \/ job' = NoJob  BY <1>4 DEF Fetch
  <2> QED  BY <1>4, <1>n, <2>1 DEF Fetch, JobForm
<1>5. CASE WriteGroup
  <2>1. PICK pc, todo : job' = [job EXCEPT !.todo = todo, !.pc = pc, !.clean = <<>>]  BY <1>5 DEF WriteGroup
  <2> QED  BY <1>5, <1>n, <2>1 DEF WriteGroup, JobForm
<1>6. CASE EnsureWorkspace  BY <1>6, <1>n DEF EnsureWorkspace, JobForm
<1>7. CASE MemberAdded  BY <1>7, <1>n DEF MemberAdded, JobForm
<1>8. CASE NotesNext  BY <1>8, <1>n DEF NotesNext, JobForm
<1>9. CASE EnsureNote
  <2>1. PICK n : job' = [job EXCEPT !.todo = @ \ {n}]  BY <1>9 DEF EnsureNote
  <2> QED  BY <1>9, <1>n, <2>1 DEF EnsureNote, JobForm
<1>10. CASE Finish  BY <1>10, <1>n DEF Finish, JobForm
<1>11. CASE ImportFails  BY <1>11, <1>n DEF ImportFails
<1> QED  BY <1>1, <1>2, <1>3, <1>4, <1>5, <1>6, <1>7, <1>8, <1>9, <1>10, <1>11 DEF JobOnly, JobWrites

\* A request does not turn an addition into another call.
LEMMA RequestKeepsOp ==
  ASSUME Placing, NEW c \in Calls, OwnRequest(c), call[c] = Idle \/ call[c].op = "add"
  PROVE  /\ call'[c] = Idle \/ call'[c].op = "add"
         /\ \A d \in Calls \ {c} : call'[d] = call[d]
<1>0. call = [d \in Calls |-> call[d]] /\ CallSound(rows, call[c])  BY DEF Placing
<1>1. \A d \in Calls \ {c} : call'[d] = call[d]
  BY <1>0 DEF OwnRequest, AskHashed, AskLegacy, AskTaken, AskExists, WriteRow, InsertChunk, Found, Ask
<1>2. call[c] # Idle
  BY DEF OwnRequest, AskHashed, AskLegacy, AskTaken, AskExists, WriteRow, InsertChunk, Idle
<1>3. CASE InsertChunk(c)  BY <1>2, <1>3 DEF InsertChunk
<1>4. CASE WriteRow(c)  BY <1>0, <1>4 DEF WriteRow
<1>5. CASE AskHashed(c) \/ AskLegacy(c) \/ AskTaken(c) \/ AskExists(c)
  <2>1. PICK pc, op, items, s : call[c] = Record(pc, op, items, s)
    BY <1>0, <1>2 DEF CallSound, Asking, Placed, Batch
  <2>2. op = "add"  BY <1>2, <2>1 DEF Record
  <2>3. \A p, o, is, t : Record(p, o, is, t).op = o  BY DEF Record
  <2>4. \/ \E p : Ask(c, p)
        \/ \E t : Found(c, t)
        \/ call' = [call EXCEPT ![c] = Idle]
    BY <1>5 DEF AskHashed, AskLegacy, AskTaken, AskExists
  <2>5. ASSUME NEW p, Ask(c, p) PROVE call'[c].op = "add"
    <3>1. call'[c] = Record(p, op, items, s)  BY <1>0, <2>1, <2>5, AskCall
    <3> QED  BY <2>2, <2>3, <3>1
  <2>6. ASSUME NEW t, Found(c, t) PROVE call'[c].op = "add"
    <3>1. call'[c] = Record(Write[op], op, items, t)  BY <1>0, <2>1, <2>6, FoundCall
    <3> QED  BY <2>2, <2>3, <3>1
  <2>7. ASSUME call' = [call EXCEPT ![c] = Idle] PROVE call'[c] = Idle  BY <1>0, <2>7
  <2> QED  BY <1>1, <2>4, <2>5, <2>6, <2>7
<1> QED  BY <1>1, <1>3, <1>4, <1>5 DEF OwnRequest

\* Every step.
LEMMA StepCaller ==
  ASSUME Forms, Placing, CallerSound, [TransferNext]_allVars
  PROVE  CallerSound'
<1>n. NoJob.caller = {} /\ JobForm  BY DEF NoJob, Forms
<1>d. job' = Disturbed => job'.caller = job.caller  BY <1>n DEF Disturbed, JobForm
<1>1. CASE Export  BY <1>1, KeepCaller DEF Export
<1>2. ASSUME NEW f, ImportBundle(f) PROVE CallerSound'  BY <1>2 DEF ImportBundle, Begun, CallerSound
<1>3. ASSUME NEW doc, NEW n, ImportFile(doc, n) PROVE CallerSound'  BY <1>3 DEF ImportFile, Begun, CallerSound
<1>4. CASE JobOnly \/ JobWrites
  <2>1. RestUnchanged
    BY <1>4 DEF JobOnly, JobWrites, Register, Group, Find, Fetch, WriteGroup, EnsureWorkspace, MemberAdded, NotesNext,
                EnsureNote, Finish, ImportFails
  <2> QED  BY <1>4, <1>n, <2>1, JobCallers, KeepCaller DEF RestUnchanged
<1>5. ASSUME NEW c \in Calls, AddMember(c) PROVE CallerSound'
  <2>1. PICK i : job' = [job EXCEPT !.pc = "adding", !.caller = {c}, !.todo = @ \ {i}]
                 /\ Started(c, "add", i.element, i.position)
    BY <1>5 DEF AddMember
  <2>2. job'.caller = {c}  BY <1>5, <1>n, <2>1 DEF AddMember, JobForm, NoJob
  <2>3. call' = [call EXCEPT ![c] = Begin("add", <<Item(i.element, i.position)>>, "hashed?")]  BY <2>1 DEF Started
  <2>4. call'[c].op = "add"  BY <2>3 DEF Placing, Begin
  <2> QED  BY <2>2, <2>4 DEF CallerSound
<1>6. ASSUME NEW iri, NEW ns, Open(iri, ns) PROVE CallerSound'  BY <1>6, KeepCaller DEF Open
<1>7. CASE Close \/ SaveFails  BY <1>7, KeepCaller DEF Close, SaveFails
<1>8. ASSUME NEW l, Loaded(l) \/ LoadFails(l) PROVE CallerSound'  BY <1>8, KeepCaller DEF Loaded, LoadFails, PanelOnly
<1>9. ASSUME NEW tab, NEW text, Save(tab, text) PROVE CallerSound'  BY <1>9, KeepCaller DEF Save
<1>10. CASE SaveWrites  BY <1>10, <1>d, KeepCaller DEF SaveWrites
<1>11. ASSUME NEW c \in Calls, MemberStep(c) PROVE CallerSound'
  <2>1. job'.caller = job.caller  BY <1>11, <1>d DEF MemberStep
  <2>2. CASE UserCall(c)
    <3>1. c \notin job.caller  BY <2>2 DEF UserCall
    <3>2. \A d \in Calls \ {c} : call'[d] = call[d]
      BY <2>2 DEF UserCall, Resolve, Started, RemoveMember, SelectMembers, Placing
    <3> QED  BY <2>1, <3>1, <3>2 DEF CallerSound
  <2>3. CASE OwnRequest(c)
    <3>1. \A d \in Calls \ {c} : call'[d] = call[d]
      BY <2>3 DEF OwnRequest, AskHashed, AskLegacy, AskTaken, AskExists, WriteRow, InsertChunk, Found, Ask, Placing
    <3>2. c \in job.caller => call'[c] = Idle \/ call'[c].op = "add"  BY <2>3, RequestKeepsOp DEF CallerSound
    <3> QED  BY <2>1, <3>1, <3>2 DEF CallerSound
  <2> QED  BY <1>11, <2>2, <2>3 DEF MemberStep
<1>12. ASSUME NEW c \in Calls, CallFails(c) PROVE CallerSound'
  <2>1. CASE c \in job.caller  BY <1>12, <1>n, <2>1 DEF CallFails, CallerSound
  <2>2. CASE c \notin job.caller
    <3>1. job' = job /\ \A d \in Calls \ {c} : call'[d] = call[d]  BY <1>12, <2>2 DEF CallFails, Fail, Placing
    <3> QED  BY <2>2, <3>1 DEF CallerSound
  <2> QED  BY <2>1, <2>2
<1>13. CASE UNCHANGED allVars  BY <1>13, KeepCaller DEF allVars, transferVars
<1> QED
  BY <1>1, <1>2, <1>3, <1>4, <1>5, <1>6, <1>7, <1>8, <1>9, <1>10, <1>11, <1>12, <1>13
  DEF TransferNext, JobOnly, JobWrites

\* A declaration of the app's that is not there has no other value in its place.
LEMMA EnsuredAdds ==
  ASSUME Forms, Flow, NEW iri, NEW class,
         \/ class = "Namespace" /\ iri \in Namespaces
         \/ class = "Workspace" /\ iri = Workspace
         \/ class = "Note" /\ iri \in Notes,
         NEW st, st = Ensured(store, iri, class), NEW n \in Namespaces
  PROVE  /\ Triples(store, n) \subseteq Triples(st, n) /\ store[n].blocks \subseteq st[n].blocks
         /\ \A q \in Triples(st, n) \ Triples(store, n), t \in Triples(store, n) : ~(t[1] = q[1] /\ t[2] = q[2])
<1>1. store = [m \in Namespaces |-> store[m]] /\ IsGraph(store[n])  BY SortedGraph DEF Forms, GraphsForm
<1>2. CASE n # Default
  <2>1. st[n] = store[n]  BY <1>1, <1>2 DEF Ensured
  <2> QED  BY <2>1 DEF Triples
<1>3. CASE n = Default
  <2>1. st[n] = [store[n] EXCEPT !.schema = @ \cup Declaration(iri, class)]  BY <1>1, <1>3 DEF Ensured
  <2>2. Triples(st, n) = Triples(store, n) \cup Declaration(iri, class) /\ st[n].blocks = store[n].blocks
    BY <1>1, <2>1 DEF IsGraph, Triples, Whole, Doc
  <2>3. ASSUME NEW q \in Declaration(iri, class), q \notin Triples(store, n), NEW t \in Triples(store, n),
               t[1] = q[1], t[2] = q[2]
        PROVE  FALSE
    <3>1. Fits(t)  BY DEF Flow, AllFit, Triples
    <3>2. q[1] \in {class, iri} /\ q[2] = "a" /\ q[1] \in OwnIris  BY DEF Declaration, OwnIris
    <3>3. t \in OwnDeclarations  BY <2>3, <3>1, <3>2 DEF Fits
    <3>4. q \in OwnDeclarations  BY DEF OwnDeclarations
    <3>5. \A x \in OwnDeclarations :
            \/ \E k \in {"Namespace", "Workspace", "Note"} : x = <<k, "a", "Class">>
            \/ \E m \in Namespaces : x = <<m, "a", "Namespace">>
            \/ x = <<Workspace, "a", "Workspace">>
            \/ \E m \in Notes : x = <<m, "a", "Note">>
      BY DEF OwnDeclarations, Declaration
    <3>6. OwnIrisDiffer  BY TransfersAssumption
    <3>7. \A x, y \in OwnDeclarations : x[1] = y[1] => x = y
      <4>1. SUFFICES ASSUME NEW x \in OwnDeclarations, NEW y \in OwnDeclarations, x[1] = y[1] PROVE x = y  OBVIOUS
      <4>2. CASE \E k \in {"Namespace", "Workspace", "Note"} : x = <<k, "a", "Class">>
        BY <3>5, <3>6, <4>1, <4>2 DEF OwnIrisDiffer
      <4>3. CASE \E m \in Namespaces : x = <<m, "a", "Namespace">>
        BY <3>5, <3>6, <4>1, <4>3 DEF OwnIrisDiffer
      <4>4. CASE x = <<Workspace, "a", "Workspace">>
        BY <3>5, <3>6, <4>1, <4>4 DEF OwnIrisDiffer
      <4>5. CASE \E m \in Notes : x = <<m, "a", "Note">>
        BY <3>5, <3>6, <4>1, <4>5 DEF OwnIrisDiffer
      <4> QED  BY <3>5, <4>2, <4>3, <4>4, <4>5
    <3> QED  BY <2>3, <3>3, <3>4, <3>7
  <2> QED  BY <2>2, <2>3
<1> QED  BY <1>2, <1>3

\* A group's update adds values to what has none.
LEMMA GroupAdds ==
  ASSUME Forms, Flow, FetchStands, WriteGroup, NEW n \in Namespaces
  PROVE  /\ Triples(store, n) \subseteq Triples(store', n) /\ store[n].blocks \subseteq store'[n].blocks
         /\ job.alone => \A q \in Triples(store', n) \ Triples(store, n), t \in Triples(store, n) :
                           ~(t[1] = q[1] /\ t[2] = q[2])
<1>1. store'[n] = InsertInto(store[n], job.clean[n])  BY DEF WriteGroup
<1>2. Triples(store', n) = Triples(store, n) \cup job.clean[n].quads  BY <1>1, InsertGraph DEF Triples
<1>3. store[n].blocks \subseteq store'[n].blocks
  <2>1. Whole(store'[n]).blocks = Whole(store[n]).blocks \cup job.clean[n].blocks  BY <1>1, InsertGraph
  <2>2. \A g : Whole(g).blocks = g.blocks  BY DEF Whole, Doc
  <2> QED  BY <2>1, <2>2
<1>4. ASSUME job.alone, NEW q \in job.clean[n].quads, NEW t \in Triples(store, n), t[1] = q[1], t[2] = q[2]
      PROVE  FALSE
  <2> DEFINE doc == job.groups[job.group]
             existing == Existing(doc, job.homes, job.group)
             part == PartIn(doc, job.homes, job.group, n)
  <2>1. job.clean[n] = Clean(part, existing)  BY <1>4 DEF FetchStands, WriteGroup, Cleaned
  <2>2. job.clean[n].quads = {x \in part.quads \ existing.quads : ~\E y \in existing.quads : y[1] = x[1] /\ y[2] = x[2]}
    <3> HIDE DEF part, existing
    <3> QED  BY <2>1 DEF Clean, Doc
  <2>3. part # NoDoc
    <3>1. part.quads # {}  BY <1>4, <2>2
    <3> HIDE DEF part
    <3> QED  BY <3>1 DEF NoDoc, Doc
  <2>4. n \in Involved(doc, job.homes, job.group)  BY <2>3 DEF Involved
  <2>5. existing.quads = UNION {Whole(store[m]).quads : m \in Involved(doc, job.homes, job.group)}
    BY DEF Existing, Joined, Doc
  <2>6. t \in existing.quads  BY <2>4, <2>5 DEF Triples
  <2> HIDE DEF existing, part
  <2> QED  BY <1>4, <2>2, <2>6
<1> QED  BY <1>2, <1>3, <1>4

\* So does every write of an import.
LEMMA ImportAdds ==
  ASSUME Forms, Flow, FetchStands, [TransferNext]_allVars, ImportWrote, NEW n \in Namespaces
  PROVE  /\ Triples(store, n) \subseteq Triples(store', n) /\ store[n].blocks \subseteq store'[n].blocks
         /\ job.alone => \A q \in Triples(store', n) \ Triples(store, n), t \in Triples(store, n) :
                           ~(t[1] = q[1] /\ t[2] = q[2])
<1>1. JobWrites
  <2>1. ~SaveWrites  BY DEF ImportWrote, SaveWrites
  <2>2. store' # store  BY DEF ImportWrote
  <2> QED
    BY <2>1, <2>2
    DEF TransferNext, Export, ImportBundle, ImportFile, Group, Find, Fetch, AddMember, MemberAdded, NotesNext, Finish,
        ImportFails, Open, Close, Loaded, LoadFails, PanelOnly, Save, SaveFails, MemberStep, CallFails, RestUnchanged,
        allVars, transferVars, JobWrites
<1>2. CASE Register
  <2>1. PICK m \in job.todo : store' = IF IsDeclared(store, m, "Namespace") THEN store ELSE Ensured(store, m, "Namespace")
    BY <1>2 DEF Register
  <2>2. m \in Namespaces  BY <1>2, <2>1 DEF Flow, JobFits, Register
  <2>3. store' = Ensured(store, m, "Namespace")  BY <2>1 DEF ImportWrote
  <2>4. PICK st : st = store'  OBVIOUS
  <2> QED  BY <2>2, <2>3, <2>4, EnsuredAdds
<1>3. CASE WriteGroup  BY <1>3, GroupAdds
<1>4. CASE EnsureWorkspace
  <2>1. store' = Ensured(store, Workspace, "Workspace")  BY <1>4 DEF EnsureWorkspace, ImportWrote
  <2>2. PICK st : st = store'  OBVIOUS
  <2> QED  BY <2>1, <2>2, EnsuredAdds
<1>5. CASE EnsureNote
  <2>1. PICK m \in job.todo : store' = IF IsDeclared(store, m, "Note") THEN store ELSE Ensured(store, m, "Note")
    BY <1>5 DEF EnsureNote
  <2>2. m \in Notes  BY <1>5, <2>1 DEF Flow, JobFits, EnsureNote
  <2>3. store' = Ensured(store, m, "Note")  BY <2>1 DEF ImportWrote
  <2>4. PICK st : st = store'  OBVIOUS
  <2> QED  BY <2>2, <2>3, <2>4, EnsuredAdds
<1> QED  BY <1>1, <1>2, <1>3, <1>4, <1>5 DEF JobWrites

\* The import's call adds a row of an element that has none.
LEMMA CallerAdds ==
  ASSUME SingleCall, Forms, Placing, CallerSound, [TransferNext]_allVars, job.caller # {}, job'.caller = job.caller, saving' = saving,
         NEW e \in Elements, PositionsOf(e) # {}
  PROVE  PositionsOf(e)' = PositionsOf(e)
<1>0. rows' = rows => PositionsOf(e)' = PositionsOf(e)  BY DEF PositionsOf, SubjectsOf
<1>1. PICK c \in Calls : job.caller = {c} /\ (call[c] = Idle \/ call[c].op = "add")
  BY DEF CallerSound, SingleCall
<1>2. ~SaveWrites
  <2>1. SaveWrites => saving' # saving  BY DEF SaveWrites
  <2> QED  BY <2>1
<1>3. CASE WriteRow(c)
  <2>0. RowsSound(rows)  BY DEF Placing
  <2>1. PICK i \in Items, s \in Subjects :
          /\ Slot(rows, s, i.element)
          /\ \/ call[c] = Record("write", "add", <<i>>, s) /\ ~Owned(rows, s, i.element)
             \/ call[c] = Record("write", "update", <<i>>, s)
    BY <1>3, CallAt DEF WriteRow, Placing
  <2>2. call[c].op = "add"  BY <1>1, <1>3 DEF WriteRow, Idle
  <2>3. call[c] = Record("write", "add", <<i>>, s) /\ ~Owned(rows, s, i.element)  BY <2>1, <2>2 DEF Record
  <2>4. call[c].items[1] = i /\ call[c].subject = s  BY <2>3, CallsItem
  <2>5. rows' = Inserted(rows, s, i)  BY <1>3, <2>2, <2>4 DEF WriteRow
  <2>6. rows[s] = NoRow
    <3>1. rows[s].elements = {}  BY <2>1, <2>3 DEF Slot, Owned
    <3> QED  BY <2>0, <3>1 DEF RowsSound
  <2>7. NotPlaced(rows, i.element)  BY <2>1, <2>3 DEF Slot, NotPlaced
  <2>8. /\ rows'[s] = [elements |-> {i.element}, positions |-> {i.position}]
        /\ \A t \in Subjects \ {s} : rows'[t] = rows[t]
    <3>1. SubjectOf(s, i.element)  BY <2>1 DEF Slot
    <3> QED  BY <2>0, <2>5, <2>6, <2>7, <3>1, InsertSound
  <2>9. e # i.element  BY <2>7 DEF NotPlaced, PositionsOf, SubjectsOf
  <2>10. \A t \in Subjects : Owned(rows', t, e) <=> Owned(rows, t, e)
    <3>1. ~Owned(rows', s, e)  BY <2>8, <2>9 DEF Owned
    <3>2. ~Owned(rows, s, e)  BY <2>6 DEF Owned, NoRow
    <3> QED  BY <2>8, <3>1, <3>2 DEF Owned
  <2>11. SubjectsOf(e)' = SubjectsOf(e)  BY <2>10 DEF SubjectsOf
  <2>12. \A t \in SubjectsOf(e) : rows'[t] = rows[t]
    <3>1. s \notin SubjectsOf(e)  BY <2>6 DEF SubjectsOf, Owned, NoRow
    <3> QED  BY <2>8, <3>1 DEF SubjectsOf
  <2> QED  BY <2>11, <2>12 DEF PositionsOf
<1>4. CASE ~WriteRow(c)
  <2>1. ~InsertChunk(c)  BY <1>1 DEF InsertChunk, Idle
  <2>2. ASSUME NEW d \in Calls, MemberStep(d) PROVE rows' = rows
    <3>1. d = c  BY DEF SingleCall
    <3>2. ~UserCall(d)  BY <1>1, <3>1 DEF UserCall
    <3>3. OwnRequest(d)  BY <2>2, <3>2 DEF MemberStep
    <3> QED  BY <1>4, <2>1, <3>1, <3>3 DEF OwnRequest, AskHashed, AskLegacy, AskTaken, AskExists
  <2>3. rows' = rows
    BY <1>2, <2>2
    DEF TransferNext, Export, ImportBundle, ImportFile, Register, Group, Find, Fetch, WriteGroup, EnsureWorkspace,
        AddMember, MemberAdded, NotesNext, EnsureNote, Finish, ImportFails, Open, Close, Loaded, LoadFails, PanelOnly,
        Save, SaveFails, CallFails, Fail, RestUnchanged, allVars, transferVars
  <2> QED  BY <1>0, <2>3
<1> QED  BY <1>3, <1>4

\* The invariant of what imports add.
AddingInv == ChecksInv /\ MembersSound /\ Placing /\ CallerSound

\* It holds in every behaviour with one call at a time.
LEMMA AddingHolds == ASSUME SingleCall PROVE TransferSpec => []AddingInv
<1>1. TransferInit => AddingInv
  <2>1. TransferInit => CallerSound  BY DEF TransferInit, CallerSound, NoJob
  <2> QED  BY <2>1, InitForms, InitFlow, InitPlacing DEF AddingInv, ChecksInv
<1>2. AddingInv /\ [TransferNext]_allVars => AddingInv'
  <2>1. ASSUME AddingInv, [TransferNext]_allVars PROVE AddingInv'
    <3>0. Forms /\ Flow /\ FetchStands /\ RowsSound(rows) /\ Placing /\ MembersSound /\ CallerSound
      BY <2>1 DEF AddingInv, ChecksInv, Placing
    <3>1. ChecksInv'  BY <2>1, <3>0, StepForms, StepFlow, StepFetch DEF ChecksInv
    <3>2. Placing'  BY <2>1, <3>0, StepPlacing
    <3>3. MembersSound'  BY <2>1, <3>0, StepMembers
    <3>4. CallerSound'  BY <2>1, <3>0, StepCaller
    <3> QED  BY <3>1, <3>2, <3>3, <3>4 DEF AddingInv
  <2> QED  BY <2>1
<1> QED  BY <1>1, <1>2, PTL DEF TransferSpec

\* importWorkspaceBundle and importTurtle take nothing away, overwrite no position, and give no second
\* value to a predicate that has one.
THEOREM ImportsAdd == ASSUME SingleCall PROVE TransferSpec => ImportsOnlyAdd
<1> DEFINE Adds ==
      /\ ImportWrote =>
          \A n \in Namespaces :
            /\ Triples(store, n) \subseteq Triples(store', n) /\ store[n].blocks \subseteq store'[n].blocks
            /\ job.alone => \A q \in Triples(store', n) \ Triples(store, n), t \in Triples(store, n) :
                              ~(t[1] = q[1] /\ t[2] = q[2])
      /\ (job.caller # {} /\ job'.caller = job.caller /\ saving' = saving /\ Others(job.caller)) =>
          \A e \in Elements : PositionsOf(e) # {} => PositionsOf(e)' = PositionsOf(e)
<1>1. ASSUME AddingInv, [TransferNext]_allVars PROVE Adds
  <2>1. Forms /\ Flow /\ FetchStands /\ Placing /\ CallerSound  BY <1>1 DEF AddingInv, ChecksInv
  <2>2. ASSUME ImportWrote, NEW n \in Namespaces
        PROVE  /\ Triples(store, n) \subseteq Triples(store', n) /\ store[n].blocks \subseteq store'[n].blocks
               /\ job.alone => \A q \in Triples(store', n) \ Triples(store, n), t \in Triples(store, n) :
                                 ~(t[1] = q[1] /\ t[2] = q[2])
    BY <1>1, <2>1, <2>2, ImportAdds
  <2>3. ASSUME job.caller # {}, job'.caller = job.caller, saving' = saving, NEW e \in Elements, PositionsOf(e) # {}
        PROVE  PositionsOf(e)' = PositionsOf(e)
    BY <1>1, <2>1, <2>3, CallerAdds
  <2> QED  BY <2>2, <2>3
<1>2. AddingInv /\ [TransferNext]_allVars => [Adds]_allVars  BY <1>1
<1> QED  BY <1>2, AddingHolds, PTL DEF TransferSpec, ImportsOnlyAdd
-----------------------------------------------------------------------------
(***************************************************************************)
(* What a bundle brings.  An import is followed as long as nobody else     *)
(* writes: the store only grows, by the app's declarations and by the      *)
(* groups that were written.                                               *)
(***************************************************************************)
Followed == job.pc # "idle" /\ job.kind = "bundle" /\ job.alone

\* The groups that were written.
Written ==
  IF job.pc = "register" THEN {}
  ELSE IF job.pc \in {"find", "fetch", "write"} THEN DOMAIN job.groups \ job.todo ELSE DOMAIN job.groups

\* The store has all it had.
Grown(st, new) ==
  \A n \in Namespaces : /\ Triples(st, n) \subseteq Triples(new, n) /\ st[n].schema \subseteq new[n].schema
                        /\ st[n].blocks \subseteq new[n].blocks

\* What it has more is the app's own or was in a group written.
OnlyOfFile ==
  \A n \in Namespaces :
    /\ \A q \in Triples(store, n) \ Triples(job.base, n) :
         q \in OwnDeclarations \/ \E ns \in Written : q \in job.groups[ns].quads
    /\ \A b \in store[n].blocks \ job.base[n].blocks :
         b.of = "none" \/ \E ns \in Written : b \in job.groups[ns].blocks

\* The namespace an IRI was minted under is known.
IsHome(iri) == HomeOf[iri] \in job.file.namespaces \cup Registered(job.base)

\* Each subject's part of the file is in one group, the one of its home.
GroupsSplit ==
  job.pc # "register" =>
    /\ DOMAIN job.groups \subseteq Namespaces
    /\ \A q \in job.file.doc.quads : \E ns \in DOMAIN job.groups : q \in job.groups[ns].quads
    /\ \A b \in job.file.doc.blocks : \E ns \in DOMAIN job.groups : b \in job.groups[ns].blocks
    /\ \A ns \in DOMAIN job.groups : \A q \in job.groups[ns].quads : IsHome(q[1]) => ns = HomeOf[q[1]]
    /\ \A m, n \in DOMAIN job.groups :
         /\ \A q \in job.groups[m].quads, t \in job.groups[n].quads : q[1] = t[1] => m = n
         /\ \A b \in job.groups[m].blocks, e \in job.groups[n].blocks : b.of = e.of => m = n

\* A subject the store did not know.
Unknown(q) == q[1] \notin OwnIris /\ IsNew(job.base, q[1])

\* It is sent to its group's namespace, and every subject to some.
HomesFound ==
  job.pc \in {"fetch", "write"} =>
    /\ job.homes = [s \in {q[1] : q \in job.groups[job.group].quads} |-> job.homes[s]]
    /\ \A q \in job.groups[job.group].quads :
         job.homes[q[1]] \in Namespaces /\ (Unknown(q) => job.homes[q[1]] = job.group)

\* A triple that is stored, or whose subject had the predicate.
Has(q) == HasValue(job.base, q) \/ \E n \in Namespaces : q \in Triples(store, n)

\* A shape's block that is stored, or whose shape had one.
HasBlock(b) == \E n \in Namespaces : b \in store[n].blocks \/ \E e \in job.base[n].blocks : e.of = b.of

\* A group has arrived.
GroupArrived(ns) ==
  /\ \A q \in job.groups[ns].quads : Has(q) /\ (Unknown(q) => q \in Triples(store, ns))
  /\ \A b \in job.groups[ns].blocks : b.of # "none" => HasBlock(b)

\* What was declared so far.
DeclaredSoFar ==
  /\ \A n \in job.file.namespaces : n \in Registered(store) \/ (job.pc = "register" /\ n \in job.todo)
  /\ job.pc \in {"members", "adding", "notes", "done"} => IsDeclared(store, Workspace, "Workspace")
  /\ job.pc \in {"notes", "done"} =>
       \A n \in job.file.notes : n \in StoredNotes(store) \/ (job.pc = "notes" /\ n \in job.todo)

\* The import's call is adding an item of the element.
BeingAdded(e) == \E c \in job.caller : c \in Calls /\ call[c] # Idle /\ E(c) = e

\* The members placed so far.
MembersSoFar ==
  job.pc \in {"members", "adding", "notes", "done"} =>
    \A i \in job.file.members :
      \/ i.element \in MembersOf(rows)
      \/ job.pc \in {"members", "adding"} /\ i \in job.todo
      \/ job.pc = "adding" /\ BeingAdded(i.element)

\* An import that is followed: the inductive invariant.
Arriving ==
  Followed =>
    /\ Grown(job.base, store) /\ OnlyOfFile /\ GroupsSplit /\ HomesFound
    /\ \A ns \in Written : GroupArrived(ns)
    /\ DeclaredSoFar /\ MembersSoFar

\* The app declares each of its own things in one way.
LEMMA OwnOnce == \A x, y \in OwnDeclarations : x[1] \in OwnIris /\ x[2] = "a" /\ (x[1] = y[1] => x = y)
<1>1. \A x \in OwnDeclarations :
        \/ \E k \in {"Namespace", "Workspace", "Note"} : x = <<k, "a", "Class">>
        \/ \E m \in Namespaces : x = <<m, "a", "Namespace">>
        \/ x = <<Workspace, "a", "Workspace">>
        \/ \E m \in Notes : x = <<m, "a", "Note">>
  BY DEF OwnDeclarations, Declaration
<1>2. OwnIrisDiffer  BY TransfersAssumption
<1>3. SUFFICES ASSUME NEW x \in OwnDeclarations, NEW y \in OwnDeclarations
               PROVE  x[1] \in OwnIris /\ x[2] = "a" /\ (x[1] = y[1] => x = y)
  OBVIOUS
<1>4. CASE \E k \in {"Namespace", "Workspace", "Note"} : x = <<k, "a", "Class">>
  BY <1>1, <1>2, <1>4 DEF OwnIrisDiffer, OwnIris
<1>5. CASE \E m \in Namespaces : x = <<m, "a", "Namespace">>
  BY <1>1, <1>2, <1>5 DEF OwnIrisDiffer, OwnIris
<1>6. CASE x = <<Workspace, "a", "Workspace">>
  BY <1>1, <1>2, <1>6 DEF OwnIrisDiffer, OwnIris
<1>7. CASE \E m \in Notes : x = <<m, "a", "Note">>
  BY <1>1, <1>2, <1>7 DEF OwnIrisDiffer, OwnIris
<1> QED  BY <1>1, <1>4, <1>5, <1>6, <1>7

\* A step of the import goes on with it.
SameImport ==
  /\ job.pc # "idle" /\ job'.pc # "idle" /\ job'.kind = job.kind /\ job'.file = job.file
  /\ job'.base = job.base /\ job'.alone = job.alone

\* A declaration is added to the default namespace, and nothing else.
LEMMA EnsuredGrows ==
  ASSUME GraphsForm, NEW iri, NEW class, NEW st, st = Ensured(store, iri, class)
  PROVE  /\ Grown(store, st) /\ IsDeclared(st, iri, class)
         /\ \A n \in Namespaces : /\ Triples(st, n) \ Triples(store, n) \subseteq Declaration(iri, class)
                                  /\ st[n].blocks = store[n].blocks
<1>1. store = [m \in Namespaces |-> store[m]] /\ \A n \in Namespaces : IsGraph(store[n])
  BY SortedGraph DEF GraphsForm
<1>2. ASSUME NEW n \in Namespaces
      PROVE  /\ Triples(store, n) \subseteq Triples(st, n) /\ store[n].schema \subseteq st[n].schema
             /\ Triples(st, n) \ Triples(store, n) \subseteq Declaration(iri, class)
             /\ st[n].blocks = store[n].blocks
  <2>1. CASE n # Default
    <3>1. st[n] = store[n]  BY <1>1, <2>1 DEF Ensured
    <3> QED  BY <3>1 DEF Triples
  <2>2. CASE n = Default
    <3>1. st[n] = [store[n] EXCEPT !.schema = @ \cup Declaration(iri, class)]  BY <1>1, <2>2 DEF Ensured
    <3>2. Triples(st, n) = Triples(store, n) \cup Declaration(iri, class) /\ st[n].blocks = store[n].blocks
      BY <1>1, <3>1 DEF IsGraph, Triples, Whole, Doc
    <3>3. st[n].schema = store[n].schema \cup Declaration(iri, class)  BY <1>1, <3>1 DEF IsGraph
    <3> QED  BY <3>2, <3>3
  <2> QED  BY <2>1, <2>2
<1>3. st[Default].schema = store[Default].schema \cup Declaration(iri, class)
  <2>1. Default \in Namespaces  BY GraphAssumption
  <2>2. st[Default] = [store[Default] EXCEPT !.schema = @ \cup Declaration(iri, class)]  BY <1>1, <2>1 DEF Ensured
  <2> QED  BY <1>1, <2>1, <2>2 DEF IsGraph
<1>4. IsDeclared(st, iri, class)  BY <1>3 DEF IsDeclared, Declaration
<1> QED  BY <1>2, <1>4 DEF Grown

\* What is declared stays declared.
LEMMA DeclaredStays ==
  ASSUME NEW st, NEW new, Grown(st, new)
  PROVE  /\ \A iri, class : IsDeclared(st, iri, class) => IsDeclared(new, iri, class)
         /\ Registered(st) \subseteq Registered(new) /\ StoredNotes(st) \subseteq StoredNotes(new)
<1>1. \A iri, class : IsDeclared(st, iri, class) => IsDeclared(new, iri, class)
  BY GraphAssumption DEF Grown, IsDeclared
<1> QED  BY <1>1 DEF Registered, StoredNotes

\* Growth adds up.
LEMMA GrownOn ==
  ASSUME NEW a, NEW b, NEW c, Grown(a, b), Grown(b, c)
  PROVE  Grown(a, c)
  BY DEF Grown

\* A group that has arrived stays.
LEMMA ArrivedStays ==
  ASSUME NEW ns \in Namespaces, GroupArrived(ns), job'.base = job.base, job'.groups[ns] = job.groups[ns], Grown(store, store')
  PROVE  GroupArrived(ns)'
<1>1. \A q : Unknown(q)' <=> Unknown(q)  BY DEF Unknown, IsNew, Triples
<1>2. \A q : Has(q) => Has(q)'
  <2>1. \A q : HasValue(job.base, q)' <=> HasValue(job.base, q)  BY DEF HasValue, Triples
  <2> QED  BY <2>1 DEF Has, Grown
<1>3. \A b : HasBlock(b) => HasBlock(b)'  BY DEF HasBlock, Grown
<1>4. \A q : q \in Triples(store, ns) => q \in Triples(store', ns)  BY DEF Grown
<1> QED  BY <1>1, <1>2, <1>3, <1>4 DEF GroupArrived

\* What the store has more than before came with the step.
LEMMA OnlyOn ==
  ASSUME OnlyOfFile, job'.base = job.base,
         \A ns \in Written : ns \in Written' /\ job'.groups[ns] = job.groups[ns],
         \A n \in Namespaces :
           /\ \A q \in Triples(store', n) \ Triples(store, n) :
                q \in OwnDeclarations \/ \E ns \in Written' : q \in job'.groups[ns].quads
           /\ \A b \in store'[n].blocks \ store[n].blocks :
                b.of = "none" \/ \E ns \in Written' : b \in job'.groups[ns].blocks
  PROVE  OnlyOfFile'
<1> SUFFICES ASSUME NEW n \in Namespaces
             PROVE  /\ \A q \in Triples(store', n) \ Triples(job.base, n) :
                         q \in OwnDeclarations \/ \E ns \in Written' : q \in job'.groups[ns].quads
                    /\ \A b \in store'[n].blocks \ job.base[n].blocks :
                         b.of = "none" \/ \E ns \in Written' : b \in job'.groups[ns].blocks
  BY DEF OnlyOfFile, Triples
<1>1. ASSUME NEW q \in Triples(store', n) \ Triples(job.base, n), q \notin OwnDeclarations
      PROVE  \E ns \in Written' : q \in job'.groups[ns].quads
  <2>1. CASE q \in Triples(store, n)
    <3>1. PICK ns \in Written : q \in job.groups[ns].quads  BY <1>1, <2>1 DEF OnlyOfFile
    <3> QED  BY <3>1
  <2> QED  BY <1>1, <2>1
<1>2. ASSUME NEW b \in store'[n].blocks \ job.base[n].blocks, b.of # "none"
      PROVE  \E ns \in Written' : b \in job'.groups[ns].blocks
  <2>1. CASE b \in store[n].blocks
    <3>1. PICK ns \in Written : b \in job.groups[ns].blocks  BY <1>2, <2>1 DEF OnlyOfFile
    <3> QED  BY <3>1
  <2> QED  BY <1>2, <2>1
<1> QED  BY <1>1, <1>2

\* The split stays, as long as the groups do.
LEMMA SplitStays ==
  ASSUME GroupsSplit, job'.base = job.base, job'.file = job.file, job'.groups = job.groups,
         job.pc = "register" => job'.pc = "register"
  PROVE  GroupsSplit'
<1>1. \A iri : IsHome(iri)' <=> IsHome(iri)  BY DEF IsHome, Registered, IsDeclared
<1> QED  BY <1>1 DEF GroupsSplit

\* Beside a group's own triples the store has none of its subjects but what it had before.
LEMMA OnlyItsGroup ==
  ASSUME OnlyOfFile, GroupsSplit, GroupsFit, job.pc \in {"find", "fetch", "write"}, NEW ns \in job.todo, NEW n \in Namespaces
  PROVE  /\ \A q \in job.groups[ns].quads, t \in Triples(store, n) :
              t[1] = q[1] => t \in Triples(job.base, n) \/ t \in OwnDeclarations
         /\ \A b \in job.groups[ns].blocks, e \in store[n].blocks :
              b.of # "none" /\ e.of = b.of => e \in job.base[n].blocks
<1>1. Written = DOMAIN job.groups \ job.todo /\ job.pc # "register"  BY DEF Written
<1>2. ns \in DOMAIN job.groups /\ ns \notin Written  BY <1>1 DEF GroupsFit
<1>3. ASSUME NEW q \in job.groups[ns].quads, NEW t \in Triples(store, n), t[1] = q[1],
             t \notin Triples(job.base, n), t \notin OwnDeclarations
      PROVE  FALSE
  <2>1. PICK m \in Written : t \in job.groups[m].quads  BY <1>3 DEF OnlyOfFile
  <2>2. m = ns  BY <1>1, <1>2, <1>3, <2>1 DEF GroupsSplit
  <2> QED  BY <1>2, <2>2
<1>4. ASSUME NEW b \in job.groups[ns].blocks, NEW e \in store[n].blocks, b.of # "none", e.of = b.of,
             e \notin job.base[n].blocks
      PROVE  FALSE
  <2>1. PICK m \in Written : e \in job.groups[m].blocks  BY <1>4 DEF OnlyOfFile
  <2>2. m = ns  BY <1>1, <1>2, <1>4, <2>1 DEF GroupsSplit
  <2> QED  BY <1>2, <2>2
<1> QED  BY <1>3, <1>4

\* Groups are made by the home of each subject.
LEMMA GroupSplits ==
  ASSUME Forms, Flow, Grown(job.base, store), Group
  PROVE  SameImport /\ GroupsSplit' /\ job'.pc \in {"workspace", "find"} /\ Written' = {}
<1> DEFINE doc == job.file.doc
<1> DEFINE of(b) == IF b.of = "none" THEN Default ELSE GroupNamespace(b.of)
<1> DEFINE groups == {GroupNamespace(q[1]) : q \in doc.quads} \cup {of(b) : b \in doc.blocks}
<1> DEFINE pc == IF groups = {} THEN "workspace" ELSE "find"
<1> DEFINE parts == [n \in groups |-> Doc({q \in doc.quads : GroupNamespace(q[1]) = n},
                                          {b \in doc.blocks : of(b) = n})]
<1>1. job' = [job EXCEPT !.todo = groups, !.pc = pc, !.groups = parts]  BY Zenon DEF Group
<1>2. pc \in {"workspace", "find"} /\ (pc = "workspace" => groups = {})  OBVIOUS
<1>3. job.pc = "register"  BY DEF Group
<1>4. \A iri : IsHome(iri) => GroupNamespace(iri) = HomeOf[iri]
  <2>1. Registered(job.base) \subseteq Registered(store)  BY DeclaredStays
  <2> QED  BY <2>1 DEF IsHome, GroupNamespace
<1>5. DOMAIN parts = groups
      /\ \A n \in groups : /\ parts[n].quads = {q \in doc.quads : GroupNamespace(q[1]) = n}
                           /\ parts[n].blocks = {b \in doc.blocks : of(b) = n}
  BY DEF Doc
<1>6. /\ \A q \in doc.quads : GroupNamespace(q[1]) \in groups
      /\ \A b \in doc.blocks : of(b) \in groups
  OBVIOUS
<1>7. \A b, e : b.of = e.of => of(b) = of(e)  OBVIOUS
<1>n. groups \subseteq Namespaces
  <2>1. job.file.namespaces \subseteq Namespaces  BY <1>3 DEF Flow, JobFits, FileFits
  <2>2. \A iri : GroupNamespace(iri) \in Namespaces  BY <2>1, GraphAssumption DEF GroupNamespace, Registered
  <2> QED  BY <2>2, GraphAssumption
<1> HIDE DEF groups, pc, parts, of
<1>8. /\ job'.pc = pc /\ job'.todo = groups /\ job'.groups = parts /\ job'.kind = job.kind /\ job'.file = job.file
      /\ job'.base = job.base /\ job'.alone = job.alone
  BY <1>1, <1>3 DEF Forms, JobForm, NoJob
<1>9. \A iri : IsHome(iri)' <=> IsHome(iri)  BY <1>8 DEF IsHome, Registered, IsDeclared
<1>10. GroupsSplit'
  <2>1. /\ \A q \in doc.quads : \E ns \in groups : q \in parts[ns].quads
        /\ \A b \in doc.blocks : \E ns \in groups : b \in parts[ns].blocks
    BY <1>5, <1>6
  <2>2. \A ns \in groups : \A q \in parts[ns].quads : IsHome(q[1]) => ns = HomeOf[q[1]]  BY <1>4, <1>5
  <2>3. \A m, n \in groups : \A q \in parts[m].quads, t \in parts[n].quads : q[1] = t[1] => m = n  BY <1>5
  <2>4. \A m, n \in groups : \A b \in parts[m].blocks, e \in parts[n].blocks : b.of = e.of => m = n  BY <1>5, <1>7
  <2> QED  BY <1>5, <1>8, <1>9, <1>n, <2>1, <2>2, <2>3, <2>4 DEF GroupsSplit
<1>11. Written' = {}  BY <1>2, <1>5, <1>8 DEF Written
<1>12. SameImport  BY <1>2, <1>3, <1>8 DEF SameImport
<1> QED  BY <1>2, <1>8, <1>10, <1>11, <1>12

\* What nobody has is sent to its group's namespace.
LEMMA FindHomes ==
  ASSUME Forms, Flow, OnlyOfFile, GroupsSplit, Find
  PROVE  /\ SameImport /\ HomesFound' /\ job'.pc = "fetch"
         /\ job'.groups = job.groups /\ job'.todo = job.todo
<1>0. PICK ns \in job.todo : \E homes \in HomesOf(job.groups[ns], ns) :
        job' = [job EXCEPT !.pc = "fetch", !.group = ns, !.homes = homes]
  BY DEF Find
<1>1. PICK homes \in HomesOf(job.groups[ns], ns) : job' = [job EXCEPT !.pc = "fetch", !.group = ns, !.homes = homes]
  BY <1>0
<1>2. job.pc = "find"  BY DEF Find
<1>3. /\ job'.pc = "fetch" /\ job'.todo = job.todo /\ job'.groups = job.groups /\ job'.group = ns /\ job'.homes = homes
      /\ job'.kind = job.kind /\ job'.file = job.file /\ job'.base = job.base /\ job'.alone = job.alone
  BY <1>1, <1>2 DEF Forms, JobForm, NoJob
<1>4. GroupsFit  BY <1>2 DEF Flow, JobFits
<1> DEFINE S == {q[1] : q \in job.groups[ns].quads}
<1>5. homes \in [S -> Namespaces] /\ \A s \in S : homes[s] \in (IF Holding(s) = {} THEN {ns} ELSE Holding(s))
  BY <1>1 DEF HomesOf
<1>6. ASSUME NEW q \in job.groups[ns].quads, Unknown(q) PROVE homes[q[1]] = ns
  <2>1. Holding(q[1]) = {}
    <3>1. SUFFICES ASSUME NEW n \in Namespaces, NEW t \in Triples(store, n), t[1] = q[1] PROVE FALSE
      BY DEF Holding, Triples
    <3>2. t \in Triples(job.base, n) \/ t \in OwnDeclarations  BY <1>2, <1>4, <3>1, OnlyItsGroup
    <3> QED  BY <1>6, <3>1, <3>2, OwnOnce DEF Unknown, IsNew
  <2>2. q[1] \in S  OBVIOUS
  <2> QED  BY <1>5, <2>1, <2>2
<1>7. \A q : Unknown(q)' <=> Unknown(q)  BY <1>3 DEF Unknown, IsNew, Triples
<1>8. \A q \in job.groups[ns].quads : homes[q[1]] \in Namespaces  BY <1>5
<1>9. HomesFound'
  <2>1. homes = [s \in S |-> homes[s]]  BY <1>5
  <2> QED  BY <1>3, <1>6, <1>7, <1>8, <2>1 DEF HomesFound
<1> QED  BY <1>2, <1>3, <1>9 DEF SameImport

\* The triage keeps them.
LEMMA FetchHomes ==
  ASSUME Forms, HomesFound, Fetch, job' # NoJob
  PROVE  /\ SameImport /\ HomesFound' /\ job'.pc = "write"
         /\ job'.groups = job.groups /\ job'.todo = job.todo
<1>0. PICK clean : job' = [job EXCEPT !.pc = "write", !.clean = clean] \/ job' = NoJob  BY DEF Fetch
<1>1. job' = [job EXCEPT !.pc = "write", !.clean = clean]  BY <1>0
<1>2. job.pc = "fetch"  BY DEF Fetch
<1>3. /\ job'.pc = "write" /\ job'.todo = job.todo /\ job'.groups = job.groups /\ job'.group = job.group
      /\ job'.homes = job.homes /\ job'.kind = job.kind /\ job'.file = job.file /\ job'.base = job.base
      /\ job'.alone = job.alone
  BY <1>1, <1>2 DEF Forms, JobForm, NoJob
<1>4. \A q : Unknown(q)' <=> Unknown(q)  BY <1>3 DEF Unknown, IsNew, Triples
<1> QED  BY <1>2, <1>3, <1>4 DEF HomesFound, SameImport

\* What the triage takes, and what it leaves.
LEMMA Triage ==
  ASSUME NEW d, NEW existing
  PROVE  /\ Clean(d, existing).quads = {q \in d.quads : q \notin existing.quads
                                          /\ \A t \in existing.quads : ~(t[1] = q[1] /\ t[2] = q[2])}
         /\ \A b \in d.blocks : b \in Clean(d, existing).blocks
                                  \/ (b.of # "none" /\ \E e \in existing.blocks : e.of = b.of)
         /\ \A b \in Clean(d, existing).blocks : b \in d.blocks \/ b.of = "none"
  BY DEF Clean, Doc

\* What is known of a triple before its group is written.
LEMMA Looked ==
  ASSUME NEW doc, NEW homes, NEW ns
  PROVE  /\ Existing(doc, homes, ns).quads = UNION {Triples(store, n) : n \in Involved(doc, homes, ns)}
         /\ Existing(doc, homes, ns).blocks = UNION {store[n].blocks : n \in Involved(doc, homes, ns)}
         /\ \A n : /\ PartIn(doc, homes, ns, n).quads = {q \in doc.quads : homes[q[1]] = n}
                   /\ PartIn(doc, homes, ns, n).blocks = {b \in doc.blocks : HomeOfBlock(b, homes, ns) = n}
         /\ \A n \in Namespaces : (\E q \in doc.quads : homes[q[1]] = n) => n \in Involved(doc, homes, ns)
         /\ ns \in Namespaces => Involved(doc, homes, ns) \subseteq Namespaces
<1>1. \A g : Whole(g).blocks = g.blocks  BY DEF Whole, Doc
<1>2. /\ Existing(doc, homes, ns).quads = UNION {Triples(store, n) : n \in Involved(doc, homes, ns)}
      /\ Existing(doc, homes, ns).blocks = UNION {store[n].blocks : n \in Involved(doc, homes, ns)}
  BY <1>1 DEF Existing, Joined, Doc, Triples
<1>3. \A n : /\ PartIn(doc, homes, ns, n).quads = {q \in doc.quads : homes[q[1]] = n}
             /\ PartIn(doc, homes, ns, n).blocks = {b \in doc.blocks : HomeOfBlock(b, homes, ns) = n}
  BY DEF PartIn, Doc
<1>4. ASSUME NEW n \in Namespaces, NEW q \in doc.quads, homes[q[1]] = n PROVE n \in Involved(doc, homes, ns)
  <2>1. PartIn(doc, homes, ns, n).quads # {}  BY <1>3, <1>4
  <2>2. NoDoc.quads = {}  BY DEF NoDoc, Doc
  <2> QED  BY <2>1, <2>2 DEF Involved
<1>5. ns \in Namespaces => Involved(doc, homes, ns) \subseteq Namespaces  BY DEF Involved
<1> QED  BY <1>2, <1>3, <1>4, <1>5

\* A group's update stores what had no value, in the namespace of its subject, and nothing else.
LEMMA GroupArrives ==
  ASSUME Forms, Flow, FetchStands, Followed, Grown(job.base, store), OnlyOfFile, GroupsSplit, HomesFound,
         \A ns \in Written : GroupArrived(ns), WriteGroup
  PROVE  /\ SameImport /\ Grown(store, store') /\ OnlyOfFile' /\ job'.pc \in {"find", "workspace"}
         /\ job'.groups = job.groups /\ \A ns \in Written' : GroupArrived(ns)'
<1> DEFINE g == job.group
<1> DEFINE doc == job.groups[g]
<1> DEFINE existing == Existing(doc, job.homes, g)
<1> DEFINE part(n) == PartIn(doc, job.homes, g, n)
<1>0. job.pc = "write" /\ job.kind = "bundle" /\ job.alone  BY DEF Followed, WriteGroup
<1>1. GroupsFit /\ g \in job.todo  BY <1>0 DEF Flow, JobFits
<1>2. g \in Namespaces /\ g \in DOMAIN job.groups /\ g \notin Written  BY <1>0, <1>1 DEF GroupsFit, Written
<1>p. \A n : /\ part(n).quads = {q \in doc.quads : job.homes[q[1]] = n}
             /\ part(n).blocks = {b \in doc.blocks : HomeOfBlock(b, job.homes, g) = n}
  BY DEF PartIn, Doc
<1>3. \A n \in Namespaces : job.clean[n] = Clean(part(n), existing)  BY <1>0 DEF FetchStands, Cleaned
<1>4. store' = [n \in Namespaces |-> InsertInto(store[n], job.clean[n])]  BY DEF WriteGroup
<1>5. ASSUME NEW n \in Namespaces
      PROVE  /\ Triples(store', n) = Triples(store, n) \cup job.clean[n].quads
             /\ store'[n].blocks = store[n].blocks \cup job.clean[n].blocks
             /\ store[n].schema \subseteq store'[n].schema
  <2>1. \A h : Whole(h).blocks = h.blocks  BY DEF Whole, Doc
  <2> QED  BY <1>4, <2>1, InsertGraph DEF Triples
<1>6. Grown(store, store')  BY <1>5 DEF Grown
<1> DEFINE todo == job.todo \ {g}
<1> DEFINE pc == AfterGroup(todo)
<1>7. pc \in {"find", "workspace"} /\ (pc = "workspace" => todo = {})  BY <1>0 DEF AfterGroup
<1>8. job' = [job EXCEPT !.todo = todo, !.pc = pc, !.clean = <<>>]  BY DEF WriteGroup
<1> HIDE DEF todo, pc
<1>9. /\ job'.pc = pc /\ job'.todo = todo /\ job'.groups = job.groups /\ job'.kind = job.kind
      /\ job'.file = job.file /\ job'.base = job.base /\ job'.alone = job.alone
  <2>1. PICK p, t : p = pc /\ t = todo /\ job' = [job EXCEPT !.todo = t, !.pc = p, !.clean = <<>>]  BY <1>8
  <2>2. NoJob.pc = "idle"  BY DEF NoJob
  <2> QED  BY <1>0, <2>1, <2>2 DEF Forms, JobForm
<1>10. Written' = Written \cup {g}
  <2>1. Written = DOMAIN job.groups \ job.todo  BY <1>0 DEF Written
  <2>2. Written' = IF pc = "find" THEN DOMAIN job.groups \ todo ELSE DOMAIN job.groups  BY <1>7, <1>9 DEF Written
  <2> QED  BY <1>2, <1>7, <2>1, <2>2 DEF todo
<1>11. ASSUME NEW n \in Namespaces
       PROVE  /\ \A q \in job.clean[n].quads : q \in doc.quads
              /\ \A b \in job.clean[n].blocks : b \in doc.blocks \/ b.of = "none"
  <2>1. part(n).quads \subseteq doc.quads /\ part(n).blocks \subseteq doc.blocks  BY <1>p
  <2> HIDE DEF part, existing, doc
  <2> QED  BY <1>3, <2>1, Triage
<1>12. OnlyOfFile'
  <2>1. \A n \in Namespaces :
          /\ \A q \in Triples(store', n) \ Triples(store, n) : q \in job'.groups[g].quads
          /\ \A b \in store'[n].blocks \ store[n].blocks : b.of = "none" \/ b \in job'.groups[g].blocks
    BY <1>5, <1>9, <1>11
  <2> HIDE DEF doc, g
  <2> QED  BY <1>9, <1>10, <2>1, OnlyOn
<1>13. \A m \in Involved(doc, job.homes, g) : m \in Namespaces  BY <1>2, Looked
<1>14. ASSUME NEW q \in doc.quads
       PROVE  /\ HasValue(job.base, q) \/ \E n \in Namespaces : q \in Triples(store', n)
              /\ Unknown(q) => q \in Triples(store', g)
  <2> DEFINE n == job.homes[q[1]]
  <2>1. n \in Namespaces /\ (Unknown(q) => n = g)  BY <1>0 DEF HomesFound
  <2>2. q \in part(n).quads  BY <1>p
  <2>3. q \in job.clean[n].quads \/ q \in existing.quads
          \/ \E t \in existing.quads : t[1] = q[1] /\ t[2] = q[2]
    <3> HIDE DEF part, existing, n
    <3> QED  BY <1>3, <2>1, <2>2, Triage
  <2>4. CASE q \in job.clean[n].quads
    <3> HIDE DEF n
    <3> QED  BY <1>5, <2>1, <2>4
  <2>5. ASSUME NEW t \in existing.quads, t = q \/ (t[1] = q[1] /\ t[2] = q[2])
        PROVE  /\ HasValue(job.base, q) \/ \E k \in Namespaces : q \in Triples(store', k)
               /\ ~Unknown(q)
    <3>1. PICK m \in Namespaces : t \in Triples(store, m)  BY <1>13, Looked
    <3>2. t[1] = q[1] /\ t[2] = q[2]  BY <2>5
    <3>3. t \in Triples(job.base, m) \/ t \in OwnDeclarations  BY <1>0, <1>1, <3>1, <3>2, OnlyItsGroup
    <3>4. CASE t \in Triples(job.base, m)  BY <3>2, <3>4 DEF HasValue, Unknown, IsNew
    <3>5. CASE t \in OwnDeclarations
      <4>1. q[1] \in OwnIris /\ q[2] = "a"  BY <3>2, <3>5, OwnOnce
      <4>2. Fits(q)  BY <1>2, <1>1 DEF GroupsFit, AllFit
      <4>3. q = t  BY <3>2, <3>5, <4>1, <4>2, OwnOnce DEF Fits
      <4> QED  BY <1>5, <3>1, <4>1, <4>3 DEF Unknown
    <3> QED  BY <3>3, <3>4, <3>5
  <2>6. CASE \E t \in existing.quads : t = q \/ (t[1] = q[1] /\ t[2] = q[2])  BY <2>5, <2>6
  <2> QED  BY <2>3, <2>4, <2>6
<1>15. ASSUME NEW b \in doc.blocks, b.of # "none"
       PROVE  \E n \in Namespaces : b \in store'[n].blocks \/ \E e \in job.base[n].blocks : e.of = b.of
  <2> DEFINE n == HomeOfBlock(b, job.homes, g)
  <2>1. n \in Namespaces
    <3>1. DOMAIN job.homes = {q[1] : q \in doc.quads}  BY <1>0 DEF HomesFound
    <3> QED  BY <1>0, <1>2, <3>1 DEF HomesFound, HomeOfBlock
  <2>2. b \in part(n).blocks  BY <1>p
  <2>3. b \in job.clean[n].blocks \/ \E e \in existing.blocks : e.of = b.of
    <3> HIDE DEF part, existing, n
    <3> QED  BY <1>3, <2>1, <2>2, Triage
  <2>4. CASE b \in job.clean[n].blocks
    <3> HIDE DEF n
    <3> QED  BY <1>5, <2>1, <2>4
  <2>5. ASSUME NEW e \in existing.blocks, e.of = b.of PROVE \E m \in Namespaces : e \in job.base[m].blocks
    <3>1. PICK m \in Namespaces : e \in store[m].blocks  BY <1>13, Looked
    <3> QED  BY <1>0, <1>1, <1>15, <2>5, <3>1, OnlyItsGroup
  <2> QED  BY <2>3, <2>4, <2>5
<1>16. ASSUME NEW k, k = g PROVE GroupArrived(k)'
  <2>1. \A q : Unknown(q)' <=> Unknown(q)  BY <1>9 DEF Unknown, IsNew, Triples
  <2>2. \A q : Has(q)' <=> HasValue(job.base, q) \/ \E n \in Namespaces : q \in Triples(store', n)
    BY <1>9 DEF Has, HasValue, Triples
  <2>3. \A b : HasBlock(b)' <=> \E n \in Namespaces : b \in store'[n].blocks \/ \E e \in job.base[n].blocks : e.of = b.of
    BY <1>9 DEF HasBlock
  <2>4. job'.groups[k] = doc  BY <1>9, <1>16
  <2>5. \A q \in job'.groups[k].quads : Has(q)' /\ (Unknown(q)' => q \in Triples(store', k))
    BY <1>14, <1>16, <2>1, <2>2, <2>4
  <2>6. \A b \in job'.groups[k].blocks : b.of # "none" => HasBlock(b)'
    BY <1>15, <2>3, <2>4
  <2> QED  BY <2>5, <2>6 DEF GroupArrived, Triples
<1>17. \A ns \in Written' : GroupArrived(ns)'
  <2>1. ASSUME NEW ns \in Written PROVE GroupArrived(ns)'
    <3>1. ns \in Namespaces  BY <1>0 DEF Written, GroupsSplit
    <3> QED  BY <1>6, <1>9, <3>1, ArrivedStays
  <2> QED  BY <1>10, <1>16, <2>1
<1> QED  BY <1>6, <1>7, <1>9, <1>12, <1>17, <1>0 DEF SameImport

\* What one of the declaring steps does to the store.
Declares(iri, class) == store' = IF IsDeclared(store, iri, class) THEN store ELSE Ensured(store, iri, class)

\* What the store has more is the app's own.
OwnAdded ==
  \A n \in Namespaces : Triples(store', n) \ Triples(store, n) \subseteq OwnDeclarations /\ store'[n].blocks = store[n].blocks

\* It adds at most a declaration.
LEMMA DeclareStep ==
  ASSUME GraphsForm, NEW iri, NEW class,
         \/ class = "Namespace" /\ iri \in Namespaces
         \/ class = "Workspace" /\ iri = Workspace
         \/ class = "Note" /\ iri \in Notes,
         Declares(iri, class)
  PROVE  Grown(store, store') /\ IsDeclared(store', iri, class) /\ OwnAdded
<1>1. Declaration(iri, class) \subseteq OwnDeclarations  BY DEF OwnDeclarations
<1>2. CASE IsDeclared(store, iri, class)
  <2>1. store' = store  BY <1>2 DEF Declares
  <2> QED  BY <1>2, <2>1 DEF Grown, OwnAdded, Triples
<1>3. CASE ~IsDeclared(store, iri, class)
  <2>1. PICK st : st = store' /\ st = Ensured(store, iri, class)  BY <1>3 DEF Declares
  <2>2. /\ Grown(store, st) /\ IsDeclared(st, iri, class)
        /\ \A n \in Namespaces : /\ Triples(st, n) \ Triples(store, n) \subseteq Declaration(iri, class)
                                 /\ st[n].blocks = store[n].blocks
    BY <2>1, EnsuredGrows
  <2> QED  BY <1>1, <2>1, <2>2 DEF OwnAdded
<1> QED  BY <1>2, <1>3

\* The graphs' part of what is known of an import.
InStore ==
  /\ Grown(job.base, store) /\ OnlyOfFile /\ GroupsSplit
  /\ \A ns \in Written : GroupArrived(ns)

\* It stays in the steps that write no group.
LEMMA StoreStays ==
  ASSUME InStore, SameImport, Grown(store, store'), OwnAdded, job'.groups = job.groups, Written' = Written,
         job.pc = "register" => job'.pc = "register"
  PROVE  InStore'
<1>1. job'.base = job.base /\ job'.file = job.file  BY DEF SameImport
<1>2. Grown(job.base, store)'
  <2>1. Grown(job.base, store')  BY GrownOn DEF InStore
  <2>2. Grown(job.base, store)' <=> Grown(job'.base, store')  BY DEF Grown, Triples
  <2> QED  BY <1>1, <2>1, <2>2
<1>3. OnlyOfFile'  BY <1>1, OnlyOn DEF InStore, OwnAdded
<1>4. GroupsSplit'  BY <1>1, SplitStays DEF InStore
<1>5. ASSUME NEW ns \in Written' PROVE GroupArrived(ns)'
  <2>1. ns \in Written  BY <1>5
  <2>2. ns \in Namespaces  BY <2>1 DEF InStore, Written, GroupsSplit
  <2> QED  BY <1>1, <2>1, <2>2, ArrivedStays DEF InStore
<1> QED  BY <1>2, <1>3, <1>4, <1>5 DEF InStore

\* What a step does to what was declared.
LEMMA DeclaredOn ==
  ASSUME DeclaredSoFar, SameImport, Grown(store, store'),
         \/ job.pc = "register" /\ job'.pc = "register" /\ \A n \in job.todo : n \in job'.todo \/ n \in Registered(store')
         \/ job.pc = "register" /\ job.todo = {} /\ job'.pc \in {"workspace", "find"}
         \/ /\ job.pc \in {"find", "fetch", "write"} /\ job'.pc \in {"find", "fetch", "write", "workspace"}
         \/ job.pc = "workspace" /\ job'.pc = "members" /\ IsDeclared(store', Workspace, "Workspace")
         \/ job.pc \in {"members", "adding"} /\ job'.pc \in {"members", "adding"}
         \/ job.pc = "members" /\ job'.pc = "notes" /\ job'.todo = job.file.notes
         \/ job.pc = "notes" /\ job'.pc = "notes" /\ \A n \in job.todo : n \in job'.todo \/ n \in StoredNotes(store')
         \/ job.pc = "notes" /\ job.todo = {} /\ job'.pc = "done"
  PROVE  DeclaredSoFar'
<1>1. /\ IsDeclared(store, Workspace, "Workspace") => IsDeclared(store', Workspace, "Workspace")
      /\ Registered(store) \subseteq Registered(store') /\ StoredNotes(store) \subseteq StoredNotes(store')
  BY DeclaredStays
<1>2. job'.file = job.file  BY DEF SameImport
<1>3. /\ Registered(store)' = Registered(store') /\ StoredNotes(store)' = StoredNotes(store')
      /\ IsDeclared(store, Workspace, "Workspace")' <=> IsDeclared(store', Workspace, "Workspace")
  BY DEF Registered, StoredNotes, IsDeclared
<1>4. \A n \in job'.file.namespaces : n \in Registered(store') \/ (job'.pc = "register" /\ n \in job'.todo)
  BY <1>1, <1>2 DEF DeclaredSoFar
<1>5. job'.pc \in {"members", "adding", "notes", "done"} => IsDeclared(store', Workspace, "Workspace")
  BY <1>1 DEF DeclaredSoFar
<1>6. job'.pc \in {"notes", "done"} =>
        \A n \in job'.file.notes : n \in StoredNotes(store') \/ (job'.pc = "notes" /\ n \in job'.todo)
  BY <1>1, <1>2 DEF DeclaredSoFar
<1> QED  BY <1>3, <1>4, <1>5, <1>6 DEF DeclaredSoFar

\* What a step that makes no request for a row does to what was placed.
LEMMA MembersOn ==
  ASSUME MembersSoFar, SameImport, UNCHANGED <<rows, call>>,
         \/ job'.pc \notin {"members", "adding", "notes", "done"}
         \/ job'.pc = "members" /\ job'.todo = job.file.members
         \/ job.pc = "adding" /\ job'.pc = "members" /\ job'.todo = job.todo /\ \A c \in job.caller : call[c] = Idle
         \/ job.pc = "members" /\ job.todo = {} /\ job'.pc = "notes"
         \/ job.pc = "notes" /\ job'.pc \in {"notes", "done"}
  PROVE  MembersSoFar'
<1>1. job'.file = job.file  BY DEF SameImport
<1>2. MembersOf(rows)' = MembersOf(rows)  BY DEF MembersOf
<1>3. job'.pc \in {"members", "adding", "notes", "done"} =>
        \A i \in job'.file.members : i.element \in MembersOf(rows) \/ (job'.pc = "members" /\ i \in job'.todo)
  <2>1. SUFFICES ASSUME job'.pc \in {"members", "adding", "notes", "done"}, NEW i \in job.file.members
                 PROVE  i.element \in MembersOf(rows) \/ (job'.pc = "members" /\ i \in job'.todo)
    BY <1>1
  <2>2. CASE job'.pc = "members" /\ job'.todo = job.file.members  BY <2>1, <2>2
  <2>3. CASE job.pc = "adding" /\ job'.pc = "members" /\ job'.todo = job.todo /\ \A c \in job.caller : call[c] = Idle
    <3>1. ~BeingAdded(i.element)  BY <2>3 DEF BeingAdded
    <3> QED  BY <2>1, <2>3, <3>1 DEF MembersSoFar
  <2>4. CASE job.pc = "members" /\ job.todo = {} /\ job'.pc = "notes"  BY <2>1, <2>4 DEF MembersSoFar
  <2>5. CASE job.pc = "notes" /\ job'.pc \in {"notes", "done"}  BY <2>1, <2>5 DEF MembersSoFar
  <2> QED  BY <2>1, <2>2, <2>3, <2>4, <2>5
<1> QED  BY <1>2, <1>3 DEF MembersSoFar

\* One of the import's requests for a row: it goes on with its element, or has placed it.
LEMMA RequestPlaces ==
  ASSUME Placing, NEW c \in Calls, OwnRequest(c), call[c] = Idle \/ call[c].op = "add"
  PROVE  /\ MembersOf(rows) \subseteq MembersOf(rows')
         /\ (call'[c] # Idle /\ E(c)' = E(c)) \/ E(c) \in MembersOf(rows')
<1>0. call = [d \in Calls |-> call[d]] /\ CallSound(rows, call[c]) /\ RowsSound(rows)  BY DEF Placing
<1>1. call[c] # Idle /\ call[c].op = "add"
  BY DEF OwnRequest, AskHashed, AskLegacy, AskTaken, AskExists, WriteRow, InsertChunk, Idle
<1>2. ASSUME rows' = rows,
             NEW pc, NEW i, NEW s, call[c] = Record(pc, "add", <<i>>, s),
             (\E p : Ask(c, p)) \/ (\E t : Found(c, t))
      PROVE  call'[c] # Idle /\ E(c)' = E(c)
  <2>1. PICK p, t : call'[c] = Record(p, "add", <<i>>, t)
    <3>1. PICK op, items : op = "add" /\ items = <<i>> /\ call[c] = Record(pc, op, items, s)  BY <1>2
    <3>2. ASSUME NEW p, Ask(c, p) PROVE call'[c] = Record(p, op, items, s)  BY <1>0, <3>1, <3>2, AskCall
    <3>3. ASSUME NEW t, Found(c, t) PROVE call'[c] = Record(Write[op], op, items, t)  BY <1>0, <3>1, <3>3, FoundCall
    <3> QED  BY <1>2, <3>1, <3>2, <3>3
  <2>2. Record(p, "add", <<i>>, t).op = "add"  BY DEF Record
  <2>3. call'[c] # Idle  BY <2>1, <2>2 DEF Idle
  <2>4. call'[c].items = <<i>> /\ call[c].items = <<i>>  BY <1>2, <2>1 DEF Record
  <2>5. E(c)' = E(c)  BY <2>4 DEF E
  <2> QED  BY <2>3, <2>5
<1>3. ASSUME NEW op, NEW pc, NEW i, NEW s, call[c] = Record(pc, op, <<i>>, s) PROVE op = "add"
  BY <1>1, <1>3 DEF Record
<1>m. rows' = rows => MembersOf(rows) \subseteq MembersOf(rows')  OBVIOUS
<1>4. CASE AskHashed(c)
  <2>1. PICK op \in {"add", "update"}, i \in Items : call[c] = Record("hashed?", op, <<i>>, "none")  BY <1>0, <1>4, CallAt DEF AskHashed
  <2>2. rows' = rows /\ ((\E p : Ask(c, p)) \/ (\E t : Found(c, t)))  BY <1>4 DEF AskHashed
  <2> QED  BY <1>2, <1>3, <1>m, <2>1, <2>2
<1>5. CASE AskLegacy(c)
  <2>1. PICK op \in {"add", "update"}, i \in Items : call[c] = Record("legacy?", op, <<i>>, "none")  BY <1>0, <1>5, CallAt DEF AskLegacy
  <2>2. rows' = rows /\ ((\E p : Ask(c, p)) \/ (\E t : Found(c, t)))  BY <1>5 DEF AskLegacy
  <2> QED  BY <1>2, <1>3, <1>m, <2>1, <2>2
<1>6. CASE AskTaken(c)
  <2>1. PICK op \in {"add", "update"}, i \in Items : call[c] = Record("taken?", op, <<i>>, "none")  BY <1>0, <1>6, CallAt DEF AskTaken
  <2>2. rows' = rows /\ ((\E p : Ask(c, p)) \/ (\E t : Found(c, t)))  BY <1>6 DEF AskTaken
  <2> QED  BY <1>2, <1>3, <1>m, <2>1, <2>2
<1>7. CASE AskExists(c)
  <2>1. PICK i \in Items, s \in Subjects : call[c] = Record("exists?", "add", <<i>>, s)
    BY <1>0, <1>7, CallAt DEF AskExists
  <2>2. rows' = rows  BY <1>7 DEF AskExists
  <2>3. E(c) = i.element /\ call[c].subject = s /\ i.element \in Elements  BY <2>1, CallsItem DEF Items
  <2>4. CASE Owned(rows, s, i.element)  BY <1>m, <2>2, <2>3, <2>4 DEF MembersOf
  <2>5. CASE ~Owned(rows, s, i.element)
    <3>1. Ask(c, "write")  BY <1>7, <2>3, <2>5 DEF AskExists
    <3> QED  BY <1>2, <1>m, <2>1, <2>2, <3>1
  <2> QED  BY <2>4, <2>5
<1>8. CASE WriteRow(c)
  <2>1. PICK i \in Items, s \in Subjects :
          /\ Slot(rows, s, i.element)
          /\ \/ call[c] = Record("write", "add", <<i>>, s) /\ ~Owned(rows, s, i.element)
             \/ call[c] = Record("write", "update", <<i>>, s)
    BY <1>0, <1>8, CallAt DEF WriteRow
  <2>2. call[c] = Record("write", "add", <<i>>, s) /\ ~Owned(rows, s, i.element)  BY <1>1, <2>1 DEF Record
  <2>3. call[c].items[1] = i /\ call[c].subject = s /\ E(c) = i.element  BY <2>2, CallsItem
  <2>4. rows' = Inserted(rows, s, i)  BY <1>1, <1>8, <2>3 DEF WriteRow
  <2>5. rows[s] = NoRow
    <3>1. rows[s].elements = {}  BY <2>1, <2>2 DEF Slot, Owned
    <3> QED  BY <1>0, <3>1 DEF RowsSound
  <2>6. NotPlaced(rows, i.element)  BY <2>1, <2>2 DEF Slot, NotPlaced
  <2>7. /\ rows'[s] = [elements |-> {i.element}, positions |-> {i.position}]
        /\ \A t \in Subjects \ {s} : rows'[t] = rows[t]
    <3>1. SubjectOf(s, i.element)  BY <2>1 DEF Slot
    <3> QED  BY <1>0, <2>4, <2>5, <2>6, <3>1, InsertSound
  <2>8. \A t \in Subjects : \A e : Owned(rows, t, e) => Owned(rows', t, e)
    <3>1. \A e : ~Owned(rows, s, e)  BY <2>5 DEF Owned, NoRow
    <3> QED  BY <2>7, <3>1 DEF Owned
  <2>9. Owned(rows', s, i.element) /\ i.element \in Elements  BY <2>7 DEF Owned, Items
  <2>10. MembersOf(rows) \subseteq MembersOf(rows')  BY <2>8 DEF MembersOf
  <2>11. i.element \in MembersOf(rows')  BY <2>9 DEF MembersOf
  <2> QED  BY <2>3, <2>10, <2>11
<1>9. CASE InsertChunk(c)  BY <1>1, <1>9 DEF InsertChunk
<1> QED  BY <1>4, <1>5, <1>6, <1>7, <1>8, <1>9 DEF OwnRequest

\* A step of a call, the import's or another, that leaves the import undisturbed.
LEMMA MembersBeside ==
  ASSUME SingleCall, Forms, Placing, CallerSound, Followed, MembersSoFar, NEW c \in Calls, MemberStep(c) \/ CallFails(c), Followed'
  PROVE  job' = job /\ store' = store /\ MembersSoFar'
<1>n. JobForm /\ NoJob.pc = "idle"  BY DEF Forms, NoJob
<1>0. job' = job
  <2>1. job' = job \/ job' = Disturbed \/ job' = NoJob  BY DEF MemberStep, CallFails
  <2>2. job' # NoJob  BY <1>n DEF Followed
  <2>3. job' # Disturbed
    <3>1. Disturbed = [job EXCEPT !.alone = FALSE]  BY DEF Disturbed, Followed
    <3>2. Disturbed.alone = FALSE  BY <1>n, <3>1 DEF JobForm, Followed
    <3> QED  BY <3>2 DEF Followed
  <2> QED  BY <2>1, <2>2, <2>3
<1>1. store' = store  BY DEF MemberStep, CallFails
<1> DEFINE Goes(d, e) == d \in job'.caller /\ d \in Calls /\ call'[d] # Idle /\ call'[d].items[1].element = e
<1>2. ASSUME MembersOf(rows) \subseteq MembersOf(rows'),
             \A e : BeingAdded(e) => (\E d : Goes(d, e)) \/ e \in MembersOf(rows')
      PROVE  MembersSoFar'
  <2>1. MembersOf(rows)' = MembersOf(rows')  BY DEF MembersOf
  <2>2. ASSUME NEW i \in job.file.members, job.pc \in {"members", "adding", "notes", "done"}
        PROVE  \/ i.element \in MembersOf(rows')
               \/ job.pc \in {"members", "adding"} /\ i \in job.todo
               \/ job.pc = "adding" /\ \E d : Goes(d, i.element)
    BY <1>2, <2>2 DEF MembersSoFar
  <2> QED  BY <1>0, <2>1, <2>2 DEF MembersSoFar, BeingAdded, E
<1>3. CASE c \notin job.caller
  <2>1. \A d \in job.caller : FALSE  BY <1>3 DEF SingleCall, CallerSound
  <2>2. rows' = rows
    <3>1. CASE MemberStep(c)
      <4>1. rows' # rows => job' = Disturbed  BY <1>3, <3>1 DEF MemberStep
      <4>2. job' # Disturbed
        <5>1. Disturbed = [job EXCEPT !.alone = FALSE]  BY DEF Disturbed, Followed
        <5>2. Disturbed.alone = FALSE  BY <1>n, <5>1 DEF JobForm, Followed
        <5> QED  BY <5>2 DEF Followed
      <4> QED  BY <4>1, <4>2
    <3>2. CASE CallFails(c)  BY <3>2 DEF CallFails, Fail
    <3> QED  BY <3>1, <3>2
  <2>3. \A e : ~BeingAdded(e)  BY <2>1 DEF BeingAdded
  <2>4. MembersOf(rows') = MembersOf(rows)  BY <2>2
  <2> QED  BY <1>0, <1>1, <1>2, <2>3, <2>4
<1>4. CASE c \in job.caller
  <2>1. MemberStep(c)
    <3>1. CallFails(c) => job' = NoJob  BY <1>4 DEF CallFails
    <3> QED  BY <3>1, <1>n DEF Followed
  <2>2. OwnRequest(c)  BY <1>4, <2>1 DEF MemberStep, UserCall
  <2>3. call[c] = Idle \/ call[c].op = "add"  BY <1>4 DEF CallerSound
  <2>4. /\ MembersOf(rows) \subseteq MembersOf(rows')
        /\ (call'[c] # Idle /\ E(c)' = E(c)) \/ E(c) \in MembersOf(rows')
    BY <2>2, <2>3, RequestPlaces
  <2>5. \A d \in job.caller : d = c  BY DEF SingleCall, CallerSound
  <2>6. ASSUME NEW e, BeingAdded(e) PROVE (\E d : Goes(d, e)) \/ e \in MembersOf(rows')
    <3>1. E(c) = e  BY <2>5, <2>6 DEF BeingAdded
    <3>2. call'[c] # Idle /\ E(c)' = E(c) => Goes(c, e)  BY <1>0, <1>4, <3>1 DEF E
    <3> QED  BY <2>4, <3>1, <3>2
  <2> QED  BY <1>0, <1>1, <1>2, <2>4, <2>6
<1> QED  BY <1>0, <1>1, <1>3, <1>4

\* The steps in which an import is followed: it begins, somebody does something else, or it makes a step.
LEMMA FollowedSteps ==
  ASSUME Forms, [TransferNext]_allVars, Followed'
  PROVE  \/ \E f \in files : ImportBundle(f)
         \/ job' = job /\ UNCHANGED <<store, rows, call>>
         \/ \E c \in Calls : MemberStep(c) \/ CallFails(c)
         \/ (JobOnly /\ job' # NoJob) \/ JobWrites
         \/ \E c \in Calls : AddMember(c)
<1>n. JobForm /\ NoJob.pc = "idle"  BY DEF Forms, NoJob
<1>1. ASSUME NEW doc, NEW n, ImportFile(doc, n) PROVE FALSE
  <2>1. job'.kind = "file"  BY <1>1 DEF ImportFile, Begun
  <2> QED  BY <2>1 DEF Followed
<1>2. CASE SaveWrites
  <2>1. job' = Disturbed  BY <1>2 DEF SaveWrites
  <2>2. job.pc # "idle" => job'.alone = FALSE  BY <1>n, <2>1 DEF Disturbed, JobForm
  <2>3. job.pc = "idle" => job'.pc = "idle"  BY <2>1 DEF Disturbed
  <2> QED  BY <2>2, <2>3 DEF Followed
<1>3. job' # NoJob  BY <1>n DEF Followed
<1>4. CASE Export  BY <1>4 DEF Export
<1>5. ASSUME NEW iri, NEW ns, Open(iri, ns) PROVE job' = job /\ UNCHANGED <<store, rows, call>>  BY <1>5 DEF Open
<1>6. CASE Close  BY <1>6 DEF Close
<1>7. ASSUME NEW l, Loaded(l) \/ LoadFails(l) PROVE job' = job /\ UNCHANGED <<store, rows, call>>
  BY <1>7 DEF Loaded, LoadFails, PanelOnly
<1>8. ASSUME NEW tab, NEW text, Save(tab, text) PROVE job' = job /\ UNCHANGED <<store, rows, call>>  BY <1>8 DEF Save
<1>9. CASE SaveFails  BY <1>9 DEF SaveFails
<1>10. CASE UNCHANGED allVars  BY <1>10 DEF allVars, transferVars
<1> QED
  BY <1>1, <1>2, <1>3, <1>4, <1>5, <1>6, <1>7, <1>8, <1>9, <1>10 DEF TransferNext, JobOnly, JobWrites

\* An import that begins has brought nothing yet.
LEMMA BeginsArriving ==
  ASSUME NEW f, ImportBundle(f)
  PROVE  Arriving'
<1>1. job' = Begun("bundle", f, f.namespaces, "register") /\ store' = store  BY DEF ImportBundle
<1>2. job'.pc = "register" /\ job'.todo = f.namespaces /\ job'.file = f /\ job'.base = store  BY <1>1 DEF Begun
<1>3. Grown(job.base, store)'  BY <1>1, <1>2 DEF Grown, Triples
<1>4. OnlyOfFile'  BY <1>1, <1>2 DEF OnlyOfFile, Triples
<1>5. GroupsSplit' /\ HomesFound' /\ MembersSoFar'  BY <1>2 DEF GroupsSplit, HomesFound, MembersSoFar
<1>6. \A ns \in Written' : GroupArrived(ns)'  BY <1>2 DEF Written
<1>7. DeclaredSoFar'  BY <1>2 DEF DeclaredSoFar
<1> QED  BY <1>3, <1>4, <1>5, <1>6, <1>7 DEF Arriving

\* What is said of an import, in other words.
LEMMA ArrivingIs == Arriving <=> (Followed => InStore /\ HomesFound /\ DeclaredSoFar /\ MembersSoFar)
  BY DEF Arriving, InStore

\* What is done beside it, leaving the store.
LEMMA BesideArriving ==
  ASSUME Arriving, job' = job, store' = store, Followed' => MembersSoFar'
  PROVE  Arriving'
<1>1. Followed' <=> Followed  BY DEF Followed
<1>2. Grown(job.base, store)' <=> Grown(job.base, store)  BY DEF Grown, Triples
<1>3. Written' = Written  BY DEF Written
<1>4. OnlyOfFile' <=> OnlyOfFile  BY <1>3 DEF OnlyOfFile, Triples
<1>5. \A iri : IsHome(iri)' <=> IsHome(iri)  BY DEF IsHome, Registered, IsDeclared
<1>6. GroupsSplit' <=> GroupsSplit  BY <1>5 DEF GroupsSplit
<1>7. \A q : Unknown(q)' <=> Unknown(q)  BY DEF Unknown, IsNew, Triples
<1>8. HomesFound' <=> HomesFound  BY <1>7 DEF HomesFound
<1>9. ASSUME NEW ns \in Written', Followed, Arriving PROVE GroupArrived(ns)'
  <2>1. \A q : Has(q)' <=> Has(q)  BY DEF Has, HasValue, Triples
  <2>2. \A b : HasBlock(b)' <=> HasBlock(b)  BY DEF HasBlock
  <2>3. GroupArrived(ns)  BY <1>3, <1>9 DEF Arriving
  <2> QED  BY <1>7, <2>1, <2>2, <2>3 DEF GroupArrived, Triples
<1>10. DeclaredSoFar' <=> DeclaredSoFar  BY DEF DeclaredSoFar, Registered, StoredNotes, IsDeclared
<1> QED  BY <1>1, <1>2, <1>4, <1>6, <1>8, <1>9, <1>10 DEF Arriving

\* What is known of an import, all at once.
LEMMA Arrives == ASSUME InStore', HomesFound', DeclaredSoFar', MembersSoFar' PROVE Arriving'
  BY DEF Arriving, InStore

\* It declares the namespaces of the file.
LEMMA RegisterArriving ==
  ASSUME Forms, Flow, InStore, DeclaredSoFar, MembersSoFar, Register
  PROVE  Arriving'
<1>n. JobForm /\ NoJob.pc = "idle"  BY DEF Forms, NoJob
<1>0. PICK n \in job.todo : Declares(n, "Namespace") /\ job' = [job EXCEPT !.todo = @ \ {n}]  BY DEF Register, Declares
<1>1. job.pc = "register" /\ UNCHANGED <<rows, call>>  BY DEF Register, RestUnchanged
<1>2. n \in Namespaces  BY <1>1 DEF Flow, JobFits
<1>3. SameImport /\ job'.pc = "register" /\ job'.groups = job.groups /\ job'.todo = job.todo \ {n}
  BY <1>n, <1>0, <1>1 DEF JobForm, SameImport
<1>4. Grown(store, store') /\ IsDeclared(store', n, "Namespace") /\ OwnAdded  BY <1>0, <1>2, DeclareStep DEF Forms
<1>5. n \in Registered(store')  BY <1>2, <1>4 DEF Registered
<1>6. InStore'  BY <1>1, <1>3, <1>4, StoreStays DEF Written
<1>7. HomesFound'  BY <1>3 DEF HomesFound
<1>8. DeclaredSoFar'  BY <1>1, <1>3, <1>4, <1>5, DeclaredOn
<1>9. MembersSoFar'  BY <1>1, <1>3, MembersOn
<1> QED  BY <1>6, <1>7, <1>8, <1>9, Arrives

\* It leaves the store.
LEMMA NothingGrown ==
  ASSUME store' = store
  PROVE  Grown(store, store') /\ OwnAdded
  BY DEF Grown, OwnAdded, Triples

\* It groups the file.
LEMMA GroupArriving ==
  ASSUME Forms, Flow, InStore, DeclaredSoFar, MembersSoFar, Group
  PROVE  Arriving'
<1>1. job.pc = "register" /\ job.todo = {} /\ UNCHANGED <<store, rows, call>>  BY DEF Group, RestUnchanged
<1>2. SameImport /\ GroupsSplit' /\ job'.pc \in {"workspace", "find"} /\ Written' = {}  BY GroupSplits DEF InStore
<1>3. Written = {}  BY <1>1 DEF Written
<1>4. Grown(store, store') /\ OwnAdded  BY <1>1, NothingGrown
<1>5. Grown(job.base, store)'
  <2>1. Grown(job'.base, store')  BY <1>1, <1>2 DEF InStore, SameImport
  <2> QED  BY <2>1 DEF Grown, Triples
<1>6. OnlyOfFile'  BY <1>1, <1>2, <1>3, OnlyOn DEF InStore, SameImport
<1>7. InStore'  BY <1>2, <1>5, <1>6 DEF InStore
<1>8. HomesFound'  BY <1>2 DEF HomesFound
<1>9. DeclaredSoFar'  BY <1>1, <1>2, <1>4, DeclaredOn
<1>10. MembersSoFar'  BY <1>1, <1>2, MembersOn
<1> QED  BY <1>7, <1>8, <1>9, <1>10, Arrives

\* It looks for the subjects of a group, and reads the namespaces involved.
LEMMA ReadArriving ==
  ASSUME Forms, Flow, InStore, HomesFound, DeclaredSoFar, MembersSoFar, Find \/ (Fetch /\ job' # NoJob)
  PROVE  Arriving'
<1>1. job.pc \in {"find", "fetch"} /\ UNCHANGED <<store, rows, call>>  BY DEF Find, Fetch, RestUnchanged
<1>2. SameImport /\ HomesFound' /\ job'.pc \in {"fetch", "write"} /\ job'.groups = job.groups /\ job'.todo = job.todo
  BY FindHomes, FetchHomes DEF InStore
<1>3. Written' = Written  BY <1>1, <1>2 DEF Written
<1>4. Grown(store, store') /\ OwnAdded  BY <1>1, NothingGrown
<1>5. InStore'  BY <1>1, <1>2, <1>3, <1>4, StoreStays
<1>6. DeclaredSoFar'  BY <1>1, <1>2, <1>4, DeclaredOn
<1>7. MembersSoFar'  BY <1>1, <1>2, MembersOn
<1> QED  BY <1>2, <1>5, <1>6, <1>7, Arrives

\* It writes a group.
LEMMA WriteArriving ==
  ASSUME Forms, Flow, FetchStands, Followed, InStore, HomesFound, DeclaredSoFar, MembersSoFar, WriteGroup
  PROVE  Arriving'
<1>1. job.pc = "write" /\ UNCHANGED <<rows, call>>  BY DEF WriteGroup, RestUnchanged
<1>2. /\ SameImport /\ Grown(store, store') /\ OnlyOfFile' /\ job'.pc \in {"find", "workspace"}
      /\ job'.groups = job.groups /\ \A ns \in Written' : GroupArrived(ns)'
  BY GroupArrives DEF InStore
<1>3. Grown(job.base, store)'
  <2>1. Grown(job.base, store')  BY <1>2, GrownOn DEF InStore
  <2>2. Grown(job'.base, store')  BY <1>2, <2>1 DEF SameImport
  <2> QED  BY <2>2 DEF Grown, Triples
<1>4. GroupsSplit'  BY <1>1, <1>2, SplitStays DEF InStore, SameImport
<1>5. InStore'  BY <1>2, <1>3, <1>4 DEF InStore
<1>6. HomesFound'  BY <1>2 DEF HomesFound
<1>7. DeclaredSoFar'  BY <1>1, <1>2, DeclaredOn
<1>8. MembersSoFar'  BY <1>1, <1>2, MembersOn
<1> QED  BY <1>5, <1>6, <1>7, <1>8, Arrives

\* It declares the workspace.
LEMMA WorkspaceArriving ==
  ASSUME Forms, InStore, DeclaredSoFar, MembersSoFar, EnsureWorkspace
  PROVE  Arriving'
<1>n. JobForm /\ NoJob.pc = "idle"  BY DEF Forms, NoJob
<1>1. job.pc = "workspace" /\ UNCHANGED <<rows, call>> /\ Declares(Workspace, "Workspace")
  BY DEF EnsureWorkspace, RestUnchanged, Declares
<1>2. SameImport /\ job'.pc = "members" /\ job'.groups = job.groups /\ job'.todo = job.file.members
  BY <1>n, <1>1 DEF EnsureWorkspace, JobForm, SameImport
<1>3. Grown(store, store') /\ IsDeclared(store', Workspace, "Workspace") /\ OwnAdded  BY <1>1, DeclareStep DEF Forms
<1>4. Written' = Written  BY <1>1, <1>2 DEF Written
<1>5. InStore'  BY <1>1, <1>2, <1>3, <1>4, StoreStays
<1>6. HomesFound'  BY <1>2 DEF HomesFound
<1>7. DeclaredSoFar'  BY <1>1, <1>2, <1>3, DeclaredOn
<1>8. MembersSoFar'  BY <1>1, <1>2, MembersOn
<1> QED  BY <1>5, <1>6, <1>7, <1>8, Arrives

\* It adds the members, and goes on.
LEMMA MembersArriving ==
  ASSUME Forms, InStore, DeclaredSoFar, MembersSoFar, MemberAdded \/ NotesNext \/ Finish
  PROVE  Arriving'
<1>n. JobForm /\ NoJob.pc = "idle"  BY DEF Forms, NoJob
<1>1. UNCHANGED <<store, rows, call>>  BY DEF MemberAdded, NotesNext, Finish, RestUnchanged
<1>2. Grown(store, store') /\ OwnAdded  BY <1>1, NothingGrown
<1>3. /\ SameImport /\ job'.groups = job.groups
      /\ \/ /\ job.pc = "adding" /\ job'.pc = "members" /\ job'.todo = job.todo /\ \A c \in job.caller : call[c] = Idle
         \/ job.pc = "members" /\ job.todo = {} /\ job'.pc = "notes" /\ job'.todo = job.file.notes
         \/ job.pc = "notes" /\ job.todo = {} /\ job'.pc = "done"
  BY <1>n DEF MemberAdded, NotesNext, Finish, JobForm, SameImport
<1>4. Written' = Written  BY <1>3 DEF Written
<1>5. InStore'  BY <1>2, <1>3, <1>4, StoreStays
<1>6. HomesFound'  BY <1>3 DEF HomesFound
<1>7. DeclaredSoFar'  BY <1>2, <1>3, DeclaredOn
<1>8. MembersSoFar'  BY <1>1, <1>3, MembersOn
<1> QED  BY <1>5, <1>6, <1>7, <1>8, Arrives

\* It declares the notes.
LEMMA NotesArriving ==
  ASSUME Forms, Flow, InStore, DeclaredSoFar, MembersSoFar, EnsureNote
  PROVE  Arriving'
<1>n. JobForm /\ NoJob.pc = "idle"  BY DEF Forms, NoJob
<1>0. PICK n \in job.todo : Declares(n, "Note") /\ job' = [job EXCEPT !.todo = @ \ {n}]  BY DEF EnsureNote, Declares
<1>1. job.pc = "notes" /\ UNCHANGED <<rows, call>>  BY DEF EnsureNote, RestUnchanged
<1>2. n \in Notes  BY <1>1 DEF Flow, JobFits
<1>3. SameImport /\ job'.pc = "notes" /\ job'.groups = job.groups /\ job'.todo = job.todo \ {n}
  BY <1>n, <1>0, <1>1 DEF JobForm, SameImport
<1>4. Grown(store, store') /\ IsDeclared(store', n, "Note") /\ OwnAdded  BY <1>0, <1>2, DeclareStep DEF Forms
<1>5. n \in StoredNotes(store')  BY <1>2, <1>4 DEF StoredNotes
<1>6. Written' = Written  BY <1>1, <1>3 DEF Written
<1>7. InStore'  BY <1>1, <1>3, <1>4, <1>6, StoreStays
<1>8. HomesFound'  BY <1>3 DEF HomesFound
<1>9. DeclaredSoFar'  BY <1>1, <1>3, <1>4, <1>5, DeclaredOn
<1>10. MembersSoFar'  BY <1>1, <1>3, MembersOn
<1> QED  BY <1>7, <1>8, <1>9, <1>10, Arrives

\* It calls addWorkspaceMember.
LEMMA AddArriving ==
  ASSUME Forms, Placing, InStore, DeclaredSoFar, MembersSoFar, NEW c \in Calls, AddMember(c)
  PROVE  Arriving'
<1>n. JobForm /\ NoJob.pc = "idle"  BY DEF Forms, NoJob
<1>0. PICK i \in job.todo : /\ Started(c, "add", i.element, i.position)
                            /\ job' = [job EXCEPT !.pc = "adding", !.caller = {c}, !.todo = @ \ {i}]
  BY DEF AddMember
<1>1. job.pc = "members" /\ UNCHANGED <<store, rows>>  BY DEF AddMember
<1>2. /\ SameImport /\ job'.pc = "adding" /\ job'.groups = job.groups /\ job'.caller = {c}
      /\ job'.todo = job.todo \ {i}
  BY <1>n, <1>0, <1>1 DEF JobForm, SameImport
<1>3. Grown(store, store') /\ OwnAdded  BY <1>1, NothingGrown
<1>4. Written' = Written  BY <1>1, <1>2 DEF Written
<1>5. InStore'  BY <1>1, <1>2, <1>3, <1>4, StoreStays
<1>6. HomesFound'  BY <1>2 DEF HomesFound
<1>7. DeclaredSoFar'  BY <1>1, <1>2, <1>3, DeclaredOn
<1>8. BeingAdded(i.element)'
  <2>1. call'[c] = Begin("add", <<Item(i.element, i.position)>>, "hashed?")  BY <1>0 DEF Started, Placing
  <2>2. call'[c] # Idle /\ call'[c].items[1].element = i.element  BY <2>1 DEF Begin, Idle, Item
  <2>3. E(c)' = i.element  BY <2>2 DEF E
  <2> QED  BY <1>2, <2>2, <2>3 DEF BeingAdded
<1>9. MembersSoFar'
  <2>1. job'.file = job.file /\ MembersOf(rows)' = MembersOf(rows)  BY <1>1, <1>2 DEF SameImport, MembersOf
  <2>2. \A k \in job.file.members : k.element \in MembersOf(rows) \/ k \in job.todo  BY <1>1 DEF MembersSoFar
  <2>3. \A k \in job.todo : k \in job'.todo \/ k = i  BY <1>2
  <2> QED  BY <1>2, <1>8, <2>1, <2>2, <2>3 DEF MembersSoFar
<1> QED  BY <1>5, <1>6, <1>7, <1>9, Arrives

\* The import's steps go on with it: it is of the same kind, and as undisturbed.
LEMMA JobGoesOn ==
  ASSUME Forms, job.pc # "idle", (JobOnly /\ job' # NoJob) \/ JobWrites \/ \E c \in Calls : AddMember(c)
  PROVE  job'.kind = job.kind /\ job'.alone = job.alone
<1>n. JobForm /\ NoJob.pc = "idle"  BY DEF Forms, NoJob
<1>1. CASE Group
  <2>1. PICK todo, groups : \E pc : job' = [job EXCEPT !.todo = todo, !.pc = pc, !.groups = groups]  BY <1>1, GroupMoves
  <2>2. PICK pc : job' = [job EXCEPT !.todo = todo, !.pc = pc, !.groups = groups]  BY <2>1
  <2> QED  BY <1>n, <2>2 DEF JobForm
<1>2. CASE Find
  <2>1. PICK ns, homes : job' = [job EXCEPT !.pc = "fetch", !.group = ns, !.homes = homes]  BY <1>2 DEF Find
  <2> QED  BY <1>n, <2>1 DEF JobForm
<1>3. CASE Fetch /\ job' # NoJob
  <2>1. PICK clean : job' = [job EXCEPT !.pc = "write", !.clean = clean] \/ job' = NoJob  BY <1>3 DEF Fetch
  <2> QED  BY <1>n, <1>3, <2>1 DEF JobForm
<1>4. CASE WriteGroup
  <2>1. PICK todo, pc : job' = [job EXCEPT !.todo = todo, !.pc = pc, !.clean = <<>>]  BY <1>4 DEF WriteGroup
  <2> QED  BY <1>n, <2>1 DEF JobForm
<1>5. CASE Register \/ EnsureNote
  <2>1. PICK n : job' = [job EXCEPT !.todo = @ \ {n}]  BY <1>5 DEF Register, EnsureNote
  <2> QED  BY <1>n, <2>1 DEF JobForm
<1>6. CASE EnsureWorkspace \/ MemberAdded \/ NotesNext \/ Finish
  BY <1>n, <1>6 DEF EnsureWorkspace, MemberAdded, NotesNext, Finish, JobForm
<1>7. ASSUME NEW c, AddMember(c) PROVE job'.kind = job.kind /\ job'.alone = job.alone
  <2>1. PICK i : job' = [job EXCEPT !.pc = "adding", !.caller = {c}, !.todo = @ \ {i}]  BY <1>7 DEF AddMember
  <2> QED  BY <1>n, <2>1 DEF JobForm
<1> QED  BY <1>1, <1>2, <1>3, <1>4, <1>5, <1>6, <1>7 DEF JobOnly, JobWrites, ImportFails

\* Whatever is done, what is known of the import stays true.
LEMMA StepArriving ==
  ASSUME SingleCall, AddingInv, Arriving, [TransferNext]_allVars
  PROVE  Arriving'
<1> SUFFICES ASSUME Followed' PROVE Arriving'  BY DEF Arriving
<1>0. Forms /\ Flow /\ FetchStands /\ Placing /\ CallerSound  BY DEF AddingInv, ChecksInv
<1>n. JobForm /\ NoJob.pc = "idle"  BY <1>0 DEF Forms, NoJob
<1>1. ASSUME NEW f \in files, ImportBundle(f) PROVE Arriving'  BY <1>1, BeginsArriving
<1>2. CASE job' = job /\ UNCHANGED <<store, rows, call>>
  <2>1. MembersSoFar' <=> MembersSoFar  BY <1>2 DEF MembersSoFar, MembersOf, BeingAdded, E
  <2>2. Followed  BY <1>2 DEF Followed
  <2> QED  BY <1>2, <2>1, <2>2, BesideArriving DEF Arriving
<1>3. ASSUME NEW c \in Calls, MemberStep(c) \/ CallFails(c) PROVE Arriving'
  <2>1. job' \in {job, Disturbed, NoJob}  BY <1>3 DEF MemberStep, CallFails
  <2>2. Followed
    <3>1. CASE job' = job  BY <3>1 DEF Followed
    <3>2. CASE job' = Disturbed /\ job.pc # "idle"
      <4>1. job'.alone = FALSE  BY <1>n, <3>2 DEF Disturbed, JobForm
      <4> QED  BY <4>1 DEF Followed
    <3>3. CASE job' = Disturbed /\ job.pc = "idle"  BY <3>3 DEF Disturbed, Followed
    <3>4. CASE job' = NoJob  BY <1>n, <3>4 DEF Followed
    <3> QED  BY <2>1, <3>1, <3>2, <3>3, <3>4
  <2>3. job' = job /\ store' = store /\ MembersSoFar'  BY <1>0, <1>3, <2>2, MembersBeside DEF Arriving
  <2> QED  BY <2>3, BesideArriving
<1>4. ASSUME (JobOnly /\ job' # NoJob) \/ JobWrites \/ \E c \in Calls : AddMember(c) PROVE Arriving'
  <2>1. Followed
    <3>1. CASE ~(job.kind = "bundle" /\ job.alone) \/ job.pc = "idle"
      <4>1. job.pc # "idle"
        BY <1>4 DEF JobOnly, JobWrites, Group, Find, Fetch, MemberAdded, NotesNext, Finish, ImportFails, Register,
                    WriteGroup, EnsureWorkspace, EnsureNote, AddMember
      <4>2. job'.kind = job.kind /\ job'.alone = job.alone  BY <1>0, <1>4, <4>1, JobGoesOn
      <4> QED  BY <3>1, <4>1, <4>2 DEF Followed
    <3> QED  BY <3>1 DEF Followed
  <2>2. InStore /\ HomesFound /\ DeclaredSoFar /\ MembersSoFar  BY <2>1, ArrivingIs
  <2>3. ~(ImportFails /\ job' # NoJob)  BY DEF ImportFails
  <2> QED
    BY <1>0, <1>4, <2>1, <2>2, <2>3, RegisterArriving, GroupArriving, ReadArriving, WriteArriving, WorkspaceArriving,
       MembersArriving, NotesArriving, AddArriving DEF JobOnly, JobWrites
<1> QED  BY <1>0, <1>1, <1>2, <1>3, <1>4, FollowedSteps

\* All that is known when bundles are imported.
ArrivingInv == AddingInv /\ Arriving

\* It holds in every behaviour with one call at a time.
LEMMA ArrivingHolds == ASSUME SingleCall PROVE TransferSpec => []ArrivingInv
<1>1. TransferInit => Arriving  BY DEF TransferInit, Arriving, Followed, NoJob
<1>2. ASSUME AddingInv, Arriving, [TransferNext]_allVars PROVE Arriving'  BY <1>2, StepArriving
<1>3. AddingInv /\ Arriving /\ [TransferNext]_allVars => Arriving'  BY <1>2
<1> QED  BY <1>1, <1>3, AddingHolds, PTL DEF TransferSpec, ArrivingInv

\* A group that has arrived would insert nothing again, but for a subject in two namespaces.
LEMMA SecondImport ==
  ASSUME GroupsSplit, job.pc = "done", Grown(job.base, store), \A ns \in Written : GroupArrived(ns),
         NEW ns \in DOMAIN job.groups, NEW homes \in HomesOf(job.groups[ns], ns),
         NEW q \in Clean(job.groups[ns], Existing(job.groups[ns], homes, ns)).quads
  PROVE  \E m, n \in Holding(q[1]) : m # n
<1> DEFINE doc == job.groups[ns]
<1> DEFINE existing == Existing(doc, homes, ns)
<1>1. q \in doc.quads /\ q \notin existing.quads /\ \A t \in existing.quads : ~(t[1] = q[1] /\ t[2] = q[2])  BY Triage
<1>2. ns \in Namespaces /\ GroupArrived(ns)  BY DEF GroupsSplit, Written
<1>3. Has(q)  BY <1>1, <1>2 DEF GroupArrived
<1>4. PICK m \in Namespaces : \E t \in Triples(store, m) : t = q \/ (t[1] = q[1] /\ t[2] = q[2])
  BY <1>3 DEF Has, HasValue, Grown
<1>5. PICK t \in Triples(store, m) : t = q \/ (t[1] = q[1] /\ t[2] = q[2])  BY <1>4
<1>6. m \in Holding(q[1])  BY <1>5 DEF Holding, Triples
<1> DEFINE home == homes[q[1]]
<1>7. home \in Namespaces /\ home \in Holding(q[1])  BY <1>1, <1>6 DEF HomesOf
<1>8. home \in Involved(doc, homes, ns)  BY <1>1, <1>7, Looked
<1>9. home # m
  <2>1. CASE home = m
    <3>1. t \in existing.quads  BY <1>5, <1>8, <2>1, Looked
    <3> QED  BY <1>1, <1>5, <3>1
  <2> QED  BY <2>1
<1> QED  BY <1>6, <1>7, <1>9

\* At the end the whole file has arrived.
LEMMA ArrivedAtLast == Arriving => BundleArrives
<1> SUFFICES ASSUME Arriving, job.pc = "done", job.kind = "bundle", job.alone PROVE BundleArrives
  BY DEF BundleArrives
<1> DEFINE f == job.file
<1>0. Followed  BY DEF Followed
<1>1. /\ Grown(job.base, store) /\ OnlyOfFile /\ GroupsSplit /\ DeclaredSoFar /\ MembersSoFar
      /\ \A ns \in Written : GroupArrived(ns)
  BY <1>0 DEF Arriving
<1>2. \A ns \in DOMAIN job.groups : ns \in Namespaces /\ GroupArrived(ns)  BY <1>1 DEF Written, GroupsSplit
<1>3. f.namespaces \subseteq Registered(store) /\ IsDeclared(store, Workspace, "Workspace") /\ f.notes \subseteq StoredNotes(store)
  BY <1>1 DEF DeclaredSoFar
<1>4. {i.element : i \in f.members} \subseteq MembersOf(rows)  BY <1>1 DEF MembersSoFar
<1>5. ASSUME NEW q \in f.doc.quads
      PROVE  /\ HasValue(job.base, q) \/ \E n \in Namespaces : q \in Triples(store, n)
             /\ (q[1] \notin OwnIris /\ IsNew(job.base, q[1]) /\ HomeOf[q[1]] \in f.namespaces \cup Registered(job.base)) =>
                  q \in Triples(store, HomeOf[q[1]])
  <2>1. PICK ns \in DOMAIN job.groups : q \in job.groups[ns].quads  BY <1>1 DEF GroupsSplit
  <2>2. Has(q) /\ (Unknown(q) => q \in Triples(store, ns))  BY <1>2, <2>1 DEF GroupArrived
  <2>3. IsHome(q[1]) => ns = HomeOf[q[1]]  BY <1>1, <2>1 DEF GroupsSplit
  <2> QED  BY <2>2, <2>3 DEF Has, Unknown, IsHome
<1>6. ASSUME NEW b \in f.doc.blocks, b.of # "none"
      PROVE  \E n \in Namespaces : b \in store[n].blocks \/ \E e \in job.base[n].blocks : e.of = b.of
  <2>1. PICK ns \in DOMAIN job.groups : b \in job.groups[ns].blocks  BY <1>1 DEF GroupsSplit
  <2> QED  BY <1>2, <1>6, <2>1 DEF GroupArrived, HasBlock
<1>7. \A ns \in DOMAIN job.groups : \A homes \in HomesOf(job.groups[ns], ns) :
        \A q \in Clean(job.groups[ns], Existing(job.groups[ns], homes, ns)).quads : \E m, n \in Holding(q[1]) : m # n
  BY <1>1, SecondImport
<1> QED  BY <1>3, <1>4, <1>5, <1>6, <1>7 DEF BundleArrives

\* importWorkspaceBundle, uninterrupted and undisturbed, brings the whole file, each subject nobody knew into the
\* namespace its IRI was minted under, with the workspace's members and notes.
THEOREM BundlesArrive == ASSUME SingleCall PROVE TransferSpec => []BundleArrives
<1>1. ArrivingInv => BundleArrives  BY ArrivedAtLast DEF ArrivingInv
<1> QED  BY <1>1, ArrivingHolds, PTL
-----------------------------------------------------------------------------
(* What a save replaces.                                                   *)

\* The panel is opened on what it may be opened on, and saves that.
ScopesKnown ==
  /\ panel.scope = "none" \/ \E s \in Scopes : panel.scope = s[1]
  /\ saving # NotSaving => \E s \in Scopes : saving.scope = s[1]

\* Every step.
LEMMA StepScopes ==
  ASSUME Forms, ScopesKnown, [TransferNext]_allVars
  PROVE  ScopesKnown'
<1>k. /\ panel'.scope = panel.scope => panel'.scope = "none" \/ \E s \in Scopes : panel'.scope = s[1]
      /\ UNCHANGED saving => (saving' # NotSaving => \E s \in Scopes : saving'.scope = s[1])
      /\ UNCHANGED panel => panel'.scope = panel.scope
  BY DEF ScopesKnown
<1>1. CASE Export  BY <1>1, <1>k DEF Export, ScopesKnown
<1>2. ASSUME NEW f, ImportBundle(f) PROVE ScopesKnown'  BY <1>2, <1>k DEF ImportBundle, ScopesKnown
<1>3. ASSUME NEW doc, NEW n, ImportFile(doc, n) PROVE ScopesKnown'  BY <1>3, <1>k DEF ImportFile, ScopesKnown
<1>4. CASE JobOnly \/ JobWrites
  <2>1. RestUnchanged
    BY <1>4 DEF JobOnly, JobWrites, Register, Group, Find, Fetch, WriteGroup, EnsureWorkspace, MemberAdded, NotesNext,
                EnsureNote, Finish, ImportFails
  <2> QED  BY <2>1, <1>k DEF RestUnchanged, ScopesKnown
<1>5. ASSUME NEW c, AddMember(c) PROVE ScopesKnown'  BY <1>5, <1>k DEF AddMember, ScopesKnown
<1>6. ASSUME NEW s \in Scopes, Open(s[1], s[2]) PROVE ScopesKnown'
  <2>1. panel'.scope = s[1]
    <3>1. PICK p : p = [panel EXCEPT !.scope = s[1], !.ns = s[2]]  OBVIOUS
    <3>2. p.scope = s[1] /\ "scope" \in DOMAIN p  BY <3>1 DEF Forms, PanelForm
    <3>3. panel' = [p EXCEPT !.loads = @ \cup {<<p.scope, p.ns>>}, !.loading = TRUE, !.error = FALSE]
      BY <1>6, <3>1 DEF Open, Loading
    <3> QED  BY <3>2, <3>3
  <2> QED  BY <1>6, <2>1, <1>k DEF Open, ScopesKnown
<1>7. CASE Close
  <2>1. panel'.scope = "none"  BY <1>7 DEF Close, NoPanel
  <2>2. saving' # NotSaving => \E s \in Scopes : saving'.scope = s[1]
    <3>1. CASE saving = NotSaving  BY <3>1, <1>7 DEF Close
    <3>2. CASE saving # NotSaving
      <4>1. saving' = [saving EXCEPT !.watched = FALSE]  BY <1>7, <3>2 DEF Close
      <4>2. saving'.scope = saving.scope  BY <3>2, <4>1 DEF Forms, SavingForm
      <4> QED  BY <3>2, <4>2 DEF ScopesKnown
    <3> QED  BY <3>1, <3>2
  <2> QED  BY <2>1, <2>2 DEF ScopesKnown
<1>8. ASSUME NEW l, Loaded(l) \/ LoadFails(l) PROVE ScopesKnown'
  <2>1. panel'.scope = panel.scope  BY <1>8 DEF Loaded, LoadFails, Forms, PanelForm
  <2> QED  BY <1>8, <2>1, <1>k DEF Loaded, LoadFails, PanelOnly, ScopesKnown
<1>9. ASSUME NEW tab, NEW text, Save(tab, text) PROVE ScopesKnown'
  <2>1. saving' = NotSaving \/ saving'.scope = panel.scope  BY <1>9 DEF Save
  <2>2. panel.scope # "none" /\ UNCHANGED panel  BY <1>9 DEF Save
  <2> QED  BY <2>1, <2>2 DEF ScopesKnown
<1>10. CASE SaveWrites
  <2>1. panel'.scope = panel.scope  BY <1>10 DEF SaveWrites, Loading, Forms, PanelForm
  <2> QED  BY <1>10, <2>1, <1>k DEF SaveWrites, ScopesKnown
<1>11. CASE SaveFails  BY <1>11, <1>k DEF SaveFails, ScopesKnown
<1>12. ASSUME NEW c, MemberStep(c) \/ CallFails(c) PROVE ScopesKnown'
  BY <1>12, <1>k DEF MemberStep, CallFails, ScopesKnown
<1>13. CASE UNCHANGED allVars  BY <1>13, <1>k DEF allVars, transferVars, ScopesKnown
<1> QED
  BY <1>1, <1>2, <1>3, <1>4, <1>5, <1>6, <1>7, <1>8, <1>9, <1>10, <1>11, <1>12, <1>13
  DEF TransferNext, JobOnly, JobWrites

\* What DeleteScope leaves of the graphs g, by the tab and by what the scope names.
Leaves(g, iri, full, tab, ns, h) ==
  /\ iri = "all" /\ tab = "schema" =>
       h = [instances |-> g.instances, schema |-> {}, shapes |-> g.shapes, blocks |-> g.blocks]
  /\ iri = "all" /\ tab = "shapes" =>
       h = [instances |-> g.instances, schema |-> g.schema, shapes |-> {}, blocks |-> {}]
  /\ iri # "all" /\ tab = "schema" /\ (IsClass(full, iri) \/ ~LooksLikeIndividual(full.quads, iri)) =>
       h = [instances |-> g.instances, schema |-> {q \in g.schema : q[1] # iri}, shapes |-> g.shapes,
            blocks |-> g.blocks]
  /\ iri # "all" /\ tab = "schema" /\ ~IsClass(full, iri) /\ LooksLikeIndividual(full.quads, iri) =>
       h = [instances |-> {q \in g.instances : q[1] # iri}, schema |-> g.schema, shapes |-> g.shapes,
            blocks |-> g.blocks]
  /\ iri # "all" /\ tab = "shapes" /\ IsClass(full, iri) =>
       h = [instances |-> g.instances, schema |-> g.schema,
            shapes |-> {q \in g.shapes : q[1] # ShapeIri[iri][ns]},
            blocks |-> {b \in g.blocks : b.of # ShapeIri[iri][ns]}]
  /\ iri # "all" /\ tab = "shapes" /\ ~IsClass(full, iri) =>
       h = [instances |-> g.instances, schema |-> g.schema, shapes |-> g.shapes,
            blocks |-> {b \in g.blocks : b.of \notin {ShapeIri[c][ns] : c \in Domains(full, iri)} \/ b.path # iri}]

\* What a save deletes from each graph.
LEMMA DeletedFrom ==
  ASSUME NEW g, IsGraph(g), NEW iri, NEW full, NEW tab \in {"schema", "shapes"}, NEW ns, NEW h,
         h = DeleteScope(g, iri, full, tab, ns)
  PROVE  Leaves(g, iri, full, tab, ns, h)
<1>0. PICK i, s, p, b : g = [instances |-> i, schema |-> s, shapes |-> p, blocks |-> b]  BY DEF IsGraph
<1>g. g.instances = i /\ g.schema = s /\ g.shapes = p /\ g.blocks = b  BY <1>0
<1>1. ASSUME iri = "all", tab = "schema"
      PROVE  h = [instances |-> g.instances, schema |-> {}, shapes |-> g.shapes, blocks |-> g.blocks]
  <2>1. h = [g EXCEPT !.schema = {}]  BY <1>1 DEF DeleteScope
  <2> QED  BY <1>0, <1>g, <2>1
<1>2. ASSUME iri = "all", tab = "shapes"
      PROVE  h = [instances |-> g.instances, schema |-> g.schema, shapes |-> {}, blocks |-> {}]
  <2>1. h = [g EXCEPT !.shapes = {}, !.blocks = {}]  BY <1>2 DEF DeleteScope
  <2> QED  BY <1>0, <1>g, <2>1
<1>3. ASSUME iri # "all", tab = "schema", IsClass(full, iri) \/ ~LooksLikeIndividual(full.quads, iri)
      PROVE  h = [instances |-> g.instances, schema |-> {q \in g.schema : q[1] # iri}, shapes |-> g.shapes,
                  blocks |-> g.blocks]
  <2>1. h = [g EXCEPT !.schema = {q \in @ : q[1] # iri}]
    <3>1. CASE IsClass(full, iri)  BY <1>3, <3>1 DEF DeleteScope
    <3>2. CASE ~IsClass(full, iri)  BY <1>3, <3>2 DEF DeleteScope
    <3> QED  BY <3>1, <3>2
  <2> QED  BY <1>0, <1>g, <2>1
<1>4. ASSUME iri # "all", tab = "schema", ~IsClass(full, iri), LooksLikeIndividual(full.quads, iri)
      PROVE  h = [instances |-> {q \in g.instances : q[1] # iri}, schema |-> g.schema, shapes |-> g.shapes,
                  blocks |-> g.blocks]
  <2>1. h = [g EXCEPT !.instances = {q \in @ : q[1] # iri}]  BY <1>4 DEF DeleteScope
  <2> QED  BY <1>0, <1>g, <2>1
<1>5. ASSUME iri # "all", tab = "shapes", IsClass(full, iri)
      PROVE  h = [instances |-> g.instances, schema |-> g.schema,
                  shapes |-> {q \in g.shapes : q[1] # ShapeIri[iri][ns]},
                  blocks |-> {c \in g.blocks : c.of # ShapeIri[iri][ns]}]
  <2>1. h = [g EXCEPT !.shapes = {q \in @ : q[1] # ShapeIri[iri][ns]}, !.blocks = {c \in @ : c.of # ShapeIri[iri][ns]}]
    BY <1>5 DEF DeleteScope
  <2>2. PICK r : r = [g EXCEPT !.shapes = {q \in @ : q[1] # ShapeIri[iri][ns]}]  OBVIOUS
  <2>3. r = [instances |-> i, schema |-> s, shapes |-> {q \in p : q[1] # ShapeIri[iri][ns]}, blocks |-> b]
    BY <1>0, <1>g, <2>2
  <2>4. PICK x, y : x = {q \in p : q[1] # ShapeIri[iri][ns]} /\ y = {c \in b : c.of # ShapeIri[iri][ns]}  OBVIOUS
  <2>5. r = [instances |-> i, schema |-> s, shapes |-> x, blocks |-> b]  BY <2>3, <2>4
  <2>6. [r EXCEPT !.blocks = y] = [instances |-> i, schema |-> s, shapes |-> x, blocks |-> y]  BY ONLY <2>5
  <2>7. r.blocks = b  BY ONLY <2>5
  <2>8. h = [r EXCEPT !.blocks = {c \in r.blocks : c.of # ShapeIri[iri][ns]}]  BY <2>1, <2>2, <1>0
  <2>9. h = [r EXCEPT !.blocks = y]  BY <2>4, <2>7, <2>8
  <2> QED  BY <1>g, <2>4, <2>6, <2>9
<1>6. ASSUME iri # "all", tab = "shapes", ~IsClass(full, iri)
      PROVE  h = [instances |-> g.instances, schema |-> g.schema, shapes |-> g.shapes,
                  blocks |-> {c \in g.blocks : c.of \notin {ShapeIri[d][ns] : d \in Domains(full, iri)} \/ c.path # iri}]
  <2>1. h = [g EXCEPT !.blocks = {c \in @ : c.of \notin {ShapeIri[d][ns] : d \in Domains(full, iri)} \/ c.path # iri}]
    BY <1>6 DEF DeleteScope
  <2> QED  BY <1>0, <1>g, <2>1
<1> QED  BY <1>1, <1>2, <1>3, <1>4, <1>5, <1>6 DEF Leaves

\* An entity's own triples are in its text, and its text is in what was read.
LEMMA ScopeOwns ==
  ASSUME NEW d, NEW iri, iri # "all"
  PROVE  Own(d, iri) \subseteq Scope(d, iri).quads
<1>1. CASE IsClass(d, iri)
  <2>1. Scope(d, iri) = ClassScope(d, iri)  BY <1>1 DEF Scope
  <2> QED  BY <2>1 DEF ClassScope, Doc, Own
<1>2. CASE ~IsClass(d, iri) /\ IsProperty(d, iri)
  <2>1. Scope(d, iri) = PropertyScope(d, iri)  BY <1>2 DEF Scope
  <2> QED  BY <2>1 DEF PropertyScope, Doc, Own
<1>3. CASE ~IsClass(d, iri) /\ ~IsProperty(d, iri)
  <2>1. Scope(d, iri) = Doc(Own(d, iri), {})  BY <1>3 DEF Scope
  <2> QED  BY <2>1 DEF Doc
<1> QED  BY <1>1, <1>2, <1>3

\* The update of a save, in each of the graphs.
LEMMA SaveIsText ==
  ASSUME Forms, Flow, ScopesKnown, SaveWrites, Whole(store[saving.ns]) = saving.read
  PROVE  LET s == saving
             before == s.read
             after == Whole(store'[s.ns])
             old == Part(s.full, s.tab)
         IN  /\ s.text.quads \subseteq after.quads /\ s.text.blocks \subseteq after.blocks
             /\ after.quads \subseteq before.quads \cup s.text.quads
             /\ {q \in before.quads \ old.quads : q[1] \notin Unseen(s)} \subseteq after.quads
             /\ \A q \in old.quads \ s.text.quads :
                  q[1] = s.scope => q \notin after.quads \/ q \in Elsewhere(store[s.ns], s)
             /\ \A b \in before.blocks \ after.blocks : \/ b \in old.blocks \/ b.of \in Unseen(s)
                                                        \/ s.tab = "shapes" /\ b.path = s.scope
             /\ \A n \in Namespaces \ {s.ns} : store'[n] = store[n]
             /\ Rebuilds(s) \/ <<Registered(store'), StoredNotes(store'), rows'>>
                                 = <<Registered(store), StoredNotes(store), rows>>
<1> DEFINE s == saving
           g == store[s.ns]
           h == DeleteScope(g, s.scope, s.full, s.tab, s.ns)
           new == InsertInto(h, s.text)
           old == Part(s.full, s.tab)
           before == s.read
           class == IsClass(s.full, s.scope)
           individual == LooksLikeIndividual(s.full.quads, s.scope)
<1>1. /\ s.ns \in Namespaces /\ s.tab \in {"schema", "shapes"} /\ s.full = Scope(before, s.scope)
      /\ before = Whole(g)
  BY DEF Forms, SavingForm, SaveWrites
<1>2. IsGraph(g) /\ Sorted(g)  BY <1>1, SortedGraph DEF Forms, GraphsForm
<1>3. store' = [store EXCEPT ![s.ns] = new]  BY DEF SaveWrites
<1>4. store'[s.ns] = new /\ \A n \in Namespaces \ {s.ns} : store'[n] = store[n]
  <2> HIDE DEF new, s
  <2> QED  BY <1>1, <1>3 DEF Forms, GraphsForm
<1>5. /\ Whole(new).quads = Whole(h).quads \cup s.text.quads
      /\ Whole(new).blocks = Whole(h).blocks \cup s.text.blocks
      /\ IsGraph(h) /\ h.instances \subseteq g.instances /\ h.schema \subseteq g.schema
      /\ h.shapes \subseteq g.shapes /\ h.blocks \subseteq g.blocks
  <2>1. /\ IsGraph(h) /\ h.instances \subseteq g.instances /\ h.schema \subseteq g.schema
        /\ h.shapes \subseteq g.shapes /\ h.blocks \subseteq g.blocks
    BY <1>1, <1>2, DeleteGraph
  <2> QED  BY <2>1, InsertGraph
<1>6. \A q \in before.quads : Fits(q)  BY <1>1 DEF Flow, AllFit
<1>7. PICK sc \in Scopes : s.scope = sc[1]  BY DEF ScopesKnown, SaveWrites
<1>8. \A q \in before.quads : q[1] = s.scope => ~IsReified(q) /\ ~IsShape(q) /\ s.scope # "all"
  BY <1>6, <1>7 DEF Fits
<1>9. s.full.quads \subseteq before.quads /\ (s.scope = "all" => s.full = before)
      /\ (s.scope # "all" => Own(before, s.scope) \subseteq s.full.quads)
  <2>1. s.full.quads \subseteq before.quads  BY <1>1, ScopeHolds
  <2>2. s.scope = "all" => s.full = before  BY <1>1 DEF Scope
  <2>3. s.scope # "all" => Own(before, s.scope) \subseteq s.full.quads  BY <1>1, ScopeOwns
  <2> QED  BY <2>1, <2>2, <2>3
<1>10. /\ \A q \in g.schema : ~IsReified(q) /\ ~IsShape(q)
       /\ \A q \in g.instances : ~IsShape(q)
       /\ \A q \in g.shapes : IsShape(q) /\ ~IsReified(q)
  BY <1>2 DEF Sorted, IsShape, IsReified
<1>11. /\ before.quads = g.instances \cup g.schema \cup g.shapes /\ before.blocks = g.blocks
       /\ Whole(h).quads = h.instances \cup h.schema \cup h.shapes /\ Whole(h).blocks = h.blocks
  BY <1>1 DEF Whole, Doc
<1>12. /\ s.tab = "schema" => old.quads = {q \in s.full.quads : ~IsReified(q) /\ ~IsShape(q)}
       /\ s.tab = "shapes" => old.quads = {q \in s.full.quads : ~IsReified(q) /\ IsShape(q)} /\ old.blocks = s.full.blocks
  BY PartQuads
<1>13. /\ s.scope = "all" /\ s.tab = "schema" =>
              h = [instances |-> g.instances, schema |-> {}, shapes |-> g.shapes, blocks |-> g.blocks]
       /\ s.scope = "all" /\ s.tab = "shapes" =>
              h = [instances |-> g.instances, schema |-> g.schema, shapes |-> {}, blocks |-> {}]
       /\ s.scope # "all" /\ s.tab = "schema" /\ (class \/ ~individual) =>
              h = [instances |-> g.instances, schema |-> {q \in g.schema : q[1] # s.scope}, shapes |-> g.shapes,
                   blocks |-> g.blocks]
       /\ s.scope # "all" /\ s.tab = "schema" /\ ~class /\ individual =>
              h = [instances |-> {q \in g.instances : q[1] # s.scope}, schema |-> g.schema, shapes |-> g.shapes,
                   blocks |-> g.blocks]
       /\ s.scope # "all" /\ s.tab = "shapes" /\ class =>
              h = [instances |-> g.instances, schema |-> g.schema,
                   shapes |-> {q \in g.shapes : q[1] # ShapeIri[s.scope][s.ns]},
                   blocks |-> {b \in g.blocks : b.of # ShapeIri[s.scope][s.ns]}]
       /\ s.scope # "all" /\ s.tab = "shapes" /\ ~class =>
              h = [instances |-> g.instances, schema |-> g.schema, shapes |-> g.shapes,
                   blocks |-> {b \in g.blocks : b.of \notin {ShapeIri[c][s.ns] : c \in Domains(s.full, s.scope)}
                                                \/ b.path # s.scope}]
  <2>1. Leaves(g, s.scope, s.full, s.tab, s.ns, h)
    <3>1. PICK h2 : h2 = h  OBVIOUS
    <3>2. Leaves(g, s.scope, s.full, s.tab, s.ns, h2)
      <4> HIDE DEF s, g
      <4> QED  BY <1>1, <1>2, <3>1, DeletedFrom
    <3> HIDE DEF h, s, g
    <3> QED  BY ONLY <3>1, <3>2
  <2> HIDE DEF h, s, g
  <2> QED  BY ONLY <2>1 DEF Leaves, class, individual
<1>14. (s.tab = "shapes" /\ class) => Unseen(s) = {ShapeIri[s.scope][s.ns]}  BY DEF Unseen
<1>15. Elsewhere(g, s) = IF ~class /\ individual THEN g.schema ELSE g.instances  BY DEF Elsewhere
<1> HIDE DEF s, g, h, new, old, before, class, individual
<1>20. \A q \in before.quads \ old.quads : q[1] \in Unseen(s) \/ q \in Whole(h).quads
  <2>1. SUFFICES ASSUME NEW q \in before.quads, q \notin old.quads, q[1] \notin Unseen(s), q \notin Whole(h).quads
                 PROVE  FALSE
    OBVIOUS
  <2>2. q[1] = s.scope /\ s.scope # "all" => q \in s.full.quads  BY <1>9, <2>1 DEF Own
  <2>3. CASE s.scope = "all" /\ s.tab = "schema"  BY <1>9, <1>10, <1>11, <1>12, <1>13, <2>1, <2>3
  <2>4. CASE s.scope = "all" /\ s.tab = "shapes"  BY <1>9, <1>10, <1>11, <1>12, <1>13, <2>1, <2>4
  <2>5. CASE s.scope # "all" /\ s.tab = "schema"
    <3>1. q[1] = s.scope  BY <1>11, <1>13, <2>1, <2>5
    <3> QED  BY <1>8, <1>12, <2>1, <2>2, <2>5, <3>1
  <2>6. CASE s.scope # "all" /\ s.tab = "shapes"
    <3>1. CASE class
      <4>1. q[1] = ShapeIri[s.scope][s.ns]  BY <1>11, <1>13, <2>1, <2>6, <3>1
      <4> QED  BY <1>14, <2>1, <2>6, <3>1, <4>1
    <3>2. CASE ~class  BY <1>11, <1>13, <2>1, <2>6, <3>2
    <3> QED  BY <3>1, <3>2
  <2> QED  BY <1>1, <2>3, <2>4, <2>5, <2>6
<1>21. \A q \in old.quads \ s.text.quads : q[1] = s.scope => q \notin Whole(new).quads \/ q \in Elsewhere(g, s)
  <2>1. SUFFICES ASSUME NEW q \in old.quads, q \notin s.text.quads, q[1] = s.scope, q \in Whole(h).quads
                 PROVE  q \in Elsewhere(g, s)
    BY <1>5
  <2>2. q \in s.full.quads
    <3>1. CASE s.tab = "schema"  BY <1>12, <2>1, <3>1
    <3>2. CASE s.tab = "shapes"  BY <1>12, <2>1, <3>2
    <3> QED  BY <1>1, <3>1, <3>2
  <2>3. q \in before.quads /\ ~IsReified(q) /\ ~IsShape(q) /\ s.scope # "all"  BY <1>8, <1>9, <2>1, <2>2
  <2>4. s.tab = "schema"  BY <1>1, <1>12, <2>1, <2>3
  <2>5. q \notin g.shapes  BY <1>10, <2>3
  <2>6. CASE class \/ ~individual
    <3>1. q \notin h.schema  BY <1>13, <2>1, <2>3, <2>4, <2>6
    <3>2. q \in g.instances  BY <1>5, <1>11, <2>1, <2>5, <3>1
    <3> QED  BY <1>15, <2>6, <3>2
  <2>7. CASE ~class /\ individual
    <3>1. q \notin h.instances  BY <1>13, <2>1, <2>3, <2>4, <2>7
    <3>2. q \in g.schema  BY <1>5, <1>11, <2>1, <2>5, <3>1
    <3> QED  BY <1>15, <2>7, <3>2
  <2> QED  BY <2>6, <2>7
<1>22. \A b \in before.blocks \ Whole(new).blocks :
         b \in old.blocks \/ b.of \in Unseen(s) \/ (s.tab = "shapes" /\ b.path = s.scope)
  <2>1. SUFFICES ASSUME NEW b \in g.blocks, b \notin h.blocks
                 PROVE  b \in old.blocks \/ b.of \in Unseen(s) \/ (s.tab = "shapes" /\ b.path = s.scope)
    <3>1. \A b \in before.blocks \ Whole(new).blocks : b \in g.blocks /\ b \notin h.blocks  BY <1>5, <1>11
    <3> QED  BY <3>1
  <2>2. CASE s.tab = "schema"
    <3>1. CASE s.scope = "all"  BY <1>13, <2>1, <2>2, <3>1
    <3>2. CASE s.scope # "all" /\ (class \/ ~individual)  BY <1>13, <2>1, <2>2, <3>2
    <3>3. CASE s.scope # "all" /\ ~class /\ individual  BY <1>13, <2>1, <2>2, <3>3
    <3> QED  BY <3>1, <3>2, <3>3
  <2>3. CASE s.tab = "shapes" /\ s.scope = "all"
    <3>1. s.full.blocks = g.blocks  BY <1>9, <1>11, <2>3
    <3>2. old.blocks = s.full.blocks  BY <1>12, <2>3
    <3>3. b \in old.blocks  BY <2>1, <3>1, <3>2
    <3> QED  BY <3>3
  <2>4. CASE s.tab = "shapes" /\ s.scope # "all" /\ class
    <3>1. b.of = ShapeIri[s.scope][s.ns]  BY <1>13, <2>1, <2>4
    <3>2. b.of \in {ShapeIri[s.scope][s.ns]}  BY ONLY <3>1
    <3>3. Unseen(s) = {ShapeIri[s.scope][s.ns]}  BY <1>14, <2>4
    <3>4. b.of \in Unseen(s)  BY ONLY <3>2, <3>3
    <3> QED  BY <3>4
  <2>5. CASE s.tab = "shapes" /\ s.scope # "all" /\ ~class
    <3>1. b.path = s.scope  BY <1>13, <2>1, <2>5
    <3> QED  BY <2>5, <3>1
  <2> QED  BY <1>1, <2>2, <2>3, <2>4, <2>5
<1>23. Rebuilds(s) \/ <<Registered(store'), StoredNotes(store'), rows'>> = <<Registered(store), StoredNotes(store), rows>>
  <2>1. SUFFICES ASSUME ~Rebuilds(s)
                 PROVE  /\ Registered(store') = Registered(store) /\ StoredNotes(store') = StoredNotes(store)
                        /\ rows' = rows
    OBVIOUS
  <2>2. rows' = rows  BY <2>1 DEF SaveWrites, Rebuilds, s
  <2>3. ASSUME NEW iri \in Namespaces \cup Notes, NEW k \in {"Namespace", "Note"}
        PROVE  IsDeclared(store', iri, k) <=> IsDeclared(store, iri, k)
    <3>1. CASE s.ns # Default
      <4>1. store'[Default] = store[Default]  BY <1>4, <3>1, GraphAssumption
      <4> QED  BY <4>1 DEF IsDeclared
    <3>2. CASE s.ns = Default
      <4> DEFINE q == <<iri, "a", k>>
      <4>0. q[1] = iri /\ q[2] = "a" /\ q[3] = k  OBVIOUS
      <4>1. iri \in OwnIris  BY DEF OwnIris
      <4>2. iri # s.scope
        <5>1. \A x \in Scopes : x[1] \notin OwnIris  BY TransfersAssumption
        <5> QED  BY <1>7, <4>1, <5>1
      <4>3. q \in h.schema <=> q \in g.schema
        <5> HIDE DEF q
        <5>1. ~(s.scope = "all" /\ s.tab = "schema")  BY <2>1, <3>2 DEF Rebuilds
        <5>2. CASE s.tab = "shapes" /\ s.scope = "all"  BY <1>13, <5>2
        <5>3. CASE s.tab = "shapes" /\ s.scope # "all" /\ class  BY <1>13, <5>3
        <5>4. CASE s.tab = "shapes" /\ s.scope # "all" /\ ~class  BY <1>13, <5>4
        <5>5. CASE s.tab = "schema" /\ s.scope # "all" /\ (class \/ ~individual)  BY <1>13, <4>0, <4>2, <5>5
        <5>6. CASE s.tab = "schema" /\ s.scope # "all" /\ ~class /\ individual  BY <1>13, <5>6
        <5> QED  BY <1>1, <5>1, <5>2, <5>3, <5>4, <5>5, <5>6
      <4>4. q \in new.schema <=> q \in h.schema
        <5> DEFINE schema == Part(s.text, "schema").quads
                   alike == {x \in schema : LooksLikeIndividual(schema, x[1])}
        <5>1. new.schema = h.schema \cup (schema \ alike)  BY DEF InsertInto, new
        <5>2. q \in schema => q \in alike  BY <4>0 DEF LooksLikeIndividual, MetaTypes
        <5> HIDE DEF q, schema, alike
        <5> QED  BY <5>1, <5>2
      <4> QED  BY <1>4, <3>2, <4>3, <4>4 DEF IsDeclared, g
    <3> QED  BY <3>1, <3>2
  <2>4. Registered(store') = Registered(store)  BY <2>3 DEF Registered
  <2>5. StoredNotes(store') = StoredNotes(store)  BY <2>3 DEF StoredNotes
  <2> QED  BY <2>2, <2>4, <2>5
<1>24. Whole(new).quads \subseteq before.quads \cup s.text.quads  BY <1>5, <1>11
<1>25. s.text.quads \subseteq Whole(new).quads /\ s.text.blocks \subseteq Whole(new).blocks  BY <1>5
<1>26. {q \in before.quads \ old.quads : q[1] \notin Unseen(s)} \subseteq Whole(new).quads  BY <1>5, <1>20
<1> QED  BY <1>4, <1>21, <1>22, <1>23, <1>24, <1>25, <1>26 DEF s, before, old, g

\* The invariant of saves.
SavesInv == ChecksInv /\ ScopesKnown

\* saveScopedTurtle replaces the text of its scope by the new one and touches nothing else, in whatever
\* state the store is, as long as nobody wrote between its read and its update.
THEOREM SavesReplace == TransferSpec => SavesAreTheirText
<1> DEFINE Saved ==
      (saving # NotSaving /\ saving' # saving /\ store' # store /\ Whole(store[saving.ns]) = saving.read) =>
       LET s == saving
           before == s.read
           after == Whole(store'[s.ns])
           old == Part(s.full, s.tab)
       IN  /\ s.text.quads \subseteq after.quads /\ s.text.blocks \subseteq after.blocks
           /\ after.quads \subseteq before.quads \cup s.text.quads
           /\ {q \in before.quads \ old.quads : q[1] \notin Unseen(s)} \subseteq after.quads
           /\ \A q \in old.quads \ s.text.quads :
                q[1] = s.scope => q \notin after.quads \/ q \in Elsewhere(store[s.ns], s)
           /\ \A b \in before.blocks \ after.blocks : \/ b \in old.blocks \/ b.of \in Unseen(s)
                                                      \/ s.tab = "shapes" /\ b.path = s.scope
           /\ \A n \in Namespaces \ {s.ns} : store'[n] = store[n]
           /\ Rebuilds(s) \/ <<Registered(store'), StoredNotes(store'), rows'>>
                               = <<Registered(store), StoredNotes(store), rows>>
<1>1. ASSUME SavesInv, [TransferNext]_allVars PROVE Saved
  <2>1. ASSUME saving # NotSaving, store' # store, saving' # saving PROVE SaveWrites
    BY <1>1, <2>1
    DEF TransferNext, Export, ImportBundle, ImportFile, Register, Group, Find, Fetch, WriteGroup, EnsureWorkspace,
        AddMember, MemberAdded, NotesNext, EnsureNote, Finish, ImportFails, Open, Close, Loaded, LoadFails, PanelOnly,
        Save, SaveFails, MemberStep, CallFails, RestUnchanged, allVars, transferVars
  <2>2. Forms /\ Flow /\ ScopesKnown  BY <1>1 DEF SavesInv, ChecksInv
  <2>3. SUFFICES ASSUME saving # NotSaving, saving' # saving, store' # store, Whole(store[saving.ns]) = saving.read
                 PROVE  Saved
    BY Zenon
  <2> QED  BY <2>1, <2>2, <2>3, SaveIsText, Zenon
<1>2. TransferInit => SavesInv
  <2>1. TransferInit => ScopesKnown  BY DEF TransferInit, ScopesKnown, NoPanel
  <2> QED  BY <2>1, InitForms, InitFlow DEF SavesInv, ChecksInv
<1>3. SavesInv /\ [TransferNext]_allVars => SavesInv'
  BY StepForms, StepFlow, StepFetch, StepScopes DEF SavesInv, ChecksInv
<1>4. SavesInv /\ [TransferNext]_allVars => [Saved]_allVars  BY <1>1
<1> QED  BY <1>2, <1>3, <1>4, PTL DEF TransferSpec, SavesAreTheirText
=============================================================================

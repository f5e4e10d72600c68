---------------------------- MODULE TurtleGraphs ----------------------------
(***************************************************************************)
(* The graphs of a namespace as sets of triples, and the pure functions    *)
(* over them behind the Turtle panel, the imports and the exports: what of *)
(* a graph belongs to an entity (services/turtle.ts), which graph a triple *)
(* goes to and what an edit replaces (services/sparql-connector.ts), and   *)
(* which graphs are refused (services/validation.ts).                      *)
(*                                                                         *)
(* A property shape is a blank node and has no name outside one document,  *)
(* so it is not a triple but a block: the shape it hangs on and its path.  *)
(***************************************************************************)
EXTENDS FiniteSets

CONSTANTS
  Namespaces,
  Default,     \* DEFAULT_NAMESPACE_BASE_IRI
  ShapeIri,    \* nodeShapeIri: by the class, of whose IRI the local name counts, and the namespace
  Datatypes    \* IRIs of XSD

ASSUME GraphAssumption == Default \in Namespaces
-----------------------------------------------------------------------------
\* namespaceGraphs: the graphs of one namespace.
NoGraph == [instances |-> {}, schema |-> {}, shapes |-> {}, blocks |-> {}]

\* A document: triples and blocks, as a parse or a SELECT over graphs returns them.
Doc(quads, blocks) == [quads |-> quads, blocks |-> blocks]
NoDoc == Doc({}, {})
Joined(docs) == Doc(UNION {d.quads : d \in docs}, UNION {d.blocks : d \in docs})
Less(d, e) == Doc(d.quads \ e.quads, d.blocks \ e.blocks)

\* fetchWholeGraphQuads: one SELECT over the three graphs.
Whole(g) == Doc(g.instances \cup g.schema \cup g.shapes, g.blocks)

Own(d, iri) == {q \in d.quads : q[1] = iri}
IsClass(d, iri) == <<iri, "a", "Class">> \in d.quads
IsProperty(d, iri) == \E t \in {"DatatypeProperty", "ObjectProperty"} : <<iri, "a", t>> \in d.quads
Classes(d) == {q[1] : q \in {t \in d.quads : IsClass(d, t[1])}}
Domains(d, iri) == {q[3] : q \in {t \in Own(d, iri) : t[2] = "domain"}}

\* partitionQuads: reified statements are in neither text.
IsReified(q) == q[2] \in {"subject", "predicate", "object"} \/ <<q[2], q[3]>> = <<"a", "Statement">>
IsShape(q) == q[2] = "targetClass" \/ <<q[2], q[3]>> = <<"a", "NodeShape">>
Part(d, tab) ==
  LET mine(q) == ~IsReified(q) /\ (IsShape(q) <=> tab = "shapes")
  IN  Doc({q \in d.quads : mine(q)}, IF tab = "shapes" THEN d.blocks ELSE {})

\* classIncomingRelationTargets
IncomingTargets(d, class) == {class} \cup {q[1] : q \in {t \in d.quads :
                                             t[2] = "domain" /\ t[3] = class /\ IsProperty(d, t[1])}}

\* filterIncomingRelationQuads
Incoming(d, targets, except) ==
  {q \in d.quads : q[3] \in targets /\ q[1] \notin except /\ IsProperty(d, q[2])}

Individuals(d, class) == {q[1] : q \in {t \in d.quads : t[2] = "a" /\ t[3] = class}}

\* selectScopeUnfiltered.  A class's shape is looked for under the default namespace, whatever
\* the class's own; of a property's block the text has the inside, not the link to it.
ClassScope(d, iri) ==
  LET shape == ShapeIri[iri][Default]
      mine == {iri, shape} \cup Individuals(d, iri)
  IN  Doc({q \in d.quads : q[1] \in mine} \cup Incoming(d, IncomingTargets(d, iri), Individuals(d, iri)),
          {b \in d.blocks : b.of = shape})

PropertyScope(d, iri) ==
  LET shapes == {ShapeIri[c][Default] : c \in Domains(d, iri)}
  IN  Doc(Own(d, iri), {[b EXCEPT !.of = "none"] : b \in {e \in d.blocks : e.of \in shapes /\ e.path = iri}})

Scope(d, iri) ==
  CASE iri = "all" -> d
    [] iri # "all" /\ IsClass(d, iri) -> ClassScope(d, iri)
    [] iri # "all" /\ ~IsClass(d, iri) /\ IsProperty(d, iri) -> PropertyScope(d, iri)
    [] OTHER -> Doc(Own(d, iri), {})

\* resolveExternalDependencyClosure, below its cap: the least set that holds what it refers to.
Closure(d, members) ==
  LET declared == {q[1] : q \in {t \in d.quads : IsClass(d, t[1]) \/ IsProperty(d, t[1])}} \ members
      refers(S) == {q[3] : q \in UNION {Part(Scope(d, i), "schema").quads : i \in S}} \cap declared
      closed == {S \in SUBSET declared : refers(members \cup S) \subseteq S}
  IN  {i \in declared : \A S \in closed : i \in S}
-----------------------------------------------------------------------------
\* checkStructural.  A cycle is a set of classes of which each has a superclass in the set.
HasCycle(quads) ==
  \E S \in SUBSET {q[1] : q \in {t \in quads : t[2] = "subClassOf"}} :
    S # {} /\ \A c \in S : \E e \in S : <<c, "subClassOf", e>> \in quads

MetaTypes == {"Class", "DatatypeProperty", "ObjectProperty", "NodeShape"}

StructuralIssues(quads) ==
  LET classes == Classes(Doc(quads, {}))
      dangles(q) == \/ q[2] = "domain" /\ q[3] \notin classes
                    \/ q[2] = "range" /\ q[3] \notin classes \cup Datatypes
                    \/ q[2] = "a" /\ q[3] \notin classes \cup MetaTypes \cup {"Statement"}
      conflicts(q) == q[2] = "range" /\ \E t \in quads : t[1] = q[1] /\ t[2] = "range" /\ t # q
  IN  {q \in quads : dangles(q) \/ conflicts(q)} \cup {q \in quads : q[2] = "subClassOf" /\ HasCycle(quads)}

\* checkShaclWellFormedness, of the edited part only.
ShaclIssues(edited, classes) ==
  {q \in edited.quads : /\ q[2] = "targetClass" /\ <<q[1], "a", "NodeShape">> \in edited.quads
                        /\ q[3] \notin classes}
    \cup {b \in edited.blocks : b.of # "none" /\ b.path = "none"}

\* Mutant of Accepted: the edited part is checked, not the graph it goes into.
Accepted_EditOnly(edited, merged) ==
  StructuralIssues(edited.quads) = {} /\ ShaclIssues(edited, Classes(merged)) = {}

\* The checks before a save and before an import: blocking issues only, syntax left out.
Accepted(edited, merged) ==
  StructuralIssues(merged.quads) = {} /\ ShaclIssues(edited, Classes(merged)) = {}
-----------------------------------------------------------------------------
\* looksLikeIndividual
LooksLikeIndividual(quads, iri) == \E q \in quads : q[1] = iri /\ q[2] = "a" /\ q[3] \notin MetaTypes

\* buildScopeInsertOp with splitInstancesFromSchema: the graph each triple goes to.
InsertInto(g, d) ==
  LET schema == Part(d, "schema").quads
      individual == {q \in schema : LooksLikeIndividual(schema, q[1])}
      shapes == Part(d, "shapes")
      reified == {q \in d.quads : IsReified(q)}
  IN  [instances |-> g.instances \cup individual \cup reified, schema |-> g.schema \cup (schema \ individual),
       shapes |-> g.shapes \cup shapes.quads, blocks |-> g.blocks \cup shapes.blocks]

\* Mutant of DeleteScope: an individual's statements are looked for in the schema graph.
DeleteScope_SchemaOnly(g, iri, full, tab, ns) ==
  IF tab = "schema" THEN [g EXCEPT !.schema = {q \in @ : iri # "all" /\ q[1] # iri}] ELSE g

\* buildScopeDeleteOps, for the graphs of namespace ns; full is the scope as it was read.
DeleteScope(g, iri, full, tab, ns) ==
  LET class == iri # "all" /\ IsClass(full, iri)
      shapes == {ShapeIri[c][ns] : c \in Domains(full, iri)}
      others(quads, s) == {q \in quads : q[1] # s}
  IN  CASE iri = "all" /\ tab = "schema" -> [g EXCEPT !.schema = {}]
        [] iri = "all" /\ tab = "shapes" -> [g EXCEPT !.shapes = {}, !.blocks = {}]
        [] class /\ tab = "schema" -> [g EXCEPT !.schema = others(@, iri)]
        [] class /\ tab = "shapes" -> [g EXCEPT !.shapes = others(@, ShapeIri[iri][ns]),
                                                !.blocks = {b \in @ : b.of # ShapeIri[iri][ns]}]
        [] ~class /\ iri # "all" /\ tab = "schema" ->
             IF LooksLikeIndividual(full.quads, iri) THEN [g EXCEPT !.instances = others(@, iri)]
                                                     ELSE [g EXCEPT !.schema = others(@, iri)]
        [] ~class /\ iri # "all" /\ tab = "shapes" ->
             [g EXCEPT !.blocks = {b \in @ : b.of \notin shapes \/ b.path # iri}]

\* Mutant of Clean: a second value of a predicate is inserted beside the first.
Clean_NoConflict(d, existing) == Less(d, existing)

\* importTurtle's triage.  Duplicates and conflicts are skipped; a block is new each time it is
\* parsed, and it is only its link that may be a conflict.
Clean(d, existing) ==
  LET has(s, p) == \E q \in existing.quads : q[1] = s /\ q[2] = p
      linked(s) == \E b \in existing.blocks : b.of = s
  IN  Doc({q \in d.quads \ existing.quads : ~has(q[1], q[2])},
          {IF b.of # "none" /\ linked(b.of) THEN [of |-> "none", path |-> b.path] ELSE b : b \in d.blocks})
=============================================================================

---------------------------- MODULE SchemaEdits ----------------------------
(***************************************************************************)
(* Edits of the data model: the handlers of the canvas page for classes,   *)
(* attributes, relations, inheritance and attributed relationships         *)
(* (routes/+page.svelte), each a sequence of calls of the connector        *)
(* (sparql-connector.ts), over the schema and shapes graphs of several     *)
(* namespaces.  A call is one step: its reads and its one update, which    *)
(* are requests of their own.  That is exact for one editor, whose         *)
(* handlers wait for each other; several editors interleave here between   *)
(* calls only, not between a call's check and its update.  Any request may *)
(* fail, with or without having been executed: the handler then stops      *)
(* where it is.                                                            *)
(***************************************************************************)
EXTENDS Naturals, Sequences, FiniteSets

CONSTANTS
  Namespaces,
  Classes,
  HomeOf,       \* the namespace a class is declared in
  External,     \* classes of external vocabularies, drawn as stubs
  Names,        \* the names of attributes, relations and links
  Drawn,        \* those an editor gives to attributes and relations
  Editors,
  MaxEdits,     \* bound on the edits begun
  MaxFailures   \* bound on the requests that fail

ASSUME SchemaEditsAssumption ==
  /\ HomeOf \in [Classes -> Namespaces]
  /\ Drawn \subseteq Names /\ Namespaces \cap Classes = {} /\ Classes \cap External = {}
  /\ IsFiniteSet(Namespaces) /\ IsFiniteSet(Classes) /\ IsFiniteSet(Names)
  /\ MaxEdits \in Nat /\ MaxFailures \in Nat

VARIABLES
  graph,        \* the schema and shapes graphs of every namespace
  todo,         \* the calls each editor's handler has still to make
  deleted,      \* the classes somebody deleted, and whether in spite of a warning
  blurred,      \* a relation may no longer be told from what had its name, or is not its reverse's reverse:
                \* a class was created again, a relation drawn over a property, an attribute declared where
                \* a deleted relation has left its range or its reverse, an association made a plain class
  edits, failures

vars == <<graph, todo, deleted, blurred, edits, failures>>
-----------------------------------------------------------------------------
None == "none"
String == "string"                 \* the one datatype
Marker == "AttributedRelationship" \* the superclass of association classes

ASSUME NamesApart ==
  Classes \cap {None, String, Marker} = {} /\ \A c \in Classes, n \in Names : <<c, n>> # None

\* A specific property belongs to a class, a generic one to a namespace.
Specific == Classes \X Names
Generic == Namespaces \X Names
Props == Specific \cup Generic
Graph(p) == IF p \in Generic THEN p[1] ELSE HomeOf[p[1]]

Graphs ==
  [classes : SUBSET Classes,
   subOf   : SUBSET (Classes \X (Classes \cup External \cup {Marker})),
   shapes  : SUBSET Classes,
   types   : SUBSET (Props \X {"attribute", "relation"}),
   ranges  : SUBSET (Namespaces \X Props \X (Classes \cup {String})),
   labels  : SUBSET (Namespaces \X Props \X Names),
   blocks  : SUBSET [of : Classes, path : Props, class : Classes \cup {None}, datatype : BOOLEAN, name : Names],
   links   : SUBSET (Props \X {"inverseOf", "reverseOf"} \X Props)]

Empty(declared) ==
  [classes |-> declared, subOf |-> {}, shapes |-> {}, types |-> {}, ranges |-> {}, labels |-> {},
   blocks |-> {}, links |-> {}]

Init ==
  /\ graph \in {Empty(declared) : declared \in SUBSET Classes}
  /\ todo = [e \in Editors |-> <<>>]
  /\ deleted = {} /\ blurred = FALSE /\ edits = 0 /\ failures = 0

\* What the pages and the connector see in the graph.
Exists(p) == \E kind \in {"attribute", "relation"} : <<p, kind>> \in graph.types
HasDomain(p, ns) == p \in Specific /\ Graph(p) = ns /\ Exists(p)
Blocks(c, p) == {b \in graph.blocks : b.of = c /\ b.path = p}
Targets(c, p) == {b.class : b \in Blocks(c, p)} \ {None}
FoundAs(n) == {p \in Generic : <<p, "relation">> \in graph.types /\ <<p[1], p, n>> \in graph.labels}
Block(c, p, t, n) == [of |-> c, path |-> p, class |-> t, datatype |-> FALSE, name |-> n]

\* The edges of the canvas: a class, a property, a target.
Relations ==
  {r \in Classes \X Props \X Classes :
     /\ {r[1], r[3]} \subseteq graph.classes /\ <<r[2], "relation">> \in graph.types
     /\ \/ r[2] \in Specific /\ r[2][1] = r[1] /\ <<HomeOf[r[1]], r[2], r[3]>> \in graph.ranges
        \/ r[2] \in Generic /\ r[3] \in Targets(r[1], r[2])}
IsAssociation(c) == <<c, Marker>> \in graph.subOf
Links(c) == {r \in Relations : r[1] = c /\ IsAssociation(c)}
Inverses(p) == {q \in Props : <<p, "inverseOf", q>> \in graph.links}
Orders(S) == {order \in [1..Cardinality(S) -> S] : S = {order[i] : i \in 1..Cardinality(S)}}
-----------------------------------------------------------------------------
Call(e) == Head(todo[e])
Now(e, op) == todo[e] # <<>> /\ Call(e)[1] = op

\* The call has done its update: the handler goes on, or has lost the answer and stops.
Write(e, g) ==
  /\ graph' = g
  /\ \/ todo' = [todo EXCEPT ![e] = Tail(@)] /\ UNCHANGED failures
     \/ /\ failures < MaxFailures /\ failures' = failures + 1
        /\ todo' = [todo EXCEPT ![e] = <<>>]

\* The call turns into other calls, writes nothing, or throws.
Becomes(e, calls) == todo' = [todo EXCEPT ![e] = calls \o Tail(@)] /\ UNCHANGED <<graph, failures>>
Skip(e) == Becomes(e, <<>>)
Throw(e) == todo' = [todo EXCEPT ![e] = <<>>] /\ UNCHANGED <<graph, failures>>

Fail(e) ==
  /\ todo[e] # <<>>
  /\ failures < MaxFailures /\ failures' = failures + 1
  /\ todo' = [todo EXCEPT ![e] = <<>>]
  /\ UNCHANGED <<graph, deleted, blurred, edits>>
-----------------------------------------------------------------------------
\* insertClass: refuses a class that is there.
InsertClass(e, c) ==
  /\ IF c \in graph.classes THEN Throw(e) ELSE Write(e, [graph EXCEPT !.classes = @ \cup {c}])
  /\ blurred' = (blurred \/ \E force \in BOOLEAN : <<c, force>> \in deleted)
  /\ UNCHANGED deleted

\* Every set that holds the direct superclasses of s, by the pairs of R, and is closed, holds t.
Above(R, s, t) ==
  \A S \in SUBSET (Classes \cup External \cup {Marker}) :
    (\A pair \in R : (pair[1] = s \/ pair[1] \in S) => pair[2] \in S) => t \in S

\* The pairs in the schema graph of a namespace.
SubOfIn(ns) == {pair \in graph.subOf : HomeOf[pair[1]] = ns}

\* Mutant of WouldCreateCycle: only a class below itself is refused.
WouldCreateCycle_Self(s, t) == s = t

WouldCreateCycle(s, t) == s = t \/ Above(SubOfIn(HomeOf[s]), t, s)

\* insertSubClassOf: a cycle among the pairs of the subclass's graph is refused, and the handler goes on.
\* The hierarchy is read by one request and the pair inserted by a second; one step for one editor.
InsertSubClassOf(e, s, t) ==
  /\ IF WouldCreateCycle(s, t) THEN Skip(e) ELSE Write(e, [graph EXCEPT !.subOf = @ \cup {<<s, t>>}])
  /\ UNCHANGED <<deleted, blurred>>

DeleteSubClassOf(e, s, t) ==
  /\ Write(e, [graph EXCEPT !.subOf = @ \ {<<s, t>>}])
  /\ blurred' = (blurred \/ t = Marker)
  /\ UNCHANGED deleted

\* ensureNodeShape.
EnsureNodeShape(e, c) ==
  /\ IF c \in graph.shapes THEN Skip(e) ELSE Write(e, [graph EXCEPT !.shapes = @ \cup {c}])
  /\ UNCHANGED <<deleted, blurred>>

\* insertDatatypeProperty: refuses a property that is there.
InsertDatatypeProperty(e, c, n) ==
  /\ IF Exists(<<c, n>>) THEN Throw(e)
     ELSE Becomes(e, <<<<"ensureNodeShape", c>>, <<"declareAttribute", c, n>>>>)
  /\ UNCHANGED <<deleted, blurred>>

\* Both halves of an attribute, in one update.
DeclareAttribute(e, c, n) ==
  /\ Write(e, [graph EXCEPT !.types = @ \cup {<<<<c, n>>, "attribute">>},
                            !.ranges = @ \cup {<<HomeOf[c], <<c, n>>, String>>},
                            !.blocks = @ \cup {[Block(c, <<c, n>>, None, n) EXCEPT !.datatype = TRUE]}])
  /\ blurred' = \/ blurred \/ \E r \in graph.ranges : r[2] = <<c, n>>
                \/ \E q \in Props : <<c, n>> \in Inverses(q)
  /\ UNCHANGED deleted

\* What is left when the ranges of p in the graph of ns are replaced.
Retarget(ranges, ns, p, t) == {r \in ranges : ~(r[1] = ns /\ r[2] = p)} \cup {<<ns, p, t>>}

\* updateDatatypeProperty: label and range are written whether the property is declared or not.
UpdateDatatypeProperty(e, p) ==
  LET c == p[1] IN
  /\ Write(e, [graph EXCEPT !.ranges = Retarget(@, HomeOf[c], p, String),
                            !.blocks = (@ \ Blocks(c, p)) \cup {[b EXCEPT !.datatype = TRUE] : b \in Blocks(c, p)}])
  /\ UNCHANGED <<deleted, blurred>>

\* Mutant of UsedElsewhere: only classes that declare the relation are asked.
UsedElsewhere_Declarers(p, c) == \E b \in graph.blocks : b.path = p /\ b.of # c /\ p[1] = b.of

\* Another class of the namespace has a block for the property.
UsedElsewhere(p, c) == \E b \in graph.blocks : b.path = p /\ b.of # c /\ HomeOf[b.of] = HomeOf[c]

\* deletePropertyTriples: a property without a domain that another class of the namespace uses
\* only loses the class's own blocks.  Asked in one request, deleted in the next; one step for one editor.
WithoutProperty(p, c) ==
  LET ns == HomeOf[c]
      own == [graph EXCEPT !.blocks = @ \ Blocks(c, p)]
  IN  IF ~HasDomain(p, ns) /\ UsedElsewhere(p, c) THEN own
      ELSE [own EXCEPT !.types = {x \in @ : ~(x[1] = p /\ Graph(p) = ns)},
                       !.ranges = {r \in @ : ~(r[1] = ns /\ r[2] = p)},
                       !.labels = {l \in @ : ~(l[1] = ns /\ l[2] = p)},
                       !.links = {l \in @ : ~(l[1] = p /\ Graph(p) = ns)}]
\* deleteDatatypeProperty.
DeleteDatatypeProperty(e, p, c) ==
  /\ Write(e, WithoutProperty(p, c))
  /\ UNCHANGED <<deleted, blurred>>
-----------------------------------------------------------------------------
\* rewriteGenericPropertyShapeTargets: one block per target, and the label in the graph of the class.
Rewritten(c, p, targets, n) ==
  [graph EXCEPT !.labels = {l \in @ : ~(l[1] = HomeOf[c] /\ l[2] = p)} \cup {<<HomeOf[c], p, n>>},
                !.blocks = (@ \ Blocks(c, p)) \cup {Block(c, p, t, n) : t \in targets}]

\* insertObjectProperty: the namespace is that of the source class, which must be there.
InsertObjectProperty(e, c, t, n, kind) ==
  /\ IF c \notin graph.classes THEN Throw(e)
     ELSE Becomes(e, <<<<"ensureNodeShape", c>>,
                       <<IF kind = "generic" THEN "shareRelation" ELSE "declareRelation", c, t, n>>>>)
  /\ UNCHANGED <<deleted, blurred>>

\* Generic: a relation of that label, in any namespace, is reused; else one is declared.  Found in one
\* request, inserted in the next; one step for one editor.
ShareRelation(e, c, t, n) ==
  LET fresh == <<HomeOf[c], n>> IN
  /\ \/ /\ FoundAs(n) = {}
        /\ IF Exists(fresh) THEN Throw(e)
           ELSE Write(e, [graph EXCEPT !.types = @ \cup {<<fresh, "relation">>},
                                       !.labels = @ \cup {<<HomeOf[c], fresh, n>>},
                                       !.blocks = @ \cup {Block(c, fresh, t, n)}])
     \/ \E p \in FoundAs(n) :
          CASE t \in Targets(c, p) -> Throw(e)
            [] Targets(c, p) = {} -> Write(e, [graph EXCEPT !.blocks = @ \cup {Block(c, p, t, n)}])
            [] OTHER -> Write(e, Rewritten(c, p, Targets(c, p) \cup {t}, n))
  /\ UNCHANGED <<deleted, blurred>>

\* Specific: declared, or written over the property the class has under that name.
DeclareRelation(e, c, t, n) ==
  LET p == <<c, n>> IN
  /\ Write(e, [graph EXCEPT !.types = @ \cup {<<p, "relation">>},
                            !.ranges = Retarget(@, HomeOf[c], p, t),
                            !.blocks = (@ \ Blocks(c, p)) \cup {Block(c, p, t, n)}])
  /\ blurred' = (blurred \/ Exists(p))
  /\ UNCHANGED deleted

\* updateObjectProperty.  The name of a specific relation is only displayed, and left out.
UpdateObjectProperty(e, c, p, old, t, n, kind) ==
  /\ CASE c \notin graph.classes -> Throw(e)
       [] kind = "generic" /\ Cardinality(Targets(c, p)) > 1 ->
            IF old \in Targets(c, p) /\ t \in Targets(c, p) \ {old} THEN Throw(e)
            ELSE Write(e, Rewritten(c, p, IF old \in Targets(c, p) THEN (Targets(c, p) \ {old}) \cup {t}
                                          ELSE Targets(c, p), n))
       [] kind = "generic" /\ Cardinality(Targets(c, p)) <= 1 ->
            Write(e, [Rewritten(c, p, {}, n) EXCEPT !.blocks = @ \cup {[b EXCEPT !.class = t] : b \in Blocks(c, p)}])
       [] OTHER ->
            Write(e, [graph EXCEPT !.ranges = Retarget(@, HomeOf[c], p, t),
                                   !.blocks = (@ \ Blocks(c, p)) \cup {[b EXCEPT !.class = t] : b \in Blocks(c, p)}])
  /\ UNCHANGED <<deleted, blurred>>

\* deleteObjectProperty: of a generic relation with other targets only one target is dropped.
DeleteObjectProperty(e, p, c, t) ==
  /\ CASE c \notin graph.classes -> Throw(e)
       [] c \in graph.classes /\ t # None /\ ~HasDomain(p, HomeOf[c]) /\ Cardinality(Targets(c, p)) > 1 ->
            \E b \in Blocks(c, p) : Write(e, Rewritten(c, p, Targets(c, p) \ {t}, b.name))
       [] OTHER -> Write(e, WithoutProperty(p, c))
  /\ UNCHANGED <<deleted, blurred>>

\* linkGeneratedReverse, unlinkGeneratedReverse: each side in the graph of the class that is named.
LinkGeneratedReverse(e, p, q) ==
  /\ Write(e, [graph EXCEPT !.links = @ \cup {<<p, "inverseOf", q>>, <<q, "inverseOf", p>>, <<q, "reverseOf", p>>}])
  /\ UNCHANGED <<deleted, blurred>>

UnlinkGeneratedReverse(e, p, c, q, d) ==
  /\ IF {c, d} \subseteq graph.classes
     THEN Write(e, [graph EXCEPT !.links = {l \in @ :
            /\ ~(l = <<p, "inverseOf", q>> /\ Graph(p) = HomeOf[c])
            /\ ~(l[1] = q /\ l[3] = p /\ Graph(q) = HomeOf[d])}])
     ELSE Throw(e)
  /\ UNCHANGED <<deleted, blurred>>
-----------------------------------------------------------------------------
\* Mutant of References: only ranges count, which a generic relation has not.
References_Ranges(c) == {r[2] : r \in {x \in graph.ranges : x[1] = HomeOf[c] /\ x[3] = c}}

\* findExternalReferences, in the graphs of the class's namespace; findSubClassReferences, in all.
References(c) ==
  {r[2] : r \in {x \in graph.ranges : x[1] = HomeOf[c] /\ x[3] = c}}
    \cup {b.path : b \in {x \in graph.blocks : x.class = c /\ HomeOf[x.of] = HomeOf[c]}}
Subclasses(c) == {s \in Classes : <<s, c>> \in graph.subOf}

\* Mutant of Removal: the class goes first, then what it owned.
Removal_ClassFirst(c, force) == <<<<"dropClass", c, force>>, <<"deleteOwnProperties", c>>>>

\* What deleteClass does when no subclass is left.
Removal(c, force) == <<<<"deleteOwnProperties", c>>, <<"dropClass", c, force>>>>

\* deleteClass: refused while something refers to the class, unless forced.
DeleteClass(e, c, force) ==
  /\ IF References(c) \cup Subclasses(c) # {} /\ ~force THEN Throw(e)
     ELSE \E subs \in Orders(Subclasses(c)) :
            Becomes(e, [i \in DOMAIN subs |-> <<"deleteSubClassOf", subs[i], c>>]
                         \o Removal(c, force))
  /\ UNCHANGED <<deleted, blurred>>

\* findOwnProperties.
OwnProperties(c) ==
  {p \in Specific : p[1] = c /\ Exists(p)}
    \cup {b.path : b \in {x \in graph.blocks : x.of = c /\ c \in graph.shapes}}

DeleteOwnProperties(e, c) ==
  /\ \E own \in Orders(OwnProperties(c)) :
       Becomes(e, [i \in DOMAIN own |-> <<"deleteDatatypeProperty", own[i], c>>])
  /\ UNCHANGED <<deleted, blurred>>

DropClass(e, c, force) ==
  /\ Write(e, [graph EXCEPT !.classes = @ \ {c}, !.shapes = @ \ {c},
                            !.subOf = {pair \in @ : pair[1] # c},
                            !.blocks = {b \in @ : b.of # c}])
  /\ deleted' = deleted \cup {<<c, force>>}
  /\ UNCHANGED blurred

\* The next call of a handler.
Step(e) ==
  /\ todo[e] # <<>>
  /\ LET call == Call(e) IN
     \/ Now(e, "insertClass") /\ InsertClass(e, call[2])
     \/ Now(e, "insertSubClassOf") /\ InsertSubClassOf(e, call[2], call[3])
     \/ Now(e, "deleteSubClassOf") /\ DeleteSubClassOf(e, call[2], call[3])
     \/ Now(e, "ensureNodeShape") /\ EnsureNodeShape(e, call[2])
     \/ Now(e, "insertDatatypeProperty") /\ InsertDatatypeProperty(e, call[2], call[3])
     \/ Now(e, "declareAttribute") /\ DeclareAttribute(e, call[2], call[3])
     \/ Now(e, "updateDatatypeProperty") /\ UpdateDatatypeProperty(e, call[2])
     \/ Now(e, "deleteDatatypeProperty") /\ DeleteDatatypeProperty(e, call[2], call[3])
     \/ Now(e, "insertObjectProperty") /\ InsertObjectProperty(e, call[2], call[3], call[4], call[5])
     \/ Now(e, "shareRelation") /\ ShareRelation(e, call[2], call[3], call[4])
     \/ Now(e, "declareRelation") /\ DeclareRelation(e, call[2], call[3], call[4])
     \/ Now(e, "updateObjectProperty")
        /\ UpdateObjectProperty(e, call[2], call[3], call[4], call[5], call[6], call[7])
     \/ Now(e, "deleteObjectProperty") /\ DeleteObjectProperty(e, call[2], call[3], call[4])
     \/ Now(e, "link") /\ LinkGeneratedReverse(e, call[2], call[3])
     \/ Now(e, "unlink") /\ UnlinkGeneratedReverse(e, call[2], call[3], call[4], call[5])
     \/ Now(e, "deleteClass") /\ DeleteClass(e, call[2], call[3])
     \/ Now(e, "deleteOwnProperties") /\ DeleteOwnProperties(e, call[2])
     \/ Now(e, "dropClass") /\ DropClass(e, call[2], call[3])
  /\ UNCHANGED edits
-----------------------------------------------------------------------------
\* A handler starts, on what its editor sees.
Begin(e, calls) ==
  /\ todo[e] = <<>> /\ edits < MaxEdits /\ edits' = edits + 1
  /\ todo' = [todo EXCEPT ![e] = calls]
  /\ UNCHANGED <<graph, deleted, blurred, failures>>

\* handleCreateEntity.
CreateEntity(e, c) == Begin(e, <<<<"insertClass", c>>>>)

\* handleDeleteEntityConfirm: the button that forces is there after a warning.
DeleteEntity(e, c, force) ==
  /\ c \in graph.classes /\ (force => References(c) \cup Subclasses(c) # {})
  /\ Begin(e, <<<<"deleteClass", c, force>>>>)

\* handleAttributeSubmit, handleDeleteAttributeConfirm.
SubmitAttribute(e, c, n) ==
  /\ c \in graph.classes
  /\ \/ Begin(e, <<<<"insertDatatypeProperty", c, n>>>>)
     \/ <<<<c, n>>, "attribute">> \in graph.types /\ Begin(e, <<<<"updateDatatypeProperty", <<c, n>>>>>>)

DeleteAttribute(e, c, n) ==
  /\ c \in graph.classes /\ <<<<c, n>>, "attribute">> \in graph.types
  /\ Begin(e, <<<<"deleteDatatypeProperty", <<c, n>>, c>>>>)

\* The calls that draw a specific relation from t back to c, and pair it with p.
Reverse(p, c, t, n) == <<<<"insertObjectProperty", t, c, n, "specific">>, <<"link", p, <<t, n>>>>>>

\* handleCreateRelationSubmit.
DrawRelation(e, c, t, n) ==
  /\ {c, t} \subseteq graph.classes
  /\ \/ \E kind \in {"specific", "generic"} : Begin(e, <<<<"insertObjectProperty", c, t, n, kind>>>>)
     \/ \E m \in Drawn : Begin(e, <<<<"insertObjectProperty", c, t, n, "specific">>>> \o Reverse(<<c, n>>, c, t, m))

\* Mutant of Kept: the reverse is kept when the relation gets another target, too.
Kept_Always(q, old, t) == q # None

\* A reverse is only kept while the target stays.
Kept(q, old, t) == q # None /\ old = t

\* handleEditRelationFormSubmit: the relation, then its reverse, which is kept, replaced or removed.
EditRelation(e, edge, t, n) ==
  /\ ~IsAssociation(edge[1]) /\ t \in graph.classes
  /\ LET c == edge[1]
         p == edge[2]
         old == edge[3]
         update(kind) == <<<<"updateObjectProperty", c, p, old, t, n, kind>>>>
         remove(q) == IF q = None THEN <<>>
                      ELSE <<<<"unlink", p, c, q, old>>, <<"deleteObjectProperty", q, old, None>>>>
         partners == IF Inverses(p) = {} THEN {None} ELSE Inverses(p)
     IN  \/ p \in Generic /\ Begin(e, update("generic"))
         \/ /\ p \in Specific
            /\ \E q \in partners :
                 \/ Begin(e, update("specific") \o remove(q))
                 \/ \E m \in Drawn :
                      Begin(e, update("specific") \o
                               IF Kept(q, old, t)
                               THEN <<<<"updateObjectProperty", old, q, None, c, m, "specific">>>>
                               ELSE remove(q) \o Reverse(p, c, t, m))

\* handleDeleteRelationConfirm: breaks the pair, and leaves the other relation.
DeleteRelation(e, edge) ==
  /\ ~IsAssociation(edge[1])
  /\ LET drop == <<<<"deleteObjectProperty", edge[2], edge[1], edge[3]>>>>
     IN  IF Inverses(edge[2]) = {} THEN Begin(e, drop)
         ELSE \E q \in Inverses(edge[2]) : Begin(e, <<<<"unlink", edge[2], edge[1], q, edge[3]>>>> \o drop)

\* createInheritanceEdge, handleDeleteInheritanceConfirm, handleRemoveExternalStub.
DrawInheritance(e, s, t) ==
  /\ s \in graph.classes /\ t \in graph.classes \cup External
  /\ Begin(e, <<<<"insertSubClassOf", s, t>>>>)

DeleteInheritance(e, s, t) ==
  /\ <<s, t>> \in graph.subOf /\ t # Marker
  /\ Begin(e, <<<<"deleteSubClassOf", s, t>>>>)

RemoveStub(e, x) ==
  /\ x \in External /\ Subclasses(x) # {}
  /\ \E subs \in Orders(Subclasses(x)) : Begin(e, [i \in DOMAIN subs |-> <<"deleteSubClassOf", subs[i], x>>])

\* handleCreateAssociation: the class, its marker and two links; the form does not compare the names.
CreateAssociation(e, c, n, t, m, u) ==
  /\ {t, u} \subseteq graph.classes
  /\ Begin(e, <<<<"insertClass", c>>, <<"insertSubClassOf", c, Marker>>,
                <<"insertObjectProperty", c, t, n, "specific">>, <<"insertObjectProperty", c, u, m, "specific">>>>)

\* handleToggleAssociation, from the form of an association: it is a plain class again.
ToggleAssociation(e, c) ==
  /\ IsAssociation(c) /\ c \in graph.classes
  /\ Begin(e, <<<<"deleteSubClassOf", c, Marker>>>>)

\* handleCreateLinkSubmit, handleEditLinkSubmit, handleDeleteLinkConfirm: never below two links.
SubmitLink(e, c, t, n) ==
  /\ IsAssociation(c) /\ {c, t} \subseteq graph.classes
  /\ \/ Begin(e, <<<<"insertObjectProperty", c, t, n, "specific">>>>)
     \/ \E link \in Links(c) : Begin(e, <<<<"updateObjectProperty", c, link[2], None, t, n, "specific">>>>)

DeleteLink(e, edge) ==
  /\ IsAssociation(edge[1]) /\ Cardinality(Links(edge[1])) > 2
  /\ Begin(e, <<<<"deleteObjectProperty", edge[2], edge[1], None>>>>)

\* handleEditAssociationSubmit: the links that are gone, then the new one.
EditAssociation(e, c, kept, t, n) ==
  /\ IsAssociation(c) /\ kept \subseteq Links(c) /\ kept # {} /\ t \in graph.classes
  /\ \E gone \in Orders(Links(c) \ kept) :
       Begin(e, [i \in DOMAIN gone |-> <<"deleteObjectProperty", gone[i][2], c, None>>]
                  \o <<<<"insertObjectProperty", c, t, n, "specific">>>>)

Edit(e) ==
  /\ todo[e] = <<>> /\ edits < MaxEdits
  /\ \/ \E c \in Classes :
          \/ CreateEntity(e, c) \/ ToggleAssociation(e, c) \/ \E force \in BOOLEAN : DeleteEntity(e, c, force)
          \/ \E n \in Drawn : SubmitAttribute(e, c, n) \/ DeleteAttribute(e, c, n)
          \/ \E t \in Classes, n \in Drawn : DrawRelation(e, c, t, n)
          \/ \E t \in Classes, n \in Names :
               \/ SubmitLink(e, c, t, n)
               \/ \E kept \in SUBSET Links(c) : EditAssociation(e, c, kept, t, n)
               \/ \E u \in Classes, m \in Names : CreateAssociation(e, c, n, t, m, u)
          \/ \E t \in Classes \cup External : DrawInheritance(e, c, t) \/ DeleteInheritance(e, c, t)
     \/ \E edge \in Relations :
          \/ DeleteRelation(e, edge) \/ DeleteLink(e, edge)
          \/ \E t \in Classes, n \in Drawn : EditRelation(e, edge, t, n)
     \/ \E x \in External : RemoveStub(e, x)

Next == \E e \in Editors : Step(e) \/ Fail(e) \/ Edit(e)

Spec == Init /\ [][Next]_vars
-----------------------------------------------------------------------------
\* Types: every variable stays in its domain.
TypeOK ==
  /\ graph \in Graphs
  /\ DOMAIN todo = Editors
  /\ deleted \subseteq Classes \X BOOLEAN /\ blurred \in BOOLEAN
  /\ edits \in 0..MaxEdits /\ failures \in 0..MaxFailures

\* A property or a shape never outlives its class, wherever a deletion stops.
OwnersAreThere ==
  /\ graph.shapes \subseteq graph.classes
  /\ \A p \in Specific : Exists(p) => p[1] \in graph.classes
  /\ \A b \in graph.blocks : b.of \in graph.shapes

\* No class is declared below a class that is gone, in whatever namespace: a deletion is refused,
\* or removes the inheritance first.
NoOrphanedSubclass ==
  \A pair \in graph.subOf : pair[1] \in graph.classes /\ (pair[2] \in Classes => pair[2] \in graph.classes)

\* A deletion leaves neither what the class owned nor what was below it behind, and a failed one
\* leaves the class with what remains.
DeletionsLeaveNothing == OwnersAreThere /\ NoOrphanedSubclass

\* A class that something in its own namespace still refers to is only gone when its deletion was
\* forced.
NothingDanglesUnwarned ==
  \A c \in Classes \ graph.classes : <<c, TRUE>> \notin deleted =>
    /\ \A r \in graph.ranges : ~(r[1] = HomeOf[c] /\ r[3] = c)
    /\ \A b \in graph.blocks : ~(b.class = c /\ HomeOf[b.of] = HomeOf[c])

\* The hierarchy of a namespace never closes a cycle, whatever is drawn, removed and drawn again.
HierarchiesEnd ==
  \A ns \in Namespaces, S \in SUBSET Classes :
    S # {} => \E s \in S : \A t \in S : <<s, t>> \notin SubOfIn(ns)

\* A generic relation stays declared while a class of its namespace uses it, though each class
\* and each target is drawn and deleted on its own.
GenericsStayDeclared ==
  \A b \in graph.blocks : (b.path \in Generic /\ b.path[1] = HomeOf[b.of]) => Exists(b.path)

\* The two halves of a specific property, its declaration and its shape entry, agree.
HalvesAgree(p) ==
  LET blocks == {b \in graph.blocks : b.path = p}
      ranges == {r \in graph.ranges : r[2] = p}
  IN  IF ~Exists(p) THEN blocks = {}
      ELSE \E b \in blocks, r \in ranges :
             /\ blocks = {b} /\ ranges = {r} /\ b.of = p[1] /\ r[1] = Graph(p)
             /\ IF <<p, "attribute">> \in graph.types THEN b.datatype /\ b.class = None /\ r[3] = String
                ELSE ~b.datatype /\ b.class = r[3]

\* No drift between schema and shapes, through renaming, retargeting, reverses that come and go,
\* associations and deletions, while no request fails, no name is given again to what is there or
\* has left something, and no association becomes a plain class.
ShapesFollowSchema == (failures = 0 /\ ~blurred) => \A p \in Specific : HalvesAgree(p)

\* deletePropertyTriples: the declaration is only removed with the last remaining reference.
EveryUseIsDeclared == \A b \in graph.blocks : b.path \in Generic => Exists(b.path)

\* updateObjectProperty keeps triples and shape entry in sync.
NeverDrifts == \A p \in Specific : HalvesAgree(p)

\* An attributed relationship needs at least two links.
AssociationsLinkTwo ==
  failures = 0 => \A e \in Editors, c \in Classes :
    (todo[e] = <<>> /\ IsAssociation(c) /\ c \in graph.classes /\ deleted = {}) => Cardinality(Links(c)) >= 2
=============================================================================

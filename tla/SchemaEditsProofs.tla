------------------------- MODULE SchemaEditsProofs -------------------------
(***************************************************************************)
(* Proofs about SchemaEdits, for any namespaces, classes and names and one *)
(* editor at a time: no hierarchy of a namespace closes a cycle, no        *)
(* generic relation in use is undeclared, a deletion leaves nothing        *)
(* behind, what it leaves dangling it was warned of, and what is declared  *)
(* of a property agrees with its shape entry.                              *)
(***************************************************************************)
EXTENDS SchemaEdits, FiniteSetTheorems, SequenceTheorems, TLAPS

\* A graph whose hierarchies end, whichever graph it is.
Ends(subOf) ==
  \A ns \in Namespaces, S \in SUBSET Classes :
    S # {} => \E s \in S : \A t \in S : ~(<<s, t>> \in subOf /\ HomeOf[s] = ns)

Supers == Classes \cup External \cup {Marker}
Kinds == {"specific", "generic"}

\* The calls handlers make, each with its arguments.
CallSet ==
  ({"insertClass", "ensureNodeShape", "deleteOwnProperties"} \X Classes)
  \cup ({"insertSubClassOf", "deleteSubClassOf"} \X Classes \X Supers)
  \cup ({"insertDatatypeProperty", "declareAttribute"} \X Classes \X Names)
  \cup ({"updateDatatypeProperty"} \X Specific)
  \cup ({"deleteDatatypeProperty"} \X Props \X Classes)
  \cup ({"insertObjectProperty"} \X Classes \X Classes \X Names \X Kinds)
  \cup ({"shareRelation", "declareRelation"} \X Classes \X Classes \X Names)
  \cup ({"updateObjectProperty"} \X Classes \X Props \X (Classes \cup {None}) \X Classes \X Names \X Kinds)
  \cup ({"deleteObjectProperty"} \X Props \X Classes \X (Classes \cup {None}))
  \cup ({"link"} \X Props \X Props)
  \cup ({"unlink"} \X Props \X Classes \X Props \X Classes)
  \cup ({"deleteClass", "dropClass"} \X Classes \X BOOLEAN)

(***************************************************************************)
(* The inductive invariant: the two properties themselves, and that every  *)
(* call has yet to be made on classes and properties of the model.         *)
(***************************************************************************)
Types == graph \in Graphs /\ todo \in [Editors -> Seq(CallSet)]

Inv == Types /\ Ends(graph.subOf) /\ GenericsStayDeclared

LEMMA EndsIs == HierarchiesEnd <=> Ends(graph.subOf)
  BY DEF HierarchiesEnd, Ends, SubOfIn

LEMMA FewerEnd == ASSUME NEW R, NEW Q, Q \subseteq R, Ends(R) PROVE Ends(Q)
  BY DEF Ends

\* A pair that is not refused closes no cycle.
LEMMA OneMoreEnds ==
  ASSUME NEW s, NEW t, Ends(graph.subOf), ~WouldCreateCycle(s, t)
  PROVE  Ends(graph.subOf \cup {<<s, t>>})
<1> DEFINE all == Classes \cup External \cup {Marker}
<1> SUFFICES ASSUME NEW ns \in Namespaces, NEW S \in SUBSET Classes, S # {},
                    \A x \in S : \E y \in S : <<x, y>> \in graph.subOf \cup {<<s, t>>} /\ HomeOf[x] = ns
             PROVE  FALSE
  BY DEF Ends
<1>1. s # t /\ ~Above(SubOfIn(HomeOf[s]), t, s)
  BY DEF WouldCreateCycle
<1>2. PICK C \in SUBSET all :
        /\ \A pair \in SubOfIn(HomeOf[s]) : (pair[1] = t \/ pair[1] \in C) => pair[2] \in C
        /\ s \notin C
  BY <1>1 DEF Above
<1>3. CASE HomeOf[s] # ns \/ s \notin S
  <2>1. \A x \in S : \E y \in S : <<x, y>> \in graph.subOf /\ HomeOf[x] = ns
    BY <1>3
  <2> QED  BY <2>1 DEF Ends
<1>4. CASE HomeOf[s] = ns /\ s \in S
  <2>1. \A x, y : (<<x, y>> \in graph.subOf /\ HomeOf[x] = ns /\ (x = t \/ x \in C)) => y \in C
    BY <1>2, <1>4 DEF SubOfIn
  \* Within C the new pair plays no part, so that no class of S is in C.
  <2>2. S \cap C = {}
    <3> SUFFICES ASSUME S \cap C # {} PROVE FALSE
      OBVIOUS
    <3>1. \A x \in S \cap C : \E y \in S \cap C : <<x, y>> \in graph.subOf /\ HomeOf[x] = ns
      BY <1>2, <2>1
    <3> QED  BY <3>1 DEF Ends
  <2>3. CASE t \in S
    <3>1. PICK y \in S : <<t, y>> \in graph.subOf /\ HomeOf[t] = ns
      BY <1>1, <2>3
    <3> QED  BY <2>1, <2>2, <3>1
  <2>4. CASE t \notin S
    <3>1. \A x \in S : \E y \in S : <<x, y>> \in graph.subOf /\ HomeOf[x] = ns
      BY <2>4
    <3> QED  BY <3>1 DEF Ends
  <2> QED  BY <2>3, <2>4
<1> QED  BY <1>3, <1>4

-----------------------------------------------------------------------------
(* The graph *)

BlockType == [of : Classes, path : Props, class : Classes \cup {None}, datatype : BOOLEAN, name : Names]

LEMMA Disjoint == Specific \cap Generic = {} /\ Specific \subseteq Props /\ Generic \subseteq Props
  BY SchemaEditsAssumption DEF Specific, Generic, Props

LEMMA BlockTyped ==
  ASSUME NEW c \in Classes, NEW p \in Props, NEW t \in Classes \cup {None}, NEW n \in Names
  PROVE  /\ Block(c, p, t, n) \in BlockType
         /\ Block(c, p, t, n).of = c /\ Block(c, p, t, n).path = p
  BY DEF Block, BlockType

\* What a graph keeps when nothing but its blocks, and what is left of it, changes.
Declared(g) ==
  \A b \in g.blocks : (b.path \in Generic /\ b.path[1] = HomeOf[b.of])
                       => \E kind \in {"attribute", "relation"} : <<b.path, kind>> \in g.types

LEMMA DeclaredIs == GenericsStayDeclared <=> Declared(graph)
  BY DEF GenericsStayDeclared, Declared, Exists

Good(g) == g \in Graphs /\ Ends(g.subOf) /\ Declared(g)

\* Blocks of specific properties, or of paths that had one, need no declaration more.
LEMMA SameDeclared ==
  ASSUME Good(graph), NEW g \in Graphs, graph.types \subseteq g.types,
         \A b \in g.blocks \ graph.blocks :
           b.path \in Specific \/ \E o \in graph.blocks : o.path = b.path /\ o.of = b.of
  PROVE  Declared(g)
  BY Disjoint DEF Good, Declared

LEMMA WithoutPropertyGood ==
  ASSUME Good(graph), NEW p \in Props, NEW c \in Classes
  PROVE  Good(WithoutProperty(p, c))
<1> DEFINE ns == HomeOf[c]
           own == [graph EXCEPT !.blocks = @ \ Blocks(c, p)]
           rest == [own EXCEPT !.types = {x \in @ : ~(x[1] = p /\ Graph(p) = ns)},
                               !.ranges = {r \in @ : ~(r[1] = ns /\ r[2] = p)},
                               !.labels = {l \in @ : ~(l[1] = ns /\ l[2] = p)},
                               !.links = {l \in @ : ~(l[1] = p /\ Graph(p) = ns)}]
<1>1. /\ own \in Graphs /\ own.subOf = graph.subOf /\ own.types = graph.types
      /\ own.blocks = graph.blocks \ Blocks(c, p)
  BY DEF Good, Graphs
<1> HIDE DEF own
<1>2. /\ rest \in Graphs /\ rest.subOf = graph.subOf /\ rest.blocks = own.blocks
      /\ rest.types = {x \in graph.types : ~(x[1] = p /\ Graph(p) = ns)}
  BY <1>1 DEF Graphs
<1> HIDE DEF rest
<1>3. Good(own)
  BY <1>1, SameDeclared DEF Good
<1>4. CASE ~HasDomain(p, ns) /\ UsedElsewhere(p, c)
  BY <1>3, <1>4 DEF WithoutProperty, own
<1>5. CASE ~(~HasDomain(p, ns) /\ UsedElsewhere(p, c))
  <2>1. WithoutProperty(p, c) = rest
    BY <1>5 DEF WithoutProperty, own, rest
  <2>2. ASSUME NEW b \in rest.blocks, b.path \in Generic, b.path[1] = HomeOf[b.of]
        PROVE  \E kind \in {"attribute", "relation"} : <<b.path, kind>> \in rest.types
    <3>1. PICK kind \in {"attribute", "relation"} : <<b.path, kind>> \in graph.types
      BY <1>1, <1>2, <2>2 DEF Good, Declared
    <3>2. CASE b.path = p /\ Graph(p) = ns
      <4>1. ~HasDomain(p, ns) /\ b.of # c /\ HomeOf[b.of] = HomeOf[c] /\ b \in graph.blocks
        BY <1>1, <1>2, <2>2, <3>2, Disjoint DEF HasDomain, Graph, Blocks
      <4> QED  BY <1>5, <4>1, <3>2 DEF UsedElsewhere
    <3>3. CASE ~(b.path = p /\ Graph(p) = ns)
      BY <1>2, <3>1, <3>3
    <3> QED  BY <3>2, <3>3
  <2> QED  BY <2>1, <2>2, <1>2 DEF Good, Declared
<1> QED  BY <1>4, <1>5

LEMMA RewrittenGood ==
  ASSUME Good(graph), NEW c \in Classes, NEW p \in Props, NEW targets \in SUBSET Classes, NEW n \in Names,
         targets = {} \/ Blocks(c, p) # {} \/ (p \in Generic => Exists(p))
  PROVE  Good(Rewritten(c, p, targets, n))
<1> DEFINE g == Rewritten(c, p, targets, n)
           fresh == {Block(c, p, t, n) : t \in targets}
<1>1. \A b \in fresh : b \in BlockType /\ b.of = c /\ b.path = p
  BY BlockTyped
<1>2. HomeOf[c] \in Namespaces
  BY SchemaEditsAssumption
<1> DEFINE labels == {l \in graph.labels : ~(l[1] = HomeOf[c] /\ l[2] = p)} \cup {<<HomeOf[c], p, n>>}
           blocks == (graph.blocks \ Blocks(c, p)) \cup fresh
<1>3. g = [graph EXCEPT !.labels = labels, !.blocks = blocks]
  BY DEF Rewritten
<1>4. labels \in SUBSET (Namespaces \X Props \X Names)
  BY <1>2 DEF Good, Graphs
<1>5. blocks \in SUBSET BlockType
  BY <1>1 DEF Good, Graphs, BlockType
<1> HIDE DEF g, labels
<1>6. g \in Graphs /\ g.subOf = graph.subOf /\ g.types = graph.types /\ g.blocks = blocks
  <2> HIDE DEF blocks
  <2> QED  BY <1>3, <1>4, <1>5 DEF Good, Graphs, BlockType
<1> HIDE DEF fresh
<1>7. ASSUME Blocks(c, p) # {} PROVE Good(g)
  <2>1. \A b \in g.blocks \ graph.blocks : \E o \in graph.blocks : o.path = b.path /\ o.of = b.of
    BY <1>1, <1>6, <1>7 DEF Blocks
  <2> QED  BY <1>6, <2>1, SameDeclared DEF Good
<1>8. ASSUME p \in Generic => Exists(p) PROVE Good(g)
  <2>1. Declared(g)
    BY <1>1, <1>6, <1>8 DEF Good, Declared, Exists
  <2> QED  BY <1>6, <2>1 DEF Good
<1>9. ASSUME targets = {} PROVE Good(g)
  <2>1. g.blocks \subseteq graph.blocks
    BY <1>6, <1>9 DEF fresh
  <2> QED  BY <1>6, <2>1, SameDeclared DEF Good
<1> QED  BY <1>7, <1>8, <1>9 DEF g

-----------------------------------------------------------------------------
(* The calls *)

LEMMA HeadTyped ==
  ASSUME Types, NEW e \in Editors, todo[e] # <<>>
  PROVE  Call(e) \in CallSet /\ Tail(todo[e]) \in Seq(CallSet)
<1>1. todo[e] \in Seq(CallSet)
  BY DEF Types
<1> QED  BY <1>1 DEF Call

LEMMA WriteGood ==
  ASSUME Types, NEW e \in Editors, todo[e] # <<>>, NEW g, Good(g), Write(e, g)
  PROVE  Inv'
<1>1. <<>> \in Seq(CallSet)
  OBVIOUS
<1>2. Tail(todo[e]) \in Seq(CallSet)
  BY HeadTyped
<1>3. todo' \in [Editors -> Seq(CallSet)]
  BY <1>1, <1>2 DEF Types, Write
<1>4. graph' = g
  BY DEF Write
<1>5. GenericsStayDeclared'
  BY <1>4 DEF Good, Declared, GenericsStayDeclared, Exists
<1> QED  BY <1>3, <1>4, <1>5 DEF Inv, Types, Good

\* A call that throws, or turns into other calls, leaves the graph as it is.
LEMMA GoesOnGood ==
  ASSUME Inv, NEW e \in Editors, todo[e] # <<>>, NEW calls \in Seq(CallSet),
         Becomes(e, calls) \/ Throw(e) \/ Skip(e)
  PROVE  Inv'
<1>1. <<>> \in Seq(CallSet)
  OBVIOUS
<1>2. Tail(todo[e]) \in Seq(CallSet)
  BY HeadTyped DEF Inv
<1>3. calls \o Tail(todo[e]) \in Seq(CallSet) /\ <<>> \o Tail(todo[e]) \in Seq(CallSet)
  BY <1>1, <1>2
<1>4. todo' \in [Editors -> Seq(CallSet)] /\ graph' = graph
  BY <1>1, <1>3 DEF Inv, Types, Becomes, Throw, Skip
<1> QED  BY <1>4 DEF Inv, Types, GenericsStayDeclared, Exists

LEMMA InvIsGood == Inv <=> Types /\ Good(graph)
  BY DeclaredIs DEF Inv, Good, Types

LEMMA InsertClassGood ==
  ASSUME Inv, NEW e \in Editors, todo[e] # <<>>, NEW c \in Classes, InsertClass(e, c)
  PROVE  Inv'
<1> DEFINE g == [graph EXCEPT !.classes = @ \cup {c}]
<1>1. Good(graph) /\ Types
  BY InvIsGood
<1>2. g \in Graphs /\ g.subOf = graph.subOf /\ g.types = graph.types /\ g.blocks = graph.blocks
  BY <1>1 DEF Good, Graphs
<1>3. Write(e, g) \/ Throw(e)
  BY DEF InsertClass
<1> HIDE DEF g
<1>4. Good(g)
  BY <1>1, <1>2, SameDeclared DEF Good
<1>5. <<>> \in Seq(CallSet)
  OBVIOUS
<1> QED  BY <1>1, <1>3, <1>4, <1>5, WriteGood, GoesOnGood

LEMMA SubClassOfGood ==
  ASSUME Inv, NEW e \in Editors, todo[e] # <<>>, NEW s \in Classes, NEW t \in Supers,
         InsertSubClassOf(e, s, t) \/ DeleteSubClassOf(e, s, t)
  PROVE  Inv'
<1> DEFINE more == [graph EXCEPT !.subOf = @ \cup {<<s, t>>}]
           less == [graph EXCEPT !.subOf = @ \ {<<s, t>>}]
<1>1. Good(graph) /\ Types
  BY InvIsGood
<1>2. /\ more \in Graphs /\ more.subOf = graph.subOf \cup {<<s, t>>} /\ more.types = graph.types
      /\ more.blocks = graph.blocks
  BY <1>1 DEF Good, Graphs, Supers
<1>3. /\ less \in Graphs /\ less.subOf = graph.subOf \ {<<s, t>>} /\ less.types = graph.types
      /\ less.blocks = graph.blocks
  BY <1>1 DEF Good, Graphs
<1>4. Skip(e) \/ (~WouldCreateCycle(s, t) /\ Write(e, more)) \/ Write(e, less)
  BY DEF InsertSubClassOf, DeleteSubClassOf
<1> HIDE DEF more, less
<1>5. Good(less)
  BY <1>1, <1>3, FewerEnd, SameDeclared DEF Good
<1>6. ASSUME ~WouldCreateCycle(s, t) PROVE Good(more)
  BY <1>1, <1>2, <1>6, OneMoreEnds, SameDeclared DEF Good
<1>7. <<>> \in Seq(CallSet)
  OBVIOUS
<1> QED  BY <1>1, <1>4, <1>5, <1>6, <1>7, WriteGood, GoesOnGood

LEMMA CallsTyped ==
  ASSUME NEW c \in Classes, NEW d \in Classes, NEW t \in Supers, NEW n \in Names, NEW a \in Specific,
         NEW p \in Props, NEW q \in Props, NEW kind \in Kinds, NEW old \in Classes \cup {None}, NEW force \in BOOLEAN
  PROVE  /\ {<<"insertClass", c>>, <<"ensureNodeShape", c>>, <<"deleteOwnProperties", c>>} \subseteq CallSet
         /\ {<<"insertSubClassOf", c, t>>, <<"deleteSubClassOf", c, t>>} \subseteq CallSet
         /\ {<<"insertDatatypeProperty", c, n>>, <<"declareAttribute", c, n>>} \subseteq CallSet
         /\ {<<"updateDatatypeProperty", a>>, <<"deleteDatatypeProperty", p, c>>} \subseteq CallSet
         /\ <<"insertObjectProperty", c, d, n, kind>> \in CallSet
         /\ {<<"shareRelation", c, d, n>>, <<"declareRelation", c, d, n>>} \subseteq CallSet
         /\ <<"updateObjectProperty", c, p, old, d, n, kind>> \in CallSet
         /\ <<"deleteObjectProperty", p, c, old>> \in CallSet
         /\ {<<"link", p, q>>, <<"unlink", p, c, q, d>>} \subseteq CallSet
         /\ {<<"deleteClass", c, force>>, <<"dropClass", c, force>>} \subseteq CallSet
<1>1. {<<"insertClass", c>>, <<"ensureNodeShape", c>>, <<"deleteOwnProperties", c>>} \subseteq CallSet
  BY DEF CallSet
<1>2. {<<"insertSubClassOf", c, t>>, <<"deleteSubClassOf", c, t>>} \subseteq CallSet
  BY DEF CallSet
<1>3. {<<"insertDatatypeProperty", c, n>>, <<"declareAttribute", c, n>>} \subseteq CallSet
  BY DEF CallSet
<1>4. {<<"updateDatatypeProperty", a>>, <<"deleteDatatypeProperty", p, c>>} \subseteq CallSet
  BY DEF CallSet
<1>5. <<"insertObjectProperty", c, d, n, kind>> \in CallSet
  BY DEF CallSet
<1>6. {<<"shareRelation", c, d, n>>, <<"declareRelation", c, d, n>>} \subseteq CallSet
  BY DEF CallSet
<1>7. <<"updateObjectProperty", c, p, old, d, n, kind>> \in CallSet
  BY DEF CallSet
<1>8. <<"deleteObjectProperty", p, c, old>> \in CallSet
  BY DEF CallSet
<1>9. {<<"link", p, q>>, <<"unlink", p, c, q, d>>} \subseteq CallSet
  BY DEF CallSet
<1>10. {<<"deleteClass", c, force>>, <<"dropClass", c, force>>} \subseteq CallSet
  BY DEF CallSet
<1> QED  BY <1>1, <1>2, <1>3, <1>4, <1>5, <1>6, <1>7, <1>8, <1>9, <1>10

LEMMA EnsureNodeShapeGood ==
  ASSUME Inv, NEW e \in Editors, todo[e] # <<>>, NEW c \in Classes, EnsureNodeShape(e, c)
  PROVE  Inv'
<1> DEFINE g == [graph EXCEPT !.shapes = @ \cup {c}]
<1>1. Good(graph) /\ Types
  BY InvIsGood
<1>2. g \in Graphs /\ g.subOf = graph.subOf /\ g.types = graph.types /\ g.blocks = graph.blocks
  BY <1>1 DEF Good, Graphs
<1>3. Write(e, g) \/ Skip(e)
  BY DEF EnsureNodeShape
<1> HIDE DEF g
<1>4. Good(g)
  BY <1>1, <1>2, SameDeclared DEF Good
<1>5. <<>> \in Seq(CallSet)
  OBVIOUS
<1> QED  BY <1>1, <1>3, <1>4, <1>5, WriteGood, GoesOnGood

LEMMA InsertDatatypePropertyGood ==
  ASSUME Inv, NEW e \in Editors, todo[e] # <<>>, NEW c \in Classes, NEW n \in Names,
         InsertDatatypeProperty(e, c, n)
  PROVE  Inv'
<1> DEFINE calls == <<<<"ensureNodeShape", c>>, <<"declareAttribute", c, n>>>>
<1>1. <<"ensureNodeShape", c>> \in CallSet /\ <<"declareAttribute", c, n>> \in CallSet
  BY DEF CallSet
<1> HIDE DEF CallSet
<1>2. calls \in Seq(CallSet)
  BY <1>1
<1>3. Throw(e) \/ Becomes(e, calls)
  BY DEF InsertDatatypeProperty
<1> HIDE DEF calls
<1> QED  BY <1>2, <1>3, GoesOnGood

LEMMA DeclareAttributeGood ==
  ASSUME Inv, NEW e \in Editors, todo[e] # <<>>, NEW c \in Classes, NEW n \in Names, DeclareAttribute(e, c, n)
  PROVE  Inv'
<1> DEFINE p == <<c, n>>
           b == [Block(c, p, None, n) EXCEPT !.datatype = TRUE]
           g == [graph EXCEPT !.types = @ \cup {<<p, "attribute">>},
                              !.ranges = @ \cup {<<HomeOf[c], p, String>>}, !.blocks = @ \cup {b}]
<1>1. Good(graph) /\ Types
  BY InvIsGood
<1>2. p \in Specific /\ p \in Props /\ HomeOf[c] \in Namespaces
  BY SchemaEditsAssumption DEF Specific, Props
<1> HIDE DEF p
<1>3. b \in BlockType /\ b.path = p
  BY <1>2 DEF Block, BlockType
<1>4. Write(e, g)
  BY DEF DeclareAttribute, p
<1> DEFINE types == graph.types \cup {<<p, "attribute">>}
           ranges == graph.ranges \cup {<<HomeOf[c], p, String>>}
<1>a. types \in SUBSET (Props \X {"attribute", "relation"})
  BY <1>1, <1>2 DEF Good, Graphs
<1>b. ranges \in SUBSET (Namespaces \X Props \X (Classes \cup {String}))
  BY <1>1, <1>2 DEF Good, Graphs
<1>c. g = [graph EXCEPT !.types = types, !.ranges = ranges, !.blocks = @ \cup {b}] /\ graph.types \subseteq types
  OBVIOUS
<1> HIDE DEF b, g, types, ranges
<1>5. g \in Graphs /\ g.subOf = graph.subOf /\ graph.types \subseteq g.types /\ g.blocks = graph.blocks \cup {b}
  BY <1>1, <1>3, <1>a, <1>b, <1>c DEF Good, Graphs, BlockType
<1> HIDE DEF g
<1>6. Good(g)
  BY <1>1, <1>2, <1>3, <1>5, SameDeclared DEF Good
<1> QED  BY <1>1, <1>4, <1>6, WriteGood

LEMMA RetargetTyped ==
  ASSUME Good(graph), NEW ns \in Namespaces, NEW p \in Props, NEW t \in Classes \cup {String}
  PROVE  Retarget(graph.ranges, ns, p, t) \in SUBSET (Namespaces \X Props \X (Classes \cup {String}))
  BY DEF Retarget, Good, Graphs

\* Writing over the blocks a class has for a property.
LEMMA OverwriteGood ==
  ASSUME Good(graph), NEW ns \in Namespaces, NEW p \in Props, NEW c \in Classes, NEW t \in Classes \cup {String},
         NEW fresh \in SUBSET BlockType,
         \A b \in fresh : b.path \in Specific \/ \E o \in graph.blocks : o.path = b.path /\ o.of = b.of
  PROVE  /\ Good([graph EXCEPT !.ranges = Retarget(@, ns, p, t), !.blocks = (@ \ Blocks(c, p)) \cup fresh])
         /\ Good([graph EXCEPT !.types = @ \cup {<<p, "relation">>}, !.ranges = Retarget(@, ns, p, t),
                               !.blocks = (@ \ Blocks(c, p)) \cup fresh])
<1> DEFINE ranges == Retarget(graph.ranges, ns, p, t)
           blocks == (graph.blocks \ Blocks(c, p)) \cup fresh
           types == graph.types \cup {<<p, "relation">>}
           g == [graph EXCEPT !.ranges = ranges, !.blocks = blocks]
           h == [graph EXCEPT !.types = types, !.ranges = ranges, !.blocks = blocks]
<1>1. ranges \in SUBSET (Namespaces \X Props \X (Classes \cup {String}))
  BY RetargetTyped
<1>2. blocks \in SUBSET BlockType
  BY DEF Good, Graphs, BlockType
<1>3. \A b \in blocks \ graph.blocks : b.path \in Specific \/ \E o \in graph.blocks : o.path = b.path /\ o.of = b.of
  OBVIOUS
<1>a. types \in SUBSET (Props \X {"attribute", "relation"}) /\ graph.types \subseteq types
  BY DEF Good, Graphs
<1> HIDE DEF ranges, blocks, types
<1>4. g \in Graphs /\ g.subOf = graph.subOf /\ g.types = graph.types /\ g.blocks = blocks
  BY <1>1, <1>2 DEF Good, Graphs, BlockType
<1>5. h \in Graphs /\ h.subOf = graph.subOf /\ graph.types \subseteq h.types /\ h.blocks = blocks
  BY <1>1, <1>2, <1>a DEF Good, Graphs, BlockType
<1>6. [graph EXCEPT !.ranges = Retarget(@, ns, p, t), !.blocks = (@ \ Blocks(c, p)) \cup fresh] = g
  BY DEF g, ranges, blocks
<1>7. [graph EXCEPT !.types = @ \cup {<<p, "relation">>}, !.ranges = Retarget(@, ns, p, t),
                    !.blocks = (@ \ Blocks(c, p)) \cup fresh] = h
  BY DEF h, ranges, blocks, types
<1> HIDE DEF g, h
<1>8. Good(g) /\ Good(h)
  BY <1>3, <1>4, <1>5, SameDeclared DEF Good
<1> QED  BY <1>6, <1>7, <1>8

LEMMA BlocksTyped ==
  ASSUME Good(graph), NEW c, NEW p, NEW t \in Classes \cup {None}
  PROVE  /\ Blocks(c, p) \subseteq graph.blocks /\ graph.blocks \subseteq BlockType
         /\ \A b \in BlockType : /\ [b EXCEPT !.datatype = TRUE] \in BlockType
                                 /\ [b EXCEPT !.datatype = TRUE].path = b.path
                                 /\ [b EXCEPT !.datatype = TRUE].of = b.of
                                 /\ [b EXCEPT !.class = t] \in BlockType
                                 /\ [b EXCEPT !.class = t].path = b.path
                                 /\ [b EXCEPT !.class = t].of = b.of
         /\ \A b \in Blocks(c, p) : b.of = c /\ b.path = p
         /\ Targets(c, p) \subseteq Classes
<1>1. graph.blocks \subseteq BlockType
  BY DEF Good, Graphs, BlockType
<1>2. Blocks(c, p) \subseteq graph.blocks /\ \A b \in Blocks(c, p) : b.of = c /\ b.path = p
  BY DEF Blocks
<1>3. Targets(c, p) \subseteq Classes
  BY <1>1, <1>2 DEF Targets, BlockType
<1>4. ASSUME NEW b \in BlockType
      PROVE  /\ [b EXCEPT !.datatype = TRUE] \in BlockType
             /\ [b EXCEPT !.datatype = TRUE].path = b.path /\ [b EXCEPT !.datatype = TRUE].of = b.of
             /\ [b EXCEPT !.class = t] \in BlockType
             /\ [b EXCEPT !.class = t].path = b.path /\ [b EXCEPT !.class = t].of = b.of
  BY <1>4 DEF BlockType
<1> QED  BY <1>1, <1>2, <1>3, <1>4

\* More blocks on a graph with the declarations there are.
LEMMA MoreBlocksGood ==
  ASSUME Good(graph), NEW g, Good(g), g.types = graph.types, NEW fresh \in SUBSET BlockType,
         \A b \in fresh : \/ b.path \in Specific \/ Exists(b.path)
                        \/ \E o \in graph.blocks : o.path = b.path /\ o.of = b.of
  PROVE  Good([g EXCEPT !.blocks = @ \cup fresh])
<1> DEFINE h == [g EXCEPT !.blocks = @ \cup fresh]
<1>1. h \in Graphs /\ h.subOf = g.subOf /\ h.types = g.types /\ h.blocks = g.blocks \cup fresh
  BY DEF Good, Graphs, BlockType
<1> HIDE DEF h
<1>2. Declared(h)
  <2> SUFFICES ASSUME NEW b \in h.blocks, b.path \in Generic, b.path[1] = HomeOf[b.of]
               PROVE  \E kind \in {"attribute", "relation"} : <<b.path, kind>> \in h.types
    BY DEF Declared
  <2>1. CASE b \in g.blocks
    BY <1>1, <2>1 DEF Good, Declared
  <2>2. CASE b \in fresh
    BY <1>1, <2>2, Disjoint DEF Good, Declared, Exists
  <2> QED  BY <1>1, <2>1, <2>2
<1>3. Good(h)
  BY <1>1, <1>2 DEF Good
<1> QED  BY <1>3 DEF h

LEMMA UpdateDatatypePropertyGood ==
  ASSUME Inv, NEW e \in Editors, todo[e] # <<>>, NEW p \in Specific, UpdateDatatypeProperty(e, p)
  PROVE  Inv'
<1> DEFINE c == p[1]
           fresh == {[b EXCEPT !.datatype = TRUE] : b \in Blocks(c, p)}
           g == [graph EXCEPT !.ranges = Retarget(@, HomeOf[c], p, String), !.blocks = (@ \ Blocks(c, p)) \cup fresh]
<1>1. Good(graph) /\ Types
  BY InvIsGood
<1>2. p \in Props /\ c \in Classes /\ HomeOf[c] \in Namespaces /\ String \in Classes \cup {String}
  BY SchemaEditsAssumption DEF Specific, Props
<1>3. Write(e, g)
  BY DEF UpdateDatatypeProperty
<1> HIDE DEF c
<1>4. fresh \in SUBSET BlockType /\ \A b \in fresh : \E o \in graph.blocks : o.path = b.path /\ o.of = b.of
  <2>1. None \in Classes \cup {None}
    OBVIOUS
  <2>2. /\ Blocks(c, p) \subseteq graph.blocks /\ graph.blocks \subseteq BlockType
        /\ \A b \in BlockType : LET n == [b EXCEPT !.datatype = TRUE] IN n \in BlockType /\ n.path = b.path /\ n.of = b.of
    BY <1>1, <2>1, BlocksTyped
  <2> QED  BY <2>2
<1> HIDE DEF fresh
<1>5. Good(g)
  BY <1>1, <1>2, <1>4, OverwriteGood
<1> HIDE DEF g
<1> QED  BY <1>1, <1>3, <1>5, WriteGood

LEMMA DeletePropertyGood ==
  ASSUME Inv, NEW e \in Editors, todo[e] # <<>>, NEW p \in Props, NEW c \in Classes, DeleteDatatypeProperty(e, p, c)
  PROVE  Inv'
  BY InvIsGood, WithoutPropertyGood, WriteGood DEF DeleteDatatypeProperty

LEMMA InsertObjectPropertyGood ==
  ASSUME Inv, NEW e \in Editors, todo[e] # <<>>, NEW c \in Classes, NEW t \in Classes, NEW n \in Names, NEW kind \in Kinds,
         InsertObjectProperty(e, c, t, n, kind)
  PROVE  Inv'
<1> DEFINE second == <<IF kind = "generic" THEN "shareRelation" ELSE "declareRelation", c, t, n>>
           calls == <<<<"ensureNodeShape", c>>, second>>
<1>1. <<"ensureNodeShape", c>> \in CallSet
  BY DEF CallSet
<1>2. second \in CallSet
  BY DEF CallSet
<1> HIDE DEF CallSet, second
<1>3. calls \in Seq(CallSet)
  BY <1>1, <1>2
<1>4. Throw(e) \/ Becomes(e, calls)
  BY DEF InsertObjectProperty, second
<1> HIDE DEF calls
<1> QED  BY <1>3, <1>4, GoesOnGood

LEMMA DeclareRelationGood ==
  ASSUME Inv, NEW e \in Editors, todo[e] # <<>>, NEW c \in Classes, NEW t \in Classes, NEW n \in Names,
         DeclareRelation(e, c, t, n)
  PROVE  Inv'
<1> DEFINE p == <<c, n>>
           fresh == {Block(c, p, t, n)}
           g == [graph EXCEPT !.types = @ \cup {<<p, "relation">>}, !.ranges = Retarget(@, HomeOf[c], p, t),
                              !.blocks = (@ \ Blocks(c, p)) \cup fresh]
<1>1. Good(graph) /\ Types
  BY InvIsGood
<1>2. p \in Specific /\ p \in Props /\ HomeOf[c] \in Namespaces /\ t \in Classes \cup {String}
  BY SchemaEditsAssumption DEF Specific, Props
<1>3. Write(e, g)
  BY DEF DeclareRelation
<1> HIDE DEF p
<1>4. fresh \in SUBSET BlockType /\ \A b \in fresh : b.path \in Specific
  BY <1>2, BlockTyped
<1> HIDE DEF fresh
<1>5. Good(g)
  BY <1>1, <1>2, <1>4, OverwriteGood
<1> HIDE DEF g
<1> QED  BY <1>1, <1>3, <1>5, WriteGood

LEMMA ShareRelationGood ==
  ASSUME Inv, NEW e \in Editors, todo[e] # <<>>, NEW c \in Classes, NEW t \in Classes, NEW n \in Names,
         ShareRelation(e, c, t, n)
  PROVE  Inv'
<1> DEFINE fresh == <<HomeOf[c], n>>
<1>1. Good(graph) /\ Types
  BY InvIsGood
<1>2. fresh \in Generic /\ fresh \in Props /\ HomeOf[c] \in Namespaces
  BY SchemaEditsAssumption DEF Generic, Props
<1>3. <<>> \in Seq(CallSet)
  OBVIOUS
<1>4. CASE Throw(e)
  BY <1>3, <1>4, GoesOnGood
<1>5. ASSUME NEW p \in Props, Exists(p), Write(e, [graph EXCEPT !.blocks = @ \cup {Block(c, p, t, n)}])
      PROVE  Inv'
  <2>1. {Block(c, p, t, n)} \in SUBSET BlockType /\ Block(c, p, t, n).path = p
    BY BlockTyped
  <2>2. Good([graph EXCEPT !.blocks = @ \cup {Block(c, p, t, n)}])
    BY <1>1, <1>5, <2>1, MoreBlocksGood
  <2> QED  BY <1>1, <1>5, <2>2, WriteGood
<1>6. ASSUME NEW p \in Props, Exists(p), Write(e, Rewritten(c, p, Targets(c, p) \cup {t}, n))
      PROVE  Inv'
  <2>1. Targets(c, p) \cup {t} \in SUBSET Classes
    <3>1. None \in Classes \cup {None}
      OBVIOUS
    <3> QED  BY <1>1, <3>1, BlocksTyped
  <2>2. Good(Rewritten(c, p, Targets(c, p) \cup {t}, n))
    BY <1>1, <1>6, <2>1, RewrittenGood
  <2> QED  BY <1>1, <1>6, <2>2, WriteGood
<1>7. CASE Write(e, [graph EXCEPT !.types = @ \cup {<<fresh, "relation">>}, !.labels = @ \cup {<<HomeOf[c], fresh, n>>},
                                  !.blocks = @ \cup {Block(c, fresh, t, n)}])
  <2> DEFINE b == Block(c, fresh, t, n)
             types == graph.types \cup {<<fresh, "relation">>}
             labels == graph.labels \cup {<<HomeOf[c], fresh, n>>}
             g == [graph EXCEPT !.types = types, !.labels = labels, !.blocks = @ \cup {b}]
  <2>1. b \in BlockType /\ b.path = fresh
    BY <1>2, BlockTyped
  <2>2. types \in SUBSET (Props \X {"attribute", "relation"}) /\ graph.types \subseteq types /\ <<fresh, "relation">> \in types
    BY <1>1, <1>2 DEF Good, Graphs
  <2>3. labels \in SUBSET (Namespaces \X Props \X Names)
    BY <1>1, <1>2 DEF Good, Graphs
  <2>4. Write(e, g)
    BY <1>7
  <2> HIDE DEF b, types, labels, fresh
  <2>5. g \in Graphs /\ g.subOf = graph.subOf /\ g.types = types /\ g.blocks = graph.blocks \cup {b}
    BY <1>1, <2>1, <2>2, <2>3 DEF Good, Graphs, BlockType
  <2> HIDE DEF g
  <2>6. Declared(g)
    BY <1>1, <2>1, <2>2, <2>5 DEF Good, Declared
  <2>7. Good(g)
    BY <1>1, <2>5, <2>6 DEF Good
  <2> QED  BY <1>1, <2>4, <2>7, WriteGood
<1>8. \A p \in FoundAs(n) : p \in Props /\ Exists(p)
  BY Disjoint DEF FoundAs, Exists
<1> QED  BY <1>4, <1>5, <1>6, <1>7, <1>8 DEF ShareRelation

LEMMA DeleteObjectPropertyGood ==
  ASSUME Inv, NEW e \in Editors, todo[e] # <<>>, NEW p \in Props, NEW c \in Classes, NEW t \in Classes \cup {None},
         DeleteObjectProperty(e, p, c, t)
  PROVE  Inv'
<1>1. Good(graph) /\ Types
  BY InvIsGood
<1>2. <<>> \in Seq(CallSet)
  OBVIOUS
<1>3. ASSUME NEW b \in Blocks(c, p), Write(e, Rewritten(c, p, Targets(c, p) \ {t}, b.name))
      PROVE  Inv'
  <2>1. Targets(c, p) \ {t} \in SUBSET Classes /\ b \in BlockType
    BY <1>1, <1>3, BlocksTyped
  <2>2. b.name \in Names /\ Blocks(c, p) # {}
    BY <1>3, <2>1 DEF BlockType
  <2>3. Good(Rewritten(c, p, Targets(c, p) \ {t}, b.name))
    BY <1>1, <2>1, <2>2, RewrittenGood
  <2> QED  BY <1>1, <1>3, <2>3, WriteGood
<1>4. CASE Write(e, WithoutProperty(p, c))
  BY <1>1, <1>4, WithoutPropertyGood, WriteGood
<1>5. CASE Throw(e)
  BY <1>2, <1>5, GoesOnGood
<1> QED  BY <1>3, <1>4, <1>5 DEF DeleteObjectProperty

LEMMA UpdateObjectPropertyGood ==
  ASSUME Inv, NEW e \in Editors, todo[e] # <<>>, NEW c \in Classes, NEW p \in Props, NEW old, NEW t \in Classes,
         NEW n \in Names, NEW kind, UpdateObjectProperty(e, c, p, old, t, n, kind)
  PROVE  Inv'
<1> DEFINE fresh == {[b EXCEPT !.class = t] : b \in Blocks(c, p)}
           targets == IF old \in Targets(c, p) THEN (Targets(c, p) \ {old}) \cup {t} ELSE Targets(c, p)
<1>1. Good(graph) /\ Types
  BY InvIsGood
<1>2. <<>> \in Seq(CallSet)
  OBVIOUS
<1>3. t \in Classes \cup {None} /\ t \in Classes \cup {String} /\ HomeOf[c] \in Namespaces
  BY SchemaEditsAssumption
<1>4. fresh \in SUBSET BlockType /\ \A b \in fresh : \E o \in graph.blocks : o.path = b.path /\ o.of = b.of
  <2>1. /\ Blocks(c, p) \subseteq graph.blocks /\ graph.blocks \subseteq BlockType
        /\ \A b \in BlockType : LET m == [b EXCEPT !.class = t] IN m \in BlockType /\ m.path = b.path /\ m.of = b.of
    BY <1>1, <1>3, BlocksTyped
  <2> QED  BY <2>1
<1>5. targets \in SUBSET Classes
  BY <1>1, <1>3, BlocksTyped
<1>6. CASE Throw(e)
  BY <1>2, <1>6, GoesOnGood
<1>7. CASE Cardinality(Targets(c, p)) > 1 /\ Write(e, Rewritten(c, p, targets, n))
  <2>1. Targets(c, p) # {}
    BY <1>7, FS_EmptySet
  <2>2. Blocks(c, p) # {}
    BY <2>1 DEF Targets
  <2> HIDE DEF targets
  <2>3. Good(Rewritten(c, p, targets, n))
    BY <1>1, <1>5, <2>2, RewrittenGood
  <2> QED  BY <1>1, <1>7, <2>3, WriteGood
<1>8. CASE Write(e, [Rewritten(c, p, {}, n) EXCEPT !.blocks = @ \cup fresh])
  <2> HIDE DEF fresh
  <2> DEFINE g == Rewritten(c, p, {}, n)
  <2>1. Good(g)
    BY <1>1, RewrittenGood
  <2>2. g.types = graph.types
    BY <1>1 DEF Rewritten, Good, Graphs
  <2> HIDE DEF g
  <2>3. Good([g EXCEPT !.blocks = @ \cup fresh])
    BY <1>1, <1>4, <2>1, <2>2, MoreBlocksGood
  <2>4. Write(e, [g EXCEPT !.blocks = @ \cup fresh])
    BY <1>8 DEF g
  <2> QED  BY <1>1, <2>3, <2>4, WriteGood
<1>9. CASE Write(e, [graph EXCEPT !.ranges = Retarget(@, HomeOf[c], p, t), !.blocks = (@ \ Blocks(c, p)) \cup fresh])
  <2> HIDE DEF fresh
  <2>1. Good([graph EXCEPT !.ranges = Retarget(@, HomeOf[c], p, t), !.blocks = (@ \ Blocks(c, p)) \cup fresh])
    BY <1>1, <1>3, <1>4, OverwriteGood
  <2> QED  BY <1>1, <1>9, <2>1, WriteGood
<1> QED  BY <1>6, <1>7, <1>8, <1>9 DEF UpdateObjectProperty

LEMMA LinksGood ==
  ASSUME Inv, NEW e \in Editors, todo[e] # <<>>, NEW p \in Props, NEW c, NEW q \in Props, NEW d,
         LinkGeneratedReverse(e, p, q) \/ UnlinkGeneratedReverse(e, p, c, q, d)
  PROVE  Inv'
<1> DEFINE more == graph.links \cup {<<p, "inverseOf", q>>, <<q, "inverseOf", p>>, <<q, "reverseOf", p>>}
           less == {l \in graph.links : /\ ~(l = <<p, "inverseOf", q>> /\ Graph(p) = HomeOf[c])
                                       /\ ~(l[1] = q /\ l[3] = p /\ Graph(q) = HomeOf[d])}
<1>1. Good(graph) /\ Types
  BY InvIsGood
<1>2. <<>> \in Seq(CallSet)
  OBVIOUS
<1>3. CASE Throw(e)
  BY <1>2, <1>3, GoesOnGood
<1>4. ASSUME NEW links \in SUBSET (Props \X {"inverseOf", "reverseOf"} \X Props), Write(e, [graph EXCEPT !.links = links])
      PROVE  Inv'
  <2> DEFINE g == [graph EXCEPT !.links = links]
  <2>1. g \in Graphs /\ g.subOf = graph.subOf /\ g.types = graph.types /\ g.blocks = graph.blocks
    BY <1>1 DEF Good, Graphs
  <2> HIDE DEF g
  <2>2. Good(g)
    BY <1>1, <2>1, SameDeclared DEF Good
  <2> QED  BY <1>1, <1>4, <2>2, WriteGood DEF g
<1>5. more \in SUBSET (Props \X {"inverseOf", "reverseOf"} \X Props)
  BY <1>1 DEF Good, Graphs
<1>6. less \in SUBSET (Props \X {"inverseOf", "reverseOf"} \X Props)
  BY <1>1 DEF Good, Graphs
<1>7. Write(e, [graph EXCEPT !.links = more]) \/ Write(e, [graph EXCEPT !.links = less]) \/ Throw(e)
  BY DEF LinkGeneratedReverse, UnlinkGeneratedReverse
<1> HIDE DEF more, less
<1> QED  BY <1>3, <1>4, <1>5, <1>6, <1>7

LEMMA OrdersTyped ==
  ASSUME NEW S, IsFiniteSet(S), NEW order \in Orders(S)
  PROVE  DOMAIN order = 1..Cardinality(S) /\ Cardinality(S) \in Nat /\ \A i \in DOMAIN order : order[i] \in S
  BY FS_CardinalityType DEF Orders

LEMMA SubclassesFinite == ASSUME NEW c PROVE IsFiniteSet(Subclasses(c)) /\ Subclasses(c) \subseteq Classes
<1>1. Subclasses(c) \subseteq Classes
  BY DEF Subclasses
<1> QED  BY <1>1, FS_Subset, SchemaEditsAssumption

LEMMA PropsFinite == IsFiniteSet(Props)
<1>1. IsFiniteSet(Specific) /\ IsFiniteSet(Generic)
  BY FS_Product, SchemaEditsAssumption DEF Specific, Generic
<1> QED  BY <1>1, FS_Union DEF Props

\* The calls that remove the subclasses of c, in any order.
LEMMA DeletionsTyped ==
  ASSUME NEW c \in Supers, NEW subs \in Orders(Subclasses(c))
  PROVE  [i \in DOMAIN subs |-> <<"deleteSubClassOf", subs[i], c>>] \in Seq(CallSet)
<1>1. /\ DOMAIN subs = 1..Cardinality(Subclasses(c)) /\ Cardinality(Subclasses(c)) \in Nat
      /\ \A i \in DOMAIN subs : subs[i] \in Classes
  BY SubclassesFinite, OrdersTyped
<1>2. \A i \in DOMAIN subs : <<"deleteSubClassOf", subs[i], c>> \in CallSet
  BY <1>1 DEF CallSet
<1> HIDE DEF CallSet
<1> QED  BY <1>1, <1>2

LEMMA DeleteClassGood ==
  ASSUME Inv, NEW e \in Editors, todo[e] # <<>>, NEW c \in Classes, NEW force \in BOOLEAN, DeleteClass(e, c, force)
  PROVE  Inv'
<1>1. <<>> \in Seq(CallSet)
  OBVIOUS
<1>2. CASE Throw(e)
  BY <1>1, <1>2, GoesOnGood
<1>3. ASSUME NEW subs \in Orders(Subclasses(c)),
             Becomes(e, [i \in DOMAIN subs |-> <<"deleteSubClassOf", subs[i], c>>] \o Removal(c, force))
      PROVE  Inv'
  <2>1. [i \in DOMAIN subs |-> <<"deleteSubClassOf", subs[i], c>>] \in Seq(CallSet)
    BY DeletionsTyped DEF Supers
  <2>2. <<"deleteOwnProperties", c>> \in CallSet /\ <<"dropClass", c, force>> \in CallSet
    BY DEF CallSet
  <2> HIDE DEF CallSet
  <2>3. Removal(c, force) \in Seq(CallSet)
    BY <2>2 DEF Removal
  <2>4. [i \in DOMAIN subs |-> <<"deleteSubClassOf", subs[i], c>>] \o Removal(c, force) \in Seq(CallSet)
    BY <2>1, <2>3, ConcatProperties
  <2> QED  BY <1>3, <2>4, GoesOnGood
<1> QED  BY <1>2, <1>3 DEF DeleteClass

LEMMA DeleteOwnPropertiesGood ==
  ASSUME Inv, NEW e \in Editors, todo[e] # <<>>, NEW c \in Classes, DeleteOwnProperties(e, c)
  PROVE  Inv'
<1>1. PICK own \in Orders(OwnProperties(c)) :
        Becomes(e, [i \in DOMAIN own |-> <<"deleteDatatypeProperty", own[i], c>>])
  BY DEF DeleteOwnProperties
<1>2. OwnProperties(c) \subseteq Props
  BY Disjoint, InvIsGood DEF OwnProperties, Good, Graphs
<1>3. IsFiniteSet(OwnProperties(c))
  BY <1>2, PropsFinite, FS_Subset
<1>4. /\ DOMAIN own = 1..Cardinality(OwnProperties(c)) /\ Cardinality(OwnProperties(c)) \in Nat
      /\ \A i \in DOMAIN own : own[i] \in Props
  BY <1>2, <1>3, OrdersTyped
<1>5. \A i \in DOMAIN own : <<"deleteDatatypeProperty", own[i], c>> \in CallSet
  BY <1>4 DEF CallSet
<1> HIDE DEF CallSet
<1>6. [i \in DOMAIN own |-> <<"deleteDatatypeProperty", own[i], c>>] \in Seq(CallSet)
  BY <1>4, <1>5
<1> QED  BY <1>1, <1>6, GoesOnGood

LEMMA DropClassGood ==
  ASSUME Inv, NEW e \in Editors, todo[e] # <<>>, NEW c \in Classes, NEW force, DropClass(e, c, force)
  PROVE  Inv'
<1> DEFINE g == [graph EXCEPT !.classes = @ \ {c}, !.shapes = @ \ {c},
                              !.subOf = {pair \in @ : pair[1] # c}, !.blocks = {b \in @ : b.of # c}]
<1>1. Good(graph) /\ Types
  BY InvIsGood
<1>2. /\ g \in Graphs /\ g.subOf \subseteq graph.subOf /\ g.types = graph.types
      /\ g.blocks \subseteq graph.blocks
  BY <1>1 DEF Good, Graphs
<1>3. Write(e, g)
  BY DEF DropClass
<1> HIDE DEF g
<1>4. Good(g)
  BY <1>1, <1>2, FewerEnd, SameDeclared DEF Good
<1> QED  BY <1>1, <1>3, <1>4, WriteGood

LEMMA ArgumentsTyped ==
  ASSUME NEW call \in CallSet
  PROVE  /\ call[1] \in {"insertClass", "ensureNodeShape", "deleteOwnProperties"} => call[2] \in Classes
         /\ call[1] \in {"insertSubClassOf", "deleteSubClassOf"} => call[2] \in Classes /\ call[3] \in Supers
         /\ call[1] \in {"insertDatatypeProperty", "declareAttribute"} => call[2] \in Classes /\ call[3] \in Names
         /\ call[1] = "updateDatatypeProperty" => call[2] \in Specific
         /\ call[1] = "deleteDatatypeProperty" => call[2] \in Props /\ call[3] \in Classes
         /\ call[1] = "insertObjectProperty" =>
              call[2] \in Classes /\ call[3] \in Classes /\ call[4] \in Names /\ call[5] \in Kinds
         /\ call[1] \in {"shareRelation", "declareRelation"} =>
              call[2] \in Classes /\ call[3] \in Classes /\ call[4] \in Names
         /\ call[1] = "updateObjectProperty" =>
              call[2] \in Classes /\ call[3] \in Props /\ call[5] \in Classes /\ call[6] \in Names
         /\ call[1] = "deleteObjectProperty" =>
              call[2] \in Props /\ call[3] \in Classes /\ call[4] \in Classes \cup {None}
         /\ call[1] = "link" => call[2] \in Props /\ call[3] \in Props
         /\ call[1] = "unlink" => call[2] \in Props /\ call[4] \in Props
         /\ call[1] \in {"deleteClass", "dropClass"} => call[2] \in Classes /\ call[3] \in BOOLEAN
<1>1. call[1] \in {"insertClass", "ensureNodeShape", "deleteOwnProperties"} => call[2] \in Classes
  BY DEF CallSet
<1>2. call[1] \in {"insertSubClassOf", "deleteSubClassOf"} => call[2] \in Classes /\ call[3] \in Supers
  BY DEF CallSet
<1>3. call[1] \in {"insertDatatypeProperty", "declareAttribute"} => call[2] \in Classes /\ call[3] \in Names
  BY DEF CallSet
<1>4. call[1] = "updateDatatypeProperty" => call[2] \in Specific
  BY DEF CallSet
<1>5. call[1] = "deleteDatatypeProperty" => call[2] \in Props /\ call[3] \in Classes
  BY DEF CallSet
<1>6. call[1] = "insertObjectProperty" =>
        call[2] \in Classes /\ call[3] \in Classes /\ call[4] \in Names /\ call[5] \in Kinds
  BY DEF CallSet
<1>7. call[1] \in {"shareRelation", "declareRelation"} =>
        call[2] \in Classes /\ call[3] \in Classes /\ call[4] \in Names
  BY DEF CallSet
<1>8. call[1] = "updateObjectProperty" =>
        call[2] \in Classes /\ call[3] \in Props /\ call[5] \in Classes /\ call[6] \in Names
  BY DEF CallSet
<1>9. call[1] = "deleteObjectProperty" =>
        call[2] \in Props /\ call[3] \in Classes /\ call[4] \in Classes \cup {None}
  BY DEF CallSet
<1>10. call[1] = "link" => call[2] \in Props /\ call[3] \in Props
  BY DEF CallSet
<1>11. call[1] = "unlink" => call[2] \in Props /\ call[4] \in Props
  BY DEF CallSet
<1>12. call[1] \in {"deleteClass", "dropClass"} => call[2] \in Classes /\ call[3] \in BOOLEAN
  BY DEF CallSet
<1> QED  BY <1>1, <1>2, <1>3, <1>4, <1>5, <1>6, <1>7, <1>8, <1>9, <1>10, <1>11, <1>12

LEMMA StepGood ==
  ASSUME Inv, NEW e \in Editors, Step(e)
  PROVE  Inv'
<1> DEFINE call == Call(e)
<1>1. todo[e] # <<>>
  BY DEF Step
<1>2. call \in CallSet
  BY <1>1, HeadTyped DEF Inv
<1>a. \A op : Now(e, op) => call[1] = op
  BY DEF Now
<1> HIDE DEF call
<1>3. CASE Now(e, "insertClass") /\ InsertClass(e, call[2])
  BY <1>1, <1>2, <1>a, <1>3, ArgumentsTyped, InsertClassGood
<1>4. CASE Now(e, "insertSubClassOf") /\ InsertSubClassOf(e, call[2], call[3])
  BY <1>1, <1>2, <1>a, <1>4, ArgumentsTyped, SubClassOfGood
<1>5. CASE Now(e, "deleteSubClassOf") /\ DeleteSubClassOf(e, call[2], call[3])
  BY <1>1, <1>2, <1>a, <1>5, ArgumentsTyped, SubClassOfGood
<1>6. CASE Now(e, "ensureNodeShape") /\ EnsureNodeShape(e, call[2])
  BY <1>1, <1>2, <1>a, <1>6, ArgumentsTyped, EnsureNodeShapeGood
<1>7. CASE Now(e, "insertDatatypeProperty") /\ InsertDatatypeProperty(e, call[2], call[3])
  BY <1>1, <1>2, <1>a, <1>7, ArgumentsTyped, InsertDatatypePropertyGood
<1>8. CASE Now(e, "declareAttribute") /\ DeclareAttribute(e, call[2], call[3])
  BY <1>1, <1>2, <1>a, <1>8, ArgumentsTyped, DeclareAttributeGood
<1>9. CASE Now(e, "updateDatatypeProperty") /\ UpdateDatatypeProperty(e, call[2])
  BY <1>1, <1>2, <1>a, <1>9, ArgumentsTyped, UpdateDatatypePropertyGood
<1>10. CASE Now(e, "deleteDatatypeProperty") /\ DeleteDatatypeProperty(e, call[2], call[3])
  BY <1>1, <1>2, <1>a, <1>10, ArgumentsTyped, DeletePropertyGood
<1>11. CASE Now(e, "insertObjectProperty") /\ InsertObjectProperty(e, call[2], call[3], call[4], call[5])
  BY <1>1, <1>2, <1>a, <1>11, ArgumentsTyped, InsertObjectPropertyGood
<1>12. CASE Now(e, "shareRelation") /\ ShareRelation(e, call[2], call[3], call[4])
  BY <1>1, <1>2, <1>a, <1>12, ArgumentsTyped, ShareRelationGood
<1>13. CASE Now(e, "declareRelation") /\ DeclareRelation(e, call[2], call[3], call[4])
  BY <1>1, <1>2, <1>a, <1>13, ArgumentsTyped, DeclareRelationGood
<1>14. CASE /\ Now(e, "updateObjectProperty")
            /\ UpdateObjectProperty(e, call[2], call[3], call[4], call[5], call[6], call[7])
  BY <1>1, <1>2, <1>a, <1>14, ArgumentsTyped, UpdateObjectPropertyGood
<1>15. CASE Now(e, "deleteObjectProperty") /\ DeleteObjectProperty(e, call[2], call[3], call[4])
  BY <1>1, <1>2, <1>a, <1>15, ArgumentsTyped, DeleteObjectPropertyGood
<1>16. CASE Now(e, "link") /\ LinkGeneratedReverse(e, call[2], call[3])
  BY <1>1, <1>2, <1>a, <1>16, ArgumentsTyped, LinksGood
<1>17. CASE Now(e, "unlink") /\ UnlinkGeneratedReverse(e, call[2], call[3], call[4], call[5])
  BY <1>1, <1>2, <1>a, <1>17, ArgumentsTyped, LinksGood
<1>18. CASE Now(e, "deleteClass") /\ DeleteClass(e, call[2], call[3])
  BY <1>1, <1>2, <1>a, <1>18, ArgumentsTyped, DeleteClassGood
<1>19. CASE Now(e, "deleteOwnProperties") /\ DeleteOwnProperties(e, call[2])
  BY <1>1, <1>2, <1>a, <1>19, ArgumentsTyped, DeleteOwnPropertiesGood
<1>20. CASE Now(e, "dropClass") /\ DropClass(e, call[2], call[3])
  BY <1>1, <1>2, <1>a, <1>20, ArgumentsTyped, DropClassGood
<1>21. \/ Now(e, "insertClass") /\ InsertClass(e, call[2])
       \/ Now(e, "insertSubClassOf") /\ InsertSubClassOf(e, call[2], call[3])
       \/ Now(e, "deleteSubClassOf") /\ DeleteSubClassOf(e, call[2], call[3])
       \/ Now(e, "ensureNodeShape") /\ EnsureNodeShape(e, call[2])
       \/ Now(e, "insertDatatypeProperty") /\ InsertDatatypeProperty(e, call[2], call[3])
       \/ Now(e, "declareAttribute") /\ DeclareAttribute(e, call[2], call[3])
       \/ Now(e, "updateDatatypeProperty") /\ UpdateDatatypeProperty(e, call[2])
       \/ Now(e, "deleteDatatypeProperty") /\ DeleteDatatypeProperty(e, call[2], call[3])
       \/ Now(e, "insertObjectProperty") /\ InsertObjectProperty(e, call[2], call[3], call[4], call[5])
       \/ Now(e, "shareRelation") /\ ShareRelation(e, call[2], call[3], call[4])
       \/ Now(e, "declareRelation") /\ DeclareRelation(e, call[2], call[3], call[4])
       \/ Now(e, "updateObjectProperty")
          /\ UpdateObjectProperty(e, call[2], call[3], call[4], call[5], call[6], call[7])
       \/ Now(e, "deleteObjectProperty") /\ DeleteObjectProperty(e, call[2], call[3], call[4])
       \/ Now(e, "link") /\ LinkGeneratedReverse(e, call[2], call[3])
       \/ Now(e, "unlink") /\ UnlinkGeneratedReverse(e, call[2], call[3], call[4], call[5])
       \/ Now(e, "deleteClass") /\ DeleteClass(e, call[2], call[3])
       \/ Now(e, "deleteOwnProperties") /\ DeleteOwnProperties(e, call[2])
       \/ Now(e, "dropClass") /\ DropClass(e, call[2], call[3])
  BY Zenon DEF Step, call
<1> QED
  BY <1>3, <1>4, <1>5, <1>6, <1>7, <1>8, <1>9, <1>10, <1>11, <1>12, <1>13, <1>14, <1>15, <1>16, <1>17,
     <1>18, <1>19, <1>20, <1>21

-----------------------------------------------------------------------------
(* The handlers *)

LEMMA BeginGood ==
  ASSUME Inv, NEW e \in Editors, NEW calls \in Seq(CallSet), Begin(e, calls)
  PROVE  Inv'
<1>1. todo' \in [Editors -> Seq(CallSet)] /\ graph' = graph
  BY DEF Begin, Inv, Types
<1> QED  BY <1>1 DEF Inv, Types, GenericsStayDeclared, Exists

LEMMA Singles ==
  ASSUME NEW x \in CallSet, NEW y \in CallSet
  PROVE  <<>> \in Seq(CallSet) /\ <<x>> \in Seq(CallSet) /\ <<x, y>> \in Seq(CallSet)
  OBVIOUS

LEMMA ReverseTyped ==
  ASSUME NEW p \in Props, NEW c \in Classes, NEW t \in Classes, NEW n \in Names
  PROVE  Reverse(p, c, t, n) \in Seq(CallSet)
<1>1. <<t, n>> \in Props
  BY DEF Props, Specific
<1>2. <<"insertObjectProperty", t, c, n, "specific">> \in CallSet
  BY DEF CallSet, Kinds
<1>3. <<"link", p, <<t, n>>>> \in CallSet
  BY <1>1 DEF CallSet
<1> QED  BY <1>2, <1>3, Singles DEF Reverse

LEMMA RelationsTyped ==
  ASSUME Inv, NEW edge \in Relations
  PROVE  edge[1] \in Classes /\ edge[2] \in Props /\ edge[3] \in Classes
  BY DEF Relations

LEMMA InversesTyped == ASSUME Inv, NEW p PROVE Inverses(p) \subseteq Props
  BY DEF Inverses

LEMMA EntitiesGood ==
  ASSUME Inv, NEW e \in Editors, NEW c \in Classes, NEW force \in BOOLEAN,
         CreateEntity(e, c) \/ DeleteEntity(e, c, force) \/ ToggleAssociation(e, c)
  PROVE  Inv'
<1>1. /\ <<"insertClass", c>> \in CallSet /\ <<"deleteClass", c, force>> \in CallSet
      /\ <<"deleteSubClassOf", c, Marker>> \in CallSet
  BY DEF CallSet, Supers
<1> HIDE DEF CallSet
<1>2. /\ <<<<"insertClass", c>>>> \in Seq(CallSet) /\ <<<<"deleteClass", c, force>>>> \in Seq(CallSet)
      /\ <<<<"deleteSubClassOf", c, Marker>>>> \in Seq(CallSet)
  BY <1>1
<1> QED  BY <1>2, BeginGood DEF CreateEntity, DeleteEntity, ToggleAssociation

LEMMA AttributesGood ==
  ASSUME Inv, NEW e \in Editors, NEW c \in Classes, NEW n \in Names, SubmitAttribute(e, c, n) \/ DeleteAttribute(e, c, n)
  PROVE  Inv'
<1>1. <<c, n>> \in Specific /\ <<c, n>> \in Props
  BY DEF Specific, Props
<1>2. /\ <<"insertDatatypeProperty", c, n>> \in CallSet
      /\ <<"updateDatatypeProperty", <<c, n>>>> \in CallSet
      /\ <<"deleteDatatypeProperty", <<c, n>>, c>> \in CallSet
  BY <1>1 DEF CallSet
<1>3. /\ <<<<"insertDatatypeProperty", c, n>>>> \in Seq(CallSet)
      /\ <<<<"updateDatatypeProperty", <<c, n>>>>>> \in Seq(CallSet)
      /\ <<<<"deleteDatatypeProperty", <<c, n>>, c>>>> \in Seq(CallSet)
  BY <1>2
<1> QED  BY <1>3, BeginGood DEF SubmitAttribute, DeleteAttribute

LEMMA DrawRelationGood ==
  ASSUME Inv, NEW e \in Editors, NEW c \in Classes, NEW t \in Classes, NEW n \in Names, DrawRelation(e, c, t, n)
  PROVE  Inv'
<1>1. \A kind \in Kinds : <<<<"insertObjectProperty", c, t, n, kind>>>> \in Seq(CallSet)
  <2>1. \A kind \in Kinds : <<"insertObjectProperty", c, t, n, kind>> \in CallSet
    BY DEF CallSet
  <2> QED  BY <2>1
<1>2. <<c, n>> \in Props /\ Drawn \subseteq Names
  BY SchemaEditsAssumption DEF Specific, Props
<1>3. \A m \in Drawn : <<<<"insertObjectProperty", c, t, n, "specific">>>> \o Reverse(<<c, n>>, c, t, m) \in Seq(CallSet)
  <2>1. \A m \in Drawn : Reverse(<<c, n>>, c, t, m) \in Seq(CallSet)
    BY <1>2, ReverseTyped
  <2>2. <<<<"insertObjectProperty", c, t, n, "specific">>>> \in Seq(CallSet)
    BY <1>1 DEF Kinds
  <2> QED  BY <2>1, <2>2, ConcatProperties
<1>4. CASE \E kind \in Kinds : Begin(e, <<<<"insertObjectProperty", c, t, n, kind>>>>)
  BY <1>1, <1>4, BeginGood
<1>5. CASE \E m \in Drawn : Begin(e, <<<<"insertObjectProperty", c, t, n, "specific">>>> \o Reverse(<<c, n>>, c, t, m))
  BY <1>3, <1>5, BeginGood
<1> QED  BY <1>4, <1>5, Zenon DEF DrawRelation, Kinds

LEMMA EditRelationGood ==
  ASSUME Inv, NEW e \in Editors, NEW edge \in Relations, NEW t \in Classes, NEW n \in Names, EditRelation(e, edge, t, n)
  PROVE  Inv'
<1> DEFINE c == edge[1]
           p == edge[2]
           old == edge[3]
           update(kind) == <<<<"updateObjectProperty", c, p, old, t, n, kind>>>>
           remove(q) == IF q = None THEN <<>>
                        ELSE <<<<"unlink", p, c, q, old>>, <<"deleteObjectProperty", q, old, None>>>>
           partners == IF Inverses(p) = {} THEN {None} ELSE Inverses(p)
           next(q, m) == IF Kept(q, old, t) THEN <<<<"updateObjectProperty", old, q, None, c, m, "specific">>>>
                         ELSE remove(q) \o Reverse(p, c, t, m)
<1>1. c \in Classes /\ p \in Props /\ old \in Classes
  BY RelationsTyped
<1>2. \A q \in partners : q = None \/ q \in Props
  BY InversesTyped
<1>3. Drawn \subseteq Names
  BY SchemaEditsAssumption
<1>4. \/ Begin(e, update("generic"))
      \/ \E q \in partners : \/ Begin(e, update("specific") \o remove(q))
                            \/ \E m \in Drawn : Begin(e, update("specific") \o next(q, m))
  BY Zenon DEF EditRelation
<1> HIDE DEF c, p, old, partners
<1>5. \A kind \in Kinds : update(kind) \in Seq(CallSet)
  <2>1. \A kind \in Kinds : <<"updateObjectProperty", c, p, old, t, n, kind>> \in CallSet
    BY <1>1 DEF CallSet
  <2> QED  BY <2>1
<1>6. \A q \in partners : remove(q) \in Seq(CallSet)
  <2> SUFFICES ASSUME NEW q \in partners, q \in Props
               PROVE  <<<<"unlink", p, c, q, old>>, <<"deleteObjectProperty", q, old, None>>>> \in Seq(CallSet)
    BY <1>2
  <2>1. <<"unlink", p, c, q, old>> \in CallSet /\ <<"deleteObjectProperty", q, old, None>> \in CallSet
    BY <1>1 DEF CallSet
  <2> QED  BY <2>1
<1>7. \A q \in partners, m \in Drawn : next(q, m) \in Seq(CallSet)
  <2> SUFFICES ASSUME NEW q \in partners, NEW m \in Drawn PROVE next(q, m) \in Seq(CallSet)
    OBVIOUS
  <2>1. CASE Kept(q, old, t)
    <3>1. q \in Props
      BY <1>2, <2>1 DEF Kept
    <3>2. <<"updateObjectProperty", old, q, None, c, m, "specific">> \in CallSet
      BY <1>1, <1>3, <3>1 DEF CallSet, Kinds
    <3> QED  BY <2>1, <3>2
  <2>2. CASE ~Kept(q, old, t)
    <3>1. Reverse(p, c, t, m) \in Seq(CallSet) /\ remove(q) \in Seq(CallSet)
      BY <1>1, <1>3, <1>6, ReverseTyped
    <3> HIDE DEF remove
    <3>2. remove(q) \o Reverse(p, c, t, m) \in Seq(CallSet)
      BY <3>1, ConcatProperties
    <3> QED  BY <2>2, <3>2
  <2> QED  BY <2>1, <2>2
<1> HIDE DEF update, remove, next
<1>8. update("generic") \in Seq(CallSet) /\ update("specific") \in Seq(CallSet)
  BY <1>5 DEF Kinds
<1>9. \A q \in partners : /\ update("specific") \o remove(q) \in Seq(CallSet)
                         /\ \A m \in Drawn : update("specific") \o next(q, m) \in Seq(CallSet)
  BY <1>6, <1>7, <1>8, ConcatProperties
<1> QED  BY <1>4, <1>8, <1>9, BeginGood

LEMMA DeleteRelationGood ==
  ASSUME Inv, NEW e \in Editors, NEW edge \in Relations, DeleteRelation(e, edge) \/ DeleteLink(e, edge)
  PROVE  Inv'
<1> DEFINE drop(t) == <<<<"deleteObjectProperty", edge[2], edge[1], t>>>>
           unlink(q) == <<<<"unlink", edge[2], edge[1], q, edge[3]>>>>
<1>1. edge[1] \in Classes /\ edge[2] \in Props /\ edge[3] \in Classes /\ Inverses(edge[2]) \subseteq Props
  BY RelationsTyped, InversesTyped
<1>2. \A t \in Classes \cup {None} : drop(t) \in Seq(CallSet)
  <2>1. \A t \in Classes \cup {None} : <<"deleteObjectProperty", edge[2], edge[1], t>> \in CallSet
    BY <1>1 DEF CallSet
  <2> QED  BY <2>1
<1>3. \A q \in Inverses(edge[2]) : unlink(q) \in Seq(CallSet)
  <2>1. \A q \in Inverses(edge[2]) : <<"unlink", edge[2], edge[1], q, edge[3]>> \in CallSet
    BY <1>1 DEF CallSet
  <2> QED  BY <2>1
<1>4. Begin(e, drop(edge[3])) \/ (\E q \in Inverses(edge[2]) : Begin(e, unlink(q) \o drop(edge[3]))) \/ Begin(e, drop(None))
  BY DEF DeleteRelation, DeleteLink
<1> HIDE DEF drop, unlink
<1>5. drop(edge[3]) \in Seq(CallSet) /\ drop(None) \in Seq(CallSet)
  BY <1>1, <1>2
<1>6. \A q \in Inverses(edge[2]) : unlink(q) \o drop(edge[3]) \in Seq(CallSet)
  BY <1>3, <1>5, ConcatProperties
<1> QED  BY <1>4, <1>5, <1>6, BeginGood

LEMMA InheritanceGood ==
  ASSUME Inv, NEW e \in Editors, NEW s \in Classes, NEW t \in Classes \cup External,
         DrawInheritance(e, s, t) \/ DeleteInheritance(e, s, t)
  PROVE  Inv'
<1>1. <<"insertSubClassOf", s, t>> \in CallSet /\ <<"deleteSubClassOf", s, t>> \in CallSet
  BY DEF CallSet, Supers
<1>2. <<<<"insertSubClassOf", s, t>>>> \in Seq(CallSet) /\ <<<<"deleteSubClassOf", s, t>>>> \in Seq(CallSet)
  BY <1>1
<1> QED  BY <1>2, BeginGood DEF DrawInheritance, DeleteInheritance

LEMMA RemoveStubGood ==
  ASSUME Inv, NEW e \in Editors, NEW x \in External, RemoveStub(e, x)
  PROVE  Inv'
<1>1. PICK subs \in Orders(Subclasses(x)) : Begin(e, [i \in DOMAIN subs |-> <<"deleteSubClassOf", subs[i], x>>])
  BY DEF RemoveStub
<1>2. [i \in DOMAIN subs |-> <<"deleteSubClassOf", subs[i], x>>] \in Seq(CallSet)
  BY DeletionsTyped DEF Supers
<1> QED  BY <1>1, <1>2, BeginGood

LEMMA CreateAssociationGood ==
  ASSUME Inv, NEW e \in Editors, NEW c \in Classes, NEW n \in Names, NEW t \in Classes, NEW m \in Names,
         NEW u \in Classes, CreateAssociation(e, c, n, t, m, u)
  PROVE  Inv'
<1> DEFINE calls == <<<<"insertClass", c>>, <<"insertSubClassOf", c, Marker>>,
                      <<"insertObjectProperty", c, t, n, "specific">>, <<"insertObjectProperty", c, u, m, "specific">>>>
<1>1. <<"insertClass", c>> \in CallSet /\ <<"insertSubClassOf", c, Marker>> \in CallSet
  BY DEF CallSet, Supers
<1>2. /\ <<"insertObjectProperty", c, t, n, "specific">> \in CallSet
      /\ <<"insertObjectProperty", c, u, m, "specific">> \in CallSet
  BY DEF CallSet, Kinds
<1>3. calls \in Seq(CallSet)
  BY <1>1, <1>2
<1> QED  BY <1>3, BeginGood DEF CreateAssociation

LEMMA SubmitLinkGood ==
  ASSUME Inv, NEW e \in Editors, NEW c \in Classes, NEW t \in Classes, NEW n \in Names, SubmitLink(e, c, t, n)
  PROVE  Inv'
<1>1. <<<<"insertObjectProperty", c, t, n, "specific">>>> \in Seq(CallSet)
  <2>1. <<"insertObjectProperty", c, t, n, "specific">> \in CallSet
    BY DEF CallSet, Kinds
  <2> QED  BY <2>1
<1>2. \A link \in Links(c) : <<<<"updateObjectProperty", c, link[2], None, t, n, "specific">>>> \in Seq(CallSet)
  <2>1. \A link \in Links(c) : link[2] \in Props
    BY RelationsTyped DEF Links
  <2>2. \A link \in Links(c) : <<"updateObjectProperty", c, link[2], None, t, n, "specific">> \in CallSet
    BY <2>1 DEF CallSet, Kinds
  <2> QED  BY <2>2
<1> QED  BY <1>1, <1>2, BeginGood DEF SubmitLink

LEMMA GoneTyped ==
  ASSUME Inv, NEW c \in Classes, NEW kept, NEW gone \in Orders(Links(c) \ kept)
  PROVE  [i \in DOMAIN gone |-> <<"deleteObjectProperty", gone[i][2], c, None>>] \in Seq(CallSet)
<1>1. IsFiniteSet(Links(c) \ kept)
  <2> DEFINE T == (Classes \X Props) \X Classes
             S == Links(c) \ kept
             f == [l \in S |-> <<<<l[1], l[2]>>, l[3]>>]
  <2>1. IsFiniteSet(T)
    <3>1. IsFiniteSet(Classes \X Props)
      BY PropsFinite, FS_Product, SchemaEditsAssumption
    <3> QED  BY <3>1, FS_Product, SchemaEditsAssumption
  <2>2. S \subseteq Classes \X Props \X Classes
    BY DEF Links, Relations
  <2>3. f \in [S -> T]
    BY <2>2
  <2>4. \A l, m \in S : f[l] = f[m] => l = m
    BY <2>2
  <2> HIDE DEF f, S, T
  <2>5. f \in Injection(S, T)
    BY <2>3, <2>4 DEF Injection, IsInjective
  <2> QED  BY <2>1, <2>5, FS_Injection DEF S
<1>2. /\ DOMAIN gone = 1..Cardinality(Links(c) \ kept) /\ Cardinality(Links(c) \ kept) \in Nat
      /\ \A i \in DOMAIN gone : gone[i] \in Links(c)
  BY <1>1, OrdersTyped
<1>3. \A i \in DOMAIN gone : gone[i][2] \in Props
  BY <1>2, RelationsTyped DEF Links
<1>4. \A i \in DOMAIN gone : <<"deleteObjectProperty", gone[i][2], c, None>> \in CallSet
  BY <1>3 DEF CallSet
<1>5. [i \in DOMAIN gone |-> <<"deleteObjectProperty", gone[i][2], c, None>>] \in Seq(CallSet)
  <2> DEFINE len == Cardinality(Links(c) \ kept)
             calls == [i \in DOMAIN gone |-> <<"deleteObjectProperty", gone[i][2], c, None>>]
  <2>1. len \in Nat /\ DOMAIN gone = 1..len
    BY <1>2
  <2> HIDE DEF len, CallSet
  <2>2. calls \in [1..len -> CallSet]
    BY <1>4, <2>1
  <2> HIDE DEF calls
  <2>3. calls \in Seq(CallSet)
    BY <2>1, <2>2
  <2> QED  BY <2>3 DEF calls
<1> QED  BY <1>5

LEMMA EditAssociationGood ==
  ASSUME Inv, NEW e \in Editors, NEW c \in Classes, NEW kept, NEW t \in Classes, NEW n \in Names,
         EditAssociation(e, c, kept, t, n)
  PROVE  Inv'
<1>1. PICK gone \in Orders(Links(c) \ kept) :
        Begin(e, [i \in DOMAIN gone |-> <<"deleteObjectProperty", gone[i][2], c, None>>]
                   \o <<<<"insertObjectProperty", c, t, n, "specific">>>>)
  BY DEF EditAssociation
<1>2. [i \in DOMAIN gone |-> <<"deleteObjectProperty", gone[i][2], c, None>>] \in Seq(CallSet)
  BY GoneTyped
<1>3. <<<<"insertObjectProperty", c, t, n, "specific">>>> \in Seq(CallSet)
  <2>1. <<"insertObjectProperty", c, t, n, "specific">> \in CallSet
    BY DEF CallSet, Kinds
  <2> QED  BY <2>1
<1>4. [i \in DOMAIN gone |-> <<"deleteObjectProperty", gone[i][2], c, None>>]
        \o <<<<"insertObjectProperty", c, t, n, "specific">>>> \in Seq(CallSet)
  BY <1>2, <1>3, ConcatProperties
<1> QED  BY <1>1, <1>4, BeginGood

LEMMA EditGood ==
  ASSUME Inv, NEW e \in Editors, Edit(e)
  PROVE  Inv'
<1>1. ASSUME NEW c \in Classes,
             CreateEntity(e, c) \/ ToggleAssociation(e, c) \/ \E force \in BOOLEAN : DeleteEntity(e, c, force)
      PROVE  Inv'
  BY <1>1, EntitiesGood
<1>2. Drawn \subseteq Names
  BY SchemaEditsAssumption
<1>3. ASSUME NEW c \in Classes, NEW n \in Drawn, SubmitAttribute(e, c, n) \/ DeleteAttribute(e, c, n)
      PROVE  Inv'
  BY <1>2, <1>3, AttributesGood
<1>4. ASSUME NEW c \in Classes, NEW t \in Classes, NEW n \in Drawn, DrawRelation(e, c, t, n)
      PROVE  Inv'
  BY <1>2, <1>4, DrawRelationGood
<1>5. ASSUME NEW c \in Classes, NEW t \in Classes, NEW n \in Names,
             SubmitLink(e, c, t, n) \/ (\E kept : EditAssociation(e, c, kept, t, n))
             \/ \E u \in Classes, m \in Names : CreateAssociation(e, c, n, t, m, u)
      PROVE  Inv'
  BY <1>5, SubmitLinkGood, EditAssociationGood, CreateAssociationGood
<1>6. ASSUME NEW c \in Classes, NEW t \in Classes \cup External, DrawInheritance(e, c, t) \/ DeleteInheritance(e, c, t)
      PROVE  Inv'
  BY <1>6, InheritanceGood
<1>7. ASSUME NEW edge \in Relations, DeleteRelation(e, edge) \/ DeleteLink(e, edge)
      PROVE  Inv'
  BY <1>7, DeleteRelationGood
<1>8. ASSUME NEW edge \in Relations, NEW t \in Classes, NEW n \in Drawn, EditRelation(e, edge, t, n)
      PROVE  Inv'
  BY <1>2, <1>8, EditRelationGood
<1>9. ASSUME NEW x \in External, RemoveStub(e, x) PROVE Inv'
  BY <1>9, RemoveStubGood
<1> QED  BY <1>1, <1>3, <1>4, <1>5, <1>6, <1>7, <1>8, <1>9, Zenon DEF Edit

LEMMA NextGood == ASSUME Inv, [Next]_vars PROVE Inv'
<1>1. CASE UNCHANGED vars
  BY <1>1 DEF vars, Inv, Types, GenericsStayDeclared, Exists
<1>2. ASSUME NEW e \in Editors, Fail(e) PROVE Inv'
  <2>1. <<>> \in Seq(CallSet)
    OBVIOUS
  <2>2. todo' \in [Editors -> Seq(CallSet)] /\ graph' = graph
    BY <1>2, <2>1 DEF Fail, Inv, Types
  <2> QED  BY <2>2 DEF Inv, Types, GenericsStayDeclared, Exists
<1> QED  BY <1>1, <1>2, StepGood, EditGood DEF Next

LEMMA Initial == Init => Inv
<1> SUFFICES ASSUME Init PROVE Inv
  OBVIOUS
<1>1. PICK declared \in SUBSET Classes : graph = Empty(declared)
  BY DEF Init
<1>2. graph \in Graphs /\ graph.subOf = {} /\ graph.blocks = {}
  BY <1>1 DEF Empty, Graphs
<1>3. Ends({})
  BY DEF Ends
<1>4. todo \in [Editors -> Seq(CallSet)]
  <2>1. <<>> \in Seq(CallSet)
    OBVIOUS
  <2> QED  BY <2>1 DEF Init
<1> QED  BY <1>2, <1>3, <1>4 DEF Inv, Types, GenericsStayDeclared

LEMMA Inductive == Spec => []Inv
  BY Initial, NextGood, PTL DEF Spec

(***************************************************************************)
(* One editor at a time.  A class is gone for good only if what it owned   *)
(* and what was below it went before: the calls a handler has still to     *)
(* make say what the graph will have when their turn comes.                *)
(***************************************************************************)
Pending(q) == {q[i] : i \in DOMAIN q}

\* The three properties, of any graph.
Declares(g, p) == \E kind \in {"attribute", "relation"} : <<p, kind>> \in g.types
Unreferenced(g, c) ==
  /\ \A r \in g.ranges : ~(r[1] = HomeOf[c] /\ r[3] = c)
  /\ \A b \in g.blocks : ~(b.class = c /\ HomeOf[b.of] = HomeOf[c])

Owned(g) ==
  /\ g.shapes \subseteq g.classes
  /\ \A p \in Specific : Declares(g, p) => p[1] \in g.classes
  /\ \A b \in g.blocks : b.of \in g.shapes

NoOrphans(g) ==
  \A pair \in g.subOf : pair[1] \in g.classes /\ (pair[2] \in Classes => pair[2] \in g.classes)

Warned(g, gone) == \A c \in Classes \ g.classes : <<c, TRUE>> \notin gone => Unreferenced(g, c)

Fine(g, gone) == Owned(g) /\ NoOrphans(g) /\ Warned(g, gone)

\* The class and the shape that the first call makes.
NewClass(q) == {c \in Classes : q # <<>> /\ Head(q) = <<"insertClass", c>>}
NewShape(q) == {c \in Classes : q # <<>> /\ Head(q) = <<"ensureNodeShape", c>>}

\* A call finds the classes and the shape it writes about.
Fits(g, q, x) ==
  /\ x[1] \in {"ensureNodeShape", "insertDatatypeProperty", "declareAttribute", "shareRelation", "declareRelation"} =>
       x[2] \in g.classes
  /\ x[1] \in {"declareAttribute", "shareRelation", "declareRelation"} => x[2] \in g.shapes \cup NewShape(q)
  /\ x[1] \in {"insertObjectProperty", "shareRelation", "declareRelation"} => x[3] \in g.classes
  /\ x[1] = "updateObjectProperty" => x[5] \in g.classes
  /\ x[1] = "insertSubClassOf" => x[2] \in g.classes \cup NewClass(q) /\ (x[3] \in Classes => x[3] \in g.classes)

\* Before a class is dropped, the calls pending take all it owns and all that is below it.
Removing == {"deleteSubClassOf", "deleteOwnProperties", "deleteDatatypeProperty", "dropClass"}
Closes(g, q, c, force) ==
  /\ \A x \in Pending(q) : x[1] \in Removing
  /\ \A p \in Specific : p[1] = c /\ Declares(g, p) =>
       {<<"deleteOwnProperties", c>>, <<"deleteDatatypeProperty", p, c>>} \cap Pending(q) # {}
  /\ \A pair \in g.subOf : pair[2] = c => <<"deleteSubClassOf", pair[1], c>> \in Pending(q)
  /\ ~force => Unreferenced(g, c)

Ready(g, q) ==
  /\ \A x \in Pending(q) : Fits(g, q, x)
  /\ \A i \in DOMAIN q : /\ q[i][1] \in {"insertClass", "ensureNodeShape"} => i = 1
                         /\ q[i][1] = "deleteClass" => Len(q) = 1
                         /\ q[i][1] = "dropClass" => i = Len(q) /\ Closes(g, q, q[i][2], q[i][3])

AloneInv == Fine(graph, deleted) /\ \A e \in Editors : Ready(graph, todo[e])

OneEditor == \A e, f \in Editors : e = f

\* What an update that drops no class may do.
Amends(g, h) ==
  /\ g.classes \subseteq h.classes /\ g.shapes \subseteq h.shapes /\ h.shapes \subseteq h.classes
  /\ \A pair \in h.subOf :
       \/ pair \in g.subOf
       \/ pair[1] \in h.classes /\ (pair[2] \in Classes => pair[2] \in h.classes)
  /\ \A p \in Specific : Declares(h, p) => Declares(g, p) \/ p[1] \in h.classes
  /\ \A r \in h.ranges : r \in g.ranges \/ r[3] \notin Classes \ h.classes
  /\ \A b \in h.blocks : /\ b.of \in h.shapes
                         /\ \/ b.class \notin Classes \ h.classes
                            \/ \E o \in g.blocks : o.of = b.of /\ o.class = b.class

\* What the call x leaves for those after it.
Serves(g, h, x) ==
  /\ x[1] # "deleteOwnProperties"
  /\ x[1] # "dropClass" => g.classes \subseteq h.classes /\ g.shapes \subseteq h.shapes
  /\ x[1] = "insertClass" => x[2] \in h.classes
  /\ x[1] = "ensureNodeShape" => x[2] \in h.shapes
  /\ x[1] \in Removing => /\ h.types \subseteq g.types /\ h.subOf \subseteq g.subOf
                          /\ h.ranges \subseteq g.ranges /\ h.blocks \subseteq g.blocks
  /\ x[1] = "deleteSubClassOf" => <<x[2], x[3]>> \notin h.subOf
  /\ x[1] = "deleteDatatypeProperty" /\ x[2] \in Specific /\ x[2][1] = x[3] => ~Declares(h, x[2])

LEMMA PendingParts ==
  ASSUME NEW q \in Seq(CallSet), q # <<>>
  PROVE  /\ Len(q) \in Nat /\ Len(q) >= 1 /\ DOMAIN q = 1..Len(q)
         /\ Tail(q) \in Seq(CallSet) /\ Len(Tail(q)) = Len(q) - 1 /\ DOMAIN Tail(q) = 1..Len(q) - 1
         /\ \A i \in 1..Len(q) - 1 : Tail(q)[i] = q[i + 1]
         /\ Head(q) = q[1] /\ Head(q) \in Pending(q)
         /\ Pending(q) = {Head(q)} \cup Pending(Tail(q))
<1> HIDE DEF CallSet
<1>1. /\ Len(q) \in Nat /\ Len(q) >= 1 /\ DOMAIN q = 1..Len(q)
      /\ Tail(q) \in Seq(CallSet) /\ Len(Tail(q)) = Len(q) - 1 /\ DOMAIN Tail(q) = 1..Len(q) - 1
      /\ \A i \in 1..Len(q) - 1 : Tail(q)[i] = q[i + 1]
      /\ Head(q) = q[1]
  OBVIOUS
<1>2. Head(q) \in Pending(q)
  BY <1>1 DEF Pending
<1>3. \A x \in Pending(Tail(q)) : x \in Pending(q)
  BY <1>1 DEF Pending
<1>4. ASSUME NEW x \in Pending(q) PROVE x = Head(q) \/ x \in Pending(Tail(q))
  <2>1. PICK i \in 1..Len(q) : x = q[i]
    BY <1>1 DEF Pending
  <2>2. CASE i = 1
    BY <1>1, <2>1, <2>2
  <2>3. CASE i # 1
    <3>1. i - 1 \in 1..Len(q) - 1 /\ (i - 1) + 1 = i
      BY <1>1, <2>3
    <3>2. Tail(q)[i - 1] = x
      BY <1>1, <2>1, <3>1
    <3> QED  BY <1>1, <3>1, <3>2 DEF Pending
  <2> QED  BY <2>2, <2>3
<1> QED  BY <1>1, <1>2, <1>3, <1>4

LEMMA PendingJoined ==
  ASSUME NEW q \in Seq(CallSet), NEW r \in Seq(CallSet)
  PROVE  /\ q \o r \in Seq(CallSet) /\ Pending(q \o r) = Pending(q) \cup Pending(r)
         /\ DOMAIN (q \o r) = 1..(Len(q) + Len(r)) /\ Len(q \o r) = Len(q) + Len(r)
         /\ \A i \in DOMAIN (q \o r) : (q \o r)[i] = IF i <= Len(q) THEN q[i] ELSE r[i - Len(q)]
         /\ q # <<>> => q \o r # <<>> /\ Head(q \o r) = Head(q)
<1> HIDE DEF CallSet
<1> DEFINE s == q \o r
<1>1. /\ s \in Seq(CallSet) /\ DOMAIN s = 1..(Len(q) + Len(r)) /\ Len(s) = Len(q) + Len(r)
      /\ \A i \in DOMAIN s : s[i] = IF i <= Len(q) THEN q[i] ELSE r[i - Len(q)]
      /\ DOMAIN q = 1..Len(q) /\ DOMAIN r = 1..Len(r) /\ Len(q) \in Nat /\ Len(r) \in Nat
  OBVIOUS
<1>2. q # <<>> => s # <<>> /\ Head(s) = Head(q)
  <2> SUFFICES ASSUME q # <<>> PROVE s # <<>> /\ Head(s) = Head(q)
    OBVIOUS
  <2>1. Len(q) >= 1 /\ Head(q) = q[1]
    OBVIOUS
  <2>2. 1 \in DOMAIN s /\ s[1] = q[1]
    BY <1>1, <2>1
  <2> HIDE DEF s
  <2> QED  BY <1>1, <2>1, <2>2
<1> HIDE DEF s
<1>3. \A x \in Pending(s) : x \in Pending(q) \/ x \in Pending(r)
  <2> SUFFICES ASSUME NEW i \in DOMAIN s PROVE s[i] \in Pending(q) \/ s[i] \in Pending(r)
    BY DEF Pending
  <2>1. CASE i <= Len(q)
    BY <1>1, <2>1 DEF Pending
  <2>2. CASE ~(i <= Len(q))
    <3>1. i - Len(q) \in DOMAIN r /\ s[i] = r[i - Len(q)]
      BY <1>1, <2>2
    <3> QED  BY <3>1 DEF Pending
  <2> QED  BY <2>1, <2>2
<1>4. \A i \in DOMAIN q : q[i] \in Pending(s)
  <2> SUFFICES ASSUME NEW i \in DOMAIN q PROVE q[i] \in Pending(s)
    OBVIOUS
  <2>1. i \in DOMAIN s /\ s[i] = q[i]
    BY <1>1
  <2> QED  BY <2>1 DEF Pending
<1>5. \A i \in DOMAIN r : r[i] \in Pending(s)
  <2> SUFFICES ASSUME NEW i \in DOMAIN r PROVE r[i] \in Pending(s)
    OBVIOUS
  <2>1. i + Len(q) \in DOMAIN s /\ ~(i + Len(q) <= Len(q)) /\ (i + Len(q)) - Len(q) = i
    BY <1>1
  <2>2. s[i + Len(q)] = r[i]
    BY <1>1, <2>1
  <2> QED  BY <2>1, <2>2 DEF Pending
<1>6. Pending(s) = Pending(q) \cup Pending(r)
  BY <1>3, <1>4, <1>5 DEF Pending
<1> QED  BY <1>1, <1>2, <1>6 DEF s

LEMMA NothingReady == ASSUME NEW g PROVE Ready(g, <<>>)
  BY DEF Ready, Pending

(* The call is done and the handler goes on: what it made is there for the ones to come. *)
LEMMA GoesOnReady ==
  ASSUME NEW g, NEW h, NEW q \in Seq(CallSet), q # <<>>, Ready(g, q), h.subOf \subseteq Classes \X Supers,
         Serves(g, h, Head(q))
  PROVE  Ready(h, Tail(q))
<1> DEFINE t == Tail(q)
<1>1. /\ Len(q) \in Nat /\ Len(q) >= 1 /\ DOMAIN q = 1..Len(q)
      /\ t \in Seq(CallSet) /\ Len(t) = Len(q) - 1 /\ DOMAIN t = 1..Len(q) - 1
      /\ \A i \in 1..Len(q) - 1 : t[i] = q[i + 1]
      /\ Head(q) = q[1] /\ Head(q) \in Pending(q)
      /\ Pending(q) = {Head(q)} \cup Pending(t)
  BY PendingParts
<1>s. /\ Head(q)[1] # "dropClass" => g.classes \subseteq h.classes /\ g.shapes \subseteq h.shapes
      /\ \A c : Head(q) = <<"insertClass", c>> => c \in h.classes
      /\ \A c : Head(q) = <<"ensureNodeShape", c>> => c \in h.shapes
      /\ Head(q)[1] \in Removing =>
           h.types \subseteq g.types /\ h.subOf \subseteq g.subOf /\ h.ranges \subseteq g.ranges
             /\ h.blocks \subseteq g.blocks
      /\ \A s, c : Head(q) = <<"deleteSubClassOf", s, c>> => <<s, c>> \notin h.subOf
      /\ \A p \in Specific : Head(q) = <<"deleteDatatypeProperty", p, p[1]>> => ~Declares(h, p)
      /\ Head(q)[1] # "deleteOwnProperties"
  BY DEF Serves
<1> HIDE DEF t
<1>2. CASE Head(q)[1] = "dropClass"
  <2>1. Len(q) = 1
    BY <1>1, <1>2 DEF Ready
  <2>2. t = <<>>
    BY <1>1, <2>1
  <2> QED  BY <2>2, NothingReady DEF t
<1>3. CASE Head(q)[1] # "dropClass"
  <2>1. NewClass(q) \subseteq h.classes /\ NewShape(q) \subseteq h.shapes
    BY <1>s, <1>3 DEF NewClass, NewShape
  <2>2. \A x \in Pending(t) : Fits(h, t, x)
    <3> SUFFICES ASSUME NEW x \in Pending(t) PROVE Fits(h, t, x)
      OBVIOUS
    <3>1. Fits(g, q, x)
      BY <1>1 DEF Ready
    <3> QED  BY <1>s, <1>3, <2>1, <3>1 DEF Fits
  <2>3. ASSUME NEW i \in DOMAIN t
        PROVE  /\ i + 1 \in DOMAIN q /\ t[i] = q[i + 1]
               /\ t[i][1] \notin {"insertClass", "ensureNodeShape", "deleteClass"}
               /\ t[i][1] = "dropClass" => i = Len(t)
    <3>1. i + 1 \in DOMAIN q /\ t[i] = q[i + 1] /\ i + 1 # 1 /\ Len(q) # 1
      BY <1>1
    <3> QED  BY <1>1, <3>1 DEF Ready
  <2>4. ASSUME NEW i \in DOMAIN t, t[i][1] = "dropClass" PROVE Closes(h, t, t[i][2], t[i][3])
    <3> DEFINE c == t[i][2]
               force == t[i][3]
    <3>1. Closes(g, q, c, force)
      BY <2>3, <2>4 DEF Ready
    <3> HIDE DEF c, force
    <3>2. Head(q)[1] \in Removing /\ \A x \in Pending(t) : x[1] \in Removing
      BY <1>1, <3>1 DEF Closes
    <3>3. ASSUME NEW p \in Specific, p[1] = c, Declares(h, p)
          PROVE  {<<"deleteOwnProperties", c>>, <<"deleteDatatypeProperty", p, c>>} \cap Pending(t) # {}
      <4>1. Declares(g, p)
        BY <1>s, <3>2, <3>3 DEF Declares
      <4>2. {<<"deleteOwnProperties", c>>, <<"deleteDatatypeProperty", p, c>>} \cap Pending(q) # {}
        BY <3>1, <3>3, <4>1 DEF Closes
      <4>3. Head(q) # <<"deleteOwnProperties", c>> /\ Head(q) # <<"deleteDatatypeProperty", p, c>>
        BY <1>s, <3>3
      <4> QED  BY <1>1, <4>2, <4>3
    <3>4. ASSUME NEW pair \in h.subOf, pair[2] = c PROVE <<"deleteSubClassOf", pair[1], c>> \in Pending(t)
      <4>1. <<"deleteSubClassOf", pair[1], c>> \in Pending(q) /\ pair \in g.subOf
        BY <1>s, <3>1, <3>2, <3>4 DEF Closes
      <4>2. Head(q) # <<"deleteSubClassOf", pair[1], c>> \/ <<pair[1], c>> \notin h.subOf
        BY <1>s
      <4>3. pair = <<pair[1], c>>
        BY <3>4
      <4> QED  BY <1>1, <3>4, <4>1, <4>2, <4>3
    <3>5. ~force => Unreferenced(h, c)
      BY <1>s, <3>1, <3>2 DEF Closes, Unreferenced
    <3> QED  BY <3>2, <3>3, <3>4, <3>5 DEF Closes, c, force
  <2> QED  BY <2>2, <2>3, <2>4 DEF Ready, t
<1> QED  BY <1>2, <1>3

(* The call becomes others, on the same graph. *)
LEMMA BecomesReady ==
  ASSUME NEW g, NEW q \in Seq(CallSet), q # <<>>, Ready(g, q), NEW calls \in Seq(CallSet),
         NewClass(q) \subseteq g.classes, NewShape(q) \subseteq g.shapes,
         \A x \in Pending(calls) : Fits(g, calls, x) /\ x[1] \notin {"insertClass", "deleteClass", "dropClass"},
         \A i \in DOMAIN calls : calls[i][1] = "ensureNodeShape" => i = 1,
         Head(q)[1] \in Removing => Head(q)[1] = "deleteOwnProperties" /\ \A x \in Pending(calls) : x[1] \in Removing,
         Head(q)[1] = "deleteOwnProperties" =>
           \A p \in Specific : Declares(g, p) /\ p[1] = Head(q)[2] =>
             <<"deleteDatatypeProperty", p, p[1]>> \in Pending(calls)
  PROVE  Ready(g, calls \o Tail(q))
<1> DEFINE t == Tail(q)
           r == calls \o t
<1>1. /\ Len(q) \in Nat /\ Len(q) >= 1 /\ DOMAIN q = 1..Len(q)
      /\ t \in Seq(CallSet) /\ Len(t) = Len(q) - 1 /\ DOMAIN t = 1..Len(q) - 1
      /\ \A i \in 1..Len(q) - 1 : t[i] = q[i + 1]
      /\ Head(q) = q[1] /\ Head(q) \in Pending(q)
      /\ Pending(q) = {Head(q)} \cup Pending(t)
  BY PendingParts
<1> HIDE DEF t, CallSet
<1>2. /\ r \in Seq(CallSet) /\ Pending(r) = Pending(calls) \cup Pending(t)
      /\ DOMAIN r = 1..(Len(calls) + Len(t)) /\ Len(r) = Len(calls) + Len(t)
      /\ \A i \in DOMAIN r : r[i] = IF i <= Len(calls) THEN calls[i] ELSE t[i - Len(calls)]
      /\ calls # <<>> => r # <<>> /\ Head(r) = Head(calls)
  BY <1>1, PendingJoined
<1>3. Len(calls) \in Nat /\ DOMAIN calls = 1..Len(calls)
  OBVIOUS
<1> HIDE DEF r
<1>4. \A x \in Pending(r) : Fits(g, r, x)
  <2>1. ASSUME NEW x \in Pending(calls) PROVE Fits(g, r, x)
    <3>1. calls # <<>>
      BY <2>1 DEF Pending
    <3>2. NewClass(r) = NewClass(calls) /\ NewShape(r) = NewShape(calls)
      BY <1>2, <3>1 DEF NewClass, NewShape
    <3>3. Fits(g, calls, x)
      BY <2>1
    <3> QED  BY <3>2, <3>3 DEF Fits
  <2>2. ASSUME NEW x \in Pending(t) PROVE Fits(g, r, x)
    <3>1. Fits(g, q, x)
      BY <1>1, <2>2 DEF Ready
    <3> QED  BY <3>1 DEF Fits
  <2> QED  BY <1>2, <2>1, <2>2
<1>5. ASSUME NEW i \in DOMAIN r
      PROVE  \/ i \in DOMAIN calls /\ r[i] = calls[i] /\ r[i] \in Pending(calls)
             \/ \E k \in DOMAIN q : r[i] = q[k] /\ k # 1 /\ (k = Len(q) => i = Len(r))
  <2>1. CASE i <= Len(calls)
    BY <1>2, <1>3, <2>1 DEF Pending
  <2>2. CASE ~(i <= Len(calls))
    <3>1. i - Len(calls) \in 1..Len(q) - 1 /\ r[i] = t[i - Len(calls)]
      BY <1>1, <1>2, <1>3, <2>2
    <3>2. (i - Len(calls)) + 1 \in DOMAIN q /\ r[i] = q[(i - Len(calls)) + 1]
      BY <1>1, <3>1
    <3>3. (i - Len(calls)) + 1 # 1 /\ ((i - Len(calls)) + 1 = Len(q) => i = Len(r))
      <4>1. /\ Len(r) = Len(calls) + (Len(q) - 1) /\ i \in Int /\ Len(calls) \in Int /\ Len(q) \in Int
            /\ i - Len(calls) # 0
        BY <1>1, <1>2, <1>3, <3>1
      <4>2. \A a, b, d \in Int : a - b # 0 => (a - b) + 1 # 1 /\ ((a - b) + 1 = d => a = b + (d - 1))
        OBVIOUS
      <4> QED  BY <4>1, <4>2
    <3> QED  BY <3>2, <3>3
  <2> QED  BY <2>1, <2>2
<1>6. ASSUME NEW i \in DOMAIN r
      PROVE  /\ r[i][1] \in {"insertClass", "ensureNodeShape"} => i = 1
             /\ r[i][1] # "deleteClass"
             /\ r[i][1] = "dropClass" => i = Len(r)
  <2>1. CASE i \in DOMAIN calls /\ r[i] = calls[i] /\ r[i] \in Pending(calls)
    BY <2>1
  <2>2. ASSUME NEW k \in DOMAIN q, r[i] = q[k], k # 1, k = Len(q) => i = Len(r)
        PROVE  /\ r[i][1] \in {"insertClass", "ensureNodeShape"} => i = 1
               /\ r[i][1] # "deleteClass"
               /\ r[i][1] = "dropClass" => i = Len(r)
    <3>1. Len(q) # 1
      BY <1>1, <2>2
    <3> QED  BY <2>2, <3>1 DEF Ready
  <2> QED  BY <1>5, <2>1, <2>2
<1>7. ASSUME NEW i \in DOMAIN r, r[i][1] = "dropClass" PROVE Closes(g, r, r[i][2], r[i][3])
  <2>1. PICK k \in DOMAIN q : r[i] = q[k]
    BY <1>5, <1>7
  <2> DEFINE c == q[k][2]
             force == q[k][3]
  <2>2. Closes(g, q, c, force)
    BY <1>7, <2>1 DEF Ready
  <2> HIDE DEF c, force
  <2>3. Head(q)[1] = "deleteOwnProperties" /\ \A x \in Pending(r) : x[1] \in Removing
    BY <1>1, <1>2, <2>2 DEF Closes
  <2>4. ASSUME NEW p \in Specific, p[1] = c, Declares(g, p)
        PROVE  {<<"deleteOwnProperties", c>>, <<"deleteDatatypeProperty", p, c>>} \cap Pending(r) # {}
    <3>1. {<<"deleteOwnProperties", c>>, <<"deleteDatatypeProperty", p, c>>} \cap Pending(q) # {}
      BY <2>2, <2>4 DEF Closes
    <3>2. Head(q) # <<"deleteDatatypeProperty", p, c>>
      BY <2>3
    <3>3. CASE Head(q) = <<"deleteOwnProperties", c>>
      <4>1. <<"deleteDatatypeProperty", p, p[1]>> \in Pending(calls)
        BY <2>3, <2>4, <3>3
      <4> QED  BY <1>2, <2>4, <4>1
    <3>4. CASE Head(q) # <<"deleteOwnProperties", c>>
      BY <1>1, <1>2, <3>1, <3>2, <3>4
    <3> QED  BY <3>3, <3>4
  <2>5. ASSUME NEW pair \in g.subOf, pair[2] = c PROVE <<"deleteSubClassOf", pair[1], c>> \in Pending(r)
    <3>1. <<"deleteSubClassOf", pair[1], c>> \in Pending(q)
      BY <2>2, <2>5 DEF Closes
    <3>2. Head(q) # <<"deleteSubClassOf", pair[1], c>>
      BY <2>3
    <3> QED  BY <1>1, <1>2, <3>1, <3>2
  <2>6. ~force => Unreferenced(g, c)
    BY <2>2 DEF Closes
  <2>7. Closes(g, r, c, force)
    BY <2>3, <2>4, <2>5, <2>6 DEF Closes
  <2> QED  BY <2>1, <2>7 DEF c, force
<1> QED  BY <1>4, <1>6, <1>7 DEF Ready, r, t

LEMMA AmendedFine ==
  ASSUME NEW g, NEW h, NEW gone, Fine(g, gone), Amends(g, h)
  PROVE  Fine(h, gone)
<1>1. Owned(h)
  BY DEF Fine, Owned, Amends
<1>2. NoOrphans(h)
  BY DEF Fine, NoOrphans, Amends
<1>3. ASSUME NEW c \in Classes \ h.classes, <<c, TRUE>> \notin gone PROVE Unreferenced(h, c)
  <2>1. Unreferenced(g, c)
    BY <1>3 DEF Fine, Warned, Amends
  <2>2. \A r \in h.ranges : ~(r[1] = HomeOf[c] /\ r[3] = c)
    BY <1>3, <2>1 DEF Amends, Unreferenced
  <2>3. ASSUME NEW b \in h.blocks, b.class = c PROVE HomeOf[b.of] # HomeOf[c]
    <3>1. PICK o \in g.blocks : o.of = b.of /\ o.class = b.class
      BY <1>3, <2>3 DEF Amends
    <3> QED  BY <2>1, <2>3, <3>1 DEF Unreferenced
  <2> QED  BY <2>2, <2>3 DEF Unreferenced
<1> QED  BY <1>1, <1>2, <1>3 DEF Fine, Warned

LEMMA OnlyHandler ==
  ASSUME OneEditor, Inv, Inv', NEW e \in Editors, NEW q, todo'[e] = q,
         Fine(graph', deleted'), Ready(graph', q)
  PROVE  AloneInv'
  BY DEF AloneInv, OneEditor

LEMMA Wrote ==
  ASSUME OneEditor, Inv, Inv', AloneInv, NEW e \in Editors, todo[e] # <<>>, NEW h, Write(e, h),
         Fine(h, deleted'), Serves(graph, h, Call(e))
  PROVE  AloneInv'
<1>1. todo \in [Editors -> Seq(CallSet)] /\ graph' \in Graphs
  BY DEF Inv, Types
<1>2. graph' = h /\ (todo'[e] = Tail(todo[e]) \/ todo'[e] = <<>>)
  BY <1>1 DEF Write
<1>3. Ready(h, <<>>)
  BY NothingReady
<1>4. Ready(h, Tail(todo[e]))
  <2>1. h.subOf \subseteq Classes \X Supers
    BY <1>1, <1>2 DEF Graphs, Supers
  <2>2. Ready(graph, todo[e]) /\ todo[e] \in Seq(CallSet)
    BY <1>1 DEF AloneInv
  <2> HIDE DEF CallSet
  <2> QED  BY <2>1, <2>2, GoesOnReady DEF Call
<1> QED  BY <1>2, <1>3, <1>4, OnlyHandler

LEMMA Amended ==
  ASSUME OneEditor, Inv, Inv', AloneInv, NEW e \in Editors, todo[e] # <<>>, NEW h, Write(e, h),
         UNCHANGED deleted, Amends(graph, h), Serves(graph, h, Call(e))
  PROVE  AloneInv'
<1>1. Fine(h, deleted')
  BY AmendedFine DEF AloneInv
<1> QED  BY <1>1, Wrote

LEMMA Threw ==
  ASSUME OneEditor, Inv, Inv', AloneInv, NEW e \in Editors, Throw(e) \/ Fail(e), UNCHANGED deleted
  PROVE  AloneInv'
<1>1. graph' = graph /\ todo'[e] = <<>>
  BY DEF Throw, Fail, Inv, Types
<1> QED  BY <1>1, NothingReady, OnlyHandler DEF AloneInv

LEMMA Became ==
  ASSUME OneEditor, Inv, Inv', AloneInv, NEW e \in Editors, todo[e] # <<>>, NEW calls \in Seq(CallSet),
         Becomes(e, calls), UNCHANGED deleted,
         Call(e)[1] # "insertClass", Call(e)[1] = "ensureNodeShape" => Call(e)[2] \in graph.shapes,
         \A x \in Pending(calls) : Fits(graph, calls, x) /\ x[1] \notin {"insertClass", "deleteClass", "dropClass"},
         \A i \in DOMAIN calls : calls[i][1] = "ensureNodeShape" => i = 1,
         Call(e)[1] \in Removing => Call(e)[1] = "deleteOwnProperties" /\ \A x \in Pending(calls) : x[1] \in Removing,
         Call(e)[1] = "deleteOwnProperties" =>
           \A p \in Specific : Declares(graph, p) /\ p[1] = Call(e)[2] =>
             <<"deleteDatatypeProperty", p, p[1]>> \in Pending(calls)
  PROVE  AloneInv'
<1>1. graph' = graph /\ todo'[e] = calls \o Tail(todo[e]) /\ todo[e] \in Seq(CallSet) /\ Ready(graph, todo[e])
  BY DEF Becomes, Inv, Types, AloneInv
<1>2. NewClass(todo[e]) \subseteq graph.classes /\ NewShape(todo[e]) \subseteq graph.shapes
  BY DEF NewClass, NewShape, Call
<1> HIDE DEF CallSet
<1>3. Ready(graph, calls \o Tail(todo[e]))
  BY <1>1, <1>2, BecomesReady DEF Call
<1> QED  BY <1>1, <1>3, OnlyHandler DEF AloneInv

LEMMA Skipped ==
  ASSUME OneEditor, Inv, Inv', AloneInv, NEW e \in Editors, todo[e] # <<>>, Skip(e), UNCHANGED deleted,
         Call(e)[1] \notin Removing \cup {"insertClass"},
         Call(e)[1] = "ensureNodeShape" => Call(e)[2] \in graph.shapes
  PROVE  AloneInv'
<1>1. <<>> \in Seq(CallSet) /\ Pending(<<>>) = {} /\ DOMAIN <<>> = {}
  BY DEF Pending
<1> HIDE DEF CallSet
<1>2. "deleteOwnProperties" \in Removing
  BY DEF Removing
<1> QED  BY <1>1, <1>2, Became DEF Skip

(* The head of a handler's calls is backed by the graph. *)
LEMMA HeadFits ==
  ASSUME Inv, AloneInv, NEW e \in Editors, todo[e] # <<>>
  PROVE  /\ Fits(graph, todo[e], Call(e)) /\ Call(e) \in CallSet
         /\ NewClass(todo[e]) = {c \in Classes : Call(e) = <<"insertClass", c>>}
         /\ NewShape(todo[e]) = {c \in Classes : Call(e) = <<"ensureNodeShape", c>>}
<1>1. todo[e] \in Seq(CallSet) /\ Ready(graph, todo[e])
  BY DEF Inv, Types, AloneInv
<1>2. Head(todo[e]) \in Pending(todo[e]) /\ Head(todo[e]) \in CallSet
  BY <1>1, PendingParts, HeadTyped DEF Call, Inv
<1> QED  BY <1>1, <1>2 DEF Ready, Call, NewClass, NewShape

(* The calls, one after the other. *)
LEMMA HeadBacked ==
  ASSUME Inv, AloneInv, NEW e \in Editors, todo[e] # <<>>, NEW x, x = Call(e)
  PROVE  /\ x \in CallSet
         /\ x[1] \in {"ensureNodeShape", "insertDatatypeProperty", "declareAttribute", "shareRelation",
                      "declareRelation"} => x[2] \in graph.classes
         /\ x[1] \in {"declareAttribute", "shareRelation", "declareRelation"} => x[2] \in graph.shapes
         /\ x[1] \in {"insertObjectProperty", "shareRelation", "declareRelation"} => x[3] \in graph.classes
         /\ x[1] = "updateObjectProperty" => x[5] \in graph.classes
         /\ x[1] = "insertSubClassOf" => x[2] \in graph.classes /\ (x[3] \in Classes => x[3] \in graph.classes)
<1>1. x[1] \notin {"insertClass", "ensureNodeShape"} => NewClass(todo[e]) = {} /\ NewShape(todo[e]) = {}
  BY HeadFits
<1>2. Fits(graph, todo[e], x) /\ x \in CallSet
  BY HeadFits
<1> QED  BY <1>1, <1>2 DEF Fits

LEMMA AloneParts ==
  ASSUME AloneInv
  PROVE  /\ graph.shapes \subseteq graph.classes
         /\ \A p \in Specific : Declares(graph, p) => p[1] \in graph.classes
         /\ \A b \in graph.blocks : b.of \in graph.shapes
         /\ \A pair \in graph.subOf : pair[1] \in graph.classes /\ (pair[2] \in Classes => pair[2] \in graph.classes)
  BY DEF AloneInv, Fine, Owned, NoOrphans

\* Calls that make no class and no shape leave those that come after them what they need.
LEMMA OthersServe ==
  ASSUME NEW g, NEW h, NEW x, x[1] \notin Removing \cup {"insertClass", "ensureNodeShape"},
         g.classes = h.classes, g.shapes = h.shapes
  PROVE  Serves(g, h, x)
  BY DEF Serves, Removing

LEMMA InsertClassAlone ==
  ASSUME OneEditor, Inv, Inv', AloneInv, NEW e \in Editors, todo[e] # <<>>, NEW c \in Classes,
         Call(e)[1] = "insertClass", Call(e)[2] = c, InsertClass(e, c)
  PROVE  AloneInv'
<1> DEFINE h == [graph EXCEPT !.classes = @ \cup {c}]
<1>1. /\ h.classes = graph.classes \cup {c} /\ h.shapes = graph.shapes /\ h.types = graph.types
      /\ h.subOf = graph.subOf /\ h.ranges = graph.ranges /\ h.blocks = graph.blocks
  BY DEF Inv, Types, Graphs
<1>2. (Throw(e) \/ Write(e, h)) /\ UNCHANGED deleted
  BY DEF InsertClass
<1> HIDE DEF h
<1>3. Amends(graph, h)
  BY <1>1, AloneParts DEF Amends, Declares
<1>4. Serves(graph, h, Call(e))
  BY <1>1 DEF Serves, Removing
<1> QED  BY <1>2, <1>3, <1>4, Amended, Threw

LEMMA SubClassOfAlone ==
  ASSUME OneEditor, Inv, Inv', AloneInv, NEW e \in Editors, todo[e] # <<>>, NEW s \in Classes, NEW t \in Supers,
         Call(e)[2] = s, Call(e)[3] = t,
         \/ Call(e)[1] = "insertSubClassOf" /\ InsertSubClassOf(e, s, t)
         \/ Call(e)[1] = "deleteSubClassOf" /\ DeleteSubClassOf(e, s, t)
  PROVE  AloneInv'
<1>1. CASE Call(e)[1] = "insertSubClassOf" /\ InsertSubClassOf(e, s, t)
  <2> DEFINE h == [graph EXCEPT !.subOf = @ \cup {<<s, t>>}]
  <2>1. /\ h.classes = graph.classes /\ h.shapes = graph.shapes /\ h.types = graph.types
        /\ h.subOf = graph.subOf \cup {<<s, t>>} /\ h.ranges = graph.ranges /\ h.blocks = graph.blocks
    BY DEF Inv, Types, Graphs
  <2>2. (Skip(e) \/ Write(e, h)) /\ UNCHANGED deleted
    BY <1>1 DEF InsertSubClassOf
  <2> HIDE DEF h
  <2>3. s \in graph.classes /\ (t \in Classes => t \in graph.classes)
    BY <1>1, HeadBacked
  <2>4. Amends(graph, h)
    BY <2>1, <2>3, AloneParts DEF Amends, Declares
  <2>5. Call(e)[1] \notin Removing \cup {"insertClass", "ensureNodeShape"}
    BY <1>1 DEF Removing
  <2>6. Serves(graph, h, Call(e))
    BY <2>1, <2>5, OthersServe
  <2> QED  BY <2>2, <2>4, <2>5, <2>6, Amended, Skipped
<1>2. CASE Call(e)[1] = "deleteSubClassOf" /\ DeleteSubClassOf(e, s, t)
  <2> DEFINE h == [graph EXCEPT !.subOf = @ \ {<<s, t>>}]
  <2>1. /\ h.classes = graph.classes /\ h.shapes = graph.shapes /\ h.types = graph.types
        /\ h.subOf = graph.subOf \ {<<s, t>>} /\ h.ranges = graph.ranges /\ h.blocks = graph.blocks
    BY DEF Inv, Types, Graphs
  <2>2. Write(e, h) /\ UNCHANGED deleted
    BY <1>2 DEF DeleteSubClassOf
  <2> HIDE DEF h
  <2>3. Amends(graph, h)
    BY <2>1, AloneParts DEF Amends, Declares
  <2>4. Serves(graph, h, Call(e))
    BY <1>2, <2>1 DEF Serves, Removing
  <2> QED  BY <2>2, <2>3, <2>4, Amended
<1> QED  BY <1>1, <1>2

LEMMA EnsureNodeShapeAlone ==
  ASSUME OneEditor, Inv, Inv', AloneInv, NEW e \in Editors, todo[e] # <<>>, NEW c \in Classes,
         Call(e)[1] = "ensureNodeShape", Call(e)[2] = c, EnsureNodeShape(e, c)
  PROVE  AloneInv'
<1> DEFINE h == [graph EXCEPT !.shapes = @ \cup {c}]
<1>1. /\ h.classes = graph.classes /\ h.shapes = graph.shapes \cup {c} /\ h.types = graph.types
      /\ h.subOf = graph.subOf /\ h.ranges = graph.ranges /\ h.blocks = graph.blocks
  BY DEF Inv, Types, Graphs
<1>2. ((c \in graph.shapes /\ Skip(e)) \/ Write(e, h)) /\ UNCHANGED deleted
  BY DEF EnsureNodeShape
<1> HIDE DEF h
<1>3. c \in graph.classes
  BY HeadBacked
<1>4. Amends(graph, h)
  BY <1>1, <1>3, AloneParts DEF Amends, Declares
<1>5. Serves(graph, h, Call(e))
  BY <1>1 DEF Serves, Removing
<1>6. Call(e)[1] \notin Removing \cup {"insertClass"}
  BY DEF Removing
<1> QED  BY <1>2, <1>4, <1>5, <1>6, Amended, Skipped

LEMMA TwoCalls ==
  ASSUME NEW x \in CallSet, NEW y \in CallSet
  PROVE  /\ <<x, y>> \in Seq(CallSet) /\ Pending(<<x, y>>) = {x, y} /\ DOMAIN <<x, y>> = {1, 2}
         /\ <<x, y>> # <<>> /\ Head(<<x, y>>) = x /\ Len(<<x, y>>) = 2 /\ <<x, y>>[1] = x /\ <<x, y>>[2] = y
<1> HIDE DEF CallSet
<1>1. DOMAIN <<x, y>> = {1, 2} /\ <<x, y>>[1] = x /\ <<x, y>>[2] = y
  OBVIOUS
<1>2. Pending(<<x, y>>) = {x, y}
  BY <1>1 DEF Pending
<1> QED  BY <1>1, <1>2

\* A property is written after the shape it is to be an entry of.
LEMMA ShapeFirst ==
  ASSUME OneEditor, Inv, Inv', AloneInv, NEW e \in Editors, todo[e] # <<>>, NEW c \in graph.classes, NEW y \in CallSet,
         y[1] \in {"declareAttribute", "shareRelation", "declareRelation"}, y[2] = c,
         y[1] \in {"shareRelation", "declareRelation"} => y[3] \in graph.classes,
         Call(e)[1] \in {"insertDatatypeProperty", "insertObjectProperty"},
         Becomes(e, <<<<"ensureNodeShape", c>>, y>>), UNCHANGED deleted
  PROVE  AloneInv'
<1> DEFINE x == <<"ensureNodeShape", c>>
           calls == <<x, y>>
<1>1. c \in Classes /\ x \in CallSet
  BY DEF Inv, Types, Graphs, CallSet
<1>2. /\ calls \in Seq(CallSet) /\ Pending(calls) = {x, y} /\ DOMAIN calls = {1, 2}
      /\ calls # <<>> /\ Head(calls) = x /\ calls[1] = x /\ calls[2] = y
  BY <1>1, TwoCalls
<1>3. x[1] = "ensureNodeShape" /\ x[2] = c
  OBVIOUS
<1>4. Becomes(e, calls)
  OBVIOUS
<1>5. c \in NewShape(calls)
  BY <1>1, <1>2 DEF NewShape
<1> HIDE DEF calls, x, CallSet
<1>6. \A z \in Pending(calls) : Fits(graph, calls, z) /\ z[1] \notin {"insertClass", "deleteClass", "dropClass"}
  BY <1>2, <1>3, <1>5 DEF Fits
<1>7. \A i \in DOMAIN calls : calls[i][1] = "ensureNodeShape" => i = 1
  BY <1>2
<1>8. Call(e)[1] \notin Removing \cup {"insertClass", "ensureNodeShape", "deleteOwnProperties"}
  BY DEF Removing
<1> QED  BY <1>2, <1>4, <1>6, <1>7, <1>8, Became

LEMMA InsertPropertyAlone ==
  ASSUME OneEditor, Inv, Inv', AloneInv, NEW e \in Editors, todo[e] # <<>>, NEW c \in Classes, NEW n \in Names,
         Call(e)[2] = c,
         \/ Call(e)[1] = "insertDatatypeProperty" /\ Call(e)[3] = n /\ InsertDatatypeProperty(e, c, n)
         \/ \E t \in Classes, kind \in Kinds :
              Call(e)[1] = "insertObjectProperty" /\ Call(e)[3] = t /\ InsertObjectProperty(e, c, t, n, kind)
  PROVE  AloneInv'
<1>1. CASE Call(e)[1] = "insertDatatypeProperty" /\ InsertDatatypeProperty(e, c, n)
  <2> DEFINE y == <<"declareAttribute", c, n>>
  <2>1. c \in graph.classes
    BY <1>1, HeadBacked
  <2>2. y \in CallSet /\ y[1] = "declareAttribute" /\ y[2] = c
    BY DEF CallSet
  <2>3. (Throw(e) \/ Becomes(e, <<<<"ensureNodeShape", c>>, y>>)) /\ UNCHANGED deleted
    BY <1>1 DEF InsertDatatypeProperty
  <2> HIDE DEF y, CallSet
  <2>4. CASE Becomes(e, <<<<"ensureNodeShape", c>>, y>>)
    BY <1>1, <2>1, <2>2, <2>3, <2>4, ShapeFirst
  <2> QED  BY <2>3, <2>4, Threw
<1>2. ASSUME NEW t \in Classes, NEW kind \in Kinds, Call(e)[1] = "insertObjectProperty", Call(e)[3] = t,
             InsertObjectProperty(e, c, t, n, kind)
      PROVE  AloneInv'
  <2> DEFINE op == IF kind = "generic" THEN "shareRelation" ELSE "declareRelation"
             y == <<op, c, t, n>>
  <2>1. t \in graph.classes
    BY <1>2, HeadBacked
  <2>2. op \in {"shareRelation", "declareRelation"}
    OBVIOUS
  <2>3. \/ Throw(e) /\ UNCHANGED deleted
        \/ c \in graph.classes /\ Becomes(e, <<<<"ensureNodeShape", c>>, y>>) /\ UNCHANGED deleted
    BY <1>2 DEF InsertObjectProperty
  <2> HIDE DEF op
  <2>4. y \in CallSet /\ y[1] = op /\ y[2] = c /\ y[3] = t
    BY <2>2 DEF CallSet
  <2> HIDE DEF y, CallSet
  <2>5. CASE c \in graph.classes /\ Becomes(e, <<<<"ensureNodeShape", c>>, y>>) /\ UNCHANGED deleted
    BY <1>2, <2>1, <2>2, <2>4, <2>5, ShapeFirst
  <2> QED  BY <2>3, <2>5, Threw
<1> QED  BY <1>1, <1>2

\* An update of ranges, declarations and blocks: new ones are of classes that are there.
LEMMA Described ==
  ASSUME OneEditor, Inv, Inv', AloneInv, NEW e \in Editors, todo[e] # <<>>, NEW h, Write(e, h), UNCHANGED deleted,
         h.classes = graph.classes, h.shapes = graph.shapes, h.subOf = graph.subOf,
         \A p \in Specific : Declares(h, p) => Declares(graph, p) \/ p[1] \in graph.classes,
         \A r \in h.ranges : r \in graph.ranges \/ r[3] \notin Classes \ graph.classes,
         \A b \in h.blocks \ graph.blocks :
           /\ b.of \in graph.shapes
           /\ \/ b.class \notin Classes \ graph.classes
              \/ \E o \in graph.blocks : o.of = b.of /\ o.class = b.class,
         Call(e)[1] \notin Removing \cup {"insertClass", "ensureNodeShape"}
  PROVE  AloneInv'
<1>1. Amends(graph, h)
  BY AloneParts DEF Amends
<1> QED  BY <1>1, OthersServe, Amended

LEMMA BlockIs ==
  ASSUME NEW c, NEW p, NEW t, NEW n
  PROVE  Block(c, p, t, n).of = c /\ Block(c, p, t, n).class = t
  BY DEF Block

LEMMA OwnBlocks ==
  ASSUME Inv, AloneInv, NEW c, NEW p, NEW b \in Blocks(c, p)
  PROVE  b \in BlockType /\ b \in graph.blocks /\ b.of = c /\ c \in graph.shapes
<1>1. b \in BlockType /\ b \in graph.blocks /\ b.of = c
  BY DEF Blocks, Inv, Types, Graphs, BlockType
<1> QED  BY <1>1, AloneParts

LEMMA DeclareAttributeAlone ==
  ASSUME OneEditor, Inv, Inv', AloneInv, NEW e \in Editors, todo[e] # <<>>, NEW c \in Classes, NEW n \in Names,
         Call(e)[1] = "declareAttribute", Call(e)[2] = c, DeclareAttribute(e, c, n)
  PROVE  AloneInv'
<1> DEFINE block == [Block(c, <<c, n>>, None, n) EXCEPT !.datatype = TRUE]
           h == [graph EXCEPT !.types = @ \cup {<<<<c, n>>, "attribute">>},
                              !.ranges = @ \cup {<<HomeOf[c], <<c, n>>, String>>},
                              !.blocks = @ \cup {block}]
<1>1. block.of = c /\ block.class = None
  BY DEF Block
<1> HIDE DEF block
<1>2. /\ h.classes = graph.classes /\ h.shapes = graph.shapes /\ h.subOf = graph.subOf
      /\ h.types = graph.types \cup {<<<<c, n>>, "attribute">>}
      /\ h.ranges = graph.ranges \cup {<<HomeOf[c], <<c, n>>, String>>} /\ h.blocks = graph.blocks \cup {block}
  BY DEF Inv, Types, Graphs
<1>3. Write(e, h) /\ UNCHANGED deleted
  BY DEF DeclareAttribute, block
<1> HIDE DEF h
<1>4. c \in graph.classes /\ c \in graph.shapes
  BY HeadBacked
<1>5. String \notin Classes /\ None \notin Classes
  BY NamesApart
<1>6. \A p \in Specific : Declares(h, p) => Declares(graph, p) \/ p[1] \in graph.classes
  BY <1>2, <1>4 DEF Declares
<1>7. Call(e)[1] \notin Removing \cup {"insertClass", "ensureNodeShape"}
  BY DEF Removing
<1> QED  BY <1>1, <1>2, <1>3, <1>4, <1>5, <1>6, <1>7, Described

LEMMA UpdateDatatypePropertyAlone ==
  ASSUME OneEditor, Inv, Inv', AloneInv, NEW e \in Editors, todo[e] # <<>>, NEW p \in Specific,
         Call(e)[1] = "updateDatatypeProperty", UpdateDatatypeProperty(e, p)
  PROVE  AloneInv'
<1> DEFINE c == p[1]
           new == {[b EXCEPT !.datatype = TRUE] : b \in Blocks(c, p)}
           ranges == Retarget(graph.ranges, HomeOf[c], p, String)
           h == [graph EXCEPT !.ranges = Retarget(@, HomeOf[c], p, String), !.blocks = (@ \ Blocks(c, p)) \cup new]
<1>1. \A b \in new : b.of \in graph.shapes /\ \E o \in graph.blocks : o.of = b.of /\ o.class = b.class
  <2> SUFFICES ASSUME NEW o \in Blocks(c, p), NEW b, b = [o EXCEPT !.datatype = TRUE]
               PROVE  b.of \in graph.shapes /\ o \in graph.blocks /\ o.of = b.of /\ o.class = b.class
    OBVIOUS
  <2>1. o \in BlockType /\ o \in graph.blocks /\ o.of = c /\ c \in graph.shapes
    BY OwnBlocks
  <2> QED  BY <2>1 DEF BlockType
<1>2. \A r \in ranges : r \in graph.ranges \/ r[3] = String
  BY DEF Retarget
<1> HIDE DEF new
<1>3. /\ h.classes = graph.classes /\ h.shapes = graph.shapes /\ h.subOf = graph.subOf
      /\ h.types = graph.types /\ h.ranges = ranges /\ h.blocks \subseteq graph.blocks \cup new
  BY DEF Inv, Types, Graphs
<1>4. Write(e, h) /\ UNCHANGED deleted
  BY DEF UpdateDatatypeProperty, new
<1> HIDE DEF h, ranges
<1>5. String \notin Classes
  BY NamesApart
<1>6. \A q \in Specific : Declares(h, q) => Declares(graph, q)
  BY <1>3 DEF Declares
<1>7. Call(e)[1] \notin Removing \cup {"insertClass", "ensureNodeShape"}
  BY DEF Removing
<1> QED  BY <1>1, <1>2, <1>3, <1>4, <1>5, <1>6, <1>7, Described

\* Deleting a property takes nothing but what is said about it, and a specific one entirely.
LEMMA WithoutPropertyIs ==
  ASSUME Inv, NEW p \in Props, NEW c \in Classes, NEW h, h = WithoutProperty(p, c)
  PROVE  /\ h.classes = graph.classes /\ h.shapes = graph.shapes /\ h.subOf = graph.subOf
         /\ h.types \subseteq graph.types /\ h.ranges \subseteq graph.ranges /\ h.blocks \subseteq graph.blocks
         /\ p \in Specific /\ p[1] = c => ~Declares(h, p)
<1> DEFINE ns == HomeOf[c]
           own == [graph EXCEPT !.blocks = @ \ Blocks(c, p)]
           rest == [own EXCEPT !.types = {x \in @ : ~(x[1] = p /\ Graph(p) = ns)},
                               !.ranges = {r \in @ : ~(r[1] = ns /\ r[2] = p)},
                               !.labels = {l \in @ : ~(l[1] = ns /\ l[2] = p)},
                               !.links = {l \in @ : ~(l[1] = p /\ Graph(p) = ns)}]
<1>1. /\ own \in Graphs /\ own.classes = graph.classes /\ own.shapes = graph.shapes /\ own.subOf = graph.subOf
      /\ own.types = graph.types /\ own.ranges = graph.ranges /\ own.blocks \subseteq graph.blocks
  BY DEF Inv, Types, Graphs
<1>2. h = IF ~HasDomain(p, ns) /\ UsedElsewhere(p, c) THEN own ELSE rest
  BY DEF WithoutProperty
<1> HIDE DEF own
<1>3. /\ rest.classes = graph.classes /\ rest.shapes = graph.shapes /\ rest.subOf = graph.subOf
      /\ rest.types = {x \in graph.types : ~(x[1] = p /\ Graph(p) = ns)}
      /\ rest.ranges \subseteq graph.ranges /\ rest.blocks \subseteq graph.blocks
  BY <1>1 DEF Graphs
<1> HIDE DEF rest
<1>4. ASSUME p \in Specific, p[1] = c PROVE ~Declares(h, p)
  <2>1. Graph(p) = ns
    BY <1>4, Disjoint DEF Graph
  <2>2. CASE Exists(p)
    <3>1. h = rest
      BY <1>2, <1>4, <2>1, <2>2 DEF HasDomain
    <3> QED  BY <1>3, <2>1, <3>1 DEF Declares
  <2>3. CASE ~Exists(p)
    BY <1>1, <1>2, <1>3, <2>3 DEF Declares, Exists
  <2> QED  BY <2>2, <2>3
<1> QED  BY <1>1, <1>2, <1>3, <1>4

LEMMA WithoutPropertyAlone ==
  ASSUME OneEditor, Inv, Inv', AloneInv, NEW e \in Editors, todo[e] # <<>>, NEW p \in Props, NEW c \in Classes,
         \/ Call(e)[1] = "deleteDatatypeProperty" /\ Call(e)[2] = p /\ Call(e)[3] = c
         \/ Call(e)[1] = "deleteObjectProperty",
         Write(e, WithoutProperty(p, c)), UNCHANGED deleted
  PROVE  AloneInv'
<1>1. PICK h : h = WithoutProperty(p, c)
  OBVIOUS
<1>2. /\ h.classes = graph.classes /\ h.shapes = graph.shapes /\ h.subOf = graph.subOf
      /\ h.types \subseteq graph.types /\ h.ranges \subseteq graph.ranges /\ h.blocks \subseteq graph.blocks
      /\ p \in Specific /\ p[1] = c => ~Declares(h, p)
  BY <1>1, WithoutPropertyIs
<1>3. Amends(graph, h)
  BY <1>2, AloneParts DEF Amends, Declares
<1>4. Serves(graph, h, Call(e))
  BY <1>2 DEF Serves, Removing
<1>5. Write(e, h)
  BY <1>1
<1> QED  BY <1>3, <1>4, <1>5, Amended

\* The blocks of a generic relation are written again, with targets it had or that are there.
LEMMA RewrittenAlone ==
  ASSUME OneEditor, Inv, Inv', AloneInv, NEW e \in Editors, todo[e] # <<>>, NEW c, NEW p, NEW targets, NEW n,
         Write(e, Rewritten(c, p, targets, n)), UNCHANGED deleted,
         targets # {} => c \in graph.shapes,
         targets \subseteq Targets(c, p) \cup graph.classes,
         Call(e)[1] \notin Removing \cup {"insertClass", "ensureNodeShape"}
  PROVE  AloneInv'
<1> DEFINE new == {Block(c, p, t, n) : t \in targets}
<1>1. \A b \in new : /\ b.of \in graph.shapes
                     /\ \/ b.class \in graph.classes
                        \/ \E o \in graph.blocks : o.of = b.of /\ o.class = b.class
  <2> SUFFICES ASSUME NEW t \in targets
               PROVE  /\ c \in graph.shapes
                      /\ t \in graph.classes \/ \E o \in graph.blocks : o.of = c /\ o.class = t
    BY BlockIs
  <2> QED  BY DEF Targets, Blocks
<1> HIDE DEF new
<1>2. PICK h : h = Rewritten(c, p, targets, n)
  OBVIOUS
<1>3. /\ h.classes = graph.classes /\ h.shapes = graph.shapes /\ h.subOf = graph.subOf
      /\ h.types = graph.types /\ h.ranges = graph.ranges /\ h.blocks \subseteq graph.blocks \cup new
  BY <1>2 DEF Inv, Types, Graphs, Rewritten, new
<1>4. Write(e, h)
  BY <1>2
<1>5. \A q \in Specific : Declares(h, q) => Declares(graph, q)
  BY <1>3 DEF Declares
<1>6. \A b \in h.blocks \ graph.blocks :
        /\ b.of \in graph.shapes
        /\ \/ b.class \notin Classes \ graph.classes
           \/ \E o \in graph.blocks : o.of = b.of /\ o.class = b.class
  <2> SUFFICES ASSUME NEW b \in h.blocks \ graph.blocks
               PROVE  /\ b.of \in graph.shapes
                      /\ \/ b.class \notin Classes \ graph.classes
                         \/ \E o \in graph.blocks : o.of = b.of /\ o.class = b.class
    OBVIOUS
  <2>1. b \in new
    BY <1>3
  <2>2. b.of \in graph.shapes
    BY <1>1, <2>1
  <2>3. b.class \in graph.classes \/ \E o \in graph.blocks : o.of = b.of /\ o.class = b.class
    BY <1>1, <2>1
  <2> QED  BY <2>2, <2>3
<1>7. \A r \in h.ranges : r \in graph.ranges
  BY <1>3
<1> QED  BY <1>3, <1>4, <1>5, <1>6, <1>7, Described

LEMMA ShareRelationAlone ==
  ASSUME OneEditor, Inv, Inv', AloneInv, NEW e \in Editors, todo[e] # <<>>, NEW c \in Classes, NEW t \in Classes,
         NEW n \in Names, Call(e)[1] = "shareRelation", Call(e)[2] = c, Call(e)[3] = t, ShareRelation(e, c, t, n)
  PROVE  AloneInv'
<1> DEFINE fresh == <<HomeOf[c], n>>
           first == [graph EXCEPT !.types = @ \cup {<<fresh, "relation">>},
                                  !.labels = @ \cup {<<HomeOf[c], fresh, n>>},
                                  !.blocks = @ \cup {Block(c, fresh, t, n)}]
           more(p) == [graph EXCEPT !.blocks = @ \cup {Block(c, p, t, n)}]
<1>1. c \in graph.shapes /\ t \in graph.classes
  BY HeadBacked
<1>2. /\ UNCHANGED deleted
      /\ \/ Throw(e) \/ Write(e, first)
         \/ \E p : Write(e, more(p)) \/ Write(e, Rewritten(c, p, Targets(c, p) \cup {t}, n))
  BY DEF ShareRelation
<1>3. Call(e)[1] \notin Removing \cup {"insertClass", "ensureNodeShape"}
  BY DEF Removing
<1>4. CASE Write(e, first)
  <2>1. PICK b : b = Block(c, fresh, t, n)
    OBVIOUS
  <2>2. b.of = c /\ b.class = t
    BY <2>1, BlockIs
  <2>3. /\ first.classes = graph.classes /\ first.shapes = graph.shapes /\ first.subOf = graph.subOf
        /\ first.types = graph.types \cup {<<fresh, "relation">>} /\ first.ranges = graph.ranges
        /\ first.blocks = graph.blocks \cup {b}
    BY <2>1 DEF Inv, Types, Graphs
  <2>4. fresh \notin Specific
    BY SchemaEditsAssumption, Disjoint DEF Generic
  <2> HIDE DEF first, fresh
  <2>5. \A q \in Specific : Declares(first, q) => Declares(graph, q)
    BY <2>3, <2>4 DEF Declares
  <2> QED  BY <1>1, <1>2, <1>3, <1>4, <2>2, <2>3, <2>5, Described
<1>5. ASSUME NEW p, Write(e, more(p)) PROVE AloneInv'
  <2>1. PICK b : b = Block(c, p, t, n)
    OBVIOUS
  <2>2. b.of = c /\ b.class = t
    BY <2>1, BlockIs
  <2>3. PICK h : h = more(p)
    OBVIOUS
  <2>4. /\ h.classes = graph.classes /\ h.shapes = graph.shapes /\ h.subOf = graph.subOf
        /\ h.types = graph.types /\ h.ranges = graph.ranges /\ h.blocks = graph.blocks \cup {b}
    BY <2>1, <2>3 DEF Inv, Types, Graphs
  <2>5. Write(e, h)
    BY <1>5, <2>3
  <2>6. \A q \in Specific : Declares(h, q) => Declares(graph, q)
    BY <2>4 DEF Declares
  <2> QED  BY <1>1, <1>2, <1>3, <2>2, <2>4, <2>5, <2>6, Described
<1>6. ASSUME NEW p, Write(e, Rewritten(c, p, Targets(c, p) \cup {t}, n)) PROVE AloneInv'
  BY <1>1, <1>2, <1>3, <1>6, RewrittenAlone
<1> QED  BY <1>2, <1>4, <1>5, <1>6, Threw

LEMMA DeclareRelationAlone ==
  ASSUME OneEditor, Inv, Inv', AloneInv, NEW e \in Editors, todo[e] # <<>>, NEW c \in Classes, NEW t \in Classes,
         NEW n \in Names, Call(e)[1] = "declareRelation", Call(e)[2] = c, Call(e)[3] = t, DeclareRelation(e, c, t, n)
  PROVE  AloneInv'
<1> DEFINE p == <<c, n>>
           h == [graph EXCEPT !.types = @ \cup {<<p, "relation">>},
                              !.ranges = Retarget(@, HomeOf[c], p, t),
                              !.blocks = (@ \ Blocks(c, p)) \cup {Block(c, p, t, n)}]
<1>1. c \in graph.shapes /\ c \in graph.classes /\ t \in graph.classes
  BY HeadBacked
<1>2. PICK b : b = Block(c, p, t, n)
  OBVIOUS
<1>3. b.of = c /\ b.class = t
  BY <1>2, BlockIs
<1>4. PICK ranges : ranges = Retarget(graph.ranges, HomeOf[c], p, t)
  OBVIOUS
<1>5. \A r \in ranges : r \in graph.ranges \/ r[3] = t
  BY <1>4 DEF Retarget
<1>6. /\ h.classes = graph.classes /\ h.shapes = graph.shapes /\ h.subOf = graph.subOf
      /\ h.types = graph.types \cup {<<p, "relation">>} /\ h.ranges = ranges
      /\ h.blocks \subseteq graph.blocks \cup {b}
  BY <1>2, <1>4 DEF Inv, Types, Graphs
<1>7. Write(e, h) /\ UNCHANGED deleted
  BY DEF DeclareRelation
<1>8. p[1] = c
  OBVIOUS
<1> HIDE DEF h, p
<1>9. \A q \in Specific : Declares(h, q) => Declares(graph, q) \/ q[1] \in graph.classes
  BY <1>1, <1>6, <1>8 DEF Declares
<1>10. Call(e)[1] \notin Removing \cup {"insertClass", "ensureNodeShape"}
  BY DEF Removing
<1> QED  BY <1>1, <1>3, <1>5, <1>6, <1>7, <1>9, <1>10, Described

LEMMA ManyTargets ==
  ASSUME Inv, AloneInv, NEW c, NEW p, Cardinality(Targets(c, p)) > 1
  PROVE  c \in graph.shapes
<1>1. Targets(c, p) # {}
  BY FS_EmptySet
<1>2. PICK b \in Blocks(c, p) : TRUE
  BY <1>1 DEF Targets
<1> QED  BY <1>2, OwnBlocks

LEMMA UpdateObjectPropertyAlone ==
  ASSUME OneEditor, Inv, Inv', AloneInv, NEW e \in Editors, todo[e] # <<>>, NEW c \in Classes, NEW p \in Props, NEW old,
         NEW t, NEW n, NEW kind, Call(e)[1] = "updateObjectProperty", Call(e)[5] = t,
         UpdateObjectProperty(e, c, p, old, t, n, kind)
  PROVE  AloneInv'
<1> DEFINE targets == IF old \in Targets(c, p) THEN (Targets(c, p) \ {old}) \cup {t} ELSE Targets(c, p)
           blocks == {[b EXCEPT !.class = t] : b \in Blocks(c, p)}
           one == [Rewritten(c, p, {}, n) EXCEPT !.blocks = @ \cup blocks]
           own == [graph EXCEPT !.ranges = Retarget(@, HomeOf[c], p, t), !.blocks = (@ \ Blocks(c, p)) \cup blocks]
<1>1. t \in graph.classes
  BY HeadBacked
<1>2. Call(e)[1] \notin Removing \cup {"insertClass", "ensureNodeShape"}
  BY DEF Removing
<1>b. PICK new : new = blocks
  OBVIOUS
<1>n. \A b \in new : b.of \in graph.shapes /\ b.class = t
  <2> SUFFICES ASSUME NEW o \in Blocks(c, p), NEW b, b = [o EXCEPT !.class = t]
               PROVE  b.of \in graph.shapes /\ b.class = t
    BY <1>b
  <2>1. o \in BlockType /\ o.of = c /\ c \in graph.shapes
    BY OwnBlocks
  <2> QED  BY <2>1 DEF BlockType
<1>3. /\ UNCHANGED deleted
      /\ \/ Throw(e)
         \/ Cardinality(Targets(c, p)) > 1 /\ Write(e, Rewritten(c, p, targets, n))
         \/ Write(e, one) \/ Write(e, own)
  BY DEF UpdateObjectProperty
<1>u. UNCHANGED deleted
  BY <1>3
<1>4. CASE Cardinality(Targets(c, p)) > 1 /\ Write(e, Rewritten(c, p, targets, n))
  <2>1. c \in graph.shapes
    BY <1>4, ManyTargets
  <2>2. targets \subseteq Targets(c, p) \cup graph.classes
    BY <1>1
  <2> QED  BY <1>2, <1>3, <1>4, <2>1, <2>2, RewrittenAlone
<1>5. CASE Write(e, one)
  <2>1. PICK h : h = one
    OBVIOUS
  <2>2. /\ h.classes = graph.classes /\ h.shapes = graph.shapes /\ h.subOf = graph.subOf
        /\ h.types = graph.types /\ h.ranges = graph.ranges /\ h.blocks \subseteq graph.blocks \cup new
    <3> HIDE DEF blocks
    <3>1. PICK g : g = Rewritten(c, p, {}, n)
      OBVIOUS
    <3>2. g = [graph EXCEPT !.labels = {l \in @ : ~(l[1] = HomeOf[c] /\ l[2] = p)} \cup {<<HomeOf[c], p, n>>},
                            !.blocks = (@ \ Blocks(c, p)) \cup {}]
      BY <3>1 DEF Rewritten
    <3> HIDE DEF one
    <3>3. h = [g EXCEPT !.blocks = @ \cup blocks]
      BY <2>1, <3>1 DEF one
    <3> QED  BY <1>b, <3>2, <3>3 DEF Inv, Types, Graphs
  <2>3. Write(e, h)
    BY <1>5, <2>1
  <2>4. \A r \in h.ranges : r \in graph.ranges
    BY <2>2
  <2>5. \A q \in Specific : Declares(h, q) => Declares(graph, q)
    BY <2>2 DEF Declares
  <2> HIDE DEF one, own, blocks
  <2> QED  BY <1>1, <1>2, <1>u, <1>n, <2>2, <2>3, <2>4, <2>5, Described
<1>6. CASE Write(e, own)
  <2>1. PICK ranges : ranges = Retarget(graph.ranges, HomeOf[c], p, t)
    OBVIOUS
  <2>2. \A r \in ranges : r \in graph.ranges \/ r[3] = t
    BY <2>1 DEF Retarget
  <2>3. PICK h : h = own
    OBVIOUS
  <2>4. /\ h.classes = graph.classes /\ h.shapes = graph.shapes /\ h.subOf = graph.subOf
        /\ h.types = graph.types /\ h.ranges = ranges /\ h.blocks \subseteq graph.blocks \cup new
    <3> HIDE DEF blocks
    <3> QED  BY <1>b, <2>1, <2>3 DEF Inv, Types, Graphs
  <2>5. Write(e, h)
    BY <1>6, <2>3
  <2>6. \A q \in Specific : Declares(h, q) => Declares(graph, q)
    BY <2>4 DEF Declares
  <2> HIDE DEF one, own, blocks
  <2> QED  BY <1>1, <1>2, <1>u, <1>n, <2>2, <2>4, <2>5, <2>6, Described
<1> QED  BY <1>3, <1>4, <1>5, <1>6, Threw

LEMMA DeleteObjectPropertyAlone ==
  ASSUME OneEditor, Inv, Inv', AloneInv, NEW e \in Editors, todo[e] # <<>>, NEW p \in Props, NEW c \in Classes, NEW t,
         Call(e)[1] = "deleteObjectProperty", DeleteObjectProperty(e, p, c, t)
  PROVE  AloneInv'
<1>1. Call(e)[1] \notin Removing \cup {"insertClass", "ensureNodeShape"}
  BY DEF Removing
<1>2. CASE Throw(e)
  BY <1>2, Threw DEF DeleteObjectProperty
<1>3. ASSUME NEW b \in Blocks(c, p), Write(e, Rewritten(c, p, Targets(c, p) \ {t}, b.name))
      PROVE  AloneInv'
  <2>1. c \in graph.shapes
    BY OwnBlocks
  <2>2. PICK n : n = b.name
    OBVIOUS
  <2>3. Write(e, Rewritten(c, p, Targets(c, p) \ {t}, n)) /\ UNCHANGED deleted
    BY <1>3, <2>2 DEF DeleteObjectProperty
  <2> QED  BY <1>1, <2>1, <2>3, RewrittenAlone
<1>4. CASE Write(e, WithoutProperty(p, c))
  BY <1>4, WithoutPropertyAlone DEF DeleteObjectProperty
<1> QED  BY <1>2, <1>3, <1>4 DEF DeleteObjectProperty

LEMMA LinksAlone ==
  ASSUME OneEditor, Inv, Inv', AloneInv, NEW e \in Editors, todo[e] # <<>>, NEW p, NEW q, NEW c, NEW d,
         \/ Call(e)[1] = "link" /\ LinkGeneratedReverse(e, p, q)
         \/ Call(e)[1] = "unlink" /\ UnlinkGeneratedReverse(e, p, c, q, d)
  PROVE  AloneInv'
<1>1. ASSUME NEW links, Write(e, [graph EXCEPT !.links = links]) PROVE AloneInv'
  <2>1. PICK h : h = [graph EXCEPT !.links = links]
    OBVIOUS
  <2>2. /\ h.classes = graph.classes /\ h.shapes = graph.shapes /\ h.subOf = graph.subOf
        /\ h.types = graph.types /\ h.ranges = graph.ranges /\ h.blocks = graph.blocks
    BY <2>1 DEF Inv, Types, Graphs
  <2>3. Write(e, h) /\ UNCHANGED deleted
    BY <1>1, <2>1 DEF LinkGeneratedReverse, UnlinkGeneratedReverse
  <2>4. \A r \in Specific : Declares(h, r) => Declares(graph, r)
    BY <2>2 DEF Declares
  <2>5. Call(e)[1] \notin Removing \cup {"insertClass", "ensureNodeShape"}
    BY DEF Removing
  <2> QED  BY <2>2, <2>3, <2>4, <2>5, Described
<1>2. CASE LinkGeneratedReverse(e, p, q)
  BY <1>1, <1>2 DEF LinkGeneratedReverse
<1>3. CASE UnlinkGeneratedReverse(e, p, c, q, d)
  BY <1>1, <1>3, Threw DEF UnlinkGeneratedReverse
<1> QED  BY <1>2, <1>3

(* A deletion. *)

\* An order of a finite set is over all of it.
LEMMA OrderedAll ==
  ASSUME NEW S, IsFiniteSet(S), NEW order \in Orders(S)
  PROVE  Cardinality(S) \in Nat /\ DOMAIN order = 1..Cardinality(S) /\ S = {order[i] : i \in DOMAIN order}
<1>1. Cardinality(S) \in Nat
  BY FS_CardinalityType
<1> QED  BY <1>1 DEF Orders

LEMMA DeleteClassAlone ==
  ASSUME OneEditor, Inv, Inv', AloneInv, NEW e \in Editors, todo[e] # <<>>, NEW c \in Classes, NEW force \in BOOLEAN,
         Call(e)[1] = "deleteClass", DeleteClass(e, c, force)
  PROVE  AloneInv'
<1>1. CASE Throw(e)
  BY <1>1, Threw DEF DeleteClass
<1>2. ASSUME ~(References(c) \cup Subclasses(c) # {} /\ ~force), NEW subs \in Orders(Subclasses(c)),
             Becomes(e, [i \in DOMAIN subs |-> <<"deleteSubClassOf", subs[i], c>>] \o Removal(c, force))
      PROVE  AloneInv'
  <2> DEFINE subcalls == [i \in DOMAIN subs |-> <<"deleteSubClassOf", subs[i], c>>]
  <2>1. PICK d : d = subcalls
    OBVIOUS
  <2>2. PICK r : r = Removal(c, force)
    OBVIOUS
  <2>3. PICK x : x = <<"deleteOwnProperties", c>>
    OBVIOUS
  <2>4. PICK y : y = <<"dropClass", c, force>>
    OBVIOUS
  <2>5. x \in CallSet /\ y \in CallSet /\ r = <<x, y>>
    BY <2>2, <2>3, <2>4 DEF CallSet, Removal
  <2>6. /\ r \in Seq(CallSet) /\ Pending(r) = {x, y} /\ Len(r) = 2 /\ r[1] = x /\ r[2] = y
    BY <2>5, TwoCalls
  <2>7. DOMAIN subs = 1..Cardinality(Subclasses(c)) /\ Subclasses(c) = {subs[i] : i \in DOMAIN subs}
    BY SubclassesFinite, OrderedAll
  <2>8. d \in Seq(CallSet) /\ DOMAIN d = DOMAIN subs
    BY <2>1, DeletionsTyped DEF Supers
  <2>9. Pending(d) = {<<"deleteSubClassOf", s, c>> : s \in Subclasses(c)}
    <3>1. \A i \in DOMAIN subs : d[i] = <<"deleteSubClassOf", subs[i], c>>
      BY <2>1
    <3>2. Pending(d) = {d[i] : i \in DOMAIN subs}
      BY <2>8 DEF Pending
    <3> HIDE DEF subcalls
    <3>3. \A z \in Pending(d) : \E s \in Subclasses(c) : z = <<"deleteSubClassOf", s, c>>
      BY <2>7, <3>1, <3>2
    <3>4. \A s \in Subclasses(c) : <<"deleteSubClassOf", s, c>> \in Pending(d)
      BY <2>7, <3>1, <3>2
    <3> QED  BY <3>3, <3>4
  <2>10. \A i \in DOMAIN d : d[i][1] = "deleteSubClassOf"
    BY <2>1
  <2> HIDE DEF subcalls, CallSet
  <2>11. PICK s : s = d \o r
    OBVIOUS
  <2>12. /\ s \in Seq(CallSet) /\ Pending(s) = Pending(d) \cup {x, y} /\ DOMAIN s = 1..(Len(d) + 2)
         /\ Len(s) = Len(d) + 2 /\ \A i \in DOMAIN s : s[i] = IF i <= Len(d) THEN d[i] ELSE r[i - Len(d)]
    BY <2>6, <2>8, <2>11, PendingJoined
  <2>13. \A z \in Pending(s) : z[1] \in {"deleteSubClassOf", "deleteOwnProperties", "dropClass"}
    BY <2>3, <2>4, <2>9, <2>12
  <2>14. \A z \in Pending(s) : Fits(graph, s, z)
    BY <2>13 DEF Fits
  <2>15. \A i \in DOMAIN s : s[i] \in Pending(s)
    BY DEF Pending
  <2>16. ASSUME NEW i \in DOMAIN s, s[i][1] = "dropClass" PROVE i = Len(s) /\ s[i] = y
    <3>1. Len(d) \in Nat /\ DOMAIN d = 1..Len(d) /\ i \in Nat /\ i >= 1 /\ i <= Len(d) + 2
      BY <2>8, <2>12
    <3>2. CASE i <= Len(d)
      <4>1. i \in DOMAIN d /\ s[i] = d[i]
        BY <2>12, <3>1, <3>2
      <4> QED  BY <2>10, <2>16, <4>1
    <3>3. CASE ~(i <= Len(d))
      <4>1. i - Len(d) = 1 \/ i - Len(d) = 2
        BY <3>1, <3>3
      <4>2. s[i] = r[i - Len(d)]
        BY <2>12, <3>3
      <4>3. i - Len(d) # 1
        BY <2>3, <2>6, <2>16, <4>2
      <4>4. i - Len(d) = 2
        BY <4>1, <4>3
      <4>5. i = Len(d) + 2
        BY <3>1, <4>4
      <4> QED  BY <2>6, <2>12, <4>2, <4>4, <4>5
    <3> QED  BY <3>2, <3>3
  <2>17. Closes(graph, s, c, force)
    <3>1. \A z \in Pending(s) : z[1] \in Removing
      BY <2>13 DEF Removing
    <3>2. <<"deleteOwnProperties", c>> \in Pending(s)
      BY <2>3, <2>12
    <3>3. ASSUME NEW pair \in graph.subOf, pair[2] = c PROVE <<"deleteSubClassOf", pair[1], c>> \in Pending(s)
      <4>1. pair[1] \in Classes /\ pair = <<pair[1], c>>
        BY <3>3 DEF Inv, Types, Graphs
      <4>2. pair[1] \in Subclasses(c)
        BY <4>1 DEF Subclasses
      <4> QED  BY <2>9, <2>12, <4>2
    <3>4. ~force => Unreferenced(graph, c)
      BY <1>2 DEF References, Unreferenced
    <3> QED  BY <3>1, <3>2, <3>3, <3>4 DEF Closes
  <2>18. Ready(graph, s)
    <3>1. y[2] = c /\ y[3] = force
      BY <2>4
    <3>2. \A i \in DOMAIN s : s[i][1] \notin {"insertClass", "ensureNodeShape", "deleteClass"}
      BY <2>13, <2>15
    <3> QED  BY <2>14, <2>16, <2>17, <3>1, <3>2 DEF Ready
  <2>19. Tail(todo[e]) = <<>>
    <3>1. todo[e] \in Seq(CallSet) /\ Ready(graph, todo[e])
      BY DEF Inv, Types, AloneInv
    <3>2. DOMAIN todo[e] = 1..Len(todo[e]) /\ Len(todo[e]) \in Nat /\ Len(todo[e]) >= 1 /\ Head(todo[e]) = todo[e][1]
      BY <3>1, PendingParts
    <3>3. Len(todo[e]) = 1
      BY <3>1, <3>2 DEF Ready, Call
    <3>4. Len(Tail(todo[e])) = 0 /\ Tail(todo[e]) \in Seq(CallSet)
      BY <3>1, <3>3, PendingParts
    <3>5. \A t \in Seq(CallSet) : Len(t) = 0 => t = <<>>
      OBVIOUS
    <3> QED  BY <3>4, <3>5
  <2>20. todo'[e] = s \o Tail(todo[e]) /\ graph' = graph /\ deleted' = deleted
    <3>1. Becomes(e, s) /\ deleted' = deleted
      BY <1>2, <2>1, <2>2, <2>11 DEF DeleteClass, subcalls
    <3> QED  BY <3>1 DEF Becomes, Inv, Types
  <2>21. s \o <<>> = s
    BY <2>12
  <2> QED  BY <2>18, <2>19, <2>20, <2>21, OnlyHandler DEF AloneInv
<1> QED  BY <1>1, <1>2 DEF DeleteClass

LEMMA DeleteOwnPropertiesAlone ==
  ASSUME OneEditor, Inv, Inv', AloneInv, NEW e \in Editors, todo[e] # <<>>, NEW c \in Classes,
         Call(e)[1] = "deleteOwnProperties", Call(e)[2] = c, DeleteOwnProperties(e, c)
  PROVE  AloneInv'
<1>1. PICK own \in Orders(OwnProperties(c)) :
        Becomes(e, [i \in DOMAIN own |-> <<"deleteDatatypeProperty", own[i], c>>])
  BY DEF DeleteOwnProperties
<1>2. OwnProperties(c) \subseteq Props
  BY Disjoint, InvIsGood DEF OwnProperties, Good, Graphs
<1>3. IsFiniteSet(OwnProperties(c))
  BY <1>2, PropsFinite, FS_Subset
<1>4. /\ DOMAIN own = 1..Cardinality(OwnProperties(c)) /\ Cardinality(OwnProperties(c)) \in Nat
      /\ OwnProperties(c) = {own[i] : i \in DOMAIN own}
  BY <1>3, OrderedAll
<1>5. PICK calls : calls = [i \in DOMAIN own |-> <<"deleteDatatypeProperty", own[i], c>>]
  OBVIOUS
<1>6. \A i \in DOMAIN own : calls[i] \in CallSet /\ calls[i][1] = "deleteDatatypeProperty"
  BY <1>2, <1>4, <1>5 DEF CallSet
<1> HIDE DEF CallSet
<1>7. calls \in Seq(CallSet) /\ DOMAIN calls = DOMAIN own
  <2>1. calls \in [1..Cardinality(OwnProperties(c)) -> CallSet]
    BY <1>4, <1>5, <1>6
  <2>2. \A k \in Nat : \A q \in [1..k -> CallSet] : q \in Seq(CallSet) /\ DOMAIN q = 1..k
    OBVIOUS
  <2> QED  BY <1>4, <2>1, <2>2
<1>8. Becomes(e, calls) /\ UNCHANGED deleted
  BY <1>1, <1>5 DEF DeleteOwnProperties
<1>9. \A x \in Pending(calls) : x[1] = "deleteDatatypeProperty"
  BY <1>6, <1>7 DEF Pending
<1>10. \A p \in Specific : Declares(graph, p) /\ p[1] = Call(e)[2] => <<"deleteDatatypeProperty", p, p[1]>> \in Pending(calls)
  <2> SUFFICES ASSUME NEW p \in Specific, Declares(graph, p), p[1] = c
               PROVE  <<"deleteDatatypeProperty", p, c>> \in Pending(calls)
    OBVIOUS
  <2>1. p \in OwnProperties(c)
    BY DEF OwnProperties, Exists, Declares
  <2>2. PICK i \in DOMAIN own : own[i] = p
    BY <1>4, <2>1
  <2>3. calls[i] = <<"deleteDatatypeProperty", p, c>>
    BY <1>5, <2>2
  <2> QED  BY <1>7, <2>3 DEF Pending
<1>11. \A x \in Pending(calls) : /\ Fits(graph, calls, x) /\ x[1] \in Removing
                                /\ x[1] \notin {"insertClass", "deleteClass", "dropClass", "ensureNodeShape"}
  BY <1>9 DEF Fits, Removing
<1>12. \A i \in DOMAIN calls : calls[i][1] = "ensureNodeShape" => i = 1
  BY <1>6, <1>7
<1> QED  BY <1>7, <1>8, <1>10, <1>11, <1>12, Became

LEMMA DropClassAlone ==
  ASSUME OneEditor, Inv, Inv', AloneInv, NEW e \in Editors, todo[e] # <<>>, NEW c \in Classes, NEW force \in BOOLEAN,
         Call(e) = <<"dropClass", c, force>>, DropClass(e, c, force)
  PROVE  AloneInv'
<1> DEFINE h == [graph EXCEPT !.classes = @ \ {c}, !.shapes = @ \ {c},
                              !.subOf = {pair \in @ : pair[1] # c}, !.blocks = {b \in @ : b.of # c}]
<1>1. /\ h.classes = graph.classes \ {c} /\ h.shapes = graph.shapes \ {c} /\ h.types = graph.types
      /\ h.subOf = {pair \in graph.subOf : pair[1] # c} /\ h.ranges = graph.ranges
      /\ h.blocks = {b \in graph.blocks : b.of # c}
  BY DEF Inv, Types, Graphs
<1>2. Write(e, h) /\ deleted' = deleted \cup {<<c, force>>}
  BY DEF DropClass
<1> HIDE DEF h
\* Everything the class owned has gone before.
<1>3. Closes(graph, todo[e], c, force) /\ Pending(todo[e]) = {<<"dropClass", c, force>>}
  <2>1. todo[e] \in Seq(CallSet) /\ Ready(graph, todo[e])
    BY DEF Inv, Types, AloneInv
  <2>2. /\ DOMAIN todo[e] = 1..Len(todo[e]) /\ Len(todo[e]) \in Nat /\ Len(todo[e]) >= 1
        /\ todo[e][1] = <<"dropClass", c, force>>
    BY <2>1, PendingParts DEF Call
  <2>3. 1 \in DOMAIN todo[e] /\ todo[e][1][1] = "dropClass" /\ todo[e][1][2] = c /\ todo[e][1][3] = force
    BY <2>2
  <2>4. Len(todo[e]) = 1 /\ Closes(graph, todo[e], c, force)
    BY <2>1, <2>3 DEF Ready
  <2> QED  BY <2>2, <2>4 DEF Pending
<1>4. \A p \in Specific : p[1] = c => ~Declares(graph, p)
  BY <1>3 DEF Closes
<1>5. \A pair \in graph.subOf : pair[2] # c
  BY <1>3 DEF Closes
<1>6. Owned(h)
  BY <1>1, <1>4, AloneParts DEF Owned, Declares
<1>7. NoOrphans(h)
  BY <1>1, <1>5, AloneParts DEF NoOrphans
<1>8. Warned(h, deleted')
  <2> SUFFICES ASSUME NEW d \in Classes \ h.classes, <<d, TRUE>> \notin deleted' PROVE Unreferenced(h, d)
    BY DEF Warned
  <2>1. Unreferenced(graph, d)
    <3>1. CASE d = c
      <4>1. ~force
        BY <1>2, <3>1
      <4> QED  BY <1>3, <3>1, <4>1 DEF Closes
    <3>2. CASE d # c
      BY <1>1, <1>2, <3>2 DEF AloneInv, Fine, Warned
    <3> QED  BY <3>1, <3>2
  <2> QED  BY <1>1, <2>1 DEF Unreferenced
<1>9. Fine(h, deleted')
  BY <1>6, <1>7, <1>8 DEF Fine
<1>10. Serves(graph, h, Call(e))
  BY <1>1 DEF Serves
<1> QED  BY <1>2, <1>9, <1>10, Wrote

LEMMA StepAlone ==
  ASSUME OneEditor, Inv, Inv', AloneInv, NEW e \in Editors, Step(e)
  PROVE  AloneInv'
<1> DEFINE call == Call(e)
<1>1. todo[e] # <<>>
  BY DEF Step
<1>2. call \in CallSet
  BY <1>1, HeadTyped DEF Inv
<1>a. \A op : Now(e, op) => call[1] = op
  BY DEF Now
<1>3. CASE Now(e, "insertClass") /\ InsertClass(e, call[2])
  BY <1>1, <1>2, <1>a, <1>3, ArgumentsTyped, InsertClassAlone
<1>4. CASE Now(e, "insertSubClassOf") /\ InsertSubClassOf(e, call[2], call[3])
  BY <1>1, <1>2, <1>a, <1>4, ArgumentsTyped, SubClassOfAlone
<1>5. CASE Now(e, "deleteSubClassOf") /\ DeleteSubClassOf(e, call[2], call[3])
  BY <1>1, <1>2, <1>a, <1>5, ArgumentsTyped, SubClassOfAlone
<1>6. CASE Now(e, "ensureNodeShape") /\ EnsureNodeShape(e, call[2])
  BY <1>1, <1>2, <1>a, <1>6, ArgumentsTyped, EnsureNodeShapeAlone
<1>7. CASE Now(e, "insertDatatypeProperty") /\ InsertDatatypeProperty(e, call[2], call[3])
  BY <1>1, <1>2, <1>a, <1>7, ArgumentsTyped, InsertPropertyAlone
<1>8. CASE Now(e, "declareAttribute") /\ DeclareAttribute(e, call[2], call[3])
  BY <1>1, <1>2, <1>a, <1>8, ArgumentsTyped, DeclareAttributeAlone
<1>9. CASE Now(e, "updateDatatypeProperty") /\ UpdateDatatypeProperty(e, call[2])
  BY <1>1, <1>2, <1>a, <1>9, ArgumentsTyped, UpdateDatatypePropertyAlone
<1>10. CASE Now(e, "deleteDatatypeProperty") /\ DeleteDatatypeProperty(e, call[2], call[3])
  BY <1>1, <1>2, <1>a, <1>10, ArgumentsTyped, WithoutPropertyAlone DEF DeleteDatatypeProperty
<1>11. CASE Now(e, "insertObjectProperty") /\ InsertObjectProperty(e, call[2], call[3], call[4], call[5])
  BY <1>1, <1>2, <1>a, <1>11, ArgumentsTyped, InsertPropertyAlone
<1>12. CASE Now(e, "shareRelation") /\ ShareRelation(e, call[2], call[3], call[4])
  BY <1>1, <1>2, <1>a, <1>12, ArgumentsTyped, ShareRelationAlone
<1>13. CASE Now(e, "declareRelation") /\ DeclareRelation(e, call[2], call[3], call[4])
  BY <1>1, <1>2, <1>a, <1>13, ArgumentsTyped, DeclareRelationAlone
<1>14. CASE /\ Now(e, "updateObjectProperty")
            /\ UpdateObjectProperty(e, call[2], call[3], call[4], call[5], call[6], call[7])
  BY <1>1, <1>2, <1>a, <1>14, ArgumentsTyped, UpdateObjectPropertyAlone
<1>15. CASE Now(e, "deleteObjectProperty") /\ DeleteObjectProperty(e, call[2], call[3], call[4])
  BY <1>1, <1>2, <1>a, <1>15, ArgumentsTyped, DeleteObjectPropertyAlone
<1>16. CASE Now(e, "link") /\ LinkGeneratedReverse(e, call[2], call[3])
  BY <1>1, <1>a, <1>16, LinksAlone
<1>17. CASE Now(e, "unlink") /\ UnlinkGeneratedReverse(e, call[2], call[3], call[4], call[5])
  BY <1>1, <1>a, <1>17, LinksAlone
<1>18. CASE Now(e, "deleteClass") /\ DeleteClass(e, call[2], call[3])
  BY <1>1, <1>2, <1>a, <1>18, ArgumentsTyped, DeleteClassAlone
<1>19. CASE Now(e, "deleteOwnProperties") /\ DeleteOwnProperties(e, call[2])
  BY <1>1, <1>2, <1>a, <1>19, ArgumentsTyped, DeleteOwnPropertiesAlone
<1>20. CASE Now(e, "dropClass") /\ DropClass(e, call[2], call[3])
  <2>1. call = <<"dropClass", call[2], call[3]>>
    BY <1>2, <1>a, <1>20 DEF CallSet
  <2> QED  BY <1>1, <1>2, <1>a, <1>20, <2>1, ArgumentsTyped, DropClassAlone
<1>21. \/ Now(e, "insertClass") /\ InsertClass(e, call[2])
       \/ Now(e, "insertSubClassOf") /\ InsertSubClassOf(e, call[2], call[3])
       \/ Now(e, "deleteSubClassOf") /\ DeleteSubClassOf(e, call[2], call[3])
       \/ Now(e, "ensureNodeShape") /\ EnsureNodeShape(e, call[2])
       \/ Now(e, "insertDatatypeProperty") /\ InsertDatatypeProperty(e, call[2], call[3])
       \/ Now(e, "declareAttribute") /\ DeclareAttribute(e, call[2], call[3])
       \/ Now(e, "updateDatatypeProperty") /\ UpdateDatatypeProperty(e, call[2])
       \/ Now(e, "deleteDatatypeProperty") /\ DeleteDatatypeProperty(e, call[2], call[3])
       \/ Now(e, "insertObjectProperty") /\ InsertObjectProperty(e, call[2], call[3], call[4], call[5])
       \/ Now(e, "shareRelation") /\ ShareRelation(e, call[2], call[3], call[4])
       \/ Now(e, "declareRelation") /\ DeclareRelation(e, call[2], call[3], call[4])
       \/ Now(e, "updateObjectProperty")
          /\ UpdateObjectProperty(e, call[2], call[3], call[4], call[5], call[6], call[7])
       \/ Now(e, "deleteObjectProperty") /\ DeleteObjectProperty(e, call[2], call[3], call[4])
       \/ Now(e, "link") /\ LinkGeneratedReverse(e, call[2], call[3])
       \/ Now(e, "unlink") /\ UnlinkGeneratedReverse(e, call[2], call[3], call[4], call[5])
       \/ Now(e, "deleteClass") /\ DeleteClass(e, call[2], call[3])
       \/ Now(e, "deleteOwnProperties") /\ DeleteOwnProperties(e, call[2])
       \/ Now(e, "dropClass") /\ DropClass(e, call[2], call[3])
  BY Zenon DEF Step
<1> QED
  BY <1>3, <1>4, <1>5, <1>6, <1>7, <1>8, <1>9, <1>10, <1>11, <1>12, <1>13, <1>14, <1>15, <1>16, <1>17,
     <1>18, <1>19, <1>20, <1>21

(* The handlers: what their editor sees is there when the first call is made. *)

\* Calls that neither make nor remove a class or a shape, on classes that are there.
Plain(g, q) ==
  \A x \in Pending(q) : Fits(g, <<>>, x) /\ x[1] \notin {"insertClass", "ensureNodeShape", "deleteClass", "dropClass"}

LEMMA PlainReady == ASSUME NEW g, NEW q, Plain(g, q) PROVE Ready(g, q)
<1>1. NewClass(<<>>) = {} /\ NewShape(<<>>) = {}
  BY DEF NewClass, NewShape
<1> QED  BY <1>1 DEF Plain, Ready, Fits, Pending

LEMMA PlainJoined ==
  ASSUME NEW g, NEW q \in Seq(CallSet), NEW r \in Seq(CallSet), Plain(g, q), Plain(g, r)
  PROVE  Plain(g, q \o r)
<1> HIDE DEF CallSet
<1>1. Pending(q \o r) = Pending(q) \cup Pending(r)
  BY PendingJoined
<1> QED  BY <1>1 DEF Plain

LEMMA PlainCall ==
  ASSUME NEW g, NEW x,
         \/ x[1] \in {"deleteSubClassOf", "updateDatatypeProperty", "deleteDatatypeProperty", "deleteObjectProperty",
                      "link", "unlink"}
         \/ x[1] = "insertDatatypeProperty" /\ x[2] \in g.classes
         \/ x[1] = "insertObjectProperty" /\ x[3] \in g.classes
         \/ x[1] = "updateObjectProperty" /\ x[5] \in g.classes
         \/ x[1] = "insertSubClassOf" /\ x[2] \in g.classes /\ (x[3] \in Classes => x[3] \in g.classes)
  PROVE  Fits(g, <<>>, x) /\ x[1] \notin {"insertClass", "ensureNodeShape", "deleteClass", "dropClass"}
  BY DEF Fits

LEMMA OneCall == ASSUME NEW x PROVE Pending(<<x>>) = {x} /\ DOMAIN <<x>> = {1} /\ <<x>>[1] = x /\ Len(<<x>>) = 1
<1>1. DOMAIN <<x>> = {1} /\ <<x>>[1] = x /\ Len(<<x>>) = 1
  OBVIOUS
<1>2. Pending(<<x>>) = {x}
  BY <1>1 DEF Pending
<1> QED  BY <1>1, <1>2

LEMMA BeganAlone ==
  ASSUME OneEditor, Inv, Inv', AloneInv, NEW e \in Editors, NEW calls, Begin(e, calls), Ready(graph, calls)
  PROVE  AloneInv'
<1>1. graph' = graph /\ deleted' = deleted /\ todo'[e] = calls
  BY DEF Begin, Inv, Types
<1> QED  BY <1>1, OnlyHandler DEF AloneInv

LEMMA EntitiesAlone ==
  ASSUME OneEditor, Inv, Inv', AloneInv, NEW e \in Editors, NEW c \in Classes, NEW force,
         CreateEntity(e, c) \/ DeleteEntity(e, c, force) \/ ToggleAssociation(e, c)
  PROVE  AloneInv'
<1>1. PICK x : /\ x = <<"insertClass", c>> \/ x = <<"deleteClass", c, force>> \/ x = <<"deleteSubClassOf", c, Marker>>
               /\ Begin(e, <<x>>)
  BY DEF CreateEntity, DeleteEntity, ToggleAssociation
<1>2. Pending(<<x>>) = {x} /\ DOMAIN <<x>> = {1} /\ <<x>>[1] = x /\ Len(<<x>>) = 1
  BY OneCall
<1>3. PICK q : q = <<x>>
  OBVIOUS
<1>4. x[1] \in {"insertClass", "deleteClass", "deleteSubClassOf"}
  BY <1>1
<1>5. Ready(graph, q)
  BY <1>2, <1>3, <1>4 DEF Ready, Fits
<1> QED  BY <1>1, <1>3, <1>5, BeganAlone

LEMMA AttributesAlone ==
  ASSUME OneEditor, Inv, Inv', AloneInv, NEW e \in Editors, NEW c, NEW n, SubmitAttribute(e, c, n) \/ DeleteAttribute(e, c, n)
  PROVE  AloneInv'
<1>1. PICK x : /\ \/ x = <<"insertDatatypeProperty", c, n>> \/ x = <<"updateDatatypeProperty", <<c, n>>>>
                  \/ x = <<"deleteDatatypeProperty", <<c, n>>, c>>
               /\ c \in graph.classes /\ Begin(e, <<x>>)
  BY DEF SubmitAttribute, DeleteAttribute
<1>2. Fits(graph, <<>>, x) /\ x[1] \notin {"insertClass", "ensureNodeShape", "deleteClass", "dropClass"}
  <2>1. \/ x[1] \in {"updateDatatypeProperty", "deleteDatatypeProperty"}
        \/ x[1] = "insertDatatypeProperty" /\ x[2] \in graph.classes
    BY <1>1
  <2> QED  BY <2>1, PlainCall
<1>3. Plain(graph, <<x>>)
  BY <1>2, OneCall DEF Plain
<1> QED  BY <1>1, <1>3, PlainReady, BeganAlone

LEMMA PlainReverse ==
  ASSUME NEW g, NEW p \in Props, NEW c \in Classes, NEW t \in Classes, NEW n \in Names, c \in g.classes
  PROVE  Plain(g, Reverse(p, c, t, n))
<1>1. PICK x : x = <<"insertObjectProperty", t, c, n, "specific">>
  OBVIOUS
<1>2. PICK y : y = <<"link", p, <<t, n>>>>
  OBVIOUS
<1>3. x \in CallSet /\ y \in CallSet
  BY <1>1, <1>2 DEF CallSet, Kinds, Props, Specific
<1>4. Pending(<<x, y>>) = {x, y}
  BY <1>3, TwoCalls
<1>5. /\ Fits(g, <<>>, x) /\ x[1] \notin {"insertClass", "ensureNodeShape", "deleteClass", "dropClass"}
      /\ Fits(g, <<>>, y) /\ y[1] \notin {"insertClass", "ensureNodeShape", "deleteClass", "dropClass"}
  <2>1. x[1] = "insertObjectProperty" /\ x[3] \in g.classes /\ y[1] = "link"
    BY <1>1, <1>2
  <2> QED  BY <2>1, PlainCall
<1> QED  BY <1>1, <1>2, <1>4, <1>5 DEF Plain, Reverse

LEMMA PlainInsert ==
  ASSUME NEW g, NEW c, NEW t \in g.classes, NEW n, NEW kind
  PROVE  Plain(g, <<<<"insertObjectProperty", c, t, n, kind>>>>)
<1>1. PICK x : x = <<"insertObjectProperty", c, t, n, kind>>
  OBVIOUS
<1>2. Fits(g, <<>>, x) /\ x[1] \notin {"insertClass", "ensureNodeShape", "deleteClass", "dropClass"}
  <2>1. x[1] = "insertObjectProperty" /\ x[3] \in g.classes
    BY <1>1
  <2> QED  BY <2>1, PlainCall
<1> QED  BY <1>1, <1>2, OneCall DEF Plain

LEMMA PlainUpdate ==
  ASSUME NEW g, NEW c, NEW p, NEW old, NEW t \in g.classes, NEW n, NEW kind
  PROVE  Plain(g, <<<<"updateObjectProperty", c, p, old, t, n, kind>>>>)
<1>1. PICK x : x = <<"updateObjectProperty", c, p, old, t, n, kind>>
  OBVIOUS
<1>2. Fits(g, <<>>, x) /\ x[1] \notin {"insertClass", "ensureNodeShape", "deleteClass", "dropClass"}
  <2>1. x[1] = "updateObjectProperty" /\ x[5] \in g.classes
    BY <1>1
  <2> QED  BY <2>1, PlainCall
<1> QED  BY <1>1, <1>2, OneCall DEF Plain

LEMMA PlainDelete ==
  ASSUME NEW g, NEW x, x[1] \in {"deleteSubClassOf", "deleteObjectProperty", "link", "unlink"}
  PROVE  Plain(g, <<x>>)
<1>1. Fits(g, <<>>, x) /\ x[1] \notin {"insertClass", "ensureNodeShape", "deleteClass", "dropClass"}
  BY PlainCall
<1> QED  BY <1>1, OneCall DEF Plain

LEMMA DrawRelationAlone ==
  ASSUME OneEditor, Inv, Inv', AloneInv, NEW e \in Editors, NEW c \in Classes, NEW t \in Classes, NEW n \in Names,
         DrawRelation(e, c, t, n)
  PROVE  AloneInv'
<1>1. c \in graph.classes /\ t \in graph.classes
  BY DEF DrawRelation
<1>2. \A kind \in Kinds : <<<<"insertObjectProperty", c, t, n, kind>>>> \in Seq(CallSet)
  <2>1. \A kind \in Kinds : <<"insertObjectProperty", c, t, n, kind>> \in CallSet
    BY DEF CallSet
  <2> QED  BY <2>1
<1>3. <<c, n>> \in Props /\ Drawn \subseteq Names
  BY SchemaEditsAssumption DEF Specific, Props
<1>4. ASSUME NEW kind \in Kinds, Begin(e, <<<<"insertObjectProperty", c, t, n, kind>>>>) PROVE AloneInv'
  BY <1>1, <1>4, PlainInsert, PlainReady, BeganAlone
<1>5. ASSUME NEW m \in Drawn,
             Begin(e, <<<<"insertObjectProperty", c, t, n, "specific">>>> \o Reverse(<<c, n>>, c, t, m))
      PROVE  AloneInv'
  <2>1. PICK q : q = <<<<"insertObjectProperty", c, t, n, "specific">>>>
    OBVIOUS
  <2>2. PICK r : r = Reverse(<<c, n>>, c, t, m)
    OBVIOUS
  <2>3. q \in Seq(CallSet) /\ r \in Seq(CallSet)
    BY <1>2, <1>3, <2>1, <2>2, ReverseTyped DEF Kinds
  <2>4. Plain(graph, q) /\ Plain(graph, r)
    BY <1>1, <1>3, <2>1, <2>2, PlainInsert, PlainReverse
  <2> HIDE DEF CallSet
  <2>5. Ready(graph, q \o r)
    BY <2>3, <2>4, PlainJoined, PlainReady
  <2> QED  BY <1>5, <2>1, <2>2, <2>5, BeganAlone
<1> QED  BY <1>4, <1>5, Zenon DEF DrawRelation, Kinds

LEMMA EditRelationAlone ==
  ASSUME OneEditor, Inv, Inv', AloneInv, NEW e \in Editors, NEW edge \in Relations, NEW t \in Classes, NEW n \in Names,
         EditRelation(e, edge, t, n)
  PROVE  AloneInv'
<1> DEFINE c == edge[1]
           p == edge[2]
           old == edge[3]
           update(kind) == <<<<"updateObjectProperty", c, p, old, t, n, kind>>>>
           unlink(q) == <<<<"unlink", p, c, q, old>>, <<"deleteObjectProperty", q, old, None>>>>
           remove(q) == IF q = None THEN <<>>
                        ELSE <<<<"unlink", p, c, q, old>>, <<"deleteObjectProperty", q, old, None>>>>
           keep(q, m) == <<<<"updateObjectProperty", old, q, None, c, m, "specific">>>>
           partners == IF Inverses(p) = {} THEN {None} ELSE Inverses(p)
           next(q, m) == IF Kept(q, old, t) THEN keep(q, m) ELSE remove(q) \o Reverse(p, c, t, m)
<1>1. c \in Classes /\ p \in Props /\ old \in Classes /\ c \in graph.classes /\ t \in graph.classes
  BY RelationsTyped DEF Relations, EditRelation
<1>2. \A q \in partners : q = None \/ q \in Props
  BY InversesTyped
<1>3. Drawn \subseteq Names
  BY SchemaEditsAssumption
<1>4. \/ Begin(e, update("generic"))
      \/ \E q \in partners : \/ Begin(e, update("specific") \o remove(q))
                            \/ \E m \in Drawn : Begin(e, update("specific") \o next(q, m))
  BY Zenon DEF EditRelation
<1> HIDE DEF c, p, old, partners
<1>5. \A kind \in Kinds : update(kind) \in Seq(CallSet) /\ Plain(graph, update(kind))
  <2>1. \A kind \in Kinds : <<"updateObjectProperty", c, p, old, t, n, kind>> \in CallSet
    BY <1>1 DEF CallSet
  <2> QED  BY <1>1, <2>1, PlainUpdate
<1>6. \A q \in partners : remove(q) \in Seq(CallSet) /\ Plain(graph, remove(q))
  <2>1. <<>> \in Seq(CallSet) /\ Plain(graph, <<>>)
    BY DEF Plain, Pending
  <2>2. ASSUME NEW q \in Props PROVE unlink(q) \in Seq(CallSet) /\ Plain(graph, unlink(q))
    <3>1. PICK x : x = <<"unlink", p, c, q, old>>
      OBVIOUS
    <3>2. PICK y : y = <<"deleteObjectProperty", q, old, None>>
      OBVIOUS
    <3>3. x \in CallSet /\ y \in CallSet
      BY <1>1, <3>1, <3>2 DEF CallSet
    <3>4. <<x, y>> \in Seq(CallSet) /\ Pending(<<x, y>>) = {x, y}
      BY <3>3, TwoCalls
    <3>5. x[1] = "unlink" /\ y[1] = "deleteObjectProperty"
      BY <3>1, <3>2
    <3>6. /\ Fits(graph, <<>>, x) /\ x[1] \notin {"insertClass", "ensureNodeShape", "deleteClass", "dropClass"}
          /\ Fits(graph, <<>>, y) /\ y[1] \notin {"insertClass", "ensureNodeShape", "deleteClass", "dropClass"}
      BY <3>5, PlainCall
    <3> QED  BY <3>1, <3>2, <3>4, <3>6 DEF Plain
  <2> QED  BY <1>2, <2>1, <2>2
<1>7. \A q \in partners, m \in Drawn : next(q, m) \in Seq(CallSet) /\ Plain(graph, next(q, m))
  <2> SUFFICES ASSUME NEW q \in partners, NEW m \in Drawn
               PROVE  next(q, m) \in Seq(CallSet) /\ Plain(graph, next(q, m))
    OBVIOUS
  <2>1. CASE Kept(q, old, t)
    <3>1. q \in Props
      BY <1>2, <2>1 DEF Kept
    <3>2. <<"updateObjectProperty", old, q, None, c, m, "specific">> \in CallSet
      BY <1>1, <1>3, <3>1 DEF CallSet, Kinds
    <3>3. keep(q, m) \in Seq(CallSet) /\ Plain(graph, keep(q, m))
      BY <1>1, <3>2, PlainUpdate
    <3> HIDE DEF keep
    <3> QED  BY <2>1, <3>3
  <2>2. CASE ~Kept(q, old, t)
    <3>1. PICK r : r = remove(q)
      OBVIOUS
    <3>2. PICK s : s = Reverse(p, c, t, m)
      OBVIOUS
    <3>3. r \in Seq(CallSet) /\ s \in Seq(CallSet) /\ Plain(graph, r) /\ Plain(graph, s)
      BY <1>1, <1>3, <1>6, <3>1, <3>2, ReverseTyped, PlainReverse
    <3> HIDE DEF remove, CallSet
    <3>4. r \o s \in Seq(CallSet) /\ Plain(graph, r \o s)
      BY <3>3, ConcatProperties, PlainJoined
    <3>5. next(q, m) = r \o s
      BY <2>2, <3>1, <3>2
    <3> QED  BY <3>4, <3>5
  <2> QED  BY <2>1, <2>2
<1> HIDE DEF update, remove, next
<1>8. ASSUME NEW q \in Seq(CallSet), Plain(graph, q), Begin(e, update("specific") \o q) PROVE AloneInv'
  <2>1. PICK r : r = update("specific")
    OBVIOUS
  <2>2. r \in Seq(CallSet) /\ Plain(graph, r)
    BY <1>5, <2>1 DEF Kinds
  <2> HIDE DEF CallSet
  <2>3. Ready(graph, r \o q)
    BY <1>8, <2>2, PlainJoined, PlainReady
  <2> QED  BY <1>8, <2>1, <2>3, BeganAlone
<1>9. CASE Begin(e, update("generic"))
  BY <1>5, <1>9, PlainReady, BeganAlone DEF Kinds
<1> HIDE DEF CallSet
<1> QED  BY <1>4, <1>6, <1>7, <1>8, <1>9

LEMMA DeleteRelationAlone ==
  ASSUME OneEditor, Inv, Inv', AloneInv, NEW e \in Editors, NEW edge \in Relations,
         DeleteRelation(e, edge) \/ DeleteLink(e, edge)
  PROVE  AloneInv'
<1> DEFINE drop(t) == <<<<"deleteObjectProperty", edge[2], edge[1], t>>>>
           unlink(q) == <<<<"unlink", edge[2], edge[1], q, edge[3]>>>>
<1>1. edge[1] \in Classes /\ edge[2] \in Props /\ edge[3] \in Classes /\ Inverses(edge[2]) \subseteq Props
  BY RelationsTyped, InversesTyped
<1>2. \A t \in Classes \cup {None} : drop(t) \in Seq(CallSet) /\ Plain(graph, drop(t))
  <2> SUFFICES ASSUME NEW t \in Classes \cup {None} PROVE drop(t) \in Seq(CallSet) /\ Plain(graph, drop(t))
    OBVIOUS
  <2>1. PICK x : x = <<"deleteObjectProperty", edge[2], edge[1], t>>
    OBVIOUS
  <2>2. x \in CallSet /\ x[1] = "deleteObjectProperty"
    BY <1>1, <2>1 DEF CallSet
  <2> HIDE DEF CallSet
  <2> QED  BY <2>1, <2>2, PlainDelete
<1>3. \A q \in Inverses(edge[2]) : unlink(q) \in Seq(CallSet) /\ Plain(graph, unlink(q))
  <2> SUFFICES ASSUME NEW q \in Inverses(edge[2]) PROVE unlink(q) \in Seq(CallSet) /\ Plain(graph, unlink(q))
    OBVIOUS
  <2>1. PICK x : x = <<"unlink", edge[2], edge[1], q, edge[3]>>
    OBVIOUS
  <2>2. x \in CallSet /\ x[1] = "unlink"
    BY <1>1, <2>1 DEF CallSet
  <2> HIDE DEF CallSet
  <2> QED  BY <2>1, <2>2, PlainDelete
<1>4. Begin(e, drop(edge[3])) \/ (\E q \in Inverses(edge[2]) : Begin(e, unlink(q) \o drop(edge[3]))) \/ Begin(e, drop(None))
  BY DEF DeleteRelation, DeleteLink
<1> HIDE DEF drop, unlink, CallSet
<1>5. Plain(graph, drop(edge[3])) /\ Plain(graph, drop(None)) /\ drop(edge[3]) \in Seq(CallSet)
  BY <1>1, <1>2
<1>6. \A q \in Inverses(edge[2]) : Ready(graph, unlink(q) \o drop(edge[3]))
  BY <1>3, <1>5, PlainJoined, PlainReady
<1> QED  BY <1>4, <1>5, <1>6, PlainReady, BeganAlone

LEMMA InheritanceAlone ==
  ASSUME OneEditor, Inv, Inv', AloneInv, NEW e \in Editors, NEW s \in Classes, NEW t \in Classes \cup External,
         DrawInheritance(e, s, t) \/ DeleteInheritance(e, s, t)
  PROVE  AloneInv'
<1>1. PICK x : /\ \/ x = <<"deleteSubClassOf", s, t>>
                  \/ x = <<"insertSubClassOf", s, t>> /\ s \in graph.classes /\ t \in graph.classes \cup External
               /\ Begin(e, <<x>>)
  BY DEF DrawInheritance, DeleteInheritance
<1>2. Fits(graph, <<>>, x) /\ x[1] \notin {"insertClass", "ensureNodeShape", "deleteClass", "dropClass"}
  <2>1. \/ x[1] = "deleteSubClassOf"
        \/ x[1] = "insertSubClassOf" /\ x[2] \in graph.classes /\ (x[3] \in Classes => x[3] \in graph.classes)
    BY <1>1, SchemaEditsAssumption
  <2> QED  BY <2>1, PlainCall
<1>3. Plain(graph, <<x>>)
  BY <1>2, OneCall DEF Plain
<1> QED  BY <1>1, <1>3, PlainReady, BeganAlone

LEMMA RemoveStubAlone ==
  ASSUME OneEditor, Inv, Inv', AloneInv, NEW e \in Editors, NEW x \in External, RemoveStub(e, x)
  PROVE  AloneInv'
<1>1. PICK subs \in Orders(Subclasses(x)) : Begin(e, [i \in DOMAIN subs |-> <<"deleteSubClassOf", subs[i], x>>])
  BY DEF RemoveStub
<1>2. PICK q : q = [i \in DOMAIN subs |-> <<"deleteSubClassOf", subs[i], x>>]
  OBVIOUS
<1>3. \A i \in DOMAIN q : q[i][1] = "deleteSubClassOf"
  BY <1>2
<1>4. Plain(graph, q)
  BY <1>3, PlainCall DEF Plain, Pending
<1> QED  BY <1>1, <1>2, <1>4, PlainReady, BeganAlone

\* The class of an association is made first, and its marker is not a class of the model.
LEMMA CreateAssociationAlone ==
  ASSUME OneEditor, Inv, Inv', AloneInv, NEW e \in Editors, NEW c \in Classes, NEW n \in Names, NEW t \in Classes,
         NEW m \in Names, NEW u \in Classes, CreateAssociation(e, c, n, t, m, u)
  PROVE  AloneInv'
<1>1. PICK w : w = <<"insertClass", c>>
  OBVIOUS
<1>2. PICK x : x = <<"insertSubClassOf", c, Marker>>
  OBVIOUS
<1>3. PICK y : y = <<"insertObjectProperty", c, t, n, "specific">>
  OBVIOUS
<1>4. PICK z : z = <<"insertObjectProperty", c, u, m, "specific">>
  OBVIOUS
<1>5. PICK q : q = <<w, x, y, z>>
  OBVIOUS
<1>6. t \in graph.classes /\ u \in graph.classes /\ Begin(e, q)
  BY <1>1, <1>2, <1>3, <1>4, <1>5 DEF CreateAssociation
<1>7. /\ DOMAIN q = {1, 2, 3, 4} /\ q[1] = w /\ q[2] = x /\ q[3] = y /\ q[4] = z /\ q # <<>> /\ Head(q) = w
  BY <1>5
<1>8. Pending(q) = {w, x, y, z}
  BY <1>7 DEF Pending
<1>9. c \in NewClass(q)
  BY <1>1, <1>7 DEF NewClass
<1>10. /\ w[1] = "insertClass" /\ x[1] = "insertSubClassOf" /\ y[1] = "insertObjectProperty" /\ z[1] = "insertObjectProperty"
       /\ x[2] = c /\ x[3] = Marker /\ y[3] = t /\ z[3] = u
  BY <1>1, <1>2, <1>3, <1>4
<1>11. Marker \notin Classes
  BY NamesApart
<1>12. \A v \in Pending(q) : Fits(graph, q, v)
  BY <1>6, <1>8, <1>9, <1>10, <1>11 DEF Fits
<1>13. Ready(graph, q)
  BY <1>7, <1>10, <1>12 DEF Ready
<1> QED  BY <1>6, <1>13, BeganAlone

LEMMA AssociationsAlone ==
  ASSUME OneEditor, Inv, Inv', AloneInv, NEW e \in Editors, NEW c \in Classes, NEW t \in Classes, NEW n \in Names,
         NEW kept, SubmitLink(e, c, t, n) \/ EditAssociation(e, c, kept, t, n)
  PROVE  AloneInv'
<1> DEFINE insert == <<<<"insertObjectProperty", c, t, n, "specific">>>>
<1>1. t \in graph.classes
  BY DEF SubmitLink, EditAssociation
<1>2. Plain(graph, insert) /\ insert \in Seq(CallSet)
  <2>1. <<"insertObjectProperty", c, t, n, "specific">> \in CallSet
    BY DEF CallSet, Kinds
  <2> QED  BY <1>1, <2>1, PlainInsert
<1>3. CASE SubmitLink(e, c, t, n)
  <2>1. CASE Begin(e, insert)
    BY <1>2, <2>1, PlainReady, BeganAlone
  <2>2. ASSUME NEW link, Begin(e, <<<<"updateObjectProperty", c, link[2], None, t, n, "specific">>>>) PROVE AloneInv'
    BY <1>1, <2>2, PlainUpdate, PlainReady, BeganAlone
  <2> QED  BY <1>3, <2>1, <2>2 DEF SubmitLink
<1>4. CASE EditAssociation(e, c, kept, t, n)
  <2>1. PICK gone \in Orders(Links(c) \ kept) :
          Begin(e, [i \in DOMAIN gone |-> <<"deleteObjectProperty", gone[i][2], c, None>>] \o insert)
    BY <1>4 DEF EditAssociation
  <2>2. PICK q : q = [i \in DOMAIN gone |-> <<"deleteObjectProperty", gone[i][2], c, None>>]
    OBVIOUS
  <2>3. q \in Seq(CallSet)
    BY <2>2, GoneTyped
  <2>4. \A i \in DOMAIN q : q[i][1] = "deleteObjectProperty"
    BY <2>2
  <2>5. Plain(graph, q)
    BY <2>4, PlainCall DEF Plain, Pending
  <2> HIDE DEF insert, CallSet
  <2>6. Ready(graph, q \o insert)
    BY <1>2, <2>3, <2>5, PlainJoined, PlainReady
  <2> QED  BY <2>1, <2>2, <2>6, BeganAlone
<1> QED  BY <1>3, <1>4

LEMMA EditAlone ==
  ASSUME OneEditor, Inv, Inv', AloneInv, NEW e \in Editors, Edit(e)
  PROVE  AloneInv'
<1>1. ASSUME NEW c \in Classes,
             CreateEntity(e, c) \/ ToggleAssociation(e, c) \/ \E force \in BOOLEAN : DeleteEntity(e, c, force)
      PROVE  AloneInv'
  BY <1>1, EntitiesAlone
<1>2. Drawn \subseteq Names
  BY SchemaEditsAssumption
<1>3. ASSUME NEW c \in Classes, NEW n \in Drawn, SubmitAttribute(e, c, n) \/ DeleteAttribute(e, c, n)
      PROVE  AloneInv'
  BY <1>3, AttributesAlone
<1>4. ASSUME NEW c \in Classes, NEW t \in Classes, NEW n \in Drawn, DrawRelation(e, c, t, n)
      PROVE  AloneInv'
  BY <1>2, <1>4, DrawRelationAlone
<1>5. ASSUME NEW c \in Classes, NEW t \in Classes, NEW n \in Names,
             SubmitLink(e, c, t, n) \/ (\E kept : EditAssociation(e, c, kept, t, n))
             \/ \E u \in Classes, m \in Names : CreateAssociation(e, c, n, t, m, u)
      PROVE  AloneInv'
  BY <1>5, AssociationsAlone, CreateAssociationAlone
<1>6. ASSUME NEW c \in Classes, NEW t \in Classes \cup External, DrawInheritance(e, c, t) \/ DeleteInheritance(e, c, t)
      PROVE  AloneInv'
  BY <1>6, InheritanceAlone
<1>7. ASSUME NEW edge \in Relations, DeleteRelation(e, edge) \/ DeleteLink(e, edge)
      PROVE  AloneInv'
  BY <1>7, DeleteRelationAlone
<1>8. ASSUME NEW edge \in Relations, NEW t \in Classes, NEW n \in Drawn, EditRelation(e, edge, t, n)
      PROVE  AloneInv'
  BY <1>2, <1>8, EditRelationAlone
<1>9. ASSUME NEW x \in External, RemoveStub(e, x) PROVE AloneInv'
  BY <1>9, RemoveStubAlone
<1> QED  BY <1>1, <1>3, <1>4, <1>5, <1>6, <1>7, <1>8, <1>9, Zenon DEF Edit

LEMMA NextAlone == ASSUME OneEditor, Inv, Inv', AloneInv, [Next]_vars PROVE AloneInv'
<1>1. CASE UNCHANGED vars
  BY <1>1 DEF vars, AloneInv
<1>2. ASSUME NEW e \in Editors, Fail(e) PROVE AloneInv'
  BY <1>2, Threw DEF Fail
<1>3. ASSUME NEW e \in Editors, Step(e) PROVE AloneInv'
  BY <1>3, StepAlone
<1>4. ASSUME NEW e \in Editors, Edit(e) PROVE AloneInv'
  BY <1>4, EditAlone
<1> QED  BY <1>1, <1>2, <1>3, <1>4 DEF Next

LEMMA InitialAlone == Init => AloneInv
<1> SUFFICES ASSUME Init PROVE AloneInv
  OBVIOUS
<1>1. PICK declared \in SUBSET Classes : graph = Empty(declared)
  BY DEF Init
<1>2. Fine(graph, deleted)
  BY <1>1 DEF Empty, Fine, Owned, NoOrphans, Warned, Unreferenced, Declares
<1>3. \A e \in Editors : todo[e] = <<>>
  BY DEF Init
<1> QED  BY <1>2, <1>3, NothingReady DEF AloneInv

LEMMA InductiveAlone == ASSUME OneEditor PROVE Spec => [](Inv /\ AloneInv)
<1>1. Init => Inv /\ AloneInv
  BY Initial, InitialAlone
<1>2. Inv /\ AloneInv /\ [Next]_vars => (Inv /\ AloneInv)'
  BY NextGood, NextAlone
<1> QED  BY <1>1, <1>2, PTL DEF Spec
-----------------------------------------------------------------------------
(***************************************************************************)
(* One editor at a time, nothing failed and no name given again: schema    *)
(* and shapes say the same.  Each call writes both halves of one property; *)
(* what could part them is a call meant for another property, so the       *)
(* invariant says of the calls still to come what they will find: that an  *)
(* update or a deletion is of a relation of the class it names, because a  *)
(* relation and the reverse it is paired with point at each other's class, *)
(* unless one of them belongs to an association.                           *)
(***************************************************************************)
Relation(g, p) == <<p, "relation">> \in g.types
Attribute(g, p) == <<p, "attribute">> \in g.types
Association(g, c) == <<c, Marker>> \in g.subOf
BlocksOf(g, p) == {b \in g.blocks : b.path = p}
RangesOf(g, p) == {r \in g.ranges : r[2] = p}

\* HalvesAgree, of any graph.
Agrees(g, p) ==
  IF ~Declares(g, p) THEN BlocksOf(g, p) = {}
  ELSE \E b \in BlocksOf(g, p), r \in RangesOf(g, p) :
         /\ BlocksOf(g, p) = {b} /\ RangesOf(g, p) = {r} /\ b.of = p[1] /\ r[1] = Graph(p)
         /\ IF Attribute(g, p) THEN b.datatype /\ b.class = None /\ r[3] = String
            ELSE ~b.datatype /\ b.class = r[3]

\* A range is in the graph of its property, and no property is an attribute and a relation.
Placed(g) ==
  /\ \A r \in g.ranges : r[2] \in Specific => r[1] = Graph(r[2])
  /\ \A p \in Specific : ~(Relation(g, p) /\ Attribute(g, p))

\* The classes about to be dropped, and the pairs of relations that are each other's reverse, but
\* for one about to be unlinked.
Leaving(q) == {c \in Classes : \E force \in BOOLEAN : <<"dropClass", c, force>> \in Pending(q)}
Pairs(g, q) ==
  {pair \in Props \X Props :
     /\ <<pair[1], "inverseOf", pair[2]>> \in g.links
     /\ \A x \in Pending(q) : x[1] = "unlink" => pair \notin {<<x[2], x[4]>>, <<x[4], x[2]>>}}

\* What a pair says of its relations.
Coupled(g, gone, leaving, J) ==
  \A p, r \in Props : <<p, r>> \in J =>
    /\ p \in Specific /\ r \in Specific /\ p # r /\ Relation(g, p) /\ ~Attribute(g, r)
    /\ r[1] \in g.classes \/ \E force \in BOOLEAN : <<r[1], force>> \in gone
    /\ ~Association(g, p[1]) => /\ \A s \in g.ranges : s[2] = p => s[3] = r[1]
                                /\ \A s \in Props : <<p, s>> \in J => s = r
    /\ (~Association(g, r[1]) /\ r[1] \in g.classes /\ r[1] \notin leaving) => <<r, p>> \in J

\* What calls do to a specific property.
Deletes(x, p) == x[1] \in {"deleteDatatypeProperty", "deleteObjectProperty"} /\ x[2] = p
Updates(x, p) == x[1] = "updateObjectProperty" /\ x[3] = p
Makes(x, p) == x[1] = "declareRelation" /\ x[2] = p[1] /\ x[4] = p[2]
Draws(x, p, t) ==
  /\ x[1] = "declareRelation" \/ (x[1] = "insertObjectProperty" /\ x[5] = "specific")
  /\ x[2] = p[1] /\ x[3] = t /\ x[4] = p[2]

\* Nothing that stays points at p as its reverse.
Free(g, leaving, J, p) == Association(g, p[1]) \/ p[1] \in leaving \/ \A s \in Props : <<s, p>> \notin J

\* A call still to come is of what it is meant for.
Sound(g, leaving, J, x) ==
  /\ x[1] = "declareAttribute" => ~Declares(g, <<x[2], x[3]>>)
  /\ x[1] = "updateDatatypeProperty" => Attribute(g, x[2])
  /\ x[1] = "updateObjectProperty" /\ x[3] \in Specific =>
       /\ x[2] = x[3][1] /\ x[2] \in g.classes /\ x[7] = "specific" /\ ~Attribute(g, x[3])
       /\ ~Association(g, x[2]) => \A s \in Props : <<x[3], s>> \in J => x[5] = s[1]
  /\ x[1] \in {"deleteDatatypeProperty", "deleteObjectProperty"} /\ x[2] \in Specific =>
       x[2][1] = x[3] /\ Free(g, leaving, J, x[2])
  /\ x[1] = "unlink" =>
       /\ x[2] \in Specific /\ x[4] \in Specific /\ x[3] = x[2][1] /\ x[5] = x[4][1]
       /\ x[3] \in g.classes /\ x[5] \in g.classes
  /\ x[1] = "deleteOwnProperties" => x[2] \in leaving

\* Where calls stand: nothing that can throw comes before an unlink, and a link comes last.
Ordered(q) ==
  \A i \in DOMAIN q :
    /\ q[i][1] = "declareAttribute" => i = Len(q) /\ i <= 2 /\ (i = 2 => q[1][1] = "ensureNodeShape")
    /\ q[i][1] \in {"insertDatatypeProperty", "updateDatatypeProperty"} => Len(q) = 1
    /\ q[i][1] = "unlink" => i <= 2 /\ (i = 2 => q[1][1] = "updateObjectProperty" /\ q[1][3] \in Specific)
    /\ q[i][1] = "link" => i = Len(q)

\* The relation p and its reverse r, when they are linked: each drawn to the class of the other.
Matched(g, J, q, p, r) ==
  /\ p \in Specific /\ r \in Specific
  /\ \A x \in Pending(q) :
       /\ x[1] \in {"insertObjectProperty", "ensureNodeShape", "declareRelation", "updateObjectProperty", "unlink",
                    "deleteObjectProperty", "link"}
       /\ x[1] = "insertObjectProperty" => x[5] = "specific"
       /\ x[1] = "updateObjectProperty" => x[3] = p /\ x[5] = r[1]
       /\ x[1] = "deleteObjectProperty" => x[2] # p
  /\ IF Len(q) = 1
     THEN /\ p # r /\ Relation(g, r) /\ \A s \in Props : <<r, s>> \notin J
          /\ \A s \in g.ranges : s[2] = r => s[3] = p[1]
     ELSE Draws(q[Len(q) - 1], r, p[1])
  /\ \/ \E j \in 1..Len(q) - 2 : Draws(q[j], p, r[1])
     \/ /\ Relation(g, p)
        /\ ~Association(g, p[1]) =>
             /\ \A s \in Props : <<p, s>> \notin J
             /\ Updates(q[1], p) \/ \A s \in g.ranges : s[2] = p => s[3] = r[1]

Linking(g, J, q) == \A x \in Pending(q) : x[1] = "link" => Matched(g, J, q, x[2], x[3])

Joined(g, gone, q) ==
  /\ \A p \in Specific : Agrees(g, p)
  /\ Placed(g)
  /\ Coupled(g, gone, Leaving(q), Pairs(g, q))
  /\ \A x \in Pending(q) : Sound(g, Leaving(q), Pairs(g, q), x)
  /\ Ordered(q)
  /\ Linking(g, Pairs(g, q), q)

JoinedInv ==
  failures \in Nat /\ ((failures = 0 /\ ~blurred) => \A e \in Editors : Joined(graph, deleted, todo[e]))

\* What the call x does to the relation or attribute p, when it turns the graph g into h.
Does(g, h, J, x, p) ==
  /\ Relation(g, p) => Relation(h, p) \/ Deletes(x, p)
  /\ Attribute(h, p) => Attribute(g, p) \/ (x[1] = "declareAttribute" /\ \A s \in Props : <<s, p>> \notin J)
  /\ Declares(h, p) => Declares(g, p) \/ x[1] \in {"declareAttribute", "declareRelation"}
  /\ Makes(x, p) => ~Declares(g, p) /\ Relation(h, p)
  /\ \A s \in h.ranges : s[2] = p =>
       /\ Updates(x, p) => s[3] = x[5]
       /\ Makes(x, p) => s[3] = x[3]
       /\ Relation(g, p) /\ ~Updates(x, p) /\ ~Makes(x, p) => s \in g.ranges

\* What it does to the graph, as far as the calls after it are concerned: J and K are the pairs before
\* and after it.
Passes(g, h, gone, J, K, x) ==
  /\ g.classes \subseteq h.classes /\ \A c \in h.classes \ g.classes : \A force \in BOOLEAN : <<c, force>> \notin gone
  /\ \A c \in Classes : Association(g, c) => Association(h, c)
  /\ \A p, r \in Props : <<p, r>> \in K <=> (<<p, r>> \in J /\ ~Deletes(x, p))
  /\ \A p \in Specific : Does(g, h, J, x, p)

LEMMA PairIs ==
  ASSUME NEW g, NEW q, NEW p \in Props, NEW r \in Props
  PROVE  <<p, r>> \in Pairs(g, q) <=>
           /\ <<p, "inverseOf", r>> \in g.links
           /\ \A x \in Pending(q) : x[1] = "unlink" => ~(p = x[2] /\ r = x[4]) /\ ~(p = x[4] /\ r = x[2])
<1> DEFINE J == Pairs(g, q)
<1>1. <<p, r>> \in J <=>
        /\ <<p, "inverseOf", r>> \in g.links
        /\ \A x \in Pending(q) : x[1] = "unlink" => <<p, r>> \notin {<<x[2], x[4]>>, <<x[4], x[2]>>}
  BY DEF Pairs
<1>2. \A a, b : <<p, r>> = <<a, b>> <=> p = a /\ r = b
  OBVIOUS
<1> QED  BY <1>1, <1>2

LEMMA CoupledGoesOn ==
  ASSUME NEW g, NEW h, NEW gone, NEW L, NEW J, NEW K, NEW x, Passes(g, h, gone, J, K, x),
         Coupled(g, gone, L, J), Sound(g, L, J, x)
  PROVE  Coupled(h, gone, L, K)
<1> SUFFICES ASSUME NEW p \in Props, NEW r \in Props, <<p, r>> \in K
             PROVE  /\ p \in Specific /\ r \in Specific /\ p # r /\ Relation(h, p) /\ ~Attribute(h, r)
                    /\ r[1] \in h.classes \/ \E force \in BOOLEAN : <<r[1], force>> \in gone
                    /\ ~Association(h, p[1]) => /\ \A s \in h.ranges : s[2] = p => s[3] = r[1]
                                                /\ \A s \in Props : <<p, s>> \in K => s = r
                    /\ (~Association(h, r[1]) /\ r[1] \in h.classes /\ r[1] \notin L) => <<r, p>> \in K
  BY DEF Coupled
<1>1. <<p, r>> \in J /\ ~Deletes(x, p)
  BY DEF Passes, Does
<1>2. /\ p \in Specific /\ r \in Specific /\ p # r /\ Relation(g, p) /\ ~Attribute(g, r)
      /\ r[1] \in g.classes \/ \E force \in BOOLEAN : <<r[1], force>> \in gone
      /\ ~Association(g, p[1]) => /\ \A s \in g.ranges : s[2] = p => s[3] = r[1]
                                  /\ \A s \in Props : <<p, s>> \in J => s = r
      /\ (~Association(g, r[1]) /\ r[1] \in g.classes /\ r[1] \notin L) => <<r, p>> \in J
  BY <1>1 DEF Coupled
<1>3. p[1] \in Classes /\ r[1] \in Classes
  BY <1>2 DEF Specific
<1>4. Relation(h, p) /\ ~Attribute(h, r)
  BY <1>1, <1>2 DEF Passes, Does
<1>5. r[1] \in h.classes \/ \E force \in BOOLEAN : <<r[1], force>> \in gone
  BY <1>2 DEF Passes, Does
<1>6. ASSUME ~Association(h, p[1]) PROVE \A s \in h.ranges : s[2] = p => s[3] = r[1]
  <2>1. ~Association(g, p[1])
    BY <1>3, <1>6 DEF Passes, Does
  <2> SUFFICES ASSUME NEW s \in h.ranges, s[2] = p PROVE s[3] = r[1]
    OBVIOUS
  <2>2. CASE Updates(x, p)
    <3>1. s[3] = x[5]
      BY <1>2, <2>2 DEF Passes, Does
    <3>2. x[1] = "updateObjectProperty" /\ x[3] = p
      BY <2>2 DEF Updates
    <3>3. x[2] = p[1] /\ (~Association(g, x[2]) => \A t \in Props : <<x[3], t>> \in J => x[5] = t[1])
      BY <1>2, <3>2 DEF Sound
    <3> QED  BY <1>1, <2>1, <3>1, <3>2, <3>3
  <2>3. CASE ~Updates(x, p)
    <3>1. ~Makes(x, p)
      BY <1>2 DEF Passes, Does, Relation, Declares
    <3>2. s \in g.ranges
      BY <1>2, <2>3, <3>1 DEF Passes, Does
    <3> QED  BY <1>2, <2>1, <3>2
  <2> QED  BY <2>2, <2>3
<1>7. ASSUME ~Association(h, p[1]) PROVE \A s \in Props : <<p, s>> \in K => s = r
  <2>1. ~Association(g, p[1])
    BY <1>3, <1>7 DEF Passes, Does
  <2> QED  BY <1>2, <2>1 DEF Passes, Does
<1>8. ASSUME ~Association(h, r[1]), r[1] \in h.classes, r[1] \notin L PROVE <<r, p>> \in K
  <2>1. ~Association(g, r[1])
    BY <1>3, <1>8 DEF Passes, Does
  <2>2. r[1] \in g.classes
    BY <1>2, <1>8 DEF Passes, Does
  <2>3. <<r, p>> \in J
    BY <1>2, <1>8, <2>1, <2>2
  <2>4. ~Deletes(x, r)
    <3> SUFFICES ASSUME Deletes(x, r) PROVE FALSE
      OBVIOUS
    <3>1. x[1] \in {"deleteDatatypeProperty", "deleteObjectProperty"} /\ x[2] = r
      BY DEF Deletes
    <3>2. Free(g, L, J, r)
      BY <1>2, <3>1 DEF Sound
    <3> QED  BY <1>1, <1>8, <2>1, <3>2 DEF Free
  <2> QED  BY <2>3, <2>4 DEF Passes, Does
<1> QED  BY <1>2, <1>4, <1>5, <1>6, <1>7, <1>8

LEMMA SoundGoesOn ==
  ASSUME NEW g, NEW h, NEW gone, NEW L, NEW J, NEW K, NEW x, Passes(g, h, gone, J, K, x),
         x[1] # "declareAttribute", NEW y \in CallSet, y[1] = "declareAttribute" => x[1] # "declareRelation",
         y[1] # "updateDatatypeProperty", Sound(g, L, J, y)
  PROVE  Sound(h, L, K, y)
<1>1. ASSUME y[1] = "declareAttribute" PROVE ~Declares(h, <<y[2], y[3]>>)
  <2>1. y[2] \in Classes /\ y[3] \in Names
    BY <1>1, ArgumentsTyped
  <2>2. <<y[2], y[3]>> \in Specific
    BY <2>1 DEF Specific
  <2> QED  BY <1>1, <2>2 DEF Sound, Passes, Does
<1>2. ASSUME y[1] = "updateObjectProperty", y[3] \in Specific
      PROVE  /\ y[2] = y[3][1] /\ y[2] \in h.classes /\ y[7] = "specific" /\ ~Attribute(h, y[3])
             /\ ~Association(h, y[2]) => \A s \in Props : <<y[3], s>> \in K => y[5] = s[1]
  <2>1. /\ y[2] = y[3][1] /\ y[2] \in g.classes /\ y[7] = "specific" /\ ~Attribute(g, y[3])
        /\ ~Association(g, y[2]) => \A s \in Props : <<y[3], s>> \in J => y[5] = s[1]
    BY <1>2 DEF Sound
  <2>2. y[2] \in Classes /\ y[3] \in Props
    BY <1>2, ArgumentsTyped
  <2> QED  BY <1>2, <2>1, <2>2 DEF Passes, Does
<1>3. ASSUME y[1] \in {"deleteDatatypeProperty", "deleteObjectProperty"}, y[2] \in Specific
      PROVE  y[2][1] = y[3] /\ Free(h, L, K, y[2])
  <2>1. y[2][1] = y[3] /\ Free(g, L, J, y[2])
    BY <1>3 DEF Sound
  <2>2. y[2][1] \in Classes /\ y[2] \in Props
    BY <1>3, Disjoint DEF Specific
  <2> QED  BY <2>1, <2>2 DEF Free, Passes, Does
<1>4. y[1] = "unlink" =>
       /\ y[2] \in Specific /\ y[4] \in Specific /\ y[3] = y[2][1] /\ y[5] = y[4][1]
       /\ y[3] \in h.classes /\ y[5] \in h.classes
  BY DEF Sound, Passes, Does
<1>5. y[1] = "deleteOwnProperties" => y[2] \in L
  BY DEF Sound
<1> QED  BY <1>1, <1>2, <1>3, <1>4, <1>5 DEF Sound

LEMMA OrderedGoesOn ==
  ASSUME NEW q \in Seq(CallSet), q # <<>>, Ordered(q)
  PROVE  /\ Ordered(Tail(q))
         /\ Tail(q) # <<>> => Head(q)[1] \notin {"declareAttribute", "insertDatatypeProperty", "updateDatatypeProperty", "link"}
         /\ \A y \in Pending(Tail(q)) : /\ y[1] = "declareAttribute" => Head(q)[1] = "ensureNodeShape"
                                        /\ y[1] \notin {"insertDatatypeProperty", "updateDatatypeProperty"}
         /\ Tail(q) # <<>> => Len(q) > 1
<1> DEFINE t == Tail(q)
<1>1. /\ Len(q) \in Nat /\ Len(q) >= 1 /\ DOMAIN q = 1..Len(q)
      /\ t \in Seq(CallSet) /\ Len(t) = Len(q) - 1 /\ DOMAIN t = 1..Len(q) - 1
      /\ \A i \in 1..Len(q) - 1 : t[i] = q[i + 1]
      /\ Head(q) = q[1]
  BY PendingParts
<1>2. t # <<>> => Len(q) > 1
  BY <1>1
<1> HIDE DEF t, CallSet
<1>3. ASSUME NEW i \in DOMAIN t
      PROVE  /\ t[i][1] = "declareAttribute" => i = Len(t) /\ i = 1 /\ Head(q)[1] = "ensureNodeShape"
             /\ t[i][1] \notin {"insertDatatypeProperty", "updateDatatypeProperty"}
             /\ t[i][1] = "unlink" => i = 1
             /\ t[i][1] = "link" => i = Len(t)
  <2>1. i + 1 \in DOMAIN q /\ t[i] = q[i + 1] /\ i >= 1 /\ i \in Int
    BY <1>1
  <2>2. /\ q[i + 1][1] = "declareAttribute" =>
             i + 1 = Len(q) /\ i + 1 <= 2 /\ (i + 1 = 2 => q[1][1] = "ensureNodeShape")
        /\ q[i + 1][1] \in {"insertDatatypeProperty", "updateDatatypeProperty"} => Len(q) = 1
        /\ q[i + 1][1] = "unlink" => i + 1 <= 2
        /\ q[i + 1][1] = "link" => i + 1 = Len(q)
    BY <2>1 DEF Ordered
  <2> QED  BY <1>1, <2>1, <2>2
<1>4. Ordered(t)
  <2> SUFFICES ASSUME NEW i \in DOMAIN t
               PROVE  /\ t[i][1] = "declareAttribute" => i = Len(t) /\ i <= 2 /\ (i = 2 => t[1][1] = "ensureNodeShape")
                      /\ t[i][1] \in {"insertDatatypeProperty", "updateDatatypeProperty"} => Len(t) = 1
                      /\ t[i][1] = "unlink" => i <= 2 /\ (i = 2 => t[1][1] = "updateObjectProperty" /\ t[1][3] \in Specific)
                      /\ t[i][1] = "link" => i = Len(t)
    BY DEF Ordered
  <2> QED  BY <1>3
<1>5. \A y \in Pending(t) : /\ y[1] = "declareAttribute" => Head(q)[1] = "ensureNodeShape"
                            /\ y[1] \notin {"insertDatatypeProperty", "updateDatatypeProperty"}
  BY <1>3 DEF Pending
<1>6. ASSUME t # <<>>
      PROVE  Head(q)[1] \notin {"declareAttribute", "insertDatatypeProperty", "updateDatatypeProperty", "link"}
  <2>1. 1 \in DOMAIN q /\ Len(q) # 1
    BY <1>1, <1>2, <1>6
  <2> QED  BY <1>1, <2>1 DEF Ordered
<1> QED  BY <1>2, <1>4, <1>5, <1>6 DEF t

\* Draws of the head have been done: the relation is declared, to that class, and paired with none.
LEMMA DrawnIs ==
  ASSUME NEW g, NEW h, NEW gone, NEW L, NEW J, NEW K, NEW x, Passes(g, h, gone, J, K, x), Coupled(g, gone, L, J),
         x[1] # "insertObjectProperty", NEW p \in Specific, NEW t, Draws(x, p, t)
  PROVE  /\ Makes(x, p) /\ ~Declares(g, p) /\ Relation(h, p) /\ \A s \in Props : <<p, s>> \notin K
         /\ \A s \in h.ranges : s[2] = p => s[3] = t
<1>1. Makes(x, p) /\ x[3] = t
  BY DEF Draws, Makes
<1>2. ~Declares(g, p) /\ Relation(h, p)
  BY <1>1 DEF Passes, Does
<1>3. p \in Props
  BY Disjoint
<1>4. \A s \in Props : <<p, s>> \notin K
  <2> SUFFICES ASSUME NEW s \in Props, <<p, s>> \in K PROVE FALSE
    OBVIOUS
  <2>1. <<p, s>> \in J
    BY <1>3 DEF Passes, Does
  <2>2. Relation(g, p)
    BY <1>3, <2>1 DEF Coupled
  <2> QED  BY <1>2, <2>2 DEF Relation, Declares
<1>5. \A s \in h.ranges : s[2] = p => s[3] = t
  BY <1>1 DEF Passes, Does
<1> QED  BY <1>1, <1>2, <1>4, <1>5

LEMMA MatchedGoesOn ==
  ASSUME NEW g, NEW h, NEW gone, NEW L, NEW J, NEW K, NEW q \in Seq(CallSet), Len(q) > 1,
         Passes(g, h, gone, J, K, Head(q)), Coupled(g, gone, L, J), Head(q)[1] # "insertObjectProperty",
         NEW p, NEW r, Matched(g, J, q, p, r)
  PROVE  Matched(h, K, Tail(q), p, r)
<1> DEFINE t == Tail(q)
           x == Head(q)
<1>1. /\ Len(q) \in Nat /\ Len(q) > 1 /\ t \in Seq(CallSet) /\ Len(t) = Len(q) - 1
      /\ \A i \in 1..Len(q) - 1 : t[i] = q[i + 1]
      /\ x = q[1] /\ x \in Pending(q) /\ Pending(q) = {x} \cup Pending(t)
  <2>1. q # <<>>
    OBVIOUS
  <2> QED  BY <2>1, PendingParts
<1> HIDE DEF t, x, CallSet
<1>2. /\ p \in Specific /\ r \in Specific
      /\ \A y \in Pending(q) :
           /\ y[1] \in {"insertObjectProperty", "ensureNodeShape", "declareRelation", "updateObjectProperty", "unlink",
                        "deleteObjectProperty", "link"}
           /\ y[1] = "insertObjectProperty" => y[5] = "specific"
           /\ y[1] = "updateObjectProperty" => y[3] = p /\ y[5] = r[1]
           /\ y[1] = "deleteObjectProperty" => y[2] # p
      /\ Draws(q[Len(q) - 1], r, p[1])
  BY <1>1 DEF Matched
<1>3. \/ \E j \in 1..Len(q) - 2 : Draws(q[j], p, r[1])
      \/ /\ Relation(g, p)
         /\ ~Association(g, p[1]) =>
              /\ \A s \in Props : <<p, s>> \notin J
              /\ Updates(x, p) \/ \A s \in g.ranges : s[2] = p => s[3] = r[1]
  BY <1>1 DEF Matched
<1>4. p \in Props /\ r \in Props /\ p[1] \in Classes /\ p = <<p[1], p[2]>> /\ r = <<r[1], r[2]>>
  BY <1>2, Disjoint DEF Specific
<1>5. ASSUME NEW s \in Specific, NEW c, Draws(x, s, c)
      PROVE  /\ Makes(x, s) /\ ~Declares(g, s) /\ Relation(h, s) /\ \A z \in Props : <<s, z>> \notin K
             /\ \A z \in h.ranges : z[2] = s => z[3] = c
  BY <1>5, DrawnIs DEF x
\* The relation itself, when it is there.
<1>6. ASSUME Relation(g, p), ~Association(g, p[1]) => /\ \A s \in Props : <<p, s>> \notin J
                                                      /\ Updates(x, p) \/ \A s \in g.ranges : s[2] = p => s[3] = r[1]
      PROVE  /\ Relation(h, p)
             /\ ~Association(h, p[1]) => /\ \A s \in Props : <<p, s>> \notin K
                                         /\ \A s \in h.ranges : s[2] = p => s[3] = r[1]
  <2>1. ~Deletes(x, p)
    BY <1>1, <1>2 DEF Deletes
  <2>2. Relation(h, p)
    BY <1>2, <1>6, <2>1 DEF Passes, Does, x
  <2>3. ASSUME ~Association(h, p[1])
        PROVE  /\ \A s \in Props : <<p, s>> \notin K
               /\ \A s \in h.ranges : s[2] = p => s[3] = r[1]
    <3>1. ~Association(g, p[1])
      BY <1>4, <2>3 DEF Passes, Does
    <3>2. \A s \in Props : <<p, s>> \notin K
      BY <1>4, <1>6, <3>1 DEF Passes, Does
    <3>3. ~Makes(x, p)
      BY <1>2, <1>6 DEF Passes, Does, Relation, Declares, x
    <3>4. ASSUME NEW s \in h.ranges, s[2] = p PROVE s[3] = r[1]
      <4>1. CASE Updates(x, p)
        <5>1. s[3] = x[5]
          BY <1>2, <3>4, <4>1 DEF Passes, Does, x
        <5> QED  BY <1>1, <1>2, <4>1, <5>1 DEF Updates
      <4>2. CASE ~Updates(x, p)
        <5>1. s \in g.ranges
          BY <1>2, <1>6, <3>3, <3>4, <4>2 DEF Passes, Does, x
        <5> QED  BY <1>6, <3>1, <3>4, <4>2, <5>1
      <4> QED  BY <4>1, <4>2
    <3> QED  BY <3>2, <3>4
  <2> QED  BY <2>2, <2>3
<1>7. /\ \/ \E j \in 1..Len(t) - 2 : Draws(t[j], p, r[1])
         \/ /\ Relation(h, p)
            /\ ~Association(h, p[1]) => /\ \A s \in Props : <<p, s>> \notin K
                                        /\ \A s \in h.ranges : s[2] = p => s[3] = r[1]
  <2>1. ASSUME NEW j \in 1..Len(q) - 2, Draws(q[j], p, r[1]), j # 1 PROVE \E i \in 1..Len(t) - 2 : Draws(t[i], p, r[1])
    <3>1. j - 1 \in 1..Len(t) - 2 /\ j - 1 \in 1..Len(q) - 1 /\ (j - 1) + 1 = j
      BY <1>1, <2>1
    <3>2. t[j - 1] = q[j]
      BY <1>1, <3>1
    <3> QED  BY <2>1, <3>1, <3>2
  <2>2. ASSUME Draws(x, p, r[1])
        PROVE  /\ Relation(h, p) /\ \A s \in Props : <<p, s>> \notin K
               /\ \A s \in h.ranges : s[2] = p => s[3] = r[1]
    BY <1>2, <1>5, <2>2
  <2> QED  BY <1>1, <1>3, <1>6, <2>1, <2>2
<1>8. ASSUME Len(t) # 1 PROVE Draws(t[Len(t) - 1], r, p[1])
  <2>1. Len(t) - 1 \in 1..Len(q) - 1 /\ (Len(t) - 1) + 1 = Len(q) - 1
    BY <1>1, <1>8
  <2>2. t[Len(t) - 1] = q[Len(q) - 1]
    BY <1>1, <2>1
  <2> QED  BY <1>2, <2>2
<1>9. ASSUME Len(t) = 1
      PROVE  /\ p # r /\ Relation(h, r) /\ \A s \in Props : <<r, s>> \notin K
             /\ \A s \in h.ranges : s[2] = r => s[3] = p[1]
  <2>1. Len(q) = 2
    <3>1. Len(q) \in Nat /\ Len(q) - 1 = 1
      BY <1>1, <1>9
    <3>2. \A n \in Nat : n - 1 = 1 => n = 2
      OBVIOUS
    <3> QED  BY <3>1, <3>2
  <2>2. Draws(x, r, p[1])
    BY <1>1, <1>2, <2>1
  <2>3. /\ ~Declares(g, r) /\ Relation(h, r) /\ \A s \in Props : <<r, s>> \notin K
        /\ \A s \in h.ranges : s[2] = r => s[3] = p[1]
    BY <1>2, <1>5, <2>2
  <2>4. Relation(g, p)
    BY <1>3, <2>1
  <2> QED  BY <2>3, <2>4 DEF Relation, Declares
<1> QED  BY <1>1, <1>2, <1>7, <1>8, <1>9 DEF Matched, t

LEMMA JoinedGoesOn ==
  ASSUME NEW g, NEW h, NEW gone, NEW q \in Seq(CallSet), q # <<>>, Joined(g, gone, q),
         Head(q)[1] \notin {"insertObjectProperty", "link", "dropClass"},
         Passes(g, h, gone, Pairs(g, q), Pairs(h, Tail(q)), Head(q)),
         \A p \in Specific : Agrees(h, p), Placed(h)
  PROVE  Joined(h, gone, Tail(q))
<1> DEFINE t == Tail(q)
           x == Head(q)
           J == Pairs(g, q)
           K == Pairs(h, t)
           L == Leaving(q)
<1>1. t \in Seq(CallSet) /\ x \in Pending(q) /\ Pending(q) = {x} \cup Pending(t)
  BY PendingParts
<1>2. Leaving(t) = L
  <2>1. \A c, force : <<"dropClass", c, force>> # x
    OBVIOUS
  <2> HIDE DEF x, t
  <2> QED  BY <1>1, <2>1 DEF Leaving
<1>3. /\ Ordered(t)
      /\ t # <<>> => x[1] \notin {"declareAttribute", "insertDatatypeProperty", "updateDatatypeProperty", "link"}
      /\ \A y \in Pending(t) : /\ y[1] = "declareAttribute" => x[1] = "ensureNodeShape"
                               /\ y[1] \notin {"insertDatatypeProperty", "updateDatatypeProperty"}
      /\ t # <<>> => Len(q) > 1
  BY OrderedGoesOn DEF Joined
<1>4. /\ Coupled(g, gone, L, J) /\ (\A y \in Pending(q) : Sound(g, L, J, y)) /\ Linking(g, J, q)
      /\ Passes(g, h, gone, J, K, x) /\ x[1] # "insertObjectProperty"
  BY DEF Joined
<1>5. Pending(t) # {} => t # <<>>
  BY DEF Pending
<1>6. Pending(t) \subseteq CallSet
  <2> HIDE DEF t, CallSet
  <2> QED  BY <1>1 DEF Pending
<1> HIDE DEF t, x, J, K, L, CallSet
<1>7. Coupled(h, gone, L, K)
  BY <1>1, <1>4, CoupledGoesOn
<1>8. \A y \in Pending(t) : Sound(h, L, K, y)
  <2> SUFFICES ASSUME NEW y \in Pending(t) PROVE Sound(h, L, K, y)
    OBVIOUS
  <2>1. /\ x[1] # "declareAttribute" /\ y \in CallSet /\ (y[1] = "declareAttribute" => x[1] # "declareRelation")
        /\ y[1] # "updateDatatypeProperty" /\ Sound(g, L, J, y)
    BY <1>1, <1>3, <1>4, <1>5, <1>6
  <2> QED  BY <1>4, <2>1, SoundGoesOn
<1>9. Linking(h, K, t)
  <2> SUFFICES ASSUME NEW y \in Pending(t), y[1] = "link" PROVE Matched(h, K, t, y[2], y[3])
    BY DEF Linking
  <2>1. Matched(g, J, q, y[2], y[3]) /\ Len(q) > 1
    BY <1>1, <1>3, <1>4, <1>5 DEF Linking
  <2> QED  BY <1>4, <2>1, MatchedGoesOn DEF x, t
<1> QED  BY <1>2, <1>3, <1>7, <1>8, <1>9 DEF Joined, t, K

LEMMA AgreesSame ==
  ASSUME NEW g, NEW h, NEW p, Agrees(g, p), BlocksOf(h, p) = BlocksOf(g, p), RangesOf(h, p) = RangesOf(g, p),
         Relation(h, p) <=> Relation(g, p), Attribute(h, p) <=> Attribute(g, p)
  PROVE  Agrees(h, p)
<1>1. Declares(h, p) <=> Declares(g, p)
  BY DEF Declares, Relation, Attribute
<1> QED  BY <1>1 DEF Agrees

\* A call that leaves every specific property alone.
LEMMA QuietJoined ==
  ASSUME NEW g, NEW h, NEW gone, NEW q \in Seq(CallSet), q # <<>>, Joined(g, gone, q),
         Head(q)[1] \notin {"insertObjectProperty", "link", "unlink", "dropClass"},
         \A p \in Specific : ~Deletes(Head(q), p) /\ ~Updates(Head(q), p) /\ ~Makes(Head(q), p),
         g.classes \subseteq h.classes, \A c \in h.classes \ g.classes : \A force \in BOOLEAN : <<c, force>> \notin gone,
         \A c \in Classes : Association(g, c) => Association(h, c),
         h.links \subseteq g.links, \A l \in g.links : l[1] \in Specific => l \in h.links,
         h.ranges \subseteq g.ranges \cup {r \in h.ranges : r[2] \notin Specific},
         \A p \in Specific : /\ Relation(h, p) <=> Relation(g, p)
                             /\ Attribute(h, p) <=> Attribute(g, p)
                             /\ BlocksOf(h, p) = BlocksOf(g, p) /\ RangesOf(h, p) = RangesOf(g, p)
  PROVE  Joined(h, gone, Tail(q))
<1> DEFINE t == Tail(q)
           x == Head(q)
           J == Pairs(g, q)
           K == Pairs(h, t)
<1>1. x \in Pending(q) /\ Pending(q) = {x} \cup Pending(t)
  BY PendingParts
<1>2. /\ \A p \in Specific : Agrees(h, p)
      /\ Placed(h)
  <2>1. \A p \in Specific : Agrees(h, p)
    BY AgreesSame DEF Joined
  <2>2. Placed(h)
    BY DEF Placed, Joined
  <2> QED  BY <2>1, <2>2
<1>3. x[1] # "unlink" /\ Coupled(g, gone, Leaving(q), J) /\ \A p \in Specific : ~Deletes(x, p)
  BY DEF Joined
<1> HIDE DEF t, x
<1>4. ASSUME NEW p \in Props, NEW r \in Props PROVE <<p, r>> \in K <=> (<<p, r>> \in J /\ ~Deletes(x, p))
  <2>1. <<p, r>> \in J <=>
          /\ <<p, "inverseOf", r>> \in g.links
          /\ \A y \in Pending(q) : y[1] = "unlink" => ~(p = y[2] /\ r = y[4]) /\ ~(p = y[4] /\ r = y[2])
    BY PairIs DEF J
  <2>2. <<p, r>> \in K <=>
          /\ <<p, "inverseOf", r>> \in h.links
          /\ \A y \in Pending(t) : y[1] = "unlink" => ~(p = y[2] /\ r = y[4]) /\ ~(p = y[4] /\ r = y[2])
    BY PairIs DEF K
  <2>3. <<p, r>> \in J => p \in Specific
    BY <1>3 DEF Coupled
  <2>4. p \in Specific => (<<p, "inverseOf", r>> \in h.links <=> <<p, "inverseOf", r>> \in g.links)
    OBVIOUS
  <2>5. <<p, r>> \in K => <<p, r>> \in J
    BY <1>1, <1>3, <2>1, <2>2
  <2> QED  BY <1>1, <1>3, <2>1, <2>2, <2>3, <2>4, <2>5
<1>5. Passes(g, h, gone, J, K, x)
  <2>1. ASSUME NEW p \in Specific
        PROVE  /\ Relation(g, p) => Relation(h, p)
               /\ Attribute(h, p) => Attribute(g, p)
               /\ Declares(h, p) => Declares(g, p)
               /\ ~Makes(x, p) /\ ~Updates(x, p)
               /\ \A s \in h.ranges : s[2] = p => s \in g.ranges
    <3>1. Relation(h, p) <=> Relation(g, p)
      OBVIOUS
    <3>2. Attribute(h, p) <=> Attribute(g, p)
      OBVIOUS
    <3>3. Declares(h, p) => Declares(g, p)
      BY <3>1, <3>2 DEF Declares, Relation, Attribute
    <3>4. \A s \in h.ranges : s[2] = p => s \in g.ranges
      OBVIOUS
    <3>5. ~Makes(x, p) /\ ~Updates(x, p)
      BY DEF x
    <3> QED  BY <3>1, <3>2, <3>3, <3>4, <3>5
  <2> HIDE DEF J, K
  <2> QED  BY <1>4, <2>1 DEF Passes, Does
<1> QED  BY <1>2, <1>5, JoinedGoesOn DEF t, x, J, K

-----------------------------------------------------------------------------
(* The steps, of one editor *)

LEMMA GoneOn ==
  ASSUME OneEditor, Inv, JoinedInv, NEW e \in Editors, NEW q, todo'[e] = q,
         failures' = failures \/ failures' = failures + 1,
         (failures' = failures /\ failures = 0 /\ ~blurred') => Joined(graph', deleted', q)
  PROVE  JoinedInv'
<1>1. failures \in Nat /\ failures' \in Nat
  BY DEF JoinedInv
<1>2. ASSUME failures' = 0, ~blurred' PROVE Joined(graph', deleted', q)
  BY <1>1, <1>2
<1> QED  BY <1>1, <1>2 DEF JoinedInv, OneEditor

LEMMA WroteJoined ==
  ASSUME OneEditor, Inv, JoinedInv, NEW e \in Editors, todo[e] # <<>>, NEW h, Write(e, h),
         (failures = 0 /\ ~blurred') => Joined(h, deleted', Tail(todo[e]))
  PROVE  JoinedInv'
<1>1. todo \in [Editors -> Seq(CallSet)]
  BY DEF Inv, Types
<1>2. CASE todo' = [todo EXCEPT ![e] = Tail(@)] /\ UNCHANGED failures
  <2>1. todo'[e] = Tail(todo[e]) /\ graph' = h
    BY <1>1, <1>2 DEF Write
  <2> QED  BY <1>2, <2>1, GoneOn
<1>3. CASE failures' = failures + 1
  <2>1. failures \in Nat
    BY DEF JoinedInv
  <2> QED  BY <1>3, <2>1 DEF JoinedInv
<1> QED  BY <1>2, <1>3 DEF Write

LEMMA BecameJoined ==
  ASSUME OneEditor, Inv, JoinedInv, NEW e \in Editors, todo[e] # <<>>, NEW calls, Becomes(e, calls),
         (failures = 0 /\ ~blurred') => Joined(graph, deleted', calls \o Tail(todo[e]))
  PROVE  JoinedInv'
<1>1. todo \in [Editors -> Seq(CallSet)]
  BY DEF Inv, Types
<1>2. todo'[e] = calls \o Tail(todo[e]) /\ graph' = graph /\ failures' = failures
  BY <1>1 DEF Becomes
<1> QED  BY <1>2, GoneOn

\* A call that throws: nothing pending was to be relied on.
LEMMA NothingJoined ==
  ASSUME NEW g, NEW gone, NEW q \in Seq(CallSet), q # <<>>, Joined(g, gone, q), Ready(g, q),
         Head(q)[1] \notin Removing, Head(q)[1] # "unlink",
         Head(q)[1] = "updateObjectProperty" => Head(q)[3] \notin Specific
  PROVE  Joined(g, gone, <<>>)
<1>1. /\ DOMAIN q = 1..Len(q) /\ Len(q) \in Nat /\ Len(q) >= 1 /\ Head(q) = q[1] /\ Head(q) \in Pending(q)
  BY PendingParts
<1> HIDE DEF CallSet
<1>2. Pending(<<>>) = {}
  BY DEF Pending
<1>3. ASSUME NEW x \in Pending(q) PROVE x[1] # "unlink" /\ x[1] # "dropClass"
  <2>1. PICK i \in DOMAIN q : x = q[i]
    BY DEF Pending
  <2>2. x[1] # "unlink"
    <3> SUFFICES ASSUME x[1] = "unlink" PROVE FALSE
      OBVIOUS
    <3>1. i <= 2 /\ (i = 2 => q[1][1] = "updateObjectProperty" /\ q[1][3] \in Specific)
      BY <2>1 DEF Joined, Ordered
    <3>2. i # 1 /\ i \in Nat /\ i >= 1
      BY <1>1, <2>1
    <3> QED  BY <1>1, <3>1, <3>2
  <2>3. x[1] # "dropClass"
    BY <1>1, <2>1 DEF Ready, Closes
  <2> QED  BY <2>2, <2>3
<1>4. Leaving(q) = {} /\ Leaving(<<>>) = {}
  <2>1. \A c, force : <<"dropClass", c, force>>[1] = "dropClass"
    OBVIOUS
  <2> QED  BY <1>2, <1>3, <2>1 DEF Leaving
<1>5. Pairs(g, q) = Pairs(g, <<>>)
  BY <1>2, <1>3 DEF Pairs
<1>6. Ordered(<<>>) /\ Linking(g, Pairs(g, <<>>), <<>>)
  BY <1>2 DEF Ordered, Linking
<1> QED  BY <1>2, <1>4, <1>5, <1>6 DEF Joined

LEMMA ThrewJoined ==
  ASSUME OneEditor, Inv, AloneInv, JoinedInv, NEW e \in Editors, todo[e] # <<>>, Throw(e), UNCHANGED deleted,
         blurred => blurred',
         Call(e)[1] \notin Removing, Call(e)[1] # "unlink",
         Call(e)[1] = "updateObjectProperty" => Call(e)[3] \notin Specific
  PROVE  JoinedInv'
<1>1. todo \in [Editors -> Seq(CallSet)] /\ Ready(graph, todo[e])
  BY DEF Inv, Types, AloneInv
<1>2. todo'[e] = <<>> /\ graph' = graph /\ failures' = failures
  BY <1>1 DEF Throw
<1>3. ASSUME failures = 0, ~blurred' PROVE Joined(graph, deleted, <<>>)
  <2>1. Joined(graph, deleted, todo[e])
    BY <1>3 DEF JoinedInv
  <2> HIDE DEF CallSet
  <2> QED  BY <1>1, <2>1, NothingJoined DEF Call
<1> QED  BY <1>2, <1>3, GoneOn

LEMMA JoinedNow ==
  ASSUME Inv, JoinedInv, NEW e \in Editors, todo[e] # <<>>, failures = 0, ~blurred
  PROVE  /\ Joined(graph, deleted, todo[e]) /\ todo[e] \in Seq(CallSet) /\ Head(todo[e]) = Call(e)
         /\ Call(e) \in Pending(todo[e]) /\ Call(e) \in CallSet
         /\ Sound(graph, Leaving(todo[e]), Pairs(graph, todo[e]), Call(e))
<1>1. Joined(graph, deleted, todo[e]) /\ todo[e] \in Seq(CallSet)
  BY DEF JoinedInv, Inv, Types
<1>2. Head(todo[e]) = Call(e)
  BY DEF Call
<1> HIDE DEF CallSet
<1>3. Call(e) \in Pending(todo[e]) /\ Call(e) \in CallSet
  BY <1>1, <1>2, PendingParts, HeadTyped DEF Inv
<1> QED  BY <1>1, <1>2, <1>3 DEF Joined

LEMMA QuietWrote ==
  ASSUME OneEditor, Inv, JoinedInv, NEW e \in Editors, todo[e] # <<>>, NEW h, Write(e, h), UNCHANGED deleted,
         blurred => blurred',
         Call(e)[1] \notin {"insertObjectProperty", "link", "unlink", "dropClass"},
         \A p \in Specific : ~Deletes(Call(e), p) /\ ~Updates(Call(e), p) /\ ~Makes(Call(e), p),
         graph.classes \subseteq h.classes,
         ~blurred' => \A c \in h.classes \ graph.classes : \A force \in BOOLEAN : <<c, force>> \notin deleted,
         ~blurred' => \A c \in Classes : Association(graph, c) => Association(h, c),
         h.links \subseteq graph.links, \A l \in graph.links : l[1] \in Specific => l \in h.links,
         \A r \in h.ranges : r[2] \in Specific => r \in graph.ranges,
         failures = 0 /\ ~blurred' =>
           \A p \in Specific : /\ Relation(h, p) <=> Relation(graph, p)
                               /\ Attribute(h, p) <=> Attribute(graph, p)
                               /\ BlocksOf(h, p) = BlocksOf(graph, p) /\ RangesOf(h, p) = RangesOf(graph, p)
  PROVE  JoinedInv'
<1>1. ASSUME failures = 0, ~blurred' PROVE Joined(h, deleted, Tail(todo[e]))
  <2>1. Joined(graph, deleted, todo[e]) /\ todo[e] \in Seq(CallSet) /\ Head(todo[e]) = Call(e)
    BY <1>1, JoinedNow
  <2>2. h.ranges \subseteq graph.ranges \cup {r \in h.ranges : r[2] \notin Specific}
    OBVIOUS
  <2> HIDE DEF CallSet
  <2> QED  BY <1>1, <2>1, <2>2, QuietJoined
<1> QED  BY <1>1, WroteJoined

LEMMA QuietSkipped ==
  ASSUME OneEditor, Inv, JoinedInv, NEW e \in Editors, todo[e] # <<>>, Skip(e), UNCHANGED <<deleted, blurred>>,
         Call(e)[1] \in {"ensureNodeShape", "insertSubClassOf"}
  PROVE  JoinedInv'
<1>1. ASSUME failures = 0, ~blurred' PROVE Joined(graph, deleted', <<>> \o Tail(todo[e]))
  <2>1. Joined(graph, deleted, todo[e]) /\ todo[e] \in Seq(CallSet) /\ Head(todo[e]) = Call(e)
    BY <1>1, JoinedNow
  <2>2. Tail(todo[e]) \in Seq(CallSet)
    BY HeadTyped DEF Inv
  <2> HIDE DEF CallSet
  <2>3. <<>> \o Tail(todo[e]) = Tail(todo[e])
    BY <2>2
  <2>4. \A p \in Specific : ~Deletes(Call(e), p) /\ ~Updates(Call(e), p) /\ ~Makes(Call(e), p)
    BY DEF Deletes, Updates, Makes
  <2>5. graph.ranges \subseteq graph.ranges \cup {r \in graph.ranges : r[2] \notin Specific}
    OBVIOUS
  <2>6. Joined(graph, deleted, Tail(todo[e]))
    BY <2>1, <2>4, <2>5, QuietJoined
  <2> QED  BY <2>3, <2>6
<1> QED  BY <1>1, BecameJoined DEF Skip

\* A call that changes what is said of a generic property.
LEMMA GenericJoined ==
  ASSUME OneEditor, Inv, JoinedInv, NEW e \in Editors, todo[e] # <<>>, NEW h, Write(e, h), UNCHANGED <<deleted, blurred>>,
         Call(e)[1] \notin {"insertObjectProperty", "link", "unlink", "dropClass"},
         \A q \in Specific : ~Deletes(Call(e), q) /\ ~Updates(Call(e), q) /\ ~Makes(Call(e), q),
         NEW p \in Generic,
         h.classes = graph.classes, h.subOf = graph.subOf,
         h.links \subseteq graph.links, \A l \in graph.links : l[1] # p => l \in h.links,
         \A r : r[2] # p => (r \in h.ranges <=> r \in graph.ranges),
         \A b : b.path # p => (b \in h.blocks <=> b \in graph.blocks),
         \A x : x[1] # p => (x \in h.types <=> x \in graph.types)
  PROVE  JoinedInv'
<1>1. p \notin Specific
  BY Disjoint
<1>2. ASSUME NEW q \in Specific
      PROVE  /\ Relation(h, q) <=> Relation(graph, q)
             /\ Attribute(h, q) <=> Attribute(graph, q)
             /\ BlocksOf(h, q) = BlocksOf(graph, q) /\ RangesOf(h, q) = RangesOf(graph, q)
  <2>1. q # p
    BY <1>1
  <2>2. \A kind : <<q, kind>> \in h.types <=> <<q, kind>> \in graph.types
    BY <2>1
  <2>3. BlocksOf(h, q) = BlocksOf(graph, q)
    BY <2>1 DEF BlocksOf
  <2>4. RangesOf(h, q) = RangesOf(graph, q)
    BY <2>1 DEF RangesOf
  <2> QED  BY <2>2, <2>3, <2>4 DEF Relation, Attribute
<1>3. \A c \in Classes : Association(graph, c) => Association(h, c)
  BY DEF Association
<1>4. \A l \in graph.links : l[1] \in Specific => l \in h.links
  BY <1>1
<1>5. \A r \in h.ranges : r[2] \in Specific => r \in graph.ranges
  BY <1>1
<1>6. graph.classes \subseteq h.classes /\ \A c \in h.classes \ graph.classes : \A force \in BOOLEAN : <<c, force>> \notin deleted
  OBVIOUS
<1> QED  BY <1>2, <1>3, <1>4, <1>5, <1>6, QuietWrote

LEMMA InsertClassJoined ==
  ASSUME OneEditor, Inv, AloneInv, JoinedInv, NEW e \in Editors, todo[e] # <<>>, NEW c \in Classes,
         Call(e)[1] = "insertClass", InsertClass(e, c)
  PROVE  JoinedInv'
<1> DEFINE h == [graph EXCEPT !.classes = @ \cup {c}]
<1>1. /\ h.classes = graph.classes \cup {c} /\ h.types = graph.types /\ h.links = graph.links
      /\ h.subOf = graph.subOf /\ h.ranges = graph.ranges /\ h.blocks = graph.blocks
  BY DEF Inv, Types, Graphs
<1>2. /\ Throw(e) \/ Write(e, h)
      /\ UNCHANGED deleted /\ (blurred => blurred')
      /\ ~blurred' => \A force \in BOOLEAN : <<c, force>> \notin deleted
  BY DEF InsertClass
<1> HIDE DEF h
<1>3. \A p \in Specific : ~Deletes(Call(e), p) /\ ~Updates(Call(e), p) /\ ~Makes(Call(e), p)
  BY DEF Deletes, Updates, Makes
<1>4. CASE Throw(e)
  BY <1>2, <1>4, ThrewJoined DEF Removing
<1>5. CASE Write(e, h)
  <2>1. \A p \in Specific : /\ Relation(h, p) <=> Relation(graph, p)
                            /\ Attribute(h, p) <=> Attribute(graph, p)
                            /\ BlocksOf(h, p) = BlocksOf(graph, p) /\ RangesOf(h, p) = RangesOf(graph, p)
    BY <1>1 DEF Relation, Attribute, BlocksOf, RangesOf
  <2>2. \A d \in Classes : Association(graph, d) => Association(h, d)
    BY <1>1 DEF Association
  <2> QED  BY <1>1, <1>2, <1>3, <1>5, <2>1, <2>2, QuietWrote
<1> QED  BY <1>2, <1>4, <1>5

LEMMA SubClassOfJoined ==
  ASSUME OneEditor, Inv, JoinedInv, NEW e \in Editors, todo[e] # <<>>, NEW s \in Classes, NEW t \in Supers,
         \/ Call(e)[1] = "insertSubClassOf" /\ InsertSubClassOf(e, s, t)
         \/ Call(e)[1] = "deleteSubClassOf" /\ DeleteSubClassOf(e, s, t)
  PROVE  JoinedInv'
<1>1. \A p \in Specific : ~Deletes(Call(e), p) /\ ~Updates(Call(e), p) /\ ~Makes(Call(e), p)
  BY DEF Deletes, Updates, Makes
<1>2. ASSUME NEW R, Write(e, [graph EXCEPT !.subOf = R]), UNCHANGED deleted, blurred => blurred',
             ~blurred' => \A c \in Classes : <<c, Marker>> \in graph.subOf => <<c, Marker>> \in R
      PROVE  JoinedInv'
  <2> DEFINE h == [graph EXCEPT !.subOf = R]
  <2>1. /\ h.classes = graph.classes /\ h.types = graph.types /\ h.links = graph.links
        /\ h.subOf = R /\ h.ranges = graph.ranges /\ h.blocks = graph.blocks
    BY DEF Inv, Types, Graphs
  <2>2. Write(e, h)
    BY <1>2
  <2> HIDE DEF h
  <2>3. \A p \in Specific : /\ Relation(h, p) <=> Relation(graph, p)
                            /\ Attribute(h, p) <=> Attribute(graph, p)
                            /\ BlocksOf(h, p) = BlocksOf(graph, p) /\ RangesOf(h, p) = RangesOf(graph, p)
    BY <2>1 DEF Relation, Attribute, BlocksOf, RangesOf
  <2>4. ~blurred' => \A d \in Classes : Association(graph, d) => Association(h, d)
    BY <1>2, <2>1 DEF Association
  <2> QED  BY <1>1, <1>2, <2>1, <2>2, <2>3, <2>4, QuietWrote
<1>3. CASE Call(e)[1] = "insertSubClassOf" /\ InsertSubClassOf(e, s, t)
  <2>1. /\ Skip(e) \/ Write(e, [graph EXCEPT !.subOf = graph.subOf \cup {<<s, t>>}])
        /\ UNCHANGED <<deleted, blurred>>
    BY <1>3 DEF InsertSubClassOf
  <2> QED  BY <1>2, <1>3, <2>1, QuietSkipped
<1>4. CASE Call(e)[1] = "deleteSubClassOf" /\ DeleteSubClassOf(e, s, t)
  <2>1. /\ Write(e, [graph EXCEPT !.subOf = graph.subOf \ {<<s, t>>}])
        /\ UNCHANGED deleted /\ (blurred => blurred') /\ (~blurred' => t # Marker)
    BY <1>4 DEF DeleteSubClassOf
  <2>2. ~blurred' => \A c \in Classes : <<c, Marker>> \in graph.subOf => <<c, Marker>> \in graph.subOf \ {<<s, t>>}
    BY <2>1
  <2> QED  BY <1>2, <2>1, <2>2
<1> QED  BY <1>3, <1>4

LEMMA EnsureNodeShapeJoined ==
  ASSUME OneEditor, Inv, JoinedInv, NEW e \in Editors, todo[e] # <<>>, NEW c \in Classes,
         Call(e)[1] = "ensureNodeShape", EnsureNodeShape(e, c)
  PROVE  JoinedInv'
<1> DEFINE h == [graph EXCEPT !.shapes = @ \cup {c}]
<1>1. /\ h.classes = graph.classes /\ h.types = graph.types /\ h.links = graph.links
      /\ h.subOf = graph.subOf /\ h.ranges = graph.ranges /\ h.blocks = graph.blocks
  BY DEF Inv, Types, Graphs
<1>2. (Skip(e) \/ Write(e, h)) /\ UNCHANGED <<deleted, blurred>>
  BY DEF EnsureNodeShape
<1> HIDE DEF h
<1>3. \A p \in Specific : ~Deletes(Call(e), p) /\ ~Updates(Call(e), p) /\ ~Makes(Call(e), p)
  BY DEF Deletes, Updates, Makes
<1>4. \A p \in Specific : /\ Relation(h, p) <=> Relation(graph, p)
                          /\ Attribute(h, p) <=> Attribute(graph, p)
                          /\ BlocksOf(h, p) = BlocksOf(graph, p) /\ RangesOf(h, p) = RangesOf(graph, p)
  BY <1>1 DEF Relation, Attribute, BlocksOf, RangesOf
<1>5. \A d \in Classes : Association(graph, d) => Association(h, d)
  BY <1>1 DEF Association
<1> QED  BY <1>1, <1>2, <1>3, <1>4, <1>5, QuietWrote, QuietSkipped

LEMMA RetargetedBlock ==
  ASSUME Inv, NEW c, NEW p, NEW b \in Blocks(c, p), NEW t
  PROVE  /\ b.of = c /\ b.path = p /\ b \in graph.blocks
         /\ [b EXCEPT !.class = t].of = c /\ [b EXCEPT !.class = t].path = p
         /\ [b EXCEPT !.class = t].class = t /\ [b EXCEPT !.class = t].datatype = b.datatype
<1>1. b \in BlockType /\ b \in graph.blocks /\ b.of = c /\ b.path = p
  BY DEF Blocks, Inv, Types, Graphs, BlockType
<1> QED  BY <1>1 DEF BlockType

LEMMA NewBlock ==
  ASSUME NEW c, NEW p, NEW t, NEW n
  PROVE  /\ Block(c, p, t, n).of = c /\ Block(c, p, t, n).path = p
         /\ Block(c, p, t, n).class = t /\ ~Block(c, p, t, n).datatype
  BY DEF Block

\* The blocks of one property written over.
LEMMA OtherBlocks ==
  ASSUME NEW c, NEW p, NEW fresh, \A b \in fresh : b.path = p
  PROVE  \A b : b.path # p => (b \in (graph.blocks \ Blocks(c, p)) \cup fresh <=> b \in graph.blocks)
  BY DEF Blocks

LEMMA RewrittenJoined ==
  ASSUME OneEditor, Inv, JoinedInv, NEW e \in Editors, todo[e] # <<>>, UNCHANGED <<deleted, blurred>>,
         Call(e)[1] \notin {"insertObjectProperty", "link", "unlink", "dropClass"},
         \A q \in Specific : ~Deletes(Call(e), q) /\ ~Updates(Call(e), q) /\ ~Makes(Call(e), q),
         NEW p \in Generic, NEW c, NEW targets, NEW n, Write(e, Rewritten(c, p, targets, n))
  PROVE  JoinedInv'
<1> DEFINE fresh == {Block(c, p, t, n) : t \in targets}
<1>1. \A b \in fresh : b.path = p
  BY NewBlock
<1>2. PICK h : h = Rewritten(c, p, targets, n)
  OBVIOUS
<1>3. /\ h.classes = graph.classes /\ h.subOf = graph.subOf /\ h.links = graph.links /\ h.ranges = graph.ranges
      /\ h.types = graph.types /\ h.blocks = (graph.blocks \ Blocks(c, p)) \cup fresh
  BY <1>2 DEF Rewritten, Inv, Types, Graphs
<1> HIDE DEF fresh
<1>4. \A b : b.path # p => (b \in h.blocks <=> b \in graph.blocks)
  BY <1>1, <1>3, OtherBlocks
<1>5. Write(e, h)
  BY <1>2
<1> QED  BY <1>3, <1>4, <1>5, GenericJoined

LEMMA ShareRelationJoined ==
  ASSUME OneEditor, Inv, AloneInv, JoinedInv, NEW e \in Editors, todo[e] # <<>>,
         NEW c \in Classes, NEW t \in Classes, NEW n \in Names,
         Call(e)[1] = "shareRelation", ShareRelation(e, c, t, n)
  PROVE  JoinedInv'
<1> DEFINE fresh == <<HomeOf[c], n>>
<1>1. UNCHANGED <<deleted, blurred>>
  BY DEF ShareRelation
<1>2. /\ \A q \in Specific : ~Deletes(Call(e), q) /\ ~Updates(Call(e), q) /\ ~Makes(Call(e), q)
      /\ Call(e)[1] \notin {"insertObjectProperty", "link", "unlink", "dropClass"}
  BY DEF Deletes, Updates, Makes
<1>3. CASE Throw(e)
  BY <1>1, <1>3, ThrewJoined DEF Removing
<1>4. ASSUME NEW p \in Generic, NEW types, \A x : x[1] # p => (x \in types <=> x \in graph.types), NEW labels,
             Write(e, [graph EXCEPT !.types = types, !.labels = labels, !.blocks = @ \cup {Block(c, p, t, n)}])
      PROVE  JoinedInv'
  <2> DEFINE h == [graph EXCEPT !.types = types, !.labels = labels, !.blocks = @ \cup {Block(c, p, t, n)}]
  <2>1. /\ h.classes = graph.classes /\ h.subOf = graph.subOf /\ h.links = graph.links /\ h.ranges = graph.ranges
        /\ h.types = types /\ h.blocks = graph.blocks \cup {Block(c, p, t, n)}
    BY DEF Inv, Types, Graphs
  <2>2. Write(e, h)
    BY <1>4
  <2> HIDE DEF h
  <2>3. \A b : b.path # p => (b \in h.blocks <=> b \in graph.blocks)
    BY <2>1, NewBlock
  <2> QED  BY <1>1, <1>2, <1>4, <2>1, <2>2, <2>3, GenericJoined
<1>5. ASSUME Write(e, [graph EXCEPT !.types = @ \cup {<<fresh, "relation">>},
                                    !.labels = @ \cup {<<HomeOf[c], fresh, n>>},
                                    !.blocks = @ \cup {Block(c, fresh, t, n)}])
      PROVE  JoinedInv'
  <2>1. fresh \in Generic
    BY SchemaEditsAssumption DEF Generic
  <2>2. \A x : x[1] # fresh => (x \in graph.types \cup {<<fresh, "relation">>} <=> x \in graph.types)
    OBVIOUS
  <2> HIDE DEF fresh
  <2> QED  BY <1>4, <1>5, <2>1, <2>2
<1>6. ASSUME NEW p \in FoundAs(n),
             \/ Write(e, [graph EXCEPT !.blocks = @ \cup {Block(c, p, t, n)}])
             \/ Write(e, Rewritten(c, p, Targets(c, p) \cup {t}, n))
      PROVE  JoinedInv'
  <2>1. p \in Generic
    BY DEF FoundAs
  <2>2. CASE Write(e, Rewritten(c, p, Targets(c, p) \cup {t}, n))
    BY <1>1, <1>2, <2>1, <2>2, RewrittenJoined
  <2>3. CASE Write(e, [graph EXCEPT !.blocks = @ \cup {Block(c, p, t, n)}])
    <3>1. [graph EXCEPT !.blocks = @ \cup {Block(c, p, t, n)}]
            = [graph EXCEPT !.types = graph.types, !.labels = graph.labels, !.blocks = @ \cup {Block(c, p, t, n)}]
      BY DEF Inv, Types, Graphs
    <3> QED  BY <1>4, <2>1, <2>3, <3>1
  <2> QED  BY <1>6, <2>2, <2>3
<1>7. \/ Throw(e)
      \/ Write(e, [graph EXCEPT !.types = @ \cup {<<fresh, "relation">>},
                                !.labels = @ \cup {<<HomeOf[c], fresh, n>>},
                                !.blocks = @ \cup {Block(c, fresh, t, n)}])
      \/ \E p \in FoundAs(n) : \/ Write(e, [graph EXCEPT !.blocks = @ \cup {Block(c, p, t, n)}])
                               \/ Write(e, Rewritten(c, p, Targets(c, p) \cup {t}, n))
  <2>1. \/ IF Exists(fresh) THEN Throw(e)
           ELSE Write(e, [graph EXCEPT !.types = @ \cup {<<fresh, "relation">>},
                                       !.labels = @ \cup {<<HomeOf[c], fresh, n>>},
                                       !.blocks = @ \cup {Block(c, fresh, t, n)}])
        \/ \E p \in FoundAs(n) :
             CASE t \in Targets(c, p) -> Throw(e)
               [] Targets(c, p) = {} -> Write(e, [graph EXCEPT !.blocks = @ \cup {Block(c, p, t, n)}])
               [] OTHER -> Write(e, Rewritten(c, p, Targets(c, p) \cup {t}, n))
    BY DEF ShareRelation
  <2> QED  BY <2>1
<1> QED  BY <1>3, <1>5, <1>6, <1>7

LEMMA UpdateGenericJoined ==
  ASSUME OneEditor, Inv, AloneInv, JoinedInv, NEW e \in Editors, todo[e] # <<>>,
         NEW c \in Classes, NEW p \in Generic, NEW old, NEW t \in Classes, NEW n, NEW kind,
         Call(e)[1] = "updateObjectProperty", Call(e)[3] = p, UpdateObjectProperty(e, c, p, old, t, n, kind)
  PROVE  JoinedInv'
<1>1. p \notin Specific
  BY Disjoint
<1>2. /\ \A q \in Specific : ~Deletes(Call(e), q) /\ ~Updates(Call(e), q) /\ ~Makes(Call(e), q)
      /\ Call(e)[1] \notin {"insertObjectProperty", "link", "unlink", "dropClass"}
  BY <1>1 DEF Deletes, Updates, Makes
<1>3. UNCHANGED <<deleted, blurred>>
  BY DEF UpdateObjectProperty
<1> DEFINE fresh == {[b EXCEPT !.class = t] : b \in Blocks(c, p)}
<1>4. \A b \in fresh : b.path = p
  <2> SUFFICES ASSUME NEW o \in Blocks(c, p) PROVE [o EXCEPT !.class = t].path = p
    OBVIOUS
  <2> QED  BY RetargetedBlock
<1>5. ASSUME NEW h, Write(e, h),
             h.classes = graph.classes, h.subOf = graph.subOf, h.links = graph.links, h.types = graph.types,
             \A r : r[2] # p => (r \in h.ranges <=> r \in graph.ranges),
             h.blocks = (graph.blocks \ Blocks(c, p)) \cup fresh
      PROVE  JoinedInv'
  <2> HIDE DEF fresh
  <2>1. \A b : b.path # p => (b \in h.blocks <=> b \in graph.blocks)
    BY <1>4, <1>5, OtherBlocks
  <2> QED  BY <1>2, <1>3, <1>5, <2>1, GenericJoined
<1>6. CASE Throw(e)
  BY <1>1, <1>3, <1>6, ThrewJoined DEF Removing
<1>7. ASSUME NEW targets, Write(e, Rewritten(c, p, targets, n)) PROVE JoinedInv'
  BY <1>2, <1>3, <1>7, RewrittenJoined
<1>8. ASSUME Write(e, [Rewritten(c, p, {}, n) EXCEPT !.blocks = @ \cup fresh]) PROVE JoinedInv'
  <2> HIDE DEF fresh
  <2>1. PICK h : h = [Rewritten(c, p, {}, n) EXCEPT !.blocks = @ \cup fresh]
    OBVIOUS
  <2>2. /\ h.classes = graph.classes /\ h.subOf = graph.subOf /\ h.links = graph.links /\ h.types = graph.types
        /\ h.ranges = graph.ranges /\ h.blocks = (graph.blocks \ Blocks(c, p)) \cup fresh
    BY <2>1 DEF Rewritten, Inv, Types, Graphs
  <2> QED  BY <1>5, <1>8, <2>1, <2>2
<1>9. ASSUME Write(e, [graph EXCEPT !.ranges = Retarget(@, HomeOf[c], p, t), !.blocks = (@ \ Blocks(c, p)) \cup fresh])
      PROVE  JoinedInv'
  <2> HIDE DEF fresh
  <2>1. PICK h : h = [graph EXCEPT !.ranges = Retarget(@, HomeOf[c], p, t), !.blocks = (@ \ Blocks(c, p)) \cup fresh]
    OBVIOUS
  <2>2. /\ h.classes = graph.classes /\ h.subOf = graph.subOf /\ h.links = graph.links /\ h.types = graph.types
        /\ h.ranges = Retarget(graph.ranges, HomeOf[c], p, t) /\ h.blocks = (graph.blocks \ Blocks(c, p)) \cup fresh
    BY <2>1 DEF Inv, Types, Graphs
  <2>3. \A r : r[2] # p => (r \in h.ranges <=> r \in graph.ranges)
    BY <2>2 DEF Retarget
  <2> QED  BY <1>5, <1>9, <2>1, <2>2, <2>3
<1> DEFINE targets == IF old \in Targets(c, p) THEN (Targets(c, p) \ {old}) \cup {t} ELSE Targets(c, p)
<1>10. \/ Throw(e) \/ Write(e, Rewritten(c, p, targets, n))
       \/ Write(e, [Rewritten(c, p, {}, n) EXCEPT !.blocks = @ \cup fresh])
       \/ Write(e, [graph EXCEPT !.ranges = Retarget(@, HomeOf[c], p, t), !.blocks = (@ \ Blocks(c, p)) \cup fresh])
  BY DEF UpdateObjectProperty
<1> HIDE DEF fresh, targets
<1> QED  BY <1>6, <1>7, <1>8, <1>9, <1>10

\* A call that writes about one specific property.
LEMMA TouchedJoined ==
  ASSUME NEW g, NEW h, NEW gone, NEW q \in Seq(CallSet), q # <<>>, Joined(g, gone, q),
         Head(q)[1] \notin {"insertObjectProperty", "link", "unlink", "dropClass"}, NEW p \in Specific,
         h.classes = g.classes, h.subOf = g.subOf,
         \A l : l \in h.links <=> (l \in g.links /\ ~(Deletes(Head(q), p) /\ l[1] = p)),
         \A r : r[2] # p => (r \in h.ranges <=> r \in g.ranges),
         \A b : b.path # p => (b \in h.blocks <=> b \in g.blocks),
         \A x : x[1] # p => (x \in h.types <=> x \in g.types),
         \A s : s # p => ~Deletes(Head(q), s) /\ (s \in Specific => ~Updates(Head(q), s) /\ ~Makes(Head(q), s)),
         Agrees(h, p), \A r \in h.ranges : r[2] = p => r[1] = Graph(p), ~(Relation(h, p) /\ Attribute(h, p)),
         Does(g, h, Pairs(g, q), Head(q), p)
  PROVE  Joined(h, gone, Tail(q))
<1> DEFINE t == Tail(q)
           x == Head(q)
           J == Pairs(g, q)
           K == Pairs(h, t)
<1>1. x \in Pending(q) /\ Pending(q) = {x} \cup Pending(t) /\ x[1] # "unlink"
  BY PendingParts
<1>2. ASSUME NEW s \in Specific, s # p
      PROVE  /\ Relation(h, s) <=> Relation(g, s)
             /\ Attribute(h, s) <=> Attribute(g, s)
             /\ BlocksOf(h, s) = BlocksOf(g, s) /\ RangesOf(h, s) = RangesOf(g, s)
             /\ ~Deletes(x, s) /\ ~Updates(x, s) /\ ~Makes(x, s)
  <2>1. \A kind : <<s, kind>> \in h.types <=> <<s, kind>> \in g.types
    BY <1>2
  <2>2. BlocksOf(h, s) = BlocksOf(g, s)
    BY <1>2 DEF BlocksOf
  <2>3. RangesOf(h, s) = RangesOf(g, s)
    BY <1>2 DEF RangesOf
  <2> QED  BY <1>2, <2>1, <2>2, <2>3 DEF Relation, Attribute
<1>3. \A s \in Specific : Agrees(h, s)
  <2> SUFFICES ASSUME NEW s \in Specific, s # p PROVE Agrees(h, s)
    OBVIOUS
  <2>1. Agrees(g, s)
    BY DEF Joined
  <2> QED  BY <1>2, <2>1, AgreesSame
<1>4. Placed(h)
  <2>1. \A r \in h.ranges : r[2] \in Specific => r[1] = Graph(r[2])
    BY DEF Joined, Placed
  <2>2. \A s \in Specific : ~(Relation(h, s) /\ Attribute(h, s))
    BY <1>2 DEF Joined, Placed
  <2> QED  BY <2>1, <2>2 DEF Placed
<1>5. ASSUME NEW s \in Props, NEW r \in Props PROVE <<s, r>> \in K <=> (<<s, r>> \in J /\ ~Deletes(x, s))
  <2>1. <<s, r>> \in J <=>
          /\ <<s, "inverseOf", r>> \in g.links
          /\ \A y \in Pending(q) : y[1] = "unlink" => ~(s = y[2] /\ r = y[4]) /\ ~(s = y[4] /\ r = y[2])
    BY PairIs
  <2>2. <<s, r>> \in K <=>
          /\ <<s, "inverseOf", r>> \in h.links
          /\ \A y \in Pending(t) : y[1] = "unlink" => ~(s = y[2] /\ r = y[4]) /\ ~(s = y[4] /\ r = y[2])
    BY PairIs
  <2>3. <<s, "inverseOf", r>> \in h.links <=> (<<s, "inverseOf", r>> \in g.links /\ ~Deletes(x, s))
    <3>1. s # p => ~Deletes(x, s)
      OBVIOUS
    <3> QED  BY <3>1
  <2> HIDE DEF J, K, x, t
  <2> QED  BY <1>1, <2>1, <2>2, <2>3
<1>6. ASSUME NEW s \in Specific, s # p PROVE Does(g, h, J, x, s)
  <2>1. \A z \in h.ranges : z[2] = s => z \in g.ranges
    BY <1>6
  <2>2. Declares(h, s) => Declares(g, s)
    BY <1>2, <1>6 DEF Declares, Relation, Attribute
  <2> HIDE DEF J, x
  <2> QED  BY <1>2, <1>6, <2>1, <2>2 DEF Does
<1>7. Passes(g, h, gone, J, K, x)
  <2>1. \A s \in Specific : Does(g, h, J, x, s)
    BY <1>6
  <2>2. \A c \in Classes : Association(g, c) => Association(h, c)
    BY DEF Association
  <2> HIDE DEF J, K, x
  <2> QED  BY <1>5, <2>1, <2>2 DEF Passes
<1> QED  BY <1>3, <1>4, <1>7, JoinedGoesOn

\* Once a request has failed or a property is blurred nothing is promised.
LEMMA Spoiled ==
  ASSUME JoinedInv, failures' = failures \/ failures' = failures + 1, blurred => blurred', failures # 0 \/ blurred'
  PROVE  JoinedInv'
<1>1. failures \in Nat /\ failures' \in Nat
  BY DEF JoinedInv
<1>2. failures' # 0 \/ blurred'
  BY <1>1
<1> QED  BY <1>1, <1>2 DEF JoinedInv

LEMMA TouchedWrote ==
  ASSUME OneEditor, Inv, JoinedInv, NEW e \in Editors, todo[e] # <<>>, NEW h, Write(e, h), UNCHANGED deleted,
         blurred => blurred',
         Call(e)[1] \notin {"insertObjectProperty", "link", "unlink", "dropClass"}, NEW p \in Specific,
         h.classes = graph.classes, h.subOf = graph.subOf,
         \A r : r[2] # p => (r \in h.ranges <=> r \in graph.ranges),
         \A b : b.path # p => (b \in h.blocks <=> b \in graph.blocks),
         \A x : x[1] # p => (x \in h.types <=> x \in graph.types),
         \A s : s # p => ~Deletes(Call(e), s) /\ (s \in Specific => ~Updates(Call(e), s) /\ ~Makes(Call(e), s)),
         Joined(graph, deleted, todo[e]) /\ Sound(graph, Leaving(todo[e]), Pairs(graph, todo[e]), Call(e)) /\ ~blurred' =>
           /\ \A l : l \in h.links <=> (l \in graph.links /\ ~(Deletes(Call(e), p) /\ l[1] = p))
           /\ Agrees(h, p) /\ (\A r \in h.ranges : r[2] = p => r[1] = Graph(p)) /\ ~(Relation(h, p) /\ Attribute(h, p))
           /\ Does(graph, h, Pairs(graph, todo[e]), Call(e), p)
  PROVE  JoinedInv'
<1>1. ASSUME failures = 0, ~blurred' PROVE Joined(h, deleted, Tail(todo[e]))
  <2>1. /\ Joined(graph, deleted, todo[e]) /\ todo[e] \in Seq(CallSet) /\ Head(todo[e]) = Call(e)
        /\ Sound(graph, Leaving(todo[e]), Pairs(graph, todo[e]), Call(e))
    BY <1>1, JoinedNow
  <2>2. /\ \A l : l \in h.links <=> (l \in graph.links /\ ~(Deletes(Call(e), p) /\ l[1] = p))
        /\ Agrees(h, p) /\ (\A r \in h.ranges : r[2] = p => r[1] = Graph(p)) /\ ~(Relation(h, p) /\ Attribute(h, p))
        /\ Does(graph, h, Pairs(graph, todo[e]), Call(e), p)
    BY <1>1, <2>1
  <2> HIDE DEF CallSet
  <2> QED  BY <2>1, <2>2, TouchedJoined
<1> QED  BY <1>1, WroteJoined

LEMMA HomeIs == ASSUME NEW p \in Specific PROVE Graph(p) = HomeOf[p[1]] /\ p[1] \in Classes /\ p = <<p[1], p[2]>>
  BY Disjoint DEF Graph, Specific

LEMMA DeclareAttributeJoined ==
  ASSUME OneEditor, Inv, JoinedInv, NEW e \in Editors, todo[e] # <<>>, NEW c \in Classes, NEW n \in Names,
         Call(e)[1] = "declareAttribute", Call(e)[2] = c, Call(e)[3] = n, DeclareAttribute(e, c, n)
  PROVE  JoinedInv'
<1> DEFINE p == <<c, n>>
           block == [Block(c, p, None, n) EXCEPT !.datatype = TRUE]
           range == <<HomeOf[c], p, String>>
           h == [graph EXCEPT !.types = @ \cup {<<p, "attribute">>}, !.ranges = @ \cup {range}, !.blocks = @ \cup {block}]
<1>1. block.of = c /\ block.path = p /\ block.class = None /\ block.datatype
  BY DEF Block
<1>2. /\ Write(e, h) /\ UNCHANGED deleted
      /\ blurred' = \/ blurred \/ \E r \in graph.ranges : r[2] = p
                    \/ \E q \in Props : p \in Inverses(q)
  BY DEF DeclareAttribute
<1> HIDE DEF block
<1>3. /\ h.classes = graph.classes /\ h.subOf = graph.subOf /\ h.links = graph.links
      /\ h.types = graph.types \cup {<<p, "attribute">>}
      /\ h.ranges = graph.ranges \cup {range} /\ h.blocks = graph.blocks \cup {block}
  BY DEF Inv, Types, Graphs
<1> HIDE DEF h
<1>4. p \in Specific /\ p[1] = c /\ Graph(p) = HomeOf[c] /\ p \in Props
  BY HomeIs, Disjoint DEF Specific
<1>5. range[1] = Graph(p) /\ range[2] = p /\ range[3] = String
  BY <1>4
<1>6. \A s : ~Deletes(Call(e), s) /\ ~Updates(Call(e), s) /\ ~Makes(Call(e), s)
  BY DEF Deletes, Updates, Makes
<1> HIDE DEF p, range
<1>7. ASSUME Joined(graph, deleted, todo[e]), Sound(graph, Leaving(todo[e]), Pairs(graph, todo[e]), Call(e)), ~blurred'
      PROVE  /\ Agrees(h, p) /\ (\A r \in h.ranges : r[2] = p => r[1] = Graph(p)) /\ ~(Relation(h, p) /\ Attribute(h, p))
             /\ Does(graph, h, Pairs(graph, todo[e]), Call(e), p)
  <2>1. ~Declares(graph, p)
    BY <1>7 DEF Sound, p
  <2>2. BlocksOf(graph, p) = {}
    BY <1>4, <1>7, <2>1 DEF Joined, Agrees
  <2>3. BlocksOf(h, p) = {block}
    BY <1>1, <1>3, <2>2 DEF BlocksOf
  <2>4. RangesOf(h, p) = {range}
    BY <1>2, <1>3, <1>5, <1>7 DEF RangesOf
  <2>5. Attribute(h, p) /\ ~Relation(h, p) /\ ~Relation(graph, p)
    BY <1>3, <2>1 DEF Attribute, Relation, Declares
  <2>6. Declares(h, p)
    BY <2>5 DEF Attribute, Declares
  <2>7. Agrees(h, p)
    BY <1>1, <1>4, <1>5, <2>3, <2>4, <2>5, <2>6 DEF Agrees
  <2>8. \A r \in h.ranges : r[2] = p => r[1] = Graph(p)
    BY <1>5, <2>4 DEF RangesOf
  <2>9. \A s \in Props : <<s, p>> \notin Pairs(graph, todo[e])
    <3> SUFFICES ASSUME NEW s \in Props, <<s, p>> \in Pairs(graph, todo[e]) PROVE FALSE
      OBVIOUS
    <3>1. <<s, "inverseOf", p>> \in graph.links
      BY <1>4, PairIs
    <3> QED  BY <1>2, <1>4, <1>7, <3>1 DEF Inverses
  <2>10. Does(graph, h, Pairs(graph, todo[e]), Call(e), p)
    BY <1>6, <2>5, <2>9 DEF Does
  <2> QED  BY <2>5, <2>7, <2>8, <2>10
<1>8. /\ \A l : l \in h.links <=> (l \in graph.links /\ ~(Deletes(Call(e), p) /\ l[1] = p))
      /\ \A r : r[2] # p => (r \in h.ranges <=> r \in graph.ranges)
      /\ \A b : b.path # p => (b \in h.blocks <=> b \in graph.blocks)
      /\ \A x : x[1] # p => (x \in h.types <=> x \in graph.types)
  BY <1>1, <1>3, <1>5, <1>6
<1> QED  BY <1>2, <1>3, <1>4, <1>6, <1>7, <1>8, TouchedWrote

LEMMA DeclareRelationJoined ==
  ASSUME OneEditor, Inv, JoinedInv, NEW e \in Editors, todo[e] # <<>>, NEW c \in Classes, NEW t \in Classes, NEW n \in Names,
         Call(e)[1] = "declareRelation", Call(e)[2] = c, Call(e)[3] = t, Call(e)[4] = n, DeclareRelation(e, c, t, n)
  PROVE  JoinedInv'
<1> DEFINE p == <<c, n>>
           block == Block(c, p, t, n)
           range == <<HomeOf[c], p, t>>
           h == [graph EXCEPT !.types = @ \cup {<<p, "relation">>}, !.ranges = Retarget(@, HomeOf[c], p, t),
                              !.blocks = (@ \ Blocks(c, p)) \cup {block}]
<1>1. block.of = c /\ block.path = p /\ block.class = t /\ ~block.datatype
  BY NewBlock
<1>2. Write(e, h) /\ UNCHANGED deleted /\ blurred' = (blurred \/ Exists(p))
  BY DEF DeclareRelation
<1> HIDE DEF block
<1>3. /\ h.classes = graph.classes /\ h.subOf = graph.subOf /\ h.links = graph.links
      /\ h.types = graph.types \cup {<<p, "relation">>}
      /\ h.ranges = {r \in graph.ranges : ~(r[1] = HomeOf[c] /\ r[2] = p)} \cup {range}
      /\ h.blocks = (graph.blocks \ Blocks(c, p)) \cup {block}
  BY DEF Inv, Types, Graphs, Retarget
<1> HIDE DEF h
<1>4. p \in Specific /\ p[1] = c /\ p[2] = n /\ Graph(p) = HomeOf[c] /\ p \in Props
  BY HomeIs, Disjoint DEF Specific
<1>5. range[1] = Graph(p) /\ range[2] = p /\ range[3] = t
  BY <1>4
<1>6. /\ \A s : ~Deletes(Call(e), s) /\ ~Updates(Call(e), s)
      /\ \A s \in Specific : Makes(Call(e), s) <=> s = p
  <2>1. \A s \in Specific : s = p <=> s[1] = c /\ s[2] = n
    BY <1>4, HomeIs
  <2> QED  BY <2>1 DEF Deletes, Updates, Makes
<1> HIDE DEF p, range
<1>7. ASSUME Joined(graph, deleted, todo[e]), ~blurred'
      PROVE  /\ Agrees(h, p) /\ (\A r \in h.ranges : r[2] = p => r[1] = Graph(p)) /\ ~(Relation(h, p) /\ Attribute(h, p))
             /\ Does(graph, h, Pairs(graph, todo[e]), Call(e), p)
  <2>1. ~Declares(graph, p)
    BY <1>2, <1>7 DEF Declares, Exists
  <2>2. BlocksOf(graph, p) = {}
    BY <1>4, <1>7, <2>1 DEF Joined, Agrees
  <2>3. BlocksOf(h, p) = {block}
    BY <1>1, <1>3, <2>2 DEF BlocksOf
  <2>4. RangesOf(h, p) = {range}
    BY <1>3, <1>4, <1>5, <1>7 DEF RangesOf, Joined, Placed
  <2>5. Relation(h, p) /\ ~Attribute(h, p) /\ ~Relation(graph, p)
    BY <1>3, <2>1 DEF Attribute, Relation, Declares
  <2>6. Declares(h, p)
    BY <2>5 DEF Relation, Declares
  <2>7. Agrees(h, p)
    BY <1>1, <1>4, <1>5, <2>3, <2>4, <2>5, <2>6 DEF Agrees
  <2>8. \A r \in h.ranges : r[2] = p => r[1] = Graph(p) /\ r[3] = t
    BY <1>5, <2>4 DEF RangesOf
  <2>9. Does(graph, h, Pairs(graph, todo[e]), Call(e), p)
    BY <1>4, <1>6, <2>1, <2>5, <2>8 DEF Does
  <2> QED  BY <2>5, <2>7, <2>8, <2>9
<1>8. /\ \A l : l \in h.links <=> (l \in graph.links /\ ~(Deletes(Call(e), p) /\ l[1] = p))
      /\ \A r : r[2] # p => (r \in h.ranges <=> r \in graph.ranges)
      /\ \A b : b.path # p => (b \in h.blocks <=> b \in graph.blocks)
      /\ \A x : x[1] # p => (x \in h.types <=> x \in graph.types)
  BY <1>1, <1>3, <1>5, <1>6 DEF Blocks
<1> QED  BY <1>2, <1>3, <1>4, <1>6, <1>7, <1>8, TouchedWrote

LEMMA UpdateDatatypePropertyJoined ==
  ASSUME OneEditor, Inv, JoinedInv, NEW e \in Editors, todo[e] # <<>>, NEW p \in Specific,
         Call(e)[1] = "updateDatatypeProperty", Call(e)[2] = p, UpdateDatatypeProperty(e, p)
  PROVE  JoinedInv'
<1> DEFINE c == p[1]
           new == {[b EXCEPT !.datatype = TRUE] : b \in Blocks(c, p)}
           range == <<HomeOf[c], p, String>>
           h == [graph EXCEPT !.ranges = Retarget(@, HomeOf[c], p, String), !.blocks = (@ \ Blocks(c, p)) \cup new]
<1>1. \A b \in Blocks(c, p) : /\ b.path = p /\ [b EXCEPT !.datatype = TRUE].path = p
                              /\ b.datatype => [b EXCEPT !.datatype = TRUE] = b
  <2> SUFFICES ASSUME NEW b \in Blocks(c, p)
               PROVE  /\ b.path = p /\ [b EXCEPT !.datatype = TRUE].path = p
                      /\ b.datatype => [b EXCEPT !.datatype = TRUE] = b
    OBVIOUS
  <2>1. b \in BlockType /\ b.path = p
    BY DEF Blocks, Inv, Types, Graphs, BlockType
  <2> QED  BY <2>1 DEF BlockType
<1>2. Write(e, h) /\ UNCHANGED <<deleted, blurred>>
  BY DEF UpdateDatatypeProperty
<1>n. \A b \in new : b.path = p
  BY <1>1
<1> HIDE DEF new
<1>3. /\ h.classes = graph.classes /\ h.subOf = graph.subOf /\ h.links = graph.links /\ h.types = graph.types
      /\ h.ranges = {r \in graph.ranges : ~(r[1] = HomeOf[c] /\ r[2] = p)} \cup {range}
      /\ h.blocks = (graph.blocks \ Blocks(c, p)) \cup new
  BY DEF Inv, Types, Graphs, Retarget
<1> HIDE DEF h
<1>4. Graph(p) = HomeOf[c] /\ p \in Props
  BY HomeIs, Disjoint
<1>5. range[1] = Graph(p) /\ range[2] = p /\ range[3] = String
  BY <1>4
<1>6. \A s : ~Deletes(Call(e), s) /\ ~Updates(Call(e), s) /\ ~Makes(Call(e), s)
  BY DEF Deletes, Updates, Makes
<1> HIDE DEF range
<1>7. ASSUME Joined(graph, deleted, todo[e]), Sound(graph, Leaving(todo[e]), Pairs(graph, todo[e]), Call(e))
      PROVE  /\ Agrees(h, p) /\ (\A r \in h.ranges : r[2] = p => r[1] = Graph(p)) /\ ~(Relation(h, p) /\ Attribute(h, p))
             /\ Does(graph, h, Pairs(graph, todo[e]), Call(e), p)
  <2>1. Attribute(graph, p) /\ Declares(graph, p) /\ ~Relation(graph, p)
    BY <1>7 DEF Sound, Attribute, Declares, Joined, Placed
  <2>2. PICK b \in BlocksOf(graph, p) : BlocksOf(graph, p) = {b} /\ b.of = c /\ b.datatype /\ b.class = None
    BY <1>7, <2>1 DEF Joined, Agrees
  <2>3. Blocks(c, p) = {b}
    BY <2>2 DEF Blocks, BlocksOf
  <2>4. new = {b}
    <3>1. [b EXCEPT !.datatype = TRUE] = b
      BY <1>1, <2>2, <2>3
    <3>2. \A o \in Blocks(c, p) : o = b
      BY <2>3
    <3>3. \A o \in new : o = b
      BY <3>1, <3>2 DEF new
    <3>4. [b EXCEPT !.datatype = TRUE] \in new
      BY <2>3 DEF new
    <3> QED  BY <3>1, <3>3, <3>4
  <2>5. BlocksOf(h, p) = {b}
    BY <1>3, <2>2, <2>3, <2>4 DEF BlocksOf
  <2>6. RangesOf(h, p) = {range}
    BY <1>3, <1>4, <1>5, <1>7 DEF RangesOf, Joined, Placed
  <2>7. Attribute(h, p) /\ ~Relation(h, p) /\ Declares(h, p)
    BY <1>3, <2>1 DEF Attribute, Relation, Declares
  <2>8. Agrees(h, p)
    BY <1>4, <1>5, <2>2, <2>5, <2>6, <2>7 DEF Agrees
  <2>9. \A r \in h.ranges : r[2] = p => r[1] = Graph(p)
    BY <1>5, <2>6 DEF RangesOf
  <2>10. Does(graph, h, Pairs(graph, todo[e]), Call(e), p)
    BY <1>6, <2>1 DEF Does
  <2> QED  BY <2>7, <2>8, <2>9, <2>10
<1>8. /\ \A l : l \in h.links <=> (l \in graph.links /\ ~(Deletes(Call(e), p) /\ l[1] = p))
      /\ \A r : r[2] # p => (r \in h.ranges <=> r \in graph.ranges)
      /\ \A b : b.path # p => (b \in h.blocks <=> b \in graph.blocks)
      /\ \A x : x[1] # p => (x \in h.types <=> x \in graph.types)
  BY <1>3, <1>n, <1>5, <1>6 DEF Blocks
<1> QED  BY <1>2, <1>3, <1>6, <1>7, <1>8, TouchedWrote

LEMMA UpdateSpecificJoined ==
  ASSUME OneEditor, Inv, JoinedInv, NEW e \in Editors, todo[e] # <<>>,
         NEW c \in Classes, NEW p \in Specific, NEW old, NEW t \in Classes, NEW n, NEW kind,
         Call(e)[1] = "updateObjectProperty", Call(e)[2] = c, Call(e)[3] = p, Call(e)[5] = t, Call(e)[7] = kind,
         UpdateObjectProperty(e, c, p, old, t, n, kind)
  PROVE  JoinedInv'
<1> DEFINE new == {[b EXCEPT !.class = t] : b \in Blocks(c, p)}
           range == <<HomeOf[c], p, t>>
           h == [graph EXCEPT !.ranges = Retarget(@, HomeOf[c], p, t), !.blocks = (@ \ Blocks(c, p)) \cup new]
<1>1. /\ UNCHANGED <<deleted, blurred>> /\ (failures' = failures \/ failures' = failures + 1)
      /\ (kind # "generic" /\ c \in graph.classes) => Write(e, h)
  BY DEF UpdateObjectProperty, Write, Throw
<1>2. CASE failures # 0 \/ blurred
  BY <1>1, <1>2, Spoiled
<1>3. CASE failures = 0 /\ ~blurred
  <2>1. /\ Sound(graph, Leaving(todo[e]), Pairs(graph, todo[e]), Call(e)) /\ Joined(graph, deleted, todo[e])
    BY <1>3, JoinedNow
  <2>2. c = p[1] /\ c \in graph.classes /\ kind = "specific" /\ ~Attribute(graph, p)
    BY <2>1 DEF Sound
  <2>3. Write(e, h)
    BY <1>1, <2>2
  <2>4. \A b \in Blocks(c, p) :
          /\ b.of = c /\ b.path = p
          /\ [b EXCEPT !.class = t].of = c /\ [b EXCEPT !.class = t].path = p
          /\ [b EXCEPT !.class = t].class = t /\ [b EXCEPT !.class = t].datatype = b.datatype
    BY RetargetedBlock
  <2>5. ASSUME NEW o \in new PROVE o.path = p
    <3>1. PICK b \in Blocks(c, p) : o = [b EXCEPT !.class = t]
      OBVIOUS
    <3>2. [b EXCEPT !.class = t].path = p
      BY <2>4
    <3> QED  BY <3>1, <3>2
  <2> HIDE DEF new
  <2>6. /\ h.classes = graph.classes /\ h.subOf = graph.subOf /\ h.links = graph.links /\ h.types = graph.types
        /\ h.ranges = {r \in graph.ranges : ~(r[1] = HomeOf[c] /\ r[2] = p)} \cup {range}
        /\ h.blocks = (graph.blocks \ Blocks(c, p)) \cup new
    BY DEF Inv, Types, Graphs, Retarget
  <2> HIDE DEF h
  <2>7. Graph(p) = HomeOf[c] /\ p \in Props
    BY <2>2, HomeIs, Disjoint
  <2>8. range[1] = Graph(p) /\ range[2] = p /\ range[3] = t
    BY <2>7
  <2>9. /\ \A s : ~Deletes(Call(e), s) /\ ~Makes(Call(e), s)
        /\ \A s : Updates(Call(e), s) <=> s = p
    BY DEF Deletes, Updates, Makes
  <2> HIDE DEF range
  <2>10. RangesOf(h, p) = {range}
    BY <2>1, <2>6, <2>7, <2>8 DEF RangesOf, Joined, Placed
  <2>11. /\ \A k : Relation(h, k) <=> Relation(graph, k)
         /\ \A k : Attribute(h, k) <=> Attribute(graph, k)
         /\ \A k : Declares(h, k) <=> Declares(graph, k)
    BY <2>6 DEF Relation, Attribute, Declares
  <2>12. Agrees(h, p)
    <3>1. Agrees(graph, p)
      BY <2>1 DEF Joined
    <3>2. \A b : b \in BlocksOf(h, p) <=> (b \in BlocksOf(graph, p) /\ b \notin Blocks(c, p)) \/ b \in new
      BY <2>5, <2>6 DEF BlocksOf
    <3>3. CASE ~Declares(graph, p)
      <4>1. Blocks(c, p) = {} /\ BlocksOf(graph, p) = {}
        BY <3>1, <3>3 DEF Agrees, Blocks, BlocksOf
      <4>2. \A b : b \notin new
        BY <4>1 DEF new
      <4>3. BlocksOf(h, p) = {}
        BY <3>2, <4>1, <4>2
      <4> QED  BY <2>11, <3>3, <4>3 DEF Agrees
    <3>4. CASE Declares(graph, p)
      <4>1. PICK b : BlocksOf(graph, p) = {b} /\ b.of = c /\ ~b.datatype
        BY <2>2, <3>1, <3>4 DEF Agrees
      <4>2. Blocks(c, p) = {b}
        BY <4>1 DEF Blocks, BlocksOf
      <4>3. PICK d : d = [b EXCEPT !.class = t]
        OBVIOUS
      <4>4. b \in Blocks(c, p)
        BY <4>2
      <4>5. d.of = c /\ d.class = t /\ d.datatype = b.datatype
        BY <2>4, <4>3, <4>4
      <4>6. \A o : o \in new <=> o = d
        BY <4>2, <4>3 DEF new
      <4>7. BlocksOf(h, p) = {d}
        BY <3>2, <4>1, <4>2, <4>6
      <4> QED  BY <2>2, <2>8, <2>10, <2>11, <3>4, <4>1, <4>5, <4>7 DEF Agrees
    <3> QED  BY <3>3, <3>4
  <2>13. \A r \in h.ranges : r[2] = p => r[1] = Graph(p) /\ r[3] = t
    BY <2>8, <2>10 DEF RangesOf
  <2>14. Does(graph, h, Pairs(graph, todo[e]), Call(e), p)
    BY <2>9, <2>11, <2>13 DEF Does
  <2>15. ~(Relation(h, p) /\ Attribute(h, p))
    BY <2>2, <2>11
  <2>16. /\ \A l : l \in h.links <=> (l \in graph.links /\ ~(Deletes(Call(e), p) /\ l[1] = p))
         /\ \A r : r[2] # p => (r \in h.ranges <=> r \in graph.ranges)
         /\ \A b : b.path # p => (b \in h.blocks <=> b \in graph.blocks)
         /\ \A x : x[1] # p => (x \in h.types <=> x \in graph.types)
    BY <2>5, <2>6, <2>8, <2>9 DEF Blocks
  <2> QED  BY <1>1, <2>3, <2>6, <2>9, <2>12, <2>13, <2>14, <2>15, <2>16, TouchedWrote
<1> QED  BY <1>2, <1>3

\* What deletePropertyTriples leaves: of other properties everything, of a specific one nothing.
LEMMA WithoutIs ==
  ASSUME Inv, NEW p \in Props, NEW c \in Classes, NEW h, h = WithoutProperty(p, c)
  PROVE  /\ h.classes = graph.classes /\ h.subOf = graph.subOf
         /\ \A r : r[2] # p => (r \in h.ranges <=> r \in graph.ranges)
         /\ \A b : b.path # p => (b \in h.blocks <=> b \in graph.blocks)
         /\ \A x : x[1] # p => (x \in h.types <=> x \in graph.types)
         /\ h.links \subseteq graph.links /\ \A l \in graph.links : l[1] # p => l \in h.links
         /\ (p \in Specific /\ p[1] = c /\ Agrees(graph, p) /\ Placed(graph)) =>
              /\ BlocksOf(h, p) = {} /\ ~Declares(h, p) /\ RangesOf(h, p) = {}
              /\ \A l : l \in h.links <=> (l \in graph.links /\ l[1] # p)
<1> DEFINE ns == HomeOf[c]
           own == [graph EXCEPT !.blocks = @ \ Blocks(c, p)]
           rest == [own EXCEPT !.types = {x \in @ : ~(x[1] = p /\ Graph(p) = ns)},
                               !.ranges = {r \in @ : ~(r[1] = ns /\ r[2] = p)},
                               !.labels = {l \in @ : ~(l[1] = ns /\ l[2] = p)},
                               !.links = {l \in @ : ~(l[1] = p /\ Graph(p) = ns)}]
<1>1. /\ own \in Graphs /\ own.classes = graph.classes /\ own.subOf = graph.subOf
      /\ own.types = graph.types /\ own.ranges = graph.ranges /\ own.blocks = graph.blocks \ Blocks(c, p)
      /\ own.links = graph.links
  BY DEF Inv, Types, Graphs
<1>2. h = IF ~HasDomain(p, ns) /\ UsedElsewhere(p, c) THEN own ELSE rest
  BY DEF WithoutProperty
<1> HIDE DEF own
<1>3. /\ rest.classes = graph.classes /\ rest.subOf = graph.subOf
      /\ rest.types = {x \in graph.types : ~(x[1] = p /\ Graph(p) = ns)}
      /\ rest.ranges = {r \in graph.ranges : ~(r[1] = ns /\ r[2] = p)} /\ rest.blocks = graph.blocks \ Blocks(c, p)
      /\ rest.links = {l \in graph.links : ~(l[1] = p /\ Graph(p) = ns)}
  BY <1>1 DEF Graphs
<1> HIDE DEF rest
<1>4. /\ h.classes = graph.classes /\ h.subOf = graph.subOf
      /\ \A r : r[2] # p => (r \in h.ranges <=> r \in graph.ranges)
      /\ \A b : b.path # p => (b \in h.blocks <=> b \in graph.blocks)
      /\ \A x : x[1] # p => (x \in h.types <=> x \in graph.types)
      /\ h.links \subseteq graph.links /\ \A l \in graph.links : l[1] # p => l \in h.links
  <2>1. CASE h = own
    BY <1>1, <2>1 DEF Blocks
  <2>2. CASE h = rest
    BY <1>3, <2>2 DEF Blocks
  <2> QED  BY <1>2, <2>1, <2>2
<1>5. ASSUME p \in Specific, p[1] = c, Agrees(graph, p), Placed(graph)
      PROVE  /\ BlocksOf(h, p) = {} /\ ~Declares(h, p) /\ RangesOf(h, p) = {}
             /\ \A l : l \in h.links <=> (l \in graph.links /\ l[1] # p)
  <2>1. Graph(p) = ns
    BY <1>5, HomeIs
  <2>2. ~(~HasDomain(p, ns) /\ UsedElsewhere(p, c))
    <3> SUFFICES ASSUME ~Exists(p) PROVE ~UsedElsewhere(p, c)
      BY <1>5, <2>1 DEF HasDomain
    <3>1. BlocksOf(graph, p) = {}
      BY <1>5 DEF Agrees, Declares, Exists
    <3> QED  BY <3>1 DEF BlocksOf, UsedElsewhere
  <2>3. h = rest
    BY <1>2, <2>2
  <2>4. \A b \in BlocksOf(graph, p) : b \in Blocks(c, p)
    BY <1>5 DEF Agrees, BlocksOf, Blocks
  <2>5. BlocksOf(h, p) = {}
    BY <1>3, <2>3, <2>4 DEF BlocksOf
  <2>6. ~Declares(h, p)
    BY <1>3, <2>1, <2>3 DEF Declares
  <2>7. RangesOf(h, p) = {}
    BY <1>3, <1>5, <2>1, <2>3 DEF RangesOf, Placed
  <2> QED  BY <1>3, <2>1, <2>3, <2>5, <2>6, <2>7
<1> QED  BY <1>4, <1>5

LEMMA DeleteJoined ==
  ASSUME OneEditor, Inv, JoinedInv, NEW e \in Editors, todo[e] # <<>>, NEW p \in Props, NEW c \in Classes,
         Call(e)[1] \in {"deleteDatatypeProperty", "deleteObjectProperty"}, Call(e)[2] = p, Call(e)[3] = c,
         Write(e, WithoutProperty(p, c)), UNCHANGED <<deleted, blurred>>
  PROVE  JoinedInv'
<1>1. PICK h : h = WithoutProperty(p, c)
  OBVIOUS
<1>2. Write(e, h)
  BY <1>1
<1>3. /\ h.classes = graph.classes /\ h.subOf = graph.subOf
      /\ \A r : r[2] # p => (r \in h.ranges <=> r \in graph.ranges)
      /\ \A b : b.path # p => (b \in h.blocks <=> b \in graph.blocks)
      /\ \A x : x[1] # p => (x \in h.types <=> x \in graph.types)
      /\ h.links \subseteq graph.links /\ \A l \in graph.links : l[1] # p => l \in h.links
      /\ (p \in Specific /\ p[1] = c /\ Agrees(graph, p) /\ Placed(graph)) =>
           /\ BlocksOf(h, p) = {} /\ ~Declares(h, p) /\ RangesOf(h, p) = {}
           /\ \A l : l \in h.links <=> (l \in graph.links /\ l[1] # p)
  BY <1>1, WithoutIs
<1>4. /\ \A s : ~Updates(Call(e), s) /\ ~Makes(Call(e), s)
      /\ \A s : Deletes(Call(e), s) <=> s = p
  BY DEF Deletes, Updates, Makes
<1>5. CASE p \in Generic
  <2>1. p \notin Specific
    BY <1>5, Disjoint
  <2> QED  BY <1>2, <1>3, <1>4, <1>5, <2>1, GenericJoined
<1>6. CASE p \in Specific
  <2>1. ASSUME Joined(graph, deleted, todo[e]), Sound(graph, Leaving(todo[e]), Pairs(graph, todo[e]), Call(e))
        PROVE  /\ \A l : l \in h.links <=> (l \in graph.links /\ ~(Deletes(Call(e), p) /\ l[1] = p))
               /\ Agrees(h, p) /\ (\A r \in h.ranges : r[2] = p => r[1] = Graph(p)) /\ ~(Relation(h, p) /\ Attribute(h, p))
               /\ Does(graph, h, Pairs(graph, todo[e]), Call(e), p)
    <3>1. p[1] = c
      BY <1>6, <2>1 DEF Sound
    <3>2. Agrees(graph, p) /\ Placed(graph)
      BY <1>6, <2>1 DEF Joined
    <3>3. /\ BlocksOf(h, p) = {} /\ ~Declares(h, p) /\ RangesOf(h, p) = {}
          /\ \A l : l \in h.links <=> (l \in graph.links /\ l[1] # p)
      BY <1>3, <1>6, <3>1, <3>2
    <3>4. ~Relation(h, p) /\ ~Attribute(h, p)
      BY <3>3 DEF Relation, Attribute, Declares
    <3>5. \A r \in h.ranges : r[2] # p
      BY <3>3 DEF RangesOf
    <3>6. Does(graph, h, Pairs(graph, todo[e]), Call(e), p)
      BY <1>4, <3>3, <3>4, <3>5 DEF Does
    <3> QED  BY <1>4, <3>3, <3>4, <3>5, <3>6 DEF Agrees
  <2> QED  BY <1>2, <1>3, <1>4, <1>6, <2>1, TouchedWrote
<1> QED  BY <1>5, <1>6 DEF Props

LEMMA DeleteObjectPropertyJoined ==
  ASSUME OneEditor, Inv, AloneInv, JoinedInv, NEW e \in Editors, todo[e] # <<>>, NEW p \in Props, NEW c \in Classes, NEW t,
         Call(e)[1] = "deleteObjectProperty", Call(e)[2] = p, Call(e)[3] = c, DeleteObjectProperty(e, p, c, t)
  PROVE  JoinedInv'
<1>1. /\ UNCHANGED <<deleted, blurred>> /\ (failures' = failures \/ failures' = failures + 1)
      /\ \/ Throw(e)
         \/ /\ ~HasDomain(p, HomeOf[c]) /\ Cardinality(Targets(c, p)) > 1
            /\ \E b \in Blocks(c, p) : Write(e, Rewritten(c, p, Targets(c, p) \ {t}, b.name))
         \/ Write(e, WithoutProperty(p, c))
  BY DEF DeleteObjectProperty, Write, Throw
<1>2. CASE Throw(e)
  BY <1>1, <1>2, ThrewJoined DEF Removing
<1>3. CASE Write(e, WithoutProperty(p, c))
  BY <1>1, <1>3, DeleteJoined
<1>4. ASSUME NEW b \in Blocks(c, p), Write(e, Rewritten(c, p, Targets(c, p) \ {t}, b.name)), ~HasDomain(p, HomeOf[c])
      PROVE  JoinedInv'
  <2>1. CASE p \in Generic
    <3>1. \A q \in Specific : ~Deletes(Call(e), q) /\ ~Updates(Call(e), q) /\ ~Makes(Call(e), q)
      BY <2>1, Disjoint DEF Deletes, Updates, Makes
    <3> QED  BY <1>1, <1>4, <2>1, <3>1, RewrittenJoined
  <2>2. CASE p \in Specific
    <3>1. CASE failures # 0 \/ blurred
      BY <1>1, <3>1, Spoiled
    <3>2. CASE failures = 0 /\ ~blurred
      <4>1. Sound(graph, Leaving(todo[e]), Pairs(graph, todo[e]), Call(e)) /\ Joined(graph, deleted, todo[e])
        BY <3>2, JoinedNow
      <4>2. p[1] = c /\ Agrees(graph, p)
        BY <2>2, <4>1 DEF Sound, Joined
      <4>3. ~Exists(p)
        BY <1>4, <2>2, <4>2, HomeIs DEF HasDomain
      <4>4. BlocksOf(graph, p) = {}
        BY <4>2, <4>3 DEF Agrees, Declares, Exists
      <4> QED  BY <4>4 DEF Blocks, BlocksOf
    <3> QED  BY <3>1, <3>2
  <2> QED  BY <2>1, <2>2 DEF Props
<1> QED  BY <1>1, <1>2, <1>3, <1>4

LEMMA UnlinkJoined ==
  ASSUME OneEditor, Inv, JoinedInv, NEW e \in Editors, todo[e] # <<>>,
         NEW p \in Props, NEW c, NEW r \in Props, NEW d,
         Call(e) = <<"unlink", p, c, r, d>>, UnlinkGeneratedReverse(e, p, c, r, d)
  PROVE  JoinedInv'
<1> DEFINE h == [graph EXCEPT !.links = {l \in @ :
                    /\ ~(l = <<p, "inverseOf", r>> /\ Graph(p) = HomeOf[c])
                    /\ ~(l[1] = r /\ l[3] = p /\ Graph(r) = HomeOf[d])}]
           q == todo[e]
           t == Tail(q)
           x == Call(e)
           J == Pairs(graph, q)
           K == Pairs(h, t)
<1>1. /\ UNCHANGED <<deleted, blurred>> /\ (failures' = failures \/ failures' = failures + 1)
      /\ ({c, d} \subseteq graph.classes => Write(e, h))
  BY DEF UnlinkGeneratedReverse, Write, Throw
<1>2. CASE failures # 0 \/ blurred
  BY <1>1, <1>2, Spoiled
<1>3. CASE failures = 0 /\ ~blurred
  <2>1. /\ Joined(graph, deleted, q) /\ q \in Seq(CallSet) /\ Head(q) = x
        /\ Sound(graph, Leaving(q), J, x)
    BY <1>3, JoinedNow
  <2>x. x[1] = "unlink" /\ x[2] = p /\ x[3] = c /\ x[4] = r /\ x[5] = d
    OBVIOUS
  <2>2. /\ p \in Specific /\ r \in Specific /\ c = p[1] /\ d = r[1] /\ c \in graph.classes /\ d \in graph.classes
    BY <2>1, <2>x DEF Sound
  <2>3. Write(e, h)
    BY <1>1, <2>2
  <2>4. Graph(p) = HomeOf[c] /\ Graph(r) = HomeOf[d]
    BY <2>2, HomeIs
  <2>5. /\ h.classes = graph.classes /\ h.subOf = graph.subOf /\ h.types = graph.types
        /\ h.ranges = graph.ranges /\ h.blocks = graph.blocks
        /\ h.links = {l \in graph.links : l # <<p, "inverseOf", r>> /\ ~(l[1] = r /\ l[3] = p)}
    BY <2>4 DEF Inv, Types, Graphs
  <2> HIDE DEF h
  <2>6. /\ t \in Seq(CallSet) /\ x \in Pending(q) /\ Pending(q) = {x} \cup Pending(t)
        /\ Len(q) \in Nat /\ DOMAIN q = 1..Len(q) /\ DOMAIN t = 1..Len(q) - 1
        /\ \A i \in 1..Len(q) - 1 : t[i] = q[i + 1]
        /\ Head(q) = q[1]
    BY <2>1, PendingParts
  <2>7. \A y \in Pending(t) : y[1] # "unlink"
    <3> HIDE DEF t, q, x, CallSet
    <3> SUFFICES ASSUME NEW i \in DOMAIN t, t[i][1] = "unlink" PROVE FALSE
      BY DEF Pending
    <3>1. i + 1 \in DOMAIN q /\ q[i + 1] = t[i] /\ i + 1 # 1
      BY <2>6
    <3>2. i + 1 <= 2 /\ (i + 1 = 2 => q[1][1] = "updateObjectProperty")
      BY <2>1, <3>1 DEF Joined, Ordered
    <3>3. i + 1 = 2
      BY <2>6, <3>1, <3>2
    <3> QED  BY <2>1, <2>6, <2>x, <3>2, <3>3
  <2>8. ASSUME NEW a \in Props, NEW b \in Props PROVE <<a, b>> \in K <=> <<a, b>> \in J
    <3>1. <<a, b>> \in J <=>
            /\ <<a, "inverseOf", b>> \in graph.links
            /\ \A y \in Pending(q) : y[1] = "unlink" => ~(a = y[2] /\ b = y[4]) /\ ~(a = y[4] /\ b = y[2])
      BY PairIs
    <3>2. <<a, b>> \in K <=>
            /\ <<a, "inverseOf", b>> \in h.links
            /\ \A y \in Pending(t) : y[1] = "unlink" => ~(a = y[2] /\ b = y[4]) /\ ~(a = y[4] /\ b = y[2])
      BY PairIs
    <3>3. <<a, "inverseOf", b>> \in h.links <=>
            <<a, "inverseOf", b>> \in graph.links /\ ~(a = p /\ b = r) /\ ~(a = r /\ b = p)
      BY <2>5
    <3> HIDE DEF J, K, t, q, x
    <3> QED  BY <2>6, <2>7, <2>x, <3>1, <3>2, <3>3
  <2>9. /\ \A k : Relation(h, k) <=> Relation(graph, k)
        /\ \A k : Attribute(h, k) <=> Attribute(graph, k)
        /\ \A k : Declares(h, k) <=> Declares(graph, k)
        /\ \A k : BlocksOf(h, k) = BlocksOf(graph, k) /\ RangesOf(h, k) = RangesOf(graph, k)
        /\ \A k : Association(h, k) <=> Association(graph, k)
    BY <2>5 DEF Relation, Attribute, Declares, BlocksOf, RangesOf, Association
  <2>10. (\A k \in Specific : Agrees(h, k)) /\ Placed(h)
    <3>1. \A k \in Specific : Agrees(h, k)
      BY <2>1, <2>9, AgreesSame DEF Joined
    <3>2. Placed(h)
      BY <2>1, <2>5, <2>9 DEF Joined, Placed
    <3> QED  BY <3>1, <3>2
  <2>11. \A k : ~Deletes(x, k) /\ ~Updates(x, k) /\ ~Makes(x, k)
    BY <2>x DEF Deletes, Updates, Makes
  <2> HIDE DEF J, K, t, q, x, CallSet
  <2>12. Passes(graph, h, deleted, J, K, x)
    BY <2>5, <2>8, <2>9, <2>11 DEF Passes, Does
  <2>13. Joined(h, deleted, t)
    BY <2>1, <2>x, <2>10, <2>12, JoinedGoesOn DEF q, t, J, K
  <2> QED  BY <1>1, <2>3, <2>13, WroteJoined DEF t, q
<1> QED  BY <1>2, <1>3

\* A relation and its reverse become a pair, each of the class of the other.
LEMMA LinkJoined ==
  ASSUME OneEditor, Inv, AloneInv, JoinedInv, NEW e \in Editors, todo[e] # <<>>,
         NEW p \in Props, NEW r \in Props,
         Call(e) = <<"link", p, r>>, LinkGeneratedReverse(e, p, r)
  PROVE  JoinedInv'
<1> DEFINE h == [graph EXCEPT !.links = @ \cup {<<p, "inverseOf", r>>, <<r, "inverseOf", p>>, <<r, "reverseOf", p>>}]
           q == todo[e]
           x == Call(e)
           J == Pairs(graph, q)
           K == Pairs(h, <<>>)
           new == {<<p, r>>, <<r, p>>}
<1>1. UNCHANGED <<deleted, blurred>> /\ Write(e, h)
  BY DEF LinkGeneratedReverse
<1> SUFFICES ASSUME failures = 0, ~blurred PROVE Joined(h, deleted, Tail(q))
  BY <1>1, WroteJoined
<1>2. /\ Joined(graph, deleted, q) /\ q \in Seq(CallSet) /\ Head(q) = x /\ x \in Pending(q)
  BY JoinedNow
<1>x. x[1] = "link" /\ x[2] = p /\ x[3] = r
  OBVIOUS
<1>3. /\ h.classes = graph.classes /\ h.subOf = graph.subOf /\ h.types = graph.types
      /\ h.ranges = graph.ranges /\ h.blocks = graph.blocks
      /\ h.links = graph.links \cup {<<p, "inverseOf", r>>, <<r, "inverseOf", p>>, <<r, "reverseOf", p>>}
  BY DEF Inv, Types, Graphs
<1> HIDE DEF h
<1>4. /\ Len(q) \in Nat /\ Len(q) >= 1 /\ DOMAIN q = 1..Len(q) /\ Head(q) = q[1] /\ Len(Tail(q)) = Len(q) - 1
      /\ Tail(q) \in Seq(CallSet) /\ Pending(q) = {x} \cup Pending(Tail(q))
  BY <1>2, PendingParts
<1> HIDE DEF q, x, CallSet
<1>5. Len(q) = 1 /\ Tail(q) = <<>>
  <2>1. Len(q) = 1
    BY <1>2, <1>4, <1>x DEF Joined, Ordered
  <2>2. Len(Tail(q)) = 0
    BY <1>4, <2>1
  <2>3. \A s \in Seq(CallSet) : Len(s) = 0 => s = <<>>
    OBVIOUS
  <2> QED  BY <1>4, <2>1, <2>2, <2>3
<1>6. Pending(<<>>) = {} /\ Pending(q) = {x}
  BY <1>4, <1>5 DEF Pending
<1>7. Matched(graph, J, q, p, r)
  BY <1>2, <1>x DEF Joined, Linking
<1>8. /\ p \in Specific /\ r \in Specific /\ p # r /\ Relation(graph, r) /\ \A s \in Props : <<r, s>> \notin J
      /\ \A s \in graph.ranges : s[2] = r => s[3] = p[1]
      /\ Relation(graph, p)
      /\ ~Association(graph, p[1]) =>
           /\ \A s \in Props : <<p, s>> \notin J
           /\ \A s \in graph.ranges : s[2] = p => s[3] = r[1]
  <2>1. ~\E j \in 1..Len(q) - 2 : Draws(q[j], p, r[1])
    BY <1>5
  <2>2. ~Updates(q[1], p)
    BY <1>2, <1>4, <1>x DEF Updates
  <2> QED  BY <1>5, <1>7, <2>1, <2>2 DEF Matched
<1>9. Leaving(<<>>) = {} /\ Leaving(q) = {}
  <2>1. \A c, force : <<"dropClass", c, force>> # x
    BY <1>x
  <2> QED  BY <1>6, <2>1 DEF Leaving
<1>10. ASSUME NEW a \in Props, NEW b \in Props
       PROVE  <<a, b>> \in K <=> <<a, b>> \in J \/ (a = p /\ b = r) \/ (a = r /\ b = p)
  <2>1. <<a, b>> \in J <=> <<a, "inverseOf", b>> \in graph.links
    BY <1>6, <1>x, PairIs
  <2>2. <<a, b>> \in K <=> <<a, "inverseOf", b>> \in h.links
    BY <1>6, PairIs
  <2> QED  BY <1>3, <2>1, <2>2
<1>11. Coupled(graph, deleted, {}, J)
  BY <1>2, <1>9 DEF Joined
<1>12. /\ \A k : Relation(h, k) <=> Relation(graph, k)
       /\ \A k : Attribute(h, k) <=> Attribute(graph, k)
       /\ \A k : Declares(h, k) <=> Declares(graph, k)
       /\ \A k : BlocksOf(h, k) = BlocksOf(graph, k) /\ RangesOf(h, k) = RangesOf(graph, k)
       /\ \A k : Association(h, k) <=> Association(graph, k)
  BY <1>3 DEF Relation, Attribute, Declares, BlocksOf, RangesOf, Association
<1>13. (\A k \in Specific : Agrees(h, k)) /\ Placed(h)
  <2>1. \A k \in Specific : Agrees(h, k)
    BY <1>2, <1>12, AgreesSame DEF Joined
  <2>2. Placed(h)
    BY <1>2, <1>3, <1>12 DEF Joined, Placed
  <2> QED  BY <2>1, <2>2
<1>14. ~Attribute(graph, p) /\ ~Attribute(graph, r)
  BY <1>2, <1>8 DEF Joined, Placed
<1>15. p[1] \in graph.classes /\ r[1] \in graph.classes
  BY <1>8, AloneParts DEF Relation, Declares
<1> HIDE DEF J, K
<1>16. Coupled(h, deleted, {}, K)
  <2> SUFFICES ASSUME NEW a \in Props, NEW b \in Props, <<a, b>> \in K
               PROVE  /\ a \in Specific /\ b \in Specific /\ a # b /\ Relation(h, a) /\ ~Attribute(h, b)
                      /\ b[1] \in h.classes \/ \E force \in BOOLEAN : <<b[1], force>> \in deleted
                      /\ ~Association(h, a[1]) => /\ \A s \in h.ranges : s[2] = a => s[3] = b[1]
                                                  /\ \A s \in Props : <<a, s>> \in K => s = b
                      /\ (~Association(h, b[1]) /\ b[1] \in h.classes /\ b[1] \notin {}) => <<b, a>> \in K
    BY DEF Coupled
  <2>1. CASE a = p /\ b = r
    <3>1. ASSUME ~Association(h, a[1]), NEW s \in Props, <<a, s>> \in K PROVE s = b
      <4>1. <<a, s>> \notin J
        BY <1>8, <1>12, <2>1, <3>1
      <4> QED  BY <1>8, <1>10, <2>1, <3>1, <4>1
    <3> QED  BY <1>3, <1>8, <1>10, <1>12, <1>14, <1>15, <2>1, <3>1
  <2>2. CASE a = r /\ b = p
    <3>1. ASSUME NEW s \in Props, <<a, s>> \in K PROVE s = b
      <4>1. <<a, s>> \notin J
        BY <1>8, <2>2
      <4> QED  BY <1>8, <1>10, <2>2, <3>1, <4>1
    <3> QED  BY <1>3, <1>8, <1>10, <1>12, <1>14, <1>15, <2>2, <3>1
  <2>3. CASE <<a, b>> \in J
    <3>1. /\ a \in Specific /\ b \in Specific /\ a # b /\ Relation(graph, a) /\ ~Attribute(graph, b)
          /\ b[1] \in graph.classes \/ \E force \in BOOLEAN : <<b[1], force>> \in deleted
          /\ ~Association(graph, a[1]) => /\ \A s \in graph.ranges : s[2] = a => s[3] = b[1]
                                          /\ \A s \in Props : <<a, s>> \in J => s = b
          /\ (~Association(graph, b[1]) /\ b[1] \in graph.classes /\ b[1] \notin {}) => <<b, a>> \in J
      BY <1>11, <2>3 DEF Coupled
    <3>2. a # r /\ (~Association(graph, a[1]) => a # p)
      BY <1>8, <2>3
    <3>3. ~Association(h, a[1]) => \A s \in Props : <<a, s>> \in K => s = b
      BY <1>10, <1>12, <3>1, <3>2
    <3> QED  BY <1>3, <1>10, <1>12, <3>1, <3>3
  <2> QED  BY <1>10, <2>1, <2>2, <2>3
<1>17. Ordered(<<>>) /\ Linking(h, K, <<>>) /\ \A y \in Pending(<<>>) : Sound(h, {}, K, y)
  BY <1>6 DEF Ordered, Linking
<1> QED  BY <1>5, <1>9, <1>13, <1>16, <1>17 DEF Joined, K

\* The more classes are about to be dropped, the less is asked of a call.
LEMMA SoundMore ==
  ASSUME NEW g, NEW L, NEW M, L \subseteq M, NEW J, NEW x, Sound(g, L, J, x)
  PROVE  Sound(g, M, J, x)
<1>1. \A p : Free(g, L, J, p) => Free(g, M, J, p)
  BY DEF Free
<1> QED  BY <1>1 DEF Sound

\* A call that turns into others: what they are meant for is there.
LEMMA TurnedJoined ==
  ASSUME NEW g, NEW gone, NEW q, NEW s, Joined(g, gone, q), Leaving(q) \subseteq Leaving(s),
         \A x : x[1] = "unlink" => (x \in Pending(s) <=> x \in Pending(q)),
         \A x \in Pending(s) : x \in Pending(q) \/ Sound(g, Leaving(s), Pairs(g, q), x),
         Ordered(s), Linking(g, Pairs(g, q), s)
  PROVE  Joined(g, gone, s)
<1>1. Pairs(g, s) = Pairs(g, q)
  BY DEF Pairs
<1>2. Coupled(g, gone, Leaving(s), Pairs(g, q))
  BY DEF Joined, Coupled
<1> QED  BY <1>1, <1>2, SoundMore DEF Joined

\* Calls that stand anywhere.
Loose == Removing \cup {"insertClass", "insertSubClassOf", "deleteClass", "insertObjectProperty", "deleteObjectProperty"}

LEMMA LooseOrdered ==
  ASSUME NEW q, \A x \in Pending(q) : x[1] \in Loose
  PROVE  Ordered(q) /\ \A g, J : Linking(g, J, q)
  BY DEF Loose, Removing, Pending, Ordered, Linking

\* The last call of a handler.
LEMMA LastCall ==
  ASSUME NEW q \in Seq(CallSet), Len(q) = 1
  PROVE  Tail(q) = <<>> /\ Pending(q) = {Head(q)}
<1> HIDE DEF CallSet
<1>1. /\ Len(Tail(q)) = 0 /\ Tail(q) \in Seq(CallSet) /\ DOMAIN q = {1} /\ Head(q) = q[1]
  OBVIOUS
<1>2. \A t \in Seq(CallSet) : Len(t) = 0 => t = <<>>
  OBVIOUS
<1> QED  BY <1>1, <1>2 DEF Pending

LEMMA InsertDatatypePropertyJoined ==
  ASSUME OneEditor, Inv, AloneInv, JoinedInv, NEW e \in Editors, todo[e] # <<>>, NEW c \in Classes, NEW n \in Names,
         Call(e)[1] = "insertDatatypeProperty", InsertDatatypeProperty(e, c, n)
  PROVE  JoinedInv'
<1> DEFINE x == <<"ensureNodeShape", c>>
           y == <<"declareAttribute", c, n>>
           s == <<x, y>>
<1>1. /\ UNCHANGED <<deleted, blurred>>
      /\ Throw(e) \/ (~Exists(<<c, n>>) /\ Becomes(e, s))
  BY DEF InsertDatatypeProperty
<1>2. x \in CallSet /\ y \in CallSet
  BY DEF CallSet
<1>3. x[1] = "ensureNodeShape" /\ y[1] = "declareAttribute" /\ y[2] = c /\ y[3] = n
  OBVIOUS
<1> HIDE DEF x, y
<1>4. s \in Seq(CallSet) /\ Pending(s) = {x, y} /\ DOMAIN s = {1, 2} /\ Len(s) = 2 /\ s[1] = x /\ s[2] = y
  BY <1>2, TwoCalls
<1> HIDE DEF s, CallSet
<1>5. CASE Throw(e)
  BY <1>1, <1>5, ThrewJoined DEF Removing
<1>6. CASE ~Exists(<<c, n>>) /\ Becomes(e, s)
  <2>1. ASSUME failures = 0, ~blurred' PROVE Joined(graph, deleted', s \o Tail(todo[e]))
    <3>1. /\ Joined(graph, deleted, todo[e]) /\ todo[e] \in Seq(CallSet) /\ Head(todo[e]) = Call(e)
          /\ Call(e) \in Pending(todo[e])
      BY <1>1, <2>1, JoinedNow
    <3>2. Len(todo[e]) = 1
      BY <3>1 DEF Pending, Joined, Ordered
    <3>3. Tail(todo[e]) = <<>> /\ Pending(todo[e]) = {Call(e)}
      BY <3>1, <3>2, LastCall
    <3>a. s \o <<>> = s
      BY <1>4
    <3>4. s \o Tail(todo[e]) = s
      BY <3>3, <3>a
    <3>5. Leaving(todo[e]) = {}
      <4>1. \A force : <<"dropClass", c, force>>[1] = "dropClass"
        OBVIOUS
      <4> QED  BY <3>3 DEF Leaving
    <3>6. ~Declares(graph, <<c, n>>)
      BY <1>6 DEF Declares, Exists
    <3>7. \A z \in Pending(s) : z[1] # "unlink" /\ Sound(graph, Leaving(s), Pairs(graph, todo[e]), z)
      BY <1>3, <1>4, <3>6 DEF Sound
    <3>8. Ordered(s) /\ Linking(graph, Pairs(graph, todo[e]), s)
      BY <1>3, <1>4 DEF Ordered, Linking
    <3>9. Joined(graph, deleted, s)
      BY <3>1, <3>3, <3>5, <3>7, <3>8, TurnedJoined
    <3> QED  BY <1>1, <3>4, <3>9
  <2> QED  BY <1>6, <2>1, BecameJoined
<1> QED  BY <1>1, <1>5, <1>6

\* The call to draw a relation becomes two: the calls after it stand one later.
LEMMA DrawingJoined ==
  ASSUME NEW g, NEW gone, NEW q \in Seq(CallSet), q # <<>>, Joined(g, gone, q), Head(q)[1] = "insertObjectProperty",
         NEW x \in CallSet, x[1] = "ensureNodeShape", NEW y \in CallSet, y[1] \in {"shareRelation", "declareRelation"},
         \A p, t : (Head(q)[5] = "specific" /\ Draws(Head(q), p, t)) => Draws(y, p, t),
         Head(q)[5] = "specific" => y[1] = "declareRelation"
  PROVE  Joined(g, gone, <<x, y>> \o Tail(q))
<1> DEFINE t == Tail(q)
           two == <<x, y>>
           s == two \o t
           J == Pairs(g, q)
<1>1. /\ Len(q) \in Nat /\ Len(q) >= 1 /\ DOMAIN q = 1..Len(q)
      /\ t \in Seq(CallSet) /\ Len(t) = Len(q) - 1 /\ DOMAIN t = 1..Len(q) - 1
      /\ \A i \in 1..Len(q) - 1 : t[i] = q[i + 1]
      /\ Head(q) = q[1] /\ Head(q) \in Pending(q) /\ Pending(q) = {Head(q)} \cup Pending(t)
  BY PendingParts
<1>2. two \in Seq(CallSet) /\ Pending(two) = {x, y} /\ Len(two) = 2 /\ two[1] = x /\ two[2] = y
  BY TwoCalls
<1> HIDE DEF t, two, CallSet
<1>3. /\ Pending(s) = {x, y} \cup Pending(t)
      /\ DOMAIN s = 1..(2 + Len(t)) /\ Len(s) = 2 + Len(t)
      /\ \A i \in DOMAIN s : s[i] = IF i <= 2 THEN two[i] ELSE t[i - 2]
  <2>1. /\ Pending(s) = Pending(two) \cup Pending(t)
        /\ DOMAIN s = 1..(Len(two) + Len(t)) /\ Len(s) = Len(two) + Len(t)
        /\ \A i \in DOMAIN s : s[i] = IF i <= Len(two) THEN two[i] ELSE t[i - Len(two)]
    BY <1>1, <1>2, PendingJoined
  <2> HIDE DEF s
  <2> QED  BY <1>2, <2>1
<1> HIDE DEF s
<1>4. Len(s) = Len(q) + 1 /\ DOMAIN s = 1..(Len(q) + 1)
  BY <1>1, <1>3
<1>5. s[1] = x /\ s[2] = y
  BY <1>1, <1>2, <1>3
<1>6. ASSUME NEW i \in 2..Len(q) PROVE s[i + 1] = q[i] /\ i + 1 \in DOMAIN s
  <2>1. i + 1 \in DOMAIN s /\ ~(i + 1 <= 2) /\ (i + 1) - 2 = i - 1
    BY <1>1, <1>4
  <2>2. s[i + 1] = t[i - 1]
    BY <1>3, <2>1
  <2>3. i - 1 \in 1..Len(q) - 1 /\ (i - 1) + 1 = i
    BY <1>1
  <2> QED  BY <1>1, <2>1, <2>2, <2>3
<1>7. /\ Ordered(t)
      /\ \A z \in Pending(t) : z[1] \notin {"declareAttribute", "insertDatatypeProperty", "updateDatatypeProperty"}
  BY OrderedGoesOn DEF Joined, t
<1>8. ASSUME NEW i \in DOMAIN s
      PROVE  /\ s[i][1] \notin {"declareAttribute", "insertDatatypeProperty", "updateDatatypeProperty", "unlink"}
             /\ s[i][1] = "link" => i = Len(s)
  <2>1. CASE i \in {1, 2}
    BY <1>5, <2>1
  <2>2. CASE i \notin {1, 2}
    <3>1. i - 1 \in 2..Len(q) /\ (i - 1) + 1 = i /\ i - 1 # 1
      BY <1>1, <1>4, <2>2
    <3>2. s[i] = q[i - 1] /\ i - 1 \in DOMAIN q
      BY <1>1, <1>6, <3>1
    <3>3. i - 1 - 1 \in DOMAIN t /\ t[i - 1 - 1] = q[i - 1]
      BY <1>1, <3>1
    <3>4. s[i][1] \notin {"declareAttribute", "insertDatatypeProperty", "updateDatatypeProperty"}
      BY <1>7, <3>2, <3>3 DEF Pending
    <3>5. s[i][1] # "unlink"
      <4> SUFFICES ASSUME q[i - 1][1] = "unlink" PROVE FALSE
        BY <3>2
      <4>1. i - 1 <= 2 /\ (i - 1 = 2 => q[1][1] = "updateObjectProperty")
        BY <3>2 DEF Joined, Ordered
      <4>2. i - 1 = 2
        BY <3>1, <4>1
      <4> QED  BY <1>1, <4>1, <4>2
    <3>6. s[i][1] = "link" => i - 1 = Len(q)
      BY <3>2 DEF Joined, Ordered
    <3>7. i - 1 = Len(q) => i = Len(s)
      BY <1>1, <1>4, <3>1
    <3> QED  BY <3>4, <3>5, <3>6, <3>7
  <2> QED  BY <2>1, <2>2
<1>9. Ordered(s)
  BY <1>8 DEF Ordered
<1>10. Leaving(q) \subseteq Leaving(s)
  <2>1. \A c, force : <<"dropClass", c, force>> # Head(q)
    OBVIOUS
  <2> QED  BY <1>1, <1>3, <2>1 DEF Leaving
<1>11. \A z \in Pending(s) : z \in Pending(q) \/ Sound(g, Leaving(s), J, z)
  BY <1>1, <1>3 DEF Sound
<1>12. \A z : z[1] = "unlink" => (z \in Pending(s) <=> z \in Pending(q))
  BY <1>1, <1>3
\* A pair that is to be linked.
<1>13. ASSUME NEW z \in Pending(s), z[1] = "link" PROVE Matched(g, J, s, z[2], z[3])
  <2> DEFINE p == z[2]
             r == z[3]
  <2>1. z \in Pending(t) /\ z \in Pending(q)
    BY <1>1, <1>3, <1>13
  <2>2. Len(q) > 1 /\ Len(q) # 1
    <3>1. PICK i \in 1..Len(q) - 1 : z = t[i]
      BY <1>1, <2>1 DEF Pending
    <3> QED  BY <1>1, <3>1
  <2>3. Matched(g, J, q, p, r)
    BY <1>13, <2>1 DEF Joined, Linking
  <2>4. /\ p \in Specific /\ r \in Specific
        /\ \A w \in Pending(q) :
             /\ w[1] \in {"insertObjectProperty", "ensureNodeShape", "declareRelation", "updateObjectProperty", "unlink",
                          "deleteObjectProperty", "link"}
             /\ w[1] = "insertObjectProperty" => w[5] = "specific"
             /\ w[1] = "updateObjectProperty" => w[3] = p /\ w[5] = r[1]
             /\ w[1] = "deleteObjectProperty" => w[2] # p
        /\ Draws(q[Len(q) - 1], r, p[1])
        /\ \/ \E j \in 1..Len(q) - 2 : Draws(q[j], p, r[1])
           \/ /\ Relation(g, p)
              /\ ~Association(g, p[1]) =>
                   /\ \A w \in Props : <<p, w>> \notin J
                   /\ Updates(q[1], p) \/ \A w \in g.ranges : w[2] = p => w[3] = r[1]
    BY <2>2, <2>3 DEF Matched
  <2>5. Head(q)[5] = "specific" /\ y[1] = "declareRelation"
    BY <1>1, <2>4
  <2>6. ASSUME NEW i \in 1..Len(q), NEW w, NEW c, Draws(q[i], w, c) PROVE Draws(s[i + 1], w, c)
    <3>1. CASE i = 1
      BY <1>1, <1>5, <2>5, <2>6, <3>1
    <3>2. CASE i # 1
      <4>1. i \in 2..Len(q)
        BY <1>1, <3>2
      <4> QED  BY <1>6, <2>6, <4>1
    <3> QED  BY <3>1, <3>2
  <2>7. Draws(s[Len(s) - 1], r, p[1]) /\ Len(s) # 1
    <3>1. Len(q) - 1 \in 1..Len(q) /\ (Len(q) - 1) + 1 = Len(s) - 1 /\ Len(s) # 1
      BY <1>1, <1>4, <2>2
    <3> HIDE DEF p, r
    <3>2. Draws(s[(Len(q) - 1) + 1], r, p[1])
      BY <2>4, <2>6, <3>1
    <3> QED  BY <3>1, <3>2
  <2>8. \A j \in 1..Len(q) - 2 : Draws(q[j], p, r[1]) => \E i \in 1..Len(s) - 2 : Draws(s[i], p, r[1])
    <3> SUFFICES ASSUME NEW j \in 1..Len(q) - 2, Draws(q[j], p, r[1]) PROVE \E i \in 1..Len(s) - 2 : Draws(s[i], p, r[1])
      OBVIOUS
    <3>1. j \in 1..Len(q) /\ j + 1 \in 1..Len(s) - 2
      BY <1>1, <1>4
    <3> QED  BY <2>6, <3>1
  <2>9. ~Updates(q[1], p)
    BY <1>1 DEF Updates
  <2>10. \A w \in Pending(s) :
           /\ w[1] \in {"insertObjectProperty", "ensureNodeShape", "declareRelation", "updateObjectProperty", "unlink",
                        "deleteObjectProperty", "link"}
           /\ w[1] = "insertObjectProperty" => w[5] = "specific"
           /\ w[1] = "updateObjectProperty" => w[3] = p /\ w[5] = r[1]
           /\ w[1] = "deleteObjectProperty" => w[2] # p
    BY <1>1, <1>3, <2>4, <2>5
  <2> HIDE DEF p, r, J
  <2>11. Matched(g, J, s, p, r)
    BY <2>4, <2>7, <2>8, <2>9, <2>10 DEF Matched
  <2> QED  BY <2>11 DEF p, r
<1>14. Linking(g, J, s)
  BY <1>13 DEF Linking
<1> HIDE DEF J
<1>15. Joined(g, gone, s)
  BY <1>9, <1>10, <1>11, <1>12, <1>14, TurnedJoined DEF J
<1> QED  BY <1>15 DEF s, t, two

LEMMA InsertObjectPropertyJoined ==
  ASSUME OneEditor, Inv, AloneInv, JoinedInv, NEW e \in Editors, todo[e] # <<>>,
         NEW c \in Classes, NEW t \in Classes, NEW n \in Names, NEW kind \in Kinds,
         Call(e)[1] = "insertObjectProperty", Call(e)[2] = c, Call(e)[3] = t, Call(e)[4] = n, Call(e)[5] = kind,
         InsertObjectProperty(e, c, t, n, kind)
  PROVE  JoinedInv'
<1> DEFINE op == IF kind = "generic" THEN "shareRelation" ELSE "declareRelation"
           x == <<"ensureNodeShape", c>>
           y == <<op, c, t, n>>
<1>1. (Throw(e) \/ Becomes(e, <<x, y>>)) /\ UNCHANGED <<deleted, blurred>>
  BY DEF InsertObjectProperty
<1>2. op \in {"shareRelation", "declareRelation"} /\ (kind = "specific" => op = "declareRelation")
  OBVIOUS
<1> HIDE DEF op
<1>3. /\ x \in CallSet /\ y \in CallSet /\ x[1] = "ensureNodeShape"
      /\ y[1] = op /\ y[2] = c /\ y[3] = t /\ y[4] = n
  BY <1>2 DEF CallSet
<1> HIDE DEF x, y
<1>4. CASE Throw(e)
  BY <1>1, <1>4, ThrewJoined DEF Removing
<1>5. CASE Becomes(e, <<x, y>>)
  <2>1. ASSUME failures = 0, ~blurred' PROVE Joined(graph, deleted', <<x, y>> \o Tail(todo[e]))
    <3>1. Joined(graph, deleted, todo[e]) /\ todo[e] \in Seq(CallSet) /\ Head(todo[e]) = Call(e)
      BY <1>1, <2>1, JoinedNow
    <3>2. \A p, d : (Call(e)[5] = "specific" /\ Draws(Call(e), p, d)) => Draws(y, p, d)
      BY <1>2, <1>3 DEF Draws
    <3>3. Call(e)[5] = "specific" => y[1] = "declareRelation"
      BY <1>2, <1>3
    <3> HIDE DEF CallSet
    <3>4. Joined(graph, deleted, <<x, y>> \o Tail(todo[e]))
      BY <1>2, <1>3, <3>1, <3>2, <3>3, DrawingJoined
    <3> QED  BY <1>1, <3>4
  <2> QED  BY <1>5, <2>1, BecameJoined
<1> QED  BY <1>1, <1>4, <1>5

(* A deletion. *)

LEMMA DeleteClassJoined ==
  ASSUME OneEditor, Inv, AloneInv, JoinedInv, NEW e \in Editors, todo[e] # <<>>, NEW c \in Classes, NEW force \in BOOLEAN,
         Call(e)[1] = "deleteClass", DeleteClass(e, c, force)
  PROVE  JoinedInv'
<1>1. UNCHANGED <<deleted, blurred>>
  BY DEF DeleteClass
<1>2. CASE Throw(e)
  BY <1>1, <1>2, ThrewJoined DEF Removing
<1>3. ASSUME NEW subs \in Orders(Subclasses(c)),
             Becomes(e, [i \in DOMAIN subs |-> <<"deleteSubClassOf", subs[i], c>>] \o Removal(c, force))
      PROVE  JoinedInv'
  <2>1. PICK d : d = [i \in DOMAIN subs |-> <<"deleteSubClassOf", subs[i], c>>]
    OBVIOUS
  <2>2. PICK x : x = <<"deleteOwnProperties", c>>
    OBVIOUS
  <2>3. PICK y : y = <<"dropClass", c, force>>
    OBVIOUS
  <2>4. x \in CallSet /\ y \in CallSet /\ Removal(c, force) = <<x, y>> /\ x[1] = "deleteOwnProperties" /\ x[2] = c
    BY <2>2, <2>3 DEF CallSet, Removal
  <2>5. PICK r : r = <<x, y>>
    OBVIOUS
  <2>16. r \in Seq(CallSet) /\ Pending(r) = {x, y}
    BY <2>4, <2>5, TwoCalls
  <2>6. d \in Seq(CallSet) /\ \A i \in DOMAIN d : d[i][1] = "deleteSubClassOf"
    BY <2>1, DeletionsTyped DEF Supers
  <2> HIDE DEF CallSet
  <2>7. PICK s : s = d \o r
    OBVIOUS
  <2>8. s \in Seq(CallSet) /\ Pending(s) = Pending(d) \cup {x, y}
    <3>1. s \in Seq(CallSet) /\ Pending(s) = Pending(d) \cup Pending(r)
      BY <2>6, <2>7, <2>16, PendingJoined
    <3> QED  BY <2>16, <3>1
  <2>9. \A z \in Pending(d) : z[1] = "deleteSubClassOf"
    BY <2>6 DEF Pending
  <2>10. y[1] = "dropClass"
    BY <2>3
  <2>11. \A z \in Pending(s) : z[1] \in {"deleteSubClassOf", "deleteOwnProperties", "dropClass"}
    BY <2>4, <2>8, <2>9, <2>10
  <2>12. c \in Leaving(s)
    BY <2>3, <2>8 DEF Leaving
  <2>13. Becomes(e, s)
    BY <1>3, <2>1, <2>4, <2>5, <2>7
  <2>14. ASSUME failures = 0, ~blurred' PROVE Joined(graph, deleted', s \o Tail(todo[e]))
    <3>1. /\ Joined(graph, deleted, todo[e]) /\ todo[e] \in Seq(CallSet) /\ Head(todo[e]) = Call(e)
          /\ Call(e) \in Pending(todo[e])
      BY <1>1, <2>14, JoinedNow
    <3>2. Len(todo[e]) = 1
      BY <3>1 DEF Pending, AloneInv, Ready
    <3>3. Tail(todo[e]) = <<>> /\ Pending(todo[e]) = {Call(e)}
      BY <3>1, <3>2, LastCall
    <3>4. s \o <<>> = s
      BY <2>8
    <3>5. s \o Tail(todo[e]) = s
      BY <3>3, <3>4
    <3>6. Leaving(todo[e]) = {}
      <4>1. \A a, b : <<"dropClass", a, b>>[1] = "dropClass"
        OBVIOUS
      <4> QED  BY <3>3, <4>1 DEF Leaving
    <3>7. \A z \in Pending(s) : Sound(graph, Leaving(s), Pairs(graph, todo[e]), z)
      <4>1. \A z \in Pending(s) : z[1] = "deleteOwnProperties" => z[2] = c
        BY <2>4, <2>8, <2>9, <2>10
      <4> QED  BY <2>11, <2>12, <4>1 DEF Sound
    <3>8. Ordered(s) /\ Linking(graph, Pairs(graph, todo[e]), s)
      BY <2>11, LooseOrdered DEF Loose, Removing
    <3>9. \A z : z[1] = "unlink" => z \notin Pending(s) /\ z \notin Pending(todo[e])
      BY <2>11, <3>3
    <3>10. Joined(graph, deleted, s)
      BY <3>1, <3>6, <3>7, <3>8, <3>9, TurnedJoined
    <3> QED  BY <1>1, <3>5, <3>10
  <2> QED  BY <2>13, <2>14, BecameJoined
<1> QED  BY <1>2, <1>3 DEF DeleteClass

LEMMA DeleteOwnPropertiesJoined ==
  ASSUME OneEditor, Inv, AloneInv, JoinedInv, NEW e \in Editors, todo[e] # <<>>, NEW c \in Classes,
         Call(e)[1] = "deleteOwnProperties", Call(e)[2] = c, DeleteOwnProperties(e, c)
  PROVE  JoinedInv'
<1>1. PICK own \in Orders(OwnProperties(c)) :
        Becomes(e, [i \in DOMAIN own |-> <<"deleteDatatypeProperty", own[i], c>>])
  BY DEF DeleteOwnProperties
<1>2. OwnProperties(c) \subseteq Props
  BY Disjoint, InvIsGood DEF OwnProperties, Good, Graphs
<1>3. IsFiniteSet(OwnProperties(c))
  BY <1>2, PropsFinite, FS_Subset
<1>4. /\ DOMAIN own = 1..Cardinality(OwnProperties(c)) /\ Cardinality(OwnProperties(c)) \in Nat
      /\ OwnProperties(c) = {own[i] : i \in DOMAIN own}
  BY <1>3, OrderedAll
<1>5. PICK s : s = [i \in DOMAIN own |-> <<"deleteDatatypeProperty", own[i], c>>]
  OBVIOUS
<1>6. \A i \in DOMAIN own : /\ s[i] \in CallSet /\ s[i][1] = "deleteDatatypeProperty"
                            /\ s[i][2] \in OwnProperties(c) /\ s[i][3] = c
  BY <1>2, <1>4, <1>5 DEF CallSet
<1> HIDE DEF CallSet
<1>7. s \in Seq(CallSet) /\ DOMAIN s = DOMAIN own
  <2>1. s \in [1..Cardinality(OwnProperties(c)) -> CallSet]
    BY <1>4, <1>5, <1>6
  <2>2. \A k \in Nat : \A q \in [1..k -> CallSet] : q \in Seq(CallSet) /\ DOMAIN q = 1..k
    OBVIOUS
  <2> QED  BY <1>4, <2>1, <2>2
<1>8. Becomes(e, s) /\ UNCHANGED <<deleted, blurred>>
  BY <1>1, <1>5 DEF DeleteOwnProperties
<1>9. \A z \in Pending(s) : z[1] = "deleteDatatypeProperty" /\ z[2] \in OwnProperties(c) /\ z[3] = c
  BY <1>6, <1>7 DEF Pending
<1>10. ASSUME failures = 0, ~blurred' PROVE Joined(graph, deleted', s \o Tail(todo[e]))
  <2> DEFINE q == todo[e]
             t == s \o Tail(q)
  <2>1. /\ Joined(graph, deleted, q) /\ q \in Seq(CallSet) /\ Head(q) = Call(e)
        /\ Call(e) \in Pending(q) /\ Sound(graph, Leaving(q), Pairs(graph, q), Call(e))
    BY <1>8, <1>10, JoinedNow
  <2>2. c \in Leaving(q)
    BY <2>1 DEF Sound
  <2>3. PICK force \in BOOLEAN : <<"dropClass", c, force>> \in Pending(q)
    BY <2>2 DEF Leaving
  <2>4. \A z \in Pending(q) : z[1] \in Removing
    <3>1. PICK i \in DOMAIN q : q[i] = <<"dropClass", c, force>>
      BY <2>3 DEF Pending
    <3>2. q[i][1] = "dropClass"
      BY <3>1
    <3> QED  BY <3>2 DEF AloneInv, Ready, Closes
  <2>5. Tail(q) \in Seq(CallSet) /\ Pending(q) = {Call(e)} \cup Pending(Tail(q))
    BY <2>1, PendingParts
  <2>6. Pending(t) = Pending(s) \cup Pending(Tail(q))
    BY <1>7, <2>5, PendingJoined
  <2> HIDE DEF t, q
  <2>7. Leaving(q) \subseteq Leaving(t)
    <3>1. \A d, f : <<"dropClass", d, f>> # Call(e)
      OBVIOUS
    <3> QED  BY <2>5, <2>6, <3>1 DEF Leaving
  <2>8. \A z \in Pending(t) : z[1] \in Removing
    BY <1>9, <2>4, <2>5, <2>6 DEF Removing
  <2>9. ASSUME NEW p \in OwnProperties(c), p \in Specific PROVE p[1] = c
    <3>1. ASSUME NEW b \in graph.blocks, b.of = c, b.path = p PROVE p[1] = c
      <4>1. b \in BlocksOf(graph, p)
        BY <3>1 DEF BlocksOf
      <4> QED  BY <2>1, <2>9, <3>1, <4>1 DEF Joined, Agrees
    <3> QED  BY <2>9, <3>1 DEF OwnProperties
  <2>10. \A z \in Pending(s) : Sound(graph, Leaving(t), Pairs(graph, q), z)
    BY <1>9, <2>2, <2>7, <2>9 DEF Sound, Free
  <2>11. Ordered(t) /\ Linking(graph, Pairs(graph, q), t)
    BY <2>8, LooseOrdered DEF Loose
  <2>12. \A z : z[1] = "unlink" => z \notin Pending(t) /\ z \notin Pending(q)
    BY <2>4, <2>8 DEF Removing
  <2>13. \A z \in Pending(t) : z \in Pending(q) \/ Sound(graph, Leaving(t), Pairs(graph, q), z)
    BY <2>5, <2>6, <2>10
  <2>14. Joined(graph, deleted, t)
    BY <2>1, <2>7, <2>11, <2>12, <2>13, TurnedJoined
  <2> QED  BY <1>8, <2>14 DEF t, q
<1> QED  BY <1>8, <1>10, BecameJoined

LEMMA DropClassJoined ==
  ASSUME OneEditor, Inv, AloneInv, JoinedInv, NEW e \in Editors, todo[e] # <<>>, NEW c \in Classes, NEW force \in BOOLEAN,
         Call(e) = <<"dropClass", c, force>>, DropClass(e, c, force)
  PROVE  JoinedInv'
<1> DEFINE h == [graph EXCEPT !.classes = @ \ {c}, !.shapes = @ \ {c},
                              !.subOf = {pair \in @ : pair[1] # c}, !.blocks = {b \in @ : b.of # c}]
           q == todo[e]
           gone == deleted \cup {<<c, force>>}
<1>1. /\ h.classes = graph.classes \ {c} /\ h.types = graph.types /\ h.links = graph.links
      /\ h.subOf = {pair \in graph.subOf : pair[1] # c} /\ h.ranges = graph.ranges
      /\ h.blocks = {b \in graph.blocks : b.of # c}
  BY DEF Inv, Types, Graphs
<1>2. Write(e, h) /\ deleted' = gone /\ UNCHANGED blurred
  BY DEF DropClass
<1>3. Call(e)[1] = "dropClass" /\ Call(e)[2] = c /\ Call(e)[3] = force
  OBVIOUS
<1> HIDE DEF h, q, gone
<1>4. ASSUME failures = 0, ~blurred' PROVE Joined(h, gone, Tail(q))
  <2>1. Joined(graph, deleted, q) /\ q \in Seq(CallSet) /\ Head(q) = Call(e) /\ Call(e) \in Pending(q)
    BY <1>2, <1>4, JoinedNow DEF q
  <2> HIDE DEF CallSet
  <2>2. DOMAIN q = 1..Len(q) /\ Len(q) \in Nat /\ Len(q) >= 1 /\ Head(q) = q[1]
    BY <2>1, PendingParts DEF q
  <2>3. Len(q) = 1 /\ Closes(graph, q, c, force)
    <3>1. Ready(graph, q) /\ 1 \in DOMAIN q /\ q[1][1] = "dropClass" /\ q[1][2] = c /\ q[1][3] = force
      BY <1>3, <2>1, <2>2 DEF AloneInv, q
    <3> QED  BY <3>1 DEF Ready
  <2>4. Tail(q) = <<>> /\ Pending(q) = {Call(e)} /\ Pending(<<>>) = {}
    BY <2>1, <2>3, LastCall DEF Pending
  <2>5. \A p \in Specific : p[1] = c => ~Declares(graph, p)
    BY <1>3, <2>3, <2>4 DEF Closes
  <2>6. Leaving(q) \subseteq {c} /\ Leaving(<<>>) = {}
    <3>1. \A d, f : <<"dropClass", d, f>> = Call(e) => d = c
      OBVIOUS
    <3> QED  BY <2>4, <3>1 DEF Leaving
  <2>7. Pairs(h, <<>>) = Pairs(graph, q)
    <3>1. \A x \in Pending(q) : x[1] # "unlink"
      BY <1>3, <2>4
    <3> QED  BY <1>1, <2>4, <3>1 DEF Pairs
  <2>8. ASSUME NEW p \in Specific PROVE Agrees(h, p)
    <3>1. /\ Relation(h, p) <=> Relation(graph, p)
          /\ Attribute(h, p) <=> Attribute(graph, p)
          /\ RangesOf(h, p) = RangesOf(graph, p)
      BY <1>1 DEF Relation, Attribute, RangesOf
    <3>2. Agrees(graph, p)
      BY <2>1 DEF Joined
    <3>3. \A b \in BlocksOf(graph, p) : b.of # c
      BY <2>5, <3>2 DEF Agrees
    <3>4. BlocksOf(h, p) = BlocksOf(graph, p)
      BY <1>1, <3>3 DEF BlocksOf
    <3> QED  BY <3>1, <3>2, <3>4, AgreesSame
  <2>9. Placed(h)
    BY <1>1, <2>1 DEF Joined, Placed, Relation, Attribute
  <2>10. Coupled(h, gone, {}, Pairs(graph, q))
    <3> DEFINE J == Pairs(graph, q)
    <3>1. Coupled(graph, deleted, Leaving(q), J)
      BY <2>1 DEF Joined
    <3> HIDE DEF J
    <3> SUFFICES ASSUME NEW p \in Props, NEW r \in Props, <<p, r>> \in J
                 PROVE  /\ p \in Specific /\ r \in Specific /\ p # r /\ Relation(h, p) /\ ~Attribute(h, r)
                        /\ r[1] \in h.classes \/ \E f \in BOOLEAN : <<r[1], f>> \in gone
                        /\ ~Association(h, p[1]) => /\ \A s \in h.ranges : s[2] = p => s[3] = r[1]
                                                    /\ \A s \in Props : <<p, s>> \in J => s = r
                        /\ (~Association(h, r[1]) /\ r[1] \in h.classes) => <<r, p>> \in J
      BY DEF Coupled, J
    <3>2. /\ p \in Specific /\ r \in Specific /\ p # r /\ Relation(graph, p) /\ ~Attribute(graph, r)
          /\ r[1] \in graph.classes \/ \E f \in BOOLEAN : <<r[1], f>> \in deleted
          /\ ~Association(graph, p[1]) => /\ \A s \in graph.ranges : s[2] = p => s[3] = r[1]
                                          /\ \A s \in Props : <<p, s>> \in J => s = r
          /\ (~Association(graph, r[1]) /\ r[1] \in graph.classes /\ r[1] \notin Leaving(q)) => <<r, p>> \in J
      BY <3>1 DEF Coupled
    <3>3. Relation(h, p) /\ ~Attribute(h, r)
      BY <1>1, <3>2 DEF Relation, Attribute
    <3>4. p[1] # c
      BY <2>5, <3>2 DEF Declares, Relation
    <3>5. \A d : d # c => (Association(h, d) <=> Association(graph, d))
      BY <1>1 DEF Association
    <3>6. r[1] \in h.classes \/ \E f \in BOOLEAN : <<r[1], f>> \in gone
      BY <1>1, <3>2 DEF gone
    <3>7. (~Association(h, r[1]) /\ r[1] \in h.classes) => <<r, p>> \in J
      BY <1>1, <2>6, <3>2, <3>5
    <3> QED  BY <1>1, <3>2, <3>3, <3>4, <3>5, <3>6, <3>7
  <2>11. Ordered(<<>>) /\ Linking(h, Pairs(h, <<>>), <<>>)
    BY <2>4 DEF Ordered, Linking
  <2> QED  BY <2>4, <2>6, <2>7, <2>8, <2>9, <2>10, <2>11 DEF Joined
<1> QED  BY <1>2, <1>4, WroteJoined DEF q

LEMMA StepJoined ==
  ASSUME OneEditor, Inv, AloneInv, JoinedInv, NEW e \in Editors, Step(e)
  PROVE  JoinedInv'
<1> DEFINE call == Call(e)
<1>1. todo[e] # <<>>
  BY DEF Step
<1>2. call \in CallSet
  BY <1>1, HeadTyped DEF Inv
<1>0. \A op : Now(e, op) => call[1] = op
  BY DEF Now
<1>3. CASE Now(e, "insertClass") /\ InsertClass(e, call[2])
  BY <1>1, <1>2, <1>0, <1>3, ArgumentsTyped, InsertClassJoined
<1>4. CASE Now(e, "insertSubClassOf") /\ InsertSubClassOf(e, call[2], call[3])
  BY <1>1, <1>2, <1>0, <1>4, ArgumentsTyped, SubClassOfJoined
<1>5. CASE Now(e, "deleteSubClassOf") /\ DeleteSubClassOf(e, call[2], call[3])
  BY <1>1, <1>2, <1>0, <1>5, ArgumentsTyped, SubClassOfJoined
<1>6. CASE Now(e, "ensureNodeShape") /\ EnsureNodeShape(e, call[2])
  BY <1>1, <1>2, <1>0, <1>6, ArgumentsTyped, EnsureNodeShapeJoined
<1>7. CASE Now(e, "insertDatatypeProperty") /\ InsertDatatypeProperty(e, call[2], call[3])
  BY <1>1, <1>2, <1>0, <1>7, ArgumentsTyped, InsertDatatypePropertyJoined
<1>8. CASE Now(e, "declareAttribute") /\ DeclareAttribute(e, call[2], call[3])
  BY <1>1, <1>2, <1>0, <1>8, ArgumentsTyped, DeclareAttributeJoined
<1>9. CASE Now(e, "updateDatatypeProperty") /\ UpdateDatatypeProperty(e, call[2])
  BY <1>1, <1>2, <1>0, <1>9, ArgumentsTyped, UpdateDatatypePropertyJoined
<1>10. CASE Now(e, "deleteDatatypeProperty") /\ DeleteDatatypeProperty(e, call[2], call[3])
  BY <1>1, <1>2, <1>0, <1>10, ArgumentsTyped, DeleteJoined DEF DeleteDatatypeProperty
<1>11. CASE Now(e, "insertObjectProperty") /\ InsertObjectProperty(e, call[2], call[3], call[4], call[5])
  BY <1>1, <1>2, <1>0, <1>11, ArgumentsTyped, InsertObjectPropertyJoined
<1>12. CASE Now(e, "shareRelation") /\ ShareRelation(e, call[2], call[3], call[4])
  BY <1>1, <1>2, <1>0, <1>12, ArgumentsTyped, ShareRelationJoined
<1>13. CASE Now(e, "declareRelation") /\ DeclareRelation(e, call[2], call[3], call[4])
  BY <1>1, <1>2, <1>0, <1>13, ArgumentsTyped, DeclareRelationJoined
<1>14. CASE /\ Now(e, "updateObjectProperty")
            /\ UpdateObjectProperty(e, call[2], call[3], call[4], call[5], call[6], call[7])
  <2>1. call[1] = "updateObjectProperty" /\ call[2] \in Classes /\ call[3] \in Props /\ call[5] \in Classes
    BY <1>2, <1>0, <1>14, ArgumentsTyped
  <2>2. CASE call[3] \in Generic
    BY <1>1, <1>14, <2>1, <2>2, UpdateGenericJoined
  <2>3. CASE call[3] \in Specific
    BY <1>1, <1>14, <2>1, <2>3, UpdateSpecificJoined
  <2> QED  BY <2>1, <2>2, <2>3 DEF Props
<1>15. CASE Now(e, "deleteObjectProperty") /\ DeleteObjectProperty(e, call[2], call[3], call[4])
  BY <1>1, <1>2, <1>0, <1>15, ArgumentsTyped, DeleteObjectPropertyJoined
<1>16. CASE Now(e, "link") /\ LinkGeneratedReverse(e, call[2], call[3])
  <2>1. call = <<"link", call[2], call[3]>>
    BY <1>2, <1>0, <1>16 DEF CallSet
  <2> QED  BY <1>1, <1>2, <1>0, <1>16, <2>1, ArgumentsTyped, LinkJoined
<1>17. CASE Now(e, "unlink") /\ UnlinkGeneratedReverse(e, call[2], call[3], call[4], call[5])
  <2>1. call = <<"unlink", call[2], call[3], call[4], call[5]>>
    BY <1>2, <1>0, <1>17 DEF CallSet
  <2> QED  BY <1>1, <1>2, <1>0, <1>17, <2>1, ArgumentsTyped, UnlinkJoined
<1>18. CASE Now(e, "deleteClass") /\ DeleteClass(e, call[2], call[3])
  BY <1>1, <1>2, <1>0, <1>18, ArgumentsTyped, DeleteClassJoined
<1>19. CASE Now(e, "deleteOwnProperties") /\ DeleteOwnProperties(e, call[2])
  BY <1>1, <1>2, <1>0, <1>19, ArgumentsTyped, DeleteOwnPropertiesJoined
<1>20. CASE Now(e, "dropClass") /\ DropClass(e, call[2], call[3])
  <2>1. call = <<"dropClass", call[2], call[3]>>
    BY <1>2, <1>0, <1>20 DEF CallSet
  <2> QED  BY <1>1, <1>2, <1>0, <1>20, <2>1, ArgumentsTyped, DropClassJoined
<1>21. \/ Now(e, "insertClass") /\ InsertClass(e, call[2])
       \/ Now(e, "insertSubClassOf") /\ InsertSubClassOf(e, call[2], call[3])
       \/ Now(e, "deleteSubClassOf") /\ DeleteSubClassOf(e, call[2], call[3])
       \/ Now(e, "ensureNodeShape") /\ EnsureNodeShape(e, call[2])
       \/ Now(e, "insertDatatypeProperty") /\ InsertDatatypeProperty(e, call[2], call[3])
       \/ Now(e, "declareAttribute") /\ DeclareAttribute(e, call[2], call[3])
       \/ Now(e, "updateDatatypeProperty") /\ UpdateDatatypeProperty(e, call[2])
       \/ Now(e, "deleteDatatypeProperty") /\ DeleteDatatypeProperty(e, call[2], call[3])
       \/ Now(e, "insertObjectProperty") /\ InsertObjectProperty(e, call[2], call[3], call[4], call[5])
       \/ Now(e, "shareRelation") /\ ShareRelation(e, call[2], call[3], call[4])
       \/ Now(e, "declareRelation") /\ DeclareRelation(e, call[2], call[3], call[4])
       \/ Now(e, "updateObjectProperty")
          /\ UpdateObjectProperty(e, call[2], call[3], call[4], call[5], call[6], call[7])
       \/ Now(e, "deleteObjectProperty") /\ DeleteObjectProperty(e, call[2], call[3], call[4])
       \/ Now(e, "link") /\ LinkGeneratedReverse(e, call[2], call[3])
       \/ Now(e, "unlink") /\ UnlinkGeneratedReverse(e, call[2], call[3], call[4], call[5])
       \/ Now(e, "deleteClass") /\ DeleteClass(e, call[2], call[3])
       \/ Now(e, "deleteOwnProperties") /\ DeleteOwnProperties(e, call[2])
       \/ Now(e, "dropClass") /\ DropClass(e, call[2], call[3])
  BY Zenon DEF Step
<1> QED
  BY <1>3, <1>4, <1>5, <1>6, <1>7, <1>8, <1>9, <1>10, <1>11, <1>12, <1>13, <1>14, <1>15, <1>16, <1>17,
     <1>18, <1>19, <1>20, <1>21

(* The handlers: their calls are of what their editor sees. *)

LEMMA BeganJoined ==
  ASSUME OneEditor, Inv, JoinedInv, NEW e \in Editors, NEW calls, Begin(e, calls),
         Joined(graph, deleted, <<>>) => Joined(graph, deleted, calls)
  PROVE  JoinedInv'
<1>1. /\ todo[e] = <<>> /\ todo'[e] = calls /\ graph' = graph /\ deleted' = deleted
      /\ failures' = failures /\ blurred' = blurred
  BY DEF Begin, Inv, Types
<1>2. ASSUME failures = 0, ~blurred' PROVE Joined(graph, deleted, calls)
  BY <1>1, <1>2 DEF JoinedInv
<1> QED  BY <1>1, <1>2, GoneOn

LEMMA AtRest == Pending(<<>>) = {} /\ Leaving(<<>>) = {}
  BY DEF Pending, Leaving

\* Calls that unlink nothing.
LEMMA StartedJoined ==
  ASSUME NEW g, NEW gone, NEW s, Joined(g, gone, <<>>), Ordered(s), Linking(g, Pairs(g, <<>>), s),
         \A x \in Pending(s) : x[1] # "unlink" /\ Sound(g, {}, Pairs(g, <<>>), x)
  PROVE  Joined(g, gone, s)
<1>1. \A x \in Pending(s) : Sound(g, Leaving(s), Pairs(g, <<>>), x)
  BY SoundMore
<1> QED  BY <1>1, AtRest, TurnedJoined

\* Calls that unlink p and r.
LEMMA PartedJoined ==
  ASSUME NEW g, NEW gone, NEW s, NEW p \in Props, NEW r \in Props, Joined(g, gone, <<>>),
         Ordered(s), Linking(g, Pairs(g, s), s),
         \E x \in Pending(s) : x[1] = "unlink", \A x \in Pending(s) : x[1] = "unlink" => x[2] = p /\ x[4] = r,
         (\A a, b \in Props : <<a, b>> \in Pairs(g, s) <=>
            (<<a, b>> \in Pairs(g, <<>>) /\ ~(a = p /\ b = r) /\ ~(a = r /\ b = p)))
         => \A x \in Pending(s) : Sound(g, {}, Pairs(g, s), x)
  PROVE  Joined(g, gone, s)
<1> DEFINE J == Pairs(g, <<>>)
           K == Pairs(g, s)
<1>1. ASSUME NEW a \in Props, NEW b \in Props
      PROVE  <<a, b>> \in K <=> (<<a, b>> \in J /\ ~(a = p /\ b = r) /\ ~(a = r /\ b = p))
  <2>1. <<a, b>> \in J <=> <<a, "inverseOf", b>> \in g.links
    BY AtRest, PairIs
  <2>2. <<a, b>> \in K <=>
          /\ <<a, "inverseOf", b>> \in g.links
          /\ \A x \in Pending(s) : x[1] = "unlink" => ~(a = x[2] /\ b = x[4]) /\ ~(a = x[4] /\ b = x[2])
    BY PairIs
  <2> QED  BY <2>1, <2>2
<1>2. Coupled(g, gone, {}, J)
  BY AtRest DEF Joined
<1> HIDE DEF J, K
<1>3. Coupled(g, gone, Leaving(s), K)
  BY <1>1, <1>2 DEF Coupled
<1>4. \A x \in Pending(s) : Sound(g, Leaving(s), K, x)
  BY <1>1, SoundMore DEF J, K
<1> QED  BY <1>3, <1>4 DEF Joined, K

\* A call or calls that are of no specific property.
LEMMA EasyJoined ==
  ASSUME NEW g, NEW gone, NEW s, Joined(g, gone, <<>>),
         \A x \in Pending(s) :
           x[1] \in {"insertClass", "insertSubClassOf", "deleteSubClassOf", "deleteClass", "insertObjectProperty"}
  PROVE  Joined(g, gone, s)
<1>1. Ordered(s) /\ Linking(g, Pairs(g, <<>>), s)
  BY LooseOrdered DEF Loose, Removing
<1>2. \A x \in Pending(s) : x[1] # "unlink" /\ Sound(g, {}, Pairs(g, <<>>), x)
  BY DEF Sound
<1> QED  BY <1>1, <1>2, StartedJoined

LEMMA EasyOne ==
  ASSUME OneEditor, Inv, JoinedInv, NEW e \in Editors, NEW x, Begin(e, <<x>>),
         x[1] \in {"insertClass", "insertSubClassOf", "deleteSubClassOf", "deleteClass", "insertObjectProperty"}
  PROVE  JoinedInv'
<1>1. PICK s : s = <<x>>
  OBVIOUS
<1>2. Pending(s) = {x}
  BY <1>1, OneCall
<1>3. Joined(graph, deleted, <<>>) => Joined(graph, deleted, s)
  BY <1>2, EasyJoined
<1> QED  BY <1>1, <1>3, BeganJoined

LEMMA EntitiesJoined ==
  ASSUME OneEditor, Inv, JoinedInv, NEW e \in Editors, NEW c, NEW force,
         CreateEntity(e, c) \/ DeleteEntity(e, c, force) \/ ToggleAssociation(e, c)
  PROVE  JoinedInv'
<1>1. PICK x : /\ x = <<"insertClass", c>> \/ x = <<"deleteClass", c, force>> \/ x = <<"deleteSubClassOf", c, Marker>>
               /\ Begin(e, <<x>>)
  BY DEF CreateEntity, DeleteEntity, ToggleAssociation
<1>2. x[1] \in {"insertClass", "deleteClass", "deleteSubClassOf"}
  BY <1>1
<1> QED  BY <1>1, <1>2, EasyOne

LEMMA InheritanceJoined ==
  ASSUME OneEditor, Inv, JoinedInv, NEW e \in Editors, NEW s, NEW t,
         DrawInheritance(e, s, t) \/ DeleteInheritance(e, s, t)
  PROVE  JoinedInv'
<1>1. PICK x : /\ x = <<"deleteSubClassOf", s, t>> \/ x = <<"insertSubClassOf", s, t>>
               /\ Begin(e, <<x>>)
  BY DEF DrawInheritance, DeleteInheritance
<1>2. x[1] \in {"insertSubClassOf", "deleteSubClassOf"}
  BY <1>1
<1> QED  BY <1>1, <1>2, EasyOne

LEMMA RemoveStubJoined ==
  ASSUME OneEditor, Inv, JoinedInv, NEW e \in Editors, NEW x \in External, RemoveStub(e, x)
  PROVE  JoinedInv'
<1>1. PICK subs \in Orders(Subclasses(x)) : Begin(e, [i \in DOMAIN subs |-> <<"deleteSubClassOf", subs[i], x>>])
  BY DEF RemoveStub
<1>2. PICK s : s = [i \in DOMAIN subs |-> <<"deleteSubClassOf", subs[i], x>>]
  OBVIOUS
<1>3. \A y \in Pending(s) : y[1] = "deleteSubClassOf"
  BY <1>2 DEF Pending
<1>4. Joined(graph, deleted, <<>>) => Joined(graph, deleted, s)
  BY <1>3, EasyJoined
<1> QED  BY <1>1, <1>2, <1>4, BeganJoined

LEMMA CreateAssociationJoined ==
  ASSUME OneEditor, Inv, JoinedInv, NEW e \in Editors, NEW c, NEW n, NEW t, NEW m, NEW u, CreateAssociation(e, c, n, t, m, u)
  PROVE  JoinedInv'
<1>1. PICK s : s = <<<<"insertClass", c>>, <<"insertSubClassOf", c, Marker>>,
                     <<"insertObjectProperty", c, t, n, "specific">>, <<"insertObjectProperty", c, u, m, "specific">>>>
  OBVIOUS
<1>2. Begin(e, s)
  BY <1>1 DEF CreateAssociation
<1>3. /\ DOMAIN s = {1, 2, 3, 4} /\ s[1][1] = "insertClass" /\ s[2][1] = "insertSubClassOf"
      /\ s[3][1] = "insertObjectProperty" /\ s[4][1] = "insertObjectProperty"
  BY <1>1
<1>4. \A y \in Pending(s) : y[1] \in {"insertClass", "insertSubClassOf", "insertObjectProperty"}
  BY <1>3 DEF Pending
<1>5. Joined(graph, deleted, <<>>) => Joined(graph, deleted, s)
  BY <1>4, EasyJoined
<1> QED  BY <1>2, <1>5, BeganJoined

\* No pair is of an attribute.
LEMMA AttributesJoined ==
  ASSUME OneEditor, Inv, JoinedInv, NEW e \in Editors, NEW c \in Classes, NEW n \in Names,
         SubmitAttribute(e, c, n) \/ DeleteAttribute(e, c, n)
  PROVE  JoinedInv'
<1> DEFINE p == <<c, n>>
<1>1. PICK x : /\ \/ x = <<"insertDatatypeProperty", c, n>>
                  \/ x = <<"updateDatatypeProperty", p>> /\ Attribute(graph, p)
                  \/ x = <<"deleteDatatypeProperty", p, c>> /\ Attribute(graph, p)
               /\ Begin(e, <<x>>)
  BY DEF SubmitAttribute, DeleteAttribute, Attribute
<1>2. p \in Specific /\ p \in Props /\ p[1] = c
  BY Disjoint DEF Specific
<1> HIDE DEF p
<1>3. /\ x[1] \in {"insertDatatypeProperty", "updateDatatypeProperty", "deleteDatatypeProperty"}
      /\ x[1] = "updateDatatypeProperty" => x[2] = p /\ Attribute(graph, p)
      /\ x[1] = "deleteDatatypeProperty" => x[2] = p /\ x[3] = c /\ Attribute(graph, p)
  BY <1>1
<1>4. PICK s : s = <<x>>
  OBVIOUS
<1>5. Pending(s) = {x} /\ DOMAIN s = {1} /\ s[1] = x /\ Len(s) = 1
  BY <1>4, OneCall
<1>6. ASSUME Joined(graph, deleted, <<>>) PROVE Joined(graph, deleted, s)
  <2>1. Coupled(graph, deleted, {}, Pairs(graph, <<>>))
    BY <1>6, AtRest DEF Joined
  <2>2. Attribute(graph, p) => Free(graph, {}, Pairs(graph, <<>>), p)
    BY <1>2, <2>1 DEF Free, Coupled
  <2>3. Sound(graph, {}, Pairs(graph, <<>>), x)
    BY <1>2, <1>3, <2>2 DEF Sound
  <2>4. Ordered(s) /\ Linking(graph, Pairs(graph, <<>>), s)
    BY <1>3, <1>5 DEF Ordered, Linking
  <2> QED  BY <1>3, <1>5, <1>6, <2>3, <2>4, StartedJoined
<1> QED  BY <1>1, <1>4, <1>6, BeganJoined

\* Calls one after the other.
LEMMA SingleIs ==
  ASSUME NEW x \in CallSet, NEW a, a = <<x>>
  PROVE  a \in Seq(CallSet) /\ Len(a) = 1 /\ a[1] = x
  BY OneCall

LEMMA CoupleIs ==
  ASSUME NEW x \in CallSet, NEW y \in CallSet, NEW a, a = <<x, y>>
  PROVE  a \in Seq(CallSet) /\ Len(a) = 2 /\ a[1] = x /\ a[2] = y
  BY TwoCalls

LEMMA CallsOf ==
  ASSUME NEW s \in Seq(CallSet)
  PROVE  /\ Len(s) = 2 => DOMAIN s = {1, 2} /\ \A w : w \in Pending(s) <=> w = s[1] \/ w = s[2]
         /\ Len(s) = 3 => DOMAIN s = {1, 2, 3} /\ \A w : w \in Pending(s) <=> w = s[1] \/ w = s[2] \/ w = s[3]
         /\ Len(s) = 5 => /\ DOMAIN s = {1, 2, 3, 4, 5}
                          /\ \A w : w \in Pending(s) <=> w = s[1] \/ w = s[2] \/ w = s[3] \/ w = s[4] \/ w = s[5]
<1> HIDE DEF CallSet
<1>1. DOMAIN s = 1..Len(s)
  OBVIOUS
<1>2. 1..2 = {1, 2} /\ 1..3 = {1, 2, 3} /\ 1..5 = {1, 2, 3, 4, 5}
  OBVIOUS
<1>3. /\ Len(s) = 2 => DOMAIN s = {1, 2}
      /\ Len(s) = 3 => DOMAIN s = {1, 2, 3}
      /\ Len(s) = 5 => DOMAIN s = {1, 2, 3, 4, 5}
  BY <1>1, <1>2
<1> QED  BY <1>3 DEF Pending

LEMMA OneAndOne ==
  ASSUME NEW a \in Seq(CallSet), NEW b \in Seq(CallSet), Len(a) = 1, Len(b) = 1
  PROVE  a \o b \in Seq(CallSet) /\ Len(a \o b) = 2 /\ (a \o b)[1] = a[1] /\ (a \o b)[2] = b[1]
<1> HIDE DEF CallSet
<1>1. PICK s : s = a \o b
  OBVIOUS
<1>2. /\ s \in Seq(CallSet) /\ DOMAIN s = 1..(Len(a) + Len(b)) /\ Len(s) = Len(a) + Len(b)
      /\ \A i \in DOMAIN s : s[i] = IF i <= Len(a) THEN a[i] ELSE b[i - Len(a)]
  BY <1>1, PendingJoined
<1>3. 1 + 1 = 2 /\ 1 \in 1..2 /\ 2 \in 1..2 /\ 2 - 1 = 1 /\ 1 <= 1 /\ ~(2 <= 1)
  OBVIOUS
<1>4. s[1] = a[1] /\ s[2] = b[2 - 1]
  BY <1>2, <1>3
<1> QED  BY <1>1, <1>2, <1>3, <1>4

LEMMA OneAndTwo ==
  ASSUME NEW a \in Seq(CallSet), NEW b \in Seq(CallSet), Len(a) = 1, Len(b) = 2
  PROVE  /\ a \o b \in Seq(CallSet) /\ Len(a \o b) = 3
         /\ (a \o b)[1] = a[1] /\ (a \o b)[2] = b[1] /\ (a \o b)[3] = b[2]
<1> HIDE DEF CallSet
<1>1. PICK s : s = a \o b
  OBVIOUS
<1>2. /\ s \in Seq(CallSet) /\ DOMAIN s = 1..(Len(a) + Len(b)) /\ Len(s) = Len(a) + Len(b)
      /\ \A i \in DOMAIN s : s[i] = IF i <= Len(a) THEN a[i] ELSE b[i - Len(a)]
  BY <1>1, PendingJoined
<1>3. /\ 1 + 2 = 3 /\ 1 \in 1..3 /\ 2 \in 1..3 /\ 3 \in 1..3 /\ 2 - 1 = 1 /\ 3 - 1 = 2
      /\ 1 <= 1 /\ ~(2 <= 1) /\ ~(3 <= 1)
  OBVIOUS
<1>4. s[1] = a[1] /\ s[2] = b[2 - 1] /\ s[3] = b[3 - 1]
  BY <1>2, <1>3
<1> QED  BY <1>1, <1>2, <1>3, <1>4

LEMMA TwoAndTwo ==
  ASSUME NEW a \in Seq(CallSet), NEW b \in Seq(CallSet), Len(a) = 2, Len(b) = 2
  PROVE  /\ a \o b \in Seq(CallSet) /\ Len(a \o b) = 4
         /\ (a \o b)[1] = a[1] /\ (a \o b)[2] = a[2] /\ (a \o b)[3] = b[1] /\ (a \o b)[4] = b[2]
<1> HIDE DEF CallSet
<1>1. PICK s : s = a \o b
  OBVIOUS
<1>2. /\ s \in Seq(CallSet) /\ DOMAIN s = 1..(Len(a) + Len(b)) /\ Len(s) = Len(a) + Len(b)
      /\ \A i \in DOMAIN s : s[i] = IF i <= Len(a) THEN a[i] ELSE b[i - Len(a)]
  BY <1>1, PendingJoined
<1>3. /\ 2 + 2 = 4 /\ 1 \in 1..4 /\ 2 \in 1..4 /\ 3 \in 1..4 /\ 4 \in 1..4 /\ 3 - 2 = 1 /\ 4 - 2 = 2
      /\ 1 <= 2 /\ 2 <= 2 /\ ~(3 <= 2) /\ ~(4 <= 2)
  OBVIOUS
<1>4. s[1] = a[1] /\ s[2] = a[2] /\ s[3] = b[3 - 2] /\ s[4] = b[4 - 2]
  BY <1>2, <1>3
<1> QED  BY <1>1, <1>2, <1>3, <1>4

LEMMA OneAndFour ==
  ASSUME NEW a \in Seq(CallSet), NEW b \in Seq(CallSet), Len(a) = 1, Len(b) = 4
  PROVE  /\ a \o b \in Seq(CallSet) /\ Len(a \o b) = 5 /\ (a \o b)[1] = a[1]
         /\ (a \o b)[2] = b[1] /\ (a \o b)[3] = b[2] /\ (a \o b)[4] = b[3] /\ (a \o b)[5] = b[4]
<1> HIDE DEF CallSet
<1>1. PICK s : s = a \o b
  OBVIOUS
<1>2. /\ s \in Seq(CallSet) /\ DOMAIN s = 1..(Len(a) + Len(b)) /\ Len(s) = Len(a) + Len(b)
      /\ \A i \in DOMAIN s : s[i] = IF i <= Len(a) THEN a[i] ELSE b[i - Len(a)]
  BY <1>1, PendingJoined
<1>3. /\ 1 + 4 = 5 /\ 1 \in 1..5 /\ 2 \in 1..5 /\ 3 \in 1..5 /\ 4 \in 1..5 /\ 5 \in 1..5
      /\ 2 - 1 = 1 /\ 3 - 1 = 2 /\ 4 - 1 = 3 /\ 5 - 1 = 4
      /\ 1 <= 1 /\ ~(2 <= 1) /\ ~(3 <= 1) /\ ~(4 <= 1) /\ ~(5 <= 1)
  OBVIOUS
<1>4. s[1] = a[1] /\ s[2] = b[2 - 1] /\ s[3] = b[3 - 1] /\ s[4] = b[4 - 1] /\ s[5] = b[5 - 1]
  BY <1>2, <1>3
<1> QED  BY <1>1, <1>2, <1>3, <1>4

\* The calls that draw a reverse.
LEMMA ReverseIs ==
  ASSUME NEW p \in Props, NEW c \in Classes, NEW t \in Classes, NEW m \in Names
  PROVE  \E y \in CallSet, z \in CallSet :
           /\ Reverse(p, c, t, m) = <<y, z>>
           /\ y[1] = "insertObjectProperty" /\ y[2] = t /\ y[3] = c /\ y[4] = m /\ y[5] = "specific"
           /\ z[1] = "link" /\ z[2] = p /\ z[3] = <<t, m>>
<1>1. PICK y : y = <<"insertObjectProperty", t, c, m, "specific">>
  OBVIOUS
<1>2. PICK z : z = <<"link", p, <<t, m>>>>
  OBVIOUS
<1>3. y \in CallSet /\ z \in CallSet
  BY <1>1, <1>2 DEF CallSet, Kinds, Props, Specific
<1> HIDE DEF CallSet
<1> QED  BY <1>1, <1>2, <1>3 DEF Reverse

LEMMA DrawRelationJoined ==
  ASSUME OneEditor, Inv, JoinedInv, NEW e \in Editors, NEW c \in Classes, NEW t \in Classes, NEW n \in Names,
         DrawRelation(e, c, t, n)
  PROVE  JoinedInv'
<1>1. ASSUME NEW kind, Begin(e, <<<<"insertObjectProperty", c, t, n, kind>>>>) PROVE JoinedInv'
  <2>1. PICK x : x = <<"insertObjectProperty", c, t, n, kind>>
    OBVIOUS
  <2>2. x[1] = "insertObjectProperty" /\ Begin(e, <<x>>)
    BY <1>1, <2>1
  <2> QED  BY <2>2, EasyOne
<1>2. ASSUME NEW m \in Drawn, Begin(e, <<<<"insertObjectProperty", c, t, n, "specific">>>> \o Reverse(<<c, n>>, c, t, m))
      PROVE  JoinedInv'
  <2> DEFINE p == <<c, n>>
             r == <<t, m>>
             J == Pairs(graph, <<>>)
  <2>1. PICK x : x = <<"insertObjectProperty", c, t, n, "specific">>
    OBVIOUS
  <2>2. x \in CallSet /\ x[1] = "insertObjectProperty" /\ x[2] = c /\ x[3] = t /\ x[4] = n /\ x[5] = "specific"
    BY <2>1 DEF CallSet, Kinds
  <2>3. m \in Names
    BY SchemaEditsAssumption
  <2>4. p \in Specific /\ r \in Specific /\ p \in Props /\ p[1] = c /\ p[2] = n /\ r[1] = t /\ r[2] = m
    BY <2>3, Disjoint DEF Specific
  <2>5. PICK y \in CallSet, z \in CallSet :
          /\ Reverse(p, c, t, m) = <<y, z>>
          /\ y[1] = "insertObjectProperty" /\ y[2] = t /\ y[3] = c /\ y[4] = m /\ y[5] = "specific"
          /\ z[1] = "link" /\ z[2] = p /\ z[3] = r
    BY <2>3, <2>4, ReverseIs
  <2>15. PICK a : a = <<x>>
    OBVIOUS
  <2>16. PICK b : b = <<y, z>>
    OBVIOUS
  <2>6. PICK s : s = a \o b
    OBVIOUS
  <2>8. Begin(e, s)
    BY <1>2, <2>1, <2>5, <2>15, <2>16, <2>6
  <2> HIDE DEF CallSet, p, r, J
  <2>7. /\ \A w : w \in Pending(s) <=> w = x \/ w = y \/ w = z
        /\ DOMAIN s = {1, 2, 3} /\ Len(s) = 3 /\ s[1] = x /\ s[2] = y /\ s[3] = z
    <3>1. x \in CallSet /\ y \in CallSet /\ z \in CallSet
      BY <2>2, <2>5
    <3>2. a \in Seq(CallSet) /\ Len(a) = 1 /\ a[1] = x
      BY <2>15, <3>1, SingleIs
    <3>3. b \in Seq(CallSet) /\ Len(b) = 2 /\ b[1] = y /\ b[2] = z
      BY <2>16, <3>1, CoupleIs
    <3>4. s \in Seq(CallSet) /\ Len(s) = 3 /\ s[1] = a[1] /\ s[2] = b[1] /\ s[3] = b[2]
      BY <2>6, <3>2, <3>3, OneAndTwo
    <3>5. DOMAIN s = {1, 2, 3} /\ \A w : w \in Pending(s) <=> w = s[1] \/ w = s[2] \/ w = s[3]
      BY <3>4, CallsOf
    <3> QED  BY <3>2, <3>3, <3>4, <3>5
  <2>9. Draws(s[Len(s) - 1], r, p[1]) /\ \E j \in 1..Len(s) - 2 : Draws(s[j], p, r[1])
    <3>1. s[Len(s) - 1] = y /\ 1 \in 1..Len(s) - 2
      BY <2>7
    <3>2. Draws(y, r, p[1]) /\ Draws(x, p, r[1])
      BY <2>2, <2>4, <2>5 DEF Draws
    <3> QED  BY <2>7, <3>1, <3>2
  <2>10. Matched(graph, J, s, p, r)
    BY <2>2, <2>4, <2>5, <2>7, <2>9 DEF Matched
  <2>11. Linking(graph, J, s)
    BY <2>2, <2>5, <2>7, <2>10 DEF Linking
  <2>12. Ordered(s)
    BY <2>2, <2>5, <2>7 DEF Ordered
  <2>13. \A w \in Pending(s) : w[1] # "unlink" /\ Sound(graph, {}, J, w)
    BY <2>2, <2>5, <2>7 DEF Sound
  <2>14. Joined(graph, deleted, <<>>) => Joined(graph, deleted, s)
    BY <2>11, <2>12, <2>13, StartedJoined DEF J
  <2> QED  BY <2>8, <2>14, BeganJoined
<1> QED  BY <1>1, <1>2, Zenon DEF DrawRelation

\* What the graph says of a relation that the canvas shows.
LEMMA EdgeIs ==
  ASSUME Inv, NEW edge \in Relations, edge[2] \in Specific
  PROVE  /\ edge[2][1] = edge[1] /\ edge[1] \in graph.classes /\ edge[3] \in graph.classes
         /\ Relation(graph, edge[2]) /\ \E r \in graph.ranges : r[2] = edge[2] /\ r[3] = edge[3]
<1>1. edge[2] \notin Generic
  BY Disjoint
<1>2. /\ {edge[1], edge[3]} \subseteq graph.classes /\ <<edge[2], "relation">> \in graph.types
      /\ edge[2][1] = edge[1] /\ <<HomeOf[edge[1]], edge[2], edge[3]>> \in graph.ranges
  BY <1>1 DEF Relations
<1>3. PICK r : r = <<HomeOf[edge[1]], edge[2], edge[3]>>
  OBVIOUS
<1>4. r[2] = edge[2] /\ r[3] = edge[3]
  BY <1>3
<1> QED  BY <1>2, <1>3, <1>4 DEF Relation

\* Its reverse, of a class that is no association: the only one, and of the class it is drawn to.
LEMMA PartnerIs ==
  ASSUME Inv, NEW edge \in Relations, edge[2] \in Specific, ~Association(graph, edge[1]), Joined(graph, deleted, <<>>),
         NEW r \in Props, r \in Inverses(edge[2])
  PROVE  /\ r \in Specific /\ r # edge[2] /\ r # None /\ r[1] = edge[3] /\ ~Attribute(graph, r)
         /\ <<edge[2], r>> \in Pairs(graph, <<>>)
         /\ \A s \in Props : /\ <<edge[2], s>> \in Pairs(graph, <<>>) => s = r
                             /\ <<s, edge[2]>> \in Pairs(graph, <<>>) => s = r
         /\ ~Association(graph, edge[3]) =>
              /\ <<r, edge[2]>> \in Pairs(graph, <<>>)
              /\ \A s \in Props : /\ <<r, s>> \in Pairs(graph, <<>>) => s = edge[2]
                                  /\ <<s, r>> \in Pairs(graph, <<>>) => s = edge[2]
<1> DEFINE J == Pairs(graph, <<>>)
           p == edge[2]
<1>1. p \in Props
  BY Disjoint
<1>2. \A a, b \in Props : <<a, b>> \in J <=> <<a, "inverseOf", b>> \in graph.links
  BY AtRest, PairIs
<1>3. <<p, r>> \in J
  BY <1>1, <1>2 DEF Inverses
<1>4. Coupled(graph, deleted, {}, J)
  BY AtRest DEF Joined
<1>5. /\ p[1] = edge[1] /\ p[1] \in graph.classes /\ edge[3] \in graph.classes
      /\ \E w \in graph.ranges : w[2] = p /\ w[3] = edge[3]
  BY EdgeIs
<1> HIDE DEF J, p
<1>6. /\ r \in Specific /\ p # r /\ ~Attribute(graph, r)
      /\ \A s \in graph.ranges : s[2] = p => s[3] = r[1]
      /\ \A s \in Props : <<p, s>> \in J => s = r
  BY <1>1, <1>3, <1>4, <1>5 DEF Coupled, p
<1>7. r[1] = edge[3]
  BY <1>5, <1>6
<1>8. r # None
  BY <1>6, NamesApart DEF Specific
<1>9. \A s \in Props : <<s, p>> \in J => <<p, s>> \in J
  BY <1>1, <1>4, <1>5 DEF Coupled
<1>10. ASSUME ~Association(graph, edge[3])
       PROVE  /\ <<r, p>> \in J
              /\ \A s \in Props : (<<r, s>> \in J => s = p) /\ (<<s, r>> \in J => s = p)
  <2>1. <<r, p>> \in J
    BY <1>1, <1>3, <1>4, <1>5, <1>7, <1>10 DEF Coupled
  <2>2. \A s \in Props : <<r, s>> \in J => s = p
    BY <1>1, <1>4, <1>7, <1>10, <2>1 DEF Coupled
  <2>3. \A s \in Props : <<s, r>> \in J => <<r, s>> \in J
    BY <1>4, <1>5, <1>7, <1>10 DEF Coupled
  <2> QED  BY <2>1, <2>2, <2>3
<1> QED  BY <1>3, <1>6, <1>7, <1>8, <1>9, <1>10 DEF J, p

LEMMA NoPartner ==
  ASSUME Inv, NEW edge \in Relations, edge[2] \in Specific, ~Association(graph, edge[1]), Joined(graph, deleted, <<>>),
         Inverses(edge[2]) = {}
  PROVE  \A s \in Props : <<edge[2], s>> \notin Pairs(graph, <<>>) /\ <<s, edge[2]>> \notin Pairs(graph, <<>>)
<1> DEFINE p == edge[2]
           J == Pairs(graph, <<>>)
<1>1. p \in Props
  BY Disjoint
<1>2. \A a, b \in Props : <<a, b>> \in J <=> <<a, "inverseOf", b>> \in graph.links
  BY AtRest, PairIs
<1>3. \A s \in Props : <<p, s>> \notin J
  BY <1>1, <1>2 DEF Inverses
<1>4. Coupled(graph, deleted, {}, J)
  BY AtRest DEF Joined
<1>5. p[1] = edge[1] /\ p[1] \in graph.classes
  BY EdgeIs
<1> HIDE DEF p, J
<1>6. \A s \in Props : <<s, p>> \in J => <<p, s>> \in J
  BY <1>1, <1>4, <1>5 DEF Coupled
<1> QED  BY <1>3, <1>6 DEF p, J

\* The calls of the handlers that edit and delete a relation.
UpdateOf(x, edge, t) ==
  x[1] = "updateObjectProperty" /\ x[2] = edge[1] /\ x[3] = edge[2] /\ x[5] = t /\ x[7] = "specific"
UnlinkOf(x, edge, r) == x[1] = "unlink" /\ x[2] = edge[2] /\ x[3] = edge[1] /\ x[4] = r /\ x[5] = edge[3]
KeepOf(x, edge, r) ==
  x[1] = "updateObjectProperty" /\ x[2] = edge[3] /\ x[3] = r /\ x[5] = edge[1] /\ x[7] = "specific"
DeleteOf(x, p) == x[1] = "deleteObjectProperty" /\ x[2] = p /\ x[3] = p[1]
InsertOf(x, r, c) == x[1] = "insertObjectProperty" /\ x[2] = r[1] /\ x[3] = c /\ x[4] = r[2] /\ x[5] = "specific"
LinkOf(x, p, r) == x[1] = "link" /\ x[2] = p /\ x[3] = r

\* What a handler that makes two, three or five calls has before it.
AreTwo(s, x, y) ==
  DOMAIN s = {1, 2} /\ Len(s) = 2 /\ s[1] = x /\ s[2] = y /\ \A w : w \in Pending(s) <=> w = x \/ w = y
AreThree(s, x, y, z) ==
  /\ DOMAIN s = {1, 2, 3} /\ Len(s) = 3 /\ s[1] = x /\ s[2] = y /\ s[3] = z
  /\ \A w : w \in Pending(s) <=> w = x \/ w = y \/ w = z
AreFive(s, v, w, x, y, z) ==
  /\ DOMAIN s = {1, 2, 3, 4, 5} /\ Len(s) = 5 /\ s[1] = v /\ s[2] = w /\ s[3] = x /\ s[4] = y /\ s[5] = z
  /\ \A o : o \in Pending(s) <=> o = v \/ o = w \/ o = x \/ o = y \/ o = z

LEMMA SoundUpdate ==
  ASSUME Inv, NEW edge \in Relations, edge[2] \in Specific, Joined(graph, deleted, <<>>),
         NEW t, NEW x, UpdateOf(x, edge, t), NEW J, \A s \in Props : <<edge[2], s>> \in J => t = s[1]
  PROVE  Sound(graph, {}, J, x)
<1>1. ~Attribute(graph, edge[2])
  BY EdgeIs DEF Joined, Placed
<1> QED  BY <1>1, EdgeIs DEF Sound, UpdateOf

LEMMA SoundUnlink ==
  ASSUME Inv, NEW edge \in Relations, edge[2] \in Specific, NEW r \in Specific, r[1] = edge[3],
         NEW x, UnlinkOf(x, edge, r), NEW J
  PROVE  Sound(graph, {}, J, x)
  BY EdgeIs DEF Sound, UnlinkOf

LEMMA SoundDelete ==
  ASSUME NEW p, NEW x, DeleteOf(x, p), NEW J, p \in Specific => Free(graph, {}, J, p)
  PROVE  Sound(graph, {}, J, x)
  BY DEF Sound, DeleteOf

LEMMA SoundDrawing ==
  ASSUME NEW x, x[1] \in {"insertObjectProperty", "link"}, NEW J
  PROVE  Sound(graph, {}, J, x)
  BY DEF Sound

\* The reverse is unlinked, and may be deleted.
LEMMA Parting ==
  ASSUME Inv, NEW edge \in Relations, edge[2] \in Specific, ~Association(graph, edge[1]), Joined(graph, deleted, <<>>),
         NEW r \in Props, r \in Inverses(edge[2]), NEW K,
         \A a, b \in Props :
           <<a, b>> \in K <=> (<<a, b>> \in Pairs(graph, <<>>) /\ ~(a = edge[2] /\ b = r) /\ ~(a = r /\ b = edge[2]))
  PROVE  (\A s \in Props : <<edge[2], s>> \notin K) /\ Free(graph, {}, K, r) /\ Free(graph, {}, K, edge[2])
<1> DEFINE p == edge[2]
           J == Pairs(graph, <<>>)
<1>1. p \in Props
  BY Disjoint
<1>2. /\ r[1] = edge[3]
      /\ \A s \in Props : (<<p, s>> \in J => s = r) /\ (<<s, p>> \in J => s = r)
      /\ ~Association(graph, edge[3]) => \A s \in Props : <<s, r>> \in J => s = p
  BY PartnerIs
<1>3. \A a, b \in Props : <<a, b>> \in K <=> (<<a, b>> \in J /\ ~(a = p /\ b = r) /\ ~(a = r /\ b = p))
  OBVIOUS
<1> HIDE DEF p, J
<1>4. \A s \in Props : <<p, s>> \notin K /\ <<s, p>> \notin K
  BY <1>1, <1>2, <1>3
<1>5. ~Association(graph, r[1]) => \A s \in Props : <<s, r>> \notin K
  BY <1>1, <1>2, <1>3
<1> QED  BY <1>4, <1>5 DEF Free, p

\* The relation alone, which has no reverse.
LEMMA EditedAlone ==
  ASSUME Inv, NEW edge \in Relations, edge[2] \in Specific, ~Association(graph, edge[1]), Joined(graph, deleted, <<>>),
         NEW t, NEW x, UpdateOf(x, edge, t), Inverses(edge[2]) = {}, NEW s, s = <<x>>
  PROVE  Joined(graph, deleted, s)
<1> DEFINE J == Pairs(graph, <<>>)
<1>1. Pending(s) = {x} /\ DOMAIN s = {1} /\ s[1] = x /\ Len(s) = 1
  BY OneCall
<1>2. \A r \in Props : <<edge[2], r>> \notin J
  BY NoPartner
<1> HIDE DEF J
<1>3. Sound(graph, {}, J, x)
  BY <1>2, SoundUpdate
<1>4. Ordered(s) /\ Linking(graph, J, s)
  BY <1>1 DEF Ordered, Linking, UpdateOf
<1> QED  BY <1>1, <1>3, <1>4, StartedJoined DEF J, UpdateOf

\* A reverse is drawn to a relation that has none.
LEMMA ReverseDrawn ==
  ASSUME Inv, NEW edge \in Relations, edge[2] \in Specific, ~Association(graph, edge[1]), Joined(graph, deleted, <<>>),
         NEW r \in Specific, Inverses(edge[2]) = {},
         NEW x, UpdateOf(x, edge, r[1]), NEW y, InsertOf(y, r, edge[1]), NEW z, LinkOf(z, edge[2], r),
         NEW s, AreThree(s, x, y, z)
  PROVE  Joined(graph, deleted, s)
<1> USE DEF AreThree
<1> DEFINE J == Pairs(graph, <<>>)
           p == edge[2]
<1>1. \A q \in Props : <<p, q>> \notin J
  BY NoPartner
<1>2. p[1] = edge[1] /\ Relation(graph, p)
  BY EdgeIs
<1> HIDE DEF J
<1>3. Sound(graph, {}, J, x) /\ Sound(graph, {}, J, y) /\ Sound(graph, {}, J, z)
  BY <1>1, SoundUpdate, SoundDrawing DEF InsertOf, LinkOf
<1> HIDE DEF p
<1>4. Ordered(s)
  BY DEF Ordered, UpdateOf, InsertOf, LinkOf
<1>5. Matched(graph, J, s, p, r)
  <2>1. Draws(s[Len(s) - 1], r, p[1])
    <3>1. s[Len(s) - 1] = y
      OBVIOUS
    <3> QED  BY <1>2, <3>1 DEF Draws, InsertOf
  <2>2. Updates(s[1], p)
    BY DEF p, Updates, UpdateOf
  <2>3. \A w \in Pending(s) :
          /\ w[1] \in {"insertObjectProperty", "updateObjectProperty", "link"}
          /\ w[1] = "insertObjectProperty" => w[5] = "specific"
          /\ w[1] = "updateObjectProperty" => w[3] = p /\ w[5] = r[1]
    BY DEF p, UpdateOf, InsertOf, LinkOf
  <2> QED  BY <1>1, <1>2, <2>1, <2>2, <2>3 DEF Matched, p
<1>6. Linking(graph, J, s)
  BY <1>5 DEF Linking, p, UpdateOf, InsertOf, LinkOf
<1>7. \A w \in Pending(s) : w[1] # "unlink" /\ Sound(graph, {}, J, w)
  BY <1>3 DEF UpdateOf, InsertOf, LinkOf
<1> QED  BY <1>4, <1>6, <1>7, StartedJoined DEF J

\* The target stays, and so does the reverse.
LEMMA ReverseKept ==
  ASSUME Inv, NEW edge \in Relations, edge[2] \in Specific, ~Association(graph, edge[1]), Joined(graph, deleted, <<>>),
         NEW r \in Props, r \in Inverses(edge[2]), NEW x, UpdateOf(x, edge, edge[3]),
         NEW y, KeepOf(y, edge, r),
         NEW s, AreTwo(s, x, y)
  PROVE  Joined(graph, deleted, s)
<1> USE DEF AreTwo
<1> DEFINE J == Pairs(graph, <<>>)
           p == edge[2]
<1>1. /\ r \in Specific /\ r[1] = edge[3] /\ ~Attribute(graph, r)
      /\ \A q \in Props : <<p, q>> \in J => q = r
      /\ ~Association(graph, edge[3]) => \A q \in Props : <<r, q>> \in J => q = p
  BY PartnerIs
<1>2. p[1] = edge[1] /\ edge[3] \in graph.classes
  BY EdgeIs
<1> HIDE DEF J
<1>3. Sound(graph, {}, J, x)
  BY <1>1, SoundUpdate
<1>4. Sound(graph, {}, J, y)
  BY <1>1, <1>2 DEF Sound, KeepOf
<1>5. Ordered(s) /\ Linking(graph, J, s)
  BY DEF Ordered, Linking, UpdateOf, KeepOf
<1>6. \A w \in Pending(s) : w[1] # "unlink" /\ Sound(graph, {}, J, w)
  BY <1>3, <1>4 DEF UpdateOf, KeepOf
<1> QED  BY <1>5, <1>6, StartedJoined DEF J

\* The reverse is removed.
LEMMA ReverseRemoved ==
  ASSUME Inv, NEW edge \in Relations, edge[2] \in Specific, ~Association(graph, edge[1]), Joined(graph, deleted, <<>>),
         NEW t, NEW r \in Props, r \in Inverses(edge[2]),
         NEW x, UpdateOf(x, edge, t), NEW u, UnlinkOf(u, edge, r), NEW d, DeleteOf(d, r),
         NEW s, AreThree(s, x, u, d)
  PROVE  Joined(graph, deleted, s)
<1> USE DEF AreThree
<1> DEFINE J == Pairs(graph, <<>>)
           K == Pairs(graph, s)
           p == edge[2]
<1>1. r \in Specific /\ r[1] = edge[3] /\ p \in Props
  BY PartnerIs, Disjoint
<1>2. ASSUME \A a, b \in Props : <<a, b>> \in K <=> (<<a, b>> \in J /\ ~(a = p /\ b = r) /\ ~(a = r /\ b = p))
      PROVE  \A w \in Pending(s) : Sound(graph, {}, K, w)
  <2>1. (\A q \in Props : <<p, q>> \notin K) /\ Free(graph, {}, K, r)
    BY <1>2, Parting
  <2> HIDE DEF J, K
  <2>2. Sound(graph, {}, K, x) /\ Sound(graph, {}, K, u) /\ Sound(graph, {}, K, d)
    BY <1>1, <2>1, SoundUpdate, SoundUnlink, SoundDelete
  <2> QED  BY <2>2
<1>3. Ordered(s) /\ Linking(graph, K, s)
  BY DEF Ordered, Linking, UpdateOf, UnlinkOf, DeleteOf
<1>4. (\E w \in Pending(s) : w[1] = "unlink") /\ \A w \in Pending(s) : w[1] = "unlink" => w[2] = p /\ w[4] = r
  BY DEF UpdateOf, UnlinkOf, DeleteOf
<1> QED  BY <1>1, <1>2, <1>3, <1>4, PartedJoined

\* The reverse is replaced by another.
LEMMA ReverseReplaced ==
  ASSUME Inv, NEW edge \in Relations, edge[2] \in Specific, ~Association(graph, edge[1]), Joined(graph, deleted, <<>>),
         NEW r \in Props, r \in Inverses(edge[2]), NEW q \in Specific,
         NEW x, UpdateOf(x, edge, q[1]), NEW u, UnlinkOf(u, edge, r), NEW d, DeleteOf(d, r),
         NEW y, InsertOf(y, q, edge[1]), NEW z, LinkOf(z, edge[2], q),
         NEW s, AreFive(s, x, u, d, y, z)
  PROVE  Joined(graph, deleted, s)
<1> USE DEF AreFive
<1> DEFINE J == Pairs(graph, <<>>)
           K == Pairs(graph, s)
           p == edge[2]
<1>1. r \in Specific /\ r[1] = edge[3] /\ r # p /\ p \in Props
  BY PartnerIs, Disjoint
<1>2. p[1] = edge[1] /\ Relation(graph, p)
  BY EdgeIs
<1>3. (\E w \in Pending(s) : w[1] = "unlink") /\ \A w \in Pending(s) : w[1] = "unlink" => w[2] = p /\ w[4] = r
  BY DEF UpdateOf, UnlinkOf, DeleteOf, InsertOf, LinkOf
<1>4. ASSUME NEW a \in Props, NEW b \in Props
      PROVE  <<a, b>> \in K <=> (<<a, b>> \in J /\ ~(a = p /\ b = r) /\ ~(a = r /\ b = p))
  <2>1. <<a, b>> \in J <=> <<a, "inverseOf", b>> \in graph.links
    BY AtRest, PairIs
  <2>2. <<a, b>> \in K <=>
          /\ <<a, "inverseOf", b>> \in graph.links
          /\ \A w \in Pending(s) : w[1] = "unlink" => ~(a = w[2] /\ b = w[4]) /\ ~(a = w[4] /\ b = w[2])
    BY PairIs
  <2> QED  BY <1>3, <2>1, <2>2
<1>5. (\A o \in Props : <<p, o>> \notin K) /\ Free(graph, {}, K, r)
  BY <1>4, Parting
<1> HIDE DEF J, K
<1>6. Sound(graph, {}, K, x) /\ Sound(graph, {}, K, u) /\ Sound(graph, {}, K, d)
  BY <1>1, <1>5, SoundUpdate, SoundUnlink, SoundDelete
<1>7. Sound(graph, {}, K, y) /\ Sound(graph, {}, K, z)
  BY SoundDrawing DEF InsertOf, LinkOf
<1>8. Ordered(s)
  BY DEF Ordered, UpdateOf, UnlinkOf, DeleteOf, InsertOf, LinkOf
<1> HIDE DEF p
<1>9. Matched(graph, K, s, p, q)
  <2>1. Draws(s[Len(s) - 1], q, p[1])
    <3>1. s[Len(s) - 1] = y
      OBVIOUS
    <3> QED  BY <1>2, <3>1 DEF Draws, InsertOf
  <2>2. Updates(s[1], p)
    BY DEF p, Updates, UpdateOf
  <2>3. \A w \in Pending(s) :
          /\ w[1] \in {"insertObjectProperty", "updateObjectProperty", "unlink", "deleteObjectProperty", "link"}
          /\ w[1] = "insertObjectProperty" => w[5] = "specific"
          /\ w[1] = "updateObjectProperty" => w[3] = p /\ w[5] = q[1]
          /\ w[1] = "deleteObjectProperty" => w[2] # p
    BY <1>1 DEF p, UpdateOf, UnlinkOf, DeleteOf, InsertOf, LinkOf
  <2> QED  BY <1>2, <1>5, <2>1, <2>2, <2>3 DEF Matched, p
<1>10. Linking(graph, K, s)
  BY <1>9 DEF Linking, p, UpdateOf, UnlinkOf, DeleteOf, InsertOf, LinkOf
<1>11. \A w \in Pending(s) : Sound(graph, {}, K, w)
  BY <1>6, <1>7
<1> QED  BY <1>1, <1>3, <1>8, <1>10, <1>11, PartedJoined DEF J, K, p

LEMMA NoCalls == ASSUME NEW a \in Seq(CallSet) PROVE a \o <<>> = a /\ <<>> \o a = a
<1> HIDE DEF CallSet
<1> QED  OBVIOUS

\* An update, a deletion or a drawing of what is not specific.
LEMMA GenericCall ==
  ASSUME OneEditor, Inv, JoinedInv, NEW e \in Editors, NEW x, Begin(e, <<x>>),
         \/ x[1] = "updateObjectProperty" /\ x[3] \notin Specific
         \/ x[1] = "deleteObjectProperty" /\ x[2] \notin Specific
  PROVE  JoinedInv'
<1>1. PICK s : s = <<x>>
  OBVIOUS
<1>2. Pending(s) = {x} /\ DOMAIN s = {1} /\ s[1] = x /\ Len(s) = 1
  BY <1>1, OneCall
<1>3. ASSUME Joined(graph, deleted, <<>>) PROVE Joined(graph, deleted, s)
  <2>1. x[1] # "unlink" /\ Sound(graph, {}, Pairs(graph, <<>>), x)
    BY DEF Sound
  <2>2. Ordered(s) /\ Linking(graph, Pairs(graph, <<>>), s)
    BY <1>2 DEF Ordered, Linking
  <2> QED  BY <1>2, <1>3, <2>1, <2>2, StartedJoined
<1> QED  BY <1>1, <1>3, BeganJoined

\* The calls that remove a reverse.
LEMMA RemovalIs ==
  ASSUME NEW edge, edge[1] \in Classes, edge[2] \in Props, edge[3] \in Classes, NEW r \in Props, r[1] = edge[3]
  PROVE  \E u \in CallSet, d \in CallSet :
           /\ u = <<"unlink", edge[2], edge[1], r, edge[3]>> /\ d = <<"deleteObjectProperty", r, edge[3], None>>
           /\ UnlinkOf(u, edge, r) /\ DeleteOf(d, r)
<1>1. PICK u : u = <<"unlink", edge[2], edge[1], r, edge[3]>>
  OBVIOUS
<1>2. PICK d : d = <<"deleteObjectProperty", r, edge[3], None>>
  OBVIOUS
<1>3. u \in CallSet /\ d \in CallSet
  BY <1>1, <1>2 DEF CallSet
<1> HIDE DEF CallSet
<1>4. UnlinkOf(u, edge, r) /\ DeleteOf(d, r)
  BY <1>1, <1>2 DEF UnlinkOf, DeleteOf
<1> QED  BY <1>1, <1>2, <1>3, <1>4

\* The calls that draw one.
LEMMA ReverseCalls ==
  ASSUME NEW p \in Props, NEW c \in Classes, NEW t \in Classes, NEW m \in Names
  PROVE  /\ <<t, m>> \in Specific
         /\ \E y \in CallSet, z \in CallSet :
              Reverse(p, c, t, m) = <<y, z>> /\ InsertOf(y, <<t, m>>, c) /\ LinkOf(z, p, <<t, m>>)
<1>1. PICK y \in CallSet, z \in CallSet :
        /\ Reverse(p, c, t, m) = <<y, z>>
        /\ y[1] = "insertObjectProperty" /\ y[2] = t /\ y[3] = c /\ y[4] = m /\ y[5] = "specific"
        /\ z[1] = "link" /\ z[2] = p /\ z[3] = <<t, m>>
  BY ReverseIs
<1>2. <<t, m>>[1] = t /\ <<t, m>>[2] = m /\ <<t, m>> \in Specific
  BY DEF Specific
<1> HIDE DEF CallSet
<1>3. InsertOf(y, <<t, m>>, c) /\ LinkOf(z, p, <<t, m>>)
  BY <1>1, <1>2 DEF InsertOf, LinkOf
<1> QED  BY <1>1, <1>2, <1>3

LEMMA EditRelationJoined ==
  ASSUME OneEditor, Inv, JoinedInv, NEW e \in Editors, NEW edge \in Relations, NEW t \in Classes, NEW n \in Names,
         EditRelation(e, edge, t, n)
  PROVE  JoinedInv'
<1> DEFINE c == edge[1]
           p == edge[2]
           old == edge[3]
           update(kind) == <<<<"updateObjectProperty", c, p, old, t, n, kind>>>>
           remove(q) == IF q = None THEN <<>>
                        ELSE <<<<"unlink", p, c, q, old>>, <<"deleteObjectProperty", q, old, None>>>>
           keep(q, m) == <<<<"updateObjectProperty", old, q, None, c, m, "specific">>>>
           partners == IF Inverses(p) = {} THEN {None} ELSE Inverses(p)
           next(q, m) == IF Kept(q, old, t) THEN keep(q, m) ELSE remove(q) \o Reverse(p, c, t, m)
<1>1. c \in Classes /\ p \in Props /\ old \in Classes
  BY RelationsTyped
<1>2. ~Association(graph, c) /\ Drawn \subseteq Names /\ Inverses(p) \subseteq Props
  BY InversesTyped, SchemaEditsAssumption DEF EditRelation, IsAssociation, Association
<1>3. \/ p \in Generic /\ Begin(e, update("generic"))
      \/ /\ p \in Specific
         /\ \E q \in partners : \/ Begin(e, update("specific") \o remove(q))
                               \/ \E m \in Drawn : Begin(e, update("specific") \o next(q, m))
  BY Zenon DEF EditRelation
<1>4. ASSUME p \in Generic, Begin(e, update("generic")) PROVE JoinedInv'
  <2>1. PICK x : x = <<"updateObjectProperty", c, p, old, t, n, "generic">>
    OBVIOUS
  <2>2. x[1] = "updateObjectProperty" /\ x[3] \notin Specific /\ Begin(e, <<x>>)
    BY <1>4, <2>1, Disjoint
  <2> QED  BY <2>2, GenericCall
<1>5. ASSUME p \in Specific, NEW q \in partners, NEW s, Begin(e, s),
             s = update("specific") \o remove(q) \/ \E m \in Drawn : s = update("specific") \o next(q, m)
      PROVE  JoinedInv'
  <2> SUFFICES ASSUME Joined(graph, deleted, <<>>) PROVE Joined(graph, deleted, s)
    BY <1>5, BeganJoined
  <2>1. PICK x : x = <<"updateObjectProperty", c, p, old, t, n, "specific">>
    OBVIOUS
  <2>2. x \in CallSet /\ UpdateOf(x, edge, t)
    BY <1>1, <2>1 DEF CallSet, Kinds, UpdateOf
  <2>3. PICK a : a = <<x>>
    OBVIOUS
  <2>4. a = update("specific")
    BY <2>1, <2>3
  <2>5. a \in Seq(CallSet) /\ Len(a) = 1 /\ a[1] = x
    BY <2>2, <2>3, SingleIs
  <2> HIDE DEF update, CallSet
  <2>7. ASSUME NEW m \in Drawn
        PROVE  \E y \in CallSet, z \in CallSet, b \in Seq(CallSet), r \in Specific :
                 /\ b = Reverse(p, c, t, m) /\ Len(b) = 2 /\ b[1] = y /\ b[2] = z
                 /\ r[1] = t /\ InsertOf(y, r, c) /\ LinkOf(z, p, r)
    <3>1. m \in Names
      BY <1>2
    <3>2. PICK r : r = <<t, m>>
      OBVIOUS
    <3>3. PICK y \in CallSet, z \in CallSet : Reverse(p, c, t, m) = <<y, z>> /\ InsertOf(y, r, c) /\ LinkOf(z, p, r)
      BY <1>1, <3>1, <3>2, ReverseCalls
    <3>4. r \in Specific /\ r[1] = t
      BY <1>1, <3>1, <3>2, ReverseCalls
    <3>5. PICK b : b = <<y, z>>
      OBVIOUS
    <3>6. b \in Seq(CallSet) /\ Len(b) = 2 /\ b[1] = y /\ b[2] = z
      BY <3>5, CoupleIs
    <3> QED  BY <3>3, <3>4, <3>5, <3>6
  <2>8. CASE Inverses(p) = {}
    <3>1. q = None
      BY <1>5, <2>8
    <3>2. remove(q) = <<>> /\ ~Kept(q, old, t)
      BY <3>1 DEF Kept
    <3>3. ASSUME s = a \o <<>> PROVE Joined(graph, deleted, s)
      <4>1. s = <<x>>
        BY <2>3, <2>5, <3>3, NoCalls
      <4> QED  BY <1>2, <1>5, <2>2, <2>8, <4>1, EditedAlone
    <3>4. ASSUME NEW m \in Drawn, s = a \o (<<>> \o Reverse(p, c, t, m)) PROVE Joined(graph, deleted, s)
      <4>1. PICK y \in CallSet, z \in CallSet, b \in Seq(CallSet), r \in Specific :
              /\ b = Reverse(p, c, t, m) /\ Len(b) = 2 /\ b[1] = y /\ b[2] = z
              /\ r[1] = t /\ InsertOf(y, r, c) /\ LinkOf(z, p, r)
        BY <2>7
      <4>2. s = a \o b
        BY <3>4, <4>1, NoCalls
      <4>3. s \in Seq(CallSet) /\ Len(s) = 3 /\ s[1] = x /\ s[2] = y /\ s[3] = z
        BY <2>5, <4>1, <4>2, OneAndTwo
      <4>4. AreThree(s, x, y, z)
        BY <4>3, CallsOf DEF AreThree
      <4>5. UpdateOf(x, edge, r[1])
        BY <2>2, <4>1
      <4> QED  BY <1>2, <1>5, <2>8, <4>1, <4>4, <4>5, ReverseDrawn
    <3> HIDE DEF remove
    <3>5. \A m \in Drawn : next(q, m) = <<>> \o Reverse(p, c, t, m)
      BY <3>2
    <3> HIDE DEF next
    <3> QED  BY <1>5, <2>4, <3>2, <3>3, <3>4, <3>5
  <2>9. CASE Inverses(p) # {}
    <3>1. q \in Inverses(p) /\ q \in Props
      BY <1>2, <1>5, <2>9
    <3>2. q # None /\ q[1] = old
      BY <1>2, <1>5, <3>1, PartnerIs
    <3>3. PICK u \in CallSet, d \in CallSet :
            /\ u = <<"unlink", p, c, q, old>> /\ d = <<"deleteObjectProperty", q, old, None>>
            /\ UnlinkOf(u, edge, q) /\ DeleteOf(d, q)
      BY <1>1, <3>1, <3>2, RemovalIs
    <3>4. PICK f : f = <<u, d>>
      OBVIOUS
    <3>5. f = remove(q)
      BY <3>2, <3>3, <3>4
    <3>6. f \in Seq(CallSet) /\ Len(f) = 2 /\ f[1] = u /\ f[2] = d
      BY <3>4, CoupleIs
    <3> HIDE DEF remove
    <3>7. ASSUME s = a \o f PROVE Joined(graph, deleted, s)
      <4>1. s \in Seq(CallSet) /\ Len(s) = 3 /\ s[1] = x /\ s[2] = u /\ s[3] = d
        BY <2>5, <3>6, <3>7, OneAndTwo
      <4>2. AreThree(s, x, u, d)
        BY <4>1, CallsOf DEF AreThree
      <4> QED  BY <1>2, <1>5, <2>2, <3>1, <3>3, <4>2, ReverseRemoved
    <3>8. ASSUME NEW m \in Drawn, s = a \o keep(q, m), old = t PROVE Joined(graph, deleted, s)
      <4>1. PICK y : y = <<"updateObjectProperty", old, q, None, c, m, "specific">>
        OBVIOUS
      <4>2. y \in CallSet /\ KeepOf(y, edge, q)
        BY <1>1, <1>2, <3>1, <4>1 DEF CallSet, Kinds, KeepOf
      <4>3. PICK b : b = <<y>>
        OBVIOUS
      <4>4. b \in Seq(CallSet) /\ Len(b) = 1 /\ b[1] = y
        BY <4>2, <4>3, SingleIs
      <4>5. s = a \o b
        BY <3>8, <4>1, <4>3
      <4>6. s \in Seq(CallSet) /\ Len(s) = 2 /\ s[1] = x /\ s[2] = y
        BY <2>5, <4>4, <4>5, OneAndOne
      <4>7. AreTwo(s, x, y)
        BY <4>6, CallsOf DEF AreTwo
      <4>8. UpdateOf(x, edge, edge[3])
        BY <2>2, <3>8
      <4> QED  BY <1>2, <1>5, <3>1, <4>2, <4>7, <4>8, ReverseKept
    <3>9. ASSUME NEW m \in Drawn, s = a \o (f \o Reverse(p, c, t, m)) PROVE Joined(graph, deleted, s)
      <4>1. PICK y \in CallSet, z \in CallSet, b \in Seq(CallSet), r \in Specific :
              /\ b = Reverse(p, c, t, m) /\ Len(b) = 2 /\ b[1] = y /\ b[2] = z
              /\ r[1] = t /\ InsertOf(y, r, c) /\ LinkOf(z, p, r)
        BY <2>7
      <4>2. PICK h : h = f \o b
        OBVIOUS
      <4>3. s = a \o h
        BY <3>9, <4>1, <4>2
      <4>4. h \in Seq(CallSet) /\ Len(h) = 4 /\ h[1] = u /\ h[2] = d /\ h[3] = y /\ h[4] = z
        BY <3>6, <4>1, <4>2, TwoAndTwo
      <4>5. s \in Seq(CallSet) /\ Len(s) = 5 /\ s[1] = x /\ s[2] = u /\ s[3] = d /\ s[4] = y /\ s[5] = z
        BY <2>5, <4>3, <4>4, OneAndFour
      <4>6. AreFive(s, x, u, d, y, z)
        BY <4>5, CallsOf DEF AreFive
      <4>7. UpdateOf(x, edge, r[1])
        BY <2>2, <4>1
      <4> QED  BY <1>2, <1>5, <3>1, <3>3, <4>1, <4>6, <4>7, ReverseReplaced
    <3> HIDE DEF keep
    <3>10. \A m \in Drawn : (next(q, m) = keep(q, m) /\ old = t) \/ next(q, m) = f \o Reverse(p, c, t, m)
      BY <3>5 DEF Kept
    <3> HIDE DEF next
    <3> QED  BY <1>5, <2>4, <3>5, <3>7, <3>8, <3>9, <3>10
  <2> QED  BY <2>8, <2>9
<1> HIDE DEF update, remove, next, partners
<1> QED  BY <1>3, <1>4, <1>5

\* A deletion on its own.
LEMMA DeleteCall ==
  ASSUME OneEditor, Inv, JoinedInv, NEW e \in Editors, NEW p, NEW x, Begin(e, <<x>>), DeleteOf(x, p),
         Joined(graph, deleted, <<>>) => Free(graph, {}, Pairs(graph, <<>>), p)
  PROVE  JoinedInv'
<1>1. PICK s : s = <<x>>
  OBVIOUS
<1>2. Pending(s) = {x} /\ DOMAIN s = {1} /\ s[1] = x /\ Len(s) = 1
  BY <1>1, OneCall
<1>3. ASSUME Joined(graph, deleted, <<>>) PROVE Joined(graph, deleted, s)
  <2>1. x[1] # "unlink" /\ Sound(graph, {}, Pairs(graph, <<>>), x)
    BY <1>3, SoundDelete DEF DeleteOf
  <2>2. Ordered(s) /\ Linking(graph, Pairs(graph, <<>>), s)
    BY <1>2 DEF Ordered, Linking, DeleteOf
  <2> QED  BY <1>2, <1>3, <2>1, <2>2, StartedJoined
<1> QED  BY <1>1, <1>3, BeganJoined

\* The pair is broken before the relation goes.
LEMMA RelationUnpaired ==
  ASSUME Inv, NEW edge \in Relations, ~Association(graph, edge[1]), Joined(graph, deleted, <<>>),
         NEW r \in Props, r \in Inverses(edge[2]), NEW u, UnlinkOf(u, edge, r), NEW d, DeleteOf(d, edge[2]),
         NEW s, AreTwo(s, u, d)
  PROVE  Joined(graph, deleted, s)
<1> USE DEF AreTwo
<1> DEFINE J == Pairs(graph, <<>>)
           K == Pairs(graph, s)
           p == edge[2]
<1>1. p \in Props
  BY RelationsTyped
<1>2. p \in Specific
  <2>1. <<p, r>> \in J
    <3>1. <<p, r>> \in J <=> <<p, "inverseOf", r>> \in graph.links
      BY <1>1, AtRest, PairIs
    <3> QED  BY <3>1 DEF Inverses
  <2>2. Coupled(graph, deleted, {}, J)
    BY AtRest DEF Joined
  <2> HIDE DEF J, p
  <2> QED  BY <1>1, <2>1, <2>2 DEF Coupled
<1>3. r \in Specific /\ r[1] = edge[3]
  BY <1>2, PartnerIs
<1>4. ASSUME \A a, b \in Props : <<a, b>> \in K <=> (<<a, b>> \in J /\ ~(a = p /\ b = r) /\ ~(a = r /\ b = p))
      PROVE  \A w \in Pending(s) : Sound(graph, {}, K, w)
  <2>1. Free(graph, {}, K, p)
    BY <1>2, <1>4, Parting
  <2> HIDE DEF J, K
  <2>2. Sound(graph, {}, K, u) /\ Sound(graph, {}, K, d)
    BY <1>2, <1>3, <2>1, SoundUnlink, SoundDelete
  <2> QED  BY <2>2
<1>5. Ordered(s) /\ Linking(graph, K, s)
  BY DEF Ordered, Linking, UnlinkOf, DeleteOf
<1>6. (\E w \in Pending(s) : w[1] = "unlink") /\ \A w \in Pending(s) : w[1] = "unlink" => w[2] = p /\ w[4] = r
  BY DEF UnlinkOf, DeleteOf
<1> QED  BY <1>1, <1>4, <1>5, <1>6, PartedJoined

LEMMA DeleteRelationJoined ==
  ASSUME OneEditor, Inv, JoinedInv, NEW e \in Editors, NEW edge \in Relations, DeleteRelation(e, edge)
  PROVE  JoinedInv'
<1> DEFINE p == edge[2]
<1>1. edge[1] \in Classes /\ p \in Props /\ edge[3] \in Classes /\ Inverses(p) \subseteq Props
  BY RelationsTyped, InversesTyped
<1>2. ~Association(graph, edge[1])
  BY DEF DeleteRelation, IsAssociation, Association
<1>3. PICK d : d = <<"deleteObjectProperty", p, edge[1], edge[3]>>
  OBVIOUS
<1>4. \/ Inverses(p) = {} /\ Begin(e, <<d>>)
      \/ \E q \in Inverses(p) : Begin(e, <<<<"unlink", p, edge[1], q, edge[3]>>>> \o <<d>>)
  BY <1>3 DEF DeleteRelation
<1>5. d \in CallSet /\ d[1] = "deleteObjectProperty" /\ d[2] = p /\ d[3] = edge[1]
  BY <1>1, <1>3 DEF CallSet
<1>6. p \in Specific => DeleteOf(d, p)
  BY <1>5, EdgeIs DEF DeleteOf
<1> HIDE DEF CallSet
<1>7. CASE Inverses(p) = {} /\ Begin(e, <<d>>)
  <2>1. CASE p \notin Specific
    BY <1>5, <1>7, <2>1, GenericCall
  <2>2. CASE p \in Specific
    <3>1. Joined(graph, deleted, <<>>) => \A s \in Props : <<s, p>> \notin Pairs(graph, <<>>)
      BY <1>2, <1>7, <2>2, NoPartner
    <3>2. Joined(graph, deleted, <<>>) => Free(graph, {}, Pairs(graph, <<>>), p)
      BY <3>1 DEF Free
    <3> QED  BY <1>6, <1>7, <2>2, <3>2, DeleteCall
  <2> QED  BY <2>1, <2>2
<1>8. ASSUME NEW q \in Inverses(p), Begin(e, <<<<"unlink", p, edge[1], q, edge[3]>>>> \o <<d>>) PROVE JoinedInv'
  <2>1. PICK u : u = <<"unlink", p, edge[1], q, edge[3]>>
    OBVIOUS
  <2>2. u \in CallSet /\ UnlinkOf(u, edge, q) /\ q \in Props
    <3>1. q \in Props
      BY <1>1, <1>8
    <3>2. u \in CallSet
      BY <1>1, <2>1, <3>1 DEF CallSet
    <3> QED  BY <2>1, <3>1, <3>2 DEF UnlinkOf
  <2>3. PICK a : a = <<u>>
    OBVIOUS
  <2>4. PICK b : b = <<d>>
    OBVIOUS
  <2>5. PICK s : s = a \o b
    OBVIOUS
  <2>6. Begin(e, s)
    BY <1>8, <2>1, <2>3, <2>4, <2>5
  <2>7. a \in Seq(CallSet) /\ Len(a) = 1 /\ a[1] = u
    BY <2>2, <2>3, SingleIs
  <2>8. b \in Seq(CallSet) /\ Len(b) = 1 /\ b[1] = d
    BY <1>5, <2>4, SingleIs
  <2>9. s \in Seq(CallSet) /\ Len(s) = 2 /\ s[1] = u /\ s[2] = d
    BY <2>5, <2>7, <2>8, OneAndOne
  <2>10. AreTwo(s, u, d)
    BY <2>9, CallsOf DEF AreTwo
  <2>11. ASSUME Joined(graph, deleted, <<>>) PROVE Joined(graph, deleted, s)
    <3>1. p \in Specific
      <4>1. <<p, q>> \in Pairs(graph, <<>>) <=> <<p, "inverseOf", q>> \in graph.links
        BY <1>1, <2>2, AtRest, PairIs
      <4>2. <<p, q>> \in Pairs(graph, <<>>)
        BY <4>1 DEF Inverses
      <4>3. Coupled(graph, deleted, {}, Pairs(graph, <<>>))
        BY <2>11, AtRest DEF Joined
      <4> HIDE DEF p
      <4> QED  BY <1>1, <2>2, <4>2, <4>3 DEF Coupled
    <3> QED  BY <1>2, <1>6, <2>2, <2>10, <2>11, <3>1, RelationUnpaired
  <2> QED  BY <2>6, <2>11, BeganJoined
<1> QED  BY <1>4, <1>7, <1>8

\* The links of an association need not be told from their reverses.
LEMMA LinkIs ==
  ASSUME NEW c, IsAssociation(c), NEW p, p[1] = c, NEW J
  PROVE  Association(graph, c) /\ Free(graph, {}, J, p)
  BY DEF IsAssociation, Association, Free

LEMMA DeleteLinkJoined ==
  ASSUME OneEditor, Inv, JoinedInv, NEW e \in Editors, NEW edge \in Relations, DeleteLink(e, edge)
  PROVE  JoinedInv'
<1>1. PICK d : d = <<"deleteObjectProperty", edge[2], edge[1], None>>
  OBVIOUS
<1>2. IsAssociation(edge[1]) /\ Begin(e, <<d>>)
  BY <1>1 DEF DeleteLink
<1>3. d[1] = "deleteObjectProperty" /\ d[2] = edge[2] /\ d[3] = edge[1]
  BY <1>1
<1>4. CASE edge[2] \notin Specific
  BY <1>2, <1>3, <1>4, GenericCall
<1>5. CASE edge[2] \in Specific
  <2>1. edge[2][1] = edge[1]
    BY <1>5, EdgeIs
  <2>2. DeleteOf(d, edge[2]) /\ Free(graph, {}, Pairs(graph, <<>>), edge[2])
    BY <1>2, <1>3, <2>1, LinkIs DEF DeleteOf
  <2> QED  BY <1>2, <2>2, DeleteCall
<1> QED  BY <1>4, <1>5

LEMMA SubmitLinkJoined ==
  ASSUME OneEditor, Inv, JoinedInv, NEW e \in Editors, NEW c \in Classes, NEW t \in Classes, NEW n \in Names,
         SubmitLink(e, c, t, n)
  PROVE  JoinedInv'
<1>1. IsAssociation(c)
  BY DEF SubmitLink
<1>2. CASE Begin(e, <<<<"insertObjectProperty", c, t, n, "specific">>>>)
  <2>1. PICK x : x = <<"insertObjectProperty", c, t, n, "specific">>
    OBVIOUS
  <2>2. x[1] = "insertObjectProperty" /\ Begin(e, <<x>>)
    BY <1>2, <2>1
  <2> QED  BY <2>2, EasyOne
<1>3. ASSUME NEW edge \in Links(c), Begin(e, <<<<"updateObjectProperty", c, edge[2], None, t, n, "specific">>>>)
      PROVE  JoinedInv'
  <2>1. PICK x : x = <<"updateObjectProperty", c, edge[2], None, t, n, "specific">>
    OBVIOUS
  <2>2. x[1] = "updateObjectProperty" /\ x[2] = c /\ x[3] = edge[2] /\ x[7] = "specific" /\ Begin(e, <<x>>)
    BY <1>3, <2>1
  <2>3. edge \in Relations /\ edge[1] = c
    BY <1>3 DEF Links
  <2>4. CASE edge[2] \notin Specific
    BY <2>2, <2>4, GenericCall
  <2>5. CASE edge[2] \in Specific
    <3>1. PICK s : s = <<x>>
      OBVIOUS
    <3>2. Pending(s) = {x} /\ DOMAIN s = {1} /\ s[1] = x /\ Len(s) = 1
      BY <3>1, OneCall
    <3>3. edge[2][1] = c /\ c \in graph.classes /\ Relation(graph, edge[2])
      BY <2>3, <2>5, EdgeIs
    <3>4. ASSUME Joined(graph, deleted, <<>>) PROVE Joined(graph, deleted, s)
      <4>1. ~Attribute(graph, edge[2])
        BY <2>5, <3>3, <3>4 DEF Joined, Placed
      <4>2. Sound(graph, {}, Pairs(graph, <<>>), x)
        BY <1>1, <2>2, <3>3, <4>1, LinkIs DEF Sound
      <4>3. Ordered(s) /\ Linking(graph, Pairs(graph, <<>>), s)
        BY <2>2, <3>2 DEF Ordered, Linking
      <4> QED  BY <2>2, <3>2, <3>4, <4>2, <4>3, StartedJoined
    <3> QED  BY <2>2, <3>1, <3>4, BeganJoined
  <2> QED  BY <2>4, <2>5
<1> QED  BY <1>2, <1>3 DEF SubmitLink

LEMMA EditAssociationJoined ==
  ASSUME OneEditor, Inv, JoinedInv, NEW e \in Editors, NEW c \in Classes, NEW t \in Classes, NEW n \in Names,
         NEW kept, EditAssociation(e, c, kept, t, n)
  PROVE  JoinedInv'
<1>1. PICK y : y = <<"insertObjectProperty", c, t, n, "specific">>
  OBVIOUS
<1>2. PICK gone \in Orders(Links(c) \ kept) :
        Begin(e, [i \in DOMAIN gone |-> <<"deleteObjectProperty", gone[i][2], c, None>>] \o <<y>>)
  BY <1>1 DEF EditAssociation
<1>3. IsAssociation(c)
  BY DEF EditAssociation
<1>4. PICK q : q = [i \in DOMAIN gone |-> <<"deleteObjectProperty", gone[i][2], c, None>>]
  OBVIOUS
<1>5. PICK b : b = <<y>>
  OBVIOUS
<1>6. y \in CallSet /\ y[1] = "insertObjectProperty"
  BY <1>1 DEF CallSet, Kinds
<1>7. q \in Seq(CallSet)
  BY <1>4, GoneTyped
<1> HIDE DEF CallSet
<1>8. b \in Seq(CallSet) /\ Pending(b) = {y}
  BY <1>5, <1>6, SingleIs, OneCall
<1>9. Pending(q \o b) = Pending(q) \cup {y}
  BY <1>7, <1>8, PendingJoined
<1>10. \A i \in DOMAIN gone : gone[i] \in Links(c)
  BY DEF Orders
<1>11. \A x \in Pending(q) : x[1] = "deleteObjectProperty" /\ x[3] = c /\ \E edge \in Links(c) : x[2] = edge[2]
  <2>1. \A i \in DOMAIN q : q[i][1] = "deleteObjectProperty" /\ q[i][2] = gone[i][2] /\ q[i][3] = c /\ i \in DOMAIN gone
    BY <1>4
  <2> QED  BY <1>10, <2>1 DEF Pending
<1>12. ASSUME NEW x \in Pending(q) PROVE Sound(graph, {}, Pairs(graph, <<>>), x)
  <2>1. PICK edge \in Links(c) : x[2] = edge[2]
    BY <1>11
  <2>2. edge \in Relations /\ edge[1] = c
    BY DEF Links
  <2>3. ASSUME edge[2] \in Specific PROVE edge[2][1] = c /\ Free(graph, {}, Pairs(graph, <<>>), edge[2])
    <3>1. edge[2][1] = c
      BY <2>2, <2>3, EdgeIs
    <3> QED  BY <1>3, <3>1, LinkIs
  <2> QED  BY <1>11, <2>1, <2>3 DEF Sound
<1>13. PICK s : s = q \o b
  OBVIOUS
<1>14. \A x \in Pending(s) : x \in Pending(q) \/ x = y
  BY <1>9, <1>13
<1>15. ASSUME Joined(graph, deleted, <<>>) PROVE Joined(graph, deleted, s)
  <2>1. Ordered(s) /\ Linking(graph, Pairs(graph, <<>>), s)
    BY <1>6, <1>11, <1>14, LooseOrdered DEF Loose
  <2>2. \A x \in Pending(s) : x[1] # "unlink" /\ Sound(graph, {}, Pairs(graph, <<>>), x)
    BY <1>6, <1>11, <1>12, <1>14, SoundDrawing
  <2> QED  BY <1>15, <2>1, <2>2, StartedJoined
<1>16. Begin(e, s)
  BY <1>2, <1>4, <1>5, <1>13
<1> QED  BY <1>15, <1>16, BeganJoined

LEMMA EditJoined ==
  ASSUME OneEditor, Inv, JoinedInv, NEW e \in Editors, Edit(e)
  PROVE  JoinedInv'
<1>1. ASSUME NEW c \in Classes,
             CreateEntity(e, c) \/ ToggleAssociation(e, c) \/ \E force \in BOOLEAN : DeleteEntity(e, c, force)
      PROVE  JoinedInv'
  BY <1>1, EntitiesJoined
<1>2. Drawn \subseteq Names
  BY SchemaEditsAssumption
<1>3. ASSUME NEW c \in Classes, NEW n \in Drawn, SubmitAttribute(e, c, n) \/ DeleteAttribute(e, c, n)
      PROVE  JoinedInv'
  BY <1>2, <1>3, AttributesJoined
<1>4. ASSUME NEW c \in Classes, NEW t \in Classes, NEW n \in Drawn, DrawRelation(e, c, t, n)
      PROVE  JoinedInv'
  BY <1>2, <1>4, DrawRelationJoined
<1>5. ASSUME NEW c \in Classes, NEW t \in Classes, NEW n \in Names,
             SubmitLink(e, c, t, n) \/ (\E kept : EditAssociation(e, c, kept, t, n))
             \/ \E u \in Classes, m \in Names : CreateAssociation(e, c, n, t, m, u)
      PROVE  JoinedInv'
  BY <1>5, SubmitLinkJoined, EditAssociationJoined, CreateAssociationJoined
<1>6. ASSUME NEW c \in Classes, NEW t \in Classes \cup External, DrawInheritance(e, c, t) \/ DeleteInheritance(e, c, t)
      PROVE  JoinedInv'
  BY <1>6, InheritanceJoined
<1>7. ASSUME NEW edge \in Relations, DeleteRelation(e, edge) \/ DeleteLink(e, edge)
      PROVE  JoinedInv'
  BY <1>7, DeleteRelationJoined, DeleteLinkJoined
<1>8. ASSUME NEW edge \in Relations, NEW t \in Classes, NEW n \in Drawn, EditRelation(e, edge, t, n)
      PROVE  JoinedInv'
  BY <1>2, <1>8, EditRelationJoined
<1>9. ASSUME NEW x \in External, RemoveStub(e, x) PROVE JoinedInv'
  BY <1>9, RemoveStubJoined
<1> QED  BY <1>1, <1>3, <1>4, <1>5, <1>6, <1>7, <1>8, <1>9, Zenon DEF Edit

LEMMA NextJoined == ASSUME OneEditor, Inv, AloneInv, JoinedInv, [Next]_vars PROVE JoinedInv'
<1>1. CASE UNCHANGED vars
  BY <1>1 DEF vars, JoinedInv
<1>2. ASSUME NEW e \in Editors, Fail(e) PROVE JoinedInv'
  <2>1. failures' = failures + 1 /\ failures \in Nat /\ blurred' = blurred
    BY <1>2 DEF Fail, JoinedInv
  <2>2. failures' \in Nat /\ failures' # 0
    BY <2>1
  <2> QED  BY <2>2 DEF JoinedInv
<1>3. ASSUME NEW e \in Editors, Step(e) PROVE JoinedInv'
  BY <1>3, StepJoined
<1>4. ASSUME NEW e \in Editors, Edit(e) PROVE JoinedInv'
  BY <1>4, EditJoined
<1> QED  BY <1>1, <1>2, <1>3, <1>4 DEF Next

\* Where there is no editor nothing happens.
Untouched == Editors = {} => \A p \in Specific : Agrees(graph, p)

LEMMA InitialJoined == Init => JoinedInv /\ Untouched
<1> SUFFICES ASSUME Init PROVE JoinedInv /\ Untouched
  OBVIOUS
<1>1. PICK declared \in SUBSET Classes : graph = Empty(declared)
  BY DEF Init
<1>2. /\ graph.types = {} /\ graph.ranges = {} /\ graph.blocks = {} /\ graph.links = {}
  BY <1>1 DEF Empty
<1>3. \A p \in Specific : Agrees(graph, p)
  BY <1>2 DEF Agrees, Declares, BlocksOf
<1>4. Pairs(graph, <<>>) = {}
  BY <1>2 DEF Pairs
<1>5. Placed(graph) /\ Coupled(graph, deleted, {}, {})
  BY <1>2 DEF Placed, Coupled, Relation, Attribute
<1>6. Ordered(<<>>) /\ Linking(graph, {}, <<>>)
  BY AtRest DEF Ordered, Linking
<1>7. Joined(graph, deleted, <<>>)
  BY <1>3, <1>4, <1>5, <1>6, AtRest DEF Joined
<1>8. failures = 0 /\ \A e \in Editors : todo[e] = <<>>
  BY DEF Init
<1> QED  BY <1>3, <1>7, <1>8 DEF JoinedInv, Untouched

LEMMA InductiveJoined == ASSUME OneEditor PROVE Spec => [](JoinedInv /\ Untouched)
<1>1. Init => JoinedInv /\ Untouched
  BY InitialJoined
<1>2. Inv /\ AloneInv /\ JoinedInv /\ Untouched /\ [Next]_vars => (JoinedInv /\ Untouched)'
  <2> SUFFICES ASSUME Inv, AloneInv, JoinedInv, Untouched, [Next]_vars PROVE JoinedInv' /\ Untouched'
    OBVIOUS
  <2>1. Editors = {} => graph' = graph
    BY DEF Next, vars
  <2> QED  BY <2>1, NextJoined DEF Untouched
<1> QED  BY <1>1, <1>2, InductiveAlone, PTL DEF Spec
-----------------------------------------------------------------------------
(* The theorems *)

\* One editor at a time: wouldCreateCycle suffices, and the hierarchy of a namespace never closes a
\* cycle, whatever sequence of handlers draws and removes its edges, and whichever call of theirs
\* fails.  The check and the insertion are two requests (one step of InsertSubClassOf), so nothing
\* is claimed of two editors, who may each insert one half of a cycle between them.
THEOREM NoCycles == ASSUME OneEditor PROVE Spec => []HierarchiesEnd
<1>1. Inv => HierarchiesEnd
  BY EndsIs DEF Inv
<1> QED  BY <1>1, Inductive, PTL

\* One editor at a time: deletePropertyTriples asks enough within one namespace, and a generic
\* relation in use stays declared through any sequence of draws, retargets and deletions.  The
\* question and the deletion are two requests (one step of WithoutProperty), and so are finding a
\* relation and sharing it (ShareRelation): a use that another editor draws in between is not covered.
THEOREM GenericsDeclared == ASSUME OneEditor PROVE Spec => []GenericsStayDeclared
<1>1. Inv => GenericsStayDeclared
  BY DEF Inv
<1> QED  BY <1>1, Inductive, PTL

\* Every handler makes its calls on classes, properties and names of the model, and they leave a
\* graph of the model.
THEOREM CallsAreTyped == Spec => []Types
<1>1. Inv => Types
  BY DEF Inv
<1> QED  BY <1>1, Inductive, PTL

\* One editor at a time: wherever a deletion is refused, fails or loses its answer, no property, no
\* shape entry and no subclass is left of a class that is gone (DeleteClass, DeleteOwnProperties,
\* DropClass between the calls of every other handler).
THEOREM DeletionsAreWhole == ASSUME OneEditor PROVE Spec => []DeletionsLeaveNothing
<1>1. AloneInv => DeletionsLeaveNothing
  BY DEF AloneInv, Fine, Owned, NoOrphans, Declares, DeletionsLeaveNothing, OwnersAreThere, NoOrphanedSubclass, Exists
<1> QED  BY <1>1, InductiveAlone, PTL

\* One editor at a time: what findExternalReferences finds is enough, and a class that its own
\* namespace still refers to is gone only after a deletion that was forced.
THEOREM DeletionsWarn == ASSUME OneEditor PROVE Spec => []NothingDanglesUnwarned
<1>1. AloneInv => NothingDanglesUnwarned
  BY DEF AloneInv, Fine, Warned, Unreferenced, NothingDanglesUnwarned
<1> QED  BY <1>1, InductiveAlone, PTL

\* One editor at a time: no call writes the schema without the shapes.  What is declared of a specific
\* property and its shape entry agree after every call of every handler (insertObjectProperty,
\* updateObjectProperty, deleteObjectProperty and what they are called for), until a request fails or
\* a relation may no longer be told from what had its name.
THEOREM ShapesAgree == ASSUME OneEditor PROVE Spec => []ShapesFollowSchema
<1>1. ASSUME JoinedInv, Untouched, failures = 0, ~blurred PROVE \A p \in Specific : Agrees(graph, p)
  <2>1. CASE Editors = {}
    BY <1>1, <2>1 DEF Untouched
  <2>2. ASSUME NEW e \in Editors PROVE \A p \in Specific : Agrees(graph, p)
    BY <1>1, <2>2 DEF JoinedInv, Joined
  <2> QED  BY <2>1, <2>2
<1>2. ASSUME NEW p \in Specific, Agrees(graph, p) PROVE HalvesAgree(p)
  BY <1>2 DEF Agrees, HalvesAgree, BlocksOf, RangesOf, Attribute, Declares, Exists
<1>3. JoinedInv /\ Untouched => ShapesFollowSchema
  BY <1>1, <1>2 DEF ShapesFollowSchema
<1> QED  BY <1>3, InductiveJoined, PTL
=============================================================================

-------------------------- MODULE FactEditsProofs --------------------------
(***************************************************************************)
(* Proofs about FactEdits and AnnotationTable, for any individuals,        *)
(* fields, labels, ranges and clients: however forms, dialogs, deletions   *)
(* and annotation requests interleave and fail, an annotation stays with   *)
(* its fact, and edits of the same facts merge.                            *)
(***************************************************************************)
EXTENDS AnnotationTable, FiniteSetTheorems, SequenceTheorems, WellFoundedInduction, TLAPS

StoreShape(s) ==
  s = [types |-> s.types, facts |-> s.facts, statements |-> s.statements, annotations |-> s.annotations]

StatementShape(st) == st = [id |-> st.id, s |-> st.s, p |-> st.p, o |-> st.o]

(***************************************************************************)
(* The inductive invariant: no two statements share an id, which is what   *)
(* an annotation is tied by, and what is minted next is new.               *)
(***************************************************************************)
Shape ==
  /\ StoreShape(store)
  /\ minted \in Nat
  /\ \A st \in store.statements : StatementShape(st) /\ st.id \in 1..minted
  /\ \A st, other \in store.statements : st.id = other.id => st = other

Inv == Shape /\ AnnotationsFollowTheirFact

Outlive(a) ==
  \/ \E k \in Clients : Now(k, "deleteAnnotation") /\ Call(k)[2] = a.id
  \/ store'.facts \subseteq store.facts
     /\ \A st \in store.statements : st.id = a.on => FactOf(st) \notin store'.facts

\* What every step of the store does: the invariant is kept, and no annotation is lost.
Good == Inv' /\ \A a \in store.annotations \ store'.annotations : Outlive(a)

LEMMA Initial == Init => Inv
<1> SUFFICES ASSUME Init PROVE Inv
  OBVIOUS
<1>1. store = Start
  BY DEF Init
<1>2. minted \in Nat /\ minted = Cardinality(Start.statements) + Cardinality(Start.annotations)
  BY FS_CardinalityType, FactEditsAssumption DEF Init
<1>3. StoreShape(store)
  BY <1>1, FactEditsAssumption DEF StoreShape
<1>4. \A st \in store.statements : StatementShape(st) /\ st.id \in 1..minted
  BY <1>1, <1>2, FactEditsAssumption DEF StatementShape
<1>5. \A st, other \in store.statements : st.id = other.id => st = other
  BY <1>1, FactEditsAssumption
<1>6. AnnotationsFollowTheirFact
  BY <1>1, FactEditsAssumption DEF AnnotationsFollowTheirFact, FactOf
<1> QED  BY <1>2, <1>3, <1>4, <1>5, <1>6 DEF Inv, Shape

-----------------------------------------------------------------------------
(* The kinds of updates *)

\* What an edit adds to the store disturbs no annotation.
LEMMA GrowsGood ==
  ASSUME Inv, StoreShape(store'), minted' = minted, marks \subseteq marks',
         store'.statements = store.statements, store'.annotations = store.annotations,
         store.facts \subseteq store'.facts
  PROVE  Good
<1>1. Shape'
  BY DEF Inv, Shape
<1>2. AnnotationsFollowTheirFact'
  BY DEF Inv, AnnotationsFollowTheirFact, FactOf
<1> QED  BY <1>1, <1>2 DEF Inv, Good

\* Facts that go take along the annotations of every statement of theirs.
LEMMA RemovedGood ==
  ASSUME Inv, NEW facts, NEW statements \in SUBSET store.statements,
         StoreShape(store'), store'.facts = store.facts \ facts,
         store'.statements = store.statements \ statements,
         store'.annotations = store.annotations \ On(statements),
         minted' = minted, marks \subseteq marks',
         \A st \in statements : FactOf(st) \notin store.facts \ facts,
         \A st \in store.statements : FactOf(st) \in facts \cap store.facts => st \in statements
  PROVE  Good
<1>2. Shape'
  BY DEF Inv, Shape
<1>3. AnnotationsFollowTheirFact'
  <2> SUFFICES ASSUME marks' \cap {"overtaken", "swept"} = {}, NEW a \in store'.annotations
               PROVE  \E st \in store'.statements : st.id = a.on /\ FactOf(st) \in store'.facts
    BY DEF AnnotationsFollowTheirFact, FactOf
  <2>1. PICK st \in store.statements : st.id = a.on /\ FactOf(st) \in store.facts
    BY DEF Inv, AnnotationsFollowTheirFact
  <2>2. st \notin statements
    BY <2>1 DEF On
  <2> QED  BY <2>1, <2>2
<1>4. ASSUME NEW a \in store.annotations \ store'.annotations PROVE Outlive(a)
  <2>1. PICK gone \in statements : a.on = gone.id
    BY <1>4 DEF On
  <2>2. \A st \in store.statements : st.id = a.on => st = gone
    BY <2>1 DEF Inv, Shape
  <2>3. store'.facts \subseteq store.facts /\ FactOf(gone) \notin store'.facts
    OBVIOUS
  <2> QED  BY <2>2, <2>3 DEF Outlive
<1> QED  BY <1>2, <1>3, <1>4 DEF Inv, Good

LEMMA WithoutGood ==
  ASSUME Inv, NEW facts, NEW statements \in SUBSET store.statements,
         store' = Without(facts, statements), minted' = minted, marks \subseteq marks',
         \A st \in statements : FactOf(st) \notin store.facts \ facts,
         \A st \in store.statements : FactOf(st) \in facts \cap store.facts => st \in statements
  PROVE  Good
<1>1. /\ StoreShape(store') /\ store'.facts = store.facts \ facts
      /\ store'.statements = store.statements \ statements
      /\ store'.annotations = store.annotations \ On(statements)
  BY DEF Inv, Shape, Without, StoreShape
<1> QED  BY <1>1, RemovedGood

LEMMA RestatedShape ==
  ASSUME NEW st, StatementShape(st), NEW p, NEW o
  PROVE  [st EXCEPT !.p = p, !.o = o] = [id |-> st.id, s |-> st.s, p |-> p, o |-> o]
<1>1. st \in [id : {st.id}, s : {st.s}, p : {st.p}, o : {st.o}]
  BY DEF StatementShape
<1>2. [st EXCEPT !.p = p, !.o = o] \in [id : {st.id}, s : {st.s}, p : {p}, o : {o}]
  BY <1>1
<1>3. \A r \in [id : {st.id}, s : {st.s}, p : {p}, o : {o}] : r = [id |-> st.id, s |-> st.s, p |-> p, o |-> o]
  OBVIOUS
<1> QED  BY <1>2, <1>3, Zenon

\* A statement that is restated keeps its id, and states the fact that replaces the old one.
LEMMA RestatedGood ==
  ASSUME Inv, NEW facts, NEW statements \in SUBSET store.statements, NEW p, NEW o, NEW new,
         store' = [Restated(facts, statements, p, o) EXCEPT !.facts = @ \cup {new}],
         minted' = minted, marks \subseteq marks',
         \A st \in statements : new = <<st.s, p, o>>,
         \A st \in store.statements : FactOf(st) \in facts \cap store.facts => st \in statements
  PROVE  Good
<1>0. StoreShape(store) /\ \A st \in store.statements : StatementShape(st)
  BY DEF Inv, Shape
<1> DEFINE R(st) == [st EXCEPT !.p = p, !.o = o]
<1>1. /\ StoreShape(store') /\ store'.facts = (store.facts \ facts) \cup {new}
      /\ store'.statements = (store.statements \ statements) \cup {R(st) : st \in statements}
      /\ store'.annotations = store.annotations
  <2> DEFINE moved == {R(st) : st \in statements}
             st0 == Restated(facts, statements, p, o)
  <2> HIDE DEF R
  <2>1. st0 = [types |-> store.types, facts |-> store.facts \ facts,
               statements |-> (store.statements \ statements) \cup moved, annotations |-> store.annotations]
    <3> HIDE DEF moved
    <3>1. st0 = [store EXCEPT !.facts = @ \ facts, !.statements = (@ \ statements) \cup moved]
      BY DEF Restated, moved, R
    <3> QED  BY <1>0, <3>1 DEF StoreShape
  <2> HIDE DEF moved, st0
  <2>2. store' = [st0 EXCEPT !.facts = @ \cup {new}]
    BY DEF st0
  <2>3. StoreShape(store') /\ store'.facts = (store.facts \ facts) \cup {new}
        /\ store'.statements = (store.statements \ statements) \cup moved /\ store'.annotations = store.annotations
    BY <2>1, <2>2 DEF StoreShape
  <2> QED  BY <2>3 DEF moved
<1>2. \A st \in statements : R(st) = [id |-> st.id, s |-> st.s, p |-> p, o |-> o]
  BY <1>0, RestatedShape
<1>3. ASSUME NEW st \in statements
      PROVE  StatementShape(R(st)) /\ R(st).id = st.id /\ FactOf(R(st)) = <<st.s, p, o>>
  <2>1. PICK r : r = R(st)
    OBVIOUS
  <2>2. r = [id |-> st.id, s |-> st.s, p |-> p, o |-> o]
    BY <1>2, <2>1
  <2>3. r.id = st.id /\ r.s = st.s /\ r.p = p /\ r.o = o
    BY <2>2
  <2>4. StatementShape(r) /\ FactOf(r) = <<st.s, p, o>>
    BY <2>2, <2>3 DEF StatementShape, FactOf
  <2> HIDE DEF R
  <2> QED  BY <2>1, <2>3, <2>4
<1> HIDE DEF R
<1>4. Shape'
  <2>1. \A st \in store'.statements : StatementShape(st) /\ st.id \in 1..minted'
    BY <1>1, <1>3 DEF Inv, Shape
  <2>2. \A st, other \in store'.statements : st.id = other.id => st = other
    BY <1>1, <1>3 DEF Inv, Shape
  <2> QED  BY <1>1, <2>1, <2>2 DEF Inv, Shape
<1>5. AnnotationsFollowTheirFact'
  <2> SUFFICES ASSUME marks' \cap {"overtaken", "swept"} = {}, NEW a \in store'.annotations
               PROVE  \E st \in store'.statements : st.id = a.on /\ FactOf(st) \in store'.facts
    BY DEF AnnotationsFollowTheirFact, FactOf
  <2>1. PICK st \in store.statements : st.id = a.on /\ FactOf(st) \in store.facts
    BY <1>1 DEF Inv, AnnotationsFollowTheirFact
  <2>2. CASE st \in statements
    <3>1. R(st) \in store'.statements /\ R(st).id = a.on /\ FactOf(R(st)) \in store'.facts
      BY <1>1, <1>3, <2>1, <2>2
    <3> QED  BY <3>1
  <2>3. CASE st \notin statements
    BY <1>1, <2>1, <2>3
  <2> QED  BY <2>2, <2>3
<1> QED  BY <1>1, <1>4, <1>5 DEF Inv, Good

-----------------------------------------------------------------------------
(* The steps *)

LEMMA Written ==
  ASSUME NEW k, NEW st, NEW calls, NEW mark, WriteThen(k, st, calls, mark)
  PROVE  store' = st /\ marks \cup mark \subseteq marks'
  BY DEF WriteThen

LEMMA WrittenOnly ==
  ASSUME NEW k, NEW st, Write(k, st)
  PROVE  store' = st /\ marks \subseteq marks' /\ minted' = minted
  BY Written DEF Write

LEMMA Same ==
  ASSUME Inv, UNCHANGED <<store, minted>>, marks \subseteq marks'
  PROVE  Good
  BY GrowsGood DEF Inv, Shape

\* A call that throws or turns into others leaves the store as it is.
LEMMA Passed ==
  ASSUME Inv, NEW k, Throw(k) \/ \E calls : Becomes(k, calls)
  PROVE  Good
  BY Same DEF Throw, Becomes, Breaks

LEMMA FactsOf ==
  ASSUME NEW st, NEW I, NEW P, FactOf(st) \in AllFacts(I, P)
  PROVE  st.s \in I /\ st.p \in P
  BY DEF FactOf, AllFacts

LEMMA ChangeClassGood ==
  ASSUME Inv, NEW k, NEW i, NEW c, NEW dropped, ChangeIndividualClass(k, i, c, dropped)
  PROVE  Good
<1> DEFINE lost == AllFacts({i}, dropped)
           kept == Without(lost, Reifying(lost))
           st == [kept EXCEPT !.types = {t \in @ : t[1] # i} \cup {<<i, c>>}]
<1>1. CASE Throw(k)
  BY <1>1, Passed
<1>2. CASE Write(k, st)
  <2>1. store' = st /\ marks \subseteq marks' /\ minted' = minted
    BY <1>2, WrittenOnly
  <2>2. /\ StoreShape(store') /\ store'.facts = store.facts \ lost
        /\ store'.statements = store.statements \ Reifying(lost)
        /\ store'.annotations = store.annotations \ On(Reifying(lost))
    BY <2>1 DEF Inv, Shape, StoreShape, Without
  <2> QED  BY <2>1, <2>2, RemovedGood DEF Reifying
<1> QED  BY <1>1, <1>2 DEF ChangeIndividualClass

LEMMA SetGood ==
  ASSUME Inv, NEW k, NEW i, NEW p, NEW v, SetIndividualAttributeValue(k, i, p, v)
  PROVE  Good
<1> DEFINE old == ValuesOf(i, p)
           held == Held(i, p)
<1>1. held \in SUBSET store.statements /\ old \subseteq store.facts
  BY DEF Held, Reifying, ValuesOf
<1>2. \A st \in held : st.s = i /\ st.p = p
  BY DEF Held, Reifying, ValuesOf, AllFacts, FactOf
<1>3. \A st \in store.statements : FactOf(st) \in old => st \in held
  BY DEF Held, Reifying
<1>4. \A st \in held : FactOf(st) \notin store.facts \ old
  BY <1>2 DEF ValuesOf, FactOf
<1>5. CASE Write(k, Without(old, held))
  <2>1. store' = Without(old, held) /\ marks \subseteq marks' /\ minted' = minted
    BY <1>5, WrittenOnly
  <2> QED  BY <2>1, <1>1, <1>3, <1>4, WithoutGood
<1>6. CASE Write(k, [Restated(old, held, p, v) EXCEPT !.facts = @ \cup {<<i, p, v>>}])
  <2>1. /\ store' = [Restated(old, held, p, v) EXCEPT !.facts = @ \cup {<<i, p, v>>}]
        /\ marks \subseteq marks' /\ minted' = minted
    BY <1>6, WrittenOnly
  <2>2. \A st \in held : <<i, p, v>> = <<st.s, p, v>>
    BY <1>2
  <2> HIDE DEF old, held
  <2> QED  BY <2>1, <2>2, <1>1, <1>3, RestatedGood
<1> QED  BY <1>5, <1>6 DEF SetIndividualAttributeValue

LEMMA RemoveGood ==
  ASSUME Inv, NEW k, NEW f,
         RemoveIndividualAttributeValue(k, f) \/ DeleteAssertion(k, f)
  PROVE  Good
<1>1. CASE Throw(k)
  BY <1>1, Passed
<1>2. CASE Write(k, Without({f}, Reifying({f})))
  <2>1. store' = Without({f}, Reifying({f})) /\ marks \subseteq marks' /\ minted' = minted
    BY <1>2, WrittenOnly
  <2> QED  BY <2>1, WithoutGood DEF Reifying
<1> QED  BY <1>1, <1>2 DEF RemoveIndividualAttributeValue, DeleteAssertion

LEMMA AddsGood ==
  ASSUME Inv, NEW k, NEW i, NEW c, NEW f, NEW label, NEW o,
         InsertIndividual(k, i, c) \/ AddIndividualAttributeValue(k, f) \/ InsertAssertion(k, i, label, o)
  PROVE  Good
<1>1. CASE Throw(k)
  BY <1>1, Passed
<1>2. CASE Write(k, [store EXCEPT !.types = @ \cup {<<i, c>>}])
  <2>1. store' = [store EXCEPT !.types = @ \cup {<<i, c>>}] /\ marks \subseteq marks' /\ minted' = minted
    BY <1>2, WrittenOnly
  <2> QED  BY <2>1, GrowsGood DEF Inv, Shape, StoreShape
<1>3. ASSUME NEW g, Write(k, [store EXCEPT !.facts = @ \cup {g}]) PROVE Good
  <2>1. store' = [store EXCEPT !.facts = @ \cup {g}] /\ marks \subseteq marks' /\ minted' = minted
    BY <1>3, WrittenOnly
  <2> QED  BY <2>1, GrowsGood DEF Inv, Shape, StoreShape
<1> QED  BY <1>1, <1>2, <1>3 DEF InsertIndividual, AddIndividualAttributeValue, InsertAssertion

LEMMA UpdateRelationGood ==
  ASSUME Inv, NEW k, NEW f, NEW label, NEW o, UpdateIndividualRelation(k, f, label, o)
  PROVE  Good
<1>1. CASE Throw(k)
  BY <1>1, Passed
<1>2. CASE ~Throw(k)
  <2>1. PICK p \in Resolved(label) :
          LET new == <<f[1], p, o>> IN
          IF new = f THEN Becomes(k, <<>>)
          ELSE Write(k, IF f \in store.facts
                        THEN [Restated({f}, Reifying({f}), p, o) EXCEPT !.facts = @ \cup {new}] ELSE store)
    BY <1>2 DEF UpdateIndividualRelation
  <2> DEFINE new == <<f[1], p, o>>
  <2>2. CASE new = f
    <3>1. Becomes(k, <<>>)
      BY <2>1, <2>2
    <3> QED  BY <3>1, Passed
  <2>3. CASE new # f /\ f \notin store.facts
    <3>1. Write(k, store)
      BY <2>1, <2>3
    <3> QED  BY <3>1, WrittenOnly, Same
  <2>4. CASE new # f /\ f \in store.facts
    <3>1. Write(k, [Restated({f}, Reifying({f}), p, o) EXCEPT !.facts = @ \cup {new}])
      BY <2>1, <2>4
    <3> DEFINE old == {f}
               held == Reifying({f})
    <3>2. /\ store' = [Restated(old, held, p, o) EXCEPT !.facts = @ \cup {new}]
          /\ marks \subseteq marks' /\ minted' = minted
      BY <3>1, WrittenOnly
    <3>3. /\ held \in SUBSET store.statements
          /\ \A st \in held : new = <<st.s, p, o>>
          /\ \A st \in store.statements : FactOf(st) \in old \cap store.facts => st \in held
      BY DEF Reifying, FactOf
    <3> HIDE DEF new, old, held
    <3> QED  BY <3>2, <3>3, RestatedGood
  <2> QED  BY <2>2, <2>3, <2>4
<1> QED  BY <1>1, <1>2

LEMMA DeleteIndividualGood ==
  ASSUME Inv, NEW k, NEW i, DeleteIndividual(k, i)
  PROVE  Good
<1> DEFINE said == {f \in store.facts : f[1] = i}
           about == {st \in store.statements : st.s = i}
           kept == Without(said, about)
           st == [kept EXCEPT !.types = {t \in @ : t[1] # i}]
<1>1. CASE Throw(k)
  BY <1>1, Passed
<1>2. CASE Write(k, st)
  <2>1. store' = st /\ marks \subseteq marks' /\ minted' = minted
    BY <1>2, WrittenOnly
  <2>2. /\ StoreShape(store') /\ store'.facts = store.facts \ said
        /\ store'.statements = store.statements \ about
        /\ store'.annotations = store.annotations \ On(about)
    BY <2>1 DEF Inv, Shape, StoreShape, Without
  <2>3. \A x \in about : FactOf(x) \notin store.facts \ said
    BY DEF FactOf
  <2>4. \A x \in store.statements : FactOf(x) \in said => x \in about
    BY DEF FactOf
  <2>5. about \in SUBSET store.statements
    OBVIOUS
  <2> HIDE DEF said, about
  <2> QED  BY <2>1, <2>2, <2>3, <2>4, <2>5, RemovedGood
<1> QED  BY <1>1, <1>2 DEF DeleteIndividual

LEMMA CutShape ==
  ASSUME NEW st, StatementShape(st), NEW i
  PROVE  LET cut == [st EXCEPT !.s = IF @ = i THEN None ELSE @, !.o = IF @ = i THEN None ELSE @]
         IN  StatementShape(cut) /\ cut.id = st.id
<1> DEFINE cut == [st EXCEPT !.s = IF @ = i THEN None ELSE @, !.o = IF @ = i THEN None ELSE @]
<1>1. st \in [id : {st.id}, s : {st.s}, p : {st.p}, o : {st.o}]
  BY DEF StatementShape
<1>2. cut \in [id : {st.id}, s : {st.s, None}, p : {st.p}, o : {st.o, None}]
  BY <1>1
<1>3. \A r \in [id : {st.id}, s : {st.s, None}, p : {st.p}, o : {st.o, None}] :
        r = [id |-> r.id, s |-> r.s, p |-> r.p, o |-> r.o] /\ r.id = st.id
  OBVIOUS
<1> HIDE DEF cut
<1>4. StatementShape(cut) /\ cut.id = st.id
  BY <1>2, <1>3 DEF StatementShape
<1> QED  BY <1>4 DEF cut

LEMMA DeleteIncomingGood ==
  ASSUME Inv, NEW k, NEW i, DeleteIncoming(k, i)
  PROVE  Good
<1> DEFINE cut(st) == [st EXCEPT !.s = IF @ = i THEN None ELSE @, !.o = IF @ = i THEN None ELSE @]
           kept == {f \in store.facts : f[3] # i}
           st1 == [store EXCEPT !.facts = kept, !.statements = {cut(st) : st \in store.statements}]
<1>1. store' = st1 /\ marks \cup {"swept"} \subseteq marks' /\ minted' = minted
  BY Written DEF DeleteIncoming
<1>2. \A st \in store.statements : StatementShape(cut(st)) /\ cut(st).id = st.id
  BY CutShape DEF Inv, Shape
<1> HIDE DEF cut
<1>3. /\ StoreShape(store') /\ store'.annotations = store.annotations
      /\ store'.statements = {cut(st) : st \in store.statements}
  BY <1>1 DEF Inv, Shape, StoreShape
<1>4. \A st, other \in store'.statements : st.id = other.id => st = other
  BY <1>2, <1>3 DEF Inv, Shape
<1>5. \A st \in store'.statements : StatementShape(st) /\ st.id \in 1..minted'
  BY <1>1, <1>2, <1>3 DEF Inv, Shape
<1>6. Shape'
  BY <1>1, <1>3, <1>4, <1>5 DEF Inv, Shape
<1>7. AnnotationsFollowTheirFact'
  BY <1>1 DEF AnnotationsFollowTheirFact
<1> QED  BY <1>3, <1>6, <1>7 DEF Inv, Good

LEMMA DropMembersGood ==
  ASSUME Inv, NEW k, NEW c, DropMembers(k, c)
  PROVE  Good
<1> DEFINE members == {i \in Individuals : <<i, c>> \in store.types}
           st == [store EXCEPT !.facts = {f \in @ : f[1] \notin members},
                               !.types = {t \in @ : t[1] \notin members}]
<1>1. store' = st /\ marks \cup {"swept"} \subseteq marks' /\ minted' = minted
  BY Written DEF DropMembers
<1> HIDE DEF members
<1>2. StoreShape(store') /\ store'.annotations = store.annotations /\ store'.statements = store.statements
  BY <1>1 DEF Inv, Shape, StoreShape
<1>3. Shape'
  BY <1>1, <1>2 DEF Inv, Shape
<1>4. AnnotationsFollowTheirFact'
  BY <1>1 DEF AnnotationsFollowTheirFact
<1> QED  BY <1>2, <1>3, <1>4 DEF Inv, Good

LEMMA ReifyGood ==
  ASSUME Inv, NEW k, NEW f, NEW then, Reify(k, f, then)
  PROVE  Good
<1> DEFINE new == [id |-> minted + 1, s |-> f[1], p |-> f[2], o |-> f[3]]
<1>1. store' = [store EXCEPT !.statements = @ \cup {new}] /\ marks \subseteq marks' /\ minted' = minted + 1
  BY Written DEF Reify
<1>2. StatementShape(new) /\ new.id = minted + 1
  BY DEF StatementShape
<1> HIDE DEF new
<1>3. /\ StoreShape(store') /\ store'.facts = store.facts /\ store'.annotations = store.annotations
      /\ store'.statements = store.statements \cup {new}
  BY <1>1 DEF Inv, Shape, StoreShape
<1>4. \A st \in store'.statements : StatementShape(st) /\ st.id \in 1..minted'
  BY <1>1, <1>2, <1>3 DEF Inv, Shape
<1>5. \A st, other \in store'.statements : st.id = other.id => st = other
  BY <1>2, <1>3 DEF Inv, Shape
<1>6. Shape'
  BY <1>1, <1>3, <1>4, <1>5 DEF Inv, Shape
<1>7. AnnotationsFollowTheirFact'
  BY <1>1, <1>3 DEF Inv, AnnotationsFollowTheirFact, FactOf
<1> QED  BY <1>3, <1>6, <1>7 DEF Inv, Good

LEMMA AnnotateGood ==
  ASSUME Inv, NEW k, NEW f, NEW on, Annotate(k, f, on)
  PROVE  Good
<1> DEFINE new == [id |-> minted + 1, on |-> on]
           there == \E st \in store.statements : st.id = on /\ FactOf(st) \in store.facts
<1>1. CASE Throw(k)
  BY <1>1, Passed
<1>2. CASE ~Throw(k)
  <2>1. /\ minted' = minted + 1
        /\ WriteThen(k, [store EXCEPT !.annotations = @ \cup {new}], <<>>, IF there THEN {} ELSE {"overtaken"})
    BY <1>2 DEF Annotate
  <2> HIDE DEF there
  <2>2. /\ store' = [store EXCEPT !.annotations = @ \cup {new}]
        /\ marks \cup (IF there THEN {} ELSE {"overtaken"}) \subseteq marks'
    BY <2>1, Written
  <2> USE DEF there
  <2>3. new.on = on
    OBVIOUS
  <2> HIDE DEF new
  <2>4. /\ StoreShape(store') /\ store'.facts = store.facts /\ store'.statements = store.statements
        /\ store'.annotations = store.annotations \cup {new}
    BY <2>2 DEF Inv, Shape, StoreShape
  <2>5. Shape'
    BY <2>1, <2>4 DEF Inv, Shape
  <2>6. AnnotationsFollowTheirFact'
    BY <2>2, <2>3, <2>4 DEF Inv, AnnotationsFollowTheirFact, FactOf
  <2> QED  BY <2>4, <2>5, <2>6 DEF Inv, Good
<1> QED  BY <1>1, <1>2

LEMMA DeleteAnnotationGood ==
  ASSUME Inv, NEW k \in Clients, NEW id, Now(k, "deleteAnnotation"), Call(k)[2] = id, DeleteAnnotation(k, id)
  PROVE  Good
<1>1. store' = [store EXCEPT !.annotations = {a \in @ : a.id # id}] /\ marks \subseteq marks' /\ minted' = minted
  BY WrittenOnly DEF DeleteAnnotation
<1>2. /\ StoreShape(store') /\ store'.facts = store.facts /\ store'.statements = store.statements
      /\ store'.annotations = {a \in store.annotations : a.id # id}
  BY <1>1 DEF Inv, Shape, StoreShape
<1>3. Shape'
  BY <1>1, <1>2 DEF Inv, Shape
<1>4. AnnotationsFollowTheirFact'
  BY <1>1, <1>2 DEF Inv, AnnotationsFollowTheirFact, FactOf
<1>5. \A a \in store.annotations \ store'.annotations : Outlive(a)
  BY <1>2 DEF Outlive
<1> QED  BY <1>3, <1>4, <1>5 DEF Inv, Good

LEMMA StepGood ==
  ASSUME Inv, NEW k \in Clients, Step(k)
  PROVE  Good
<1> DEFINE call == Call(k)
<1>1. CASE Now(k, "insertIndividual") /\ InsertIndividual(k, call[2], call[3])
  BY <1>1, AddsGood
<1>2. CASE Now(k, "changeClass") /\ ChangeIndividualClass(k, call[2], call[3], call[4])
  BY <1>2, ChangeClassGood
<1>3. CASE Now(k, "attributes") /\ ApplyAttributeSubmissions(k, call[2], call[3])
  BY <1>3, Passed DEF ApplyAttributeSubmissions
<1>4. CASE Now(k, "set") /\ SetIndividualAttributeValue(k, call[2], call[3], call[4])
  BY <1>4, SetGood
<1>5. CASE Now(k, "add") /\ AddIndividualAttributeValue(k, call[2])
  BY <1>5, AddsGood
<1>6. CASE Now(k, "remove") /\ RemoveIndividualAttributeValue(k, call[2])
  BY <1>6, RemoveGood
<1>7. CASE Now(k, "insertAssertion") /\ InsertAssertion(k, call[2], call[3], call[4])
  BY <1>7, AddsGood
<1>8. CASE Now(k, "deleteAssertion") /\ DeleteAssertion(k, call[2])
  BY <1>8, RemoveGood
<1>9. CASE Now(k, "updateRelation") /\ UpdateIndividualRelation(k, call[2], call[3], call[4])
  BY <1>9, UpdateRelationGood
<1>10. CASE Now(k, "deleteIndividual") /\ DeleteIndividual(k, call[2])
  BY <1>10, DeleteIndividualGood
<1>11. CASE Now(k, "deleteIncoming") /\ DeleteIncoming(k, call[2])
  BY <1>11, DeleteIncomingGood
<1>12. CASE Now(k, "dropMembers") /\ DropMembers(k, call[2])
  BY <1>12, DropMembersGood
<1>13. CASE Now(k, "ensureReified") /\ EnsureReifiedFact(k, call[2], call[3])
  BY <1>13, Passed DEF EnsureReifiedFact
<1>14. CASE Now(k, "reify") /\ Reify(k, call[2], call[3])
  BY <1>14, ReifyGood
<1>15. CASE Now(k, "annotate") /\ Annotate(k, call[2], call[3])
  BY <1>15, AnnotateGood
<1>16. CASE Now(k, "deleteAnnotation") /\ DeleteAnnotation(k, call[2])
  BY <1>16, DeleteAnnotationGood
<1> HIDE DEF call
<1>17. Step(k) => \/ Now(k, "insertIndividual") /\ InsertIndividual(k, call[2], call[3])
                  \/ Now(k, "changeClass") /\ ChangeIndividualClass(k, call[2], call[3], call[4])
                  \/ Now(k, "attributes") /\ ApplyAttributeSubmissions(k, call[2], call[3])
                  \/ Now(k, "set") /\ SetIndividualAttributeValue(k, call[2], call[3], call[4])
                  \/ Now(k, "add") /\ AddIndividualAttributeValue(k, call[2])
                  \/ Now(k, "remove") /\ RemoveIndividualAttributeValue(k, call[2])
                  \/ Now(k, "insertAssertion") /\ InsertAssertion(k, call[2], call[3], call[4])
                  \/ Now(k, "deleteAssertion") /\ DeleteAssertion(k, call[2])
                  \/ Now(k, "updateRelation") /\ UpdateIndividualRelation(k, call[2], call[3], call[4])
                  \/ Now(k, "deleteIndividual") /\ DeleteIndividual(k, call[2])
                  \/ Now(k, "deleteIncoming") /\ DeleteIncoming(k, call[2])
                  \/ Now(k, "dropMembers") /\ DropMembers(k, call[2])
                  \/ Now(k, "ensureReified") /\ EnsureReifiedFact(k, call[2], call[3])
                  \/ Now(k, "reify") /\ Reify(k, call[2], call[3])
                  \/ Now(k, "annotate") /\ Annotate(k, call[2], call[3])
                  \/ Now(k, "deleteAnnotation") /\ DeleteAnnotation(k, call[2])
  BY Zenon DEF Step, call
<1> QED
  BY <1>1, <1>2, <1>3, <1>4, <1>5, <1>6, <1>7, <1>8, <1>9, <1>10, <1>11, <1>12, <1>13, <1>14, <1>15,
     <1>16, <1>17

\* A request that fails, and an edit that starts, leave the store as it is.
LEMMA FailGood ==
  ASSUME Inv, NEW k, Fail(k)
  PROVE  Good
  BY Same DEF Fail, Breaks

LEMMA EditGood ==
  ASSUME Inv, NEW k, Edit(k)
  PROVE  Good
<1>1. ASSUME NEW calls, NEW add, NEW remove, NEW mayAdd, NEW mayRemove,
             Begin(k, calls, add, remove, mayAdd, mayRemove)
      PROVE  UNCHANGED <<store, minted, marks>>
  BY <1>1 DEF Begin
<1>2. UNCHANGED <<store, minted, marks>>
  <2>1. ASSUME NEW i, NEW c, OpenForm(k, i, c) PROVE UNCHANGED <<store, minted, marks>>
    BY <2>1 DEF OpenForm
  <2>2. ASSUME NEW opened, NEW wanted, NEW c, SubmitForm(k, opened, wanted, c)
        PROVE  UNCHANGED <<store, minted, marks>>
    BY <1>1, <2>2, Zenon DEF SubmitForm
  <2>3. CASE Draw(k)
    BY <1>1, <2>3, Zenon DEF Draw
  <2>4. CASE Drop(k)
    BY <1>1, <2>4, Zenon DEF Drop
  <2>5. ASSUME NEW f, AnnotateFact(k, f) \/ RemoveAnnotation(k, f) PROVE UNCHANGED <<store, minted, marks>>
    BY <1>1, <2>5 DEF AnnotateFact, RemoveAnnotation
  <2> QED  BY <2>1, <2>2, <2>3, <2>4, <2>5 DEF Edit
<1> QED  BY <1>2, Same

LEMMA NextGood == ASSUME Inv, [Next]_vars PROVE Good
<1>1. CASE UNCHANGED vars
  BY <1>1, Same DEF vars
<1> QED  BY <1>1, StepGood, FailGood, EditGood DEF Next

\* Nor does anything the page does on its own: it begins a request, or none.
LEMMA TableNextGood == ASSUME Inv, [TableNext]_all PROVE Good
<1>1. ASSUME UNCHANGED <<store, minted, marks>> PROVE Good
  BY <1>1, Same
<1>2. CASE UNCHANGED all \/ (\E facts : NewTable(facts)) \/ Answer \/ Arrive \/ AddSettles \/ RemoveSettles
  BY <1>1, <1>2 DEF all, vars, NewTable, Answer, Arrive, AddSettles, RemoveSettles
<1>3. ASSUME NEW f, AddEntry(f) \/ \E n : RemoveEntry(f, n) PROVE Good
  BY <1>1, <1>3 DEF AddEntry, RemoveEntry, AnnotateFact, RemoveAnnotation, Begin
<1>4. ASSUME NEW k \in Clients, Requests(k) PROVE Good
  BY <1>4, StepGood, FailGood DEF Requests
<1>5. ASSUME NEW k \in Others, Edit(k) PROVE Good
  BY <1>5, EditGood
<1> QED  BY <1>2, <1>3, <1>4, <1>5 DEF TableNext
-----------------------------------------------------------------------------
(***************************************************************************)
(* Forms merge.  The calls an edit has still to make are a list, so the    *)
(* facts of lists come first: a form's calls are those of its fields,      *)
(* joined, and each is of a value added or removed.                        *)
(***************************************************************************)

(* A set of numbers that holds 0 and with each number the next holds all: else there is a least *)
(* interval whose end it misses.                                                                *)
LEMMA AllNumbers ==
  ASSUME NEW S, 0 \in S, \A n \in Nat : n \in S => n + 1 \in S
  PROVE  Nat \subseteq S
<1> DEFINE Missed == {T \in FiniteSubsetsOf(Nat) : \E n \in Nat : T = 1..n /\ n \notin S}
<1>1. SUFFICES ASSUME NEW k \in Nat, k \notin S PROVE FALSE
  OBVIOUS
<1>2. 1..k \in Missed
  <2>1. IsFiniteSet(1..k)
    BY FS_Interval
  <2> QED  BY <1>1, <2>1 DEF FiniteSubsetsOf
<1>3. PICK T \in Missed : \A U \in Missed : <<U, T>> \notin StrictSubsetOrdering(Nat)
  <2>1. IsWellFoundedOn(StrictSubsetOrdering(Nat), FiniteSubsetsOf(Nat))
    BY FS_StrictSubsetOrderingWellFounded
  <2>2. Missed \subseteq FiniteSubsetsOf(Nat) /\ Missed # {}
    BY <1>2
  <2> HIDE DEF Missed
  <2> QED  BY <2>1, <2>2, WFMin
<1>4. PICK n \in Nat : T = 1..n /\ n \notin S
  BY <1>3
<1>5. n # 0 /\ n - 1 \in Nat /\ n - 1 \notin S
  BY <1>4
<1>6. IsFiniteSet(1..(n - 1)) /\ 1..(n - 1) \in SUBSET Nat
  BY <1>5, FS_Interval
<1>7. 1..(n - 1) \in Missed
  BY <1>5, <1>6 DEF FiniteSubsetsOf
<1>8. 1..(n - 1) \subseteq 1..n /\ n \in 1..n /\ n \notin 1..(n - 1)
  BY <1>5
<1>9. <<1..(n - 1), T>> \in StrictSubsetOrdering(Nat)
  BY <1>4, <1>6, <1>8 DEF StrictSubsetOrdering
<1> QED  BY <1>3, <1>7, <1>9

\* What a sequence holds.
Holds(list, x) == \E n \in DOMAIN list : x = list[n]

LEMMA ListOfSet ==
  ASSUME NEW S, IsFiniteSet(S)
  PROVE  SetToSeq(S) \in Seq(S) /\ \A x : Holds(SetToSeq(S), x) <=> x \in S
<1> DEFINE n == Cardinality(S)
<1>1. n \in Nat /\ ExistsBijection(1..n, S)
  BY FS_CardinalityType
<1>2. PICK g \in [1..n -> S] : IsInjective(g)
  BY <1>1 DEF ExistsBijection, Bijection, Injection
<1>3. SetToSeq(S) \in [1..n -> S] /\ IsInjective(SetToSeq(S))
  BY <1>2 DEF SetToSeq
<1>4. SetToSeq(S) \in Injection(1..n, S)
  BY <1>3 DEF Injection
<1>5. Cardinality(1..n) = n
  BY <1>1, FS_Interval
<1>6. SetToSeq(S) \in Surjection(1..n, S)
  BY <1>4, <1>5, FS_Injection
<1>7. \A x \in S : \E m \in 1..n : SetToSeq(S)[m] = x
  BY <1>6 DEF Surjection
<1>8. DOMAIN SetToSeq(S) = 1..n /\ \A m \in 1..n : SetToSeq(S)[m] \in S
  BY <1>3
<1>9. \A x : Holds(SetToSeq(S), x) <=> x \in S
  BY <1>7, <1>8 DEF Holds
<1>10. SetToSeq(S) \in Seq(S)
  <2> HIDE DEF n
  <2> QED  BY <1>1, <1>3
<1> QED  BY <1>9, <1>10

LEMMA JoinedLists ==
  ASSUME NEW S, NEW s \in Seq(S), NEW t \in Seq(S)
  PROVE  s \o t \in Seq(S) /\ \A x : Holds(s \o t, x) <=> Holds(s, x) \/ Holds(t, x)
<1>1. /\ s \o t \in Seq(S) /\ Len(s \o t) = Len(s) + Len(t) /\ Len(s) \in Nat /\ Len(t) \in Nat
      /\ DOMAIN s = 1..Len(s) /\ DOMAIN t = 1..Len(t) /\ DOMAIN (s \o t) = 1..Len(s \o t)
      /\ \A n \in 1..Len(s) + Len(t) : (s \o t)[n] = IF n <= Len(s) THEN s[n] ELSE t[n - Len(s)]
  BY ConcatProperties, LenProperties
<1>2. ASSUME NEW x, Holds(s \o t, x) PROVE Holds(s, x) \/ Holds(t, x)
  <2>1. PICK n \in 1..Len(s) + Len(t) : x = (s \o t)[n]
    BY <1>1, <1>2 DEF Holds
  <2>2. CASE n <= Len(s)
    BY <1>1, <2>1, <2>2 DEF Holds
  <2>3. CASE ~(n <= Len(s))
    <3>1. n - Len(s) \in 1..Len(t) /\ x = t[n - Len(s)]
      BY <1>1, <2>1, <2>3
    <3> QED  BY <1>1, <3>1 DEF Holds
  <2> QED  BY <2>2, <2>3
<1>3. ASSUME NEW x, Holds(s, x) PROVE Holds(s \o t, x)
  <2>1. PICK n \in 1..Len(s) : x = s[n]
    BY <1>1, <1>3 DEF Holds
  <2>2. n \in 1..Len(s) + Len(t) /\ (s \o t)[n] = s[n]
    BY <1>1
  <2> QED  BY <1>1, <2>1, <2>2 DEF Holds
<1>4. ASSUME NEW x, Holds(t, x) PROVE Holds(s \o t, x)
  <2>1. PICK n \in 1..Len(t) : x = t[n]
    BY <1>1, <1>4 DEF Holds
  <2>2. n + Len(s) \in 1..Len(s) + Len(t) /\ ~(n + Len(s) <= Len(s)) /\ n + Len(s) - Len(s) = n
    BY <1>1
  <2>3. (s \o t)[n + Len(s)] = t[n]
    BY <1>1, <2>2
  <2> QED  BY <1>1, <2>1, <2>2, <2>3 DEF Holds
<1> QED  BY <1>1, <1>2, <1>3, <1>4

(* The recursive function behind FlattenSeq is there: it is built up to each length. *)
LEMMA FlattenExists ==
  ASSUME NEW lists, Len(lists) \in Nat
  PROVE  \E g : g = [i \in 1..Len(lists) |-> IF i = 1 THEN lists[i] ELSE g[i - 1] \o lists[i]]
<1> DEFINE Built(m) == \E g : g = [i \in 1..m |-> IF i = 1 THEN lists[i] ELSE g[i - 1] \o lists[i]]
           S == {m \in Nat : Built(m)}
<1>1. Built(0)
  <2>1. 1..0 = {}
    OBVIOUS
  <2>2. <<>> = [i \in 1..0 |-> IF i = 1 THEN lists[i] ELSE <<>>[i - 1] \o lists[i]]
    BY <2>1
  <2> QED  BY <2>2
<1>2. ASSUME NEW m \in Nat, Built(m) PROVE Built(m + 1)
  <2>1. PICK g : g = [i \in 1..m |-> IF i = 1 THEN lists[i] ELSE g[i - 1] \o lists[i]]
    BY <1>2
  <2> DEFINE h == [i \in 1..(m + 1) |-> IF i = 1 THEN lists[i] ELSE g[i - 1] \o lists[i]]
  <2>2. \A i \in 1..m : h[i] = g[i]
    <3>1. \A i \in 1..m : g[i] = IF i = 1 THEN lists[i] ELSE g[i - 1] \o lists[i]
      BY <2>1
    <3>2. \A i \in 1..m : i \in 1..(m + 1)
      OBVIOUS
    <3> QED  BY <3>1, <3>2
  <2>3. \A i \in 1..(m + 1) : i = 1 \/ i - 1 \in 1..m
    OBVIOUS
  <2>4. \A i \in 1..(m + 1) : h[i] = IF i = 1 THEN lists[i] ELSE h[i - 1] \o lists[i]
    BY <2>2, <2>3
  <2>5. h = [i \in 1..(m + 1) |-> h[i]]
    OBVIOUS
  <2> HIDE DEF h
  <2>6. h = [i \in 1..(m + 1) |-> IF i = 1 THEN lists[i] ELSE h[i - 1] \o lists[i]]
    BY <2>4, <2>5
  <2> QED  BY <2>6
<1> HIDE DEF Built
<1>3. Nat \subseteq S
  <2>1. 0 \in S /\ \A m \in Nat : m \in S => m + 1 \in S
    BY <1>1, <1>2
  <2> HIDE DEF S
  <2> QED  BY <2>1, AllNumbers
<1> QED  BY <1>3 DEF Built

LEMMA Flattened ==
  ASSUME NEW S, NEW lists \in Seq(Seq(S))
  PROVE  /\ FlattenSeq(lists) \in Seq(S)
         /\ \A x : Holds(FlattenSeq(lists), x) <=> \E n \in DOMAIN lists : Holds(lists[n], x)
<1>1. Len(lists) \in Nat /\ DOMAIN lists = 1..Len(lists) /\ \A n \in 1..Len(lists) : lists[n] \in Seq(S)
  BY LenProperties, ElementOfSeq
<1>2. CASE Len(lists) = 0
  <2>1. lists = <<>> /\ FlattenSeq(lists) = lists
    BY <1>2, EmptySeq DEF FlattenSeq
  <2>2. <<>> \in Seq(S) /\ DOMAIN lists = {}
    BY <1>1, <1>2
  <2> QED  BY <2>1, <2>2 DEF Holds
<1>3. CASE Len(lists) # 0
  <2> DEFINE IsFlat(g) == g = [i \in 1..Len(lists) |-> IF i = 1 THEN lists[i] ELSE g[i - 1] \o lists[i]]
             flat == CHOOSE g : IsFlat(g)
  <2>1. IsFlat(flat)
    BY <1>1, FlattenExists
  <2>2. FlattenSeq(lists) = flat[Len(lists)]
    BY <1>3 DEF FlattenSeq
  <2> DEFINE Right(n) == n \in 1..Len(lists) =>
                          /\ flat[n] \in Seq(S)
                          /\ \A x : Holds(flat[n], x) <=> \E m \in 1..n : Holds(lists[m], x)
             Reached == {n \in Nat : Right(n)}
  <2>3. \A n \in 1..Len(lists) : flat[n] = IF n = 1 THEN lists[n] ELSE flat[n - 1] \o lists[n]
    BY <2>1
  <2> HIDE DEF flat, IsFlat
  <2>4. Right(0)
    BY <1>1
  <2>5. ASSUME NEW n \in Nat, Right(n) PROVE Right(n + 1)
    <3>1. SUFFICES ASSUME n + 1 \in 1..Len(lists)
                   PROVE  /\ flat[n + 1] \in Seq(S)
                          /\ \A x : Holds(flat[n + 1], x) <=> \E m \in 1..(n + 1) : Holds(lists[m], x)
      OBVIOUS
    <3>2. CASE n = 0
      <4>1. flat[n + 1] = lists[1] /\ lists[1] \in Seq(S) /\ 1..(n + 1) = {1}
        BY <1>1, <2>3, <3>1, <3>2
      <4> QED  BY <4>1
    <3>3. CASE n # 0
      <4>1. n \in 1..Len(lists) /\ n + 1 # 1 /\ n + 1 - 1 = n
        BY <1>1, <3>1, <3>3
      <4>2. flat[n + 1] = flat[n] \o lists[n + 1] /\ flat[n] \in Seq(S) /\ lists[n + 1] \in Seq(S)
        <5>1. flat[n] \in Seq(S)
          BY <2>5, <4>1
        <5>2. flat[n + 1] = flat[n] \o lists[n + 1]
          <6>1. PICK j \in 1..Len(lists) : j = n + 1
            BY <3>1
          <6>2. j # 1 /\ j - 1 = n
            BY <4>1, <6>1
          <6>3. flat[j] = flat[j - 1] \o lists[j]
            BY <2>3, <6>2
          <6> QED  BY <6>1, <6>2, <6>3
        <5> QED  BY <1>1, <3>1, <5>1, <5>2
      <4>3. \A m : m \in 1..(n + 1) <=> m \in 1..n \/ m = n + 1
        OBVIOUS
      <4>4. flat[n + 1] \in Seq(S)
            /\ \A x : Holds(flat[n + 1], x) <=> Holds(flat[n], x) \/ Holds(lists[n + 1], x)
        BY <4>2, JoinedLists
      <4> QED  BY <2>5, <4>1, <4>3, <4>4
    <3> QED  BY <3>2, <3>3
  <2> HIDE DEF Right
  <2>6. Nat \subseteq Reached
    <3>1. 0 \in Reached /\ \A m \in Nat : m \in Reached => m + 1 \in Reached
      BY <2>4, <2>5
    <3> HIDE DEF Reached
    <3> QED  BY <3>1, AllNumbers
  <2>7. Right(Len(lists))
    BY <1>1, <2>6
  <2>8. Len(lists) \in 1..Len(lists)
    BY <1>1, <1>3
  <2>9. /\ flat[Len(lists)] \in Seq(S)
        /\ \A x : Holds(flat[Len(lists)], x) <=> \E m \in 1..Len(lists) : Holds(lists[m], x)
    BY <2>7, <2>8 DEF Right
  <2> QED  BY <1>1, <2>2, <2>9
<1> QED  BY <1>2, <1>3

-----------------------------------------------------------------------------
(* What calls are about *)

(* Facts of fields with several values, which edits add and remove one by one. *)
Free == {f \in Facts : f[2] \notin Single}

\* A call with others inside is those.
Flat(x) == IF x[1] = "attributes" THEN {x[3][m] : m \in DOMAIN x[3]} ELSE {x}
Pieces(q) == UNION {Flat(q[n]) : n \in DOMAIN q}

\* What a call will, and may, do to a fact.
AsLabelled(f, i, label, o) == f[1] = i /\ f[2] \in Resolved(label) /\ f[3] = o
Adds(x, f) ==
  \/ x[1] = "add" /\ f = x[2]
  \/ x[1] = "insertAssertion" /\ AsLabelled(f, x[2], x[3], x[4])
MayAdd(x, f) == Adds(x, f) \/ (x[1] = "updateRelation" /\ AsLabelled(f, x[2][1], x[3], x[4]))
Takes(x, f) ==
  \/ x[1] \in {"remove", "deleteAssertion"} /\ f = x[2]
  \/ x[1] = "changeClass" /\ f[1] = x[2] /\ f[2] \in x[4]
  \/ x[1] = "deleteIndividual" /\ f[1] = x[2]
  \/ x[1] = "deleteIncoming" /\ f[3] = x[2]
MayTake(x, f) == Takes(x, f) \/ x[1] = "dropMembers" \/ (x[1] = "updateRelation" /\ f = x[2])

\* Calls that write a fact write one there can be, and none are inside those inside.
Fits(x) ==
  /\ x[1] = "set" => x[3] \in Single /\ (x[4] = None \/ <<x[2], x[3], x[4]>> \in Facts)
  /\ x[1] = "add" => x[2] \in Facts
  /\ x[1] = "insertAssertion" => \A p \in Resolved(x[3]) : <<x[2], p, x[4]>> \in Facts
  /\ x[1] = "updateRelation" => \A p \in Resolved(x[3]) : <<x[2][1], p, x[4]>> \in Facts
IsList(q) == \E S : q \in Seq(S)
CallsFit(q) ==
  /\ \A x : Holds(q, x) /\ x[1] = "attributes" =>
       IsList(x[3]) /\ \A y : Holds(x[3], y) => y[1] \in {"set", "add", "remove"}
  /\ \A x \in Pieces(q) : Fits(x)

FormsFit ==
  /\ form = [k \in Clients |-> form[k]]
  /\ \A k \in Clients : \A opened \in form[k] :
       /\ opened.of \in Individuals /\ opened.class \in Classes
       /\ opened.base \subseteq AllFacts({opened.of}, FieldsOf[opened.class])

\* No call does what was not said when its edit began.
Announced ==
  \A k \in Clients, f \in Free : \A x \in Pieces(todo[k]) :
    /\ MayAdd(x, f) => f \in asked.add \cup asked.mayAdd
    /\ MayTake(x, f) => f \in asked.remove \cup asked.mayRemove

\* What was asked for has been done, or is still to come.
Coming ==
  \A f \in asked.add \ (asked.remove \cup asked.mayRemove) :
    f \in store.facts \/ \E k \in Clients : \E x \in Pieces(todo[k]) : Adds(x, f)
Going ==
  \A f \in store.facts \cap asked.remove :
    f \in asked.add \cup asked.mayAdd \/ \E k \in Clients : \E x \in Pieces(todo[k]) : Takes(x, f)

MergeInv ==
  /\ store.facts \subseteq Facts
  /\ \E S : todo \in [Clients -> Seq(S)]
  /\ \A k \in Clients : CallsFit(todo[k])
  /\ FormsFit
  /\ asked.add \subseteq Free /\ asked.remove \subseteq Free
  /\ Announced
  /\ "broken" \notin marks => Coming /\ Going

LEMMA PiecesHeld ==
  ASSUME NEW q, NEW y
  PROVE  y \in Pieces(q) <=> \E x : Holds(q, x) /\ y \in Flat(x)
  BY DEF Pieces, Holds

LEMMA HeadAndTail ==
  ASSUME NEW S, NEW q \in Seq(S), q # <<>>
  PROVE  Tail(q) \in Seq(S) /\ \A x : Holds(q, x) <=> x = Head(q) \/ Holds(Tail(q), x)
<1>1. /\ Tail(q) \in Seq(S) /\ Len(q) \in Nat /\ Len(q) # 0 /\ Len(Tail(q)) = Len(q) - 1 /\ Head(q) = q[1]
      /\ DOMAIN q = 1..Len(q) /\ DOMAIN Tail(q) = 1..Len(q) - 1
      /\ \A n \in 1..Len(q) - 1 : Tail(q)[n] = q[n + 1]
  BY HeadTailProperties, LenProperties, EmptySeq
<1>2. ASSUME NEW x, Holds(q, x), x # Head(q) PROVE Holds(Tail(q), x)
  <2>1. PICK n \in 1..Len(q) : x = q[n]
    BY <1>1, <1>2 DEF Holds
  <2>2. n # 1
    BY <1>1, <1>2, <2>1
  <2>3. PICK m \in 1..Len(q) - 1 : m + 1 = n
    <3>1. n - 1 \in 1..Len(q) - 1 /\ n - 1 + 1 = n
      BY <1>1, <2>2
    <3> QED  BY <3>1
  <2> QED  BY <1>1, <2>1, <2>3 DEF Holds
<1>3. ASSUME NEW x, Holds(Tail(q), x) PROVE Holds(q, x)
  <2>1. PICK m \in 1..Len(q) - 1 : x = Tail(q)[m]
    BY <1>1, <1>3 DEF Holds
  <2>2. m + 1 \in 1..Len(q) /\ x = q[m + 1]
    BY <1>1, <2>1
  <2> QED  BY <1>1, <2>2 DEF Holds
<1>4. Holds(q, Head(q))
  <2>1. 1 \in 1..Len(q)
    BY <1>1
  <2> QED  BY <1>1, <2>1 DEF Holds
<1> QED  BY <1>1, <1>2, <1>3, <1>4

\* A client's calls when the first has become others.
LEMMA CallsAfter ==
  ASSUME NEW S, NEW q \in Seq(S), q # <<>>, NEW T, NEW calls \in Seq(T)
  PROVE  /\ calls \o Tail(q) \in Seq(S \cup T)
         /\ \A x : Holds(calls \o Tail(q), x) <=> Holds(calls, x) \/ Holds(Tail(q), x)
         /\ \A x : Holds(q, x) <=> x = Head(q) \/ Holds(Tail(q), x)
<1>1. Tail(q) \in Seq(S) /\ \A x : Holds(q, x) <=> x = Head(q) \/ Holds(Tail(q), x)
  BY HeadAndTail
<1>2. Tail(q) \in Seq(S \cup T) /\ calls \in Seq(S \cup T)
  BY <1>1, SeqMonotonic
<1> QED  BY <1>1, <1>2, JoinedLists

LEMMA FitHeld ==
  ASSUME NEW q, NEW r, NEW s, CallsFit(r), CallsFit(s), \A x : Holds(q, x) => Holds(r, x) \/ Holds(s, x)
  PROVE  CallsFit(q) /\ \A y \in Pieces(q) : y \in Pieces(r) \/ y \in Pieces(s)
<1>1. ASSUME NEW y \in Pieces(q) PROVE y \in Pieces(r) \/ y \in Pieces(s)
  BY <1>1, PiecesHeld
<1>2. \A x : Holds(q, x) /\ x[1] = "attributes" =>
        IsList(x[3]) /\ \A y : Holds(x[3], y) => y[1] \in {"set", "add", "remove"}
  BY DEF CallsFit
<1>3. \A x \in Pieces(q) : Fits(x)
  BY <1>1 DEF CallsFit
<1> QED  BY <1>1, <1>2, <1>3 DEF CallsFit

\* An edit goes on: its first call has done what it does, and has left others in its place.
LEMMA Moves ==
  ASSUME MergeInv, NEW k \in Clients, todo[k] # <<>>, NEW T, NEW calls \in Seq(T), CallsFit(calls),
         todo' = [todo EXCEPT ![k] = calls \o Tail(@)], UNCHANGED <<form, asked>>, marks \subseteq marks',
         store'.facts \subseteq Facts,
         \A y \in Pieces(calls) : y \in Flat(Call(k)) \/ y[1] \in {"reify", "annotate"},
         \A f \in Free : f \in store'.facts /\ f \notin store.facts => \E x \in Flat(Call(k)) : MayAdd(x, f),
         \A f \in Free : f \in store.facts /\ f \notin store'.facts => \E x \in Flat(Call(k)) : MayTake(x, f),
         \A f \in Free, x \in Flat(Call(k)) :
           \/ x \in Pieces(calls)
           \/ (Adds(x, f) => f \in store'.facts) /\ (Takes(x, f) => f \notin store'.facts)
  PROVE  MergeInv'
<1>1. PICK S : todo \in [Clients -> Seq(S)]
  BY DEF MergeInv
<1>2. /\ calls \o Tail(todo[k]) \in Seq(S \cup T)
      /\ \A x : Holds(calls \o Tail(todo[k]), x) <=> Holds(calls, x) \/ Holds(Tail(todo[k]), x)
      /\ \A x : Holds(todo[k], x) <=> x = Call(k) \/ Holds(Tail(todo[k]), x)
  BY <1>1, CallsAfter DEF Call
<1>3. todo' \in [Clients -> Seq(S \cup T)] /\ todo'[k] = calls \o Tail(todo[k])
      /\ \A j \in Clients : j # k => todo'[j] = todo[j]
  <2>1. \A j \in Clients : todo[j] \in Seq(S \cup T)
    BY <1>1, SeqMonotonic
  <2> QED  BY <1>1, <1>2, <2>1
<1>4. CallsFit(todo[k])
  BY DEF MergeInv
<1>5. CallsFit(todo'[k])
  BY <1>2, <1>3, <1>4, FitHeld
<1>6. \A j \in Clients : CallsFit(todo'[j])
  BY <1>3, <1>5 DEF MergeInv
<1>7. \A y : y \in Pieces(todo[k]) <=> y \in Flat(Call(k)) \/ y \in Pieces(Tail(todo[k]))
  <2>1. \A y : y \in Pieces(todo[k]) <=> \E x : (x = Call(k) \/ Holds(Tail(todo[k]), x)) /\ y \in Flat(x)
    BY <1>2, PiecesHeld
  <2> QED  BY <2>1, PiecesHeld
<1>8. \A y : y \in Pieces(todo'[k]) <=> y \in Pieces(calls) \/ y \in Pieces(Tail(todo[k]))
  <2>1. \A y : y \in Pieces(todo'[k]) <=> \E x : (Holds(calls, x) \/ Holds(Tail(todo[k]), x)) /\ y \in Flat(x)
    BY <1>2, <1>3, PiecesHeld
  <2> QED  BY <2>1, PiecesHeld
<1>9. \A j \in Clients : \A x \in Pieces(todo'[j]) : x \in Pieces(todo[j]) \/ x[1] \in {"reify", "annotate"}
  BY <1>3, <1>7, <1>8
<1>10. asked' = asked /\ form' = form
  OBVIOUS
<1>11. Announced'
  <2>1. \A j \in Clients, f \in Free : \A x \in Pieces(todo[j]) :
          /\ MayAdd(x, f) => f \in asked.add \cup asked.mayAdd
          /\ MayTake(x, f) => f \in asked.remove \cup asked.mayRemove
    BY DEF MergeInv, Announced
  <2>2. \A f, x : x[1] \in {"reify", "annotate"} => ~MayAdd(x, f) /\ ~MayTake(x, f)
    BY DEF MayAdd, MayTake, Adds, Takes
  <2>3. \A j \in Clients, f \in Free : \A x \in Pieces(todo'[j]) :
          /\ MayAdd(x, f) => f \in asked'.add \cup asked'.mayAdd
          /\ MayTake(x, f) => f \in asked'.remove \cup asked'.mayRemove
    BY <1>9, <1>10, <2>1, <2>2
  <2> QED  BY <2>3 DEF Announced
<1>12. \A f \in Free, x \in Flat(Call(k)) :
         /\ MayAdd(x, f) => f \in asked.add \cup asked.mayAdd
         /\ MayTake(x, f) => f \in asked.remove \cup asked.mayRemove
  BY <1>7 DEF MergeInv, Announced
<1>13. asked.add \subseteq Free /\ asked.remove \subseteq Free
  BY DEF MergeInv
<1>14. \A j \in Clients, f \in Free : \A x \in Pieces(todo[j]) :
         \/ x \in Pieces(todo'[j])
         \/ (Adds(x, f) => f \in store'.facts) /\ (Takes(x, f) => f \notin store'.facts)
  BY <1>3, <1>7, <1>8
<1>15. ASSUME "broken" \notin marks' PROVE Coming'
  <2>1. Coming
    BY <1>15 DEF MergeInv
  <2>2. SUFFICES ASSUME NEW f \in asked.add \ (asked.remove \cup asked.mayRemove), f \notin store'.facts
                 PROVE  \E j \in Clients : \E x \in Pieces(todo'[j]) : Adds(x, f)
    BY <1>10 DEF Coming
  <2>3. f \in Free /\ f \notin store.facts
    BY <1>12, <1>13, <2>2
  <2>4. PICK j \in Clients : \E x \in Pieces(todo[j]) : Adds(x, f)
    BY <2>1, <2>2, <2>3 DEF Coming
  <2> QED  BY <1>14, <2>2, <2>3, <2>4
<1>16. ASSUME "broken" \notin marks' PROVE Going'
  <2>1. Going
    BY <1>16 DEF MergeInv
  <2>2. SUFFICES ASSUME NEW f \in store'.facts \cap asked.remove, f \notin asked.add \cup asked.mayAdd
                 PROVE  \E j \in Clients : \E x \in Pieces(todo'[j]) : Takes(x, f)
    BY <1>10 DEF Going
  <2>3. f \in Free /\ f \in store.facts
    BY <1>12, <1>13, <2>2
  <2>4. PICK j \in Clients : \E x \in Pieces(todo[j]) : Takes(x, f)
    BY <2>1, <2>2, <2>3 DEF Going
  <2> QED  BY <1>14, <2>2, <2>3, <2>4
<1>17. FormsFit'
  <2>1. FormsFit
    BY DEF MergeInv
  <2> QED  BY <1>10, <2>1 DEF FormsFit
<1>18. asked'.add \subseteq Free /\ asked'.remove \subseteq Free
  BY <1>10, <1>13
<1>19. \E R : todo' \in [Clients -> Seq(R)]
  BY <1>3
<1> QED  BY <1>6, <1>11, <1>15, <1>16, <1>17, <1>18, <1>19 DEF MergeInv

\* An edit stops short: from then on nothing is promised.
LEMMA Stops ==
  ASSUME MergeInv, NEW k \in Clients, todo' = [todo EXCEPT ![k] = <<>>], UNCHANGED <<form, asked>>,
         "broken" \in marks', store'.facts \subseteq Facts
  PROVE  MergeInv'
<1>1. PICK S : todo \in [Clients -> Seq(S)]
  BY DEF MergeInv
<1>2. todo' \in [Clients -> Seq(S)] /\ todo'[k] = <<>> /\ \A j \in Clients : j # k => todo'[j] = todo[j]
  BY <1>1
<1>3. Pieces(<<>>) = {} /\ CallsFit(<<>>)
  BY DEF Pieces, CallsFit, Holds
<1>4. \A j \in Clients : CallsFit(todo'[j])
  BY <1>2, <1>3 DEF MergeInv
<1>5. \A j \in Clients : \A x \in Pieces(todo'[j]) : x \in Pieces(todo[j])
  BY <1>2, <1>3
<1>6. asked' = asked /\ form' = form
  OBVIOUS
<1>7. Announced'
  <2>1. Announced
    BY DEF MergeInv
  <2>2. \A j \in Clients, f \in Free : \A x \in Pieces(todo'[j]) :
          /\ MayAdd(x, f) => f \in asked'.add \cup asked'.mayAdd
          /\ MayTake(x, f) => f \in asked'.remove \cup asked'.mayRemove
    BY <1>5, <1>6, <2>1 DEF Announced
  <2> QED  BY <2>2 DEF Announced
<1>8. FormsFit'
  <2>1. FormsFit
    BY DEF MergeInv
  <2> QED  BY <1>6, <2>1 DEF FormsFit
<1>9. asked'.add \subseteq Free /\ asked'.remove \subseteq Free
  BY <1>6 DEF MergeInv
<1> QED  BY <1>2, <1>4, <1>7, <1>8, <1>9 DEF MergeInv

-----------------------------------------------------------------------------
(* Calls that are done *)

\* A call is done, and left others in its place; or its edit stopped.
Done(k, calls) ==
  \/ todo' = [todo EXCEPT ![k] = calls \o Tail(@)] /\ marks \subseteq marks'
  \/ todo' = [todo EXCEPT ![k] = <<>>] /\ "broken" \in marks'

LEMMA Outcomes ==
  ASSUME NEW k, NEW st, NEW calls, NEW mark
  PROVE  /\ WriteThen(k, st, calls, mark) => store' = st /\ Done(k, calls)
         /\ Write(k, st) => store' = st /\ Done(k, <<>>)
         /\ Becomes(k, calls) => store' = store /\ Done(k, calls)
         /\ Throw(k) => store' = store /\ todo' = [todo EXCEPT ![k] = <<>>] /\ "broken" \in marks'
  BY DEF WriteThen, Write, Becomes, Throw, Breaks, Done

\* What a call that is no list of others has to do with facts, in whatever comes out of it.
Does(x) ==
  \A f \in Free :
    /\ f \in store'.facts /\ f \notin store.facts => MayAdd(x, f)
    /\ f \in store.facts /\ f \notin store'.facts => MayTake(x, f)
    /\ Adds(x, f) => f \in store'.facts
    /\ Takes(x, f) => f \notin store'.facts

LEMMA CallMoves ==
  ASSUME MergeInv, NEW k \in Clients, todo[k] # <<>>, NEW T, NEW calls \in Seq(T), UNCHANGED <<form, asked>>,
         \A y : Holds(calls, y) => y[1] \in {"reify", "annotate"},
         Call(k)[1] # "attributes", Done(k, calls), Does(Call(k)), store'.facts \subseteq Facts
  PROVE  MergeInv'
<1>1. Flat(Call(k)) = {Call(k)}
  BY DEF Flat
<1>2. \A y \in Pieces(calls) : y[1] \in {"reify", "annotate"}
  BY PiecesHeld DEF Flat
<1>3. CallsFit(calls)
  <2>1. \A y \in Pieces(calls) : Fits(y)
    BY <1>2 DEF Fits
  <2>2. \A y : Holds(calls, y) => y[1] # "attributes"
    OBVIOUS
  <2> QED  BY <2>1, <2>2 DEF CallsFit
<1>4. CASE todo' = [todo EXCEPT ![k] = calls \o Tail(@)] /\ marks \subseteq marks'
  <2>1. \A f \in Free : f \in store'.facts /\ f \notin store.facts => \E x \in Flat(Call(k)) : MayAdd(x, f)
    BY <1>1 DEF Does
  <2>2. \A f \in Free : f \in store.facts /\ f \notin store'.facts => \E x \in Flat(Call(k)) : MayTake(x, f)
    BY <1>1 DEF Does
  <2>3. \A f \in Free, x \in Flat(Call(k)) :
          \/ x \in Pieces(calls)
          \/ (Adds(x, f) => f \in store'.facts) /\ (Takes(x, f) => f \notin store'.facts)
    BY <1>1 DEF Does
  <2> QED  BY <1>2, <1>3, <1>4, <2>1, <2>2, <2>3, Moves
<1> QED  BY <1>4, Stops DEF Done

LEMMA NoMore == <<>> \in Seq({}) /\ \A y : ~Holds(<<>>, y)
  BY DEF Holds

LEMMA LastMoves ==
  ASSUME MergeInv, NEW k \in Clients, todo[k] # <<>>, UNCHANGED <<form, asked>>,
         Call(k)[1] # "attributes", Done(k, <<>>), Does(Call(k)), store'.facts \subseteq Facts
  PROVE  MergeInv'
  BY NoMore, CallMoves

LEMMA ThrowMerges ==
  ASSUME MergeInv, NEW k \in Clients, Throw(k) \/ Fail(k), UNCHANGED <<form, asked>>
  PROVE  MergeInv'
<1>1. store' = store /\ todo' = [todo EXCEPT ![k] = <<>>] /\ "broken" \in marks'
  BY Outcomes DEF Fail, Breaks
<1>2. store'.facts \subseteq Facts
  BY <1>1 DEF MergeInv
<1> QED  BY <1>1, <1>2, Stops

\* Calls that are not about the facts of such fields.
Idle == {"insertIndividual", "ensureReified", "reify", "annotate", "deleteAnnotation"}

LEMMA IdleDoes ==
  ASSUME NEW x, x[1] \in Idle, store'.facts = store.facts
  PROVE  Does(x) /\ x[1] # "attributes"
  BY DEF Does, Idle, MayAdd, MayTake, Adds, Takes

LEMMA IdleMerges ==
  ASSUME Shape, MergeInv, NEW k \in Clients, todo[k] # <<>>, UNCHANGED <<form, asked>>, NEW x, x = Call(k),
         \/ x[1] = "insertIndividual" /\ InsertIndividual(k, x[2], x[3])
         \/ x[1] = "ensureReified" /\ EnsureReifiedFact(k, x[2], x[3])
         \/ x[1] = "reify" /\ Reify(k, x[2], x[3])
         \/ x[1] = "annotate" /\ Annotate(k, x[2], x[3])
         \/ x[1] = "deleteAnnotation" /\ DeleteAnnotation(k, x[2])
  PROVE  MergeInv'
<1>1. CASE Throw(k)
  BY <1>1, ThrowMerges
<1>2. ASSUME NEW calls, Done(k, calls), store'.facts = store.facts,
             calls = <<>> \/ \E y : calls = <<y>> /\ y[1] \in {"reify", "annotate"}
      PROVE  MergeInv'
  <2>1. Does(x) /\ x[1] # "attributes" /\ store'.facts \subseteq Facts
    BY <1>2, IdleDoes DEF Idle, MergeInv
  <2>2. CASE calls = <<>>
    BY <1>2, <2>1, <2>2, LastMoves
  <2>3. ASSUME NEW y, calls = <<y>>, y[1] \in {"reify", "annotate"} PROVE MergeInv'
    <3>1. calls \in Seq({y})
      BY <2>3
    <3>2. \A z : Holds(calls, z) => z[1] \in {"reify", "annotate"}
      BY <2>3 DEF Holds
    <3> QED  BY <1>2, <2>1, <3>1, <3>2, CallMoves
  <2> QED  BY <1>2, <2>2, <2>3
<1>3. CASE x[1] = "insertIndividual" /\ InsertIndividual(k, x[2], x[3])
  <2>1. CASE Write(k, [store EXCEPT !.types = @ \cup {<<x[2], x[3]>>}])
    <3>1. store' = [store EXCEPT !.types = @ \cup {<<x[2], x[3]>>}] /\ Done(k, <<>>)
      BY <2>1, Outcomes
    <3>2. store'.facts = store.facts
      BY <3>1 DEF Shape, StoreShape
    <3> QED  BY <3>1, <3>2, <1>2
  <2> QED  BY <1>1, <1>3, <2>1 DEF InsertIndividual
<1>4. CASE x[1] = "ensureReified" /\ EnsureReifiedFact(k, x[2], x[3])
  <2>1. ASSUME NEW calls, Becomes(k, calls), calls = <<>> \/ \E y : calls = <<y>> /\ y[1] \in {"reify", "annotate"}
        PROVE  MergeInv'
    BY <1>2, <2>1, Outcomes
  <2>2. CASE Becomes(k, <<<<"reify", x[2], x[3]>>>>)
    BY <2>1, <2>2
  <2>3. ASSUME NEW st, Becomes(k, IF x[3] THEN <<<<"annotate", x[2], st.id>>>> ELSE <<>>)
        PROVE  MergeInv'
    BY <2>1, <2>3
  <2> QED  BY <1>1, <1>4, <2>2, <2>3 DEF EnsureReifiedFact
<1>5. CASE x[1] = "reify" /\ Reify(k, x[2], x[3])
  <2> DEFINE new == [id |-> minted + 1, s |-> x[2][1], p |-> x[2][2], o |-> x[2][3]]
             calls == IF x[3] THEN <<<<"annotate", x[2], minted + 1>>>> ELSE <<>>
  <2>1. WriteThen(k, [store EXCEPT !.statements = @ \cup {new}], calls, {})
    BY <1>5 DEF Reify
  <2>2. calls = <<>> \/ \E y : calls = <<y>> /\ y[1] \in {"reify", "annotate"}
    OBVIOUS
  <2> HIDE DEF new, calls
  <2>3. store' = [store EXCEPT !.statements = @ \cup {new}] /\ Done(k, calls)
    BY <2>1, Outcomes
  <2>4. store'.facts = store.facts
    BY <2>3 DEF Shape, StoreShape
  <2> QED  BY <1>2, <2>2, <2>3, <2>4
<1>6. CASE x[1] = "annotate" /\ Annotate(k, x[2], x[3])
  <2>1. CASE ~Throw(k)
    <3>1. PICK mark, new : WriteThen(k, [store EXCEPT !.annotations = @ \cup {new}], <<>>, mark)
      BY <1>6, <2>1 DEF Annotate
    <3>2. store'.facts = store.facts /\ Done(k, <<>>)
      BY <3>1, Outcomes DEF Shape, StoreShape
    <3> QED  BY <3>2, <1>2
  <2> QED  BY <1>1, <2>1
<1>7. CASE x[1] = "deleteAnnotation" /\ DeleteAnnotation(k, x[2])
  <2> DEFINE kept == {a \in store.annotations : a.id # x[2]}
  <2>1. Write(k, [store EXCEPT !.annotations = kept])
    BY <1>7 DEF DeleteAnnotation
  <2> HIDE DEF kept
  <2>2. store' = [store EXCEPT !.annotations = kept] /\ Done(k, <<>>)
    BY <2>1, Outcomes
  <2>3. store'.facts = store.facts
    BY <2>2 DEF Shape, StoreShape
  <2> QED  BY <2>2, <2>3, <1>2
<1> QED  BY <1>3, <1>4, <1>5, <1>6, <1>7

\* Relations that forms and dialogs name by their label can be told apart.
LabelsApart == \A p, q \in Relations : LabelOf[p] = LabelOf[q] => p = q

LEMMA FactParts ==
  ASSUME NEW f \in Free
  PROVE  f = <<f[1], f[2], f[3]>> /\ f[2] \in Fields /\ f[2] \notin Single /\ f \in Facts
  BY DEF Free, Facts

LEMMA Replaced ==
  ASSUME NEW F, NEW S, NEW A, NEW r, NEW s, r \in [types : {s.types}, facts : {F}, statements : {S}, annotations : {A}]
  PROVE  r.facts = F /\ StoreShape(r)
<1>1. \A q \in [types : {s.types}, facts : {F}, statements : {S}, annotations : {A}] :
        q.facts = F /\ q = [types |-> q.types, facts |-> q.facts, statements |-> q.statements,
                            annotations |-> q.annotations]
  OBVIOUS
<1>2. StoreShape(r)
  BY <1>1, Zenon DEF StoreShape
<1> QED  BY <1>1, <1>2, Zenon

LEMMA StoreFields ==
  ASSUME Shape
  PROVE  store \in [types : {store.types}, facts : {store.facts}, statements : {store.statements},
                    annotations : {store.annotations}]
  BY DEF Shape, StoreShape

LEMMA CallFits ==
  ASSUME MergeInv, NEW k \in Clients, todo[k] # <<>>, NEW x, x = Call(k)
  PROVE  Holds(todo[k], x) /\ CallsFit(todo[k]) /\ (Fits(x) \/ x[1] = "attributes")
<1>1. PICK S : todo \in [Clients -> Seq(S)]
  BY DEF MergeInv
<1>2. Holds(todo[k], x)
  BY <1>1, HeadAndTail DEF Call
<1>3. CallsFit(todo[k])
  BY DEF MergeInv
<1>4. x[1] # "attributes" => x \in Pieces(todo[k])
  BY <1>2, PiecesHeld DEF Flat
<1> QED  BY <1>2, <1>3, <1>4 DEF CallsFit

\* A call that takes facts away, and adds none.
LEMMA TakingMerges ==
  ASSUME Shape, MergeInv, NEW k \in Clients, todo[k] # <<>>, UNCHANGED <<form, asked>>, NEW x, x = Call(k),
         \/ x[1] = "changeClass" /\ ChangeIndividualClass(k, x[2], x[3], x[4])
         \/ x[1] = "remove" /\ RemoveIndividualAttributeValue(k, x[2])
         \/ x[1] = "deleteAssertion" /\ DeleteAssertion(k, x[2])
         \/ x[1] = "deleteIndividual" /\ DeleteIndividual(k, x[2])
         \/ x[1] = "deleteIncoming" /\ DeleteIncoming(k, x[2])
         \/ x[1] = "dropMembers" /\ DropMembers(k, x[2])
  PROVE  MergeInv'
<1>1. CASE Throw(k)
  BY <1>1, ThrowMerges
<1>2. ASSUME Done(k, <<>>), NEW gone, store'.facts = store.facts \ gone, x[1] # "attributes",
             \A f \in Free : /\ f \in gone /\ f \in store.facts => MayTake(x, f)
                             /\ Takes(x, f) /\ f \in store.facts => f \in gone
                             /\ ~Adds(x, f)
      PROVE  MergeInv'
  <2>1. Does(x)
    BY <1>2 DEF Does
  <2>2. store'.facts \subseteq Facts
    BY <1>2 DEF MergeInv
  <2> QED  BY <1>2, <2>1, <2>2, LastMoves
<1>3. CASE x[1] = "changeClass" /\ ChangeIndividualClass(k, x[2], x[3], x[4])
  <2> DEFINE lost == AllFacts({x[2]}, x[4])
             kept == Without(lost, Reifying(lost))
             types == {t \in kept.types : t[1] # x[2]} \cup {<<x[2], x[3]>>}
             st == [kept EXCEPT !.types = types]
  <2>1. CASE Write(k, st)
    <3>1. store' = st /\ Done(k, <<>>)
      <4> HIDE DEF st
      <4> QED  BY <2>1, Outcomes
    <3>2. store'.facts = store.facts \ lost
      <4> HIDE DEF lost
      <4>0. PICK F, S, A : /\ kept = [store EXCEPT !.facts = F, !.statements = S, !.annotations = A]
                           /\ F = store.facts \ lost
        BY Zenon DEF Without
      <4>1. kept.facts = store.facts \ lost /\ StoreShape(kept)
        <5> HIDE DEF kept
        <5>1. kept \in [types : {store.types}, facts : {F}, statements : {S}, annotations : {A}]
          BY <4>0, StoreFields
        <5>2. kept.facts = F /\ StoreShape(kept)
          BY <5>1, Replaced, Zenon
        <5> QED  BY <4>0, <5>2
      <4> HIDE DEF kept, types
      <4> QED  BY <3>1, <4>1 DEF StoreShape
    <3>3. \A f \in Free : /\ f \in lost => MayTake(x, f)
                          /\ Takes(x, f) => f \in lost
                          /\ ~Adds(x, f)
      BY <1>3 DEF AllFacts, MayTake, Takes, Adds, Free
    <3> QED  BY <1>2, <1>3, <3>1, <3>2, <3>3
  <2> QED  BY <1>1, <1>3, <2>1 DEF ChangeIndividualClass
<1>4. CASE \/ x[1] = "remove" /\ RemoveIndividualAttributeValue(k, x[2])
           \/ x[1] = "deleteAssertion" /\ DeleteAssertion(k, x[2])
  <2>1. CASE Write(k, Without({x[2]}, Reifying({x[2]})))
    <3>1. store' = Without({x[2]}, Reifying({x[2]})) /\ Done(k, <<>>)
      BY <2>1, Outcomes
    <3>2. store'.facts = store.facts \ {x[2]}
      BY <3>1 DEF Without, Shape, StoreShape
    <3>3. \A f \in Free : /\ f \in {x[2]} => MayTake(x, f)
                          /\ Takes(x, f) => f \in {x[2]}
                          /\ ~Adds(x, f)
      BY <1>4 DEF MayTake, Takes, Adds
    <3> QED  BY <1>2, <1>4, <3>1, <3>2, <3>3
  <2> QED  BY <1>1, <1>4, <2>1 DEF RemoveIndividualAttributeValue, DeleteAssertion
<1>5. CASE x[1] = "deleteIndividual" /\ DeleteIndividual(k, x[2])
  <2> DEFINE said == {f \in store.facts : f[1] = x[2]}
             about == {st \in store.statements : st.s = x[2]}
             kept == Without(said, about)
             types == {t \in kept.types : t[1] # x[2]}
             st1 == [kept EXCEPT !.types = types]
  <2>1. CASE Write(k, st1)
    <3>1. store' = st1 /\ Done(k, <<>>)
      <4> HIDE DEF st1
      <4> QED  BY <2>1, Outcomes
    <3>2. store'.facts = store.facts \ said
      <4> HIDE DEF said, about
      <4>0. PICK F, S, A : /\ kept = [store EXCEPT !.facts = F, !.statements = S, !.annotations = A]
                           /\ F = store.facts \ said
        BY Zenon DEF Without
      <4>1. kept.facts = store.facts \ said /\ StoreShape(kept)
        <5> HIDE DEF kept
        <5>1. kept \in [types : {store.types}, facts : {F}, statements : {S}, annotations : {A}]
          BY <4>0, StoreFields
        <5>2. kept.facts = F /\ StoreShape(kept)
          BY <5>1, Replaced, Zenon
        <5> QED  BY <4>0, <5>2
      <4> HIDE DEF kept, types
      <4> QED  BY <3>1, <4>1 DEF StoreShape
    <3>3. \A f \in Free : /\ f \in said => MayTake(x, f)
                          /\ Takes(x, f) /\ f \in store.facts => f \in said
                          /\ ~Adds(x, f)
      BY <1>5 DEF MayTake, Takes, Adds
    <3> HIDE DEF said
    <3> QED  BY <1>2, <1>5, <3>1, <3>2, <3>3
  <2> QED  BY <1>1, <1>5, <2>1 DEF DeleteIndividual
<1>6. CASE x[1] = "deleteIncoming" /\ DeleteIncoming(k, x[2])
  <2> DEFINE gone == {f \in store.facts : f[3] = x[2]}
  <2>1. PICK kept, cuts : kept = {f \in store.facts : f[3] # x[2]}
                          /\ WriteThen(k, [store EXCEPT !.facts = kept, !.statements = cuts], <<>>, {"swept"})
    BY <1>6 DEF DeleteIncoming
  <2>2. store' = [store EXCEPT !.facts = kept, !.statements = cuts] /\ Done(k, <<>>)
    BY <2>1, Outcomes
  <2>3. store'.facts = kept
    BY <2>2 DEF Shape, StoreShape
  <2>4. store'.facts = store.facts \ gone
    BY <2>1, <2>3
  <2>5. \A f \in Free : /\ f \in gone => MayTake(x, f)
                        /\ Takes(x, f) /\ f \in store.facts => f \in gone
                        /\ ~Adds(x, f)
    BY <1>6 DEF MayTake, Takes, Adds
  <2> HIDE DEF gone
  <2> QED  BY <1>2, <1>6, <2>2, <2>4, <2>5
<1>7. CASE x[1] = "dropMembers" /\ DropMembers(k, x[2])
  <2>1. PICK kept, types : kept \subseteq store.facts
                          /\ WriteThen(k, [store EXCEPT !.facts = kept, !.types = types], <<>>, {"swept"})
    <3> DEFINE members == {i \in Individuals : <<i, x[2]>> \in store.types}
               kept == {f \in store.facts : f[1] \notin members}
    <3>1. kept \subseteq store.facts
      OBVIOUS
    <3> QED  BY <1>7, <3>1 DEF DropMembers
  <2>2. store' = [store EXCEPT !.facts = kept, !.types = types] /\ Done(k, <<>>)
    BY <2>1, Outcomes
  <2>3. store'.facts = kept
    BY <2>2 DEF Shape, StoreShape
  <2>4. store'.facts = store.facts \ (store.facts \ kept)
    BY <2>1, <2>3
  <2>5. \A f \in Free : MayTake(x, f) /\ ~Takes(x, f) /\ ~Adds(x, f)
    BY <1>7 DEF MayTake, Takes, Adds
  <2> QED  BY <1>2, <1>7, <2>2, <2>4, <2>5
<1> QED  BY <1>3, <1>4, <1>5, <1>6, <1>7

\* A call that adds a fact, in place of another or not.
LEMMA AddingMerges ==
  ASSUME LabelsApart,
         Shape, MergeInv, NEW k \in Clients, todo[k] # <<>>, UNCHANGED <<form, asked>>, NEW x, x = Call(k),
         \/ x[1] = "add" /\ AddIndividualAttributeValue(k, x[2])
         \/ x[1] = "insertAssertion" /\ InsertAssertion(k, x[2], x[3], x[4])
         \/ x[1] = "updateRelation" /\ UpdateIndividualRelation(k, x[2], x[3], x[4])
  PROVE  MergeInv'
<1>1. CASE Throw(k)
  BY <1>1, ThrowMerges
<1>2. ASSUME Done(k, <<>>), Does(x), x[1] # "attributes", store'.facts \subseteq Facts PROVE MergeInv'
  BY <1>2, LastMoves
<1>0. Fits(x) \/ x[1] = "attributes"
  BY CallFits
<1>10. store.facts \subseteq Facts
  BY DEF MergeInv
<1>3. ASSUME NEW g, Write(k, [store EXCEPT !.facts = @ \cup {g}])
      PROVE  Done(k, <<>>) /\ store'.facts = store.facts \cup {g}
  <2>1. store' = [store EXCEPT !.facts = @ \cup {g}] /\ Done(k, <<>>)
    BY <1>3, Outcomes
  <2> QED  BY <2>1 DEF Shape, StoreShape
<1>4. CASE x[1] = "add" /\ AddIndividualAttributeValue(k, x[2])
  <2>1. Done(k, <<>>) /\ store'.facts = store.facts \cup {x[2]}
    BY <1>3, <1>4 DEF AddIndividualAttributeValue
  <2>2. Does(x)
    BY <1>4, <2>1 DEF Does, MayAdd, MayTake, Adds, Takes
  <2>3. store'.facts \subseteq Facts
    BY <1>0, <1>4, <1>10, <2>1 DEF Fits
  <2> QED  BY <1>2, <1>4, <2>1, <2>2, <2>3
<1>5. CASE x[1] = "insertAssertion" /\ InsertAssertion(k, x[2], x[3], x[4]) /\ ~Throw(k)
  <2>1. PICK p \in Resolved(x[3]) : Write(k, [store EXCEPT !.facts = @ \cup {<<x[2], p, x[4]>>}])
    BY <1>5 DEF InsertAssertion
  <2>2. Done(k, <<>>) /\ store'.facts = store.facts \cup {<<x[2], p, x[4]>>}
    BY <1>3, <2>1
  <2>3. \A f \in Free : AsLabelled(f, x[2], x[3], x[4]) <=> f = <<x[2], p, x[4]>>
    BY FactParts DEF AsLabelled, Resolved, LabelsApart
  <2>4. Does(x)
    BY <1>5, <2>2, <2>3 DEF Does, MayAdd, MayTake, Adds, Takes
  <2>5. store'.facts \subseteq Facts
    BY <1>0, <1>5, <1>10, <2>2 DEF Fits
  <2> QED  BY <1>2, <1>5, <2>2, <2>4, <2>5
<1>6. CASE x[1] = "updateRelation" /\ UpdateIndividualRelation(k, x[2], x[3], x[4]) /\ ~Throw(k)
  <2>1. PICK p \in Resolved(x[3]) :
          LET new == <<x[2][1], p, x[4]>> IN
          IF new = x[2] THEN Becomes(k, <<>>)
          ELSE Write(k, IF x[2] \in store.facts
                        THEN [Restated({x[2]}, Reifying({x[2]}), p, x[4]) EXCEPT !.facts = @ \cup {new}] ELSE store)
    BY <1>6 DEF UpdateIndividualRelation
  <2> DEFINE new == <<x[2][1], p, x[4]>>
  <2>2. \A f \in Free : AsLabelled(f, x[2][1], x[3], x[4]) <=> f = new
    BY FactParts DEF AsLabelled, Resolved, LabelsApart
  <2>3. ASSUME Done(k, <<>>), store'.facts = store.facts \/ store'.facts = (store.facts \ {x[2]}) \cup {new}
        PROVE  MergeInv'
    <3>1. new \in Facts
      BY <1>0, <1>6 DEF Fits
    <3> HIDE DEF new
    <3>2. Does(x)
      BY <1>6, <2>2, <2>3 DEF Does, MayAdd, MayTake, Adds, Takes
    <3>3. store'.facts \subseteq Facts
      BY <1>10, <2>3, <3>1
    <3> QED  BY <1>2, <1>6, <2>3, <3>2, <3>3
  <2>4. CASE new = x[2]
    <3>1. store' = store /\ Done(k, <<>>)
      BY <2>1, <2>4, Outcomes
    <3> QED  BY <2>3, <3>1
  <2>5. CASE new # x[2] /\ x[2] \notin store.facts
    <3>1. store' = store /\ Done(k, <<>>)
      BY <2>1, <2>5, Outcomes
    <3> QED  BY <2>3, <3>1
  <2>6. CASE new # x[2] /\ x[2] \in store.facts
    <3> DEFINE held == Reifying({x[2]})
               moved == {[st EXCEPT !.p = p, !.o = x[4]] : st \in held}
               kept == (store.statements \ held) \cup moved
               before == [store EXCEPT !.facts = @ \ {x[2]}, !.statements = kept]
    <3>1. Write(k, [before EXCEPT !.facts = @ \cup {new}])
      BY <2>1, <2>6 DEF Restated
    <3> HIDE DEF held, moved, kept, new
    <3>2. before.facts = store.facts \ {x[2]} /\ StoreShape(before)
      <4>1. PICK F : F = store.facts \ {x[2]}
        OBVIOUS
      <4>2. before = [store EXCEPT !.facts = F, !.statements = kept]
        BY <4>1, Zenon
      <4> HIDE DEF before
      <4>3. before \in [types : {store.types}, facts : {F}, statements : {kept}, annotations : {store.annotations}]
        BY <4>2, StoreFields
      <4> QED  BY <4>1, <4>3, Replaced
    <3> HIDE DEF before
    <3>3. store' = [before EXCEPT !.facts = @ \cup {new}] /\ Done(k, <<>>)
      BY <3>1, Outcomes
    <3>4. store'.facts = (store.facts \ {x[2]}) \cup {new}
      BY <3>2, <3>3 DEF StoreShape
    <3> QED  BY <2>3, <3>3, <3>4
  <2> QED  BY <2>4, <2>5, <2>6
<1> QED  BY <1>1, <1>4, <1>5, <1>6

\* A value of a field that has one at a time is no fact the property is about.
LEMMA SettingMerges ==
  ASSUME Shape, MergeInv, NEW k \in Clients, todo[k] # <<>>, UNCHANGED <<form, asked>>, NEW x, x = Call(k),
         x[1] = "set", SetIndividualAttributeValue(k, x[2], x[3], x[4])
  PROVE  MergeInv'
<1>1. x[3] \in Single /\ (x[4] = None \/ <<x[2], x[3], x[4]>> \in Facts)
  BY CallFits DEF Fits
<1> DEFINE old == ValuesOf(x[2], x[3])
           held == Held(x[2], x[3])
<1>2. \A f \in Free : f \notin old
  BY <1>1, FactParts DEF ValuesOf
<1>3. ASSUME Done(k, <<>>), NEW g \in SUBSET Facts, \A f \in Free : f \notin g,
             store'.facts = (store.facts \ old) \cup g
      PROVE  MergeInv'
  <2> HIDE DEF old
  <2>1. Does(x)
    BY <1>2, <1>3 DEF Does, MayAdd, MayTake, Adds, Takes
  <2>2. store'.facts \subseteq Facts
    BY <1>3 DEF MergeInv
  <2> QED  BY <1>3, <2>1, <2>2, LastMoves
<1>4. CASE Write(k, Without(old, held))
  <2>1. store' = Without(old, held) /\ Done(k, <<>>)
    BY <1>4, Outcomes
  <2> HIDE DEF old, held
  <2>2. PICK g \in SUBSET Facts : g = {}
    OBVIOUS
  <2>3. store'.facts = (store.facts \ old) \cup g
    BY <2>1, <2>2 DEF Without, Shape, StoreShape
  <2> QED  BY <1>3, <2>1, <2>2, <2>3
<1>5. CASE x[4] # None /\ Write(k, [Restated(old, held, x[3], x[4]) EXCEPT !.facts = @ \cup {<<x[2], x[3], x[4]>>}])
  <2> DEFINE new == <<x[2], x[3], x[4]>>
             moved == {[st EXCEPT !.p = x[3], !.o = x[4]] : st \in held}
             kept == (store.statements \ held) \cup moved
             before == [store EXCEPT !.facts = @ \ old, !.statements = kept]
  <2>1. Write(k, [before EXCEPT !.facts = @ \cup {new}])
    BY <1>5 DEF Restated
  <2>2. new \in Facts /\ \A f \in Free : f \notin {new}
    BY <1>1, <1>5, FactParts
  <2> HIDE DEF held, moved, kept, new, old
  <2>3. before.facts = store.facts \ old /\ StoreShape(before)
    <3>1. PICK F : F = store.facts \ old
      OBVIOUS
    <3>2. before = [store EXCEPT !.facts = F, !.statements = kept]
      BY <3>1, Zenon
    <3> HIDE DEF before
    <3>3. before \in [types : {store.types}, facts : {F}, statements : {kept}, annotations : {store.annotations}]
      BY <3>2, StoreFields
    <3> QED  BY <3>1, <3>3, Replaced
  <2> HIDE DEF before
  <2>4. store' = [before EXCEPT !.facts = @ \cup {new}] /\ Done(k, <<>>)
    BY <2>1, Outcomes
  <2>5. store'.facts = (store.facts \ old) \cup {new}
    BY <2>3, <2>4 DEF StoreShape
  <2> QED  BY <1>3, <2>2, <2>4, <2>5
<1> QED  BY <1>4, <1>5 DEF SetIndividualAttributeValue

\* The values of a form's attributes are written one by one.
LEMMA AttributesMerge ==
  ASSUME MergeInv, NEW k \in Clients, todo[k] # <<>>, UNCHANGED <<form, asked>>, NEW x, x = Call(k),
         x[1] = "attributes", ApplyAttributeSubmissions(k, x[2], x[3])
  PROVE  MergeInv'
<1>1. CASE Throw(k)
  BY <1>1, ThrowMerges
<1>2. CASE Becomes(k, x[3])
  <2>1. todo' = [todo EXCEPT ![k] = x[3] \o Tail(@)] /\ store' = store /\ marks' = marks
    BY <1>2 DEF Becomes
  <2>2. Holds(todo[k], x) /\ CallsFit(todo[k])
    BY CallFits
  <2>3. PICK T : x[3] \in Seq(T)
    BY <2>2 DEF CallsFit, IsList
  <2>4. \A y : Holds(x[3], y) => y[1] \in {"set", "add", "remove"}
    BY <2>2 DEF CallsFit
  <2>5. \A y : y \in Flat(x) <=> Holds(x[3], y)
    BY DEF Flat, Holds
  <2>6. \A y : Holds(x[3], y) => Flat(y) = {y}
    BY <2>4 DEF Flat
  <2>7. \A y : y \in Pieces(x[3]) <=> y \in Flat(x)
    BY <2>5, <2>6, PiecesHeld
  <2>8. \A y : y \in Flat(x) => y \in Pieces(todo[k])
    BY <2>2, PiecesHeld
  <2>9. CallsFit(x[3])
    BY <2>2, <2>4, <2>7, <2>8 DEF CallsFit
  <2>10. \A f \in Free, y \in Flat(x) : y \in Pieces(x[3])
    BY <2>7
  <2>11. store'.facts \subseteq Facts
    BY <2>1 DEF MergeInv
  <2> QED  BY <2>1, <2>3, <2>7, <2>9, <2>10, <2>11, Moves
<1> QED  BY <1>1, <1>2 DEF ApplyAttributeSubmissions

LEMMA StepMerges ==
  ASSUME LabelsApart, Shape, MergeInv, NEW k \in Clients, Step(k)
  PROVE  MergeInv'
<1> DEFINE call == Call(k)
<1> HIDE DEF call
<1>1. call = Call(k)
  BY DEF call
<1>2. todo[k] # <<>> /\ UNCHANGED <<form, asked>>
  BY DEF Step
<1>3. \/ call[1] = "insertIndividual" /\ InsertIndividual(k, call[2], call[3])
      \/ call[1] = "changeClass" /\ ChangeIndividualClass(k, call[2], call[3], call[4])
      \/ call[1] = "attributes" /\ ApplyAttributeSubmissions(k, call[2], call[3])
      \/ call[1] = "set" /\ SetIndividualAttributeValue(k, call[2], call[3], call[4])
      \/ call[1] = "add" /\ AddIndividualAttributeValue(k, call[2])
      \/ call[1] = "remove" /\ RemoveIndividualAttributeValue(k, call[2])
      \/ call[1] = "insertAssertion" /\ InsertAssertion(k, call[2], call[3], call[4])
      \/ call[1] = "deleteAssertion" /\ DeleteAssertion(k, call[2])
      \/ call[1] = "updateRelation" /\ UpdateIndividualRelation(k, call[2], call[3], call[4])
      \/ call[1] = "deleteIndividual" /\ DeleteIndividual(k, call[2])
      \/ call[1] = "deleteIncoming" /\ DeleteIncoming(k, call[2])
      \/ call[1] = "dropMembers" /\ DropMembers(k, call[2])
      \/ call[1] = "ensureReified" /\ EnsureReifiedFact(k, call[2], call[3])
      \/ call[1] = "reify" /\ Reify(k, call[2], call[3])
      \/ call[1] = "annotate" /\ Annotate(k, call[2], call[3])
      \/ call[1] = "deleteAnnotation" /\ DeleteAnnotation(k, call[2])
  <2>1. \/ Now(k, "insertIndividual") /\ InsertIndividual(k, call[2], call[3])
        \/ Now(k, "changeClass") /\ ChangeIndividualClass(k, call[2], call[3], call[4])
        \/ Now(k, "attributes") /\ ApplyAttributeSubmissions(k, call[2], call[3])
        \/ Now(k, "set") /\ SetIndividualAttributeValue(k, call[2], call[3], call[4])
        \/ Now(k, "add") /\ AddIndividualAttributeValue(k, call[2])
        \/ Now(k, "remove") /\ RemoveIndividualAttributeValue(k, call[2])
        \/ Now(k, "insertAssertion") /\ InsertAssertion(k, call[2], call[3], call[4])
        \/ Now(k, "deleteAssertion") /\ DeleteAssertion(k, call[2])
        \/ Now(k, "updateRelation") /\ UpdateIndividualRelation(k, call[2], call[3], call[4])
        \/ Now(k, "deleteIndividual") /\ DeleteIndividual(k, call[2])
        \/ Now(k, "deleteIncoming") /\ DeleteIncoming(k, call[2])
        \/ Now(k, "dropMembers") /\ DropMembers(k, call[2])
        \/ Now(k, "ensureReified") /\ EnsureReifiedFact(k, call[2], call[3])
        \/ Now(k, "reify") /\ Reify(k, call[2], call[3])
        \/ Now(k, "annotate") /\ Annotate(k, call[2], call[3])
        \/ Now(k, "deleteAnnotation") /\ DeleteAnnotation(k, call[2])
    BY Zenon DEF Step, call
  <2>2. \A op : Now(k, op) <=> call[1] = op
    BY <1>1, <1>2 DEF Now
  <2> QED  BY <2>1, <2>2
<1>4. CASE \/ call[1] = "insertIndividual" /\ InsertIndividual(k, call[2], call[3])
           \/ call[1] = "ensureReified" /\ EnsureReifiedFact(k, call[2], call[3])
           \/ call[1] = "reify" /\ Reify(k, call[2], call[3])
           \/ call[1] = "annotate" /\ Annotate(k, call[2], call[3])
           \/ call[1] = "deleteAnnotation" /\ DeleteAnnotation(k, call[2])
  BY <1>1, <1>2, <1>4, IdleMerges, Zenon
<1>5. CASE \/ call[1] = "changeClass" /\ ChangeIndividualClass(k, call[2], call[3], call[4])
           \/ call[1] = "remove" /\ RemoveIndividualAttributeValue(k, call[2])
           \/ call[1] = "deleteAssertion" /\ DeleteAssertion(k, call[2])
           \/ call[1] = "deleteIndividual" /\ DeleteIndividual(k, call[2])
           \/ call[1] = "deleteIncoming" /\ DeleteIncoming(k, call[2])
           \/ call[1] = "dropMembers" /\ DropMembers(k, call[2])
  BY <1>1, <1>2, <1>5, TakingMerges, Zenon
<1>6. CASE \/ call[1] = "add" /\ AddIndividualAttributeValue(k, call[2])
           \/ call[1] = "insertAssertion" /\ InsertAssertion(k, call[2], call[3], call[4])
           \/ call[1] = "updateRelation" /\ UpdateIndividualRelation(k, call[2], call[3], call[4])
  BY <1>1, <1>2, <1>6, AddingMerges, Zenon
<1>7. CASE call[1] = "set" /\ SetIndividualAttributeValue(k, call[2], call[3], call[4])
  BY <1>1, <1>2, <1>7, SettingMerges, Zenon
<1>8. CASE call[1] = "attributes" /\ ApplyAttributeSubmissions(k, call[2], call[3])
  BY <1>1, <1>2, <1>8, AttributesMerge, Zenon
<1> QED  BY <1>3, <1>4, <1>5, <1>6, <1>7, <1>8, Zenon

-----------------------------------------------------------------------------
(* Edits begin *)

\* What an edit says when it begins of the facts its calls are about.
Says(calls, add, remove, mayAdd, mayRemove) ==
  /\ \A x \in Pieces(calls), f \in Free :
       /\ MayAdd(x, f) => f \in add \cup mayAdd
       /\ MayTake(x, f) => f \in remove \cup mayRemove
  /\ \A f \in add \ (remove \cup mayRemove) : f \in store.facts \/ \E x \in Pieces(calls) : Adds(x, f)
  /\ \A f \in remove \cap store.facts : f \in add \cup mayAdd \/ \E x \in Pieces(calls) : Takes(x, f)

LEMMA BeginMerges ==
  ASSUME MergeInv, NEW k \in Clients, NEW T, NEW calls \in Seq(T), CallsFit(calls), FormsFit',
         NEW add \in SUBSET Free, NEW remove \in SUBSET Free, NEW mayAdd, NEW mayRemove,
         Begin(k, calls, add, remove, mayAdd, mayRemove), Says(calls, add, remove, mayAdd, mayRemove)
  PROVE  MergeInv'
<1>1. PICK S : todo \in [Clients -> Seq(S)]
  BY DEF MergeInv
<1>2. /\ todo[k] = <<>> /\ todo' = [todo EXCEPT ![k] = calls] /\ store' = store /\ marks' = marks
      /\ asked'.add = asked.add \cup add /\ asked'.remove = asked.remove \cup remove
      /\ asked'.mayAdd = asked.mayAdd \cup mayAdd /\ asked'.mayRemove = asked.mayRemove \cup mayRemove
  BY DEF Begin
<1>3. todo' \in [Clients -> Seq(S \cup T)] /\ todo'[k] = calls /\ \A j \in Clients : j # k => todo'[j] = todo[j]
  <2>1. calls \in Seq(S \cup T) /\ \A j \in Clients : todo[j] \in Seq(S \cup T)
    BY <1>1, SeqMonotonic
  <2> QED  BY <1>1, <1>2, <2>1
<1>4. Pieces(todo[k]) = {}
  BY <1>2 DEF Pieces
<1>5. \A j \in Clients : CallsFit(todo'[j])
  BY <1>3 DEF MergeInv
<1>6. Announced'
  <2>1. \A j \in Clients, f \in Free : \A x \in Pieces(todo'[j]) :
          /\ MayAdd(x, f) => f \in asked'.add \cup asked'.mayAdd
          /\ MayTake(x, f) => f \in asked'.remove \cup asked'.mayRemove
    BY <1>2, <1>3 DEF MergeInv, Announced, Says
  <2> QED  BY <2>1 DEF Announced
<1>7. \A j \in Clients : \A x \in Pieces(todo[j]) : x \in Pieces(todo'[j])
  BY <1>3, <1>4
<1>8. ASSUME "broken" \notin marks' PROVE Coming'
  <2>1. Coming
    BY <1>2, <1>8 DEF MergeInv
  <2>2. SUFFICES ASSUME NEW f \in asked'.add \ (asked'.remove \cup asked'.mayRemove), f \notin store'.facts
                 PROVE  \E j \in Clients : \E x \in Pieces(todo'[j]) : Adds(x, f)
    BY DEF Coming
  <2>3. CASE f \in add
    BY <1>2, <1>3, <2>2, <2>3 DEF Says
  <2>4. CASE f \in asked.add
    BY <1>2, <1>7, <2>1, <2>2, <2>4 DEF Coming
  <2> QED  BY <1>2, <2>2, <2>3, <2>4
<1>9. ASSUME "broken" \notin marks' PROVE Going'
  <2>1. Going
    BY <1>2, <1>9 DEF MergeInv
  <2>2. SUFFICES ASSUME NEW f \in store'.facts \cap asked'.remove, f \notin asked'.add \cup asked'.mayAdd
                 PROVE  \E j \in Clients : \E x \in Pieces(todo'[j]) : Takes(x, f)
    BY DEF Going
  <2>3. CASE f \in remove
    BY <1>2, <1>3, <2>2, <2>3 DEF Says
  <2>4. CASE f \in asked.remove
    BY <1>2, <1>7, <2>1, <2>2, <2>4 DEF Going
  <2> QED  BY <1>2, <2>2, <2>3, <2>4
<1>10. asked'.add \subseteq Free /\ asked'.remove \subseteq Free /\ store'.facts \subseteq Facts
  BY <1>2 DEF MergeInv
<1> QED  BY <1>3, <1>5, <1>6, <1>8, <1>9, <1>10 DEF MergeInv

LEMMA OneCall ==
  ASSUME NEW x, x[1] # "attributes", Fits(x)
  PROVE  <<x>> \in Seq({x}) /\ CallsFit(<<x>>) /\ \A y : y \in Pieces(<<x>>) <=> y = x
<1>1. \A y : Holds(<<x>>, y) <=> y = x
  BY DEF Holds
<1>2. \A y : y \in Pieces(<<x>>) <=> y = x
  BY <1>1, PiecesHeld DEF Flat
<1>3. CallsFit(<<x>>)
  BY <1>1, <1>2 DEF CallsFit
<1> QED  BY <1>2, <1>3

LEMMA TwoCalls ==
  ASSUME NEW x, x[1] # "attributes", Fits(x), NEW y, y[1] # "attributes", Fits(y)
  PROVE  <<x, y>> \in Seq({x, y}) /\ CallsFit(<<x, y>>) /\ \A z : z \in Pieces(<<x, y>>) <=> z \in {x, y}
<1>1. \A z : Holds(<<x, y>>, z) <=> z \in {x, y}
  BY DEF Holds
<1>2. \A z : z \in Pieces(<<x, y>>) <=> z \in {x, y}
  BY <1>1, PiecesHeld DEF Flat
<1>3. CallsFit(<<x, y>>)
  BY <1>1, <1>2 DEF CallsFit
<1> QED  BY <1>2, <1>3

LEMMA OneCallMerges ==
  ASSUME MergeInv, NEW k \in Clients, NEW x, x[1] # "attributes", Fits(x), UNCHANGED form,
         NEW add \in SUBSET Free, NEW remove \in SUBSET Free, NEW mayAdd, NEW mayRemove,
         Begin(k, <<x>>, add, remove, mayAdd, mayRemove),
         \A f \in Free : /\ MayAdd(x, f) => f \in add \cup mayAdd
                         /\ MayTake(x, f) => f \in remove \cup mayRemove
                         /\ f \in add => Adds(x, f)
                         /\ f \in remove => Takes(x, f) \/ f \notin store.facts
  PROVE  MergeInv'
<1>1. PICK calls : calls = <<x>>
  OBVIOUS
<1>2. calls \in Seq({x}) /\ CallsFit(calls) /\ \A y : y \in Pieces(calls) <=> y = x
  BY <1>1, OneCall
<1>3. FormsFit'
  BY DEF MergeInv, FormsFit
<1>4. Says(calls, add, remove, mayAdd, mayRemove)
  BY <1>2 DEF Says
<1>5. Begin(k, calls, add, remove, mayAdd, mayRemove)
  BY <1>1
<1> QED  BY <1>2, <1>3, <1>4, <1>5, BeginMerges

LEMMA TwoCallsMerge ==
  ASSUME MergeInv, NEW k \in Clients, NEW x, x[1] # "attributes", Fits(x), NEW y, y[1] # "attributes", Fits(y),
         UNCHANGED form, NEW remove \in SUBSET Free, NEW mayAdd, NEW mayRemove,
         Begin(k, <<x, y>>, {}, remove, mayAdd, mayRemove),
         \A f \in Free : /\ MayAdd(x, f) \/ MayAdd(y, f) => f \in mayAdd
                         /\ MayTake(x, f) \/ MayTake(y, f) => f \in remove \cup mayRemove
                         /\ f \in remove => Takes(x, f) \/ Takes(y, f)
  PROVE  MergeInv'
<1>1. PICK calls : calls = <<x, y>>
  OBVIOUS
<1>2. calls \in Seq({x, y}) /\ CallsFit(calls) /\ \A z : z \in Pieces(calls) <=> z \in {x, y}
  BY <1>1, TwoCalls
<1>3. FormsFit'
  BY DEF MergeInv, FormsFit
<1>4. PICK add \in SUBSET Free : add = {}
  OBVIOUS
<1>5. Says(calls, add, remove, mayAdd, mayRemove)
  BY <1>2, <1>4 DEF Says
<1>6. Begin(k, calls, add, remove, mayAdd, mayRemove)
  BY <1>1, <1>4
<1> QED  BY <1>2, <1>3, <1>5, <1>6, BeginMerges

LEMMA Silent ==
  ASSUME NEW x, x[1] \in Idle, NEW f
  PROVE  ~MayAdd(x, f) /\ ~MayTake(x, f) /\ Fits(x) /\ x[1] # "attributes"
  BY DEF Idle, MayAdd, MayTake, Adds, Takes, Fits

\* An edit that asks for nothing: a member, an annotation, the end of one.
LEMMA SilentMerges ==
  ASSUME MergeInv, NEW k \in Clients, NEW x, x[1] \in Idle, UNCHANGED form, Begin(k, <<x>>, {}, {}, {}, {})
  PROVE  MergeInv'
<1>1. PICK add \in SUBSET Free : add = {}
  OBVIOUS
<1>2. Begin(k, <<x>>, add, add, add, add)
  BY <1>1
<1> QED  BY <1>1, <1>2, Silent, OneCallMerges

LEMMA AnnotateMerges ==
  ASSUME MergeInv, NEW k \in Clients, NEW x, AnnotateFact(k, x) \/ RemoveAnnotation(k, x)
  PROVE  MergeInv'
<1>1. PICK y : y[1] \in Idle /\ UNCHANGED form /\ Begin(k, <<y>>, {}, {}, {}, {})
  <2>1. CASE AnnotateFact(k, x)
    <3>1. <<"ensureReified", x, TRUE>>[1] \in Idle
      BY DEF Idle
    <3> QED  BY <2>1, <3>1 DEF AnnotateFact
  <2>2. CASE RemoveAnnotation(k, x)
    <3>1. <<"deleteAnnotation", x>>[1] \in Idle
      BY DEF Idle
    <3> QED  BY <2>2, <3>1 DEF RemoveAnnotation
  <2> QED  BY <2>1, <2>2
<1> QED  BY <1>1, SilentMerges

\* With labels told apart, a relation drawn is a fact there can be, and the one it is said to be.
LEMMA Labelled ==
  ASSUME LabelsApart, NEW i \in Individuals, NEW p \in Relations, NEW o \in RangeOf[p]
  PROVE  /\ \A q \in Resolved(LabelOf[p]) : q = p
         /\ <<i, p, o>> \in Facts
         /\ \A f \in Free : AsLabelled(f, i, LabelOf[p], o) => f \in Named(i, LabelOf[p], {o}) /\ f = <<i, p, o>>
<1>1. \A q \in Resolved(LabelOf[p]) : q = p
  BY DEF Resolved, LabelsApart
<1>2. p \in Fields /\ o \in Objects
  BY DEF Fields, Objects
<1>3. <<i, p, o>> \in Facts
  BY <1>2 DEF Facts
<1>4. \A f \in Free : AsLabelled(f, i, LabelOf[p], o) => f \in Named(i, LabelOf[p], {o}) /\ f = <<i, p, o>>
  BY <1>1, FactParts DEF AsLabelled, Named
<1> QED  BY <1>1, <1>3, <1>4

LEMMA StoredIsFree ==
  ASSUME MergeInv, NEW f \in store.facts, f[2] \in Relations
  PROVE  f \in Free /\ f[1] \in Individuals
  BY FactEditsAssumption DEF MergeInv, Free, Facts

LEMMA DrawMerges ==
  ASSUME LabelsApart, MergeInv, NEW k \in Clients, Draw(k)
  PROVE  MergeInv'
<1>1. UNCHANGED form
  BY DEF Draw
<1>2. ASSUME NEW i, NEW c, Begin(k, <<<<"insertIndividual", i, c>>>>, {}, {}, {}, {}) PROVE MergeInv'
  <2>1. PICK x : x = <<"insertIndividual", i, c>>
    OBVIOUS
  <2>2. x[1] \in Idle /\ Begin(k, <<x>>, {}, {}, {}, {})
    BY <1>2, <2>1 DEF Idle
  <2> QED  BY <1>1, <2>2, SilentMerges
<1>3. ASSUME NEW i \in Individuals, NEW p \in Relations, NEW o \in RangeOf[p],
             Begin(k, <<<<"insertAssertion", i, LabelOf[p], o>>>>, {}, {}, Named(i, LabelOf[p], {o}), {})
      PROVE  MergeInv'
  <2>1. PICK x, none, mayAdd : x = <<"insertAssertion", i, LabelOf[p], o>> /\ none = {}
                               /\ mayAdd = Named(i, LabelOf[p], {o})
    OBVIOUS
  <2>2. x[1] # "attributes" /\ Fits(x)
    BY <2>1, Labelled DEF Fits
  <2>3. \A f \in Free : /\ MayAdd(x, f) => f \in mayAdd
                        /\ ~MayTake(x, f)
    BY <2>1, Labelled DEF MayAdd, MayTake, Adds, Takes
  <2>4. Begin(k, <<x>>, none, none, mayAdd, none) /\ none \in SUBSET Free /\ \A f : f \notin none
    BY <1>3, <2>1
  <2> QED  BY <1>1, <2>2, <2>3, <2>4, OneCallMerges
<1>4. ASSUME NEW f \in store.facts, NEW p \in Relations, NEW o \in RangeOf[p], f[2] \in Relations,
             Begin(k, <<<<"ensureReified", f, FALSE>>, <<"updateRelation", f, LabelOf[p], o>>>>, {}, {},
                   Named(f[1], LabelOf[p], {o}), {f})
      PROVE  MergeInv'
  <2>1. PICK x, y, none, mayAdd, mayRemove :
          /\ x = <<"ensureReified", f, FALSE>> /\ y = <<"updateRelation", f, LabelOf[p], o>>
          /\ none = {} /\ mayAdd = Named(f[1], LabelOf[p], {o}) /\ mayRemove = {f}
    OBVIOUS
  <2>2. x[1] \in Idle
    BY <2>1 DEF Idle
  <2>3. f[1] \in Individuals
    BY <1>4, StoredIsFree
  <2>4. y[1] # "attributes" /\ Fits(y)
    BY <2>1, <2>3, Labelled DEF Fits
  <2>5. \A g \in Free : /\ MayAdd(y, g) => g \in mayAdd
                        /\ MayTake(y, g) => g \in none \cup mayRemove
    BY <2>1, <2>3, Labelled DEF MayAdd, MayTake, Adds, Takes
  <2>6. Begin(k, <<x, y>>, {}, none, mayAdd, mayRemove) /\ none \in SUBSET Free
    BY <1>4, <2>1
  <2>7. x[1] # "attributes" /\ Fits(x) /\ \A g : ~MayAdd(x, g) /\ ~MayTake(x, g)
    BY <2>2, Silent
  <2>8. \A g \in Free : g \notin none
    BY <2>1
  <2> QED  BY <1>1, <2>4, <2>5, <2>6, <2>7, <2>8, TwoCallsMerge
<1>5. ASSUME NEW f \in store.facts, f[2] \in Relations, Begin(k, <<<<"deleteAssertion", f>>>>, {}, {f}, {}, {})
      PROVE  MergeInv'
  <2>1. PICK x, none, remove : x = <<"deleteAssertion", f>> /\ none = {} /\ remove = {f}
    OBVIOUS
  <2>2. x[1] # "attributes" /\ Fits(x)
    BY <2>1 DEF Fits
  <2>3. \A g \in Free : /\ ~MayAdd(x, g)
                        /\ MayTake(x, g) <=> g \in remove
                        /\ Takes(x, g) <=> g \in remove
    BY <2>1 DEF MayAdd, MayTake, Adds, Takes
  <2>4. Begin(k, <<x>>, none, remove, none, none) /\ none \in SUBSET Free /\ remove \in SUBSET Free
    BY <1>5, <2>1, StoredIsFree
  <2> QED  BY <1>1, <2>1, <2>2, <2>3, <2>4, OneCallMerges
<1> QED  BY <1>2, <1>3, <1>4, <1>5 DEF Draw

LEMMA DropMerges ==
  ASSUME MergeInv, NEW k \in Clients, Drop(k)
  PROVE  MergeInv'
<1>1. UNCHANGED form
  BY DEF Drop
<1>2. ASSUME NEW i, Begin(k, <<<<"deleteIndividual", i>>>>, {}, AllFacts({i}, Fields \ Single), {}, {})
      PROVE  MergeInv'
  <2>1. PICK x, none, remove : x = <<"deleteIndividual", i>> /\ none = {}
                               /\ remove = AllFacts({i}, Fields \ Single)
    OBVIOUS
  <2>2. x[1] # "attributes" /\ Fits(x)
    BY <2>1 DEF Fits
  <2>3. \A f : f \in remove <=> f \in Free /\ f[1] = i
    BY <2>1, FactParts DEF AllFacts, Free
  <2>4. \A f \in Free : /\ ~MayAdd(x, f)
                        /\ MayTake(x, f) <=> f \in remove
                        /\ Takes(x, f) <=> f \in remove
    BY <2>1, <2>3 DEF MayAdd, MayTake, Adds, Takes
  <2>5. Begin(k, <<x>>, none, remove, none, none) /\ none \in SUBSET Free /\ remove \in SUBSET Free
    BY <1>2, <2>1, <2>3
  <2> QED  BY <1>1, <2>1, <2>2, <2>4, <2>5, OneCallMerges
<1>3. ASSUME NEW i \in Individuals,
             Begin(k, <<<<"deleteIndividual", i>>, <<"deleteIncoming", i>>>>, {},
                   {f \in Facts : (f[1] = i /\ f[2] \notin Single) \/ f[3] = i}, {}, {})
      PROVE  MergeInv'
  <2>1. PICK x, y, none, remove :
          /\ x = <<"deleteIndividual", i>> /\ y = <<"deleteIncoming", i>> /\ none = {}
          /\ remove = {f \in Facts : (f[1] = i /\ f[2] \notin Single) \/ f[3] = i}
    OBVIOUS
  <2>2. x[1] # "attributes" /\ Fits(x) /\ y[1] # "attributes" /\ Fits(y)
    BY <2>1 DEF Fits
  <2>3. \A f : f \in remove <=> f \in Free /\ (f[1] = i \/ f[3] = i)
    <3>1. \A f \in Facts : f[3] = i => f[2] \notin Single
      BY FactEditsAssumption DEF Facts
    <3> QED  BY <2>1, <3>1 DEF Free
  <2>4. \A f \in Free : /\ ~MayAdd(x, f) /\ ~MayAdd(y, f)
                        /\ MayTake(x, f) \/ MayTake(y, f) <=> f \in remove
                        /\ Takes(x, f) \/ Takes(y, f) <=> f \in remove
    BY <2>1, <2>3 DEF MayAdd, MayTake, Adds, Takes
  <2>5. Begin(k, <<x, y>>, {}, remove, none, none) /\ remove \in SUBSET Free
    BY <1>3, <2>1, <2>3
  <2> QED  BY <1>1, <2>1, <2>2, <2>4, <2>5, TwoCallsMerge
<1>4. ASSUME NEW c, Begin(k, <<<<"dropMembers", c>>>>, {}, {}, {}, Facts)
      PROVE  MergeInv'
  <2>1. PICK x, none, mayRemove : x = <<"dropMembers", c>> /\ none = {} /\ mayRemove = Facts
    OBVIOUS
  <2>2. x[1] # "attributes" /\ Fits(x)
    BY <2>1 DEF Fits
  <2>3. \A f \in Free : f \in mayRemove /\ ~MayAdd(x, f)
    BY <2>1 DEF MayAdd, Adds, Free
  <2>4. Begin(k, <<x>>, none, none, none, mayRemove) /\ none \in SUBSET Free
    BY <1>4, <2>1
  <2> QED  BY <1>1, <2>1, <2>2, <2>3, <2>4, OneCallMerges
<1> QED  BY <1>2, <1>3, <1>4 DEF Drop

LEMMA OpenMerges ==
  ASSUME MergeInv, NEW k \in Clients, NEW i \in Individuals, NEW c \in Classes, OpenForm(k, i, c)
  PROVE  MergeInv'
<1>1. PICK new : new = [of |-> i, class |-> c, base |-> store.facts \cap AllFacts({i}, FieldsOf[c])]
  OBVIOUS
<1>2. form' = [form EXCEPT ![k] = {new}] /\ UNCHANGED <<store, todo, asked, marks>>
  BY <1>1 DEF OpenForm
<1>3. new.of = i /\ new.class = c /\ new.base \subseteq AllFacts({i}, FieldsOf[c])
  BY <1>1
<1>4. FormsFit'
  <2>1. form = [j \in Clients |-> form[j]]
    BY DEF MergeInv, FormsFit
  <2>2. form' = [j \in Clients |-> form'[j]] /\ form'[k] = {new} /\ \A j \in Clients : j # k => form'[j] = form[j]
    BY <1>2, <2>1
  <2> QED  BY <1>3, <2>2 DEF MergeInv, FormsFit
<1> QED  BY <1>2, <1>4 DEF MergeInv, Announced, Coming, Going

LEMMA RangeSeq ==
  ASSUME NEW s, NEW n \in Nat, DOMAIN s = 1..n, s = [m \in 1..n |-> s[m]], NEW T, \A x : Holds(s, x) => x \in T
  PROVE  s \in Seq(T)
<1>1. s \in [1..n -> T]
  BY DEF Holds
<1> QED  BY <1>1

LEMMA SeqRange ==
  ASSUME NEW S, NEW s \in Seq(S), NEW T, \A x : Holds(s, x) => x \in T
  PROVE  s \in Seq(T)
<1>1. Len(s) \in Nat /\ DOMAIN s = 1..Len(s) /\ s = [m \in 1..Len(s) |-> s[m]]
  BY LenProperties, SeqDef
<1> QED  BY <1>1, RangeSeq

\* A call that writes a value of a field, added or removed.
ValueCall(x, i, p, added, removed) ==
  \/ p \in Single /\ \E v : x = <<"set", i, p, v>> /\ (v = None \/ <<i, p, v>> \in Facts)
  \/ /\ p \notin Single
     /\ \E f \in added : /\ f[2] = p
                         /\ \/ x = <<"add", f>>
                            \/ p \in Relations /\ x = <<"insertAssertion", i, LabelOf[p], f[3]>>
  \/ /\ p \notin Single
     /\ \E f \in removed : /\ f[2] = p
                           /\ x = <<"remove", f>> \/ (p \in Relations /\ x = <<"deleteAssertion", f>>)

LEMMA Calls ==
  ASSUME NEW i, NEW p \in Fields, NEW added, NEW removed, added \subseteq Facts, removed \subseteq Facts,
         \A f \in added : f[1] = i
  PROVE  /\ \E T : CallsFor(i, p, added, removed) \in Seq(T)
         /\ \A x : Holds(CallsFor(i, p, added, removed), x) => ValueCall(x, i, p, added, removed)
         /\ p \notin Single => \A f \in added : f[2] = p =>
              \/ Holds(CallsFor(i, p, added, removed), <<"add", f>>)
              \/ Holds(CallsFor(i, p, added, removed), <<"insertAssertion", i, LabelOf[p], f[3]>>)
         /\ p \notin Single => \A f \in removed : f[2] = p =>
              \/ Holds(CallsFor(i, p, added, removed), <<"remove", f>>)
              \/ Holds(CallsFor(i, p, added, removed), <<"deleteAssertion", f>>)
<1> DEFINE A == {f \in added : f[2] = p}
           R == {f \in removed : f[2] = p}
           new == SetToSeq(A)
           old == SetToSeq(R)
           calls == CallsFor(i, p, added, removed)
<1>1. IsFiniteSet(A) /\ IsFiniteSet(R)
  <2>1. A \subseteq Facts /\ R \subseteq Facts
    OBVIOUS
  <2> HIDE DEF A, R
  <2> QED  BY <2>1, FS_Subset, FactEditsAssumption
<1>2. /\ new \in Seq(A) /\ \A f : Holds(new, f) <=> f \in A
      /\ old \in Seq(R) /\ \A f : Holds(old, f) <=> f \in R
  <2> HIDE DEF A, R
  <2> QED  BY <1>1, ListOfSet
<1> HIDE DEF new, old
<1>3. Len(new) \in Nat /\ DOMAIN new = 1..Len(new) /\ Len(old) \in Nat /\ DOMAIN old = 1..Len(old)
  <2> HIDE DEF A, R
  <2> QED  BY <1>2, LenProperties
<1>4. CASE p \in Single
  <2>1. calls = <<>> \/ \E v : calls = <<<<"set", i, p, v>>>> /\ (v = None \/ (new # <<>> /\ v = new[1][3]))
    <3>1. p \notin Repeatable
      BY <1>4, FactEditsAssumption
    <3>2. CallsFor(i, p, added, removed)
            = IF new \o old = <<>> THEN <<>> ELSE <<<<"set", i, p, IF new = <<>> THEN None ELSE new[1][3]>>>>
      BY <1>4, <3>1 DEF CallsFor, new, old
    <3> QED  BY <3>2
  <2>2. ASSUME new # <<>> PROVE <<i, p, new[1][3]>> \in Facts
    <3>1. 1 \in DOMAIN new
      <4> HIDE DEF A
      <4> QED  BY <1>2, <1>3, <2>2, EmptySeq
    <3>2. new[1] \in A
      BY <1>2, <3>1 DEF Holds
    <3>3. new[1] = <<new[1][1], new[1][2], new[1][3]>>
      BY <3>2 DEF Facts
    <3> QED  BY <3>2, <3>3
  <2> HIDE DEF calls
  <2>3. CASE calls = <<>>
    BY <1>4, <2>3, NoMore DEF calls
  <2>4. ASSUME NEW v, calls = <<<<"set", i, p, v>>>>, v = None \/ <<i, p, v>> \in Facts
        PROVE  (\E T : calls \in Seq(T)) /\ \A x : Holds(calls, x) => ValueCall(x, i, p, added, removed)
    <3>1. calls \in Seq({<<"set", i, p, v>>}) /\ \A x : Holds(calls, x) => x = <<"set", i, p, v>>
      BY <2>4 DEF Holds
    <3> QED  BY <1>4, <2>4, <3>1 DEF ValueCall
  <2>5. (\E T : calls \in Seq(T)) /\ \A x : Holds(calls, x) => ValueCall(x, i, p, added, removed)
    BY <2>1, <2>2, <2>3, <2>4 DEF calls
  <2> QED  BY <1>4, <2>5 DEF calls
<1>5. PICK m \in Nat, n \in Nat : DOMAIN new = 1..m /\ DOMAIN old = 1..n
  BY <1>3
<1>6. CASE p \notin Single /\ p \in Repeatable
  <2>1. PICK s, t : s = [j \in 1..m |-> <<"add", new[j]>>] /\ t = [j \in 1..n |-> <<"remove", old[j]>>]
    OBVIOUS
  <2>2. calls = s \o t
    BY <1>5, <1>6, <2>1 DEF CallsFor, new, old
  <2> HIDE DEF calls
  <2>3. /\ \E T : calls \in Seq(T)
        /\ \A x : Holds(calls, x) <=> (\E j \in 1..m : x = s[j]) \/ (\E j \in 1..n : x = t[j])
    <3>1. PICK T : T = {s[j] : j \in 1..m} \cup {t[j] : j \in 1..n}
      OBVIOUS
    <3>2. s \in [1..m -> T] /\ t \in [1..n -> T]
      BY <2>1, <3>1
    <3>3. /\ calls \in Seq(T)
          /\ \A x : Holds(calls, x) <=> (\E j \in 1..m : x = s[j]) \/ (\E j \in 1..n : x = t[j])
      <4>1. /\ s \o t \in Seq(T)
            /\ \A x : Holds(s \o t, x) <=> (\E j \in 1..m : x = s[j]) \/ (\E j \in 1..n : x = t[j])
        <5>1. s \in Seq(T) /\ t \in Seq(T)
          BY <1>5, <3>2
        <5>2. /\ s \o t \in Seq(T)
              /\ \A x : Holds(s \o t, x) <=> Holds(s, x) \/ Holds(t, x)
          BY <5>1, JoinedLists
        <5>3. \A x : (Holds(s, x) <=> \E j \in 1..m : x = s[j]) /\ (Holds(t, x) <=> \E j \in 1..n : x = t[j])
          BY <3>2 DEF Holds
        <5> QED  BY <5>2, <5>3
      <4> QED  BY <2>2, <4>1
    <3> QED  BY <3>3
  <2>4. \A x : Holds(calls, x) <=> (\E f \in A : x = <<"add", f>>) \/ (\E f \in R : x = <<"remove", f>>)
    <3>1. \A j \in 1..m : s[j] = <<"add", new[j]>> /\ new[j] \in A
      BY <1>2, <1>5, <2>1 DEF Holds
    <3>2. \A j \in 1..n : t[j] = <<"remove", old[j]>> /\ old[j] \in R
      BY <1>2, <1>5, <2>1 DEF Holds
    <3>3. (\A f \in A : \E j \in 1..m : f = new[j]) /\ (\A f \in R : \E j \in 1..n : f = old[j])
      BY <1>2, <1>5 DEF Holds
    <3> HIDE DEF A, R
    <3>4. ASSUME NEW x, Holds(calls, x)
          PROVE  (\E f \in A : x = <<"add", f>>) \/ (\E f \in R : x = <<"remove", f>>)
      <4>1. CASE \E j \in 1..m : x = s[j]
        BY <3>1, <4>1
      <4>2. CASE \E j \in 1..n : x = t[j]
        BY <3>2, <4>2
      <4> QED  BY <2>3, <3>4, <4>1, <4>2
    <3>5. ASSUME NEW f \in A PROVE Holds(calls, <<"add", f>>)
      <4>1. PICK j \in 1..m : f = new[j]
        BY <3>3, <3>5
      <4> QED  BY <2>3, <3>1, <4>1
    <3>6. ASSUME NEW f \in R PROVE Holds(calls, <<"remove", f>>)
      <4>1. PICK j \in 1..n : f = old[j]
        BY <3>3, <3>6
      <4> QED  BY <2>3, <3>2, <4>1
    <3> QED  BY <3>4, <3>5, <3>6
  <2>5. \A x : Holds(calls, x) => ValueCall(x, i, p, added, removed)
    BY <1>6, <2>4 DEF ValueCall
  <2>6. /\ \A f \in added : f[2] = p => Holds(calls, <<"add", f>>)
        /\ \A f \in removed : f[2] = p => Holds(calls, <<"remove", f>>)
    BY <2>4
  <2> QED  BY <2>3, <2>5, <2>6 DEF calls
<1>7. CASE p \notin Single /\ p \notin Repeatable
  <2>0. p \in Relations
    BY <1>7 DEF Fields
  <2>1. PICK s, t : s = [j \in 1..m |-> <<"insertAssertion", i, LabelOf[p], new[j][3]>>]
                    /\ t = [j \in 1..n |-> <<"deleteAssertion", old[j]>>]
    OBVIOUS
  <2>2. calls = s \o t
    BY <1>5, <1>7, <2>1 DEF CallsFor, new, old
  <2> HIDE DEF calls
  <2>3. /\ \E T : calls \in Seq(T)
        /\ \A x : Holds(calls, x) <=> (\E j \in 1..m : x = s[j]) \/ (\E j \in 1..n : x = t[j])
    <3>1. PICK T : T = {s[j] : j \in 1..m} \cup {t[j] : j \in 1..n}
      OBVIOUS
    <3>2. s \in [1..m -> T] /\ t \in [1..n -> T]
      BY <2>1, <3>1
    <3>3. /\ calls \in Seq(T)
          /\ \A x : Holds(calls, x) <=> (\E j \in 1..m : x = s[j]) \/ (\E j \in 1..n : x = t[j])
      <4>1. /\ s \o t \in Seq(T)
            /\ \A x : Holds(s \o t, x) <=> (\E j \in 1..m : x = s[j]) \/ (\E j \in 1..n : x = t[j])
        <5>1. s \in Seq(T) /\ t \in Seq(T)
          BY <1>5, <3>2
        <5>2. /\ s \o t \in Seq(T)
              /\ \A x : Holds(s \o t, x) <=> Holds(s, x) \/ Holds(t, x)
          BY <5>1, JoinedLists
        <5>3. \A x : (Holds(s, x) <=> \E j \in 1..m : x = s[j]) /\ (Holds(t, x) <=> \E j \in 1..n : x = t[j])
          BY <3>2 DEF Holds
        <5> QED  BY <5>2, <5>3
      <4> QED  BY <2>2, <4>1
    <3> QED  BY <3>3
  <2>4. \A x : Holds(calls, x) <=> (\E f \in A : x = <<"insertAssertion", i, LabelOf[p], f[3]>>)
                                   \/ (\E f \in R : x = <<"deleteAssertion", f>>)
    <3>1. \A j \in 1..m : s[j] = <<"insertAssertion", i, LabelOf[p], new[j][3]>> /\ new[j] \in A
      BY <1>2, <1>5, <2>1 DEF Holds
    <3>2. \A j \in 1..n : t[j] = <<"deleteAssertion", old[j]>> /\ old[j] \in R
      BY <1>2, <1>5, <2>1 DEF Holds
    <3>3. (\A f \in A : \E j \in 1..m : f = new[j]) /\ (\A f \in R : \E j \in 1..n : f = old[j])
      BY <1>2, <1>5 DEF Holds
    <3> HIDE DEF A, R
    <3>4. ASSUME NEW x, Holds(calls, x)
          PROVE  (\E f \in A : x = <<"insertAssertion", i, LabelOf[p], f[3]>>) \/ (\E f \in R : x = <<"deleteAssertion", f>>)
      <4>1. CASE \E j \in 1..m : x = s[j]
        BY <3>1, <4>1
      <4>2. CASE \E j \in 1..n : x = t[j]
        BY <3>2, <4>2
      <4> QED  BY <2>3, <3>4, <4>1, <4>2
    <3>5. ASSUME NEW f \in A PROVE Holds(calls, <<"insertAssertion", i, LabelOf[p], f[3]>>)
      <4>1. PICK j \in 1..m : f = new[j]
        BY <3>3, <3>5
      <4> QED  BY <2>3, <3>1, <4>1
    <3>6. ASSUME NEW f \in R PROVE Holds(calls, <<"deleteAssertion", f>>)
      <4>1. PICK j \in 1..n : f = old[j]
        BY <3>3, <3>6
      <4> QED  BY <2>3, <3>2, <4>1
    <3> QED  BY <3>4, <3>5, <3>6
  <2>5. \A x : Holds(calls, x) => ValueCall(x, i, p, added, removed)
    BY <1>7, <2>0, <2>4 DEF ValueCall
  <2>6. /\ \A f \in added : f[2] = p => Holds(calls, <<"insertAssertion", i, LabelOf[p], f[3]>>)
        /\ \A f \in removed : f[2] = p => Holds(calls, <<"deleteAssertion", f>>)
    BY <2>4
  <2> QED  BY <2>3, <2>5, <2>6 DEF calls
<1> QED  BY <1>4, <1>6, <1>7

\* A call that writes what one submission of a form says.
Writes(x, P, added, removed) ==
  /\ Fits(x) /\ x[1] \in {"set", "add", "remove", "insertAssertion", "deleteAssertion"}
  /\ P \cap Relations = {} => x[1] \in {"set", "add", "remove"}
  /\ \A f \in Free : /\ MayAdd(x, f) => f \in added /\ f[2] \in P
                     /\ MayTake(x, f) => f \in removed /\ f[2] \in P

LEMMA ValueCallWrites ==
  ASSUME LabelsApart, NEW i \in Individuals, NEW P \in SUBSET Fields, NEW p \in P, NEW added \in SUBSET Facts,
         NEW removed \in SUBSET Facts, \A f \in added : f[1] = i, NEW x, ValueCall(x, i, p, added, removed)
  PROVE  Writes(x, P, added, removed)
<1>1. CASE p \in Single /\ \E v : x = <<"set", i, p, v>> /\ (v = None \/ <<i, p, v>> \in Facts)
  BY <1>1 DEF Writes, Fits, MayAdd, MayTake, Adds, Takes
<1>2. ASSUME NEW f \in added, f[2] = p, x = <<"add", f>> PROVE Writes(x, P, added, removed)
  BY <1>2 DEF Writes, Fits, MayAdd, MayTake, Adds, Takes
<1>3. ASSUME NEW f \in removed, f[2] = p, x = <<"remove", f>> PROVE Writes(x, P, added, removed)
  BY <1>3 DEF Writes, Fits, MayAdd, MayTake, Adds, Takes
<1>4. ASSUME NEW f \in removed, f[2] = p, p \in Relations, x = <<"deleteAssertion", f>>
      PROVE  Writes(x, P, added, removed)
  BY <1>4 DEF Writes, Fits, MayAdd, MayTake, Adds, Takes
<1>5. ASSUME NEW f \in added, f[2] = p, p \in Relations, x = <<"insertAssertion", i, LabelOf[p], f[3]>>
      PROVE  Writes(x, P, added, removed)
  <2>1. f = <<i, p, f[3]>> /\ f[3] \in RangeOf[p]
    BY <1>5 DEF Facts
  <2>2. Fits(x)
    BY <1>5, <2>1, Labelled DEF Fits
  <2>3. \A g \in Free : AsLabelled(g, i, LabelOf[p], f[3]) => g = f
    <3>1. PICK o \in RangeOf[p] : o = f[3] /\ f = <<i, p, o>>
      BY <2>1
    <3>2. \A g \in Free : AsLabelled(g, i, LabelOf[p], o) => g = <<i, p, o>>
      <4>1. p \in Relations /\ o \in RangeOf[p]
        BY <1>5, <3>1
      <4> QED  BY <4>1, Labelled
    <3> QED  BY <3>1, <3>2
  <2>4. \A g \in Free : (MayAdd(x, g) => g = f) /\ ~MayTake(x, g)
    BY <1>5, <2>3 DEF MayAdd, MayTake, Adds, Takes
  <2> QED  BY <1>5, <2>2, <2>4 DEF Writes
<1> QED  BY <1>1, <1>2, <1>3, <1>4, <1>5 DEF ValueCall

\* A form's calls are those of its fields, joined.
LEMMA FormLists ==
  ASSUME NEW i, NEW P \in SUBSET Fields, NEW base \in SUBSET Facts, NEW wanted \in SUBSET Facts,
         \A f \in wanted : f[1] = i
  PROVE  LET calls == Submissions(i, P, base, wanted) IN
         /\ \E T : calls \in Seq(T)
         /\ \A x : Holds(calls, x) <=> \E p \in P : Holds(CallsFor(i, p, wanted \ base, base \ wanted), x)
<1> DEFINE added == wanted \ base
           removed == base \ wanted
<1>1. added \in SUBSET Facts /\ removed \in SUBSET Facts /\ \A f \in added : f[1] = i
  OBVIOUS
<1> HIDE DEF added, removed
<1>2. \A p \in P : \E T : CallsFor(i, p, added, removed) \in Seq(T)
  BY <1>1, Calls
<1>3. PICK order : order = SetToSeq(P)
  OBVIOUS
<1>4. order \in Seq(P) /\ \A p : Holds(order, p) <=> p \in P
  <2>1. IsFiniteSet(P)
    BY FS_Subset, FactEditsAssumption
  <2> QED  BY <1>3, <2>1, ListOfSet
<1>5. PICK m \in Nat : DOMAIN order = 1..m
  BY <1>4, LenProperties
<1>6. PICK lists : lists = [n \in DOMAIN order |-> CallsFor(i, order[n], added, removed)]
  OBVIOUS
<1>7. PICK calls : calls = FlattenSeq(lists)
  OBVIOUS
<1>8. calls = Submissions(i, P, base, wanted)
  BY <1>3, <1>6, <1>7 DEF Submissions, added, removed
<1>9. PICK T : T = UNION {{CallsFor(i, p, added, removed)[n] : n \in DOMAIN CallsFor(i, p, added, removed)} : p \in P}
  OBVIOUS
<1>10. \A p \in P : CallsFor(i, p, added, removed) \in Seq(T)
  <2>1. SUFFICES ASSUME NEW p \in P PROVE CallsFor(i, p, added, removed) \in Seq(T)
    OBVIOUS
  <2>2. PICK s : s = CallsFor(i, p, added, removed)
    OBVIOUS
  <2>3. \A x : Holds(s, x) => x \in T
    BY <1>9, <2>2 DEF Holds
  <2>4. PICK S : s \in Seq(S)
    BY <1>2, <2>2
  <2> QED  BY <2>2, <2>3, <2>4, SeqRange
<1>11. \A n \in 1..m : order[n] \in P /\ lists[n] = CallsFor(i, order[n], added, removed)
  BY <1>4, <1>5, <1>6 DEF Holds
<1>12. lists \in Seq(Seq(T)) /\ DOMAIN lists = 1..m
  <2>1. lists \in [1..m -> Seq(T)]
    BY <1>5, <1>6, <1>10, <1>11
  <2> QED  BY <1>5, <2>1
<1>13. calls \in Seq(T) /\ \A x : Holds(calls, x) <=> \E n \in DOMAIN lists : Holds(lists[n], x)
  BY <1>7, <1>12, Flattened
<1>14. \A x : Holds(calls, x) <=> \E p \in P : Holds(CallsFor(i, p, added, removed), x)
  <2>1. ASSUME NEW x, Holds(calls, x) PROVE \E p \in P : Holds(CallsFor(i, p, added, removed), x)
    <3>1. PICK n \in 1..m : Holds(lists[n], x)
      BY <1>12, <1>13, <2>1
    <3> QED  BY <1>11, <3>1
  <2>2. ASSUME NEW p \in P, NEW x, Holds(CallsFor(i, p, added, removed), x) PROVE Holds(calls, x)
    <3>1. PICK n \in 1..m : p = order[n]
      BY <1>4, <1>5 DEF Holds
    <3>2. Holds(lists[n], x)
      BY <1>11, <2>2, <3>1
    <3> QED  BY <1>12, <1>13, <3>2
  <2> QED  BY <2>1, <2>2
<1> QED  BY <1>8, <1>13, <1>14 DEF added, removed

\* What is compared with the values the form opened on becomes calls, each value once.
LEMMA FormCalls ==
  ASSUME LabelsApart, NEW i \in Individuals, NEW P \in SUBSET Fields, NEW base \in SUBSET Facts,
         NEW wanted \in SUBSET Facts, \A f \in wanted : f[1] = i
  PROVE  LET calls == Submissions(i, P, base, wanted) IN
         /\ \E T : calls \in Seq(T)
         /\ \A x : Holds(calls, x) => Writes(x, P, wanted \ base, base \ wanted)
         /\ \A f \in Free : f[2] \in P /\ f \in wanted \ base => \E x : Holds(calls, x) /\ Adds(x, f)
         /\ \A f \in Free : f[2] \in P /\ f \in base \ wanted => \E x : Holds(calls, x) /\ Takes(x, f)
<1> DEFINE added == wanted \ base
           removed == base \ wanted
<1>1. added \in SUBSET Facts /\ removed \in SUBSET Facts /\ \A f \in added : f[1] = i
  OBVIOUS
<1> HIDE DEF added, removed
<1>2. \A p \in P : /\ \E T : CallsFor(i, p, added, removed) \in Seq(T)
                   /\ \A x : Holds(CallsFor(i, p, added, removed), x) => ValueCall(x, i, p, added, removed)
                   /\ p \notin Single => \A f \in added : f[2] = p =>
                        \/ Holds(CallsFor(i, p, added, removed), <<"add", f>>)
                        \/ Holds(CallsFor(i, p, added, removed), <<"insertAssertion", i, LabelOf[p], f[3]>>)
                   /\ p \notin Single => \A f \in removed : f[2] = p =>
                        \/ Holds(CallsFor(i, p, added, removed), <<"remove", f>>)
                        \/ Holds(CallsFor(i, p, added, removed), <<"deleteAssertion", f>>)
  BY <1>1, Calls
<1>3. PICK calls : calls = Submissions(i, P, base, wanted)
  OBVIOUS
<1>4. /\ \E T : calls \in Seq(T)
       /\ \A x : Holds(calls, x) <=> \E p \in P : Holds(CallsFor(i, p, added, removed), x)
  BY <1>1, <1>3, FormLists DEF added, removed
<1>5. \A x : Holds(calls, x) => Writes(x, P, added, removed)
  BY <1>1, <1>2, <1>4, ValueCallWrites
<1>6. ASSUME NEW f \in Free, f[2] \in P, f \in added PROVE \E x : Holds(calls, x) /\ Adds(x, f)
  <2>1. PICK p \in P : p = f[2] /\ p \notin Single
    BY <1>6, FactParts
  <2>2. \/ Holds(CallsFor(i, p, added, removed), <<"add", f>>)
        \/ Holds(CallsFor(i, p, added, removed), <<"insertAssertion", i, LabelOf[p], f[3]>>)
    BY <1>2, <1>6, <2>1
  <2>3. PICK x : Holds(calls, x) /\ (x = <<"add", f>> \/ (x = <<"insertAssertion", i, LabelOf[p], f[3]>>
                                                           /\ p \in Relations))
    <3>1. CASE Holds(CallsFor(i, p, added, removed), <<"add", f>>)
      BY <1>4, <3>1
    <3>2. CASE Holds(CallsFor(i, p, added, removed), <<"insertAssertion", i, LabelOf[p], f[3]>>)
      <4>1. PICK x : x = <<"insertAssertion", i, LabelOf[p], f[3]>>
        OBVIOUS
      <4>2. ValueCall(x, i, p, added, removed)
        BY <1>2, <3>2, <4>1
      <4>3. p \in Relations
        BY <2>1, <4>1, <4>2 DEF ValueCall
      <4> QED  BY <1>4, <3>2, <4>1, <4>3
    <3> QED  BY <2>2, <3>1, <3>2
  <2>4. f[1] = i
    BY <1>1, <1>6
  <2> QED  BY <2>1, <2>3, <2>4 DEF Adds, AsLabelled, Resolved
<1>7. ASSUME NEW f \in Free, f[2] \in P, f \in removed PROVE \E x : Holds(calls, x) /\ Takes(x, f)
  <2>1. PICK p \in P : p = f[2] /\ p \notin Single
    BY <1>7, FactParts
  <2>2. \/ Holds(CallsFor(i, p, added, removed), <<"remove", f>>)
        \/ Holds(CallsFor(i, p, added, removed), <<"deleteAssertion", f>>)
    BY <1>2, <1>7, <2>1
  <2>3. PICK x : Holds(calls, x) /\ (x = <<"remove", f>> \/ x = <<"deleteAssertion", f>>)
    BY <1>4, <2>2
  <2> QED  BY <2>3 DEF Takes
<1> QED  BY <1>3, <1>4, <1>5, <1>6, <1>7 DEF added, removed

LEMMA SubmitMerges ==
  ASSUME LabelsApart, MergeInv, NEW k \in Clients, NEW opened \in form[k], NEW c \in Classes,
         NEW wanted \in Changes(opened), SubmitForm(k, opened, wanted, c)
  PROVE  MergeInv'
<1> DEFINE i == opened.of
           dropped == IF c = opened.class THEN {} ELSE {f[2] : f \in opened.base} \ FieldsOf[c]
           kept == FieldsOf[opened.class] \ dropped
           attributes == Submissions(i, kept \ Relations, opened.base, wanted)
           relations == Submissions(i, kept \cap Relations, opened.base, wanted)
           set == AllFacts({i}, Single)
           free == AllFacts({i}, kept) \ set
           first == IF c = opened.class THEN <<>> ELSE <<<<"changeClass", i, c, dropped>>>>
           second == IF attributes = <<>> THEN <<>> ELSE <<<<"attributes", i, attributes>>>>
           add == (wanted \ opened.base) \cap free
           remove == ((opened.base \ wanted) \cap free) \cup AllFacts({i}, dropped \ Single)
<1>1. Begin(k, first \o second \o relations, add, remove, {}, {}) /\ form' = [form EXCEPT ![k] = {}]
  BY Zenon DEF SubmitForm
<1>2. /\ i \in Individuals /\ opened.class \in Classes
      /\ opened.base \subseteq AllFacts({i}, FieldsOf[opened.class])
      /\ wanted \subseteq AllFacts({i}, FieldsOf[opened.class])
  BY DEF MergeInv, FormsFit, Changes
<1>3. kept \subseteq Fields /\ kept \subseteq FieldsOf[opened.class] /\ dropped \cap kept = {}
  BY <1>2, FactEditsAssumption
<1>4. \A f \in wanted \cup opened.base : f \in Facts /\ f[1] = i /\ f[2] \in FieldsOf[opened.class]
  BY <1>2 DEF AllFacts
<1>5. PICK gone, P : gone = dropped /\ P = kept /\ P \subseteq Fields
  BY <1>3
<1>6. \A f : /\ f \in add <=> f \in Free /\ f[2] \in P /\ f \in wanted \ opened.base
             /\ f \in remove <=> f \in Free /\ ((f[2] \in P /\ f \in opened.base \ wanted) \/ (f[1] = i /\ f[2] \in gone))
  <2> HIDE DEF i, dropped, kept
  <2>1. \A f : f \in free <=> f \in Free /\ f[1] = i /\ f[2] \in P
    BY <1>5 DEF AllFacts, Free
  <2>2. \A f : f \in AllFacts({i}, dropped \ Single) <=> f \in Free /\ f[1] = i /\ f[2] \in gone
    BY <1>5 DEF AllFacts, Free
  <2> HIDE DEF free
  <2> QED  BY <1>4, <2>1, <2>2
<1>7. /\ \E T : attributes \in Seq(T)
      /\ \A x : Holds(attributes, x) => Writes(x, P \ Relations, wanted \ opened.base, opened.base \ wanted)
      /\ \A f \in Free : f[2] \in P \ Relations /\ f \in wanted \ opened.base =>
           \E x : Holds(attributes, x) /\ Adds(x, f)
      /\ \A f \in Free : f[2] \in P \ Relations /\ f \in opened.base \ wanted =>
           \E x : Holds(attributes, x) /\ Takes(x, f)
  <2>1. P \ Relations \in SUBSET Fields /\ opened.base \in SUBSET Facts /\ wanted \in SUBSET Facts
    BY <1>4, <1>5
  <2>2. attributes = Submissions(i, P \ Relations, opened.base, wanted)
    BY <1>5
  <2> HIDE DEF i, dropped, kept, attributes
  <2> QED  BY <1>2, <1>4, <2>1, <2>2, FormCalls
<1>8. /\ \E T : relations \in Seq(T)
      /\ \A x : Holds(relations, x) => Writes(x, P \cap Relations, wanted \ opened.base, opened.base \ wanted)
      /\ \A f \in Free : f[2] \in P \cap Relations /\ f \in wanted \ opened.base =>
           \E x : Holds(relations, x) /\ Adds(x, f)
      /\ \A f \in Free : f[2] \in P \cap Relations /\ f \in opened.base \ wanted =>
           \E x : Holds(relations, x) /\ Takes(x, f)
  <2>1. P \cap Relations \in SUBSET Fields /\ opened.base \in SUBSET Facts /\ wanted \in SUBSET Facts
    BY <1>4, <1>5
  <2>2. relations = Submissions(i, P \cap Relations, opened.base, wanted)
    BY <1>5
  <2> HIDE DEF i, dropped, kept, relations
  <2> QED  BY <1>2, <1>4, <2>1, <2>2, FormCalls
<1>9. PICK class, values : class = <<"changeClass", i, c, gone>> /\ values = <<"attributes", i, attributes>>
  OBVIOUS
<1>10. /\ first = <<>> \/ first = <<class>>
       /\ gone # {} => first = <<class>>
       /\ second = <<>> \/ second = <<values>>
       /\ (\E x : Holds(attributes, x)) => second = <<values>>
  <2>1. gone # {} => c # opened.class
    BY <1>5
  <2>2. (\E x : Holds(attributes, x)) => attributes # <<>>
    BY NoMore
  <2> HIDE DEF i, dropped, kept, attributes
  <2>3. first = IF c = opened.class THEN <<>> ELSE <<class>>
    BY <1>5, <1>9
  <2>4. second = IF attributes = <<>> THEN <<>> ELSE <<values>>
    BY <1>9
  <2> HIDE DEF first, second
  <2> QED  BY <2>1, <2>2, <2>3, <2>4
<1> HIDE DEF i, dropped, kept, attributes, relations, first, second, add, remove
<1>11. PICK q1, q2, q3, calls : q1 = first /\ q2 = second /\ q3 = relations /\ calls = q1 \o q2 \o q3
  OBVIOUS
<1>12. /\ \A x : Holds(q1, x) => x = class
       /\ gone # {} => Holds(q1, class)
       /\ \A x : Holds(q2, x) => x = values
       /\ (\E x : Holds(attributes, x)) => Holds(q2, values)
  BY <1>10, <1>11 DEF Holds
<1>13. PICK S3 : q3 \in Seq(S3)
  BY <1>8, <1>11
<1>14. PICK T : calls \in Seq(T) /\ \A x : Holds(calls, x) <=> Holds(q1, x) \/ Holds(q2, x) \/ Holds(q3, x)
  <2>1. PICK T : T = {class, values} \cup S3
    OBVIOUS
  <2>2. q1 \in Seq(T) /\ q2 \in Seq(T)
    <3>1. <<>> \in Seq(T) /\ <<class>> \in Seq(T) /\ <<values>> \in Seq(T)
      BY <2>1
    <3> QED  BY <1>10, <1>11, <3>1
  <2>3. q3 \in Seq(T)
    BY <1>13, <2>1, SeqMonotonic
  <2>4. q1 \o q2 \in Seq(T) /\ \A x : Holds(q1 \o q2, x) <=> Holds(q1, x) \/ Holds(q2, x)
    BY <2>2, JoinedLists
  <2>5. PICK q12 : q12 = q1 \o q2
    OBVIOUS
  <2>6. q12 \o q3 \in Seq(T) /\ \A x : Holds(q12 \o q3, x) <=> Holds(q12, x) \/ Holds(q3, x)
    BY <2>3, <2>4, <2>5, JoinedLists
  <2> QED  BY <1>11, <2>4, <2>5, <2>6
<1>15. Flat(class) = {class} /\ Flat(values) = {attributes[n] : n \in DOMAIN attributes} /\ Fits(class)
  BY <1>9 DEF Flat, Fits
<1>16. \A y : y \in Flat(values) <=> Holds(attributes, y)
  BY <1>15 DEF Holds
<1>17. \A x : Holds(q3, x) => Flat(x) = {x}
  BY <1>8, <1>11 DEF Writes, Flat
<1>18. \A y : y \in Pieces(calls) =>
         \/ y = class
         \/ Writes(y, P \ Relations, wanted \ opened.base, opened.base \ wanted)
         \/ Writes(y, P \cap Relations, wanted \ opened.base, opened.base \ wanted)
  <2>1. ASSUME NEW y \in Pieces(calls)
        PROVE  y = class \/ Holds(attributes, y) \/ Holds(q3, y)
    <3>1. PICK x : Holds(calls, x) /\ y \in Flat(x)
      BY <2>1, PiecesHeld
    <3>2. x = class \/ x = values \/ Holds(q3, x)
      BY <1>12, <1>14, <3>1
    <3> QED  BY <1>15, <1>16, <1>17, <3>1, <3>2
  <2> QED  BY <1>7, <1>8, <1>11, <2>1
<1>19. \A y : Holds(attributes, y) \/ Holds(q3, y) \/ (y = class /\ gone # {}) => y \in Pieces(calls)
  BY <1>12, <1>14, <1>15, <1>16, <1>17, PiecesHeld
<1>20. CallsFit(calls)
  <2>1. ASSUME NEW x, Holds(calls, x), x[1] = "attributes"
        PROVE  IsList(x[3]) /\ \A y : Holds(x[3], y) => y[1] \in {"set", "add", "remove"}
    <3>1. x = values
      <4>1. x = class \/ x = values \/ Holds(relations, x)
        BY <1>11, <1>12, <1>14, <2>1
      <4>2. class[1] # "attributes"
        BY <1>9
      <4>3. Holds(relations, x) => x[1] # "attributes"
        BY <1>8 DEF Writes
      <4> QED  BY <2>1, <4>1, <4>2, <4>3
    <3>2. x[3] = attributes
      BY <1>9, <3>1
    <3> QED  BY <1>7, <3>2 DEF Writes, IsList
  <2>2. \A x \in Pieces(calls) : Fits(x)
    BY <1>15, <1>18 DEF Writes
  <2> QED  BY <2>1, <2>2 DEF CallsFit
<1>21. PICK none : none = {}
  OBVIOUS
<1>22. Says(calls, add, remove, none, none)
  <2>1. \A x \in Pieces(calls), f \in Free :
          /\ MayAdd(x, f) => f \in add
          /\ MayTake(x, f) => f \in remove
    <3>1. \A f \in Free : ~MayAdd(class, f) /\ (MayTake(class, f) => f[1] = i /\ f[2] \in gone)
      BY <1>9 DEF MayAdd, MayTake, Adds, Takes
    <3> QED  BY <1>6, <1>18, <3>1 DEF Writes
  <2>2. \A f \in add : \E x \in Pieces(calls) : Adds(x, f)
    BY <1>6, <1>7, <1>8, <1>11, <1>19
  <2>3. ASSUME NEW f \in remove PROVE \E x \in Pieces(calls) : Takes(x, f)
    <3>1. CASE f \in Free /\ f[2] \in P /\ f \in opened.base \ wanted
      BY <1>7, <1>8, <1>11, <1>19, <3>1
    <3>2. CASE f[1] = i /\ f[2] \in gone
      <4>1. Takes(class, f)
        BY <1>9, <3>2 DEF Takes
      <4> QED  BY <1>19, <3>2, <4>1
    <3> QED  BY <1>6, <2>3, <3>1, <3>2
  <2> QED  BY <1>21, <2>1, <2>2, <2>3 DEF Says
<1>23. FormsFit'
  <2>1. form = [j \in Clients |-> form[j]]
    BY DEF MergeInv, FormsFit
  <2>2. form' = [j \in Clients |-> form'[j]] /\ form'[k] = {} /\ \A j \in Clients : j # k => form'[j] = form[j]
    BY <1>1, <2>1
  <2> QED  BY <2>2 DEF MergeInv, FormsFit
<1>24. Begin(k, calls, add, remove, none, none)
  BY <1>1, <1>11, <1>21
<1>25. add \in SUBSET Free /\ remove \in SUBSET Free
  BY <1>6
<1> QED  BY <1>14, <1>20, <1>22, <1>23, <1>24, <1>25, BeginMerges

LEMMA EditMerges ==
  ASSUME LabelsApart, MergeInv, NEW k \in Clients, Edit(k)
  PROVE  MergeInv'
  BY OpenMerges, SubmitMerges, DrawMerges, DropMerges, AnnotateMerges DEF Edit

LEMMA MergesAtRest ==
  ASSUME MergeInv
  PROVE  FormsMerge
<1>1. SUFFICES ASSUME \A k \in Clients : todo[k] = <<>>, "broken" \notin marks
               PROVE  /\ asked.add \ (asked.remove \cup asked.mayRemove) \subseteq store.facts
                      /\ store.facts \cap asked.remove \subseteq asked.add \cup asked.mayAdd
  BY DEF FormsMerge
<1>2. \A k \in Clients : Pieces(todo[k]) = {}
  BY <1>1 DEF Pieces
<1> QED  BY <1>1, <1>2 DEF MergeInv, Coming, Going

LEMMA MergesAtFirst ==
  ASSUME Init
  PROVE  MergeInv
<1>1. /\ store = Start /\ todo = [k \in Clients |-> <<>>] /\ form = [k \in Clients |-> {}]
      /\ asked.add = {} /\ asked.remove = {}
  BY DEF Init
<1>2. store.facts \subseteq Facts
  BY <1>1, FactEditsAssumption
<1>3. todo \in [Clients -> Seq({})] /\ \A k \in Clients : todo[k] = <<>>
  BY <1>1
<1>4. Pieces(<<>>) = {} /\ CallsFit(<<>>)
  BY DEF Pieces, CallsFit, Holds
<1>5. FormsFit
  BY <1>1 DEF FormsFit
<1> QED  BY <1>1, <1>2, <1>3, <1>4, <1>5 DEF MergeInv, Announced, Coming, Going

LEMMA MergesNext == ASSUME LabelsApart, Inv, MergeInv, [Next]_vars PROVE MergeInv'
<1>1. CASE UNCHANGED vars
  BY <1>1 DEF vars, MergeInv, FormsFit, Announced, Coming, Going
<1>2. ASSUME NEW k \in Clients, Fail(k) PROVE MergeInv'
  <2>1. UNCHANGED <<form, asked>>
    BY <1>2 DEF Fail
  <2> QED  BY <1>2, <2>1, ThrowMerges
<1> QED  BY <1>1, <1>2, StepMerges, EditMerges DEF Next, Inv

LEMMA MergesTableNext == ASSUME LabelsApart, Inv, MergeInv, [TableNext]_all PROVE MergeInv'
<1>1. ASSUME UNCHANGED vars PROVE MergeInv'
  BY <1>1, MergesNext
<1>2. CASE UNCHANGED all \/ (\E facts : NewTable(facts)) \/ Answer \/ Arrive \/ AddSettles \/ RemoveSettles
  BY <1>1, <1>2 DEF all, NewTable, Answer, Arrive, AddSettles, RemoveSettles
<1>3. ASSUME NEW f, AddEntry(f) \/ \E n : RemoveEntry(f, n) PROVE MergeInv'
  <2>1. \E x : AnnotateFact(Adder, x) \/ RemoveAnnotation(Remover, x)
    BY <1>3 DEF AddEntry, RemoveEntry
  <2> QED  BY <2>1, AnnotateMerges, PageClients
<1>4. ASSUME NEW k \in Clients, Step(k) \/ Fail(k) \/ Edit(k) PROVE MergeInv'
  BY <1>4, MergesNext DEF Next
<1> QED  BY <1>2, <1>3, <1>4 DEF TableNext, Requests, Others
-----------------------------------------------------------------------------
(* What a table of results shows *)

\* Numbers in order: each of them, once.
LEMMA Ordered ==
  ASSUME NEW S \in SUBSET Nat, IsFiniteSet(S)
  PROVE  /\ Cardinality(S) \in Nat /\ DOMAIN InOrder(S) = 1..Cardinality(S)
         /\ InOrder(S) \in Seq(S)
         /\ IsInjective(InOrder(S)) /\ ToSet(InOrder(S)) = S
<1> DEFINE n == Cardinality(S)
           below(x) == {y \in S : y < x}
           rank == [x \in S |-> Cardinality(below(x)) + 1]
<1>1. n \in Nat
  BY FS_CardinalityType
<1>2. \A x \in S : IsFiniteSet(below(x)) /\ Cardinality(below(x)) \in Nat
  BY FS_Subset, FS_CardinalityType
<1>3. ASSUME NEW x \in S PROVE rank[x] \in 1..n
  <2>1. below(x) \in SUBSET (S \ {x})
    OBVIOUS
  <2>2. IsFiniteSet(S \ {x}) /\ Cardinality(S \ {x}) = n - 1
    BY FS_RemoveElement
  <2>3. Cardinality(below(x)) <= n - 1
    BY <2>1, <2>2, FS_Subset
  <2>4. rank[x] = Cardinality(below(x)) + 1
    OBVIOUS
  <2> HIDE DEF rank, below
  <2> QED  BY <1>1, <1>2, <2>3, <2>4
<1>4. ASSUME NEW x \in S, NEW y \in S, x < y PROVE rank[x] < rank[y]
  <2>1. \A z \in S : z < x => z < y
    BY <1>4
  <2>2. x \in below(y) /\ x \notin below(x)
    BY <1>4
  <2>3. below(x) \in SUBSET below(y)
    BY <2>1
  <2>4. Cardinality(below(x)) <= Cardinality(below(y)) /\ Cardinality(below(x)) # Cardinality(below(y))
    BY <1>2, <2>2, <2>3, FS_Subset
  <2>5. rank[x] = Cardinality(below(x)) + 1 /\ rank[y] = Cardinality(below(y)) + 1
    OBVIOUS
  <2> HIDE DEF rank, below
  <2> QED  BY <1>2, <2>4, <2>5
<1>5. \A x, y \in S : rank[x] = rank[y] => x = y
  <2>1. \A x, y \in S : x < y \/ y < x \/ x = y
    OBVIOUS
  <2>2. \A x \in S : rank[x] \in Nat
    BY <1>1, <1>3
  <2> HIDE DEF rank
  <2> QED  BY <1>4, <2>1, <2>2
<1>6. rank \in Injection(S, 1..n)
  <2>1. rank \in [S -> 1..n]
    BY <1>3
  <2>2. DOMAIN rank = S
    OBVIOUS
  <2> HIDE DEF rank
  <2> QED  BY <1>5, <2>1, <2>2 DEF Injection, IsInjective
<1>7. IsFiniteSet(1..n) /\ Cardinality(1..n) = n
  BY <1>1, FS_Interval
<1>8. \A m \in 1..n : \E x \in S : rank[x] = m
  <2>1. rank \in Surjection(S, 1..n)
    BY <1>6, <1>7, FS_Injection
  <2> QED  BY <2>1 DEF Surjection
<1>9. PICK list : list = InOrder(S)
  OBVIOUS
<1>10. list = [m \in 1..n |-> CHOOSE x \in S : Cardinality(below(x)) = m - 1]
  BY <1>9 DEF InOrder
<1>11. \A m \in 1..n : list[m] \in S /\ rank[list[m]] = m
  <2>1. SUFFICES ASSUME NEW m \in 1..n PROVE list[m] \in S /\ rank[list[m]] = m
    OBVIOUS
  <2>2. PICK x \in S : Cardinality(below(x)) = m - 1
    <3>1. PICK x \in S : rank[x] = m
      BY <1>8
    <3>2. rank[x] = Cardinality(below(x)) + 1
      OBVIOUS
    <3> HIDE DEF rank, below
    <3> QED  BY <1>1, <1>2, <3>1, <3>2
  <2>3. list[m] = CHOOSE z \in S : Cardinality(below(z)) = m - 1
    BY <1>10
  <2>4. list[m] \in S /\ Cardinality(below(list[m])) = m - 1
    BY <2>2, <2>3
  <2> QED  BY <1>1, <2>4
<1>12. DOMAIN list = 1..n
  BY <1>10
<1> HIDE DEF rank, below
<1>13. IsInjective(list)
  BY <1>11, <1>12 DEF IsInjective
<1>14. ToSet(list) = S
  <2>1. \A x \in S : \E m \in 1..n : x = list[m]
    BY <1>3, <1>5, <1>11
  <2> QED  BY <1>11, <1>12, <2>1 DEF ToSet
<1>15. list \in Seq(S)
  <2>1. list \in [1..n -> S]
    BY <1>10, <1>11, <1>12
  <2> HIDE DEF n
  <2> QED  BY <1>1, <2>1
<1> QED  BY <1>1, <1>9, <1>12, <1>13, <1>14, <1>15

LEMMA InList ==
  ASSUME NEW list, NEW x
  PROVE  x \in ToSet(list) <=> \E n \in DOMAIN list : x = list[n]
  BY DEF ToSet

\* A list with one more at its end.
LEMMA Longer ==
  ASSUME NEW list \in Seq(Nat), IsInjective(list), NEW id \in Nat, id \notin ToSet(list)
  PROVE  /\ Append(list, id) \in Seq(Nat) /\ IsInjective(Append(list, id))
         /\ ToSet(Append(list, id)) = ToSet(list) \cup {id}
<1>1. PICK m, longer : m \in Nat /\ m = Len(list) /\ longer = Append(list, id)
  BY LenProperties
<1>2. /\ longer \in Seq(Nat) /\ Len(longer) = m + 1 /\ DOMAIN longer = 1..(m + 1) /\ DOMAIN list = 1..m
      /\ \A n \in 1..m : longer[n] = list[n]
      /\ longer[m + 1] = id
  BY <1>1, AppendProperties, LenProperties
<1>3. \A n \in 1..m : list[n] # id
  BY <1>2 DEF ToSet
<1>4. IsInjective(longer)
  BY <1>1, <1>2, <1>3 DEF IsInjective
<1>5. \A x : x \in ToSet(longer) <=> x \in ToSet(list) \/ x = id
  <2>1. \A x : (\E n \in 1..(m + 1) : x = longer[n]) <=> (\E n \in 1..m : x = list[n]) \/ x = id
    BY <1>1, <1>2
  <2>2. \A x : (x \in ToSet(longer) <=> \E n \in 1..(m + 1) : x = longer[n])
               /\ (x \in ToSet(list) <=> \E n \in 1..m : x = list[n])
    <3>1. DOMAIN longer = 1..(m + 1) /\ DOMAIN list = 1..m
      BY <1>2
    <3> QED  BY <3>1 DEF ToSet
  <2> QED  BY <2>1, <2>2, Zenon
<1> QED  BY <1>1, <1>2, <1>4, <1>5

\* A list with an entry taken out of it.
LEMMA Shorter ==
  ASSUME NEW list \in Seq(Nat), IsInjective(list), NEW id
  PROVE  /\ Less(list, id) \in Seq(Nat) /\ IsInjective(Less(list, id))
         /\ ToSet(Less(list, id)) = ToSet(list) \ {id}
<1> DEFINE kept == {n \in DOMAIN list : list[n] # id}
           order == InOrder(kept)
           shorter == [m \in 1..Cardinality(kept) |-> list[order[m]]]
<1>1. Len(list) \in Nat /\ DOMAIN list = 1..Len(list) /\ \A n \in DOMAIN list : list[n] \in Nat
  BY LenProperties, ElementOfSeq
<1>2. kept \in SUBSET Nat /\ IsFiniteSet(kept)
  <2>1. IsFiniteSet(1..Len(list)) /\ kept \in SUBSET (1..Len(list))
    BY <1>1, FS_Interval
  <2> QED  BY <2>1, FS_Subset
<1>3. /\ Cardinality(kept) \in Nat /\ DOMAIN order = 1..Cardinality(kept)
      /\ IsInjective(order) /\ ToSet(order) = kept
  <2> HIDE DEF kept
  <2> QED  BY <1>2, Ordered
<1>4. shorter = Less(list, id)
  BY DEF Less
<1>5. PICK size \in Nat : size = Cardinality(kept)
  BY <1>3
<1> HIDE DEF order
<1>6. \A m \in 1..size : order[m] \in kept
  BY <1>3, <1>5, InList
<1>7. DOMAIN shorter = 1..size /\ \A m \in 1..size : shorter[m] = list[order[m]] /\ order[m] \in DOMAIN list /\ shorter[m] # id
  BY <1>5, <1>6
<1>8. shorter \in Seq(Nat)
  <2>1. shorter \in [1..size -> Nat]
    BY <1>1, <1>5, <1>7
  <2> HIDE DEF shorter
  <2> QED  BY <2>1
<1> HIDE DEF shorter
<1>9. IsInjective(shorter)
  BY <1>3, <1>5, <1>7 DEF IsInjective
<1>10. ASSUME NEW x PROVE x \in ToSet(shorter) <=> x \in ToSet(list) /\ x # id
  <2>1. ASSUME x \in ToSet(shorter) PROVE x \in ToSet(list) /\ x # id
    <3>1. PICK m \in 1..size : x = shorter[m]
      BY <1>7, <2>1, InList
    <3> QED  BY <1>7, <3>1, InList
  <2>2. ASSUME x \in ToSet(list), x # id PROVE x \in ToSet(shorter)
    <3>1. PICK n \in DOMAIN list : x = list[n]
      BY <2>2, InList
    <3>2. n \in kept
      BY <2>2, <3>1
    <3> HIDE DEF kept
    <3>3. PICK m \in 1..size : n = order[m]
      BY <1>3, <1>5, <3>2, InList
    <3> QED  BY <1>7, <3>1, <3>3, InList
  <2> QED  BY <2>1, <2>2
<1>11. ToSet(shorter) = ToSet(list) \ {id}
  BY <1>10
<1> QED  BY <1>4, <1>8, <1>9, <1>11

\* A list whose pending entry is replaced by what it has become.
LEMMA Replaces ==
  ASSUME NEW list \in Seq(Nat), IsInjective(list), Pending \in ToSet(list), NEW id \in Nat, id \notin ToSet(list),
         NEW new, new = [n \in DOMAIN list |-> IF list[n] = Pending THEN id ELSE list[n]]
  PROVE  new \in Seq(Nat) /\ IsInjective(new) /\ ToSet(new) = (ToSet(list) \ {Pending}) \cup {id}
<1>1. Len(list) \in Nat /\ DOMAIN list = 1..Len(list) /\ \A n \in DOMAIN list : list[n] \in Nat
  BY LenProperties, ElementOfSeq
<1>2. DOMAIN new = 1..Len(list) /\ \A n \in 1..Len(list) : new[n] = IF list[n] = Pending THEN id ELSE list[n]
  BY <1>1
<1>3. new \in Seq(Nat)
  <2>1. new \in [1..Len(list) -> Nat]
    BY <1>1, <1>2
  <2> QED  BY <1>1, <2>1
<1>4. \A n \in 1..Len(list) : list[n] # id
  BY <1>1, InList
<1>5. IsInjective(new)
  BY <1>1, <1>2, <1>4 DEF IsInjective
<1>6. PICK at \in 1..Len(list) : list[at] = Pending
  BY <1>1, InList
<1>7. ASSUME NEW x PROVE x \in ToSet(new) <=> (x \in ToSet(list) /\ x # Pending) \/ x = id
  <2>1. ASSUME NEW n \in 1..Len(list), x = new[n] PROVE (x \in ToSet(list) /\ x # Pending) \/ x = id
    BY <1>1, <1>2, <2>1, InList
  <2>2. ASSUME NEW n \in 1..Len(list), x = list[n], x # Pending PROVE x \in ToSet(new)
    <3>1. new[n] = x
      BY <1>2, <2>2
    <3> QED  BY <1>2, <3>1, InList
  <2>3. ASSUME x = id PROVE x \in ToSet(new)
    <3>1. new[at] = x
      BY <1>2, <1>6, <2>3
    <3> QED  BY <1>2, <3>1, InList
  <2>4. x \in ToSet(new) <=> \E n \in 1..Len(list) : x = new[n]
    <3>1. x \in ToSet(new) <=> \E n \in DOMAIN new : x = new[n]
      BY InList
    <3> QED  BY ONLY <1>2, <3>1
  <2>5. x \in ToSet(list) <=> \E n \in 1..Len(list) : x = list[n]
    BY <1>1, InList
  <2> QED  BY <2>1, <2>2, <2>3, <2>4, <2>5
<1> QED  BY <1>3, <1>5, <1>7

\* A list with an entry put in where it was.
LEMMA PutBack ==
  ASSUME NEW list \in Seq(Nat), IsInjective(list), NEW id \in Nat, id \notin ToSet(list), NEW at \in 1..Len(list)
  PROVE  /\ InsertAt(list, at, id) \in Seq(Nat) /\ IsInjective(InsertAt(list, at, id))
         /\ ToSet(InsertAt(list, at, id)) = ToSet(list) \cup {id}
<1>1. PICK m \in Nat : m = Len(list)
  BY LenProperties
<1>2. DOMAIN list = 1..m /\ (\A n \in 1..m : list[n] \in Nat) /\ at \in 1..m
  BY <1>1, LenProperties, ElementOfSeq
<1>3. PICK front, back : front = SubSeq(list, 1, at - 1) /\ back = SubSeq(list, at, m)
  OBVIOUS
<1>4. front \in Seq(Nat) /\ Len(front) = at - 1 /\ \A n \in 1..(at - 1) : front[n] = list[n]
  <2>1. 1 \in Int /\ at - 1 \in Int /\ \A n \in 1..(at - 1) : list[n] \in Nat
    BY <1>2
  <2>2. /\ SubSeq(list, 1, at - 1) \in Seq(Nat)
        /\ Len(SubSeq(list, 1, at - 1)) = IF 1 <= at - 1 THEN at - 1 - 1 + 1 ELSE 0
        /\ \A n \in 1..(at - 1 - 1 + 1) : SubSeq(list, 1, at - 1)[n] = list[1 + n - 1]
    BY <2>1, SubSeqProperties
  <2> QED  BY <1>2, <1>3, <2>2
<1>5. back \in Seq(Nat) /\ Len(back) = m - at + 1 /\ \A n \in 1..(m - at + 1) : back[n] = list[at + n - 1]
  <2>1. m \in Int /\ at \in Int /\ \A n \in at..m : list[n] \in Nat
    BY <1>2
  <2>2. /\ SubSeq(list, at, m) \in Seq(Nat)
        /\ Len(SubSeq(list, at, m)) = IF at <= m THEN m - at + 1 ELSE 0
        /\ \A n \in 1..(m - at + 1) : SubSeq(list, at, m)[n] = list[at + n - 1]
    BY <2>1, SubSeqProperties
  <2> QED  BY <1>2, <1>3, <2>2
<1>6. PICK middle : middle = front \o <<id>>
  OBVIOUS
<1>7. /\ middle \in Seq(Nat) /\ Len(middle) = at
      /\ \A n \in 1..at : middle[n] = IF n <= at - 1 THEN list[n] ELSE id
  <2>1. <<id>> \in Seq(Nat) /\ Len(<<id>>) = 1 /\ <<id>>[1] = id
    OBVIOUS
  <2>2. /\ front \o <<id>> \in Seq(Nat) /\ Len(front \o <<id>>) = Len(front) + Len(<<id>>)
        /\ \A n \in 1..Len(front) + Len(<<id>>) : (front \o <<id>>)[n] = IF n <= Len(front) THEN front[n] ELSE <<id>>[n - Len(front)]
    BY <1>4, <2>1, ConcatProperties
  <2>3. Len(front) + Len(<<id>>) = at
    BY <1>2, <1>4, <2>1
  <2>4. ASSUME NEW n \in 1..at PROVE middle[n] = IF n <= at - 1 THEN list[n] ELSE id
    <3>1. CASE n <= at - 1
      BY <1>2, <1>4, <1>6, <2>2, <2>3, <3>1
    <3>2. CASE ~(n <= at - 1)
      <4>1. n - Len(front) = 1
        BY <1>2, <1>4, <3>2
      <4> QED  BY <1>2, <1>4, <1>6, <2>1, <2>2, <2>3, <3>2, <4>1
    <3> QED  BY <3>1, <3>2
  <2> QED  BY <1>6, <2>2, <2>3, <2>4
<1>8. PICK new : new = middle \o back
  OBVIOUS
<1>9. /\ new \in Seq(Nat) /\ DOMAIN new = 1..(m + 1)
      /\ \A n \in 1..(m + 1) : new[n] = IF n < at THEN list[n] ELSE IF n = at THEN id ELSE list[n - 1]
  <2>1. /\ middle \o back \in Seq(Nat) /\ Len(middle \o back) = Len(middle) + Len(back)
        /\ \A n \in 1..Len(middle) + Len(back) : (middle \o back)[n] = IF n <= Len(middle) THEN middle[n] ELSE back[n - Len(middle)]
    BY <1>5, <1>7, ConcatProperties
  <2>2. Len(middle) + Len(back) = m + 1
    BY <1>2, <1>5, <1>7
  <2>3. DOMAIN new = 1..(m + 1)
    BY <1>8, <2>1, <2>2, LenProperties
  <2>4. ASSUME NEW n \in 1..(m + 1) PROVE new[n] = IF n < at THEN list[n] ELSE IF n = at THEN id ELSE list[n - 1]
    <3>1. CASE n <= at
      BY <1>2, <1>7, <1>8, <2>1, <2>2, <3>1
    <3>2. CASE ~(n <= at)
      <4>1. n - at \in 1..(m - at + 1) /\ at + (n - at) - 1 = n - 1
        BY <1>2, <3>2
      <4>2. new[n] = back[n - at]
        BY <1>2, <1>7, <1>8, <2>1, <2>2, <3>2
      <4> QED  BY <1>2, <1>5, <3>2, <4>1, <4>2
    <3> QED  BY <3>1, <3>2
  <2> QED  BY <1>8, <2>1, <2>3, <2>4
<1>10. \A n \in 1..m : list[n] # id
  BY <1>2, InList
<1>11. IsInjective(new)
  <2>1. \A x, y \in 1..m : list[x] = list[y] => x = y
    BY <1>2 DEF IsInjective
  <2>2. SUFFICES ASSUME NEW x \in 1..(m + 1), NEW y \in 1..(m + 1), new[x] = new[y] PROVE x = y
    BY <1>9 DEF IsInjective
  <2>3. \A n \in 1..(m + 1) : n < at => n \in 1..m /\ new[n] = list[n]
    BY <1>2, <1>9
  <2>4. \A n \in 1..(m + 1) : at < n => n - 1 \in 1..m /\ at <= n - 1 /\ new[n] = list[n - 1]
    BY <1>2, <1>9
  <2>5. \A n \in 1..(m + 1) : n = at => new[n] = id
    BY <1>2, <1>9
  <2>6. \A n \in 1..(m + 1) : new[n] = id => n = at
    <3> SUFFICES ASSUME NEW n \in 1..(m + 1), new[n] = id PROVE n = at
      OBVIOUS
    <3>1. ~(n < at)
      BY <1>10, <2>3
    <3>2. ~(at < n)
      BY <1>10, <2>4
    <3> QED  BY <1>2, <3>1, <3>2
  <2>7. CASE x < at
    <3>1. y < at
      <4>1. CASE at < y
        <5>1. list[x] = list[y - 1] /\ x \in 1..m /\ y - 1 \in 1..m
          BY <2>2, <2>3, <2>4, <2>7, <4>1
        <5>2. x = y - 1
          BY <2>1, <5>1
        <5> QED  BY <1>2, <2>7, <4>1, <5>2
      <4>2. y # at
        BY <1>2, <2>2, <2>5, <2>6, <2>7
      <4> QED  BY <1>2, <4>1, <4>2
    <3> QED  BY <2>1, <2>2, <2>3, <2>7, <3>1
  <2>8. CASE at < x
    <3>1. at < y
      <4>1. CASE y < at
        <5>1. list[y] = list[x - 1] /\ y \in 1..m /\ x - 1 \in 1..m
          BY <2>2, <2>3, <2>4, <2>8, <4>1
        <5>2. y = x - 1
          BY <2>1, <5>1
        <5> QED  BY <1>2, <2>8, <4>1, <5>2
      <4>2. y # at
        BY <1>2, <2>2, <2>5, <2>6, <2>8
      <4> QED  BY <1>2, <4>1, <4>2
    <3>2. list[x - 1] = list[y - 1] /\ x - 1 \in 1..m /\ y - 1 \in 1..m
      BY <2>2, <2>4, <2>8, <3>1
    <3>3. x - 1 = y - 1
      BY <2>1, <3>2
    <3> QED  BY <3>3
  <2>9. CASE x = at
    BY <2>2, <2>5, <2>6, <2>9
  <2> QED  BY <1>2, <2>7, <2>8, <2>9
<1>12. ASSUME NEW x PROVE x \in ToSet(new) <=> x \in ToSet(list) \/ x = id
  <2>1. ASSUME NEW n \in 1..m, x = list[n] PROVE \E l \in 1..(m + 1) : x = new[l]
    <3>1. CASE n < at
      BY <1>9, <2>1, <3>1
    <3>2. CASE ~(n < at)
      <4>1. n + 1 \in 1..(m + 1) /\ ~(n + 1 < at) /\ n + 1 # at /\ n + 1 - 1 = n
        BY <1>2, <3>2
      <4>2. new[n + 1] = list[n + 1 - 1]
        BY <1>9, <4>1
      <4> QED  BY <2>1, <4>1, <4>2
    <3> QED  BY <3>1, <3>2
  <2>2. ASSUME x = id PROVE \E l \in 1..(m + 1) : x = new[l]
    <3>1. at \in 1..(m + 1) /\ ~(at < at)
      BY <1>2
    <3> QED  BY <1>9, <2>2, <3>1
  <2>3. ASSUME NEW l \in 1..(m + 1), x = new[l], x # id PROVE \E n \in 1..m : x = list[n]
    <3>1. CASE l < at
      BY <1>2, <1>9, <2>3, <3>1
    <3>2. CASE ~(l < at)
      <4>1. l # at /\ l - 1 \in 1..m
        BY <1>2, <1>9, <2>3, <3>2
      <4> QED  BY <1>9, <2>3, <3>2, <4>1
    <3> QED  BY <3>1, <3>2
  <2>4. x \in ToSet(new) <=> \E l \in 1..(m + 1) : x = new[l]
    BY <1>9, InList
  <2>5. x \in ToSet(list) <=> \E n \in 1..m : x = list[n]
    BY <1>2, InList
  <2> QED  BY <2>1, <2>2, <2>3, <2>4, <2>5
<1>13. new = InsertAt(list, at, id)
  BY <1>1, <1>3, <1>6, <1>8 DEF InsertAt
<1>14. ToSet(new) = ToSet(list) \cup {id}
  BY <1>12
<1> QED  BY <1>9, <1>11, <1>13, <1>14

(***************************************************************************)
(* The table agrees with the store.  What is left of a call that annotates *)
(* names a statement minted before, so that no new statement has           *)
(* annotations; the page's two clients do nothing but its requests; and an *)
(* entry under way is left out of what a fact is shown with, or pending.   *)
(***************************************************************************)
Triple(f) == f = <<f[1], f[2], f[3]>>

Told(x) ==
  /\ x[1] = "annotate" => x[3] \in 1..minted
  /\ x[1] = "add" => Triple(x[2])
  /\ x[1] = "attributes" =>
       IsList(x[3]) /\ \A y : Holds(x[3], y) => y[1] \in {"set", "add", "remove"} /\ (y[1] = "add" => Triple(y[2]))

Tied ==
  /\ \A a \in store.annotations : a.id \in 1..minted /\ a.on \in 1..minted
  /\ \E S : todo \in [Clients -> Seq(S)]
  /\ \A k \in Clients : \A x : Holds(todo[k], x) => Told(x)
  /\ ended \in [Clients -> {"well", "badly"}]
  /\ FormsFit
  /\ \A f \in store.facts : Triple(f)

\* An edit goes on with other calls in the place of its first, or stops.
Goes(k, calls) ==
  \/ todo' = [todo EXCEPT ![k] = calls \o Tail(@)] /\ ended' = ended
  \/ todo' = [todo EXCEPT ![k] = <<>>] /\ ended' = [ended EXCEPT ![k] = "badly"]

LEMMA Goings ==
  ASSUME NEW k, NEW st, NEW calls, NEW mark
  PROVE  /\ WriteThen(k, st, calls, mark) => store' = st /\ Goes(k, calls)
         /\ Write(k, st) => store' = st /\ minted' = minted /\ Goes(k, <<>>)
         /\ Becomes(k, calls) => store' = store /\ minted' = minted /\ Goes(k, calls)
         /\ Throw(k) => store' = store /\ minted' = minted /\ Goes(k, <<>>)
         /\ Fail(k) => store' = store /\ minted' = minted /\ form' = form /\ Goes(k, <<>>)
  BY DEF WriteThen, Write, Becomes, Throw, Fail, Breaks, Goes

LEMMA GoesTied ==
  ASSUME Shape, Tied, NEW k \in Clients, todo[k] # <<>>, NEW T, NEW calls \in Seq(T), Goes(k, calls),
         minted' \in Nat, minted <= minted', form' = form,
         \A x : Holds(calls, x) => Told(x)',
         \A a \in store'.annotations : a.id \in 1..minted' /\ a.on \in 1..minted',
         \A f \in store'.facts : Triple(f)
  PROVE  Tied'
<1>1. PICK S : todo \in [Clients -> Seq(S)]
  BY DEF Tied
<1>2. /\ calls \o Tail(todo[k]) \in Seq(S \cup T)
      /\ \A x : Holds(calls \o Tail(todo[k]), x) <=> Holds(calls, x) \/ Holds(Tail(todo[k]), x)
      /\ \A x : Holds(todo[k], x) <=> x = Head(todo[k]) \/ Holds(Tail(todo[k]), x)
  BY <1>1, CallsAfter
<1>3. <<>> \in Seq(S \cup T) /\ \A x : ~Holds(<<>>, x)
  BY NoMore
<1>4. /\ todo' \in [Clients -> Seq(S \cup T)] /\ todo'[k] \in {calls \o Tail(todo[k]), <<>>}
      /\ \A j \in Clients : j # k => todo'[j] = todo[j]
  <2>1. \A j \in Clients : todo[j] \in Seq(S \cup T)
    BY <1>1, SeqMonotonic
  <2> QED  BY <1>1, <1>2, <1>3, <2>1 DEF Goes
<1>5. minted \in Nat
  BY DEF Shape
<1>6. \A x : Told(x) => Told(x)'
  BY <1>5 DEF Told
<1>7. \A j \in Clients : \A x : Holds(todo'[j], x) => Told(x)'
  <2> SUFFICES ASSUME NEW j \in Clients, NEW x, Holds(todo'[j], x) PROVE Told(x)'
    OBVIOUS
  <2>1. Holds(todo[j], x) \/ Holds(calls, x)
    <3>1. CASE j # k
      BY <1>4, <3>1
    <3>2. CASE j = k
      BY <1>2, <1>3, <1>4, <3>2
    <3> QED  BY <3>1, <3>2
  <2>2. Holds(todo[j], x) => Told(x)
    BY DEF Tied
  <2> QED  BY <1>6, <2>1, <2>2
<1>8. ended' \in [Clients -> {"well", "badly"}]
  BY DEF Tied, Goes
<1>9. FormsFit'
  <2>1. FormsFit
    BY DEF Tied
  <2> QED  BY <2>1 DEF FormsFit
<1>10. (\E R : todo \in [Clients -> Seq(R)])'
  BY <1>4
<1>11. (\A j \in Clients : \A x : Holds(todo[j], x) => Told(x))'
  BY <1>7
<1> QED  BY <1>8, <1>9, <1>10, <1>11 DEF Tied

\* What a call does that annotates nothing, and asks for nothing more.
Mild(st) == st.annotations \subseteq store.annotations /\ \A f \in st.facts : f \in store.facts \/ Triple(f)

Quiet(k) ==
  \/ Throw(k) \/ Becomes(k, <<>>)
  \/ \E st, mark : WriteThen(k, st, <<>>, mark) /\ minted' = minted /\ Mild(st)

LEMMA QuietTied ==
  ASSUME Shape, Tied, NEW k \in Clients, todo[k] # <<>>, form' = form, Quiet(k)
  PROVE  Tied'
<1>1. minted' = minted /\ Goes(k, <<>>) /\ Mild(store')
  <2>1. CASE Throw(k) \/ Becomes(k, <<>>)
    BY <2>1, Goings DEF Mild
  <2>2. CASE \E st, mark : WriteThen(k, st, <<>>, mark) /\ minted' = minted /\ Mild(st)
    BY <2>2, Goings
  <2> QED  BY <2>1, <2>2 DEF Quiet
<1>2. /\ minted \in Nat /\ \A a \in store'.annotations : a.id \in 1..minted' /\ a.on \in 1..minted'
      /\ \A f \in store'.facts : Triple(f)
  BY <1>1 DEF Shape, Tied, Mild
<1>3. PICK none : none = <<>>
  OBVIOUS
<1>4. none \in Seq({}) /\ Goes(k, none) /\ \A x : ~Holds(none, x)
  BY <1>1, <1>3, NoMore
<1>5. minted' \in Nat /\ minted <= minted'
  BY <1>1, <1>2
<1> QED  BY <1>2, <1>4, <1>5, GoesTied

LEMMA QuietWrite ==
  ASSUME NEW k, NEW st, Write(k, st), Mild(st)
  PROVE  Quiet(k)
  BY DEF Quiet, Write

\* Stores that have more facts, fewer, or one for others.
LEMMA Milder ==
  ASSUME Shape
  PROVE  /\ \A facts, statements : Mild(Without(facts, statements)) /\ StoreShape(Without(facts, statements))
         /\ \A f : Triple(f) => Mild([store EXCEPT !.facts = @ \cup {f}])
<1>1. ASSUME NEW facts, NEW statements PROVE Mild(Without(facts, statements)) /\ StoreShape(Without(facts, statements))
  <2>1. PICK F, S, A : F = store.facts \ facts /\ S = store.statements \ statements /\ A = store.annotations \ On(statements)
    OBVIOUS
  <2>2. Without(facts, statements) = [store EXCEPT !.facts = F, !.statements = S, !.annotations = A]
    BY <2>1, Zenon DEF Without
  <2>3. /\ Without(facts, statements).facts = F /\ Without(facts, statements).annotations = A
        /\ StoreShape(Without(facts, statements))
    BY <2>2 DEF Shape, StoreShape
  <2> QED  BY <2>1, <2>3 DEF Mild
<1>2. ASSUME NEW f, Triple(f) PROVE Mild([store EXCEPT !.facts = @ \cup {f}])
  <2>1. PICK after : after = [store EXCEPT !.facts = @ \cup {f}]
    OBVIOUS
  <2>2. after.facts = store.facts \cup {f} /\ after.annotations = store.annotations
    BY <2>1 DEF Shape, StoreShape
  <2> QED  BY <1>2, <2>1, <2>2 DEF Mild
<1> QED  BY <1>1, <1>2

LEMMA MildMove ==
  ASSUME Shape, NEW old, NEW kept, NEW new, Triple(new)
  PROVE  Mild([[store EXCEPT !.facts = @ \ old, !.statements = kept] EXCEPT !.facts = @ \cup {new}])
<1>1. PICK F : F = store.facts \ old
  OBVIOUS
<1>2. PICK before : before = [store EXCEPT !.facts = F, !.statements = kept]
  OBVIOUS
<1>3. before.facts = F /\ before.annotations = store.annotations /\ StoreShape(before)
  BY <1>2 DEF Shape, StoreShape
<1>4. PICK after : after = [before EXCEPT !.facts = @ \cup {new}]
  OBVIOUS
<1>5. after.facts = F \cup {new} /\ after.annotations = store.annotations
  BY <1>3, <1>4 DEF StoreShape
<1>6. Mild(after)
  BY <1>1, <1>5 DEF Mild
<1> QED  BY <1>1, <1>2, <1>4, <1>6, Zenon

LEMMA QuietSet ==
  ASSUME Shape, NEW k, NEW i, NEW p, NEW v, SetIndividualAttributeValue(k, i, p, v)
  PROVE  Quiet(k)
<1> DEFINE old == ValuesOf(i, p)
           held == Held(i, p)
           moved == {[st EXCEPT !.p = p, !.o = v] : st \in held}
           kept == (store.statements \ held) \cup moved
           after == [store EXCEPT !.facts = @ \ old, !.statements = kept]
<1>1. CASE Write(k, Without(old, held))
  <2> HIDE DEF old, held
  <2>1. Mild(Without(old, held))
    BY Milder
  <2> QED  BY <1>1, <2>1, QuietWrite
<1>2. CASE Write(k, [Restated(old, held, p, v) EXCEPT !.facts = @ \cup {<<i, p, v>>}])
  <2>1. PICK new : new = <<i, p, v>>
    OBVIOUS
  <2>2. Triple(new)
    BY <2>1 DEF Triple
  <2>3. Write(k, [after EXCEPT !.facts = @ \cup {new}])
    BY <1>2, <2>1 DEF Restated
  <2> HIDE DEF held, moved, kept
  <2>4. Mild([after EXCEPT !.facts = @ \cup {new}])
    BY <2>2, MildMove
  <2> QED  BY <2>3, <2>4, QuietWrite
<1> QED  BY <1>1, <1>2 DEF SetIndividualAttributeValue

LEMMA QuietUpdate ==
  ASSUME Shape, NEW k, NEW f, NEW label, NEW o, UpdateIndividualRelation(k, f, label, o)
  PROVE  Quiet(k)
<1>1. CASE Throw(k) \/ Becomes(k, <<>>)
  BY <1>1 DEF Quiet
<1>2. ASSUME NEW p, Write(k, IF f \in store.facts
                             THEN [Restated({f}, Reifying({f}), p, o) EXCEPT !.facts = @ \cup {<<f[1], p, o>>}] ELSE store)
      PROVE  Quiet(k)
  <2> DEFINE held == Reifying({f})
             moved == {[st EXCEPT !.p = p, !.o = o] : st \in held}
             kept == (store.statements \ held) \cup moved
             before == [store EXCEPT !.facts = @ \ {f}, !.statements = kept]
             new == <<f[1], p, o>>
             after == [before EXCEPT !.facts = @ \cup {new}]
  <2>1. Write(k, IF f \in store.facts THEN after ELSE store)
    BY <1>2 DEF Restated
  <2>2. Triple(new)
    BY DEF Triple
  <2> HIDE DEF held, moved, kept, new
  <2>3. Mild(after)
    BY <2>2, MildMove
  <2>4. Mild(store)
    BY DEF Mild
  <2> HIDE DEF before, after
  <2> QED  BY <2>1, <2>3, <2>4, QuietWrite
<1> QED  BY <1>1, <1>2 DEF UpdateIndividualRelation

LEMMA QuietCalls ==
  ASSUME Shape, NEW k, NEW x,
         \/ InsertIndividual(k, x[2], x[3])
         \/ ChangeIndividualClass(k, x[2], x[3], x[4])
         \/ SetIndividualAttributeValue(k, x[2], x[3], x[4])
         \/ Triple(x[2]) /\ AddIndividualAttributeValue(k, x[2])
         \/ RemoveIndividualAttributeValue(k, x[2])
         \/ InsertAssertion(k, x[2], x[3], x[4])
         \/ DeleteAssertion(k, x[2])
         \/ UpdateIndividualRelation(k, x[2], x[3], x[4])
         \/ DeleteIndividual(k, x[2])
         \/ DeleteIncoming(k, x[2])
         \/ DropMembers(k, x[2])
         \/ DeleteAnnotation(k, x[2])
  PROVE  Quiet(k)
<1>1. CASE InsertIndividual(k, x[2], x[3])
  <2>1. CASE Throw(k)
    BY <2>1 DEF Quiet
  <2>2. CASE Write(k, [store EXCEPT !.types = @ \cup {<<x[2], x[3]>>}])
    <3>1. PICK types : types = store.types \cup {<<x[2], x[3]>>}
      OBVIOUS
    <3>2. PICK after : after = [store EXCEPT !.types = types]
      OBVIOUS
    <3>3. after.annotations = store.annotations /\ after.facts = store.facts
      BY <3>2 DEF Shape, StoreShape
    <3>4. Write(k, after) /\ Mild(after)
      BY <2>2, <3>1, <3>2, <3>3 DEF Mild
    <3> QED  BY <3>4, QuietWrite
  <2> QED  BY <1>1, <2>1, <2>2 DEF InsertIndividual
<1>2. CASE ChangeIndividualClass(k, x[2], x[3], x[4])
  <2> DEFINE lost == AllFacts({x[2]}, x[4])
             held == Reifying(lost)
             kept == Without(lost, held)
             st == [kept EXCEPT !.types = {t \in @ : t[1] # x[2]} \cup {<<x[2], x[3]>>}]
  <2>1. CASE Throw(k)
    BY <2>1 DEF Quiet
  <2>2. CASE Write(k, st)
    <3>1. Mild(kept)
      BY Milder
    <3>2. st.annotations = kept.annotations /\ st.facts = kept.facts
      <4>1. PICK types : types = {t \in kept.types : t[1] # x[2]} \cup {<<x[2], x[3]>>}
        OBVIOUS
      <4>2. st = [kept EXCEPT !.types = types]
        BY <4>1, Zenon
      <4>3. StoreShape(kept)
        BY Milder
      <4> HIDE DEF kept, st
      <4> QED  BY <4>2, <4>3 DEF StoreShape
    <3> HIDE DEF kept, st
    <3>3. Mild(st)
      BY <3>1, <3>2 DEF Mild
    <3> QED  BY <2>2, <3>3, QuietWrite
  <2> QED  BY <1>2, <2>1, <2>2 DEF ChangeIndividualClass
<1>3. CASE Triple(x[2]) /\ AddIndividualAttributeValue(k, x[2])
  BY <1>3, Milder, QuietWrite DEF AddIndividualAttributeValue
<1>4. ASSUME NEW facts, NEW statements PROVE Mild(Without(facts, statements))
  BY Milder
<1>5. CASE RemoveIndividualAttributeValue(k, x[2])
  BY <1>4, <1>5, QuietWrite DEF RemoveIndividualAttributeValue
<1>6. CASE DeleteAssertion(k, x[2])
  <2>1. CASE Throw(k)
    BY <2>1 DEF Quiet
  <2> QED  BY <1>4, <1>6, <2>1, QuietWrite DEF DeleteAssertion
<1>7. CASE InsertAssertion(k, x[2], x[3], x[4])
  <2>1. CASE Throw(k)
    BY <2>1 DEF Quiet
  <2>2. ASSUME NEW p, Write(k, [store EXCEPT !.facts = @ \cup {<<x[2], p, x[4]>>}]) PROVE Quiet(k)
    <3>1. PICK new : new = <<x[2], p, x[4]>>
      OBVIOUS
    <3>2. Triple(new)
      BY <3>1 DEF Triple
    <3> QED  BY <2>2, <3>1, <3>2, Milder, QuietWrite
  <2> QED  BY <1>7, <2>1, <2>2 DEF InsertAssertion
<1>8. CASE DeleteIndividual(k, x[2])
  <2> DEFINE said == {f \in store.facts : f[1] = x[2]}
             about == {st \in store.statements : st.s = x[2]}
             kept == Without(said, about)
             after == [kept EXCEPT !.types = {t \in @ : t[1] # x[2]}]
  <2>1. CASE Throw(k)
    BY <2>1 DEF Quiet
  <2>2. CASE Write(k, after)
    <3>1. Mild(kept)
      BY Milder
    <3>2. after.annotations = kept.annotations /\ after.facts = kept.facts
      <4>1. PICK types : types = {t \in kept.types : t[1] # x[2]}
        OBVIOUS
      <4>2. after = [kept EXCEPT !.types = types]
        BY <4>1, Zenon
      <4>3. StoreShape(kept)
        BY Milder
      <4> HIDE DEF kept, after
      <4> QED  BY <4>2, <4>3 DEF StoreShape
    <3> HIDE DEF kept, after
    <3>3. Mild(after)
      BY <3>1, <3>2 DEF Mild
    <3> QED  BY <2>2, <3>3, QuietWrite
  <2> QED  BY <1>8, <2>1, <2>2 DEF DeleteIndividual
<1>9. CASE DeleteIncoming(k, x[2])
  <2> DEFINE cut(st) == [st EXCEPT !.s = IF @ = x[2] THEN None ELSE @, !.o = IF @ = x[2] THEN None ELSE @]
             left == {f \in store.facts : f[3] # x[2]}
             cuts == {cut(st) : st \in store.statements}
             after == [store EXCEPT !.facts = left, !.statements = cuts]
  <2>1. WriteThen(k, after, <<>>, {"swept"}) /\ minted' = minted
    BY <1>9 DEF DeleteIncoming
  <2> HIDE DEF cuts
  <2>2. Mild(after)
    <3>1. left \subseteq store.facts
      OBVIOUS
    <3> HIDE DEF left
    <3>2. after.annotations = store.annotations /\ after.facts = left
      BY DEF Shape, StoreShape
    <3> HIDE DEF after
    <3> QED  BY <3>1, <3>2 DEF Mild
  <2> HIDE DEF after
  <2> QED  BY <2>1, <2>2 DEF Quiet
<1>10. CASE DropMembers(k, x[2])
  <2> DEFINE members == {i \in Individuals : <<i, x[2]>> \in store.types}
             facts == {f \in store.facts : f[1] \notin members}
             types == {t \in store.types : t[1] \notin members}
             after == [store EXCEPT !.facts = facts, !.types = types]
  <2>1. WriteThen(k, after, <<>>, {"swept"}) /\ minted' = minted
    BY <1>10 DEF DropMembers
  <2> HIDE DEF types
  <2>2. Mild(after)
    <3>1. facts \subseteq store.facts
      OBVIOUS
    <3> HIDE DEF facts
    <3>2. after.annotations = store.annotations /\ after.facts = facts
      BY DEF Shape, StoreShape
    <3> HIDE DEF after
    <3> QED  BY <3>1, <3>2 DEF Mild
  <2> HIDE DEF after
  <2> QED  BY <2>1, <2>2 DEF Quiet
<1>11. CASE DeleteAnnotation(k, x[2])
  <2> DEFINE left == {a \in store.annotations : a.id # x[2]}
             after == [store EXCEPT !.annotations = left]
  <2>1. Write(k, after)
    BY <1>11 DEF DeleteAnnotation
  <2>2. left \subseteq store.annotations
    OBVIOUS
  <2> HIDE DEF left
  <2>3. after.annotations = left /\ after.facts = store.facts
    BY DEF Shape, StoreShape
  <2> HIDE DEF after
  <2>4. Mild(after)
    BY <2>2, <2>3 DEF Mild
  <2> QED  BY <2>1, <2>4, QuietWrite
<1> QED  BY <1>1, <1>2, <1>3, <1>5, <1>6, <1>7, <1>8, <1>9, <1>10, <1>11, QuietSet, QuietUpdate

\* The disjuncts of Step, by the name of the call.
StepOf(k, x) ==
  \/ x[1] = "ensureReified" /\ EnsureReifiedFact(k, x[2], x[3])
  \/ x[1] = "reify" /\ Reify(k, x[2], x[3])
  \/ x[1] = "annotate" /\ Annotate(k, x[2], x[3])
  \/ x[1] = "attributes" /\ ApplyAttributeSubmissions(k, x[2], x[3])
  \/ x[1] \notin {"ensureReified", "reify", "annotate", "attributes"} /\ Quiet(k)

LEMMA Steps ==
  ASSUME Shape, Tied, NEW k \in Clients, Step(k)
  PROVE  todo[k] # <<>> /\ form' = form /\ StepOf(k, Call(k)) /\ Told(Call(k))
<1>1. todo[k] # <<>> /\ form' = form
  BY DEF Step
<1> DEFINE x == Call(k)
<1> HIDE DEF x
<1>2. x = Call(k)
  BY DEF x
<1>3. \/ Now(k, "insertIndividual") /\ InsertIndividual(k, x[2], x[3])
      \/ Now(k, "changeClass") /\ ChangeIndividualClass(k, x[2], x[3], x[4])
      \/ Now(k, "attributes") /\ ApplyAttributeSubmissions(k, x[2], x[3])
      \/ Now(k, "set") /\ SetIndividualAttributeValue(k, x[2], x[3], x[4])
      \/ Now(k, "add") /\ AddIndividualAttributeValue(k, x[2])
      \/ Now(k, "remove") /\ RemoveIndividualAttributeValue(k, x[2])
      \/ Now(k, "insertAssertion") /\ InsertAssertion(k, x[2], x[3], x[4])
      \/ Now(k, "deleteAssertion") /\ DeleteAssertion(k, x[2])
      \/ Now(k, "updateRelation") /\ UpdateIndividualRelation(k, x[2], x[3], x[4])
      \/ Now(k, "deleteIndividual") /\ DeleteIndividual(k, x[2])
      \/ Now(k, "deleteIncoming") /\ DeleteIncoming(k, x[2])
      \/ Now(k, "dropMembers") /\ DropMembers(k, x[2])
      \/ Now(k, "ensureReified") /\ EnsureReifiedFact(k, x[2], x[3])
      \/ Now(k, "reify") /\ Reify(k, x[2], x[3])
      \/ Now(k, "annotate") /\ Annotate(k, x[2], x[3])
      \/ Now(k, "deleteAnnotation") /\ DeleteAnnotation(k, x[2])
  BY Zenon DEF Step, x
<1>4. \A op : Now(k, op) <=> x[1] = op
  BY <1>1, <1>2 DEF Now
<1>8. Told(x)
  <2>1. PICK S : todo \in [Clients -> Seq(S)]
    BY DEF Tied
  <2>2. Holds(todo[k], x)
    BY <1>1, <1>2, <2>1, HeadAndTail DEF Call
  <2> QED  BY <2>2 DEF Tied
<1>9. x[1] = "add" => Triple(x[2])
  BY <1>8 DEF Told
<1>5. CASE \/ x[1] = "ensureReified" /\ EnsureReifiedFact(k, x[2], x[3])
           \/ x[1] = "reify" /\ Reify(k, x[2], x[3])
           \/ x[1] = "annotate" /\ Annotate(k, x[2], x[3])
           \/ x[1] = "attributes" /\ ApplyAttributeSubmissions(k, x[2], x[3])
  BY <1>1, <1>2, <1>5, <1>8 DEF StepOf
<1>6. CASE /\ x[1] \in {"insertIndividual", "changeClass", "set", "add", "remove", "insertAssertion", "deleteAssertion",
                        "updateRelation", "deleteIndividual", "deleteIncoming", "dropMembers", "deleteAnnotation"}
           /\ Quiet(k)
  BY <1>1, <1>2, <1>6, <1>8 DEF StepOf
<1>7. CASE \/ x[1] = "insertIndividual" /\ InsertIndividual(k, x[2], x[3])
           \/ x[1] = "changeClass" /\ ChangeIndividualClass(k, x[2], x[3], x[4])
           \/ x[1] = "set" /\ SetIndividualAttributeValue(k, x[2], x[3], x[4])
           \/ x[1] = "add" /\ AddIndividualAttributeValue(k, x[2])
           \/ x[1] = "remove" /\ RemoveIndividualAttributeValue(k, x[2])
           \/ x[1] = "insertAssertion" /\ InsertAssertion(k, x[2], x[3], x[4])
           \/ x[1] = "deleteAssertion" /\ DeleteAssertion(k, x[2])
           \/ x[1] = "updateRelation" /\ UpdateIndividualRelation(k, x[2], x[3], x[4])
           \/ x[1] = "deleteIndividual" /\ DeleteIndividual(k, x[2])
           \/ x[1] = "deleteIncoming" /\ DeleteIncoming(k, x[2])
           \/ x[1] = "dropMembers" /\ DropMembers(k, x[2])
           \/ x[1] = "deleteAnnotation" /\ DeleteAnnotation(k, x[2])
  <2>1. Quiet(k)
    BY <1>7, <1>9, QuietCalls, Zenon
  <2> QED  BY <1>6, <1>7, <2>1
<1> QED  BY <1>3, <1>4, <1>5, <1>7, Zenon

\* The calls of the annotation service.
LEMMA EnsureReifiedGoes ==
  ASSUME Shape, NEW k, NEW f, NEW then, EnsureReifiedFact(k, f, then)
  PROVE  /\ store' = store /\ minted' = minted
         /\ \/ Throw(k) \/ Becomes(k, <<<<"reify", f, then>>>>) \/ (~then /\ Becomes(k, <<>>))
            \/ \E st \in Reifying({f}) : then /\ Becomes(k, <<<<"annotate", f, st.id>>>>)
<1>1. CASE Throw(k)
  BY <1>1, Goings
<1>2. CASE Becomes(k, <<<<"reify", f, then>>>>)
  BY <1>2, Goings
<1>3. ASSUME NEW st \in Reifying({f}), Becomes(k, IF then THEN <<<<"annotate", f, st.id>>>> ELSE <<>>)
      PROVE  /\ store' = store /\ minted' = minted
             /\ (then /\ Becomes(k, <<<<"annotate", f, st.id>>>>)) \/ (~then /\ Becomes(k, <<>>))
  <2>1. CASE then
    <3>1. Becomes(k, <<<<"annotate", f, st.id>>>>)
      BY <1>3, <2>1
    <3> QED  BY <2>1, <3>1, Goings
  <2>2. CASE ~then
    <3>1. Becomes(k, <<>>)
      BY <1>3, <2>2
    <3> QED  BY <2>2, <3>1, Goings
  <2> QED  BY <2>1, <2>2
<1> QED  BY <1>1, <1>2, <1>3 DEF EnsureReifiedFact

LEMMA ReifyGoes ==
  ASSUME Shape, NEW k, NEW f, NEW then, Reify(k, f, then)
  PROVE  LET new == [id |-> minted + 1, s |-> f[1], p |-> f[2], o |-> f[3]] IN
         /\ minted' = minted + 1 /\ store'.annotations = store.annotations /\ store'.facts = store.facts
         /\ store'.statements = store.statements \cup {new}
         /\ Goes(k, IF then THEN <<<<"annotate", f, minted'>>>> ELSE <<>>)
<1> DEFINE new == [id |-> minted + 1, s |-> f[1], p |-> f[2], o |-> f[3]]
           calls == IF then THEN <<<<"annotate", f, minted + 1>>>> ELSE <<>>
<1>1. WriteThen(k, [store EXCEPT !.statements = @ \cup {new}], calls, {}) /\ minted' = minted + 1
  BY DEF Reify
<1> HIDE DEF new, calls
<1>2. store' = [store EXCEPT !.statements = @ \cup {new}] /\ Goes(k, calls)
  BY <1>1, Goings
<1>3. /\ store'.annotations = store.annotations /\ store'.facts = store.facts
      /\ store'.statements = store.statements \cup {new}
  BY <1>2 DEF Shape, StoreShape
<1>4. calls = IF then THEN <<<<"annotate", f, minted'>>>> ELSE <<>>
  BY <1>1 DEF calls
<1> QED  BY <1>1, <1>2, <1>3, <1>4 DEF new

LEMMA AnnotateGoes ==
  ASSUME Shape, NEW k, NEW f, NEW on, Annotate(k, f, on)
  PROVE  /\ Goes(k, <<>>)
         /\ \/ Throw(k)
            \/ /\ minted' = minted + 1 /\ store'.statements = store.statements /\ store'.facts = store.facts
               /\ store'.annotations = store.annotations \cup {[id |-> minted + 1, on |-> on]}
<1>1. CASE Throw(k)
  BY <1>1, Goings
<1>2. CASE ~Throw(k)
  <2> DEFINE new == [id |-> minted + 1, on |-> on]
  <2>1. PICK mark : minted' = minted + 1 /\ WriteThen(k, [store EXCEPT !.annotations = @ \cup {new}], <<>>, mark)
    BY <1>2, Zenon DEF Annotate
  <2> HIDE DEF new
  <2>2. store' = [store EXCEPT !.annotations = @ \cup {new}] /\ Goes(k, <<>>)
    BY <2>1, Goings
  <2>3. /\ store'.statements = store.statements /\ store'.facts = store.facts
        /\ store'.annotations = store.annotations \cup {new}
    BY <2>2 DEF Shape, StoreShape
  <2> QED  BY <2>1, <2>2, <2>3 DEF new
<1> QED  BY <1>1, <1>2

LEMMA OnlyCall ==
  ASSUME NEW y
  PROVE  <<y>> \in Seq({y}) /\ \A x : Holds(<<y>>, x) <=> x = y
  BY DEF Holds

LEMMA StepTied ==
  ASSUME Shape, Tied, NEW k \in Clients, Step(k)
  PROVE  Tied'
<1>1. PICK x : x = Call(k)
  OBVIOUS
<1>2. todo[k] # <<>> /\ form' = form /\ StepOf(k, x)
  BY <1>1, Steps
<1>3. /\ minted \in Nat /\ \A a \in store.annotations : a.id \in 1..minted /\ a.on \in 1..minted
      /\ \A f \in store.facts : Triple(f)
  BY DEF Shape, Tied
<1>4. Told(x)
  BY <1>1, Steps
<1>5. ASSUME Throw(k) \/ Becomes(k, <<>>) PROVE Tied'
  BY <1>2, <1>5, QuietTied DEF Quiet
<1>6. CASE x[1] = "ensureReified" /\ EnsureReifiedFact(k, x[2], x[3])
  <2>1. ASSUME NEW y, Told(y), Becomes(k, <<y>>) PROVE Tied'
    <3>1. PICK calls : calls = <<y>>
      OBVIOUS
    <3>2. calls \in Seq({y}) /\ \A z : Holds(calls, z) => z = y
      BY <3>1, OnlyCall
    <3>3. store' = store /\ minted' = minted /\ Goes(k, calls)
      BY <2>1, <3>1, Goings
    <3>4. \A z : Holds(calls, z) => Told(z)'
      BY <2>1, <3>2, <3>3 DEF Told
    <3> QED  BY <1>2, <1>3, <3>2, <3>3, <3>4, GoesTied
  <2>2. Told(<<"reify", x[2], x[3]>>)
    BY DEF Told
  <2>3. \A st \in Reifying({x[2]}) : Told(<<"annotate", x[2], st.id>>)
    BY DEF Told, Shape, Reifying
  <2> QED  BY <1>5, <1>6, <2>1, <2>2, <2>3, EnsureReifiedGoes
<1>7. CASE x[1] = "reify" /\ Reify(k, x[2], x[3])
  <2>1. PICK calls : calls = IF x[3] THEN <<<<"annotate", x[2], minted'>>>> ELSE <<>>
    OBVIOUS
  <2>2. /\ minted' = minted + 1 /\ store'.annotations = store.annotations /\ store'.facts = store.facts
        /\ Goes(k, calls)
    BY <1>7, <2>1, ReifyGoes
  <2>3. PICK T : calls \in Seq(T) /\ \A y : Holds(calls, y) => y = <<"annotate", x[2], minted'>>
    <3>1. CASE x[3]
      BY <2>1, <3>1, OnlyCall
    <3>2. CASE ~x[3]
      BY <2>1, <3>2, NoMore
    <3> QED  BY <3>1, <3>2
  <2>4. minted' \in Nat /\ minted <= minted' /\ \A a \in store'.annotations : a.id \in 1..minted' /\ a.on \in 1..minted'
    BY <1>3, <2>2
  <2>5. \A y : Holds(calls, y) => Told(y)'
    <3> SUFFICES ASSUME NEW y, Holds(calls, y) PROVE Told(y)'
      OBVIOUS
    <3>1. y = <<"annotate", x[2], minted'>> /\ minted' \in 1..minted'
      BY <1>3, <2>2, <2>3
    <3>2. y[1] = "annotate" /\ y[3] = minted'
      BY <3>1
    <3> QED  BY <3>1, <3>2 DEF Told
  <2> QED  BY <1>2, <1>3, <2>2, <2>3, <2>4, <2>5, GoesTied
<1>8. CASE x[1] = "annotate" /\ Annotate(k, x[2], x[3])
  <2>1. CASE Throw(k)
    BY <1>5, <2>1
  <2>2. CASE /\ minted' = minted + 1 /\ store'.facts = store.facts
             /\ store'.annotations = store.annotations \cup {[id |-> minted + 1, on |-> x[3]]}
    <3>1. PICK none : none = <<>>
      OBVIOUS
    <3>2. none \in Seq({}) /\ (\A y : ~Holds(none, y)) /\ Goes(k, none)
      BY <1>8, <3>1, NoMore, AnnotateGoes
    <3>3. x[3] \in 1..minted
      BY <1>4, <1>8 DEF Told
    <3>4. \A a \in store'.annotations : a.id \in 1..minted' /\ a.on \in 1..minted'
      <4> SUFFICES ASSUME NEW a \in store'.annotations PROVE a.id \in 1..minted' /\ a.on \in 1..minted'
        OBVIOUS
      <4>1. CASE a \in store.annotations
        BY <1>3, <2>2, <4>1
      <4>2. CASE a = [id |-> minted + 1, on |-> x[3]]
        <5>1. a.id = minted + 1 /\ a.on = x[3]
          BY <4>2
        <5> QED  BY <1>3, <2>2, <3>3, <5>1
      <4> QED  BY <2>2, <4>1, <4>2
    <3>5. minted' \in Nat /\ minted <= minted'
      BY <1>3, <2>2
    <3> QED  BY <1>2, <1>3, <2>2, <3>2, <3>4, <3>5, GoesTied
  <2> QED  BY <1>8, <2>1, <2>2, AnnotateGoes
<1>9. CASE x[1] = "attributes" /\ ApplyAttributeSubmissions(k, x[2], x[3])
  <2>1. CASE Throw(k)
    BY <1>5, <2>1
  <2>2. CASE Becomes(k, x[3])
    <3>1. PICK T : x[3] \in Seq(T)
      BY <1>4, <1>9 DEF Told, IsList
    <3>2. \A y : Holds(x[3], y) => y[1] \in {"set", "add", "remove"} /\ (y[1] = "add" => Triple(y[2]))
      BY <1>4, <1>9 DEF Told
    <3>3. \A y : Holds(x[3], y) => Told(y)'
      BY <3>2 DEF Told
    <3>4. store' = store /\ minted' = minted /\ Goes(k, x[3])
      BY <2>2, Goings
    <3> QED  BY <1>2, <1>3, <3>1, <3>3, <3>4, GoesTied
  <2> QED  BY <1>9, <2>1, <2>2 DEF ApplyAttributeSubmissions
<1>10. CASE Quiet(k)
  BY <1>2, <1>10, QuietTied
<1> QED  BY <1>2, <1>6, <1>7, <1>8, <1>9, <1>10 DEF StepOf

LEMMA FailTied ==
  ASSUME Shape, Tied, NEW k \in Clients, Fail(k)
  PROVE  Tied'
<1>1. PICK none : none = <<>>
  OBVIOUS
<1>2. none \in Seq({}) /\ (\A y : ~Holds(none, y)) /\ Goes(k, none) /\ store' = store /\ minted' = minted /\ form' = form
  BY <1>1, NoMore, Goings
<1>3. /\ todo[k] # <<>> /\ minted \in Nat /\ \A a \in store.annotations : a.id \in 1..minted /\ a.on \in 1..minted
      /\ \A f \in store.facts : Triple(f)
  BY DEF Fail, Shape, Tied
<1> QED  BY <1>2, <1>3, GoesTied

\* An edit begins with calls that are told what they annotate.
LEMMA BeginTied ==
  ASSUME Shape, Tied, NEW k \in Clients, NEW T, NEW calls \in Seq(T), FormsFit',
         NEW add, NEW remove, NEW mayAdd, NEW mayRemove, Begin(k, calls, add, remove, mayAdd, mayRemove),
         \A x : Holds(calls, x) => Told(x)
  PROVE  Tied'
<1>1. PICK S : todo \in [Clients -> Seq(S)]
  BY DEF Tied
<1>2. /\ todo' = [todo EXCEPT ![k] = calls] /\ store' = store /\ minted' = minted
      /\ ended' = [ended EXCEPT ![k] = "well"]
  BY DEF Begin
<1>3. todo' \in [Clients -> Seq(S \cup T)] /\ todo'[k] = calls /\ \A j \in Clients : j # k => todo'[j] = todo[j]
  <2>1. calls \in Seq(S \cup T) /\ \A j \in Clients : todo[j] \in Seq(S \cup T)
    BY <1>1, SeqMonotonic
  <2> QED  BY <1>1, <1>2, <2>1
<1>4. (\A j \in Clients : \A x : Holds(todo[j], x) => Told(x))'
  <2>1. \A x : Told(x) => Told(x)'
    BY <1>2 DEF Told
  <2>2. \A j \in Clients : \A x : Holds(todo'[j], x) => Told(x)
    BY <1>3 DEF Tied
  <2> QED  BY <2>1, <2>2
<1>5. ended' \in [Clients -> {"well", "badly"}]
  BY <1>2 DEF Tied
<1>6. /\ \A a \in store'.annotations : a.id \in 1..minted' /\ a.on \in 1..minted'
      /\ \A f \in store'.facts : Triple(f)
  BY <1>2 DEF Tied
<1>7. (\E R : todo \in [Clients -> Seq(R)])'
  BY <1>3
<1> QED  BY <1>4, <1>5, <1>6, <1>7 DEF Tied

LEMMA OneTied ==
  ASSUME Shape, Tied, NEW k \in Clients, NEW x, x[1] \notin {"add", "annotate", "attributes"}, form' = form,
         NEW add, NEW remove, NEW mayAdd, NEW mayRemove, Begin(k, <<x>>, add, remove, mayAdd, mayRemove)
  PROVE  Tied'
<1>1. PICK calls : calls = <<x>>
  OBVIOUS
<1>2. calls \in Seq({x}) /\ \A y : Holds(calls, y) => y = x
  BY <1>1, OnlyCall
<1>3. Told(x)
  BY DEF Told
<1>4. FormsFit'
  BY DEF Tied, FormsFit
<1>5. Begin(k, calls, add, remove, mayAdd, mayRemove)
  BY <1>1
<1> QED  BY <1>2, <1>3, <1>4, <1>5, BeginTied

LEMMA TwoTied ==
  ASSUME Shape, Tied, NEW k \in Clients, NEW x, x[1] \notin {"add", "annotate", "attributes"}, form' = form,
         NEW y, y[1] \notin {"add", "annotate", "attributes"},
         NEW add, NEW remove, NEW mayAdd, NEW mayRemove, Begin(k, <<x, y>>, add, remove, mayAdd, mayRemove)
  PROVE  Tied'
<1>1. PICK calls : calls = <<x, y>>
  OBVIOUS
<1>2. calls \in Seq({x, y}) /\ \A z : Holds(calls, z) => z \in {x, y}
  BY <1>1 DEF Holds
<1>3. Told(x) /\ Told(y)
  BY DEF Told
<1>4. FormsFit'
  BY DEF Tied, FormsFit
<1>5. Begin(k, calls, add, remove, mayAdd, mayRemove)
  BY <1>1
<1> QED  BY <1>2, <1>3, <1>4, <1>5, BeginTied

LEMMA DrawTied ==
  ASSUME Shape, Tied, NEW k \in Clients, Draw(k)
  PROVE  Tied'
<1>1. form' = form
  BY DEF Draw
<1>2. ASSUME NEW i, NEW c, Begin(k, <<<<"insertIndividual", i, c>>>>, {}, {}, {}, {}) PROVE Tied'
  <2>1. <<"insertIndividual", i, c>>[1] \notin {"add", "annotate", "attributes"}
    OBVIOUS
  <2> QED  BY <1>1, <1>2, <2>1, OneTied
<1>3. ASSUME NEW i, NEW label, NEW o, NEW mayAdd, Begin(k, <<<<"insertAssertion", i, label, o>>>>, {}, {}, mayAdd, {})
      PROVE  Tied'
  <2>1. <<"insertAssertion", i, label, o>>[1] \notin {"add", "annotate", "attributes"}
    OBVIOUS
  <2> QED  BY <1>1, <1>3, <2>1, OneTied
<1>4. ASSUME NEW f, NEW label, NEW o, NEW mayAdd, NEW mayRemove,
             Begin(k, <<<<"ensureReified", f, FALSE>>, <<"updateRelation", f, label, o>>>>, {}, {}, mayAdd, mayRemove)
      PROVE  Tied'
  <2>1. PICK x, y : x = <<"ensureReified", f, FALSE>> /\ y = <<"updateRelation", f, label, o>>
    OBVIOUS
  <2>2. x[1] \notin {"add", "annotate", "attributes"} /\ y[1] \notin {"add", "annotate", "attributes"}
    BY <2>1
  <2> QED  BY <1>1, <1>4, <2>1, <2>2, TwoTied
<1>5. ASSUME NEW f, Begin(k, <<<<"deleteAssertion", f>>>>, {}, {f}, {}, {}) PROVE Tied'
  <2>1. <<"deleteAssertion", f>>[1] \notin {"add", "annotate", "attributes"}
    OBVIOUS
  <2> QED  BY <1>1, <1>5, <2>1, OneTied
<1> QED  BY <1>2, <1>3, <1>4, <1>5, Zenon DEF Draw

LEMMA DropTied ==
  ASSUME Shape, Tied, NEW k \in Clients, Drop(k)
  PROVE  Tied'
<1>1. form' = form
  BY DEF Drop
<1>2. ASSUME NEW i, NEW remove, Begin(k, <<<<"deleteIndividual", i>>>>, {}, remove, {}, {}) PROVE Tied'
  <2>1. <<"deleteIndividual", i>>[1] \notin {"add", "annotate", "attributes"}
    OBVIOUS
  <2> QED  BY <1>1, <1>2, <2>1, OneTied
<1>3. ASSUME NEW i, NEW remove, Begin(k, <<<<"deleteIndividual", i>>, <<"deleteIncoming", i>>>>, {}, remove, {}, {})
      PROVE  Tied'
  <2>1. PICK x, y : x = <<"deleteIndividual", i>> /\ y = <<"deleteIncoming", i>>
    OBVIOUS
  <2>2. x[1] \notin {"add", "annotate", "attributes"} /\ y[1] \notin {"add", "annotate", "attributes"}
    BY <2>1
  <2> QED  BY <1>1, <1>3, <2>1, <2>2, TwoTied
<1>4. ASSUME NEW c, Begin(k, <<<<"dropMembers", c>>>>, {}, {}, {}, Facts) PROVE Tied'
  <2>1. <<"dropMembers", c>>[1] \notin {"add", "annotate", "attributes"}
    OBVIOUS
  <2> QED  BY <1>1, <1>4, <2>1, OneTied
<1> QED  BY <1>2, <1>3, <1>4, Zenon DEF Drop

LEMMA AnnotatesTied ==
  ASSUME Shape, Tied, NEW k \in Clients, NEW f, AnnotateFact(k, f) \/ RemoveAnnotation(k, f)
  PROVE  Tied'
<1>1. <<"ensureReified", f, TRUE>>[1] \notin {"add", "annotate", "attributes"}
  OBVIOUS
<1>2. <<"deleteAnnotation", f>>[1] \notin {"add", "annotate", "attributes"}
  OBVIOUS
<1> QED  BY <1>1, <1>2, OneTied DEF AnnotateFact, RemoveAnnotation

LEMMA OpenTied ==
  ASSUME Tied, NEW k \in Clients, NEW i \in Individuals, NEW c \in Classes, OpenForm(k, i, c)
  PROVE  Tied'
<1>1. PICK new : new = [of |-> i, class |-> c, base |-> store.facts \cap AllFacts({i}, FieldsOf[c])]
  OBVIOUS
<1>2. form' = [form EXCEPT ![k] = {new}] /\ UNCHANGED <<store, todo, ended, minted>>
  BY <1>1 DEF OpenForm
<1>3. new.of = i /\ new.class = c /\ new.base \subseteq AllFacts({i}, FieldsOf[c])
  BY <1>1
<1>4. FormsFit'
  <2>1. form = [j \in Clients |-> form[j]]
    BY DEF Tied, FormsFit
  <2>2. form' = [j \in Clients |-> form'[j]] /\ form'[k] = {new} /\ \A j \in Clients : j # k => form'[j] = form[j]
    BY <1>2, <2>1
  <2> QED  BY <1>3, <2>2 DEF Tied, FormsFit
<1> QED  BY <1>2, <1>4 DEF Tied, Told

LEMMA ValueCallKind ==
  ASSUME NEW x, NEW i, NEW p, NEW added, NEW removed, ValueCall(x, i, p, added, removed)
  PROVE  /\ x[1] \in {"set", "add", "remove", "insertAssertion", "deleteAssertion"}
         /\ p \notin Relations => x[1] \in {"set", "add", "remove"}
         /\ x[1] = "add" => x[2] \in added
<1>1. CASE \E v : x = <<"set", i, p, v>>
  BY <1>1
<1>2. ASSUME NEW f, (f \in added /\ x = <<"add", f>>) \/ x = <<"remove", f>>
      PROVE  x[1] \in {"set", "add", "remove"} /\ (x[1] = "add" => x[2] \in added)
  BY <1>2
<1>3. ASSUME NEW f, x = <<"insertAssertion", i, LabelOf[p], f[3]>> \/ x = <<"deleteAssertion", f>>
      PROVE  x[1] \in {"insertAssertion", "deleteAssertion"}
  BY <1>3
<1>4. \/ \E v : x = <<"set", i, p, v>>
      \/ \E f : (f \in added /\ x = <<"add", f>>) \/ x = <<"remove", f>>
      \/ p \in Relations /\ \E f : x = <<"insertAssertion", i, LabelOf[p], f[3]>> \/ x = <<"deleteAssertion", f>>
  BY Zenon DEF ValueCall
<1> QED  BY <1>1, <1>2, <1>3, <1>4

\* A form's calls write values: a list of them, with those of attributes inside one.
LEMMA SubmitCalls ==
  ASSUME FormsFit, NEW k \in Clients, NEW opened \in form[k], NEW c \in Classes,
         NEW wanted \in Changes(opened), SubmitForm(k, opened, wanted, c)
  PROVE  \E calls, add, remove, T :
           /\ calls \in Seq(T) /\ Begin(k, calls, add, remove, {}, {}) /\ FormsFit'
           /\ \A x : Holds(calls, x) => Told(x)
<1> DEFINE i == opened.of
           dropped == IF c = opened.class THEN {} ELSE {f[2] : f \in opened.base} \ FieldsOf[c]
           kept == FieldsOf[opened.class] \ dropped
           attributes == Submissions(i, kept \ Relations, opened.base, wanted)
           relations == Submissions(i, kept \cap Relations, opened.base, wanted)
           set == AllFacts({i}, Single)
           free == AllFacts({i}, kept) \ set
           first == IF c = opened.class THEN <<>> ELSE <<<<"changeClass", i, c, dropped>>>>
           second == IF attributes = <<>> THEN <<>> ELSE <<<<"attributes", i, attributes>>>>
           add == (wanted \ opened.base) \cap free
           remove == ((opened.base \ wanted) \cap free) \cup AllFacts({i}, dropped \ Single)
<1>1. Begin(k, first \o second \o relations, add, remove, {}, {}) /\ form' = [form EXCEPT ![k] = {}]
  BY Zenon DEF SubmitForm
<1>2. opened.class \in Classes /\ opened.base \subseteq AllFacts({i}, FieldsOf[opened.class])
      /\ wanted \subseteq AllFacts({i}, FieldsOf[opened.class])
  BY DEF FormsFit, Changes
<1>3. kept \subseteq Fields
  BY <1>2, FactEditsAssumption
<1>4. opened.base \in SUBSET Facts /\ wanted \in SUBSET Facts /\ \A f \in wanted : f[1] = i
  BY <1>2 DEF AllFacts
<1>21. \A f \in wanted : Triple(f)
  BY <1>4 DEF Facts, Triple
<1>5. PICK P \in SUBSET Fields : P = kept
  BY <1>3
<1>6. PICK sub : sub = i
  OBVIOUS
<1> HIDE DEF i, dropped, kept, free, set
<1>7. /\ \E T : attributes \in Seq(T)
      /\ \A x : Holds(attributes, x) => x[1] \in {"set", "add", "remove"} /\ (x[1] = "add" => Triple(x[2]))
  <2>1. PICK Q \in SUBSET Fields : Q = P \ Relations
    OBVIOUS
  <2>2. /\ \E T : attributes \in Seq(T)
        /\ \A x : Holds(attributes, x) <=> \E p \in Q : Holds(CallsFor(i, p, wanted \ opened.base, opened.base \ wanted), x)
    <3>1. attributes = Submissions(i, Q, opened.base, wanted)
      BY <1>5, <2>1
    <3> HIDE DEF attributes
    <3> QED  BY <1>4, <3>1, FormLists
  <2>3. \A p \in Q : \A x : Holds(CallsFor(i, p, wanted \ opened.base, opened.base \ wanted), x) =>
                            ValueCall(x, i, p, wanted \ opened.base, opened.base \ wanted)
    <3>1. wanted \ opened.base \subseteq Facts /\ opened.base \ wanted \subseteq Facts
          /\ \A f \in wanted \ opened.base : f[1] = i
      BY <1>4
    <3> QED  BY <3>1, Calls
  <2>4. \A p \in Q : \A x, A, R : ValueCall(x, i, p, A, R) =>
                                 x[1] \in {"set", "add", "remove"} /\ (x[1] = "add" => x[2] \in A)
    BY <2>1, ValueCallKind
  <2>5. \A f \in wanted \ opened.base : Triple(f)
    BY <1>21
  <2> HIDE DEF attributes
  <2> QED  BY <2>2, <2>3, <2>4, <2>5
<1>8. /\ \E T : relations \in Seq(T)
      /\ \A x : Holds(relations, x) => x[1] \notin {"annotate", "attributes"} /\ (x[1] = "add" => Triple(x[2]))
  <2>1. PICK Q \in SUBSET Fields : Q = P \cap Relations
    OBVIOUS
  <2>2. /\ \E T : relations \in Seq(T)
        /\ \A x : Holds(relations, x) <=> \E p \in Q : Holds(CallsFor(i, p, wanted \ opened.base, opened.base \ wanted), x)
    <3>1. relations = Submissions(i, Q, opened.base, wanted)
      BY <1>5, <2>1
    <3> HIDE DEF relations
    <3> QED  BY <1>4, <3>1, FormLists
  <2>3. \A p \in Q : \A x : Holds(CallsFor(i, p, wanted \ opened.base, opened.base \ wanted), x) =>
                            ValueCall(x, i, p, wanted \ opened.base, opened.base \ wanted)
    <3>1. wanted \ opened.base \subseteq Facts /\ opened.base \ wanted \subseteq Facts
          /\ \A f \in wanted \ opened.base : f[1] = i
      BY <1>4
    <3> QED  BY <3>1, Calls
  <2>4. \A p, x, A, R : ValueCall(x, i, p, A, R) =>
                         x[1] \notin {"annotate", "attributes"} /\ (x[1] = "add" => x[2] \in A)
    BY ValueCallKind
  <2>5. \A f \in wanted \ opened.base : Triple(f)
    BY <1>21
  <2> HIDE DEF relations
  <2> QED  BY <2>2, <2>3, <2>4, <2>5
<1>9. PICK class, values : class = <<"changeClass", i, c, dropped>> /\ values = <<"attributes", i, attributes>>
  OBVIOUS
<1>10. Told(class) /\ Told(values)
  <2>1. class[1] = "changeClass" /\ values[1] = "attributes" /\ values[3] = attributes
    BY <1>9
  <2> HIDE DEF attributes
  <2> QED  BY <1>7, <2>1 DEF Told, IsList
<1>11. (first = <<>> \/ first = <<class>>) /\ (second = <<>> \/ second = <<values>>)
  BY <1>9
<1> HIDE DEF attributes, relations, first, second, add, remove
<1>12. PICK q1, q2, q3 : q1 = first /\ q2 = second /\ q3 = relations
  OBVIOUS
<1>13. PICK S3 : q3 \in Seq(S3)
  BY <1>8, <1>12
<1>14. PICK T : T = {class, values} \cup S3
  OBVIOUS
<1>15. /\ q1 \in Seq(T) /\ q2 \in Seq(T) /\ q3 \in Seq(T)
       /\ \A x : Holds(q1, x) => x = class
       /\ \A x : Holds(q2, x) => x = values
  <2>1. <<>> \in Seq(T) /\ <<class>> \in Seq(T) /\ <<values>> \in Seq(T)
    BY <1>14
  <2>2. q3 \in Seq(T)
    BY <1>13, <1>14, SeqMonotonic
  <2>3. \A y : /\ y = <<>> => \A x : ~Holds(y, x)
               /\ \A z : y = <<z>> => \A x : Holds(y, x) => x = z
    BY NoMore, OnlyCall
  <2> QED  BY <1>11, <1>12, <2>1, <2>2, <2>3
<1>16. PICK q12, calls : q12 = q1 \o q2 /\ calls = q12 \o q3
  OBVIOUS
<1>17. calls \in Seq(T) /\ \A x : Holds(calls, x) <=> Holds(q1, x) \/ Holds(q2, x) \/ Holds(q3, x)
  <2>1. q12 \in Seq(T) /\ \A x : Holds(q12, x) <=> Holds(q1, x) \/ Holds(q2, x)
    BY <1>15, <1>16, JoinedLists
  <2>2. q12 \o q3 \in Seq(T) /\ \A x : Holds(q12 \o q3, x) <=> Holds(q12, x) \/ Holds(q3, x)
    BY <1>15, <2>1, JoinedLists
  <2> QED  BY <1>16, <2>1, <2>2
<1>18. \A x : Holds(calls, x) => Told(x)
  <2>1. \A x : Holds(q3, x) => Told(x)
    BY <1>8, <1>12 DEF Told
  <2> QED  BY <1>10, <1>15, <1>17, <2>1
<1>19. FormsFit'
  <2>1. form = [j \in Clients |-> form[j]]
    BY DEF FormsFit
  <2>2. form' = [j \in Clients |-> form'[j]] /\ form'[k] = {} /\ \A j \in Clients : j # k => form'[j] = form[j]
    BY <1>1, <2>1
  <2> QED  BY <2>2 DEF FormsFit
<1>20. Begin(k, calls, add, remove, {}, {})
  BY <1>1, <1>12, <1>16
<1> QED  BY <1>17, <1>18, <1>19, <1>20

LEMMA EditTied ==
  ASSUME Shape, Tied, NEW k \in Clients, Edit(k)
  PROVE  Tied'
<1>1. ASSUME NEW opened \in form[k], NEW c \in Classes, NEW wanted \in Changes(opened), SubmitForm(k, opened, wanted, c)
      PROVE  Tied'
  <2>1. PICK none : none = {}
    OBVIOUS
  <2>2. PICK calls, add, remove, T : /\ calls \in Seq(T) /\ Begin(k, calls, add, remove, none, none) /\ FormsFit'
                                     /\ \A x : Holds(calls, x) => Told(x)
    BY <1>1, <2>1, SubmitCalls DEF Tied
  <2> QED  BY <2>2, BeginTied
<1> QED  BY <1>1, OpenTied, DrawTied, DropTied, AnnotatesTied DEF Edit

LEMMA TiedAtFirst ==
  ASSUME Init
  PROVE  Tied
<1>1. /\ store = Start /\ todo = [k \in Clients |-> <<>>] /\ form = [k \in Clients |-> {}]
      /\ ended = [k \in Clients |-> "well"]
      /\ minted = Cardinality(Start.statements) + Cardinality(Start.annotations)
  BY DEF Init
<1>2. \A a \in store.annotations : a.id \in 1..minted /\ a.on \in 1..minted
  <2> SUFFICES ASSUME NEW a \in store.annotations PROVE a.id \in 1..minted /\ a.on \in 1..minted
    OBVIOUS
  <2>1. PICK st \in Start.statements : st.id = a.on
    BY <1>1, FactEditsAssumption
  <2> QED  BY <1>1, <2>1, FactEditsAssumption
<1>3. todo \in [Clients -> Seq({})] /\ \A k \in Clients : todo[k] = <<>>
  BY <1>1
<1>4. \A k \in Clients : \A x : Holds(todo[k], x) => Told(x)
  BY <1>3, NoMore
<1>5. FormsFit
  BY <1>1 DEF FormsFit
<1>6. ended \in [Clients -> {"well", "badly"}]
  BY <1>1
<1>7. \A f \in store.facts : Triple(f)
  <2>1. store.facts \subseteq Facts
    BY <1>1, FactEditsAssumption
  <2> QED  BY <2>1 DEF Facts, Triple
<1> QED  BY <1>2, <1>3, <1>4, <1>5, <1>6, <1>7 DEF Tied

LEMMA TiedNext == ASSUME Shape, Tied, [TableNext]_all PROVE Tied'
<1>1. ASSUME UNCHANGED vars PROVE Tied'
  BY <1>1 DEF vars, Tied, FormsFit, Told
<1>2. CASE UNCHANGED all \/ (\E facts : NewTable(facts)) \/ Answer \/ Arrive \/ AddSettles \/ RemoveSettles
  BY <1>1, <1>2 DEF all, NewTable, Answer, Arrive, AddSettles, RemoveSettles
<1>3. ASSUME NEW f, AddEntry(f) \/ \E n : RemoveEntry(f, n) PROVE Tied'
  <2>1. \E x : AnnotateFact(Adder, x) \/ RemoveAnnotation(Remover, x)
    BY <1>3 DEF AddEntry, RemoveEntry
  <2> QED  BY <2>1, AnnotatesTied, PageClients
<1>4. ASSUME NEW k \in Clients, Step(k) \/ Fail(k) \/ Edit(k) PROVE Tied'
  BY <1>4, StepTied, FailTied, EditTied
<1> QED  BY <1>2, <1>3, <1>4 DEF TableNext, Requests, Others

\* What is left of the request that adds x, or removes it.
AddCalls(x) == {<<>>, <<<<"ensureReified", x.fact, TRUE>>>>, <<<<"reify", x.fact, TRUE>>>>}
                 \cup {<<<<"annotate", x.fact, on>>>> : on \in 1..minted}
RemoveCalls(x) == {<<>>, <<<<"deleteAnnotation", x.id>>>>}

AtWork ==
  /\ load.at \in {"sent", "answered", "arrived"}
  /\ \A f, g \in table : f = g
  /\ \A x, y \in adding : x = y
  /\ \A x, y \in removing : x = y
  /\ adding = {} => todo[Adder] = <<>>
  /\ removing = {} => todo[Remover] = <<>>
  /\ \A x \in adding :
       /\ x = [fact |-> x.fact, id |-> x.id] /\ x.id \in 0..minted /\ todo[Adder] \in AddCalls(x)
       /\ todo[Adder] # <<>> => x.id = Pending
       /\ todo[Adder] = <<>> /\ ended[Adder] = "well" => x.id # Pending
  /\ \A x \in removing : todo[Remover] \in RemoveCalls(x)

\* What a request of the page does.
AddStep(x) ==
  \/ store' = store /\ minted' = minted /\ todo'[Adder] = <<>> /\ ended'[Adder] = "badly"
  \/ /\ todo[Adder] = <<<<"ensureReified", x.fact, TRUE>>>> /\ store' = store /\ minted' = minted
     /\ \/ todo'[Adder] = <<<<"reify", x.fact, TRUE>>>>
        \/ \E st \in Reifying({x.fact}) : todo'[Adder] = <<<<"annotate", x.fact, st.id>>>>
  \/ /\ todo[Adder] = <<<<"reify", x.fact, TRUE>>>> /\ minted' = minted + 1
     /\ store'.annotations = store.annotations
     /\ store'.statements = store.statements
                              \cup {[id |-> minted + 1, s |-> x.fact[1], p |-> x.fact[2], o |-> x.fact[3]]}
     /\ \/ todo'[Adder] = <<<<"annotate", x.fact, minted'>>>>
        \/ todo'[Adder] = <<>> /\ ended'[Adder] = "badly"
  \/ \E on : /\ todo[Adder] = <<<<"annotate", x.fact, on>>>> /\ minted' = minted + 1
             /\ store'.statements = store.statements
             /\ store'.annotations = store.annotations \cup {[id |-> minted + 1, on |-> on]}
             /\ todo'[Adder] = <<>>

RemoveStep(x) ==
  /\ minted' = minted /\ todo'[Remover] = <<>>
  /\ \/ store' = store /\ ended'[Remover] = "badly"
     \/ /\ store'.statements = store.statements
        /\ store'.annotations = {a \in store.annotations : a.id # x.id}

\* A request takes from nobody else what is left to do.
Apart(k) == \A j \in Clients : j # k => todo'[j] = todo[j] /\ ended'[j] = ended[j]

LEMMA GoesApart ==
  ASSUME Tied, NEW k \in Clients, NEW calls, Goes(k, calls)
  PROVE  /\ Apart(k)
         /\ \/ todo'[k] = calls \o Tail(todo[k]) /\ ended'[k] = ended[k]
            \/ todo'[k] = <<>> /\ ended'[k] = "badly"
  BY DEF Tied, Goes, Apart

LEMMA Lone ==
  ASSUME Tied, NEW k \in Clients, NEW y, todo[k] = <<y>>, NEW calls, NEW T, calls \in Seq(T), Goes(k, calls)
  PROVE  Apart(k) /\ ((todo'[k] = calls /\ ended'[k] = ended[k]) \/ (todo'[k] = <<>> /\ ended'[k] = "badly"))
<1>1. Tail(todo[k]) = <<>>
  BY SMT
<1>2. calls \o <<>> = calls
  BY ConcatEmptySeq
<1> QED  BY <1>1, <1>2, GoesApart

LEMMA FailGoes ==
  ASSUME Tied, NEW k \in Clients, Fail(k)
  PROVE  Apart(k) /\ store' = store /\ minted' = minted /\ todo'[k] = <<>> /\ ended'[k] = "badly"
  BY DEF Fail, Breaks, Tied, Apart

LEMMA ThrowGoes ==
  ASSUME Tied, NEW k \in Clients, Throw(k)
  PROVE  Apart(k) /\ store' = store /\ minted' = minted /\ todo'[k] = <<>> /\ ended'[k] = "badly"
  BY DEF Throw, Breaks, Tied, Apart

LEMMA AddSteps ==
  ASSUME Shape, Tied, NEW x, todo[Adder] \in AddCalls(x), Step(Adder) \/ Fail(Adder)
  PROVE  AddStep(x) /\ Apart(Adder)
<1>1. Adder \in Clients
  BY PageClients
<1>2. CASE Fail(Adder)
  BY <1>1, <1>2, FailGoes DEF AddStep
<1>3. ASSUME Throw(Adder) PROVE AddStep(x) /\ Apart(Adder)
  BY <1>1, <1>3, ThrowGoes DEF AddStep
<1>4. CASE Step(Adder)
  <2>1. PICK call : call = Call(Adder)
    OBVIOUS
  <2>2. todo[Adder] # <<>> /\ StepOf(Adder, call)
    BY <1>1, <1>4, <2>1, Steps
  <2>3. \A y : todo[Adder] = <<y>> => call = y
    BY <2>1 DEF Call
  <2>4. CASE todo[Adder] = <<<<"ensureReified", x.fact, TRUE>>>>
    <3>1. call[1] = "ensureReified" /\ call[2] = x.fact /\ call[3] = TRUE
      <4>1. PICK yes : yes = TRUE
        OBVIOUS
      <4>2. call = <<"ensureReified", x.fact, yes>>
        BY <2>3, <2>4, <4>1, Zenon
      <4> QED  BY ONLY <4>1, <4>2
    <3>2. EnsureReifiedFact(Adder, x.fact, TRUE)
      BY <2>2, <3>1 DEF StepOf
    <3>3. store' = store /\ minted' = minted
      BY <3>2, EnsureReifiedGoes
    <3>4. PICK y : /\ Becomes(Adder, <<y>>) \/ Throw(Adder)
                   /\ y = <<"reify", x.fact, TRUE>> \/ \E st \in Reifying({x.fact}) : y = <<"annotate", x.fact, st.id>>
      BY <3>2, EnsureReifiedGoes
    <3>5. CASE Becomes(Adder, <<y>>)
      <4>1. PICK calls : calls = <<y>>
        OBVIOUS
      <4>2. Goes(Adder, calls) /\ calls \in Seq({y})
        BY <3>5, <4>1, Goings, OnlyCall
      <4>3. Apart(Adder) /\ (todo'[Adder] = calls \/ (todo'[Adder] = <<>> /\ ended'[Adder] = "badly"))
        BY <1>1, <2>4, <4>2, Lone
      <4> QED  BY <2>4, <3>3, <3>4, <4>1, <4>3 DEF AddStep
    <3> QED  BY <1>3, <3>4, <3>5
  <2>5. CASE todo[Adder] = <<<<"reify", x.fact, TRUE>>>>
    <3>1. call[1] = "reify" /\ call[2] = x.fact /\ call[3] = TRUE
      <4>1. PICK yes : yes = TRUE
        OBVIOUS
      <4>2. call = <<"reify", x.fact, yes>>
        BY <2>3, <2>5, <4>1, Zenon
      <4> QED  BY ONLY <4>1, <4>2
    <3>2. Reify(Adder, x.fact, TRUE)
      BY <2>2, <3>1 DEF StepOf
    <3>3. PICK y, calls : y = <<"annotate", x.fact, minted'>> /\ calls = <<y>>
      OBVIOUS
    <3>4. /\ minted' = minted + 1 /\ store'.annotations = store.annotations
          /\ store'.statements = store.statements
                                   \cup {[id |-> minted + 1, s |-> x.fact[1], p |-> x.fact[2], o |-> x.fact[3]]}
          /\ Goes(Adder, calls)
      BY <3>2, <3>3, ReifyGoes
    <3>5. Apart(Adder) /\ (todo'[Adder] = calls \/ (todo'[Adder] = <<>> /\ ended'[Adder] = "badly"))
      <4>1. calls \in Seq({y})
        BY <3>3, OnlyCall
      <4> QED  BY <1>1, <2>5, <3>4, <4>1, Lone
    <3> QED  BY <2>5, <3>3, <3>4, <3>5 DEF AddStep
  <2>6. ASSUME NEW on, todo[Adder] = <<<<"annotate", x.fact, on>>>> PROVE AddStep(x) /\ Apart(Adder)
    <3>1. call[1] = "annotate" /\ call[2] = x.fact /\ call[3] = on
      BY <2>3, <2>6
    <3>2. Annotate(Adder, x.fact, on)
      BY <2>2, <3>1 DEF StepOf
    <3>3. PICK none : none = <<>>
      OBVIOUS
    <3>4. Apart(Adder) /\ todo'[Adder] = <<>>
      <4>1. Goes(Adder, none) /\ none \in Seq({})
        BY <3>2, <3>3, AnnotateGoes, NoMore
      <4> QED  BY <1>1, <2>6, <3>3, <4>1, Lone
    <3>5. CASE Throw(Adder)
      BY <1>3, <3>5
    <3>6. CASE /\ minted' = minted + 1 /\ store'.statements = store.statements
               /\ store'.annotations = store.annotations \cup {[id |-> minted + 1, on |-> on]}
      BY <2>6, <3>4, <3>6 DEF AddStep
    <3> QED  BY <3>2, <3>5, <3>6, AnnotateGoes
  <2> QED  BY <2>2, <2>4, <2>5, <2>6 DEF AddCalls
<1> QED  BY <1>2, <1>4

LEMMA RemoveSteps ==
  ASSUME Shape, Tied, NEW x, todo[Remover] \in RemoveCalls(x), Step(Remover) \/ Fail(Remover)
  PROVE  RemoveStep(x) /\ Apart(Remover)
<1>1. Remover \in Clients
  BY PageClients
<1>2. CASE Fail(Remover)
  BY <1>1, <1>2, FailGoes DEF RemoveStep
<1>3. CASE Step(Remover)
  <2>1. todo[Remover] = <<<<"deleteAnnotation", x.id>>>>
    BY <1>1, <1>3, Steps DEF RemoveCalls
  <2>2. Call(Remover) = <<"deleteAnnotation", x.id>>
    BY <2>1 DEF Call
  <2>3. Call(Remover)[1] = "deleteAnnotation" /\ Call(Remover)[2] = x.id
    BY <2>2
  <2>4. DeleteAnnotation(Remover, x.id)
    <3>1. \A op : Now(Remover, op) <=> op = "deleteAnnotation"
      BY <2>1, <2>3 DEF Now
    <3>2. Now(Remover, "deleteAnnotation") /\ DeleteAnnotation(Remover, Call(Remover)[2])
      BY <1>3, <3>1, Zenon DEF Step
    <3> QED  BY <2>3, <3>2
  <2> DEFINE left == {a \in store.annotations : a.id # x.id}
  <2>5. Write(Remover, [store EXCEPT !.annotations = left])
    BY <2>4 DEF DeleteAnnotation
  <2> HIDE DEF left
  <2>6. PICK none : none = <<>>
    OBVIOUS
  <2>7. store' = [store EXCEPT !.annotations = left] /\ minted' = minted /\ Goes(Remover, none) /\ none \in Seq({})
    BY <2>5, <2>6, Goings, NoMore
  <2>8. store'.statements = store.statements /\ store'.annotations = left
    BY <2>7 DEF Shape, StoreShape
  <2>9. Apart(Remover) /\ todo'[Remover] = <<>>
    BY <1>1, <2>1, <2>6, <2>7, Lone
  <2> QED  BY <2>7, <2>8, <2>9 DEF RemoveStep, left
<1> QED  BY <1>2, <1>3

LEMMA StepApart ==
  ASSUME Shape, Tied, NEW k \in Clients, Step(k) \/ Fail(k)
  PROVE  Apart(k) /\ minted' \in Nat /\ minted <= minted'
<1>1. minted \in Nat
  BY DEF Shape
<1>2. CASE Fail(k)
  BY <1>1, <1>2, FailGoes
<1>3. CASE Step(k)
  <2>1. PICK x : x = Call(k)
    OBVIOUS
  <2>2. StepOf(k, x)
    BY <1>3, <2>1, Steps
  <2>3. CASE EnsureReifiedFact(k, x[2], x[3])
    <3>1. minted' = minted /\ \E calls : Throw(k) \/ Becomes(k, calls)
      BY <2>3, EnsureReifiedGoes
    <3>2. PICK calls : Goes(k, calls)
      BY <3>1, Goings
    <3> QED  BY <1>1, <3>1, <3>2, GoesApart
  <2>4. CASE Reify(k, x[2], x[3])
    <3>1. minted' = minted + 1 /\ Goes(k, IF x[3] THEN <<<<"annotate", x[2], minted'>>>> ELSE <<>>)
      BY <2>4, ReifyGoes
    <3>2. Apart(k)
      BY <3>1, GoesApart
    <3> QED  BY <1>1, <3>1, <3>2
  <2>5. CASE Annotate(k, x[2], x[3])
    <3>1. minted' = minted \/ minted' = minted + 1
      BY <2>5, AnnotateGoes, Goings
    <3> QED  BY <1>1, <2>5, <3>1, AnnotateGoes, GoesApart
  <2>6. CASE ApplyAttributeSubmissions(k, x[2], x[3])
    <3>1. Throw(k) \/ Becomes(k, x[3])
      BY <2>6 DEF ApplyAttributeSubmissions
    <3>2. minted' = minted /\ \E calls : Goes(k, calls)
      BY <3>1, Goings
    <3> QED  BY <1>1, <3>2, GoesApart
  <2>7. CASE Quiet(k)
    <3>1. minted' = minted /\ Goes(k, <<>>)
      BY <2>7, Goings DEF Quiet
    <3> QED  BY <1>1, <3>1, GoesApart
  <2> QED  BY <2>2, <2>3, <2>4, <2>5, <2>6, <2>7 DEF StepOf
<1> QED  BY <1>2, <1>3

LEMMA EditApart ==
  ASSUME Tied, NEW k \in Clients, Edit(k)
  PROVE  Apart(k) /\ store' = store /\ minted' = minted
<1> DEFINE Q == Apart(k) /\ store' = store /\ minted' = minted
<1>1. ASSUME NEW calls, NEW add, NEW remove, NEW mayAdd, NEW mayRemove,
             Begin(k, calls, add, remove, mayAdd, mayRemove)
      PROVE  Q
  BY <1>1 DEF Begin, Tied, Apart
<1>2. ASSUME NEW i, NEW c, OpenForm(k, i, c) PROVE Q
  BY <1>2 DEF OpenForm, Tied, Apart
<1> HIDE DEF Q
<1>3. ASSUME NEW opened, NEW wanted, NEW c, SubmitForm(k, opened, wanted, c) PROVE Q
  BY <1>1, <1>3, Zenon DEF SubmitForm
<1>4. ASSUME Draw(k) PROVE Q
  BY <1>1, <1>4, Zenon DEF Draw
<1>5. ASSUME Drop(k) PROVE Q
  BY <1>1, <1>5, Zenon DEF Drop
<1>6. ASSUME NEW f, AnnotateFact(k, f) \/ RemoveAnnotation(k, f) PROVE Q
  BY <1>1, <1>6 DEF AnnotateFact, RemoveAnnotation
<1>7. Q
  BY <1>2, <1>3, <1>4, <1>5, <1>6 DEF Edit
<1> QED  BY <1>7 DEF Q

\* The clients of the page, when somebody else acts, and when it does.
LEMMA PagesApart == Adder \in Clients /\ Remover \in Clients /\ Adder # Remover
  BY PageClients

\* What the page begins: the request of one entry.
LEMMA AddBegins ==
  ASSUME Tied, NEW f, AnnotateFact(Adder, f)
  PROVE  /\ UNCHANGED <<store, minted>> /\ Apart(Adder)
         /\ todo'[Adder] = <<<<"ensureReified", f, TRUE>>>> /\ ended'[Adder] = "well"
  BY PagesApart DEF AnnotateFact, Begin, Tied, Apart

LEMMA RemoveBegins ==
  ASSUME Tied, NEW id, RemoveAnnotation(Remover, id)
  PROVE  /\ UNCHANGED <<store, minted>> /\ Apart(Remover)
         /\ todo'[Remover] = <<<<"deleteAnnotation", id>>>> /\ ended'[Remover] = "well"
  BY PagesApart DEF RemoveAnnotation, Begin, Tied, Apart

LEMMA CallsKept ==
  ASSUME minted \in Nat, minted' \in Nat, minted <= minted'
  PROVE  \A x : AddCalls(x) \subseteq AddCalls(x)'
<1>1. 1..minted \subseteq 1..minted'
  OBVIOUS
<1> QED  BY <1>1, Zenon DEF AddCalls

LEMMA Kept ==
  ASSUME AtWork, UNCHANGED <<table, adding, removing>>, minted \in Nat, minted' \in Nat, minted <= minted',
         load'.at \in {"sent", "answered", "arrived"},
         todo'[Adder] = todo[Adder], ended'[Adder] = ended[Adder], todo'[Remover] = todo[Remover]
  PROVE  AtWork'
<1>1. \A x : AddCalls(x) \subseteq AddCalls(x)' /\ RemoveCalls(x)' = RemoveCalls(x)
  BY CallsKept DEF RemoveCalls
<1>2. \A x \in adding : x.id \in 0..minted'
  BY DEF AtWork
<1> QED  BY <1>1, <1>2 DEF AtWork

LEMMA NotArrived ==
  ASSUME Shape, AtWork, (\E f : NewTable({f})) \/ Answer \/ Arrive
  PROVE  AtWork'
<1>1. minted \in Nat
  BY DEF Shape
<1>2. UNCHANGED vars /\ UNCHANGED <<adding, removing>> /\ load'.at \in {"sent", "answered", "arrived"}
  <2>1. UNCHANGED vars /\ UNCHANGED <<adding, removing>>
        /\ \E at, found : load' = [at |-> at, found |-> found] /\ at \in {"sent", "answered", "arrived"}
    BY DEF NewTable, Answer, Arrive
  <2> QED  BY <2>1
<1>3. \A f, g \in table' : f = g
  BY DEF NewTable, Answer, Arrive, AtWork
<1>4. \A x : AddCalls(x)' = AddCalls(x) /\ RemoveCalls(x)' = RemoveCalls(x)
  BY <1>2 DEF AddCalls, RemoveCalls, vars
<1> QED  BY <1>1, <1>2, <1>3, <1>4 DEF AtWork, vars

LEMMA AddEntryWorks ==
  ASSUME Shape, Tied, AtWork, NEW f, AddEntry(f)
  PROVE  AtWork'
<1>1. PICK x : x = [fact |-> f, id |-> Pending]
  OBVIOUS
<1>2. x.fact = f /\ x.id = 0
  BY <1>1 DEF Pending
<1>3. adding' = {x} /\ UNCHANGED <<table, load, removing>> /\ AnnotateFact(Adder, f)
  BY <1>1 DEF AddEntry
<1>4. /\ UNCHANGED <<store, minted>> /\ todo'[Remover] = todo[Remover]
      /\ todo'[Adder] = <<<<"ensureReified", f, TRUE>>>>
  BY <1>3, AddBegins, PagesApart DEF Apart
<1>5. minted' \in Nat
  BY <1>4 DEF Shape
<1>6. todo'[Adder] \in AddCalls(x)' /\ todo'[Adder] # <<>>
  BY <1>2, <1>4 DEF AddCalls
<1>7. \A y \in removing' : todo'[Remover] \in RemoveCalls(y)'
  BY <1>3, <1>4 DEF AtWork, RemoveCalls
<1>8. \A y \in adding' : /\ y = [fact |-> y.fact, id |-> y.id] /\ y.id \in 0..minted' /\ todo'[Adder] \in AddCalls(y)'
                         /\ todo'[Adder] # <<>> => y.id = Pending
                         /\ todo'[Adder] = <<>> /\ ended'[Adder] = "well" => y.id # Pending
  BY <1>1, <1>2, <1>3, <1>5, <1>6
<1>9. \A y, z \in adding' : y = z
  BY <1>3
<1>10. removing' = {} => todo'[Remover] = <<>>
  BY <1>3, <1>4 DEF AtWork
<1>11. /\ load'.at \in {"sent", "answered", "arrived"} /\ (\A g, h \in table' : g = h) /\ \A y, z \in removing' : y = z
  BY <1>3 DEF AtWork
<1> QED  BY <1>3, <1>7, <1>8, <1>9, <1>10, <1>11 DEF AtWork

LEMMA RemoveEntryWorks ==
  ASSUME Shape, Tied, AtWork, NEW f, NEW n, RemoveEntry(f, n)
  PROVE  AtWork'
<1>1. PICK x : x = [fact |-> f, id |-> shown[f][n], at |-> n]
  OBVIOUS
<1>2. x.id = shown[f][n]
  BY <1>1
<1>3. removing' = {x} /\ UNCHANGED <<table, load, adding>> /\ RemoveAnnotation(Remover, x.id)
  BY <1>1, <1>2 DEF RemoveEntry
<1>4. /\ UNCHANGED <<store, minted>> /\ todo'[Adder] = todo[Adder] /\ ended'[Adder] = ended[Adder]
      /\ todo'[Remover] = <<<<"deleteAnnotation", x.id>>>>
  BY <1>3, RemoveBegins, PagesApart DEF Apart
<1>5. \A y \in removing' : todo'[Remover] \in RemoveCalls(y)'
  BY <1>3, <1>4 DEF RemoveCalls
<1>6. \A y : AddCalls(y)' = AddCalls(y)
  BY <1>4 DEF AddCalls
<1>7. \A y \in adding' : /\ y = [fact |-> y.fact, id |-> y.id] /\ y.id \in 0..minted' /\ todo'[Adder] \in AddCalls(y)'
                         /\ todo'[Adder] # <<>> => y.id = Pending
                         /\ todo'[Adder] = <<>> /\ ended'[Adder] = "well" => y.id # Pending
  BY <1>3, <1>4, <1>6 DEF AtWork
<1>8. \A y, z \in removing' : y = z
  BY <1>3
<1>9. removing' # {} /\ (adding' = {} => todo'[Adder] = <<>>)
  BY <1>3, <1>4 DEF AtWork
<1>10. /\ load'.at \in {"sent", "answered", "arrived"} /\ (\A g, h \in table' : g = h) /\ \A y, z \in adding' : y = z
  BY <1>3 DEF AtWork
<1> QED  BY <1>5, <1>7, <1>8, <1>9, <1>10 DEF AtWork

LEMMA SettlesWorks ==
  ASSUME AtWork, AddSettles \/ RemoveSettles
  PROVE  AtWork'
<1>1. UNCHANGED vars /\ UNCHANGED <<table, load>>
  BY DEF AddSettles, RemoveSettles
<1>2. \A x : AddCalls(x)' = AddCalls(x) /\ RemoveCalls(x)' = RemoveCalls(x)
  BY <1>1 DEF AddCalls, RemoveCalls, vars
<1>3. CASE AddSettles
  <2>1. todo[Adder] = <<>> /\ adding' = {} /\ removing' = removing
    BY <1>3 DEF AddSettles
  <2> QED  BY <1>1, <1>2, <2>1 DEF AtWork, vars
<1>4. CASE RemoveSettles
  <2>1. todo[Remover] = <<>> /\ removing' = {} /\ adding' = adding
    BY <1>4 DEF RemoveSettles
  <2> QED  BY <1>1, <1>2, <2>1 DEF AtWork, vars
<1> QED  BY <1>3, <1>4

\* The entry a request adds has the id of its annotation once that is stored.
LEMMA AddedId ==
  ASSUME Shape, Tied, AtWork, NEW x \in adding, Requests(Adder)
  PROVE  /\ AddStep(x) /\ Apart(Adder) /\ UNCHANGED <<table, load, shown, removing>>
         /\ \/ adding' = {x} /\ ~(\E on : todo[Adder] = <<<<"annotate", x.fact, on>>>> /\ store' # store)
            \/ /\ \E on : todo[Adder] = <<<<"annotate", x.fact, on>>>>
               /\ store' # store /\ adding' = {[fact |-> x.fact, id |-> minted']}
<1>1. AddStep(x) /\ Apart(Adder) /\ UNCHANGED <<table, load, shown, removing>>
  BY AddSteps DEF AtWork, Requests
<1>2. adding = {x} /\ x = [fact |-> x.fact, id |-> x.id] /\ todo[Adder] \in AddCalls(x)
  BY DEF AtWork
<1>3. Now(Adder, "annotate") <=> \E on : todo[Adder] = <<<<"annotate", x.fact, on>>>>
  <2>1. ASSUME NEW y, todo[Adder] = <<y>> PROVE todo[Adder] # <<>> /\ Call(Adder) = y
    BY <2>1 DEF Call
  <2>2. CASE todo[Adder] = <<>>
    <3>1. \A on : <<<<"annotate", x.fact, on>>>> # <<>>
      OBVIOUS
    <3> QED  BY <2>2, <3>1 DEF Now
  <2>3. CASE todo[Adder] = <<<<"ensureReified", x.fact, TRUE>>>> \/ todo[Adder] = <<<<"reify", x.fact, TRUE>>>>
    <3>1. PICK y : todo[Adder] = <<y>> /\ y[1] # "annotate"
      <4>1. <<"ensureReified", x.fact, TRUE>>[1] # "annotate" /\ <<"reify", x.fact, TRUE>>[1] # "annotate"
        OBVIOUS
      <4> QED  BY <2>3, <4>1, Zenon
    <3>2. ~Now(Adder, "annotate")
      BY <2>1, <3>1 DEF Now
    <3>3. \A on : todo[Adder] # <<<<"annotate", x.fact, on>>>>
      <4> SUFFICES ASSUME NEW on, todo[Adder] = <<<<"annotate", x.fact, on>>>> PROVE FALSE
        OBVIOUS
      <4>1. y = <<"annotate", x.fact, on>>
        BY <2>1, <3>1
      <4> QED  BY <3>1, <4>1
    <3> QED  BY <3>2, <3>3
  <2>4. ASSUME NEW on, todo[Adder] = <<<<"annotate", x.fact, on>>>> PROVE Now(Adder, "annotate")
    <3>1. PICK y : y = <<"annotate", x.fact, on>>
      OBVIOUS
    <3>2. todo[Adder] # <<>> /\ Call(Adder) = y
      BY <2>1, <2>4, <3>1
    <3> QED  BY <3>1, <3>2 DEF Now
  <2> QED  BY <1>2, <2>2, <2>3, <2>4 DEF AddCalls
<1>4. adding' = IF Now(Adder, "annotate") /\ store' # store THEN {[y EXCEPT !.id = minted'] : y \in adding} ELSE adding
  BY DEF Requests
<1>5. {[y EXCEPT !.id = minted'] : y \in adding} = {[fact |-> x.fact, id |-> minted']}
  <2>1. [x EXCEPT !.id = minted'] = [fact |-> x.fact, id |-> minted']
    <3>1. PICK f, id : x = [fact |-> f, id |-> id] /\ x.fact = f
      BY <1>2
    <3> QED  BY <3>1
  <2> QED  BY <1>2, <2>1
<1> QED  BY <1>1, <1>2, <1>3, <1>4, <1>5

LEMMA RequestsWork ==
  ASSUME Shape, Tied, AtWork, NEW k \in Clients, Requests(k)
  PROVE  AtWork'
<1>1. Apart(k) /\ minted \in Nat /\ minted' \in Nat /\ minted <= minted'
  BY StepApart DEF Requests, Shape
<1>2. UNCHANGED <<table, load, removing>>
  BY DEF Requests
<1>3. CASE k # Adder /\ k # Remover
  <2>1. adding' = adding
    BY <1>3 DEF Requests
  <2>2. load'.at \in {"sent", "answered", "arrived"}
    BY <1>2 DEF AtWork
  <2> QED  BY <1>1, <1>2, <1>3, <2>1, <2>2, Kept, PagesApart DEF Apart
<1>4. CASE k = Remover
  <2>1. adding' = adding /\ todo'[Adder] = todo[Adder] /\ ended'[Adder] = ended[Adder]
    BY <1>1, <1>4, PagesApart DEF Requests, Apart
  <2>2. Step(Remover) \/ Fail(Remover)
    BY <1>4 DEF Requests
  <2>3. todo[Remover] # <<>>
    BY <2>2, PagesApart, Steps DEF Fail
  <2>4. PICK x \in removing : removing = {x} /\ todo[Remover] \in RemoveCalls(x)
    BY <2>3 DEF AtWork
  <2>5. todo'[Remover] = <<>>
    BY <2>2, <2>4, RemoveSteps DEF RemoveStep
  <2>6. \A y : AddCalls(y) \subseteq AddCalls(y)' /\ <<>> \in RemoveCalls(y)'
    BY <1>1, CallsKept DEF RemoveCalls
  <2>7. \A y \in adding : y.id \in 0..minted'
    BY <1>1 DEF AtWork
  <2> QED  BY <1>2, <2>1, <2>5, <2>6, <2>7 DEF AtWork
<1>5. CASE k = Adder
  <2>1. todo'[Remover] = todo[Remover]
    BY <1>1, <1>5, PagesApart DEF Apart
  <2>2. todo[Adder] # <<>>
    BY <1>5, Steps DEF Requests, Fail
  <2>3. PICK x \in adding : adding = {x}
    BY <2>2 DEF AtWork
  <2>4. /\ AddStep(x)
        /\ \/ adding' = {x} /\ ~(\E on : todo[Adder] = <<<<"annotate", x.fact, on>>>> /\ store' # store)
           \/ /\ \E on : todo[Adder] = <<<<"annotate", x.fact, on>>>>
              /\ store' # store /\ adding' = {[fact |-> x.fact, id |-> minted']}
    BY <1>5, AddedId
  <2>5. x = [fact |-> x.fact, id |-> x.id] /\ x.id = Pending
    BY <2>2 DEF AtWork
  <2>6. \A y : RemoveCalls(y)' = RemoveCalls(y)
    BY DEF RemoveCalls
  <2>7. todo'[Adder] \in AddCalls(x)'
    <3>1. \A st \in Reifying({x.fact}) : st.id \in 1..minted
      BY DEF Reifying, Shape
    <3>2. <<>> \in AddCalls(x)' /\ <<<<"reify", x.fact, TRUE>>>> \in AddCalls(x)'
          /\ \A on \in 1..minted' : <<<<"annotate", x.fact, on>>>> \in AddCalls(x)'
      BY DEF AddCalls
    <3>3. CASE \E st \in Reifying({x.fact}) : todo'[Adder] = <<<<"annotate", x.fact, st.id>>>>
      BY <1>1, <3>1, <3>2, <3>3
    <3>4. CASE todo'[Adder] = <<<<"annotate", x.fact, minted'>>>> /\ minted' = minted + 1
      BY <1>1, <3>2, <3>4
    <3> QED  BY <2>4, <3>2, <3>3, <3>4 DEF AddStep
  <2>8. CASE \E on : todo[Adder] = <<<<"annotate", x.fact, on>>>> /\ store' # store
    <3>1. PICK y : y = [fact |-> x.fact, id |-> minted']
      OBVIOUS
    <3>2. adding' = {y} /\ y.fact = x.fact /\ y.id = minted'
      BY <2>4, <2>8, <3>1
    <3>3. todo'[Adder] = <<>> /\ minted' = minted + 1
      <4>1. PICK on : todo[Adder] = <<<<"annotate", x.fact, on>>>>
        BY <2>8
      <4>2. PICK y1 : y1 = <<"annotate", x.fact, on>>
        OBVIOUS
      <4>3. \A z : todo[Adder] = <<z>> => z = y1
        BY <4>1, <4>2
      <4>4. y1[1] = "annotate" /\ <<"ensureReified", x.fact, TRUE>>[1] = "ensureReified"
            /\ <<"reify", x.fact, TRUE>>[1] = "reify"
        BY <4>2
      <4>5. /\ todo[Adder] # <<<<"ensureReified", x.fact, TRUE>>>>
            /\ todo[Adder] # <<<<"reify", x.fact, TRUE>>>>
        BY <4>3, <4>4
      <4> QED  BY <2>4, <2>8, <4>5 DEF AddStep
    <3>4. minted' \in 0..minted' /\ minted' # Pending
      BY <1>1, <3>3 DEF Pending
    <3>5. todo'[Adder] \in AddCalls(y)'
      BY <3>3 DEF AddCalls
    <3> QED  BY <1>2, <2>1, <2>6, <3>1, <3>2, <3>3, <3>4, <3>5 DEF AtWork
  <2>9. CASE ~(\E on : todo[Adder] = <<<<"annotate", x.fact, on>>>> /\ store' # store)
    <3>1. adding' = {x}
      BY <2>4, <2>9
    <3>2. todo'[Adder] = <<>> => ended'[Adder] = "badly"
      <4>1. CASE todo'[Adder] = <<>> /\ ended'[Adder] = "badly"
        BY <4>1
      <4>2. CASE todo'[Adder] = <<<<"reify", x.fact, TRUE>>>> \/ \E on : todo'[Adder] = <<<<"annotate", x.fact, on>>>>
        <5>1. \A y : <<y>> # <<>>
          OBVIOUS
        <5> QED  BY <4>2, <5>1
      <4>3. CASE \E on : /\ todo[Adder] = <<<<"annotate", x.fact, on>>>> /\ minted' = minted + 1
                         /\ store'.annotations = store.annotations \cup {[id |-> minted + 1, on |-> on]}
        <5>1. PICK on : /\ todo[Adder] = <<<<"annotate", x.fact, on>>>>
                        /\ store'.annotations = store.annotations \cup {[id |-> minted + 1, on |-> on]}
          BY <4>3
        <5>2. PICK a : a = [id |-> minted + 1, on |-> on]
          OBVIOUS
        <5>3. a \notin store.annotations
          <6>1. a.id = minted + 1
            BY <5>2
          <6> QED  BY <1>1, <6>1 DEF Tied
        <5>4. store' # store
          BY <5>1, <5>2, <5>3
        <5> QED  BY <2>9, <5>1, <5>4
      <4> QED  BY <2>4, <4>1, <4>2, <4>3 DEF AddStep
    <3>3. x.id \in 0..minted'
      BY <1>1, <2>5 DEF Pending
    <3>4. \A y \in adding' : /\ y = [fact |-> y.fact, id |-> y.id] /\ y.id \in 0..minted' /\ todo'[Adder] \in AddCalls(y)'
                             /\ todo'[Adder] # <<>> => y.id = Pending
                             /\ todo'[Adder] = <<>> /\ ended'[Adder] = "well" => y.id # Pending
      BY <2>5, <2>7, <3>1, <3>2, <3>3
    <3> QED  BY <1>2, <2>1, <2>6, <3>1, <3>4 DEF AtWork
  <2> QED  BY <2>8, <2>9
<1> QED  BY <1>3, <1>4, <1>5

LEMMA AtWorkNext == ASSUME Shape, Tied, AtWork, [TableNext]_all PROVE AtWork'
<1>1. minted \in Nat
  BY DEF Shape
<1>2. CASE UNCHANGED all
  BY <1>1, <1>2, Kept DEF all, vars, page, AtWork
<1>3. ASSUME NEW k \in Others, Edit(k), UNCHANGED page PROVE AtWork'
  <2>1. k \in Clients /\ k # Adder /\ k # Remover
    BY DEF Others
  <2>2. Apart(k) /\ minted' = minted
    BY <1>3, <2>1, EditApart
  <2>3. todo'[Adder] = todo[Adder] /\ ended'[Adder] = ended[Adder] /\ todo'[Remover] = todo[Remover]
    BY <2>1, <2>2, PagesApart DEF Apart
  <2> QED  BY <1>1, <1>3, <2>2, <2>3, Kept DEF page, AtWork
<1> QED  BY <1>2, <1>3, NotArrived, AddEntryWorks, RemoveEntryWorks, SettlesWorks, RequestsWork DEF TableNext

\* What the page shows before anybody but itself has edited: each fact with the annotations the
\* store has for it, but for the entries under way.
UnderWay == {x.id : x \in adding} \cup {x.id : x \in removing}

ShowsThem(list, f) ==
  /\ list \in Seq(Nat) /\ IsInjective(list)
  /\ ToSet(list) \ {Pending} = Ids(f) \ UnderWay
  /\ Pending \in ToSet(list) <=> adding # {}

ListsFit == table \subseteq DOMAIN shown /\ \A f \in table : ShowsThem(shown[f], f)

AddsFit ==
  \A x \in adding :
    /\ x.fact \in table /\ (x.id = Pending \/ x.id \in Ids(x.fact))
    /\ \A on : todo[Adder] = <<<<"annotate", x.fact, on>>>> => \E st \in store.statements : st.id = on /\ FactOf(st) = x.fact

RemovesFit ==
  \A x \in removing :
    /\ x.fact \in table /\ x.id \in 1..minted /\ x.at \in Nat \ {0} /\ \A y \in adding : y.id # x.id
    /\ (\E a \in store.annotations : a.id = x.id) => x.id \in Ids(x.fact)
    /\ todo[Remover] = <<>> /\ ended[Remover] = "well" => \A a \in store.annotations : a.id # x.id

AsShown ==
  /\ \A f \in table : Triple(f)
  /\ ~blurred /\ load.at # "arrived" => adding = {} /\ removing = {}
  /\ ~blurred /\ load.at = "answered" => load.found = Lookup(table)
  /\ ~blurred /\ load.at = "arrived" => ListsFit /\ AddsFit /\ RemovesFit

LEMMA IdsAre ==
  /\ \A f, id : id \in Ids(f) <=> \E a \in store.annotations, st \in store.statements :
                                    a.id = id /\ a.on = st.id /\ FactOf(st) = f
  /\ (\A f, id : id \in Ids(f) <=> \E a \in store.annotations, st \in store.statements :
                                     a.id = id /\ a.on = st.id /\ FactOf(st) = f)'
  BY DEF Ids, On, Reifying

LEMMA IdsRange ==
  ASSUME Shape, Tied, NEW f
  PROVE  Ids(f) \in SUBSET Nat /\ Ids(f) \subseteq 1..minted /\ IsFiniteSet(Ids(f)) /\ Pending \notin Ids(f)
<1>1. minted \in Nat /\ IsFiniteSet(1..minted)
  BY FS_Interval DEF Shape
<1>2. Ids(f) \subseteq 1..minted
  BY IdsAre DEF Tied
<1> QED  BY <1>1, <1>2, FS_Subset DEF Pending

LEMMA AddsStill ==
  ASSUME AddsFit, UNCHANGED <<adding, table>>, store'.statements = store.statements, todo'[Adder] = todo[Adder],
         \A x \in adding : x.id \in Ids(x.fact) => x.id \in Ids(x.fact)'
  PROVE  AddsFit'
<1>1. SUFFICES ASSUME NEW x \in adding
               PROVE  /\ x.fact \in table /\ (x.id = Pending \/ x.id \in Ids(x.fact)')
                      /\ \A on : todo'[Adder] = <<<<"annotate", x.fact, on>>>> =>
                                   \E st \in store'.statements : st.id = on /\ FactOf(st) = x.fact
  BY DEF AddsFit
<1>2. x.fact \in table /\ (x.id = Pending \/ x.id \in Ids(x.fact)')
  BY DEF AddsFit
<1>3. ASSUME NEW on, todo'[Adder] = <<<<"annotate", x.fact, on>>>>
      PROVE  \E st \in store'.statements : st.id = on /\ FactOf(st) = x.fact
  <2>1. todo[Adder] = <<<<"annotate", x.fact, on>>>>
    BY <1>3
  <2>2. \A o : todo[Adder] = <<<<"annotate", x.fact, o>>>> => \E st \in store.statements : st.id = o /\ FactOf(st) = x.fact
    BY Zenon DEF AddsFit
  <2>3. \E st \in store.statements : st.id = on /\ FactOf(st) = x.fact
    BY <2>1, <2>2, Zenon
  <2> QED  BY <2>3
<1> QED  BY <1>2, <1>3

\* Nothing the page shows, or waits for, has changed.
LEMMA ShownStill ==
  ASSUME Shape, AsShown, store' = store, UNCHANGED <<table, load, shown, adding, removing>>, blurred => blurred',
         minted' \in Nat, minted <= minted',
         todo'[Adder] = todo[Adder], todo'[Remover] = todo[Remover], ended'[Remover] = ended[Remover]
  PROVE  AsShown'
<1>1. \A f : Ids(f)' = Ids(f)
  BY DEF Ids, On, Reifying
<1>2. Lookup(table)' = Lookup(table) /\ UnderWay' = UnderWay
  BY <1>1 DEF Lookup, UnderWay
<1>3. ListsFit' <=> ListsFit
  BY <1>1, <1>2 DEF ListsFit, ShowsThem
<1>4. AddsFit => AddsFit'
  BY <1>1, AddsStill
<1>5. RemovesFit => RemovesFit'
  <2>1. 1..minted \subseteq 1..minted'
    BY DEF Shape
  <2> QED  BY <1>1, <2>1 DEF RemovesFit
<1> QED  BY <1>2, <1>3, <1>4, <1>5 DEF AsShown

LEMMA ShownNotArrived ==
  ASSUME Shape, Tied, AtWork, AsShown, (\E f \in store.facts : NewTable({f})) \/ Answer \/ Arrive
  PROVE  AsShown'
<1>1. CASE \E f \in store.facts : NewTable({f})
  <2>1. \A f \in table' : Triple(f)
    <3>1. PICK f \in store.facts : table' = {f}
      BY <1>1 DEF NewTable
    <3>2. Triple(f)
      BY DEF Tied
    <3> QED  BY <3>1, <3>2
  <2>2. load'.at = "sent" /\ blurred' = (adding \cup removing # {}) /\ UNCHANGED <<adding, removing>>
    BY <1>1 DEF NewTable
  <2> QED  BY <2>1, <2>2 DEF AsShown
<1>2. CASE Answer
  <2>1. /\ load.at = "sent" /\ load'.at = "answered" /\ load'.found = Lookup(table)
        /\ UNCHANGED <<store, table, adding, removing, blurred>>
    BY <1>2 DEF Answer, vars
  <2>2. Lookup(table)' = Lookup(table)
    BY <2>1 DEF Lookup, Ids, On, Reifying
  <2> QED  BY <2>1, <2>2 DEF AsShown
<1>3. CASE Arrive
  <2>1. /\ load.at = "answered" /\ load'.at = "arrived"
        /\ UNCHANGED <<store, todo, ended, minted, table, adding, removing>>
        /\ blurred' = TRUE \/ (shown' = load.found /\ blurred' = blurred)
    BY <1>3 DEF Arrive, vars
  <2>2. ASSUME ~blurred' PROVE ListsFit' /\ AddsFit' /\ RemovesFit'
    <3>1. adding = {} /\ removing = {} /\ adding' = {} /\ removing' = {} /\ shown' = Lookup(table)
      BY <2>1, <2>2 DEF AsShown
    <3>2. UnderWay' = {}
      BY <3>1 DEF UnderWay
    <3>3. ASSUME NEW f \in table PROVE f \in DOMAIN shown' /\ ShowsThem(shown[f], f)'
      <4>1. f \in DOMAIN shown' /\ shown'[f] = InOrder(Ids(f))
        BY <3>1, <3>3 DEF Lookup
      <4>2. Ids(f)' = Ids(f)
        BY <2>1 DEF Ids, On, Reifying
      <4>3. Ids(f) \in SUBSET Nat /\ IsFiniteSet(Ids(f)) /\ Pending \notin Ids(f)
        BY IdsRange
      <4>4. InOrder(Ids(f)) \in Seq(Ids(f)) /\ IsInjective(InOrder(Ids(f))) /\ ToSet(InOrder(Ids(f))) = Ids(f)
        BY <4>3, Ordered
      <4>5. InOrder(Ids(f)) \in Seq(Nat)
        BY <4>3, <4>4
      <4> QED  BY <3>1, <3>2, <4>1, <4>2, <4>3, <4>4, <4>5 DEF ShowsThem
    <3>4. ListsFit'
      BY <2>1, <3>3 DEF ListsFit
    <3> QED  BY <3>1, <3>4 DEF AddsFit, RemovesFit
  <2> QED  BY <2>1, <2>2 DEF AsShown
<1> QED  BY <1>1, <1>2, <1>3

\* The page shows one fact, so a new list for it is all that changes.
LEMMA NewList ==
  ASSUME AtWork, ListsFit, NEW f \in table, NEW list, shown' = With(f, list), UNCHANGED table, ShowsThem(list, f)'
  PROVE  ListsFit'
<1>1. table = {f} /\ table' = {f}
  BY DEF AtWork
<1>2. f \in DOMAIN shown' /\ shown'[f] = list
  BY DEF With
<1>3. ShowsThem(shown[f], f)'
  BY <1>2 DEF ShowsThem
<1> QED  BY <1>1, <1>2, <1>3 DEF ListsFit

LEMMA ShownAdding ==
  ASSUME Shape, Tied, AtWork, AsShown, NEW f, AddEntry(f)
  PROVE  AsShown'
<1>1. PICK x, list : x = [fact |-> f, id |-> Pending] /\ list = ListOf(f)
  OBVIOUS
<1>2. x.fact = f /\ x.id = 0
  BY <1>1 DEF Pending
<1>3. /\ f \in table /\ adding = {} /\ adding' = {x} /\ UNCHANGED <<table, load, removing>> /\ AnnotateFact(Adder, f)
      /\ shown' = With(f, Append(list, 0)) /\ blurred' = (blurred \/ load.at # "arrived")
  BY <1>1 DEF AddEntry, Pending
<1>4. /\ UNCHANGED <<store, minted>> /\ todo'[Remover] = todo[Remover] /\ ended'[Remover] = ended[Remover]
      /\ todo'[Adder] = <<<<"ensureReified", f, TRUE>>>>
  BY <1>3, AddBegins, PagesApart DEF Apart
<1>5. \A g : Ids(g)' = Ids(g)
  BY <1>4 DEF Ids, On, Reifying
<1>6. ASSUME ~blurred' PROVE ListsFit' /\ AddsFit' /\ RemovesFit'
  <2>1. ListsFit /\ RemovesFit
    BY <1>3, <1>6 DEF AsShown
  <2>2. list = shown[f] /\ ShowsThem(list, f)
    BY <1>1, <1>3, <2>1 DEF ListsFit, ListOf
  <2>3. UnderWay' = UnderWay \cup {0}
    <3>1. {y.id : y \in adding'} = {0} /\ {y.id : y \in adding} = {}
      BY <1>2, <1>3
    <3>2. {y.id : y \in removing'} = {y.id : y \in removing}
      BY <1>3
    <3> QED  BY <3>1, <3>2 DEF UnderWay
  <2>4. ShowsThem(Append(list, 0), f)'
    <3>1. /\ list \in Seq(Nat) /\ IsInjective(list) /\ 0 \notin ToSet(list) /\ ToSet(list) \ {0} = Ids(f) \ UnderWay
      BY <1>3, <2>2 DEF ShowsThem, Pending
    <3>2. /\ Append(list, 0) \in Seq(Nat) /\ IsInjective(Append(list, 0))
          /\ ToSet(Append(list, 0)) = ToSet(list) \cup {0}
      BY <3>1, Longer
    <3>3. 0 \notin Ids(f)
      BY IdsRange DEF Pending
    <3> QED  BY <1>3, <1>5, <2>3, <3>1, <3>2, <3>3 DEF ShowsThem, Pending
  <2>5. ListsFit'
    BY <1>3, <2>1, <2>4, NewList
  <2>6. AddsFit'
    <3>1. \A on : todo'[Adder] # <<<<"annotate", f, on>>>>
      <4>1. PICK yes, begun : begun = <<"ensureReified", f, yes>> /\ yes = TRUE
        OBVIOUS
      <4>2. ASSUME NEW on PROVE <<begun>> # <<<<"annotate", f, on>>>>
        <5>1. PICK last : last = <<"annotate", f, on>>
          OBVIOUS
        <5>2. begun[1] = "ensureReified" /\ last[1] = "annotate"
          BY <4>1, <5>1
        <5>3. <<begun>> # <<last>>
          BY <5>2
        <5> QED  BY <5>1, <5>3, Zenon
      <4>3. todo'[Adder] = <<begun>>
        BY <1>4, <4>1, Zenon
      <4> QED  BY <4>2, <4>3, Zenon
    <3> QED  BY <1>2, <1>3, <3>1 DEF AddsFit, Pending
  <2>7. RemovesFit'
    BY <1>2, <1>3, <1>4, <1>5, <2>1 DEF RemovesFit
  <2> QED  BY <2>5, <2>6, <2>7
<1> QED  BY <1>3, <1>6 DEF AsShown

LEMMA ShownAdded ==
  ASSUME Shape, Tied, AtWork, AsShown, AddSettles
  PROVE  AsShown'
<1>1. PICK x \in adding :
        /\ shown' = IF ended[Adder] = "well" THEN With(x.fact, Confirmed(x.fact, x.id)) ELSE AddRollback(x.fact)
        /\ blurred' = (blurred \/ (ended[Adder] = "badly" /\ x.id # Pending))
  BY DEF AddSettles
<1>2. todo[Adder] = <<>> /\ adding' = {} /\ UNCHANGED <<store, todo, ended, minted, table, load, removing>>
  BY DEF AddSettles, vars
<1>3. adding = {x} /\ (ended[Adder] = "well" => x.id # Pending) /\ ended[Adder] \in {"well", "badly"}
  BY <1>2, PagesApart DEF AtWork, Tied
<1>4. \A g : Ids(g)' = Ids(g)
  BY <1>2 DEF Ids, On, Reifying
<1>5. ASSUME ~blurred', load.at = "arrived" PROVE ListsFit' /\ AddsFit' /\ RemovesFit'
  <2>1. ListsFit /\ AddsFit /\ RemovesFit
    BY <1>1, <1>5 DEF AsShown
  <2>2. PICK f, list : f = x.fact /\ list = shown[f]
    OBVIOUS
  <2>3. f \in table /\ f \in DOMAIN shown /\ ShowsThem(list, f) /\ (x.id = Pending \/ x.id \in Ids(f))
    BY <2>1, <2>2 DEF ListsFit, AddsFit
  <2>4. UnderWay = {x.id} \cup UnderWay' /\ x.id \notin UnderWay'
    <3>1. UnderWay' = {y.id : y \in removing} /\ UnderWay = {y.id : y \in adding} \cup {y.id : y \in removing}
      BY <1>2 DEF UnderWay
    <3>2. {y.id : y \in adding} = {x.id}
      BY <1>3
    <3>3. \A y \in removing : x.id # y.id
      BY <2>1 DEF RemovesFit
    <3> QED  BY <3>1, <3>2, <3>3
  <2>5. /\ list \in Seq(Nat) /\ IsInjective(list) /\ Pending \in ToSet(list)
        /\ ToSet(list) \ {Pending} = Ids(f) \ UnderWay /\ Pending \notin Ids(f) /\ Ids(f) \in SUBSET Nat
    BY <1>3, <2>3, IdsRange DEF ShowsThem
  <2>6. ListsFit'
    <3>1. CASE ended[Adder] = "well"
      <4>1. PICK new : new = Confirmed(f, x.id)
        OBVIOUS
      <4>2. shown' = With(f, new) /\ new = [n \in DOMAIN list |-> IF list[n] = Pending THEN x.id ELSE list[n]]
        BY <1>1, <2>2, <2>3, <3>1, <4>1 DEF Confirmed
      <4>3. x.id \in Ids(f) /\ x.id \in Nat /\ x.id \notin ToSet(list)
        BY <1>3, <2>3, <2>4, <2>5, <3>1
      <4>4. new \in Seq(Nat) /\ IsInjective(new) /\ ToSet(new) = (ToSet(list) \ {Pending}) \cup {x.id}
        BY <2>5, <4>2, <4>3, Replaces
      <4>5. ShowsThem(new, f)'
        BY <1>2, <1>4, <2>4, <2>5, <4>3, <4>4 DEF ShowsThem
      <4> QED  BY <1>2, <2>1, <2>3, <4>2, <4>5, NewList
    <3>2. CASE ended[Adder] = "badly"
      <4>1. PICK new : new = Less(list, Pending)
        OBVIOUS
      <4>2. shown' = With(f, new) /\ x.id = Pending
        BY <1>1, <1>5, <2>2, <2>3, <3>2, <4>1 DEF AddRollback
      <4>3. new \in Seq(Nat) /\ IsInjective(new) /\ ToSet(new) = ToSet(list) \ {Pending}
        BY <2>5, <4>1, Shorter
      <4>4. ShowsThem(new, f)'
        BY <1>2, <1>4, <2>4, <2>5, <4>2, <4>3 DEF ShowsThem
      <4> QED  BY <1>2, <2>1, <2>3, <4>2, <4>4, NewList
    <3> QED  BY <1>3, <3>1, <3>2
  <2>7. AddsFit'
    BY <1>2 DEF AddsFit
  <2>8. RemovesFit'
    BY <1>2, <1>4, <2>1 DEF RemovesFit
  <2> QED  BY <2>6, <2>7, <2>8
<1>6. ~blurred' => ~blurred
  BY <1>1
<1>7. ~blurred' => load.at = "arrived"
  BY <1>3, <1>6 DEF AsShown
<1> QED  BY <1>2, <1>5, <1>7 DEF AsShown

LEMMA ShownRemoving ==
  ASSUME Shape, Tied, AtWork, AsShown, NEW f \in table, NEW n, RemoveEntry(f, n)
  PROVE  AsShown'
<1>1. PICK x, list : x = [fact |-> f, id |-> shown[f][n], at |-> n] /\ list = shown[f]
  OBVIOUS
<1>2. x.fact = f /\ x.id = list[n] /\ x.at = n
  BY <1>1
<1>3. /\ removing = {} /\ removing' = {x} /\ UNCHANGED <<table, load, adding>> /\ RemoveAnnotation(Remover, x.id)
      /\ n \in DOMAIN ListOf(f) /\ list[n] # Pending
      /\ shown' = With(f, Less(list, x.id)) /\ blurred' = (blurred \/ load.at # "arrived")
  BY <1>1, <1>2 DEF RemoveEntry
<1>4. /\ UNCHANGED <<store, minted>> /\ todo'[Adder] = todo[Adder]
      /\ todo'[Remover] = <<<<"deleteAnnotation", x.id>>>>
  BY <1>3, RemoveBegins, PagesApart DEF Apart
<1>5. \A g : Ids(g)' = Ids(g)
  BY <1>4 DEF Ids, On, Reifying
<1>6. ASSUME ~blurred' PROVE ListsFit' /\ AddsFit' /\ RemovesFit'
  <2>1. ListsFit /\ AddsFit
    BY <1>3, <1>6 DEF AsShown
  <2>2. n \in DOMAIN list /\ ShowsThem(list, f)
    BY <1>1, <1>3, <2>1 DEF ListsFit, ListOf
  <2>3. UnderWay' = UnderWay \cup {x.id}
    <3>1. {y.id : y \in removing'} = {x.id} /\ {y.id : y \in removing} = {}
      BY <1>3
    <3>2. {y.id : y \in adding'} = {y.id : y \in adding}
      BY <1>3
    <3> QED  BY <3>1, <3>2 DEF UnderWay
  <2>4. /\ list \in Seq(Nat) /\ IsInjective(list) /\ ToSet(list) \ {Pending} = Ids(f) \ UnderWay
        /\ Pending \in ToSet(list) <=> adding # {}
    BY <2>2 DEF ShowsThem
  <2>5. x.id \in Ids(f) /\ x.id \notin UnderWay /\ x.id # Pending
    <3>1. x.id \in ToSet(list)
      BY <1>2, <2>2, InList
    <3> QED  BY <1>2, <1>3, <2>4, <3>1
  <2>6. ShowsThem(Less(list, x.id), f)'
    <3>1. PICK new : new = Less(list, x.id)
      OBVIOUS
    <3>2. new \in Seq(Nat) /\ IsInjective(new) /\ ToSet(new) = ToSet(list) \ {x.id}
      BY <2>4, <3>1, Shorter
    <3>3. ShowsThem(new, f)'
      BY <1>3, <1>5, <2>3, <2>4, <2>5, <3>2 DEF ShowsThem
    <3> QED  BY <3>1, <3>3 DEF ShowsThem
  <2>7. ListsFit'
    BY <1>3, <2>1, <2>6, NewList
  <2>8. AddsFit'
    BY <1>3, <1>4, <1>5, <2>1, AddsStill
  <2>9. RemovesFit'
    <3>1. n \in Nat \ {0}
      BY <2>2, <2>4, LenProperties
    <3>2. x.id \in 1..minted' /\ todo'[Remover] # <<>>
      BY <1>4, <2>5, IdsRange
    <3>3. \A y \in adding' : y.id # x.id
      BY <1>3, <2>5 DEF UnderWay
    <3>4. f \in table' /\ x.id \in Ids(f)'
      BY <1>3, <1>5, <2>5
    <3> QED  BY <1>2, <1>3, <3>1, <3>2, <3>3, <3>4 DEF RemovesFit
  <2> QED  BY <2>7, <2>8, <2>9
<1> QED  BY <1>3, <1>6 DEF AsShown

LEMMA ShownRemoved ==
  ASSUME Shape, Tied, AtWork, AsShown, RemoveSettles
  PROVE  AsShown'
<1>1. PICK x \in removing :
        /\ shown' = IF ended[Remover] = "well" THEN shown
                    ELSE With(x.fact, IF x.at <= Len(ListOf(x.fact)) THEN InsertAt(ListOf(x.fact), x.at, x.id)
                                      ELSE Append(ListOf(x.fact), x.id))
        /\ blurred' = (blurred \/ (ended[Remover] = "badly" /\ \A a \in store.annotations : a.id # x.id))
  BY DEF RemoveSettles
<1>2. todo[Remover] = <<>> /\ removing' = {} /\ UNCHANGED <<store, todo, ended, minted, table, load, adding>>
  BY DEF RemoveSettles, vars
<1>3. removing = {x} /\ ended[Remover] \in {"well", "badly"}
  BY <1>2, PagesApart DEF AtWork, Tied
<1>4. \A g : Ids(g)' = Ids(g)
  BY <1>2 DEF Ids, On, Reifying
<1>5. ASSUME ~blurred', load.at = "arrived" PROVE ListsFit' /\ AddsFit' /\ RemovesFit'
  <2>1. ListsFit /\ AddsFit /\ RemovesFit
    BY <1>1, <1>5 DEF AsShown
  <2>2. PICK f, list : f = x.fact /\ list = shown[f]
    OBVIOUS
  <2>3. f \in table /\ f \in DOMAIN shown /\ ShowsThem(list, f) /\ list = ListOf(f)
    BY <2>1, <2>2 DEF ListsFit, RemovesFit, ListOf
  <2>4. UnderWay = {x.id} \cup UnderWay' /\ x.id \notin UnderWay'
    <3>1. UnderWay' = {y.id : y \in adding} /\ UnderWay = {y.id : y \in adding} \cup {y.id : y \in removing}
      BY <1>2 DEF UnderWay
    <3>2. {y.id : y \in removing} = {x.id}
      BY <1>3
    <3>3. \A y \in adding : x.id # y.id
      BY <2>1 DEF RemovesFit
    <3> QED  BY <3>1, <3>2, <3>3
  <2>5. /\ list \in Seq(Nat) /\ IsInjective(list) /\ ToSet(list) \ {Pending} = Ids(f) \ UnderWay
        /\ Pending \in ToSet(list) <=> adding # {}
    BY <2>3 DEF ShowsThem
  <2>6. x.id \in Nat /\ x.id # Pending /\ x.at \in Nat \ {0} /\ x.id \notin ToSet(list)
    <3>1. x.id \in 1..minted /\ x.at \in Nat \ {0} /\ minted \in Nat
      BY <2>1 DEF RemovesFit, Shape
    <3>2. x.id \in Nat /\ x.id # Pending
      BY <3>1 DEF Pending
    <3> QED  BY <2>4, <2>5, <3>1, <3>2
  <2>7. ListsFit'
    <3>1. CASE ended[Remover] = "well"
      <4>1. shown' = shown
        BY <1>1, <3>1
      <4>2. x.id \notin Ids(f)
        BY <1>2, <2>1, <3>1, IdsAre DEF RemovesFit
      <4>3. ShowsThem(list, f)'
        BY <1>2, <1>4, <2>4, <2>5, <4>2 DEF ShowsThem
      <4>4. table = {f}
        BY <2>3 DEF AtWork
      <4>5. ShowsThem(shown[f], f)'
        BY <2>2, <4>1, <4>3 DEF ShowsThem
      <4> QED  BY <1>2, <2>3, <4>1, <4>4, <4>5 DEF ListsFit
    <3>2. CASE ended[Remover] = "badly"
      <4>1. x.id \in Ids(f)
        BY <1>1, <1>5, <2>1, <2>2, <3>2 DEF RemovesFit
      <4>2. PICK new : new = IF x.at <= Len(list) THEN InsertAt(list, x.at, x.id) ELSE Append(list, x.id)
        OBVIOUS
      <4>3. shown' = With(f, new)
        BY <1>1, <2>2, <2>3, <3>2, <4>2
      <4>4. new \in Seq(Nat) /\ IsInjective(new) /\ ToSet(new) = ToSet(list) \cup {x.id}
        <5>1. CASE x.at <= Len(list)
          <6>1. x.at \in 1..Len(list)
            BY <2>5, <2>6, <5>1, LenProperties
          <6> QED  BY <2>5, <2>6, <4>2, <5>1, <6>1, PutBack
        <5>2. CASE ~(x.at <= Len(list))
          BY <2>5, <2>6, <4>2, <5>2, Longer
        <5> QED  BY <5>1, <5>2
      <4>5. ShowsThem(new, f)'
        BY <1>2, <1>4, <2>4, <2>5, <2>6, <4>1, <4>4 DEF ShowsThem
      <4> QED  BY <1>2, <2>1, <2>3, <4>3, <4>5, NewList
    <3> QED  BY <1>3, <3>1, <3>2
  <2>8. AddsFit'
    BY <1>2, <1>4, <2>1, AddsStill
  <2>9. RemovesFit'
    BY <1>2 DEF RemovesFit
  <2> QED  BY <2>7, <2>8, <2>9
<1>6. ~blurred' => ~blurred
  BY <1>1
<1>7. ~blurred' => load.at = "arrived"
  BY <1>3, <1>6 DEF AsShown
<1> QED  BY <1>2, <1>5, <1>7 DEF AsShown

\* A fact keeps its ids when only a statement of it is new, which has no annotations yet.
LEMMA IdsStill ==
  ASSUME Tied, store'.annotations = store.annotations, NEW st, store'.statements = store.statements \cup {st},
         st.id \notin 1..minted
  PROVE  \A f : Ids(f)' = Ids(f)
<1>1. \A a \in store.annotations : a.on # st.id
  BY DEF Tied
<1>2. ASSUME NEW f, NEW id PROVE id \in Ids(f)' <=> id \in Ids(f)
  BY <1>1, IdsAre
<1> QED  BY <1>2 DEF Ids

\* A list fits as well when the entries and what is stored change together.
LEMMA ListsStill ==
  ASSUME ListsFit, UNCHANGED <<table, shown>>, adding' = {} <=> adding = {},
         \A f \in table : (Ids(f) \ UnderWay)' = Ids(f) \ UnderWay
  PROVE  ListsFit'
  BY DEF ListsFit, ShowsThem

LEMMA SameCall ==
  ASSUME NEW q, NEW x, NEW y, q = <<x>>, q = <<y>>
  PROVE  x = y
  OBVIOUS

LEMMA Kinds ==
  ASSUME NEW op, NEW f, NEW z
  PROVE  <<op, f, z>>[1] = op
  OBVIOUS

LEMMA ShownAddRequest ==
  ASSUME Shape, Tied, AtWork, AsShown, Requests(Adder)
  PROVE  AsShown'
<1>1. todo[Adder] # <<>>
  BY PagesApart, Steps DEF Requests, Fail
<1>2. PICK x \in adding : adding = {x}
  BY <1>1 DEF AtWork
<1>3. /\ AddStep(x) /\ Apart(Adder) /\ UNCHANGED <<table, load, shown, removing>>
      /\ \/ adding' = {x} /\ ~(\E on : todo[Adder] = <<<<"annotate", x.fact, on>>>> /\ store' # store)
         \/ /\ \E on : todo[Adder] = <<<<"annotate", x.fact, on>>>>
            /\ store' # store /\ adding' = {[fact |-> x.fact, id |-> minted']}
  BY AddedId
<1>4. x.id = Pending /\ minted \in Nat /\ todo'[Remover] = todo[Remover] /\ ended'[Remover] = ended[Remover]
  BY <1>1, <1>3, PagesApart DEF AtWork, Shape, Apart
<1>5. (blurred => blurred') /\ (~blurred => load.at = "arrived")
  BY <1>2 DEF Requests, Others, AsShown
<1>6. ASSUME ~blurred PROVE ListsFit' /\ AddsFit' /\ RemovesFit'
  <2>1. ListsFit /\ AddsFit /\ RemovesFit
    BY <1>5, <1>6 DEF AsShown
  <2>2. x.fact \in table /\ Triple(x.fact)
    BY <2>1 DEF AddsFit, AsShown
  <2>3. ASSUME minted' \in Nat, minted <= minted', adding' = {x}, \A f : Ids(f)' = Ids(f), store'.annotations = store.annotations,
               \A on : todo'[Adder] = <<<<"annotate", x.fact, on>>>> => \E st \in store'.statements : st.id = on /\ FactOf(st) = x.fact
        PROVE  ListsFit' /\ AddsFit' /\ RemovesFit'
    <3>1. ListsFit'
      <4>1. UnderWay' = UnderWay
        BY <1>2, <1>3, <2>3 DEF UnderWay
      <4> QED  BY <1>2, <1>3, <2>1, <2>3, <4>1, ListsStill
    <3>2. AddsFit'
      BY <1>3, <1>4, <2>2, <2>3 DEF AddsFit
    <3>3. RemovesFit'
      <4>1. \A y \in removing : y.id \in 1..minted'
        BY <1>4, <2>1, <2>3 DEF RemovesFit
      <4> QED  BY <1>2, <1>3, <1>4, <2>1, <2>3, <4>1 DEF RemovesFit
    <3> QED  BY <3>1, <3>2, <3>3
  <2>5. CASE store' = store /\ minted' = minted /\ todo'[Adder] = <<>> /\ ended'[Adder] = "badly"
    <3>1. \A f : Ids(f)' = Ids(f)
      BY <2>5 DEF Ids, On, Reifying
    <3>2. \A on : <<>> # <<<<"annotate", x.fact, on>>>>
      OBVIOUS
    <3>3. adding' = {x}
      BY <1>3, <2>5
    <3> QED  BY <1>4, <2>3, <2>5, <3>1, <3>2, <3>3
  <2>6. CASE /\ todo[Adder] = <<<<"ensureReified", x.fact, TRUE>>>> /\ store' = store /\ minted' = minted
             /\ \/ todo'[Adder] = <<<<"reify", x.fact, TRUE>>>>
                \/ \E st \in Reifying({x.fact}) : todo'[Adder] = <<<<"annotate", x.fact, st.id>>>>
    <3>1. \A f : Ids(f)' = Ids(f)
      BY <2>6 DEF Ids, On, Reifying
    <3>2. adding' = {x}
      BY <1>3, <2>6
    <3>3. ASSUME NEW on, todo'[Adder] = <<<<"annotate", x.fact, on>>>>
          PROVE  \E st \in store'.statements : st.id = on /\ FactOf(st) = x.fact
      <4>1. PICK last : last = <<"annotate", x.fact, on>>
        OBVIOUS
      <4>2. last[1] = "annotate" /\ last[3] = on /\ todo'[Adder] = <<last>>
        BY <3>3, <4>1
      <4>3. CASE todo'[Adder] = <<<<"reify", x.fact, TRUE>>>>
        <5>1. PICK yes, y : y = <<"reify", x.fact, yes>> /\ yes = TRUE
          OBVIOUS
        <5>2. y[1] = "reify" /\ todo'[Adder] = <<y>>
          BY <4>3, <5>1, Zenon, Kinds
        <5>3. y = last
          BY <4>2, <5>2, SameCall
        <5> QED  BY <4>2, <5>2, <5>3
      <4>4. CASE \E st \in Reifying({x.fact}) : todo'[Adder] = <<<<"annotate", x.fact, st.id>>>>
        <5>1. PICK st \in Reifying({x.fact}) : todo'[Adder] = <<<<"annotate", x.fact, st.id>>>>
          BY <4>4
        <5>2. PICK y : y = <<"annotate", x.fact, st.id>>
          OBVIOUS
        <5>3. y[3] = st.id /\ y = last
          BY <4>2, <5>1, <5>2, SameCall
        <5> QED  BY <2>6, <4>2, <5>1, <5>3 DEF Reifying
      <4> QED  BY <2>6, <4>3, <4>4
    <3> QED  BY <1>4, <2>3, <2>6, <3>1, <3>2, <3>3
  <2>7. CASE /\ todo[Adder] = <<<<"reify", x.fact, TRUE>>>> /\ minted' = minted + 1
             /\ store'.annotations = store.annotations
             /\ store'.statements = store.statements
                                      \cup {[id |-> minted + 1, s |-> x.fact[1], p |-> x.fact[2], o |-> x.fact[3]]}
             /\ \/ todo'[Adder] = <<<<"annotate", x.fact, minted'>>>>
                \/ todo'[Adder] = <<>> /\ ended'[Adder] = "badly"
    <3>1. PICK new : new = [id |-> minted + 1, s |-> x.fact[1], p |-> x.fact[2], o |-> x.fact[3]]
      OBVIOUS
    <3>2. new.id = minted' /\ FactOf(new) = x.fact /\ store'.statements = store.statements \cup {new}
      BY <2>2, <2>7, <3>1 DEF FactOf, Triple
    <3>3. new.id \notin 1..minted
      BY <1>4, <2>7, <3>2
    <3>4. \A f : Ids(f)' = Ids(f)
      BY <2>7, <3>2, <3>3, IdsStill
    <3>5. adding' = {x}
      <4>1. PICK yes, y : y = <<"reify", x.fact, yes>> /\ yes = TRUE
        OBVIOUS
      <4>2. y[1] = "reify" /\ todo[Adder] = <<y>>
        BY <2>7, <4>1, Zenon, Kinds
      <4>3. \A on : todo[Adder] # <<<<"annotate", x.fact, on>>>>
        <5> SUFFICES ASSUME NEW on, todo[Adder] = <<<<"annotate", x.fact, on>>>> PROVE FALSE
          OBVIOUS
        <5>1. PICK last : last = <<"annotate", x.fact, on>>
          OBVIOUS
        <5>2. last[1] = "annotate" /\ y = last
          BY <4>2, <5>1, SameCall
        <5> QED  BY <4>2, <5>2
      <4> QED  BY <1>3, <4>3
    <3>6. ASSUME NEW on, todo'[Adder] = <<<<"annotate", x.fact, on>>>>
          PROVE  \E st \in store'.statements : st.id = on /\ FactOf(st) = x.fact
      <4>1. todo'[Adder] = <<<<"annotate", x.fact, minted'>>>>
        <5>1. <<>> # <<<<"annotate", x.fact, on>>>>
          OBVIOUS
        <5> QED  BY <2>7, <3>6, <5>1
      <4>2. PICK y, last : y = <<"annotate", x.fact, minted'>> /\ last = <<"annotate", x.fact, on>>
        OBVIOUS
      <4>3. y = last
        BY <3>6, <4>1, <4>2, SameCall
      <4>4. on = minted'
        BY <4>2, <4>3
      <4> QED  BY <3>2, <4>4
    <3> QED  BY <1>4, <2>3, <2>7, <3>4, <3>5, <3>6
  <2>8. CASE \E on : /\ todo[Adder] = <<<<"annotate", x.fact, on>>>> /\ minted' = minted + 1
                     /\ store'.statements = store.statements
                     /\ store'.annotations = store.annotations \cup {[id |-> minted + 1, on |-> on]}
                     /\ todo'[Adder] = <<>>
    <3>1. PICK on : /\ todo[Adder] = <<<<"annotate", x.fact, on>>>> /\ minted' = minted + 1
                    /\ store'.statements = store.statements
                    /\ store'.annotations = store.annotations \cup {[id |-> minted + 1, on |-> on]}
                    /\ todo'[Adder] = <<>>
      BY <2>8
    <3>2. PICK new : new = [id |-> minted + 1, on |-> on]
      OBVIOUS
    <3>3. new.id = minted' /\ new.on = on /\ store'.annotations = store.annotations \cup {new}
      BY <3>1, <3>2
    <3>4. \A a \in store.annotations : a.id \in 1..minted
      BY DEF Tied
    <3>5. store' # store
      BY <1>4, <3>1, <3>3, <3>4
    <3>6. PICK y : y = [fact |-> x.fact, id |-> minted']
      OBVIOUS
    <3>7. y.fact = x.fact /\ y.id = minted' /\ adding' = {y}
      BY <1>3, <3>1, <3>5, <3>6
    <3>8. \E st \in store.statements : st.id = on /\ FactOf(st) = x.fact
      BY <2>1, <3>1 DEF AddsFit
    <3>9. Ids(x.fact)' = Ids(x.fact) \cup {minted'}
      <4>1. \A id : id \in Ids(x.fact)' <=> id \in Ids(x.fact) \cup {minted'}
        <5>1. ASSUME NEW id, id \in Ids(x.fact)' PROVE id \in Ids(x.fact) \cup {minted'}
          BY <3>1, <3>3, <5>1, IdsAre
        <5>2. \A id : id \in Ids(x.fact) => id \in Ids(x.fact)'
          BY <3>1, <3>3, IdsAre
        <5>3. minted' \in Ids(x.fact)'
          BY <3>1, <3>3, <3>8, IdsAre
        <5> QED  BY <5>1, <5>2, <5>3
      <4> QED  BY <4>1
    <3>10. ListsFit'
      <4>1. PICK out : out = {z.id : z \in removing}
        OBVIOUS
      <4>2. UnderWay = {Pending} \cup out /\ UnderWay' = {minted'} \cup out
        BY <1>2, <1>3, <1>4, <3>7, <4>1 DEF UnderWay
      <4>3. minted' \notin Ids(x.fact) /\ Pending \notin Ids(x.fact) /\ minted' # Pending
        BY <1>4, <3>1, IdsRange DEF Pending
      <4>4. minted' \notin out
        BY <1>4, <2>1, <3>1, <4>1 DEF RemovesFit
      <4>5. (Ids(x.fact) \ UnderWay)' = Ids(x.fact) \ UnderWay
        BY <3>9, <4>2, <4>3, <4>4
      <4>6. table = {x.fact}
        BY <2>2 DEF AtWork
      <4> QED  BY <1>2, <1>3, <2>1, <3>7, <4>5, <4>6, ListsStill
    <3>11. AddsFit'
      <4>1. \A o : <<>> # <<<<"annotate", x.fact, o>>>>
        OBVIOUS
      <4> QED  BY <1>3, <2>2, <3>1, <3>7, <3>9, <4>1 DEF AddsFit
    <3>12. RemovesFit'
      <4>1. \A z \in removing : z.id \in 1..minted /\ z.id \in 1..minted' /\ z.id # minted'
        BY <1>4, <2>1, <3>1 DEF RemovesFit
      <4>2. \A z \in removing : (\E a \in store'.annotations : a.id = z.id) => (\E a \in store.annotations : a.id = z.id)
        BY <3>3, <4>1
      <4>3. \A z \in removing : z.id \in Ids(z.fact) => z.id \in Ids(z.fact)'
        BY <3>1, <3>3, IdsAre
      <4> QED  BY <1>3, <1>4, <2>1, <3>7, <4>1, <4>2, <4>3 DEF RemovesFit
    <3> QED  BY <3>10, <3>11, <3>12
  <2> QED  BY <1>3, <2>5, <2>6, <2>7, <2>8 DEF AddStep
<1> QED  BY <1>3, <1>5, <1>6 DEF AsShown

LEMMA ShownRemoveRequest ==
  ASSUME Shape, Tied, AtWork, AsShown, Requests(Remover)
  PROVE  AsShown'
<1>1. (Step(Remover) \/ Fail(Remover)) /\ todo[Remover] # <<>>
  BY PagesApart, Steps DEF Requests, Fail
<1>2. PICK x \in removing : removing = {x} /\ todo[Remover] \in RemoveCalls(x)
  BY <1>1 DEF AtWork
<1>3. RemoveStep(x) /\ Apart(Remover)
  BY <1>1, <1>2, RemoveSteps
<1>4. UNCHANGED <<table, load, shown, adding, removing, minted>> /\ minted \in Nat /\ todo'[Adder] = todo[Adder]
  BY <1>3, PagesApart DEF Requests, RemoveStep, Apart, Shape
<1>5. (blurred => blurred') /\ (~blurred => load.at = "arrived")
  BY <1>2 DEF Requests, Others, AsShown
<1>6. ASSUME ~blurred PROVE ListsFit' /\ AddsFit' /\ RemovesFit'
  <2>1. ListsFit /\ AddsFit /\ RemovesFit
    BY <1>5, <1>6 DEF AsShown
  <2>2. UnderWay' = UnderWay /\ x.id \in UnderWay
    BY <1>2, <1>4 DEF UnderWay
  <2>3. CASE store' = store /\ ended'[Remover] = "badly"
    <3>1. \A f : Ids(f)' = Ids(f)
      BY <2>3 DEF Ids, On, Reifying
    <3>2. ListsFit'
      BY <1>4, <2>1, <2>2, <3>1, ListsStill
    <3>3. AddsFit'
      BY <1>4, <2>1, <2>3, <3>1, AddsStill
    <3>4. RemovesFit'
      BY <1>4, <2>1, <2>3, <3>1 DEF RemovesFit
    <3> QED  BY <3>2, <3>3, <3>4
  <2>4. CASE store'.statements = store.statements /\ store'.annotations = {a \in store.annotations : a.id # x.id}
    <3>1. ASSUME NEW f PROVE Ids(f)' = Ids(f) \ {x.id}
      <4>1. \A id : id \in Ids(f)' <=> id \in Ids(f) \ {x.id}
        BY <2>4, IdsAre
      <4> QED  BY <4>1
    <3>2. ListsFit'
      <4>1. \A f \in table : (Ids(f) \ UnderWay)' = Ids(f) \ UnderWay
        BY <2>2, <3>1
      <4> QED  BY <1>4, <2>1, <4>1, ListsStill
    <3>3. AddsFit'
      <4>1. \A y \in adding : y.id \in Ids(y.fact) => y.id \in Ids(y.fact)'
        BY <2>1, <3>1 DEF RemovesFit
      <4> QED  BY <1>4, <2>1, <2>4, <4>1, AddsStill
    <3>4. RemovesFit'
      <4>1. \A a \in store'.annotations : a.id # x.id
        BY <2>4
      <4>2. removing' = {x} /\ x.fact \in table' /\ x.id \in 1..minted' /\ x.at \in Nat \ {0} /\ \A y \in adding' : y.id # x.id
        BY <1>2, <1>4, <2>1 DEF RemovesFit
      <4> QED  BY <4>1, <4>2 DEF RemovesFit
    <3> QED  BY <3>2, <3>3, <3>4
  <2> QED  BY <1>3, <2>3, <2>4 DEF RemoveStep
<1> QED  BY <1>4, <1>5, <1>6 DEF AsShown

LEMMA ShownOthers ==
  ASSUME Shape, Tied, AtWork, AsShown, NEW k \in Others,
         Requests(k) \/ (Edit(k) /\ UNCHANGED page)
  PROVE  AsShown'
<1>1. k \in Clients /\ k # Adder /\ k # Remover
  BY DEF Others
<1>2. Apart(k) /\ minted' \in Nat /\ minted <= minted'
  BY <1>1, StepApart, EditApart DEF Requests, Shape
<1>3. UNCHANGED <<table, load, shown, adding, removing>> /\ (store' # store => blurred') /\ (blurred => blurred')
  <2>1. CASE Requests(k)
    <3>1. UNCHANGED <<table, load, shown, removing>> /\ blurred' = (blurred \/ store' # store) /\ adding' = adding
      BY <1>1, <2>1 DEF Requests
    <3> QED  BY <3>1
  <2>2. CASE Edit(k) /\ UNCHANGED page
    <3>1. store' = store
      BY <1>1, <2>2, EditApart
    <3> QED  BY <2>2, <3>1 DEF page
  <2> QED  BY <2>1, <2>2
<1>4. todo'[Adder] = todo[Adder] /\ todo'[Remover] = todo[Remover] /\ ended'[Remover] = ended[Remover]
  BY <1>1, <1>2, PagesApart DEF Apart
<1>5. CASE blurred'
  BY <1>3, <1>5 DEF AsShown
<1>6. CASE ~blurred'
  BY <1>2, <1>3, <1>4, <1>6, ShownStill
<1> QED  BY <1>5, <1>6

LEMMA ShownNext == ASSUME Shape, Tied, AtWork, AsShown, [TableNext]_all PROVE AsShown'
<1>1. CASE UNCHANGED all
  <2>1. UNCHANGED <<store, todo, ended, minted, table, load, shown, adding, removing, blurred>> /\ minted' \in Nat
    BY <1>1 DEF all, vars, page, Shape
  <2>2. minted <= minted'
    BY <2>1
  <2> QED  BY <2>1, <2>2, ShownStill
<1>2. ASSUME NEW k \in Clients, Requests(k) PROVE AsShown'
  <2>1. k = Adder \/ k = Remover \/ k \in Others
    BY DEF Others
  <2> QED  BY <1>2, <2>1, ShownAddRequest, ShownRemoveRequest, ShownOthers
<1> QED  BY <1>1, <1>2, ShownNotArrived, ShownAdding, ShownAdded, ShownRemoving, ShownRemoved, ShownOthers DEF TableNext

LEMMA PageAtFirst == ASSUME TableInit PROVE Tied /\ AtWork /\ AsShown
<1>1. /\ Init /\ table = {} /\ load = [at |-> "arrived", found |-> <<>>] /\ shown = <<>> /\ adding = {} /\ removing = {}
  BY DEF TableInit
<1>2. todo[Adder] = <<>> /\ todo[Remover] = <<>>
  BY <1>1, PagesApart DEF Init
<1>3. load.at = "arrived"
  BY <1>1
<1>4. ListsFit /\ AddsFit /\ RemovesFit
  BY <1>1 DEF ListsFit, AddsFit, RemovesFit
<1> QED  BY <1>1, <1>2, <1>3, <1>4, TiedAtFirst DEF AtWork, AsShown

LEMMA ShownAtRest == ASSUME Shape, Tied, AsShown PROVE TableShowsStored
<1>1. SUFFICES ASSUME load.at = "arrived", adding = {}, removing = {}, ~blurred, NEW f \in table
               PROVE  ToSet(ListOf(f)) = Ids(f) /\ IsInjective(ListOf(f))
  BY DEF TableShowsStored
<1>2. f \in DOMAIN shown /\ ShowsThem(shown[f], f)
  BY <1>1 DEF AsShown, ListsFit
<1>3. UnderWay = {} /\ Pending \notin Ids(f)
  BY <1>1, IdsRange DEF UnderWay
<1> QED  BY <1>1, <1>2, <1>3 DEF ShowsThem, ListOf
-----------------------------------------------------------------------------
(* The theorems *)

\* Annotations go with their fact (factCleanup and its callers): unless an annotation was overtaken
\* by a deletion, or a class was deleted, none is left without a statement of a fact that is there.
THEOREM FactEditsAnnotationsFollow == Spec => []AnnotationsFollowTheirFact
<1>1. Inv /\ [Next]_vars => Inv'
  BY NextGood DEF Good
<1> QED  BY Initial, <1>1, PTL DEF Spec, Inv

\* No edit that replaces a fact loses its annotations.
THEOREM FactEditsAnnotationsOutlive == Spec => AnnotationsOutliveEdits
<1>1. Inv /\ [Next]_vars => Inv'
  BY NextGood DEF Good
<1>2. Inv /\ [Next]_vars => [\A a \in store.annotations \ store'.annotations : Outlive(a)]_vars
  BY NextGood DEF Good
<1> QED  BY Initial, <1>1, <1>2, PTL DEF Spec, AnnotationsOutliveEdits, Outlive

\* The same where a table of results adds and removes annotations while others edit its facts.
THEOREM AnnotationsFollow == TableSpec => []AnnotationsFollowTheirFact
<1>1. Inv /\ [TableNext]_all => Inv'
  BY TableNextGood DEF Good
<1>2. TableInit => Inv
  BY Initial DEF TableInit
<1> QED  BY <1>1, <1>2, PTL DEF TableSpec, Inv

\* Nor does anything the table does lose an annotation to an edit.
THEOREM AnnotationsOutlive == TableSpec => AnnotationsOutliveEdits
<1>1. Inv /\ [TableNext]_all => Inv'
  BY TableNextGood DEF Good
<1>2. TableInit => Inv
  BY Initial DEF TableInit
<1>3. Inv /\ [TableNext]_all => [\A a \in store.annotations \ store'.annotations : Outlive(a)]_vars
  BY TableNextGood DEF Good
<1> QED  BY <1>1, <1>2, <1>3, PTL DEF TableSpec, AnnotationsOutliveEdits, Outlive

\* Forms merge (reconcileAttributeValues, reconcileRelationValues): whatever the clients do meanwhile,
\* and in whatever order, what an edit added or removed is so in the end unless another said otherwise.
\* The relations a form names by their labels must be told apart by them.
THEOREM FormsMergeWithoutTable == ASSUME LabelsApart PROVE Spec => []FormsMerge
<1>1. Inv /\ MergeInv /\ [Next]_vars => Inv' /\ MergeInv'
  BY NextGood, MergesNext DEF Good
<1> QED  BY Initial, MergesAtFirst, MergesAtRest, <1>1, PTL DEF Spec

\* The same where a table of results adds and removes annotations meanwhile.
THEOREM FormsMergeAlways == ASSUME LabelsApart PROVE TableSpec => []FormsMerge
<1>1. Inv /\ MergeInv /\ [TableNext]_all => Inv' /\ MergeInv'
  BY TableNextGood, MergesTableNext DEF Good
<1>2. TableInit => Inv /\ MergeInv
  BY Initial, MergesAtFirst DEF TableInit
<1> QED  BY MergesAtRest, <1>1, <1>2, PTL DEF TableSpec

\* The table agrees with the store (QueryResultsTable, annotation-edits): at rest, a page whose lookup
\* no edit overlapped shows what is stored, whatever succeeded, failed and interleaved before.
THEOREM TableAgrees == TableSpec => []TableShowsStored
<1> DEFINE PageInv == Inv /\ Tied /\ AtWork /\ AsShown
<1>1. TableInit => PageInv
  BY Initial, PageAtFirst DEF TableInit
<1>2. PageInv /\ [TableNext]_all => PageInv'
  <2> SUFFICES ASSUME PageInv, [TableNext]_all PROVE PageInv'
    OBVIOUS
  <2>1. Shape
    BY DEF Inv
  <2>2. Inv' /\ Tied' /\ AtWork' /\ AsShown'
    BY <2>1, TableNextGood, TiedNext, AtWorkNext, ShownNext DEF Good
  <2> QED  BY <2>2
<1>3. PageInv => TableShowsStored
  BY ShownAtRest DEF Inv
<1> HIDE DEF PageInv
<1> QED  BY <1>1, <1>2, <1>3, PTL DEF TableSpec
=============================================================================

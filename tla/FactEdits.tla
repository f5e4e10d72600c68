----------------------------- MODULE FactEdits -----------------------------
(***************************************************************************)
(* Individuals, their facts and the annotations of facts: the forms and    *)
(* dialogs that edit them (MemberForm, the relation modal, deletions), the *)
(* connector's calls behind them, and the requests of the backend's        *)
(* annotation service.  A fact is annotated through a reified statement    *)
(* that repeats it, found or minted when it is first needed.  A request is *)
(* one step, and those of several clients interleave; each may fail, with  *)
(* or without having been executed.  An individual without a class counts  *)
(* as gone, and the relations a label may stand for are all declared.      *)
(***************************************************************************)
EXTENDS Naturals, Sequences, FiniteSets, SequencesExt

CONSTANTS
  Individuals, Classes,
  Single, Repeatable,  \* the attributes
  Relations,
  FieldsOf,            \* the fields of a class's form
  RangeOf,             \* the objects a field takes
  LabelOf,             \* the label of a relation
  Start,               \* individuals, facts and annotations entered before
  Clients,
  Unreliable,          \* bound: the clients whose requests may fail
  MaxEdits,            \* bound on the edits begun
  MaxFailures          \* bound on the requests that fail

None == "none"
Fields == Single \cup Repeatable \cup Relations
Objects == UNION {RangeOf[p] : p \in Fields}
Facts == {f \in Individuals \X Fields \X Objects : f[3] \in RangeOf[f[2]]}

ASSUME FactEditsAssumption ==
  /\ FieldsOf \in [Classes -> SUBSET Fields]
  /\ DOMAIN RangeOf = Fields /\ DOMAIN LabelOf = Relations
  /\ IsFiniteSet(Fields) /\ IsFiniteSet(Facts) /\ Single \cap (Repeatable \cup Relations) = {}
  /\ \A p \in Single : RangeOf[p] \cap Individuals = {}
  /\ Start \in [types : SUBSET (Individuals \X Classes), facts : SUBSET Facts,
                statements : SUBSET [id : Nat, s : Individuals, p : Fields, o : Objects],
                annotations : SUBSET [id : Nat, on : Nat]]
  /\ IsFiniteSet(Start.statements) /\ IsFiniteSet(Start.annotations)
  /\ \A x \in Start.statements \cup Start.annotations :
       x.id \in 1..Cardinality(Start.statements) + Cardinality(Start.annotations)
  /\ \A st, other \in Start.statements : st.id = other.id => st = other
  /\ \A a \in Start.annotations : \E st \in Start.statements : st.id = a.on /\ <<st.s, st.p, st.o>> \in Start.facts
  /\ MaxEdits \in Nat /\ MaxFailures \in Nat

VARIABLES
  store,   \* the instances graphs
  todo,    \* the requests each client's edit has still to make
  form,    \* the edit form a client has open, with the values it started from
  ended,   \* how the last edit of a client ended
  asked,   \* the facts that edits said should, or may, be there or not
  marks,   \* what happened on the way
  minted,  \* statements and annotations minted
  edits, failures

vars == <<store, todo, form, ended, asked, marks, minted, edits, failures>>
-----------------------------------------------------------------------------
Typed(i) == \E c \in Classes : <<i, c>> \in store.types
ValuesOf(i, p) == {f \in store.facts : f[1] = i /\ f[2] = p}
FactOf(st) == <<st.s, st.p, st.o>>
Reifying(facts) == {st \in store.statements : FactOf(st) \in facts}
On(statements) == {a \in store.annotations : \E st \in statements : a.on = st.id}
AllFacts(I, P) == {f \in Facts : f[1] \in I /\ f[2] \in P}

Init ==
  /\ store = Start
  /\ todo = [k \in Clients |-> <<>>] /\ form = [k \in Clients |-> {}] /\ ended = [k \in Clients |-> "well"]
  /\ asked = [add |-> {}, remove |-> {}, mayAdd |-> {}, mayRemove |-> {}]
  /\ minted = Cardinality(Start.statements) + Cardinality(Start.annotations) /\ marks = {} /\ edits = 0 /\ failures = 0
-----------------------------------------------------------------------------
Call(k) == Head(todo[k])
Now(k, op) == todo[k] # <<>> /\ Call(k)[1] = op

Breaks(k) ==
  /\ todo' = [todo EXCEPT ![k] = <<>>] /\ ended' = [ended EXCEPT ![k] = "badly"]
  /\ marks' = marks \cup {"broken"}

\* The update is done, and the edit goes on with more calls, or has lost the answer and stops.
WriteThen(k, st, calls, mark) ==
  /\ store' = st
  /\ \/ /\ todo' = [todo EXCEPT ![k] = calls \o Tail(@)] /\ marks' = marks \cup mark
        /\ UNCHANGED <<ended, failures>>
     \/ /\ k \in Unreliable /\ failures < MaxFailures /\ failures' = failures + 1
        /\ todo' = [todo EXCEPT ![k] = <<>>] /\ ended' = [ended EXCEPT ![k] = "badly"]
        /\ marks' = marks \cup mark \cup {"broken"}

Write(k, st) == WriteThen(k, st, <<>>, {}) /\ UNCHANGED minted
Becomes(k, calls) ==
  /\ todo' = [todo EXCEPT ![k] = calls \o Tail(@)]
  /\ UNCHANGED <<store, ended, marks, minted, failures>>
Throw(k) == Breaks(k) /\ UNCHANGED <<store, minted, failures>>

Fail(k) ==
  /\ todo[k] # <<>> /\ k \in Unreliable /\ failures < MaxFailures /\ failures' = failures + 1
  /\ Breaks(k)
  /\ UNCHANGED <<store, form, asked, minted, edits>>
-----------------------------------------------------------------------------
\* insertIndividual: refuses a member that is there.
InsertIndividual(k, i, c) ==
  IF <<i, c>> \in store.types THEN Throw(k) ELSE Write(k, [store EXCEPT !.types = @ \cup {<<i, c>>}])

\* Mutant of Without: one statement of each fact is cleaned up.
Without_One(facts, statements) ==
  LET gone == IF statements = {} THEN {} ELSE {CHOOSE st \in statements : TRUE} IN
  [store EXCEPT !.facts = @ \ facts, !.statements = @ \ gone, !.annotations = @ \ On(gone)]

\* The store without the facts, and without the statements and their annotations (factCleanup).
Without(facts, statements) ==
  [store EXCEPT !.facts = @ \ facts, !.statements = @ \ statements, !.annotations = @ \ On(statements)]

\* changeIndividualClass: the values the new class has no field for go with it.
ChangeIndividualClass(k, i, c, dropped) ==
  LET lost == AllFacts({i}, dropped) IN
  IF ~Typed(i) THEN Throw(k)
  ELSE Write(k, [Without(lost, Reifying(lost)) EXCEPT !.types = {t \in @ : t[1] # i} \cup {<<i, c>>}])

\* applyAttributeSubmissions: the graph is looked up once, before the first value.
ApplyAttributeSubmissions(k, i, calls) == IF ~Typed(i) THEN Throw(k) ELSE Becomes(k, calls)

\* The statements of a value that is replaced; without an old value, all of that field.
Held(i, p) == IF ValuesOf(i, p) = {} THEN Reifying(AllFacts({i}, {p})) ELSE Reifying(ValuesOf(i, p))

\* Mutant of Restated: the statements and annotations go with the old value.
Restated_Cleans(facts, statements, p, o) == Without(facts, statements)

\* The store without the facts, whose statements now state another predicate and object.
Restated(facts, statements, p, o) ==
  [store EXCEPT !.facts = @ \ facts,
                !.statements = (@ \ statements) \cup {[st EXCEPT !.p = p, !.o = o] : st \in statements}]

\* setIndividualAttributeValue.
SetIndividualAttributeValue(k, i, p, v) ==
  IF v = None THEN Write(k, Without(ValuesOf(i, p), Held(i, p)))
  ELSE Write(k, [Restated(ValuesOf(i, p), Held(i, p), p, v) EXCEPT !.facts = @ \cup {<<i, p, v>>}])

\* addIndividualAttributeValue, removeIndividualAttributeValue.
AddIndividualAttributeValue(k, f) == Write(k, [store EXCEPT !.facts = @ \cup {f}])
RemoveIndividualAttributeValue(k, f) == Write(k, Without({f}, Reifying({f})))

\* resolveOrMintPredicate: any relation of that label.
Resolved(label) == {p \in Relations : LabelOf[p] = label}

\* insertAssertion, insertIndividualClassRelation: the relation is named by its label.
InsertAssertion(k, i, label, o) ==
  IF ~Typed(i) THEN Throw(k) ELSE \E p \in Resolved(label) : Write(k, [store EXCEPT !.facts = @ \cup {<<i, p, o>>}])

\* deleteAssertion, deleteIndividualClassRelation: exactly one triple.
DeleteAssertion(k, f) == IF ~Typed(f[1]) THEN Throw(k) ELSE Write(k, Without({f}, Reifying({f})))

\* updateIndividualRelation: the fact, if it is there, and its statements are rewritten.
UpdateIndividualRelation(k, f, label, o) ==
  IF ~Typed(f[1]) THEN Throw(k)
  ELSE \E p \in Resolved(label) :
         LET new == <<f[1], p, o>> IN
         IF new = f THEN Becomes(k, <<>>)
         ELSE Write(k, IF f \in store.facts
                       THEN [Restated({f}, Reifying({f}), p, o) EXCEPT !.facts = @ \cup {new}] ELSE store)

\* deleteIndividual: what it says goes, with the annotations; what is said of it stays.
DeleteIndividual(k, i) ==
  IF ~Typed(i) THEN Throw(k)
  ELSE LET said == {f \in store.facts : f[1] = i}
           about == {st \in store.statements : st.s = i}
       IN  Write(k, [Without(said, about) EXCEPT !.types = {t \in @ : t[1] # i}])

\* The second update of deleteIdentity takes every triple whose object it is, in statements, too.
DeleteIncoming(k, i) ==
  LET cut(st) == [st EXCEPT !.s = IF @ = i THEN None ELSE @, !.o = IF @ = i THEN None ELSE @] IN
  /\ WriteThen(k, [store EXCEPT !.facts = {f \in @ : f[3] # i}, !.statements = {cut(st) : st \in @}], <<>>, {"swept"})
  /\ UNCHANGED minted

\* The end of deleteClass: its members and what they say, but not the statements of it.
DropMembers(k, c) ==
  LET members == {i \in Individuals : <<i, c>> \in store.types} IN
  /\ WriteThen(k, [store EXCEPT !.facts = {f \in @ : f[1] \notin members},
                                !.types = {t \in @ : t[1] \notin members}], <<>>, {"swept"})
  /\ UNCHANGED minted
-----------------------------------------------------------------------------
\* ensureReifiedFact, of connector and backend: a statement that is there is used; else one is minted.
EnsureReifiedFact(k, f, then) ==
  IF ~Typed(f[1]) THEN Throw(k)
  ELSE IF Reifying({f}) = {} THEN Becomes(k, <<<<"reify", f, then>>>>)
  ELSE \E st \in Reifying({f}) : Becomes(k, IF then THEN <<<<"annotate", f, st.id>>>> ELSE <<>>)

Reify(k, f, then) ==
  LET id == minted + 1 IN
  /\ minted' = id
  /\ WriteThen(k, [store EXCEPT !.statements = @ \cup {[id |-> id, s |-> f[1], p |-> f[2], o |-> f[3]]}],
               IF then THEN <<<<"annotate", f, id>>>> ELSE <<>>, {})

\* The last request of Add: the annotation is inserted whatever became of its statement.
Annotate(k, f, on) ==
  IF ~Typed(f[1]) THEN Throw(k)
  ELSE /\ minted' = minted + 1
       /\ WriteThen(k, [store EXCEPT !.annotations = @ \cup {[id |-> minted + 1, on |-> on]}], <<>>,
                    IF \E st \in store.statements : st.id = on /\ FactOf(st) \in store.facts THEN {} ELSE {"overtaken"})

\* Delete: one annotation, and nothing else.
DeleteAnnotation(k, id) == Write(k, [store EXCEPT !.annotations = {a \in @ : a.id # id}])

\* The next request of a client.
Step(k) ==
  /\ todo[k] # <<>>
  /\ LET call == Call(k) IN
     \/ Now(k, "insertIndividual") /\ InsertIndividual(k, call[2], call[3])
     \/ Now(k, "changeClass") /\ ChangeIndividualClass(k, call[2], call[3], call[4])
     \/ Now(k, "attributes") /\ ApplyAttributeSubmissions(k, call[2], call[3])
     \/ Now(k, "set") /\ SetIndividualAttributeValue(k, call[2], call[3], call[4])
     \/ Now(k, "add") /\ AddIndividualAttributeValue(k, call[2])
     \/ Now(k, "remove") /\ RemoveIndividualAttributeValue(k, call[2])
     \/ Now(k, "insertAssertion") /\ InsertAssertion(k, call[2], call[3], call[4])
     \/ Now(k, "deleteAssertion") /\ DeleteAssertion(k, call[2])
     \/ Now(k, "updateRelation") /\ UpdateIndividualRelation(k, call[2], call[3], call[4])
     \/ Now(k, "deleteIndividual") /\ DeleteIndividual(k, call[2])
     \/ Now(k, "deleteIncoming") /\ DeleteIncoming(k, call[2])
     \/ Now(k, "dropMembers") /\ DropMembers(k, call[2])
     \/ Now(k, "ensureReified") /\ EnsureReifiedFact(k, call[2], call[3])
     \/ Now(k, "reify") /\ Reify(k, call[2], call[3])
     \/ Now(k, "annotate") /\ Annotate(k, call[2], call[3])
     \/ Now(k, "deleteAnnotation") /\ DeleteAnnotation(k, call[2])
  /\ UNCHANGED <<form, asked, edits>>
-----------------------------------------------------------------------------
\* An edit starts; it asks for facts to be there or not, or may add or remove some.
Begin(k, calls, add, remove, mayAdd, mayRemove) ==
  /\ todo[k] = <<>> /\ edits < MaxEdits /\ edits' = edits + 1
  /\ todo' = [todo EXCEPT ![k] = calls] /\ ended' = [ended EXCEPT ![k] = "well"]
  /\ asked' = [add |-> asked.add \cup add, remove |-> asked.remove \cup remove,
               mayAdd |-> asked.mayAdd \cup mayAdd, mayRemove |-> asked.mayRemove \cup mayRemove]
  /\ UNCHANGED <<store, marks, minted, failures>>

Named(i, label, O) == {f \in Facts : f[1] = i /\ f[2] \in Resolved(label) /\ f[3] \in O}

\* The edit form opens on what is stored of the fields of the class.
OpenForm(k, i, c) ==
  /\ form[k] = {} /\ todo[k] = <<>> /\ <<i, c>> \in store.types
  /\ form' = [form EXCEPT ![k] = {[of |-> i, class |-> c, base |-> store.facts \cap AllFacts({i}, FieldsOf[c])]}]
  /\ UNCHANGED <<store, todo, ended, asked, marks, minted, edits, failures>>

\* The values in the form for another: one change to one field, or two.
Changes(opened) ==
  {wanted \in SUBSET AllFacts({opened.of}, FieldsOf[opened.class]) :
     /\ \A f, g \in wanted : (f[2] = g[2] /\ f[2] \in Single) => f = g
     /\ Cardinality(wanted \ opened.base) <= 1 /\ Cardinality(opened.base \ wanted) <= 1}

\* reconcileAttributeValues, reconcileRelationValues: the calls that turn the old values into the new.
CallsFor(i, p, added, removed) ==
  LET new == SetToSeq({f \in added : f[2] = p})
      old == SetToSeq({f \in removed : f[2] = p})
  IN  CASE p \in Single -> IF new \o old = <<>> THEN <<>>
                           ELSE <<<<"set", i, p, IF new = <<>> THEN None ELSE new[1][3]>>>>
        [] p \in Repeatable -> [n \in DOMAIN new |-> <<"add", new[n]>>] \o [n \in DOMAIN old |-> <<"remove", old[n]>>]
        [] OTHER -> [n \in DOMAIN new |-> <<"insertAssertion", i, LabelOf[p], new[n][3]>>]
                      \o [n \in DOMAIN old |-> <<"deleteAssertion", old[n]>>]

\* Mutant of Submissions: every value in the form is written again.
Submissions_Whole(i, P, base, wanted) ==
  FlattenSeq([n \in DOMAIN SetToSeq(P) |-> CallsFor(i, SetToSeq(P)[n], wanted, AllFacts({i}, P) \ wanted)])

Submissions(i, P, base, wanted) ==
  FlattenSeq([n \in DOMAIN SetToSeq(P) |-> CallsFor(i, SetToSeq(P)[n], wanted \ base, base \ wanted)])

\* handleEditSubmit: the class first, then attributes and relations; a dropped field is not written.
SubmitForm(k, opened, wanted, c) ==
  LET i == opened.of
      dropped == IF c = opened.class THEN {} ELSE {f[2] : f \in opened.base} \ FieldsOf[c]
      kept == FieldsOf[opened.class] \ dropped
      attributes == Submissions(i, kept \ Relations, opened.base, wanted)
      relations == Submissions(i, kept \cap Relations, opened.base, wanted)
      set == AllFacts({i}, Single)
      free == AllFacts({i}, kept) \ set
  IN
  /\ Begin(k, (IF c = opened.class THEN <<>> ELSE <<<<"changeClass", i, c, dropped>>>>)
              \o (IF attributes = <<>> THEN <<>> ELSE <<<<"attributes", i, attributes>>>>) \o relations,
           (wanted \ opened.base) \cap free, ((opened.base \ wanted) \cap free) \cup AllFacts({i}, dropped \ Single),
           {}, {})
  /\ form' = [form EXCEPT ![k] = {}]

\* Canvas and resource page: members, relations drawn, edited and deleted, deletions, annotations.
Draw(k) ==
  /\ form[k] = {} /\ UNCHANGED form
  /\ \/ \E i \in Individuals, c \in Classes : Begin(k, <<<<"insertIndividual", i, c>>>>, {}, {}, {}, {})
     \/ \E i \in Individuals, p \in Relations : \E o \in RangeOf[p] :
          Typed(i) /\ Begin(k, <<<<"insertAssertion", i, LabelOf[p], o>>>>, {}, {}, Named(i, LabelOf[p], {o}), {})
     \/ \E f \in store.facts, p \in Relations : \E o \in RangeOf[p] :
          /\ f[2] \in Relations
          /\ Begin(k, <<<<"ensureReified", f, FALSE>>, <<"updateRelation", f, LabelOf[p], o>>>>, {}, {},
                   Named(f[1], LabelOf[p], {o}), {f})
     \/ \E f \in store.facts : f[2] \in Relations /\ Begin(k, <<<<"deleteAssertion", f>>>>, {}, {f}, {}, {})

Drop(k) ==
  /\ form[k] = {} /\ UNCHANGED form
  /\ \/ \E i \in Individuals :
          /\ Typed(i)
          /\ \/ Begin(k, <<<<"deleteIndividual", i>>>>, {}, AllFacts({i}, Fields \ Single), {}, {})
             \/ Begin(k, <<<<"deleteIndividual", i>>, <<"deleteIncoming", i>>>>, {},
                      {f \in Facts : (f[1] = i /\ f[2] \notin Single) \/ f[3] = i}, {}, {})
     \/ \E c \in Classes : Begin(k, <<<<"dropMembers", c>>>>, {}, {}, {}, Facts)

\* A fact somebody saw in a table of results, and annotates; or an annotation to delete.
AnnotateFact(k, f) ==
  Begin(k, <<<<"ensureReified", f, TRUE>>>>, {}, {}, {}, {}) /\ UNCHANGED form
RemoveAnnotation(k, id) ==
  Begin(k, <<<<"deleteAnnotation", id>>>>, {}, {}, {}, {}) /\ UNCHANGED form

Edit(k) ==
  /\ todo[k] = <<>> /\ edits < MaxEdits
  /\ \/ \E i \in Individuals, c \in Classes : OpenForm(k, i, c)
     \/ \E opened \in form[k], c \in Classes : \E wanted \in Changes(opened) : SubmitForm(k, opened, wanted, c)
     \/ Draw(k) \/ Drop(k)
     \/ form[k] = {} /\ \E f \in store.facts : AnnotateFact(k, f)
     \/ form[k] = {} /\ \E a \in store.annotations : RemoveAnnotation(k, a.id)

Next == \E k \in Clients : Step(k) \/ Fail(k) \/ Edit(k)

Spec == Init /\ [][Next]_vars
-----------------------------------------------------------------------------
\* Types: every variable stays in its domain.
TypeOK ==
  /\ store.types \subseteq Individuals \X Classes /\ store.facts \subseteq Facts
  /\ \A st \in store.statements : st.id \in 1..minted /\ st.p \in Fields
  /\ \A a \in store.annotations : a.id \in 1..minted /\ a.on \in 1..minted
  /\ ended \in [Clients -> {"well", "badly"}] /\ marks \subseteq {"broken", "overtaken", "swept"}
  /\ edits \in 0..MaxEdits /\ failures \in 0..MaxFailures

\* Annotations go with their fact: each hangs on a statement of a fact that is there, however many
\* statements a fact has, and whatever was replaced, renamed, cleared or deleted.
AnnotationsFollowTheirFact ==
  marks \cap {"overtaken", "swept"} = {} =>
    \A a \in store.annotations : \E st \in store.statements : st.id = a.on /\ FactOf(st) \in store.facts

\* No annotation is lost by an edit that replaces its fact: one goes by its own deletion, or in a
\* step that only takes facts away, its own among them.
AnnotationsOutliveEdits ==
  [][\A a \in store.annotations \ store'.annotations :
       \/ \E k \in Clients : Now(k, "deleteAnnotation") /\ Call(k)[2] = a.id
       \/ store'.facts \subseteq store.facts
          /\ \A st \in store.statements : st.id = a.on => FactOf(st) \notin store'.facts]_vars

\* Forms merge: at rest, what forms have added and nothing has removed is there, and what they have
\* removed and nothing has added is not, though each form compared with the values it opened on.
FormsMerge ==
  ((\A k \in Clients : todo[k] = <<>>) /\ "broken" \notin marks) =>
    /\ asked.add \ (asked.remove \cup asked.mayRemove) \subseteq store.facts
    /\ store.facts \cap asked.remove \subseteq asked.add \cup asked.mayAdd

\* Annotations are removed with the fact, by whatever removes it (STORY-184).
AnnotationsGoWithTheirFact ==
  "overtaken" \notin marks =>
    \A a \in store.annotations : \E st \in store.statements : st.id = a.on /\ FactOf(st) \in store.facts
=============================================================================

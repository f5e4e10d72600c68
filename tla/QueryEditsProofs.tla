-------------------------- MODULE QueryEditsProofs --------------------------
(***************************************************************************)
(* Proofs about QueryEdits, for any schema, any stored models and any      *)
(* number of edits.                                                        *)
(***************************************************************************)
EXTENDS QueryEdits, FiniteSetTheorems, WellFoundedInduction, TLAPS

(***************************************************************************)
(* Numbers.  Finite sets are well founded under inclusion, which stands in *)
(* for induction: a least set that broke the claim has a smaller one.      *)
(***************************************************************************)
(* A finite set of numbers has a bound. *)
LEMMA FiniteIsBounded ==
  ASSUME NEW S, S \subseteq Nat, IsFiniteSet(S)
  PROVE  \E b \in Nat : \A n \in S : n <= b
<1> DEFINE Unbounded == {T \in FiniteSubsetsOf(Nat) : ~\E b \in Nat : \A n \in T : n <= b}
<1>1. SUFFICES ASSUME Unbounded # {} PROVE FALSE
  BY DEF FiniteSubsetsOf
<1>2. PICK T \in Unbounded : \A U \in Unbounded : <<U, T>> \notin StrictSubsetOrdering(Nat)
  <2>1. IsWellFoundedOn(StrictSubsetOrdering(Nat), FiniteSubsetsOf(Nat))
    BY FS_StrictSubsetOrderingWellFounded
  <2>2. Unbounded \subseteq FiniteSubsetsOf(Nat)
    OBVIOUS
  <2> HIDE DEF Unbounded
  <2> QED  BY <1>1, <2>1, <2>2, WFMin
<1>3. T \in SUBSET Nat /\ IsFiniteSet(T) /\ ~\E b \in Nat : \A n \in T : n <= b
  BY <1>2 DEF FiniteSubsetsOf
<1>4. PICK x \in T : TRUE
  BY <1>3
<1>5. T \ {x} \in FiniteSubsetsOf(Nat)
  BY <1>3, FS_RemoveElement DEF FiniteSubsetsOf
<1>6. <<T \ {x}, T>> \in StrictSubsetOrdering(Nat)
  BY <1>3, <1>4 DEF StrictSubsetOrdering
<1>7. PICK b \in Nat : \A n \in T \ {x} : n <= b
  BY <1>2, <1>5, <1>6
<1>8. x \in Nat
  BY <1>3, <1>4
<1>9. \A n \in T : n <= b + x
  <2> TAKE n \in T
  <2>1. n \in Nat
    BY <1>3
  <2>2. n = x \/ n <= b
    BY <1>7
  <2> QED  BY <1>8, <2>1, <2>2
<1> QED  BY <1>3, <1>8, <1>9

(* A set of numbers has a least one. *)
LEMMA LeastNumber ==
  ASSUME NEW S, S \subseteq Nat, S # {}
  PROVE  \E n \in S : \A k \in S : n <= k
<1> DEFINE Below0 == {0..n : n \in S}
<1>1. Below0 \subseteq FiniteSubsetsOf(Nat)
  <2> SUFFICES ASSUME NEW n \in S PROVE 0..n \in FiniteSubsetsOf(Nat)
    OBVIOUS
  <2>1. n \in Nat
    OBVIOUS
  <2> QED  BY <2>1, FS_Interval DEF FiniteSubsetsOf
<1>2. Below0 # {}
  OBVIOUS
<1>3. IsWellFoundedOn(StrictSubsetOrdering(Nat), FiniteSubsetsOf(Nat))
  BY FS_StrictSubsetOrderingWellFounded
<1>4. PICK T \in Below0 : \A U \in Below0 : <<U, T>> \notin StrictSubsetOrdering(Nat)
  <2> HIDE DEF Below0
  <2> QED  BY <1>1, <1>2, <1>3, WFMin
<1>5. PICK n \in S : T = 0..n
  OBVIOUS
<1> SUFFICES ASSUME NEW k \in S, ~(n <= k) PROVE FALSE
  BY <1>5
<1>6. k \in Nat /\ n \in Nat /\ k < n
  OBVIOUS
<1>7. 0..k \subseteq 0..n /\ n \in 0..n /\ n \notin 0..k
  BY <1>6
<1>8. <<0..k, 0..n>> \in StrictSubsetOrdering(Nat)
  BY <1>6, <1>7 DEF StrictSubsetOrdering
<1> QED  BY <1>4, <1>5, <1>8

(* The greatest of a finite set of numbers. *)
LEMMA GreatestNumber ==
  ASSUME NEW S, S \subseteq Nat, IsFiniteSet(S), S # {}
  PROVE  \E n \in S : \A k \in S : k <= n
<1> DEFINE Bounds == {b \in Nat : \A n \in S : n <= b}
<1>1. Bounds # {} /\ Bounds \subseteq Nat
  BY FiniteIsBounded
<1>2. PICK b \in Bounds : \A c \in Bounds : b <= c
  <2> HIDE DEF Bounds
  <2> QED  BY <1>1, LeastNumber
<1>3. b \in S
  <2> SUFFICES ASSUME b \notin S PROVE FALSE
    OBVIOUS
  <2> PICK n \in S : TRUE
    OBVIOUS
  <2>1. b # 0
    <3>1. n <= b /\ n \in Nat /\ n # b
      OBVIOUS
    <3> QED  BY <3>1
  <2>2. b - 1 \in Nat /\ \A k \in S : k <= b - 1
    <3>1. \A k \in S : k \in Nat /\ k <= b /\ k # b
      OBVIOUS
    <3> QED  BY <2>1, <3>1
  <2> QED  BY <1>2, <2>2
<1> QED  BY <1>2, <1>3

(* The image of a finite set. *)
LEMMA FiniteImage ==
  ASSUME NEW S, IsFiniteSet(S), NEW f, f \in [S -> {f[x] : x \in S}]
  PROVE  IsFiniteSet({f[x] : x \in S})
<1>1. f \in Surjection(S, {f[x] : x \in S})
  BY DEF Surjection
<1> QED  BY <1>1, FS_Surjection

(* nextId's id is none of those taken. *)
LEMMA FreshIsFresh ==
  ASSUME NEW ids, ids \subseteq Id, IsFiniteSet(ids), NEW prefix \in Prefixes
  PROVE  Fresh(prefix, ids) \in Id /\ Fresh(prefix, ids) \notin ids
<1> DEFINE mine == {x \in ids : x[1] = prefix}
           numbers == {id[2] : id \in mine}
           taken == {0} \cup numbers
           top == CHOOSE n \in taken : \A t \in taken : t <= n
<1>1. IsFiniteSet(mine)
  BY FS_Subset
<1>2. IsFiniteSet(numbers)
  <2> DEFINE f == [x \in mine |-> x[2]]
  <2>1. numbers = {f[x] : x \in mine}
    OBVIOUS
  <2>2. f \in [mine -> {f[x] : x \in mine}]
    OBVIOUS
  <2> HIDE DEF mine, f, numbers
  <2> QED  BY <1>1, <2>1, <2>2, FiniteImage
<1>3. IsFiniteSet(taken)
  BY <1>2, FS_Singleton, FS_Union
<1>0. \A x \in ids : x[1] \in Prefixes /\ x[2] \in Nat /\ x = <<x[1], x[2]>>
  BY DEF Id
<1>4. taken \subseteq Nat /\ taken # {}
  BY <1>0
<1>5. top \in taken /\ \A t \in taken : t <= top
  <2> HIDE DEF taken
  <2>1. \E n \in taken : \A t \in taken : t <= n
    BY <1>3, <1>4, GreatestNumber
  <2> QED  BY <2>1
<1>6. Fresh(prefix, ids) = <<prefix, 1 + top>>
  BY DEF Fresh
<1>7. top \in Nat
  BY <1>4, <1>5
<1>8. 1 + top \notin taken
  <2> HIDE DEF taken, top
  <2> QED  BY <1>4, <1>5, <1>7
<1>9. <<prefix, 1 + top>> \notin ids
  <2> HIDE DEF top
  <2> DEFINE new == <<prefix, 1 + top>>
  <2>1. new[1] = prefix /\ new[2] = 1 + top
    OBVIOUS
  <2> HIDE DEF new
  <2>2. new \in ids => new[2] \in taken
    BY <2>1
  <2> QED  BY <1>8, <2>1, <2>2 DEF new
<1>10. <<prefix, 1 + top>> \in Id
  <2> DEFINE n == 1 + top
  <2>1. n \in Nat
    <3> HIDE DEF top
    <3> QED  BY <1>7
  <2> HIDE DEF n
  <2>2. <<prefix, n>> \in Prefixes \X Nat
    BY <2>1
  <2> QED  BY <2>2 DEF Id, n
<1> QED  BY <1>6, <1>9, <1>10

(***************************************************************************)
(* The inductive invariant of the references.  A sum stays numeric because *)
(* no two columns share an id.                                             *)
(***************************************************************************)
ColumnsApart(m) == \A x, y \in m.columns : x.id = y.id => x = y

Sound(m) == WellFormed(m) /\ ColumnsApart(m) /\ ReferencesResolve(m) /\ SumsAreNumeric(m)

(* The ids of things that have one. *)
LEMMA FiniteIds ==
  ASSUME NEW S, IsFiniteSet(S)
  PROVE  IsFiniteSet(Ids(S))
<1> DEFINE f == [x \in S |-> x.id]
<1>1. Ids(S) = {f[x] : x \in S}
  BY DEF Ids
<1>2. f \in [S -> {f[x] : x \in S}]
  OBVIOUS
<1> HIDE DEF f
<1> QED  BY <1>1, <1>2, FiniteImage

LEMMA AddingAColumn ==
  ASSUME NEW m, Sound(m), NEW hop \in {None} \cup Ids(m.hops), NEW source \in Attributes
  PROVE  Sound(AddColumn(m, hop, source))
<1> DEFINE id == Fresh("c", Ids(m.columns))
           c == [id |-> id, hop |-> hop, source |-> source]
           n == [m EXCEPT !.columns = @ \cup {c}]
<1>1. SUFFICES Sound(n)
  BY DEF AddColumn
<1>2. m \in QueryModel
  BY DEF Sound, WellFormed
<1>3. id \in Id /\ id \notin Ids(m.columns)
  <2>1. IsFiniteSet(Ids(m.columns)) /\ Ids(m.columns) \subseteq Id
    BY FiniteIds DEF Sound, WellFormed, QueryModel, Ids
  <2>2. "c" \in Prefixes
    BY DEF Prefixes
  <2> QED  BY <2>1, <2>2, FreshIsFresh
<1> HIDE DEF id
<1>4. hop \in {None} \cup Id
  BY <1>2 DEF QueryModel, Ids
<1>5. n.columns = m.columns \cup {c} /\ n.hops = m.hops /\ n.filters = m.filters /\ n.sort = m.sort
      /\ n.rules = m.rules /\ n.aggregated = m.aggregated /\ n.groupBy = m.groupBy
      /\ n.measures = m.measures /\ n.having = m.having
  BY <1>2 DEF QueryModel
<1>6. n \in QueryModel
  BY <1>2, <1>3, <1>4 DEF QueryModel
<1>7. IsFiniteSet(n.columns)
  <2> HIDE DEF c, n
  <2>1. IsFiniteSet(m.columns)
    BY DEF Sound, WellFormed
  <2> QED  BY <1>5, <2>1, FS_AddElement
<1>8. WellFormed(n)
  BY <1>5, <1>6, <1>7 DEF Sound, WellFormed
<1> HIDE DEF n
<1>9. ColumnsApart(n)
  BY <1>3, <1>5 DEF Sound, ColumnsApart, Ids
<1>10. ReferencesResolve(n)
  BY <1>5 DEF Sound, ReferencesResolve, Ids, Aliases
<1>11. SumsAreNumeric(n)
  BY <1>3, <1>5 DEF Sound, SumsAreNumeric, ReferencesResolve, Ids
<1> QED  BY <1>8, <1>9, <1>10, <1>11 DEF Sound

(* What removing columns leaves: references to them go, counts of them count the entity. *)
Lost(m, gone) == {s \in m.measures : s.of \in gone /\ s.fn = "sum"}
Dropped(m, gone) == {s.alias : s \in Lost(m, gone)}
Kept(s, gone) == [s EXCEPT !.of = IF @ \in gone THEN None ELSE @]

LEMMA ColumnsRemoved ==
  ASSUME NEW m, m \in QueryModel, NEW gone
  PROVE  LET n == RemoveColumns(m, gone)
         IN  /\ n \in QueryModel
             /\ n.columns = {c \in m.columns : c.id \notin gone}
             /\ n.hops = m.hops /\ n.filters = m.filters /\ n.root = m.root
             /\ n.sort = m.sort \ (gone \cup Dropped(m, gone)) /\ n.rules = m.rules \ gone
             /\ n.aggregated = m.aggregated /\ n.groupBy = m.groupBy \ gone
             /\ n.measures = {Kept(s, gone) : s \in m.measures \ Lost(m, gone)}
             /\ n.having = m.having \ Dropped(m, gone)
<1> DEFINE n == RemoveColumns(m, gone)
<1>2. n.columns = {c \in m.columns : c.id \notin gone} /\ n.hops = m.hops /\ n.filters = m.filters
      /\ n.root = m.root
      /\ n.sort = m.sort \ (gone \cup Dropped(m, gone)) /\ n.rules = m.rules \ gone
      /\ n.aggregated = m.aggregated /\ n.groupBy = m.groupBy \ gone
      /\ n.measures = {Kept(s, gone) : s \in m.measures \ Lost(m, gone)}
      /\ n.having = m.having \ Dropped(m, gone)
  BY DEF QueryModel, RemoveColumns, Lost, Dropped, Kept
<1>3. \A s \in m.measures : Kept(s, gone) \in [fn : {"count", "sum"}, of : {None} \cup Id, alias : Id]
  BY DEF QueryModel, Kept
<1>4. n \in QueryModel
  <2>1. n.measures \subseteq [fn : {"count", "sum"}, of : {None} \cup Id, alias : Id]
    BY <1>2, <1>3
  <2> QED  BY <1>2, <2>1 DEF QueryModel, RemoveColumns
<1> QED  BY <1>2, <1>4

LEMMA RemovingColumns ==
  ASSUME NEW m, Sound(m), NEW gone
  PROVE  Sound(RemoveColumns(m, gone))
<1> DEFINE lost == Lost(m, gone)
           dropped == Dropped(m, gone)
           kept(s) == Kept(s, gone)
           n == RemoveColumns(m, gone)
<1>1. m \in QueryModel
  BY DEF Sound, WellFormed
<1>2. n.columns = {c \in m.columns : c.id \notin gone} /\ n.hops = m.hops /\ n.filters = m.filters
      /\ n.sort = m.sort \ (gone \cup dropped) /\ n.rules = m.rules \ gone
      /\ n.aggregated = m.aggregated /\ n.groupBy = m.groupBy \ gone
      /\ n.measures = {kept(s) : s \in m.measures \ lost} /\ n.having = m.having \ dropped
  BY <1>1, ColumnsRemoved
<1>4. n \in QueryModel
  BY <1>1, ColumnsRemoved
<1>3. \A s \in m.measures : /\ kept(s).alias = s.alias /\ kept(s).fn = s.fn
                            /\ kept(s).of = IF s.of \in gone THEN None ELSE s.of
  BY <1>1 DEF QueryModel, Kept
<1>5. IsFiniteSet(n.columns) /\ IsFiniteSet(n.measures)
  <2>1. IsFiniteSet(n.columns)
    BY <1>2, FS_Subset DEF Sound, WellFormed
  <2>2. IsFiniteSet(m.measures \ lost)
    BY FS_Subset DEF Sound, WellFormed
  <2> DEFINE f == [s \in m.measures \ lost |-> kept(s)]
  <2>3. n.measures = {f[s] : s \in m.measures \ lost} /\ f \in [m.measures \ lost -> {f[s] : s \in m.measures \ lost}]
    BY <1>2
  <2> HIDE DEF f, lost, kept
  <2> QED  BY <2>1, <2>2, <2>3, FiniteImage
<1> HIDE DEF n
<1>6. WellFormed(n)
  <2>1. ~m.aggregated => n.groupBy = {} /\ n.measures = {} /\ n.having = {}
    BY <1>2 DEF Sound, WellFormed
  <2> QED  BY <1>2, <1>4, <1>5, <2>1 DEF Sound, WellFormed
<1>7. ColumnsApart(n)
  BY <1>2 DEF Sound, ColumnsApart
<1>8. ReferencesResolve(n)
  <2>1. m.sort \subseteq Ids(m.columns) \cup Aliases(m) /\ m.having \subseteq Aliases(m)
        /\ m.rules \cup m.groupBy \cup ({s.of : s \in m.measures} \ {None}) \subseteq Ids(m.columns)
    BY DEF Sound, ReferencesResolve
  <2>2. Ids(m.columns) \ gone = Ids(n.columns)
    BY <1>2 DEF Ids
  <2>3. Aliases(m) \ dropped \subseteq Aliases(n)
    <3> SUFFICES ASSUME NEW a \in Aliases(m), a \notin dropped PROVE a \in Aliases(n)
      OBVIOUS
    <3> PICK s \in m.measures : s.alias = a
      BY DEF Aliases
    <3>1. s \notin lost
      BY DEF Dropped
    <3>2. kept(s) \in n.measures /\ kept(s).alias = a
      BY <1>2, <1>3, <3>1
    <3> QED  BY <3>2 DEF Aliases
  <2>4. {s.of : s \in n.measures} \ {None} \subseteq Ids(m.columns) \ gone
    <3> SUFFICES ASSUME NEW t \in n.measures, t.of # None PROVE t.of \in Ids(m.columns) \ gone
      OBVIOUS
    <3> PICK s \in m.measures \ lost : t = kept(s)
      BY <1>2
    <3>1. t.of = IF s.of \in gone THEN None ELSE s.of
      BY <1>3
    <3> QED  BY <2>1, <3>1
  <2>5. n.rules \cup n.groupBy \cup ({s.of : s \in n.measures} \ {None}) \subseteq Ids(n.columns)
    BY <1>2, <2>1, <2>2, <2>4
  <2>6. n.sort \subseteq Ids(n.columns) \cup Aliases(n) /\ n.having \subseteq Aliases(n)
    BY <1>2, <2>1, <2>2, <2>3
  <2>7. /\ \A x \in n.hops : x.parent \in Ids(n.hops) \cup {None}
        /\ \A x \in n.columns \cup n.filters : x.hop \in Ids(n.hops) \cup {None}
    BY <1>2 DEF Sound, ReferencesResolve
  <2> QED  BY <2>5, <2>6, <2>7 DEF ReferencesResolve
<1>9. SumsAreNumeric(n)
  <2> SUFFICES ASSUME NEW t \in n.measures, t.fn = "sum"
               PROVE  t.of # None /\ \A c \in n.columns : c.id = t.of => c.source \in Numbers
    BY DEF SumsAreNumeric
  <2> PICK s \in m.measures \ lost : t = kept(s)
    BY <1>2
  <2>1. s.fn = "sum" /\ t.of = IF s.of \in gone THEN None ELSE s.of
    BY <1>3
  <2>2. s.of \notin gone
    BY <2>1 DEF Lost
  <2> QED  BY <1>2, <2>1, <2>2 DEF Sound, SumsAreNumeric
<1> QED  BY <1>6, <1>7, <1>8, <1>9 DEF Sound, n

(***************************************************************************)
(* Filters.  Every edit of groups gives each filter a group, or none; every *)
(* other edit takes filters away or adds one.                              *)
(***************************************************************************)
FilterType == [id : Id, hop : {None} \cup Id, field : {None} \cup Attributes,
               op : {"is", "from", "to"}, group : {None} \cup Id]

FiltersFit(m, F) ==
  /\ F \subseteq FilterType /\ IsFiniteSet(F)
  /\ \A f, g \in F : f.id = g.id => f = g
  /\ \A f \in F : f.hop \in {None} \cup Ids(m.hops)

LEMMA OwnFiltersFit ==
  ASSUME NEW m, Sound(m)
  PROVE  FiltersFit(m, m.filters)
BY DEF Sound, WellFormed, QueryModel, ReferencesResolve, FiltersFit, FilterType

(* Nothing refers to a filter. *)
LEMMA ReplacingFilters ==
  ASSUME NEW m, Sound(m), NEW F, FiltersFit(m, F)
  PROVE  Sound([m EXCEPT !.filters = F])
<1> DEFINE n == [m EXCEPT !.filters = F]
<1>1. m \in QueryModel
  BY DEF Sound, WellFormed
<1>2. n.columns = m.columns /\ n.hops = m.hops /\ n.filters = F /\ n.sort = m.sort
      /\ n.rules = m.rules /\ n.aggregated = m.aggregated /\ n.groupBy = m.groupBy
      /\ n.measures = m.measures /\ n.having = m.having
  BY <1>1 DEF QueryModel
<1>3. n \in QueryModel
  BY <1>1 DEF QueryModel, FiltersFit, FilterType
<1> HIDE DEF n
<1>4. WellFormed(n)
  BY <1>2, <1>3 DEF Sound, WellFormed, FiltersFit
<1>5. ColumnsApart(n)
  BY <1>2 DEF Sound, ColumnsApart
<1>6. ReferencesResolve(n)
  BY <1>2 DEF Sound, ReferencesResolve, FiltersFit, Aliases
<1>7. SumsAreNumeric(n)
  BY <1>2 DEF Sound, SumsAreNumeric
<1> QED  BY <1>4, <1>5, <1>6, <1>7 DEF Sound, n

Regrouped(F, group) == {[f EXCEPT !.group = group[f]] : f \in F}

LEMMA RegroupedFit ==
  ASSUME NEW m, NEW F, FiltersFit(m, F), NEW group \in [F -> {None} \cup Id]
  PROVE  FiltersFit(m, Regrouped(F, group))
<1> DEFINE to == [f \in F |-> [f EXCEPT !.group = group[f]]]
<1>1. Regrouped(F, group) = {to[f] : f \in F} /\ to \in [F -> {to[f] : f \in F}]
  BY DEF Regrouped
<1>2. \A f \in F : to[f] \in FilterType /\ to[f].id = f.id /\ to[f].hop = f.hop
  BY DEF FiltersFit, FilterType
<1>3. \A g \in Regrouped(F, group) : \E f \in F : g = to[f]
  BY <1>1
<1>4. IsFiniteSet(Regrouped(F, group))
  <2> HIDE DEF to
  <2> QED  BY <1>1, FiniteImage DEF FiltersFit
<1> HIDE DEF to
<1> QED  BY <1>2, <1>3, <1>4 DEF FiltersFit

LEMMA FewerFit ==
  ASSUME NEW m, NEW F, FiltersFit(m, F), NEW G \in SUBSET F
  PROVE  FiltersFit(m, G)
BY FS_Subset DEF FiltersFit

LEMMA OneMoreFits ==
  ASSUME NEW m, NEW F, FiltersFit(m, F), NEW f \in FilterType,
         f.id \notin Ids(F), f.hop \in {None} \cup Ids(m.hops)
  PROVE  FiltersFit(m, F \cup {f})
<1>1. IsFiniteSet(F \cup {f})
  BY FS_AddElement DEF FiltersFit
<1> QED  BY <1>1 DEF FiltersFit, Ids

(* The edits of groups, as what they do to the filters. *)
Held(F) == [f \in F |-> IF \E o \in F \ {f} : o.group = f.group THEN f.group ELSE None]

LEMMA DissolvedFilters ==
  ASSUME NEW m, m \in QueryModel
  PROVE  Dissolved(m) = [m EXCEPT !.filters = Regrouped(m.filters, Held(m.filters))]
<1>1. \A f \in m.filters : [f EXCEPT !.group = f.group] = f
  BY DEF QueryModel
<1> DEFINE one(f) == IF \E o \in m.filters \ {f} : o.group = f.group THEN f ELSE [f EXCEPT !.group = None]
           two(f) == [f EXCEPT !.group = Held(m.filters)[f]]
<1>2. \A f \in m.filters : one(f) = two(f)
  BY <1>1 DEF Held
<1>3. {one(f) : f \in m.filters} = {two(f) : f \in m.filters}
  <2> HIDE DEF one, two
  <2> QED  BY <1>2
<1> QED  BY <1>3 DEF Dissolved, Regrouped

LEMMA HeldType ==
  ASSUME NEW m, NEW F, FiltersFit(m, F)
  PROVE  Held(F) \in [F -> {None} \cup Id]
BY DEF Held, FiltersFit, FilterType

LEMMA DissolvingGroups ==
  ASSUME NEW m, Sound(m)
  PROVE  Sound(Dissolved(m))
<1>1. FiltersFit(m, Regrouped(m.filters, Held(m.filters)))
  BY OwnFiltersFit, HeldType, RegroupedFit
<1>2. m \in QueryModel
  BY DEF Sound, WellFormed
<1> QED  BY <1>1, <1>2, ReplacingFilters, DissolvedFilters

LEMMA FiltersRemoved ==
  ASSUME NEW m, m \in QueryModel, NEW gone
  PROVE  LET n == RemoveFilters(m, gone)
             F == m.filters \ gone
         IN  /\ n \in QueryModel /\ n.filters = Regrouped(F, Held(F))
             /\ n.columns = m.columns /\ n.hops = m.hops /\ n.sort = m.sort /\ n.root = m.root
             /\ n.rules = m.rules /\ n.aggregated = m.aggregated /\ n.groupBy = m.groupBy
             /\ n.measures = m.measures /\ n.having = m.having
<1> DEFINE F == m.filters \ gone
           a == [m EXCEPT !.filters = F]
           G == Regrouped(F, Held(F))
           n == RemoveFilters(m, gone)
<1>1. a \in QueryModel /\ a.filters = F
  BY DEF QueryModel
<1>2. Dissolved(a) = [a EXCEPT !.filters = G]
  BY <1>1, DissolvedFilters
<1>3. n = [m EXCEPT !.filters = G]
  BY <1>2 DEF RemoveFilters
<1>4. G \subseteq FilterType
  <2>1. \A f \in F : [f EXCEPT !.group = Held(F)[f]] \in FilterType
    BY DEF QueryModel, FilterType, Held
  <2> QED  BY <2>1 DEF Regrouped
<1> HIDE DEF G, n, F
<1>5. n \in QueryModel
  BY <1>3, <1>4 DEF QueryModel, FilterType
<1>6. /\ n.filters = G /\ n.columns = m.columns /\ n.hops = m.hops /\ n.sort = m.sort /\ n.root = m.root
      /\ n.rules = m.rules /\ n.aggregated = m.aggregated /\ n.groupBy = m.groupBy
      /\ n.measures = m.measures /\ n.having = m.having
  BY <1>3 DEF QueryModel
<1> QED  BY <1>5, <1>6 DEF n, G, F

LEMMA RemovingFilters ==
  ASSUME NEW m, Sound(m), NEW gone
  PROVE  Sound(RemoveFilters(m, gone))
<1>1. m.filters \ gone \in SUBSET m.filters
  OBVIOUS
<1>2. FiltersFit(m, m.filters \ gone)
  BY <1>1, OwnFiltersFit, FewerFit
<1>3. Sound([m EXCEPT !.filters = m.filters \ gone])
  BY <1>2, ReplacingFilters
<1> QED  BY <1>3, DissolvingGroups DEF RemoveFilters

LEMMA AddingAFilter ==
  ASSUME NEW m, Sound(m), NEW hop \in {None} \cup Ids(m.hops),
         NEW field \in {None} \cup Attributes, NEW op \in {"is", "from", "to"}
  PROVE  Sound(AddFilter(m, hop, field, op)) /\ Sound(UpsertFilter(m, hop, field, op))
<1> DEFINE id == Fresh("f", Ids(m.filters))
           f == [id |-> id, hop |-> hop, field |-> field, op |-> op, group |-> None]
<1>1. id \in Id /\ id \notin Ids(m.filters)
  <2>1. IsFiniteSet(Ids(m.filters)) /\ Ids(m.filters) \subseteq Id
    BY FiniteIds DEF Sound, WellFormed, QueryModel, Ids
  <2>2. "f" \in Prefixes
    BY DEF Prefixes
  <2> QED  BY <2>1, <2>2, FreshIsFresh
<1>2. hop \in {None} \cup Id
  BY DEF Sound, WellFormed, QueryModel, Ids
<1> HIDE DEF id
<1>3. f \in FilterType /\ f.id = id /\ f.hop = hop
  BY <1>1, <1>2 DEF FilterType
<1>4. AddFilter(m, hop, field, op) = [m EXCEPT !.filters = m.filters \cup {f}]
  BY DEF AddFilter, id
<1> HIDE DEF f
<1>5. FiltersFit(m, m.filters \cup {f})
  BY <1>1, <1>3, OwnFiltersFit, OneMoreFits
<1>6. Sound(AddFilter(m, hop, field, op))
  BY <1>4, <1>5, ReplacingFilters
<1> QED  BY <1>6 DEF UpsertFilter

Gathered(m, members, new) ==
  LET touched == {f.group : f \in members} \ {None}
      all == members \cup {f \in m.filters : f.group \in touched}
  IN  [f \in m.filters |-> IF f \in all THEN new ELSE f.group]

NewGroup(m) == Fresh("g", {f.group : f \in m.filters} \ {None})

LEMMA NewGroupIsNew ==
  ASSUME NEW m, Sound(m)
  PROVE  NewGroup(m) \in Id /\ \A f \in m.filters : f.group # NewGroup(m)
<1> DEFINE groups == {f.group : f \in m.filters}
           to == [f \in m.filters |-> f.group]
<1>1. groups = {to[f] : f \in m.filters} /\ to \in [m.filters -> {to[f] : f \in m.filters}]
  OBVIOUS
<1>2. IsFiniteSet(groups)
  <2> HIDE DEF to, groups
  <2> QED  BY <1>1, FiniteImage DEF Sound, WellFormed
<1>3. IsFiniteSet(groups \ {None})
  <2> HIDE DEF groups
  <2> QED  BY <1>2, FS_Subset
<1>4. groups \ {None} \subseteq Id /\ "g" \in Prefixes
  BY DEF Sound, WellFormed, QueryModel, Prefixes
<1>5. NewGroup(m) \in Id /\ NewGroup(m) \notin groups \ {None}
  <2> HIDE DEF groups
  <2>1. NewGroup(m) = Fresh("g", groups \ {None})
    BY DEF NewGroup, groups
  <2> QED  BY <1>3, <1>4, <2>1, FreshIsFresh
<1>6. NewGroup(m) # None
  BY <1>5, QueryEditsAssumption
<1> QED  BY <1>5, <1>6

LEMMA GroupedFilters ==
  ASSUME NEW m, m \in QueryModel, NEW members \in SUBSET m.filters
  PROVE  GroupFilters(m, members) =
           [m EXCEPT !.filters = Regrouped(m.filters, Gathered(m, members, NewGroup(m)))]
<1> DEFINE touched == {f.group : f \in members} \ {None}
           all == members \cup {f \in m.filters : f.group \in touched}
           new == NewGroup(m)
           to(f) == [f EXCEPT !.group = new]
           two(f) == [f EXCEPT !.group = Gathered(m, members, new)[f]]
<1>1. \A f \in m.filters : [f EXCEPT !.group = f.group] = f
  BY DEF QueryModel
<1>2. all \subseteq m.filters
  OBVIOUS
<1>3. \A f \in m.filters : two(f) = IF f \in all THEN to(f) ELSE f
  <2> HIDE DEF new
  <2> QED  BY <1>1 DEF Gathered
<1>4. (m.filters \ all) \cup {to(f) : f \in all} = {two(f) : f \in m.filters}
  <2> HIDE DEF all, to, two
  <2> QED  BY <1>2, <1>3
<1> QED  BY <1>4 DEF GroupFilters, NewGroup, Regrouped

LEMMA UngroupedFilters ==
  ASSUME NEW m, m \in QueryModel, NEW group
  PROVE  Ungroup(m, group) =
           [m EXCEPT !.filters =
              Regrouped(m.filters, [f \in m.filters |-> IF f.group = group THEN None ELSE f.group])]
<1> DEFINE one(f) == IF f.group = group THEN [f EXCEPT !.group = None] ELSE f
           to == [f \in m.filters |-> IF f.group = group THEN None ELSE f.group]
           two(f) == [f EXCEPT !.group = to[f]]
<1>1. \A f \in m.filters : [f EXCEPT !.group = f.group] = f
  BY DEF QueryModel
<1>2. \A f \in m.filters : one(f) = two(f)
  BY <1>1
<1>3. {one(f) : f \in m.filters} = {two(f) : f \in m.filters}
  <2> HIDE DEF one, two
  <2> QED  BY <1>2
<1> QED  BY <1>3 DEF Ungroup, Regrouped

LEMMA TakenOutFilters ==
  ASSUME NEW m, m \in QueryModel, NEW members \in SUBSET m.filters
  PROVE  (m.filters \ members) \cup {[f EXCEPT !.group = None] : f \in members} =
           Regrouped(m.filters, [f \in m.filters |-> IF f \in members THEN None ELSE f.group])
<1> DEFINE out(f) == [f EXCEPT !.group = None]
           to == [f \in m.filters |-> IF f \in members THEN None ELSE f.group]
           two(f) == [f EXCEPT !.group = to[f]]
<1>1. \A f \in m.filters : [f EXCEPT !.group = f.group] = f
  BY DEF QueryModel
<1>2. \A f \in m.filters : two(f) = IF f \in members THEN out(f) ELSE f
  BY <1>1
<1>3. (m.filters \ members) \cup {out(f) : f \in members} = {two(f) : f \in m.filters}
  <2> HIDE DEF out, two
  <2> QED  BY <1>2
<1> QED  BY <1>3 DEF Regrouped

LEMMA GroupingFilters ==
  ASSUME NEW m, Sound(m), NEW members \in SUBSET m.filters, NEW group
  PROVE  Sound(GroupFilters(m, members)) /\ Sound(Ungroup(m, group)) /\ Sound(TakeOut(m, members))
<1>1. m \in QueryModel /\ FiltersFit(m, m.filters) /\ NewGroup(m) \in Id
  BY OwnFiltersFit, NewGroupIsNew DEF Sound, WellFormed
<1>2. \A f \in m.filters : f.group \in {None} \cup Id
  BY <1>1 DEF QueryModel
<1>3. Sound(GroupFilters(m, members))
  <2>1. Gathered(m, members, NewGroup(m)) \in [m.filters -> {None} \cup Id]
    BY <1>1, <1>2 DEF Gathered
  <2> QED  BY <1>1, <2>1, RegroupedFit, ReplacingFilters, GroupedFilters
<1>4. Sound(Ungroup(m, group))
  <2> DEFINE to == [f \in m.filters |-> IF f.group = group THEN None ELSE f.group]
  <2>1. to \in [m.filters -> {None} \cup Id]
    BY <1>2
  <2>2. Ungroup(m, group) = [m EXCEPT !.filters = Regrouped(m.filters, to)]
    BY <1>1, UngroupedFilters
  <2> HIDE DEF to
  <2> QED  BY <1>1, <2>1, <2>2, RegroupedFit, ReplacingFilters
<1>5. Sound(TakeOut(m, members))
  <2> DEFINE to == [f \in m.filters |-> IF f \in members THEN None ELSE f.group]
             out == (m.filters \ members) \cup {[f EXCEPT !.group = None] : f \in members}
  <2>1. to \in [m.filters -> {None} \cup Id]
    BY <1>2
  <2>2. out = Regrouped(m.filters, to)
    BY <1>1, TakenOutFilters
  <2>3. TakeOut(m, members) = Dissolved([m EXCEPT !.filters = out])
    BY DEF TakeOut
  <2> HIDE DEF to, out
  <2>4. Sound([m EXCEPT !.filters = out])
    BY <1>1, <2>1, <2>2, RegroupedFit, ReplacingFilters
  <2> QED  BY <2>3, <2>4, DissolvingGroups
<1> QED  BY <1>3, <1>4, <1>5

(***************************************************************************)
(* Aliases.  Of one number more than there are columns and measures, one   *)
(* is free.                                                                *)
(***************************************************************************)
LEMMA ImageIsNoLarger ==
  ASSUME NEW S, IsFiniteSet(S), NEW f, f \in [S -> {f[x] : x \in S}]
  PROVE  Cardinality({f[x] : x \in S}) <= Cardinality(S)
<1>1. f \in Surjection(S, {f[x] : x \in S})
  BY DEF Surjection
<1> QED  BY <1>1, FS_Surjection

LEMMA UniqueAliasIsFree ==
  ASSUME NEW m, Sound(m), NEW base \in Prefixes
  PROVE  UniqueAlias(m, base) \in Id /\ UniqueAlias(m, base) \notin Ids(m.columns) \cup Aliases(m)
<1> DEFINE C == Cardinality(m.columns)
           M == Cardinality(m.measures)
           taken == Ids(m.columns) \cup Aliases(m)
           free == {n \in 1..C + M + 1 : <<base, n>> \notin taken}
<1>1. IsFiniteSet(m.columns) /\ IsFiniteSet(m.measures)
  BY DEF Sound, WellFormed
<1>2. C \in Nat /\ M \in Nat
  BY <1>1, FS_CardinalityType
<1>3. IsFiniteSet(Ids(m.columns)) /\ Cardinality(Ids(m.columns)) <= C
  <2> DEFINE f == [x \in m.columns |-> x.id]
  <2>1. Ids(m.columns) = {f[x] : x \in m.columns} /\ f \in [m.columns -> {f[x] : x \in m.columns}]
    BY DEF Ids
  <2> HIDE DEF f
  <2> QED  BY <1>1, <2>1, FiniteImage, ImageIsNoLarger
<1>4. IsFiniteSet(Aliases(m)) /\ Cardinality(Aliases(m)) <= M
  <2> DEFINE f == [x \in m.measures |-> x.alias]
  <2>1. Aliases(m) = {f[x] : x \in m.measures} /\ f \in [m.measures -> {f[x] : x \in m.measures}]
    BY DEF Aliases
  <2> HIDE DEF f
  <2> QED  BY <1>1, <2>1, FiniteImage, ImageIsNoLarger
<1>5. IsFiniteSet(taken) /\ Cardinality(taken) <= C + M
  <2>1. IsFiniteSet(taken)
    BY <1>3, <1>4, FS_Union
  <2>2. IsFiniteSet(Ids(m.columns) \cap Aliases(m))
    BY <1>3, FS_Intersection
  <2>3. Cardinality(taken) = Cardinality(Ids(m.columns)) + Cardinality(Aliases(m))
                               - Cardinality(Ids(m.columns) \cap Aliases(m))
    BY <1>3, <1>4, FS_Union
  <2>4. /\ Cardinality(Ids(m.columns)) \in Nat /\ Cardinality(Aliases(m)) \in Nat
        /\ Cardinality(Ids(m.columns) \cap Aliases(m)) \in Nat
    BY <1>3, <1>4, <2>2, FS_CardinalityType
  <2> HIDE DEF C, M, taken
  <2> QED  BY <1>2, <1>3, <1>4, <2>1, <2>3, <2>4
<1> HIDE DEF C, M, taken
<1>6. free # {}
  <2> SUFFICES ASSUME \A n \in 1..C + M + 1 : <<base, n>> \in taken PROVE FALSE
    OBVIOUS
  <2> DEFINE f == [n \in 1..C + M + 1 |-> <<base, n>>]
  <2>1. f \in [1..C + M + 1 -> taken]
    OBVIOUS
  <2>2. IsFiniteSet(1..C + M + 1) /\ Cardinality(1..C + M + 1) = C + M + 1
    BY <1>2, FS_Interval
  <2>3. Cardinality(taken) \in Nat
    BY <1>5, FS_CardinalityType
  <2>4. Cardinality(taken) < Cardinality(1..C + M + 1)
    BY <1>2, <1>5, <2>2, <2>3
  <2>5. \E x, y \in 1..C + M + 1 : x # y /\ f[x] = f[y]
    <3> HIDE DEF f
    <3> QED  BY <1>5, <2>1, <2>2, <2>4, FS_PigeonHole
  <2> QED  BY <2>5
<1>7. PICK n \in free : \A k \in free : n <= k
  <2> HIDE DEF free
  <2>1. free \subseteq Nat
    BY <1>2 DEF free
  <2> QED  BY <1>6, <2>1, LeastNumber
<1>8. n \in 1..C + M + 1 /\ <<base, n>> \notin taken
  OBVIOUS
<1>9. \A k \in 1..n - 1 : <<base, k>> \in taken
  <2> TAKE k \in 1..n - 1
  <2>1. k \in 1..C + M + 1 /\ ~(n <= k)
    BY <1>2, <1>8
  <2> QED  BY <1>7, <2>1
<1> DEFINE good(x) == <<base, x>> \notin taken /\ \A k \in 1..x - 1 : <<base, k>> \in taken
           choice == CHOOSE x \in 1..C + M + 1 : good(x)
<1>10. choice \in 1..C + M + 1 /\ good(choice)
  <2>1. \E x \in 1..C + M + 1 : good(x)
    BY <1>8, <1>9
  <2> HIDE DEF good
  <2> QED  BY <2>1
<1>11. UniqueAlias(m, base) = <<base, choice>>
  BY DEF UniqueAlias, C, M, taken
<1>12. choice \in Nat /\ <<base, choice>> \notin taken
  BY <1>2, <1>10
<1>13. <<base, choice>> \in Id
  <2> HIDE DEF choice
  <2> QED  BY <1>12 DEF Id
<1> QED  BY <1>11, <1>12, <1>13 DEF taken

(***************************************************************************)
(* Sort keys, colour rules and the aggregation leave hops, columns and     *)
(* filters alone.                                                          *)
(***************************************************************************)
MeasureType == [fn : {"count", "sum"}, of : {None} \cup Id, alias : Id]

LEMMA ChangingKeys ==
  ASSUME NEW m, Sound(m), NEW n \in QueryModel,
         n.hops = m.hops, n.columns = m.columns, n.filters = m.filters,
         IsFiniteSet(n.measures),
         ~n.aggregated => n.groupBy = {} /\ n.measures = {} /\ n.having = {},
         n.rules \cup n.groupBy \cup ({s.of : s \in n.measures} \ {None}) \subseteq Ids(n.columns),
         n.having \subseteq Aliases(n), n.sort \subseteq Ids(n.columns) \cup Aliases(n),
         SumsAreNumeric(n)
  PROVE  Sound(n)
<1>1. WellFormed(n)
  BY DEF Sound, WellFormed
<1>2. ColumnsApart(n)
  BY DEF Sound, ColumnsApart
<1>3. ReferencesResolve(n)
  BY DEF Sound, ReferencesResolve
<1> QED  BY <1>1, <1>2, <1>3 DEF Sound

(* What the references of a sound model are. *)
LEMMA OwnKeys ==
  ASSUME NEW m, Sound(m)
  PROVE  /\ m \in QueryModel /\ IsFiniteSet(m.measures)
         /\ ~m.aggregated => m.groupBy = {} /\ m.measures = {} /\ m.having = {}
         /\ m.rules \subseteq Ids(m.columns) /\ m.groupBy \subseteq Ids(m.columns)
         /\ {s.of : s \in m.measures} \ {None} \subseteq Ids(m.columns)
         /\ m.having \subseteq Aliases(m) /\ m.sort \subseteq Ids(m.columns) \cup Aliases(m)
         /\ Ids(m.columns) \subseteq Id /\ Aliases(m) \subseteq Id
         /\ None \notin Ids(m.columns)
<1>1. m \in QueryModel
  BY DEF Sound, WellFormed
<1>2. Ids(m.columns) \subseteq Id /\ Aliases(m) \subseteq Id
  BY <1>1 DEF QueryModel, Ids, Aliases
<1> QED  BY <1>1, <1>2, QueryEditsAssumption DEF Sound, WellFormed, ReferencesResolve

LEMMA Sorting ==
  ASSUME NEW m, Sound(m), NEW key \in AllowedSortKeys(m)
  PROVE  Sound(CycleSort(m, key))
<1> DEFINE n == CycleSort(m, key)
<1> USE OwnKeys
<1>1. key \in Ids(m.columns) \cup Aliases(m)
  BY DEF AllowedSortKeys
<1>2. n \in QueryModel /\ n.sort \subseteq m.sort \cup {key}
      /\ n.hops = m.hops /\ n.columns = m.columns /\ n.filters = m.filters /\ n.rules = m.rules
      /\ n.aggregated = m.aggregated /\ n.groupBy = m.groupBy
      /\ n.measures = m.measures /\ n.having = m.having
  BY <1>1 DEF CycleSort, QueryModel
<1>3. SumsAreNumeric(n)
  BY <1>2 DEF Sound, SumsAreNumeric
<1> HIDE DEF n
<1>4. Sound(n)
  BY <1>1, <1>2, <1>3, ChangingKeys DEF Aliases
<1> QED  BY <1>4 DEF n

LEMMA Aggregating ==
  ASSUME NEW m, Sound(m)
  PROVE  Sound(EnableAggregation(m)) \/ m.aggregated
<1> SUFFICES ASSUME ~m.aggregated PROVE Sound(EnableAggregation(m))
  OBVIOUS
<1> DEFINE n == EnableAggregation(m)
           s == [fn |-> "count", of |-> None, alias |-> UniqueAlias(m, "total")]
<1>0. m \in QueryModel
  BY OwnKeys
<1>1. UniqueAlias(m, "total") \in Id
  BY UniqueAliasIsFree DEF Prefixes
<1>4. s.fn = "count" /\ s.of = None /\ s \in MeasureType
  BY <1>1 DEF MeasureType
<1> DEFINE e == [m EXCEPT !.aggregated = TRUE, !.measures = {s}]
<1>e. n = e
  BY DEF EnableAggregation
<1> HIDE DEF s, n
<1>6. n \in QueryModel
  <2> DEFINE S == {s}
  <2>1. S \subseteq [fn : {"count", "sum"}, of : {None} \cup Id, alias : Id]
    BY <1>4 DEF MeasureType
  <2>2. n = [m EXCEPT !.aggregated = TRUE, !.measures = S]
    BY <1>e
  <2> HIDE DEF S, e
  <2> QED  BY <1>0, <2>1, <2>2 DEF QueryModel
<1>2. /\ n.measures = {s}
      /\ n.hops = m.hops /\ n.columns = m.columns /\ n.filters = m.filters /\ n.rules = m.rules
      /\ n.aggregated = TRUE /\ n.groupBy = m.groupBy
      /\ n.having = m.having /\ n.sort = m.sort
  BY <1>0, <1>e DEF QueryModel
<1>3. m.sort \subseteq Ids(m.columns)
  BY OwnKeys DEF Aliases
<1> HIDE DEF e
<1>5. SumsAreNumeric(n)
  BY <1>2, <1>4 DEF SumsAreNumeric
<1>7. IsFiniteSet(n.measures)
  <2>1. IsFiniteSet({s})
    BY FS_Singleton
  <2> QED  BY <1>2, <2>1
<1>8. m.groupBy = {} /\ m.having = {} /\ m.rules \subseteq Ids(m.columns)
  BY OwnKeys
<1>9. Sound(n)
  BY <1>2, <1>3, <1>4, <1>5, <1>6, <1>7, <1>8, ChangingKeys
<1> QED  BY <1>9 DEF n

LEMMA Listing ==
  ASSUME NEW m, Sound(m)
  PROVE  Sound(DisableAggregation(m))
<1> DEFINE n == DisableAggregation(m)
<1>0. m \in QueryModel
  BY OwnKeys
<1>1. n \in QueryModel /\ n.measures = {}
      /\ n.hops = m.hops /\ n.columns = m.columns /\ n.filters = m.filters /\ n.rules = m.rules
      /\ n.aggregated = FALSE /\ n.groupBy = {} /\ n.having = {}
      /\ n.sort = m.sort \cap Ids(m.columns)
  <2> DEFINE S == m.sort \cap Ids(m.columns)
             e == [m EXCEPT !.aggregated = FALSE, !.groupBy = {}, !.measures = {}, !.having = {}, !.sort = S]
  <2>1. S \subseteq Id
    BY OwnKeys
  <2>2. n = e
    BY DEF DisableAggregation
  <2> HIDE DEF S, n
  <2>3. n \in QueryModel
    BY <1>0, <2>1, <2>2 DEF QueryModel
  <2>4. n.measures = {} /\ n.hops = m.hops /\ n.columns = m.columns /\ n.filters = m.filters
        /\ n.rules = m.rules /\ n.aggregated = FALSE /\ n.groupBy = {} /\ n.having = {} /\ n.sort = S
    BY <1>0, <2>2 DEF QueryModel
  <2> QED  BY <2>3, <2>4 DEF S
<1> HIDE DEF n
<1>2. SumsAreNumeric(n) /\ IsFiniteSet(n.measures)
  BY <1>1, FS_EmptySet DEF SumsAreNumeric
<1>3. Sound(n)
  BY <1>1, <1>2, OwnKeys, ChangingKeys
<1> QED  BY <1>3 DEF n

LEMMA Grouping ==
  ASSUME NEW m, Sound(m), m.aggregated, NEW id \in Ids(m.columns)
  PROVE  Sound(ToggleGroupBy(m, id))
<1> DEFINE n == ToggleGroupBy(m, id)
<1> USE OwnKeys
<1>1. n \in QueryModel /\ n.measures = m.measures
      /\ n.hops = m.hops /\ n.columns = m.columns /\ n.filters = m.filters /\ n.rules = m.rules
      /\ n.aggregated = m.aggregated /\ n.groupBy \subseteq m.groupBy \cup {id}
      /\ n.having = m.having /\ n.sort \subseteq m.sort
  BY DEF ToggleGroupBy, QueryModel
<1> HIDE DEF n
<1>2. SumsAreNumeric(n)
  BY <1>1 DEF Sound, SumsAreNumeric
<1>3. Sound(n)
  BY <1>1, <1>2, ChangingKeys DEF Aliases
<1> QED  BY <1>3 DEF n

LEMMA Measuring ==
  ASSUME NEW m, Sound(m), m.aggregated, NEW of \in {None} \cup Ids(m.columns),
         NEW fn \in MeasureFns(m, of)
  PROVE  Sound(AddMeasure(m, fn, of))
<1> DEFINE n == AddMeasure(m, fn, of)
           s == [fn |-> fn, of |-> of, alias |-> UniqueAlias(m, fn)]
<1> USE OwnKeys
<1>1. fn \in {"count", "sum"}
  BY DEF MeasureFns
<1>2. UniqueAlias(m, fn) \in Id
  BY <1>1, UniqueAliasIsFree DEF Prefixes
<1>4. s.fn = fn /\ s.of = of /\ s \in MeasureType
  BY <1>1, <1>2 DEF MeasureType
<1> DEFINE e == [m EXCEPT !.measures = @ \cup {s}]
<1>e. n = e
  BY DEF AddMeasure
<1> HIDE DEF s, n
<1>3. n \in QueryModel /\ n.measures = m.measures \cup {s}
      /\ n.hops = m.hops /\ n.columns = m.columns /\ n.filters = m.filters /\ n.rules = m.rules
      /\ n.aggregated = m.aggregated /\ n.groupBy = m.groupBy
      /\ n.having = m.having /\ n.sort = m.sort
  BY <1>e, <1>4 DEF QueryModel, MeasureType
<1> HIDE DEF e
<1>5. SumsAreNumeric(n)
  <2>1. fn = "sum" => \E c \in m.columns : c.id = of /\ c.source \in Numbers
    BY DEF MeasureFns
  <2>2. fn = "sum" => of # None /\ \A c \in m.columns : c.id = of => c.source \in Numbers
    BY <2>1 DEF Sound, ColumnsApart, Ids
  <2> QED  BY <1>3, <1>4, <2>2 DEF Sound, SumsAreNumeric
<1>6. IsFiniteSet(n.measures)
  BY <1>3, FS_AddElement
<1>7. {t.of : t \in n.measures} \ {None} \subseteq Ids(n.columns)
  BY <1>3, <1>4
<1>8. Aliases(m) \subseteq Aliases(n)
  BY <1>3 DEF Aliases
<1>9. Sound(n)
  BY <1>3, <1>5, <1>6, <1>7, <1>8, ChangingKeys
<1> QED  BY <1>9 DEF n

LEMMA RemovingAMeasure ==
  ASSUME NEW m, Sound(m), NEW alias
  PROVE  Sound(RemoveMeasure(m, alias))
<1> DEFINE n == RemoveMeasure(m, alias)
<1> USE OwnKeys
<1>1. n \in QueryModel /\ n.measures = {s \in m.measures : s.alias # alias}
      /\ n.hops = m.hops /\ n.columns = m.columns /\ n.filters = m.filters /\ n.rules = m.rules
      /\ n.aggregated = m.aggregated /\ n.groupBy = m.groupBy
      /\ n.having = m.having \ {alias} /\ n.sort = m.sort \ {alias}
  <2> DEFINE S == {s \in m.measures : s.alias # alias}
             e == [m EXCEPT !.measures = S, !.having = @ \ {alias}, !.sort = @ \ {alias}]
  <2>1. S \subseteq m.measures
    OBVIOUS
  <2>2. n = e
    BY DEF RemoveMeasure
  <2> HIDE DEF S, n
  <2>3. n \in QueryModel
    BY <2>1, <2>2 DEF QueryModel
  <2>4. n.measures = S /\ n.hops = m.hops /\ n.columns = m.columns /\ n.filters = m.filters
        /\ n.rules = m.rules /\ n.aggregated = m.aggregated /\ n.groupBy = m.groupBy
        /\ n.having = m.having \ {alias} /\ n.sort = m.sort \ {alias}
    BY <2>2 DEF QueryModel
  <2> QED  BY <2>3, <2>4 DEF S
<1> HIDE DEF n
<1>2. SumsAreNumeric(n)
  BY <1>1 DEF Sound, SumsAreNumeric
<1>3. IsFiniteSet(n.measures)
  BY <1>1, FS_Subset
<1>4. Aliases(m) \ {alias} \subseteq Aliases(n)
  BY <1>1 DEF Aliases
<1>5. {t.of : t \in n.measures} \ {None} \subseteq Ids(n.columns)
  BY <1>1
<1>6. n.groupBy \subseteq Ids(n.columns) /\ n.rules \subseteq Ids(n.columns)
      /\ n.having \subseteq Aliases(n) /\ n.sort \subseteq Ids(n.columns) \cup Aliases(n)
  BY <1>1, <1>4
<1>7. Sound(n)
  BY <1>1, <1>2, <1>3, <1>5, <1>6, ChangingKeys
<1> QED  BY <1>7 DEF n

LEMMA ChangingHaving ==
  ASSUME NEW m, Sound(m), NEW alias \in Aliases(m)
  PROVE  Sound([m EXCEPT !.having = @ \cup {alias}]) /\ Sound([m EXCEPT !.having = @ \ {alias}])
<1> USE OwnKeys
<1> SUFFICES ASSUME NEW H \in SUBSET Aliases(m)
             PROVE  Sound([m EXCEPT !.having = H])
  OBVIOUS
<1> DEFINE n == [m EXCEPT !.having = H]
<1>1. n \in QueryModel /\ n.measures = m.measures
      /\ n.hops = m.hops /\ n.columns = m.columns /\ n.filters = m.filters /\ n.rules = m.rules
      /\ n.aggregated = m.aggregated /\ n.groupBy = m.groupBy
      /\ n.having = H /\ n.sort = m.sort
  BY DEF QueryModel
<1> HIDE DEF n
<1>2. SumsAreNumeric(n)
  BY <1>1 DEF Sound, SumsAreNumeric
<1>3. Aliases(n) = Aliases(m) /\ (~m.aggregated => H = {})
  BY <1>1 DEF Aliases
<1>4. Sound(n)
  BY <1>1, <1>2, <1>3, ChangingKeys
<1> QED  BY <1>4 DEF n

LEMMA ChangingRules ==
  ASSUME NEW m, Sound(m), NEW id \in Ids(m.columns)
  PROVE  Sound([m EXCEPT !.rules = @ \cup {id}]) /\ Sound([m EXCEPT !.rules = @ \ {id}])
<1> USE OwnKeys
<1> SUFFICES ASSUME NEW R \in SUBSET Ids(m.columns)
             PROVE  Sound([m EXCEPT !.rules = R])
  OBVIOUS
<1> DEFINE n == [m EXCEPT !.rules = R]
<1>1. n \in QueryModel /\ n.measures = m.measures
      /\ n.hops = m.hops /\ n.columns = m.columns /\ n.filters = m.filters /\ n.rules = R
      /\ n.aggregated = m.aggregated /\ n.groupBy = m.groupBy
      /\ n.having = m.having /\ n.sort = m.sort
  BY DEF QueryModel
<1> HIDE DEF n
<1>2. SumsAreNumeric(n)
  BY <1>1 DEF Sound, SumsAreNumeric
<1>3. Aliases(n) = Aliases(m)
  BY <1>1 DEF Aliases
<1>4. Sound(n)
  BY <1>1, <1>2, <1>3, ChangingKeys
<1> QED  BY <1>4 DEF n

(***************************************************************************)
(* Hops.                                                                   *)
(***************************************************************************)
HopType == [id : Id, parent : {None} \cup Id, prop : Relations, dir : {"forward", "inverse"}, class : Classes]

(* What hangs below a hop that goes, goes. *)
LEMMA BelowIsClosed ==
  ASSUME NEW m, NEW id
  PROVE  /\ id \in Below(m, id)
         /\ \A h \in m.hops : h.parent \in Below(m, id) => h.id \in Below(m, id)
<1>1. id \in Below(m, id)
  BY DEF Below
<1>2. ASSUME NEW h \in m.hops, h.parent \in Below(m, id)
      PROVE  h.id \in Below(m, id)
  <2>1. h.id \in Ids(m.hops) \cup {id}
    BY DEF Ids
  <2>2. ASSUME NEW S \in SUBSET (Ids(m.hops) \cup {id}),
               id \in S /\ \A k \in m.hops : k.parent \in S => k.id \in S
        PROVE  h.id \in S
    <3>1. h.parent \in S
      BY <1>2, <2>2 DEF Below
    <3> QED  BY <2>2, <3>1
  <2> QED  BY <2>1, <2>2 DEF Below
<1> QED  BY <1>1, <1>2

LEMMA RemovingAHop ==
  ASSUME NEW m, Sound(m), NEW id
  PROVE  Sound(RemoveHop(m, id))
<1> DEFINE gone == Below(m, id)
           H == {h \in m.hops : h.id \notin gone}
           F == {f \in m.filters : f.hop \in gone}
           C == {c.id : c \in {x \in m.columns : x.hop \in gone}}
           a == [m EXCEPT !.hops = H]
           b == RemoveFilters(a, F)
           n == RemoveColumns(b, C)
           c == RemoveFilters(m, F)
           r == RemoveColumns(c, C)
<1>1. n = RemoveHop(m, id)
  BY DEF RemoveHop
<1>3. H \subseteq m.hops
  OBVIOUS
<1> HIDE DEF gone, H, F, C, n, b, c, r
<1>2. m \in QueryModel /\ Sound(c) /\ Sound(r)
  <2>1. Sound(c)
    BY RemovingFilters DEF c
  <2>2. Sound(r)
    BY <2>1, RemovingColumns DEF r
  <2> QED  BY <2>1, <2>2 DEF Sound, WellFormed
<1>4. a \in QueryModel /\ a.hops = H /\ a.columns = m.columns /\ a.filters = m.filters /\ a.sort = m.sort
      /\ a.rules = m.rules /\ a.aggregated = m.aggregated /\ a.groupBy = m.groupBy
      /\ a.measures = m.measures /\ a.having = m.having
  BY <1>2, <1>3 DEF QueryModel
<1> HIDE DEF a
<1>5. b \in QueryModel /\ b.hops = H /\ b.columns = c.columns /\ b.filters = c.filters /\ b.sort = c.sort
      /\ b.rules = c.rules /\ b.aggregated = c.aggregated /\ b.groupBy = c.groupBy
      /\ b.measures = c.measures /\ b.having = c.having
  <2> DEFINE G == m.filters \ F
  <2>1. /\ b \in QueryModel /\ b.filters = Regrouped(G, Held(G))
        /\ b.columns = a.columns /\ b.hops = a.hops /\ b.sort = a.sort
        /\ b.rules = a.rules /\ b.aggregated = a.aggregated /\ b.groupBy = a.groupBy
        /\ b.measures = a.measures /\ b.having = a.having
    BY <1>4, FiltersRemoved DEF b
  <2>2. /\ c.filters = Regrouped(G, Held(G))
        /\ c.columns = m.columns /\ c.sort = m.sort
        /\ c.rules = m.rules /\ c.aggregated = m.aggregated /\ c.groupBy = m.groupBy
        /\ c.measures = m.measures /\ c.having = m.having
    BY <1>2, FiltersRemoved DEF c
  <2> QED  BY <1>4, <2>1, <2>2
<1>6. c \in QueryModel
  BY <1>2 DEF Sound, WellFormed
<1>7. Lost(b, C) = Lost(c, C) /\ Dropped(b, C) = Dropped(c, C)
  BY <1>5 DEF Lost, Dropped
<1>8. n \in QueryModel /\ n.hops = H /\ n.columns = r.columns /\ n.filters = r.filters /\ n.sort = r.sort
      /\ n.rules = r.rules /\ n.aggregated = r.aggregated /\ n.groupBy = r.groupBy
      /\ n.measures = r.measures /\ n.having = r.having
  <2>1. /\ n \in QueryModel /\ n.columns = {x \in b.columns : x.id \notin C}
        /\ n.hops = b.hops /\ n.filters = b.filters
        /\ n.sort = b.sort \ (C \cup Dropped(b, C)) /\ n.rules = b.rules \ C
        /\ n.aggregated = b.aggregated /\ n.groupBy = b.groupBy \ C
        /\ n.measures = {Kept(s, C) : s \in b.measures \ Lost(b, C)}
        /\ n.having = b.having \ Dropped(b, C)
    BY <1>5, ColumnsRemoved DEF n
  <2>2. /\ r.columns = {x \in c.columns : x.id \notin C} /\ r.filters = c.filters
        /\ r.sort = c.sort \ (C \cup Dropped(c, C)) /\ r.rules = c.rules \ C
        /\ r.aggregated = c.aggregated /\ r.groupBy = c.groupBy \ C
        /\ r.measures = {Kept(s, C) : s \in c.measures \ Lost(c, C)}
        /\ r.having = c.having \ Dropped(c, C)
    BY <1>6, ColumnsRemoved DEF r
  <2> QED  BY <1>5, <1>7, <2>1, <2>2
<1>9. IsFiniteSet(H)
  BY <1>3, FS_Subset DEF Sound, WellFormed
<1>10. WellFormed(n) /\ ColumnsApart(n) /\ SumsAreNumeric(n)
  BY <1>2, <1>8, <1>9 DEF Sound, WellFormed, ColumnsApart, SumsAreNumeric
<1>11. \A x \in Ids(m.hops) \cup {None} : x \notin gone => x \in Ids(H) \cup {None}
  BY DEF H, Ids
<1>12. \A h \in H : h.parent \in Ids(H) \cup {None}
  <2> TAKE h \in H
  <2>1. h \in m.hops /\ h.id \notin gone
    BY DEF H
  <2>2. h.parent \notin gone
    BY <2>1, BelowIsClosed DEF gone
  <2> QED  BY <1>11, <2>1, <2>2 DEF Sound, ReferencesResolve
<1>13. \A x \in n.columns : x.hop \in Ids(H) \cup {None}
  <2> TAKE x \in n.columns
  <2>1. x \in m.columns /\ x.id \notin C
    <3>1. x \in r.columns
      BY <1>8
    <3>2. r.columns = {y \in c.columns : y.id \notin C}
      BY <1>6, ColumnsRemoved DEF r
    <3>3. c.columns = m.columns
      BY <1>2, FiltersRemoved DEF c
    <3> QED  BY <3>1, <3>2, <3>3
  <2>2. x.hop \notin gone
    BY <2>1 DEF C
  <2> QED  BY <1>11, <2>1, <2>2 DEF Sound, ReferencesResolve
<1>14. \A x \in n.filters : x.hop \in Ids(H) \cup {None}
  <2> TAKE x \in n.filters
  <2> DEFINE G == m.filters \ F
  <2>1. x \in Regrouped(G, Held(G))
    <3>1. x \in r.filters /\ r.filters = c.filters
      BY <1>6, <1>8, ColumnsRemoved DEF r
    <3>2. c.filters = Regrouped(G, Held(G))
      BY <1>2, FiltersRemoved DEF c
    <3> QED  BY <3>1, <3>2
  <2>2. PICK f \in G : x = [f EXCEPT !.group = Held(G)[f]]
    BY <2>1 DEF Regrouped
  <2>3. f \in m.filters /\ f.hop \notin gone
    BY DEF F
  <2>4. x.hop = f.hop
    BY <1>2, <2>2, <2>3 DEF QueryModel
  <2> QED  BY <1>11, <2>3, <2>4 DEF Sound, ReferencesResolve
<1>15. ReferencesResolve(n)
  <2>1. n.rules \cup n.groupBy \cup ({s.of : s \in n.measures} \ {None}) \subseteq Ids(n.columns)
        /\ n.having \subseteq Aliases(n) /\ n.sort \subseteq Ids(n.columns) \cup Aliases(n)
    BY <1>2, <1>8 DEF Sound, ReferencesResolve, Aliases
  <2> QED  BY <1>8, <1>12, <1>13, <1>14, <2>1 DEF ReferencesResolve
<1> QED  BY <1>1, <1>10, <1>15 DEF Sound

NewHop(m, parent, link) ==
  [id |-> Fresh("h", Ids(m.hops)), parent |-> parent, prop |-> link.prop, dir |-> link.dir, class |-> link.to]

LEMMA LinkType ==
  ASSUME NEW link \in Links
  PROVE  /\ link.from \in Classes /\ link.to \in Classes /\ link.prop \in Relations
         /\ link.dir \in {"forward", "inverse"}
         /\ link = [from |-> link.from, prop |-> link.prop, dir |-> link.dir, to |-> link.to]
BY QueryEditsAssumption DEF Relations

LEMMA NewHopType ==
  ASSUME NEW m, Sound(m), NEW parent \in {None} \cup Ids(m.hops), NEW link \in Links
  PROVE  NewHop(m, parent, link) \in HopType /\ NewHop(m, parent, link).id \notin Ids(m.hops)
<1>1. Fresh("h", Ids(m.hops)) \in Id /\ Fresh("h", Ids(m.hops)) \notin Ids(m.hops)
  <2>1. IsFiniteSet(Ids(m.hops)) /\ Ids(m.hops) \subseteq Id
    BY FiniteIds DEF Sound, WellFormed, QueryModel, Ids
  <2>2. "h" \in Prefixes
    BY DEF Prefixes
  <2> QED  BY <2>1, <2>2, FreshIsFresh
<1>2. parent \in {None} \cup Id
  BY DEF Sound, WellFormed, QueryModel, Ids
<1> QED  BY <1>1, <1>2, LinkType DEF NewHop, HopType

LEMMA AddingAHop ==
  ASSUME NEW m, Sound(m), NEW parent \in {None} \cup Ids(m.hops), NEW link \in Links
  PROVE  LET n == [m EXCEPT !.hops = @ \cup {NewHop(m, parent, link)}]
         IN  Sound(n) /\ n.hops = m.hops \cup {NewHop(m, parent, link)} /\ n.root = m.root
<1> DEFINE h == NewHop(m, parent, link)
           n == [m EXCEPT !.hops = @ \cup {h}]
<1>1. h \in HopType /\ h.parent = parent
  BY NewHopType DEF NewHop
<1>2. m \in QueryModel
  BY DEF Sound, WellFormed
<1> HIDE DEF h
<1>3. n \in QueryModel
  BY <1>1, <1>2 DEF QueryModel, HopType
<1>4. n.hops = m.hops \cup {h} /\ n.columns = m.columns /\ n.filters = m.filters /\ n.sort = m.sort
      /\ n.rules = m.rules /\ n.aggregated = m.aggregated /\ n.groupBy = m.groupBy
      /\ n.measures = m.measures /\ n.having = m.having /\ n.root = m.root
  BY <1>2 DEF QueryModel
<1> HIDE DEF n
<1>5. IsFiniteSet(n.hops)
  BY <1>4, FS_AddElement DEF Sound, WellFormed
<1>6. WellFormed(n) /\ ColumnsApart(n) /\ SumsAreNumeric(n)
  BY <1>3, <1>4, <1>5 DEF Sound, WellFormed, ColumnsApart, SumsAreNumeric
<1>7. ReferencesResolve(n)
  <2>1. Ids(m.hops) \cup {h.id} = Ids(n.hops)
    BY <1>4 DEF Ids
  <2>2. \A x \in n.hops : x.parent \in Ids(n.hops) \cup {None}
    BY <1>1, <1>4, <2>1 DEF Sound, ReferencesResolve
  <2> QED  BY <1>4, <2>1, <2>2 DEF Sound, ReferencesResolve, Aliases
<1> QED  BY <1>4, <1>6, <1>7 DEF Sound, n, h

(* Where a browse path has got to. *)
Place(at) ==
  /\ at \in [model : QueryModel, hop : {None} \cup Id, ok : BOOLEAN]
  /\ Sound(at.model) /\ at.hop \in {None} \cup Ids(at.model.hops)

There(m, parent, link) ==
  {h \in m.hops : h.parent = parent /\ h.prop = link.prop /\ h.dir = link.dir /\ h.class = link.to}

(* A step reuses a hop, adds one, or is refused. *)
LEMMA Steps ==
  ASSUME NEW at, Place(at), NEW link \in Links
  PROVE  LET to == Follow(at, link)
             h == NewHop(at.model, at.hop, link)
         IN  /\ to \in [model : QueryModel, hop : {None} \cup Id, ok : BOOLEAN]
             /\ \/ /\ to.model = at.model /\ to.ok = at.ok
                   /\ \E x \in There(at.model, at.hop, link) : to.hop = x.id
                \/ /\ at.ok /\ to.ok /\ CanExtendPath(at.model, at.hop, link) /\ to.hop = h.id
                   /\ to.model = [at.model EXCEPT !.hops = @ \cup {h}]
                \/ to.model = at.model /\ to.ok = FALSE /\ to.hop = at.hop
<1> DEFINE there == There(at.model, at.hop, link)
           new == Fresh("h", Ids(at.model.hops))
           h == NewHop(at.model, at.hop, link)
           m == [at.model EXCEPT !.hops = @ \cup {h}]
           some == CHOOSE x \in there : TRUE
           to == Follow(at, link)
<1>1. at.model \in QueryModel /\ there \subseteq at.model.hops
  BY DEF Place, There
<1>2. h \in HopType /\ h.id = new /\ new \in Id
  <2>1. h \in HopType /\ h.id = new
    BY NewHopType DEF Place, NewHop
  <2> QED  BY <2>1 DEF HopType
<1>3. m \in QueryModel
  <2> HIDE DEF h
  <2> QED  BY <1>1, <1>2 DEF QueryModel, HopType
<1>4. there # {} => some \in there /\ some.id \in Id
  <2>1. there # {} => some \in there
    OBVIOUS
  <2> HIDE DEF some, there
  <2> QED  BY <1>1, <2>1 DEF QueryModel
<1>5. to = IF there # {} THEN [at EXCEPT !.hop = some.id]
           ELSE IF at.ok /\ CanExtendPath(at.model, at.hop, link)
                THEN [at EXCEPT !.hop = new, !.model.hops = @ \cup {h}]
                ELSE [at EXCEPT !.ok = FALSE]
  BY DEF Follow, There, NewHop
<1>6. at \in [model : QueryModel, hop : {None} \cup Id, ok : BOOLEAN]
  BY DEF Place
<1>7. [at EXCEPT !.hop = new, !.model.hops = @ \cup {h}] = [at EXCEPT !.hop = new, !.model = m]
  <2> HIDE DEF h, new
  <2> QED  BY <1>6
<1> HIDE DEF there, new, h, m, some, to
<1>8. CASE there # {}
  BY <1>4, <1>5, <1>6, <1>8 DEF there, to
<1>9. CASE there = {} /\ at.ok /\ CanExtendPath(at.model, at.hop, link)
  <2>1. to = [at EXCEPT !.hop = new, !.model = m]
    BY <1>5, <1>7, <1>9
  <2>2. to \in [model : QueryModel, hop : {None} \cup Id, ok : BOOLEAN] /\ to.hop = new /\ to.model = m /\ to.ok
    BY <1>2, <1>3, <1>6, <1>9, <2>1
  <2> QED  BY <1>2, <1>9, <2>2 DEF to, m, h
<1>10. CASE there = {} /\ ~(at.ok /\ CanExtendPath(at.model, at.hop, link))
  BY <1>5, <1>6, <1>10 DEF to
<1> QED  BY <1>8, <1>9, <1>10

LEMMA Following ==
  ASSUME NEW at, Place(at), NEW link \in Links
  PROVE  Place(Follow(at, link))
<1> DEFINE to == Follow(at, link)
           h == NewHop(at.model, at.hop, link)
<1> HIDE DEF to
<1>1. /\ to \in [model : QueryModel, hop : {None} \cup Id, ok : BOOLEAN]
      /\ \/ to.model = at.model /\ \E x \in There(at.model, at.hop, link) : to.hop = x.id
         \/ to.model = [at.model EXCEPT !.hops = @ \cup {h}] /\ to.hop = h.id
         \/ to.model = at.model /\ to.hop = at.hop
  BY Steps DEF to
<1>2. CASE to.model = at.model /\ \E x \in There(at.model, at.hop, link) : to.hop = x.id
  BY <1>1, <1>2 DEF Place, There, Ids, to
<1>3. CASE to.model = [at.model EXCEPT !.hops = @ \cup {h}] /\ to.hop = h.id
  <2>1. Sound(to.model) /\ to.model.hops = at.model.hops \cup {h}
    BY <1>3, AddingAHop DEF Place
  <2>2. to.hop \in Ids(to.model.hops)
    BY <1>3, <2>1 DEF Ids
  <2> QED  BY <1>1, <2>1, <2>2 DEF Place, to
<1>4. CASE to.model = at.model /\ to.hop = at.hop
  BY <1>1, <1>4 DEF Place, to
<1> QED  BY <1>1, <1>2, <1>3, <1>4

Paths == {<<>>} \cup {<<l>> : l \in Links} \cup (Links \X Links)

LEMMA ResolvingAPath ==
  ASSUME NEW m, Sound(m), NEW hop \in {None} \cup Ids(m.hops), NEW path \in Paths
  PROVE  Place(ResolvePath(m, hop, path))
<1> DEFINE start == [model |-> m, hop |-> hop, ok |-> TRUE]
           one == IF Len(path) > 0 THEN Follow(start, path[1]) ELSE start
<1>1. Place(start)
  BY DEF Place, Sound, WellFormed, QueryModel, Ids
<1>2. Len(path) > 0 => path[1] \in Links
  BY DEF Paths
<1>3. Len(path) > 1 => path[2] \in Links
  BY DEF Paths
<1>4. Place(one)
  <2> HIDE DEF start
  <2> QED  BY <1>1, <1>2, Following
<1>5. ResolvePath(m, hop, path) = IF Len(path) > 1 THEN Follow(one, path[2]) ELSE one
  BY DEF ResolvePath
<1> HIDE DEF one
<1> QED  BY <1>3, <1>4, <1>5, Following

LEMMA Selecting ==
  ASSUME NEW m, Sound(m), NEW hop \in {None} \cup Ids(m.hops), NEW path \in Paths,
         NEW source \in Attributes, NEW unticked
  PROVE  Sound(Selected(m, ResolvePath(m, hop, path), source, unticked))
<1> DEFINE end == ResolvePath(m, hop, path)
<1>1. Sound(end.model) /\ end.hop \in {None} \cup Ids(end.model.hops)
  BY ResolvingAPath DEF Place
<1> HIDE DEF end
<1>2. Sound(AddColumn(end.model, end.hop, source))
  BY <1>1, AddingAColumn
<1>3. Sound(RemoveColumns(AddColumn(end.model, end.hop, source), unticked))
  BY <1>2, RemovingColumns
<1> QED  BY <1>3 DEF Selected, end

(* Adding a filter leaves the hops as they are. *)
LEMMA HopsAfterUpsert ==
  ASSUME NEW m, m \in QueryModel, NEW hop, NEW field, NEW op
  PROVE  UpsertFilter(m, hop, field, op).hops = m.hops
BY DEF UpsertFilter, AddFilter, QueryModel

LEMMA Upserting ==
  ASSUME NEW m, Sound(m), NEW hop \in {None} \cup Ids(m.hops),
         NEW field \in {None} \cup Attributes, NEW op \in {"is", "from", "to"}
  PROVE  Sound(UpsertFilter(m, hop, field, op)) /\ UpsertFilter(m, hop, field, op).hops = m.hops
<1>1. m \in QueryModel
  BY DEF Sound, WellFormed
<1> QED  BY <1>1, AddingAFilter, HopsAfterUpsert

LEMMA Applying ==
  ASSUME NEW m, Sound(m), NEW hop \in {None} \cup Ids(m.hops),
         NEW field \in {None} \cup Attributes, NEW ops
  PROVE  Sound(Applied(m, hop, field, ops))
<1> DEFINE cleared == RemoveFilters(m, FiltersOn(m, hop, field))
           low == IF "from" \in ops THEN UpsertFilter(cleared, hop, field, "from") ELSE cleared
           high == IF "to" \in ops THEN UpsertFilter(low, hop, field, "to") ELSE low
           all == IF "is" \in ops THEN UpsertFilter(high, hop, field, "is") ELSE high
<1>1. Sound(cleared) /\ cleared.hops = m.hops
  BY RemovingFilters, FiltersRemoved DEF Sound, WellFormed
<1> HIDE DEF cleared
<1>2. Sound(low) /\ low.hops = m.hops
  BY <1>1, Upserting
<1> HIDE DEF low
<1>3. Sound(high) /\ high.hops = m.hops
  BY <1>2, Upserting
<1> HIDE DEF high
<1>4. Sound(all)
  BY <1>3, Upserting
<1> QED  BY <1>4 DEF Applied, cleared, low, high

(* The builder opens on a model that is sound. *)
LEMMA Opening ==
  ASSUME NEW c \in Classes
  PROVE  /\ Sound(Empty(c))
         /\ \A source \in Attributes : Sound(AddColumn(Empty(c), None, source))
         /\ Sound(AddFilter(Empty(c), None, None, "is"))
<1>1. Empty(c) \in QueryModel
  BY DEF Empty, QueryModel
<1>2. Sound(Empty(c))
  BY <1>1, FS_EmptySet
     DEF Empty, Sound, WellFormed, ColumnsApart, ReferencesResolve, SumsAreNumeric, Ids, Aliases
<1> QED  BY <1>2, AddingAColumn, AddingAFilter

LEMMA Loading ==
  ASSUME NEW m \in Stored, Valid(m)
  PROVE  Sound(m)
BY QueryEditsAssumption DEF Valid, IdsAreApart, Sound, ColumnsApart

LEMMA ClassType ==
  ASSUME NEW m, m \in QueryModel, NEW hop \in {None} \cup Ids(m.hops)
  PROVE  ClassAt(m, hop) \in Classes
BY DEF ClassAt, QueryModel, Ids

LEMMA FieldType ==
  ASSUME NEW c \in Classes, NEW source \in {"label"} \cup FieldsOf[c]
  PROVE  source \in Attributes
BY DEF Attributes, Sources

(* An edit of a sound model leaves one. *)
LEMMA EditIsSound ==
  ASSUME model # None, Sound(model), Edit
  PROVE  Sound(model')
<1> USE DEF Edited
<1>0. model \in QueryModel /\ Hops = {None} \cup Ids(model.hops)
  BY DEF Sound, WellFormed, Hops
<1>1. CASE SelectColumn
  <2> PICK hop \in Hops, path \in Paths :
        /\ Len(path) > 0 => path[1].from = ClassAt(model, hop)
        /\ Len(path) > 1 => path[2].from = path[1].to
        /\ LET class == IF path = <<>> THEN ClassAt(model, hop) ELSE path[Len(path)].to
               end == ResolvePath(model, hop, path)
           IN  end.ok /\ \E source \in {"label"} \cup FieldsOf[class] :
                 \E unticked \in {{}} \cup {{id} : id \in Ids(model.columns)} :
                   Edited(Selected(model, end, source, unticked))
    BY <1>1 DEF SelectColumn, Paths
  <2> DEFINE class == IF path = <<>> THEN ClassAt(model, hop) ELSE path[Len(path)].to
             end == ResolvePath(model, hop, path)
  <2>1. class \in Classes
    <3>1. path # <<>> => path[Len(path)] \in Links
      BY DEF Paths
    <3> QED  BY <1>0, <3>1, ClassType, LinkType
  <2> PICK source \in {"label"} \cup FieldsOf[class],
           unticked \in {{}} \cup {{id} : id \in Ids(model.columns)} :
             model' = Selected(model, end, source, unticked)
    OBVIOUS
  <2>2. source \in Attributes
    BY <2>1, FieldType
  <2> QED  BY <1>0, <2>2, Selecting
<1>2. CASE RemoveGroup
  BY <1>2, RemovingAHop DEF RemoveGroup
<1>3. CASE RemoveColumn
  BY <1>3, RemovingColumns DEF RemoveColumn
<1>4. CASE ApplyFilter
  <2> PICK hop \in Hops :
        \E field \in FieldsOf[ClassAt(model, hop)] \cup {None} : \E ops \in Forms(field) :
          model' = Applied(model, hop, field, ops)
    BY <1>4 DEF ApplyFilter
  <2> PICK field \in FieldsOf[ClassAt(model, hop)] \cup {None} :
        \E ops \in Forms(field) : model' = Applied(model, hop, field, ops)
    OBVIOUS
  <2>1. field \in {None} \cup Attributes
    BY <1>0, ClassType, FieldType
  <2> QED  BY <1>0, <2>1, Applying
<1>5. CASE RemoveChip
  BY <1>5, RemovingFilters DEF RemoveChip
<1>6. CASE GroupChips \/ UngroupChips \/ TakeChipOut
  <2>1. \A chip \in Chips(model) : chip \in SUBSET model.filters
    BY DEF Chips, FiltersOn
  <2>2. CASE GroupChips
    <3> PICK picked \in SUBSET {chip \in Chips(model) : Groupable(chip)} :
          model' = GroupFilters(model, UNION picked)
      BY <2>2 DEF GroupChips
    <3>1. UNION picked \in SUBSET model.filters
      BY <2>1
    <3> QED  BY <3>1, GroupingFilters
  <2>3. CASE UngroupChips
    BY <2>3, GroupingFilters DEF UngroupChips
  <2>4. CASE TakeChipOut
    BY <2>1, <2>4, GroupingFilters DEF TakeChipOut
  <2> QED  BY <1>6, <2>2, <2>3, <2>4
<1>7. CASE Sort
  BY <1>7, Sorting DEF Sort
<1>8. CASE SetAggregated
  BY <1>8, Aggregating, Listing DEF SetAggregated
<1>9. CASE GroupBy
  BY <1>9, Grouping DEF GroupBy
<1>10. CASE NewMeasure
  BY <1>10, Measuring DEF NewMeasure
<1>11. CASE DropMeasure
  BY <1>11, RemovingAMeasure DEF DropMeasure
<1>12. CASE AddHaving \/ RemoveHaving
  <2>1. CASE AddHaving
    BY <2>1, ChangingHaving DEF AddHaving
  <2>2. CASE RemoveHaving
    <3> PICK alias \in model.having : model' = [model EXCEPT !.having = @ \ {alias}]
      BY <2>2 DEF RemoveHaving
    <3>1. alias \in Aliases(model)
      BY OwnKeys
    <3> QED  BY <3>1, ChangingHaving
  <2> QED  BY <1>12, <2>1, <2>2
<1>13. CASE AddRule \/ RemoveRule
  <2>1. CASE AddRule
    BY <2>1, ChangingRules DEF AddRule
  <2>2. CASE RemoveRule
    <3> PICK id \in model.rules : model' = [model EXCEPT !.rules = @ \ {id}]
      BY <2>2 DEF RemoveRule
    <3>1. id \in Ids(model.columns)
      BY OwnKeys
    <3> QED  BY <3>1, ChangingRules
  <2> QED  BY <1>13, <2>1, <2>2
<1> QED  BY <1>1, <1>2, <1>3, <1>4, <1>5, <1>6, <1>7, <1>8, <1>9, <1>10, <1>11, <1>12, <1>13 DEF Edit

SoundModel == model # None => Sound(model)

(* The invariant the others rest on: while the builder is open, its model is typed and finite, no   *)
(* two columns and no two filters share an id, references resolve and sums are over numbers.        *)
THEOREM ModelsAreSound == Spec => []SoundModel
<1>1. Init => SoundModel
  BY DEF Init, SoundModel
<1>2. ASSUME SoundModel, [Next]_vars
      PROVE  SoundModel'
  <2>1. CASE Load
    BY <2>1, Loading DEF Load, Opened, Runnable, SoundModel
  <2>2. CASE StartFromPick
    <3> PICK c \in Classes : \E source \in {"label"} \cup FieldsOf[c] :
               model' = AddColumn(Empty(c), None, source)
      BY <2>2 DEF StartFromPick, Opened
    <3> QED  BY FieldType, Opening DEF SoundModel
  <2>3. CASE StartFromSearchHit
    BY <2>3, Opening DEF StartFromSearchHit, Opened, SoundModel
  <2>4. CASE Close
    BY <2>4 DEF Close, Opened, SoundModel
  <2>5. CASE model # None /\ Edit
    BY <1>2, <2>5, EditIsSound DEF SoundModel
  <2>6. CASE UNCHANGED vars
    BY <1>2, <2>6 DEF SoundModel, vars
  <2> QED  BY <1>2, <2>1, <2>2, <2>3, <2>4, <2>5, <2>6 DEF Next
<1> QED  BY <1>1, <1>2, PTL DEF Spec

(* Nothing dangles, in any schema and after any number of edits. *)
THEOREM NothingEverDangles == Spec => []NothingDangles
<1>1. SoundModel => NothingDangles
  BY DEF SoundModel, Sound, NothingDangles
<1> QED  BY <1>1, ModelsAreSound, PTL
(* An edit is counted, and there is room for it. *)
LEMMA EditsAreCounted ==
  ASSUME Edit
  PROVE  edits < MaxEdits /\ edits' = edits + 1
<1> USE DEF Edited
<1>1. CASE SelectColumn \/ RemoveGroup \/ RemoveColumn
  BY <1>1 DEF SelectColumn, RemoveGroup, RemoveColumn
<1>2. CASE ApplyFilter \/ RemoveChip \/ GroupChips \/ UngroupChips \/ TakeChipOut
  BY <1>2 DEF ApplyFilter, RemoveChip, GroupChips, UngroupChips, TakeChipOut
<1>3. CASE Sort \/ SetAggregated \/ GroupBy \/ NewMeasure \/ DropMeasure
  BY <1>3 DEF Sort, SetAggregated, GroupBy, NewMeasure, DropMeasure
<1>4. CASE AddHaving \/ RemoveHaving \/ AddRule \/ RemoveRule
  BY <1>4 DEF AddHaving, RemoveHaving, AddRule, RemoveRule
<1> QED  BY <1>1, <1>2, <1>3, <1>4 DEF Edit

(* The builder's model is always one that could be stored and decoded again. *)
THEOREM ModelsAreTyped == Spec => []TypeOK
<1> DEFINE Counted == edits \in 0..MaxEdits
<1>1. Init => Counted
  BY QueryEditsAssumption DEF Init
<1>2. Counted /\ [Next]_vars => Counted'
  <2> SUFFICES ASSUME Counted, [Next]_vars PROVE Counted'
    OBVIOUS
  <2>1. CASE Load \/ StartFromPick \/ StartFromSearchHit \/ Close
    BY <2>1, QueryEditsAssumption DEF Load, StartFromPick, StartFromSearchHit, Close, Opened
  <2>2. CASE Edit
    BY <2>2, EditsAreCounted, QueryEditsAssumption
  <2>3. CASE UNCHANGED vars
    BY <2>3 DEF vars
  <2> QED  BY <2>1, <2>2, <2>3 DEF Next
<1>3. SoundModel /\ Counted => TypeOK
  BY DEF SoundModel, Sound, TypeOK
<1> QED  BY <1>1, <1>2, <1>3, ModelsAreSound, PTL DEF Spec
-----------------------------------------------------------------------------
(***************************************************************************)
(* Choices.  A group never keeps a single member because every edit that   *)
(* takes filters away dissolves what is left of one; and a range is never  *)
(* split over alternatives because only a property's only filter can be    *)
(* grouped, and a grouped property's filters are replaced, never added to. *)
(***************************************************************************)
TwoEach(F) == \A f \in F : f.group # None => \E o \in F \ {f} : o.group = f.group

Alone(F) ==
  \A f, o \in F : f.group # None /\ f.field # None /\ o.hop = f.hop /\ o.field = f.field => o = f

Choices(F) == TwoEach(F) /\ Alone(F)

Apart(F) == F \subseteq FilterType /\ \A f, g \in F : f.id = g.id => f = g

LEMMA ChoicesOfAModel ==
  ASSUME NEW m
  PROVE  Choices(m.filters) <=> GroupsHaveTwo(m) /\ AloneInGroups(m)
BY DEF Choices, TwoEach, Alone, GroupsHaveTwo, AloneInGroups, FiltersOn

LEMMA SoundIsApart ==
  ASSUME NEW m, Sound(m)
  PROVE  Apart(m.filters) /\ m \in QueryModel
BY OwnFiltersFit DEF FiltersFit, Apart, Sound, WellFormed

(* What regrouping leaves of a filter. *)
LEMMA RegroupedParts ==
  ASSUME NEW F, F \subseteq FilterType, NEW group, NEW f \in F
  PROVE  LET t == [f EXCEPT !.group = group[f]]
         IN  /\ t \in Regrouped(F, group)
             /\ t.id = f.id /\ t.hop = f.hop /\ t.field = f.field /\ t.op = f.op /\ t.group = group[f]
BY DEF Regrouped, FilterType

LEMMA OfRegrouped ==
  ASSUME NEW F, NEW group, NEW t \in Regrouped(F, group)
  PROVE  \E f \in F : t = [f EXCEPT !.group = group[f]]
BY DEF Regrouped

(* Only filters that are alone on their property may be given a group. *)
LEMMA RegroupedAlone ==
  ASSUME NEW F, F \subseteq FilterType, NEW group,
         \A f, o \in F : group[f] # None /\ f.field # None /\ o.hop = f.hop /\ o.field = f.field => o = f
  PROVE  Alone(Regrouped(F, group))
<1> SUFFICES ASSUME NEW t \in Regrouped(F, group), NEW u \in Regrouped(F, group),
                    t.group # None, t.field # None, u.hop = t.hop, u.field = t.field
             PROVE  u = t
  BY DEF Alone
<1> PICK f \in F : t = [f EXCEPT !.group = group[f]]
  BY OfRegrouped
<1> PICK o \in F : u = [o EXCEPT !.group = group[o]]
  BY OfRegrouped
<1>1. t.group = group[f] /\ t.field = f.field /\ t.hop = f.hop /\ u.field = o.field /\ u.hop = o.hop
  BY RegroupedParts
<1>2. o = f
  BY <1>1
<1> QED  BY <1>2

(* Two filters that stay apart share a group after an edit that gives them one. *)
LEMMA RegroupedTwoEach ==
  ASSUME NEW F, Apart(F), NEW group,
         \A f \in F : group[f] # None => \E o \in F \ {f} : group[o] = group[f]
  PROVE  TwoEach(Regrouped(F, group))
<1> SUFFICES ASSUME NEW t \in Regrouped(F, group), t.group # None
             PROVE  \E u \in Regrouped(F, group) \ {t} : u.group = t.group
  BY DEF TwoEach
<1> PICK f \in F : t = [f EXCEPT !.group = group[f]]
  BY OfRegrouped
<1>0. F \subseteq FilterType
  BY DEF Apart
<1>1. t.group = group[f] /\ t.id = f.id
  BY <1>0, RegroupedParts
<1> PICK o \in F \ {f} : group[o] = group[f]
  BY <1>1
<1> DEFINE u == [o EXCEPT !.group = group[o]]
<1>2. u \in Regrouped(F, group) /\ u.group = group[o] /\ u.id = o.id
  BY <1>0, RegroupedParts
<1>3. o.id # f.id
  BY DEF Apart
<1> QED  BY <1>1, <1>2, <1>3

(* Dissolving leaves choices, whatever it starts from. *)
LEMMA DissolvedChoices ==
  ASSUME NEW F, Apart(F), Alone(F)
  PROVE  Choices(Regrouped(F, Held(F)))
<1>1. \A f \in F : Held(F)[f] = IF \E o \in F \ {f} : o.group = f.group THEN f.group ELSE None
  BY DEF Held
<1>2. \A f, o \in F : Held(F)[f] # None /\ f.field # None /\ o.hop = f.hop /\ o.field = f.field => o = f
  BY <1>1 DEF Alone
<1>3. \A f \in F : Held(F)[f] # None => \E o \in F \ {f} : Held(F)[o] = Held(F)[f]
  <2> SUFFICES ASSUME NEW f \in F, Held(F)[f] # None
               PROVE  \E o \in F \ {f} : Held(F)[o] = Held(F)[f]
    OBVIOUS
  <2> PICK o \in F \ {f} : o.group = f.group
    BY <1>1
  <2>1. Held(F)[o] = o.group /\ Held(F)[f] = f.group
    BY <1>1
  <2> QED  BY <2>1
<1> QED  BY <1>2, <1>3, RegroupedAlone, RegroupedTwoEach DEF Choices, Apart

LEMMA FewerAlone ==
  ASSUME NEW F, Apart(F), Alone(F), NEW G \in SUBSET F
  PROVE  Apart(G) /\ Alone(G)
BY DEF Alone, Apart

LEMMA RemovingKeepsChoices ==
  ASSUME NEW m, Sound(m), Choices(m.filters), NEW gone
  PROVE  Choices(RemoveFilters(m, gone).filters)
<1>1. RemoveFilters(m, gone).filters = Regrouped(m.filters \ gone, Held(m.filters \ gone))
  BY SoundIsApart, FiltersRemoved
<1>2. Apart(m.filters \ gone) /\ Alone(m.filters \ gone)
  BY SoundIsApart, FewerAlone DEF Choices
<1> QED  BY <1>1, <1>2, DissolvedChoices

(* The chips picked for a group: at least two filters, each alone on its property. *)
LEMMA PickedChips ==
  ASSUME NEW m, Sound(m), NEW picked \in SUBSET {chip \in Chips(m) : Groupable(chip)},
         Cardinality(picked) >= 2
  PROVE  /\ UNION picked \in SUBSET m.filters
         /\ \A f \in UNION picked, o \in m.filters :
              f.field # None /\ o.hop = f.hop /\ o.field = f.field => o = f
         /\ \A f \in UNION picked : \E o \in UNION picked : o # f
<1>0. IsFiniteSet(m.filters)
  BY DEF Sound, WellFormed
<1>1. \A chip \in picked : \E f \in m.filters :
        chip = {f} /\ \A o \in m.filters : f.field # None /\ o.hop = f.hop /\ o.field = f.field => o = f
  <2> SUFFICES ASSUME NEW chip \in picked
               PROVE  \E f \in m.filters : chip = {f} /\
                        \A o \in m.filters : f.field # None /\ o.hop = f.hop /\ o.field = f.field => o = f
    OBVIOUS
  <2>1. chip \in Chips(m) /\ Cardinality(chip) = 1
    BY DEF Groupable
  <2>2. chip \in SUBSET m.filters
    BY <2>1 DEF Chips, FiltersOn
  <2>3. CASE \E f \in m.filters : f.field = None /\ chip = {f}
    BY <2>3
  <2>4. CASE \E x \in m.filters : x.field # None /\ chip = FiltersOn(m, x.hop, x.field)
    <3> PICK x \in m.filters : x.field # None /\ chip = FiltersOn(m, x.hop, x.field)
      BY <2>4
    <3>1. x \in chip
      BY DEF FiltersOn
    <3>2. IsFiniteSet(chip)
      BY <1>0, <2>2, FS_Subset
    <3>3. chip = {x}
      BY <2>1, <3>1, <3>2, FS_Singleton
    <3> QED  BY <3>3 DEF FiltersOn
  <2> QED  BY <2>1, <2>3, <2>4 DEF Chips
<1>2. IsFiniteSet(picked)
  <2>1. picked \in SUBSET (SUBSET m.filters)
    BY <1>1
  <2> QED  BY <1>0, <2>1, FS_SUBSET, FS_Subset
<1>3. ASSUME NEW f \in UNION picked
      PROVE  \E o \in UNION picked : o # f
  <2>1. {f} \in picked
    BY <1>1
  <2>2. Cardinality(picked) # 1
    BY <1>2, FS_CardinalityType
  <2>3. picked # {{f}}
    BY <1>2, <2>2, FS_Singleton
  <2>4. \E chip \in picked : chip # {f}
    BY <2>1, <2>3
  <2> QED  BY <1>1, <2>4
<1>4. UNION picked \in SUBSET m.filters
  BY <1>1
<1>5. \A f \in UNION picked, o \in m.filters :
        f.field # None /\ o.hop = f.hop /\ o.field = f.field => o = f
  BY <1>1
<1> QED  BY <1>3, <1>4, <1>5

LEMMA GroupingKeepsChoices ==
  ASSUME NEW m, Sound(m), Choices(m.filters),
         NEW picked \in SUBSET {chip \in Chips(m) : Groupable(chip)}, Cardinality(picked) >= 2
  PROVE  Choices(GroupFilters(m, UNION picked).filters)
<1> DEFINE members == UNION picked
           touched == {f.group : f \in members} \ {None}
           all == members \cup {f \in m.filters : f.group \in touched}
           F == m.filters
           to == Gathered(m, members, NewGroup(m))
<1>1. /\ members \in SUBSET F
      /\ \A f \in members, o \in F : f.field # None /\ o.hop = f.hop /\ o.field = f.field => o = f
      /\ \A f \in members : \E o \in members : o # f
  BY PickedChips
<1> HIDE DEF members
<1>2. GroupFilters(m, members).filters = Regrouped(F, to)
  BY <1>1, SoundIsApart, GroupedFilters DEF QueryModel
<1>3. \A f \in F : to[f] = IF f \in all THEN NewGroup(m) ELSE f.group
  BY DEF Gathered
<1>4. \A f \in F : f.group # NewGroup(m)
  BY NewGroupIsNew
<1>5. Apart(F) /\ TwoEach(F) /\ Alone(F)
  BY SoundIsApart DEF Choices
<1> HIDE DEF F, to
<1>6. \A f, o \in F : to[f] # None /\ f.field # None /\ o.hop = f.hop /\ o.field = f.field => o = f
  <2> SUFFICES ASSUME NEW f \in F, NEW o \in F, to[f] # None, f.field # None,
                      o.hop = f.hop, o.field = f.field
               PROVE  o = f
    OBVIOUS
  <2>1. f \in members \/ f.group # None
    BY <1>3
  <2> QED  BY <1>1, <1>5, <2>1 DEF Alone
<1>7. \A f \in F : to[f] # None => \E o \in F \ {f} : to[o] = to[f]
  <2> SUFFICES ASSUME NEW f \in F, to[f] # None
               PROVE  \E o \in F \ {f} : to[o] = to[f]
    OBVIOUS
  <2>1. CASE f \in all
    <3>1. \E o \in members : o # f
      <4>1. \E g \in members : TRUE
        BY <2>1
      <4> QED  BY <1>1, <4>1
    <3> QED  BY <1>1, <1>3, <2>1, <3>1
  <2>2. CASE f \notin all
    <3>1. f.group # None /\ to[f] = f.group
      BY <1>3, <2>2
    <3> PICK o \in F \ {f} : o.group = f.group
      BY <1>5, <3>1 DEF TwoEach
    <3>2. o \notin all
      BY <2>2, <3>1 DEF F
    <3> QED  BY <1>3, <3>1, <3>2
  <2> QED  BY <2>1, <2>2
<1>8. F \subseteq FilterType
  BY <1>5 DEF Apart
<1> QED  BY <1>2, <1>5, <1>6, <1>7, <1>8, RegroupedAlone, RegroupedTwoEach DEF Choices, members

LEMMA UngroupingKeepsChoices ==
  ASSUME NEW m, Sound(m), Choices(m.filters), NEW group
  PROVE  Choices(Ungroup(m, group).filters)
<1> DEFINE F == m.filters
           to == [f \in m.filters |-> IF f.group = group THEN None ELSE f.group]
<1>1. Ungroup(m, group).filters = Regrouped(F, to)
  BY SoundIsApart, UngroupedFilters DEF QueryModel
<1>2. \A f \in F : to[f] = IF f.group = group THEN None ELSE f.group
  OBVIOUS
<1>3. Apart(F) /\ TwoEach(F) /\ Alone(F) /\ F \subseteq FilterType
  BY SoundIsApart DEF Choices, Apart
<1> HIDE DEF F, to
<1>4. \A f, o \in F : to[f] # None /\ f.field # None /\ o.hop = f.hop /\ o.field = f.field => o = f
  BY <1>2, <1>3 DEF Alone
<1>5. \A f \in F : to[f] # None => \E o \in F \ {f} : to[o] = to[f]
  <2> SUFFICES ASSUME NEW f \in F, to[f] # None
               PROVE  \E o \in F \ {f} : to[o] = to[f]
    OBVIOUS
  <2>1. f.group # None /\ f.group # group /\ to[f] = f.group
    BY <1>2
  <2> PICK o \in F \ {f} : o.group = f.group
    BY <1>3, <2>1 DEF TwoEach
  <2> QED  BY <1>2, <2>1
<1> QED  BY <1>1, <1>3, <1>4, <1>5, RegroupedAlone, RegroupedTwoEach DEF Choices

LEMMA TakingOutKeepsChoices ==
  ASSUME NEW m, Sound(m), Choices(m.filters), NEW members \in SUBSET m.filters
  PROVE  Choices(TakeOut(m, members).filters)
<1> DEFINE F == m.filters
           to == [f \in m.filters |-> IF f \in members THEN None ELSE f.group]
           G == Regrouped(F, to)
           n == [m EXCEPT !.filters = G]
<1>1. TakeOut(m, members) = Dissolved(n)
  BY SoundIsApart, TakenOutFilters DEF TakeOut
<1>2. \A f \in F : to[f] = IF f \in members THEN None ELSE f.group
  OBVIOUS
<1>3. Apart(F) /\ Alone(F) /\ F \subseteq FilterType /\ FiltersFit(m, F)
  BY SoundIsApart, OwnFiltersFit DEF Choices, Apart
<1>4. to \in [F -> {None} \cup Id]
  BY <1>3 DEF FilterType
<1>5. FiltersFit(m, G) /\ n.filters = G /\ n \in QueryModel
  <2>1. FiltersFit(m, G)
    <3> HIDE DEF F, to
    <3> QED  BY <1>3, <1>4, RegroupedFit
  <2>2. Sound(n)
    <3> HIDE DEF G
    <3> QED  BY <2>1, ReplacingFilters
  <2>3. n.filters = G
    <3> HIDE DEF G
    <3> QED  BY SoundIsApart DEF QueryModel
  <2> QED  BY <2>1, <2>2, <2>3, SoundIsApart
<1>6. \A f, o \in F : to[f] # None /\ f.field # None /\ o.hop = f.hop /\ o.field = f.field => o = f
  <2> HIDE DEF F, to
  <2> QED  BY <1>2, <1>3 DEF Alone
<1>7. Alone(G)
  <2> HIDE DEF F, to
  <2> QED  BY <1>3, <1>6, RegroupedAlone
<1>8. Apart(G)
  BY <1>5 DEF FiltersFit, Apart
<1>9. Dissolved(n).filters = Regrouped(G, Held(G))
  <2> HIDE DEF G
  <2>1. Dissolved(n) = [n EXCEPT !.filters = Regrouped(G, Held(G))]
    BY <1>5, DissolvedFilters
  <2> HIDE DEF n
  <2> QED  BY <1>5, <2>1 DEF QueryModel
<1> QED  BY <1>1, <1>7, <1>8, <1>9, DissolvedChoices

(* A filter that is added has no group, and its property carries none that has. *)
Free(F, hop, field) == \A f \in F : f.hop = hop /\ f.field = field => f.group = None

LEMMA UpsertingKeepsChoices ==
  ASSUME NEW m, Sound(m), Choices(m.filters), NEW hop \in {None} \cup Ids(m.hops),
         NEW field \in {None} \cup Attributes, NEW op \in {"is", "from", "to"},
         Free(m.filters, hop, field)
  PROVE  LET n == UpsertFilter(m, hop, field, op)
         IN  Choices(n.filters) /\ Free(n.filters, hop, field)
<1> DEFINE f == [id |-> Fresh("f", Ids(m.filters)), hop |-> hop, field |-> field, op |-> op, group |-> None]
           n == UpsertFilter(m, hop, field, op)
<1>1. n.filters = m.filters \/ n.filters = m.filters \cup {f}
  BY SoundIsApart DEF UpsertFilter, AddFilter, QueryModel
<1>2. f.hop = hop /\ f.field = field /\ f.group = None
  OBVIOUS
<1> HIDE DEF f, n
<1>3. CASE n.filters = m.filters \cup {f}
  <2>1. TwoEach(n.filters)
    BY <1>2, <1>3 DEF Choices, TwoEach
  <2>2. Alone(n.filters)
    BY <1>2, <1>3 DEF Choices, Alone, Free
  <2>3. Free(n.filters, hop, field)
    BY <1>2, <1>3 DEF Free
  <2> QED  BY <2>1, <2>2, <2>3 DEF n, Choices
<1> QED  BY <1>1, <1>3 DEF n

LEMMA ClearingFrees ==
  ASSUME NEW m, Sound(m), NEW hop, NEW field
  PROVE  Free(RemoveFilters(m, FiltersOn(m, hop, field)).filters, hop, field)
<1> DEFINE F == m.filters \ FiltersOn(m, hop, field)
<1>1. RemoveFilters(m, FiltersOn(m, hop, field)).filters = Regrouped(F, Held(F))
  BY SoundIsApart, FiltersRemoved
<1>2. F \subseteq FilterType /\ \A f \in F : ~(f.hop = hop /\ f.field = field)
  BY SoundIsApart DEF Apart, FiltersOn
<1> HIDE DEF F
<1>3. ASSUME NEW t \in Regrouped(F, Held(F)), t.hop = hop, t.field = field PROVE FALSE
  <2> PICK f \in F : t = [f EXCEPT !.group = Held(F)[f]]
    BY OfRegrouped
  <2> QED  BY <1>2, <1>3, RegroupedParts
<1> QED  BY <1>1, <1>3 DEF Free

LEMMA ApplyingKeepsChoices ==
  ASSUME NEW m, Sound(m), Choices(m.filters), NEW hop \in {None} \cup Ids(m.hops),
         NEW field \in {None} \cup Attributes, NEW ops
  PROVE  Choices(Applied(m, hop, field, ops).filters)
<1> DEFINE cleared == RemoveFilters(m, FiltersOn(m, hop, field))
           low == IF "from" \in ops THEN UpsertFilter(cleared, hop, field, "from") ELSE cleared
           high == IF "to" \in ops THEN UpsertFilter(low, hop, field, "to") ELSE low
           all == IF "is" \in ops THEN UpsertFilter(high, hop, field, "is") ELSE high
           Fit(n) == Sound(n) /\ n.hops = m.hops /\ Choices(n.filters) /\ Free(n.filters, hop, field)
<1>1. Fit(cleared)
  BY RemovingFilters, FiltersRemoved, RemovingKeepsChoices, ClearingFrees DEF Sound, WellFormed
<1> HIDE DEF cleared
<1>2. Fit(low)
  BY <1>1, Upserting, UpsertingKeepsChoices
<1> HIDE DEF low
<1>3. Fit(high)
  BY <1>2, Upserting, UpsertingKeepsChoices
<1> HIDE DEF high
<1>4. Choices(all.filters)
  BY <1>3, UpsertingKeepsChoices
<1> QED  BY <1>4 DEF Applied, cleared, low, high

(* A path of the browser adds hops and nothing else. *)
LEMMA PathKeepsFilters ==
  ASSUME NEW m, Sound(m), NEW hop \in {None} \cup Ids(m.hops), NEW path \in Paths
  PROVE  ResolvePath(m, hop, path).model.filters = m.filters
<1>1. \A at, link : Place(at) /\ link \in Links => Follow(at, link).model.filters = at.model.filters
  <2> SUFFICES ASSUME NEW at, Place(at), NEW link \in Links
               PROVE  Follow(at, link).model.filters = at.model.filters
    OBVIOUS
  <2> DEFINE h == NewHop(at.model, at.hop, link)
  <2>1. Follow(at, link).model \in {at.model, [at.model EXCEPT !.hops = @ \cup {h}]}
    BY Steps
  <2>2. [at.model EXCEPT !.hops = @ \cup {h}].filters = at.model.filters
    BY DEF Place, QueryModel
  <2> HIDE DEF h
  <2> QED  BY <2>1, <2>2
<1> DEFINE start == [model |-> m, hop |-> hop, ok |-> TRUE]
           one == IF Len(path) > 0 THEN Follow(start, path[1]) ELSE start
<1>2. Place(start) /\ start.model = m
  BY DEF Place, Sound, WellFormed, QueryModel, Ids
<1>3. (Len(path) > 0 => path[1] \in Links) /\ (Len(path) > 1 => path[2] \in Links)
  BY DEF Paths
<1> HIDE DEF start
<1>4. Place(one) /\ one.model.filters = m.filters
  BY <1>1, <1>2, <1>3, Following
<1>5. ResolvePath(m, hop, path) = IF Len(path) > 1 THEN Follow(one, path[2]) ELSE one
  BY DEF ResolvePath, start
<1> HIDE DEF one
<1> QED  BY <1>1, <1>3, <1>4, <1>5

LEMMA SelectingKeepsFilters ==
  ASSUME NEW m, Sound(m), NEW hop \in {None} \cup Ids(m.hops), NEW path \in Paths,
         NEW source \in Attributes, NEW unticked
  PROVE  Selected(m, ResolvePath(m, hop, path), source, unticked).filters = m.filters
<1> DEFINE end == ResolvePath(m, hop, path)
           n == AddColumn(end.model, end.hop, source)
<1>1. Sound(end.model) /\ end.model.filters = m.filters /\ end.hop \in {None} \cup Ids(end.model.hops)
  BY ResolvingAPath, PathKeepsFilters DEF Place
<1> HIDE DEF end
<1>2. n.filters = m.filters /\ n \in QueryModel
  <2>1. n \in QueryModel
    BY <1>1, AddingAColumn DEF Sound, WellFormed
  <2>2. n.filters = m.filters
    BY <1>1 DEF AddColumn, Sound, WellFormed, QueryModel
  <2> QED  BY <2>1, <2>2
<1> HIDE DEF n
<1>3. RemoveColumns(n, unticked).filters = m.filters
  BY <1>2, ColumnsRemoved
<1> QED  BY <1>3 DEF Selected, end, n

LEMMA HopRemovalKeepsChoices ==
  ASSUME NEW m, Sound(m), Choices(m.filters), NEW id
  PROVE  Choices(RemoveHop(m, id).filters)
<1> DEFINE a == [m EXCEPT !.hops = {h \in @ : h.id \notin Below(m, id)}]
           F == m.filters \ {f \in m.filters : f.hop \in Below(m, id)}
           b == RemoveFilters(a, {f \in m.filters : f.hop \in Below(m, id)})
           gone == {c.id : c \in {x \in m.columns : x.hop \in Below(m, id)}}
<1>1. a \in QueryModel /\ a.filters = m.filters
  BY SoundIsApart DEF QueryModel
<1>2. RemoveHop(m, id) = RemoveColumns(b, gone)
  BY DEF RemoveHop
<1> HIDE DEF a
<1>3. b \in QueryModel /\ b.filters = Regrouped(F, Held(F))
  BY <1>1, FiltersRemoved
<1> HIDE DEF b
<1>4. RemoveHop(m, id).filters = Regrouped(F, Held(F))
  BY <1>2, <1>3, ColumnsRemoved
<1>5. Apart(F) /\ Alone(F)
  BY SoundIsApart, FewerAlone DEF Choices
<1> QED  BY <1>4, <1>5, DissolvedChoices

(* Every edit keeps choices choices. *)
LEMMA EditKeepsChoices ==
  ASSUME model # None, Sound(model), Choices(model.filters), Edit
  PROVE  Choices(model'.filters)
<1> USE DEF Edited
<1>0. model \in QueryModel /\ Hops = {None} \cup Ids(model.hops)
  BY DEF Sound, WellFormed, Hops
<1>1. CASE SelectColumn
  <2> PICK hop \in Hops, path \in Paths :
        LET class == IF path = <<>> THEN ClassAt(model, hop) ELSE path[Len(path)].to
            end == ResolvePath(model, hop, path)
        IN  \E source \in {"label"} \cup FieldsOf[class] :
              \E unticked \in {{}} \cup {{id} : id \in Ids(model.columns)} :
                Edited(Selected(model, end, source, unticked))
    BY <1>1 DEF SelectColumn, Paths
  <2> DEFINE class == IF path = <<>> THEN ClassAt(model, hop) ELSE path[Len(path)].to
             end == ResolvePath(model, hop, path)
  <2>1. class \in Classes
    <3>1. path # <<>> => path[Len(path)] \in Links
      BY DEF Paths
    <3> QED  BY <1>0, <3>1, ClassType, LinkType
  <2> PICK source \in {"label"} \cup FieldsOf[class],
           unticked \in {{}} \cup {{id} : id \in Ids(model.columns)} :
             model' = Selected(model, end, source, unticked)
    OBVIOUS
  <2>2. source \in Attributes
    BY <2>1, FieldType
  <2> QED  BY <1>0, <2>2, SelectingKeepsFilters
<1>2. CASE RemoveGroup
  BY <1>2, HopRemovalKeepsChoices DEF RemoveGroup
<1>3. CASE RemoveColumn
  BY <1>0, <1>3, ColumnsRemoved DEF RemoveColumn
<1>4. CASE ApplyFilter
  <2> PICK hop \in Hops :
        \E field \in FieldsOf[ClassAt(model, hop)] \cup {None} : \E ops \in Forms(field) :
          model' = Applied(model, hop, field, ops)
    BY <1>4 DEF ApplyFilter
  <2> PICK field \in FieldsOf[ClassAt(model, hop)] \cup {None} :
        \E ops \in Forms(field) : model' = Applied(model, hop, field, ops)
    OBVIOUS
  <2>1. field \in {None} \cup Attributes
    BY <1>0, ClassType, FieldType
  <2> QED  BY <1>0, <2>1, ApplyingKeepsChoices
<1>5. CASE RemoveChip
  BY <1>5, RemovingKeepsChoices DEF RemoveChip
<1>6. CASE GroupChips
  BY <1>6, GroupingKeepsChoices DEF GroupChips
<1>7. CASE UngroupChips
  BY <1>7, UngroupingKeepsChoices DEF UngroupChips
<1>8. CASE TakeChipOut
  <2>1. \A chip \in Chips(model) : chip \in SUBSET model.filters
    BY DEF Chips, FiltersOn
  <2> QED  BY <1>8, <2>1, TakingOutKeepsChoices DEF TakeChipOut
<1>9. CASE Sort \/ SetAggregated \/ GroupBy \/ NewMeasure \/ DropMeasure
  <2>1. CASE Sort
    BY <1>0, <2>1 DEF Sort, CycleSort, QueryModel
  <2>2. CASE SetAggregated
    BY <1>0, <2>2 DEF SetAggregated, EnableAggregation, DisableAggregation, QueryModel
  <2>3. CASE GroupBy
    BY <1>0, <2>3 DEF GroupBy, ToggleGroupBy, QueryModel
  <2>4. CASE NewMeasure
    BY <1>0, <2>4 DEF NewMeasure, AddMeasure, QueryModel
  <2>5. CASE DropMeasure
    BY <1>0, <2>5 DEF DropMeasure, RemoveMeasure, QueryModel
  <2> QED  BY <1>9, <2>1, <2>2, <2>3, <2>4, <2>5
<1>10. CASE AddHaving \/ RemoveHaving \/ AddRule \/ RemoveRule
  <2>1. model'.filters = model.filters
    BY <1>0, <1>10 DEF AddHaving, RemoveHaving, AddRule, RemoveRule, QueryModel
  <2> QED  BY <2>1
<1> QED  BY <1>1, <1>2, <1>3, <1>4, <1>5, <1>6, <1>7, <1>8, <1>9, <1>10 DEF Edit

(* What the theorem asks of the models that are loaded; for those the builder saved, it says so itself. *)
StoredAlone == \A m \in Stored : Runnable(m) => AloneInGroups(m)

(***************************************************************************)
(* Groups stay choices of at least two, and never between the bounds of a  *)
(* range, however filters are grouped, merged, taken out, replaced and     *)
(* removed with their hops.                                                *)
(***************************************************************************)
THEOREM GroupsStayChoices == ASSUME StoredAlone PROVE Spec => []GroupsAreChoices
<1> DEFINE Inv == SoundModel /\ (model # None => Choices(model.filters))
<1>1. Init => Inv
  BY DEF Init, SoundModel
<1>2. ASSUME Inv, SoundModel', [Next]_vars
      PROVE  Inv'
  <2> SUFFICES ASSUME model' # None PROVE Choices(model'.filters)
    BY <1>2
  <2>1. CASE Load
    <3> PICK m \in Stored : Runnable(m) /\ model' = m
      BY <2>1 DEF Load, Opened
    <3> QED  BY ChoicesOfAModel DEF StoredAlone, Runnable, Valid
  <2>2. CASE StartFromPick \/ StartFromSearchHit
    <3>1. \A c : Empty(c).filters = {} /\ Ids({}) = {}
      BY DEF Empty, Ids
    <3>2. \A f \in model'.filters : f.group = None
      <4>1. CASE StartFromPick
        <5>1. \A c, source : AddColumn(Empty(c), None, source).filters = {}
          BY DEF AddColumn, Empty
        <5> QED  BY <4>1, <5>1 DEF StartFromPick, Opened
      <4>2. CASE StartFromSearchHit
        <5>1. \A c : \A f \in AddFilter(Empty(c), None, None, "is").filters : f.group = None
          BY <3>1 DEF AddFilter, Empty
        <5> QED  BY <4>2, <5>1 DEF StartFromSearchHit, Opened
      <4> QED  BY <2>2, <4>1, <4>2
    <3> QED  BY <3>2 DEF Choices, TwoEach, Alone
  <2>3. CASE Close
    BY <2>3 DEF Close, Opened
  <2>4. CASE model # None /\ Edit
    BY <1>2, <2>4, EditKeepsChoices DEF SoundModel
  <2>5. CASE UNCHANGED vars
    BY <1>2, <2>5 DEF vars
  <2> QED  BY <1>2, <2>1, <2>2, <2>3, <2>4, <2>5 DEF Next
<1>3. Inv => GroupsAreChoices
  BY ChoicesOfAModel DEF GroupsAreChoices
<1> QED  BY <1>1, <1>2, <1>3, ModelsAreSound, PTL DEF Spec
-----------------------------------------------------------------------------
(***************************************************************************)
(* Joins.  A hop's conditions are about the hops above it, and no edit     *)
(* changes those: a hop is added below what is there, and a removal takes  *)
(* whole branches.  Two hops with one id would share a lineage, so that    *)
(* ids are apart is part of the invariant.                                 *)
(***************************************************************************)
HopsApart(m) == \A x, y \in m.hops : x.id = y.id => x = y

Tree(m) == HopsApart(m) /\ AreJoins(m)

ParentsThere(m) == \A x \in m.hops : x.parent \in Ids(m.hops) \cup {None}

LEMMA TreeOfHops ==
  ASSUME NEW m, NEW n, n.hops = m.hops, n.root = m.root, Tree(m)
  PROVE  Tree(n)
<1>1. \A id : Lineage(n, id) = Lineage(m, id) /\ ClassAt(n, id) = ClassAt(m, id)
  BY DEF Lineage, ClassAt
<1> QED  BY <1>1 DEF Tree, HopsApart, AreJoins, NoCycle

LEMMA SoundIsRooted ==
  ASSUME NEW m, Sound(m)
  PROVE  /\ ParentsThere(m) /\ None \notin Ids(m.hops) /\ m.hops \subseteq HopType
         /\ \A h \in m.hops : h.id \in Ids(m.hops)
BY QueryEditsAssumption DEF Sound, WellFormed, ReferencesResolve, ParentsThere, Ids, QueryModel, HopType

(* A lineage only has hops of the model in it, and the way up from a hop that stays is as it was. *)
LEMMA LineageShrinks ==
  ASSUME NEW m, NEW n, n.hops \subseteq m.hops, ParentsThere(n), NEW id \in Ids(n.hops) \cup {None}
  PROVE  Lineage(n, id) \subseteq Lineage(m, id)
<1> SUFFICES ASSUME NEW x \in Lineage(n, id),
                    NEW S \in SUBSET (Ids(m.hops) \cup {None}),
                    id \in S, \A h \in m.hops : h.id \in S => h.parent \in S
             PROVE  x.id \in S
  BY DEF Lineage
<1> DEFINE T == S \cap (Ids(n.hops) \cup {None})
<1>1. T \in SUBSET (Ids(n.hops) \cup {None}) /\ id \in T
  OBVIOUS
<1>2. \A h \in n.hops : h.id \in T => h.parent \in T
  BY DEF ParentsThere
<1>3. x.id \in T
  <2> HIDE DEF T
  <2> QED  BY <1>1, <1>2 DEF Lineage
<1> QED  BY <1>3

(* A hop with an id of its own is above nothing that was there. *)
LEMMA LineageStays ==
  ASSUME NEW m, NEW n, NEW h, n.hops = m.hops \cup {h}, h.id \notin Ids(m.hops) \cup {None},
         ParentsThere(m), NEW id \in Ids(m.hops) \cup {None}
  PROVE  Lineage(n, id) = Lineage(m, id)
<1> DEFINE old == Ids(m.hops) \cup {None}
<1>0. Ids(n.hops) = Ids(m.hops) \cup {h.id} /\ \A x \in m.hops : x.id \in old
  BY DEF Ids
<1>1. Lineage(m, id) \subseteq Lineage(n, id)
  BY LineageShrinks
<1>2. ASSUME NEW x \in Lineage(n, id) PROVE x \in Lineage(m, id)
  <2>1. /\ old \in SUBSET (Ids(n.hops) \cup {None}) /\ id \in old
        /\ \A y \in n.hops : y.id \in old => y.parent \in old
    BY <1>0 DEF ParentsThere
  <2>2. x \in n.hops /\ x.id \in old
    BY <1>2, <2>1 DEF Lineage
  <2>3. x \in m.hops
    BY <2>2
  <2>4. ASSUME NEW S \in SUBSET (Ids(m.hops) \cup {None}), id \in S,
               \A y \in m.hops : y.id \in S => y.parent \in S
        PROVE  x.id \in S
    <3>1. S \in SUBSET (Ids(n.hops) \cup {None})
      BY <1>0
    <3>2. \A y \in n.hops : y.id \in S => y.parent \in S
      BY <2>4
    <3> QED  BY <1>2, <2>4, <3>1, <3>2 DEF Lineage
  <2> QED  BY <2>3, <2>4 DEF Lineage
<1> QED  BY <1>1, <1>2

LEMMA ClassOfHop ==
  ASSUME NEW m, HopsApart(m), None \notin Ids(m.hops), NEW h \in m.hops
  PROVE  ClassAt(m, h.id) = h.class
<1>1. h.id # None
  BY DEF Ids
<1>2. (CHOOSE x \in m.hops : x.id = h.id) = h
  BY DEF HopsApart
<1> QED  BY <1>1, <1>2 DEF ClassAt

(* Hops that stay keep their class. *)
LEMMA ClassStays ==
  ASSUME NEW m, NEW n, HopsApart(m), HopsApart(n), m.root = n.root,
         NEW id, id = None \/ \E h \in m.hops \cap n.hops : h.id = id
  PROVE  ClassAt(n, id) = ClassAt(m, id)
<1>1. ASSUME NEW h \in m.hops \cap n.hops, h.id = id, id # None
      PROVE  ClassAt(n, id) = ClassAt(m, id)
  <2>1. (CHOOSE x \in m.hops : x.id = id) = h /\ (CHOOSE x \in n.hops : x.id = id) = h
    BY <1>1 DEF HopsApart
  <2> QED  BY <1>1, <2>1 DEF ClassAt
<1> QED  BY <1>1 DEF ClassAt

LEMMA FewerHopsAreJoins ==
  ASSUME NEW m, Tree(m), NEW n, n.hops \subseteq m.hops, n.root = m.root, ParentsThere(n)
  PROVE  Tree(n)
<1>1. HopsApart(n) /\ HopsApart(m)
  BY DEF Tree, HopsApart
<1>2. \A h \in n.hops : Lineage(n, h.parent) \subseteq Lineage(m, h.parent)
  BY LineageShrinks DEF ParentsThere
<1>3. \A h \in n.hops : ClassAt(n, h.parent) = ClassAt(m, h.parent)
  <2> TAKE h \in n.hops
  <2>1. h.parent = None \/ \E x \in m.hops \cap n.hops : x.id = h.parent
    BY DEF ParentsThere, Ids
  <2> QED  BY <1>1, <2>1, ClassStays
<1>4. NoCycle(n)
  BY <1>2 DEF NoCycle, Tree, AreJoins, Ids
<1> QED  BY <1>1, <1>2, <1>3, <1>4 DEF Tree, AreJoins

(* A hop that canExtendPath lets pass, along a link of its parent's class, is a join of its own. *)
LEMMA ExtendingKeepsJoins ==
  ASSUME NEW m, Sound(m), Tree(m), NEW parent \in {None} \cup Ids(m.hops), NEW link \in Links,
         link.from = ClassAt(m, parent), CanExtendPath(m, parent, link)
  PROVE  LET n == [m EXCEPT !.hops = @ \cup {NewHop(m, parent, link)}]
         IN  Tree(n) /\ ClassAt(n, NewHop(m, parent, link).id) = link.to
<1> DEFINE h == NewHop(m, parent, link)
           n == [m EXCEPT !.hops = @ \cup {h}]
           old == Ids(m.hops) \cup {None}
<1>1. h \in HopType /\ h.id \notin Ids(m.hops)
  BY NewHopType
<1>2. h.parent = parent /\ h.prop = link.prop /\ h.dir = link.dir /\ h.class = link.to
  BY DEF NewHop
<1>3. n.hops = m.hops \cup {h} /\ n.root = m.root
  BY AddingAHop
<1>4. h.id # None
  BY <1>1, QueryEditsAssumption DEF HopType
<1>5. ParentsThere(m) /\ None \notin Ids(m.hops) /\ m.hops \subseteq HopType /\ \A x \in m.hops : x.id \in old
  BY SoundIsRooted
<1> HIDE DEF h, n
<1>6. HopsApart(n)
  BY <1>1, <1>3 DEF HopsApart, Tree, Ids
<1>7. \A id \in old : Lineage(n, id) = Lineage(m, id)
  BY <1>1, <1>3, <1>4, <1>5, LineageStays
<1>8. \A id \in old : ClassAt(n, id) = ClassAt(m, id)
  <2> TAKE id \in old
  <2>1. id = None \/ \E x \in m.hops \cap n.hops : x.id = id
    BY <1>3 DEF Ids
  <2> QED  BY <1>3, <1>6, <2>1, ClassStays DEF Tree
<1>9. \A x \in n.hops : x.parent \in old
  BY <1>2, <1>3, <1>5 DEF ParentsThere
<1>10. NoCycle(n)
  <2> SUFFICES ASSUME NEW x \in n.hops, x.id \in Ids(Lineage(n, x.parent)) PROVE FALSE
    BY DEF NoCycle
  <2>1. x.id \in Ids(Lineage(m, x.parent))
    BY <1>7, <1>9
  <2>2. CASE x \in m.hops
    BY <2>1, <2>2 DEF Tree, AreJoins, NoCycle
  <2>3. CASE x = h
    BY <1>1, <2>1, <2>3 DEF Lineage, Ids
  <2> QED  BY <1>3, <2>2, <2>3
<1>11. ASSUME NEW x \in n.hops
       PROVE  [from |-> ClassAt(n, x.parent), prop |-> x.prop, dir |-> x.dir, to |-> x.class] \in Links
  <2>1. CASE x \in m.hops
    BY <1>8, <1>9, <2>1 DEF Tree, AreJoins
  <2>2. CASE x = h
    <3>1. link = [from |-> ClassAt(m, parent), prop |-> h.prop, dir |-> h.dir, to |-> h.class]
      BY <1>2, LinkType
    <3> QED  BY <1>2, <1>8, <2>2, <3>1
  <2> QED  BY <1>3, <2>1, <2>2
<1>12. ASSUME NEW x \in n.hops, NEW o \in n.hops \ {x}
       PROVE  [o EXCEPT !.id = x.id] # x
  <2>1. CASE x \in m.hops /\ o \in m.hops
    BY <2>1 DEF Tree, AreJoins
  <2>2. CASE x = h /\ o \in m.hops
    <3>1. ~(o.parent = h.parent /\ o.prop = h.prop /\ o.dir = h.dir /\ o.class = h.class)
      BY <1>2, <2>2 DEF CanExtendPath
    <3> QED  BY <1>1, <1>5, <2>2, <3>1 DEF HopType
  <2>3. CASE o = h /\ x \in m.hops
    <3>1. ~(x.parent = h.parent /\ x.prop = h.prop /\ x.dir = h.dir /\ x.class = h.class)
      BY <1>2, <2>3 DEF CanExtendPath
    <3> QED  BY <1>1, <1>5, <2>3, <3>1 DEF HopType
  <2> QED  BY <1>3, <2>1, <2>2, <2>3
<1>13. ASSUME NEW x \in n.hops, NEW o \in Lineage(n, x.parent), o.prop = x.prop
       PROVE  o.dir # x.dir /\ o.id # x.parent
  <2>1. o \in Lineage(m, x.parent)
    BY <1>7, <1>9
  <2>2. CASE x \in m.hops
    BY <1>13, <2>1, <2>2 DEF Tree, AreJoins
  <2>3. CASE x = h
    BY <1>2, <1>13, <2>1, <2>3 DEF CanExtendPath
  <2> QED  BY <1>3, <2>2, <2>3
<1>14. Tree(n)
  BY <1>6, <1>10, <1>11, <1>12, <1>13 DEF Tree, AreJoins
<1>15. ClassAt(n, h.id) = link.to
  <2>1. None \notin Ids(n.hops) /\ h \in n.hops
    BY <1>3, <1>4, <1>5 DEF Ids
  <2> QED  BY <1>2, <1>6, <2>1, ClassOfHop
<1> QED  BY <1>14, <1>15 DEF n, h

(* A step of a browse path: what it arrives at is of the class the next link starts from. *)
LEMMA FollowingKeepsJoins ==
  ASSUME NEW at, Place(at), Tree(at.model), NEW link \in Links,
         at.ok => link.from = ClassAt(at.model, at.hop)
  PROVE  LET to == Follow(at, link)
         IN  Tree(to.model) /\ (to.ok => ClassAt(to.model, to.hop) = link.to)
<1> DEFINE to == Follow(at, link)
           h == NewHop(at.model, at.hop, link)
<1>1. \/ /\ to.model = at.model
         /\ \E x \in There(at.model, at.hop, link) : to.hop = x.id
      \/ /\ at.ok /\ CanExtendPath(at.model, at.hop, link) /\ to.hop = h.id
         /\ to.model = [at.model EXCEPT !.hops = @ \cup {h}]
      \/ to.model = at.model /\ to.ok = FALSE
  BY Steps
<1>2. Sound(at.model) /\ at.hop \in {None} \cup Ids(at.model.hops)
  BY DEF Place
<1> HIDE DEF to
<1>3. CASE to.model = at.model /\ \E x \in There(at.model, at.hop, link) : to.hop = x.id
  <2> PICK x \in There(at.model, at.hop, link) : to.hop = x.id
    BY <1>3
  <2>1. x \in at.model.hops /\ x.class = link.to
    BY DEF There
  <2>2. ClassAt(at.model, x.id) = x.class
    BY <1>2, <2>1, ClassOfHop, SoundIsRooted DEF Tree
  <2> QED  BY <1>3, <2>1, <2>2 DEF to
<1>4. CASE /\ at.ok /\ CanExtendPath(at.model, at.hop, link) /\ to.hop = h.id
           /\ to.model = [at.model EXCEPT !.hops = @ \cup {h}]
  BY <1>2, <1>4, ExtendingKeepsJoins DEF to
<1>5. CASE to.model = at.model /\ to.ok = FALSE
  BY <1>5 DEF to
<1> QED  BY <1>1, <1>3, <1>4, <1>5

LEMMA PathKeepsJoins ==
  ASSUME NEW m, Sound(m), Tree(m), NEW hop \in {None} \cup Ids(m.hops), NEW path \in Paths,
         Len(path) > 0 => path[1].from = ClassAt(m, hop),
         Len(path) > 1 => path[2].from = path[1].to
  PROVE  Tree(ResolvePath(m, hop, path).model)
<1> DEFINE start == [model |-> m, hop |-> hop, ok |-> TRUE]
           one == IF Len(path) > 0 THEN Follow(start, path[1]) ELSE start
<1>1. Place(start) /\ start.model = m /\ start.hop = hop
  BY DEF Place, Sound, WellFormed, QueryModel, Ids
<1>2. (Len(path) > 0 => path[1] \in Links) /\ (Len(path) > 1 => path[2] \in Links /\ Len(path) > 0)
  BY DEF Paths
<1>3. ResolvePath(m, hop, path) = IF Len(path) > 1 THEN Follow(one, path[2]) ELSE one
  BY DEF ResolvePath
<1> HIDE DEF start
<1>4. Place(one) /\ Tree(one.model) /\ (Len(path) > 1 /\ one.ok => ClassAt(one.model, one.hop) = path[1].to)
  <2>1. CASE Len(path) > 0
    <3>1. Place(Follow(start, path[1])) /\ Tree(Follow(start, path[1]).model)
      BY <1>1, <1>2, <2>1, Following, FollowingKeepsJoins
    <3>2. Follow(start, path[1]).ok =>
            ClassAt(Follow(start, path[1]).model, Follow(start, path[1]).hop) = path[1].to
      BY <1>1, <1>2, <2>1, FollowingKeepsJoins
    <3> QED  BY <2>1, <3>1, <3>2
  <2>2. CASE ~(Len(path) > 0)
    BY <1>1, <1>2, <2>2
  <2> QED  BY <2>1, <2>2
<1> HIDE DEF one
<1>5. CASE Len(path) > 1
  <2>1. one.ok => path[2].from = ClassAt(one.model, one.hop)
    BY <1>4, <1>5
  <2> QED  BY <1>2, <1>3, <1>4, <1>5, <2>1, FollowingKeepsJoins
<1>6. CASE ~(Len(path) > 1)
  BY <1>3, <1>4, <1>6
<1> QED  BY <1>5, <1>6

LEMMA SelectingKeepsJoins ==
  ASSUME NEW m, Sound(m), Tree(m), NEW hop \in {None} \cup Ids(m.hops), NEW path \in Paths,
         Len(path) > 0 => path[1].from = ClassAt(m, hop),
         Len(path) > 1 => path[2].from = path[1].to,
         NEW source \in Attributes, NEW unticked
  PROVE  Tree(Selected(m, ResolvePath(m, hop, path), source, unticked))
<1> DEFINE end == ResolvePath(m, hop, path)
           n == AddColumn(end.model, end.hop, source)
           r == RemoveColumns(n, unticked)
<1>1. Sound(end.model) /\ Tree(end.model) /\ end.hop \in {None} \cup Ids(end.model.hops)
  BY ResolvingAPath, PathKeepsJoins DEF Place
<1> HIDE DEF end
<1>2. n.hops = end.model.hops /\ n.root = end.model.root /\ n \in QueryModel
  <2>1. n \in QueryModel
    BY <1>1, AddingAColumn DEF Sound, WellFormed
  <2>2. n.hops = end.model.hops /\ n.root = end.model.root
    BY <1>1 DEF AddColumn, Sound, WellFormed, QueryModel
  <2> QED  BY <2>1, <2>2
<1> HIDE DEF n
<1>3. r.hops = n.hops /\ r.root = n.root
  BY <1>2, ColumnsRemoved
<1> HIDE DEF r
<1>4. Tree(r)
  BY <1>1, <1>2, <1>3, TreeOfHops
<1> QED  BY <1>4 DEF Selected, end, n, r

LEMMA HopRemovalKeepsJoins ==
  ASSUME NEW m, Sound(m), Tree(m), NEW id
  PROVE  Tree(RemoveHop(m, id))
<1> DEFINE a == [m EXCEPT !.hops = {h \in @ : h.id \notin Below(m, id)}]
           b == RemoveFilters(a, {f \in m.filters : f.hop \in Below(m, id)})
           gone == {c.id : c \in {x \in m.columns : x.hop \in Below(m, id)}}
           n == RemoveColumns(b, gone)
<1>1. a \in QueryModel /\ a.hops \subseteq m.hops /\ a.root = m.root
  BY SoundIsApart DEF QueryModel
<1>2. RemoveHop(m, id) = n
  BY DEF RemoveHop
<1> HIDE DEF a
<1>3. b \in QueryModel /\ b.hops = a.hops /\ b.root = a.root
  BY <1>1, FiltersRemoved
<1> HIDE DEF b
<1>4. n.hops = b.hops /\ n.root = b.root
  BY <1>3, ColumnsRemoved
<1> HIDE DEF n
<1>5. Sound(n)
  BY <1>2, RemovingAHop
<1>6. Tree(n)
  BY <1>1, <1>3, <1>4, <1>5, SoundIsRooted, FewerHopsAreJoins
<1> QED  BY <1>2, <1>6

(* Filters, columns and measures leave the hops alone. *)
LEMMA RemovalLeavesHops ==
  ASSUME NEW m, m \in QueryModel, NEW gone
  PROVE  RemoveFilters(m, gone).hops = m.hops /\ RemoveFilters(m, gone).root = m.root
BY FiltersRemoved

LEMMA UpsertLeavesHops ==
  ASSUME NEW m, m \in QueryModel, NEW hop, NEW field, NEW op
  PROVE  UpsertFilter(m, hop, field, op).hops = m.hops /\ UpsertFilter(m, hop, field, op).root = m.root
BY DEF UpsertFilter, AddFilter, QueryModel

LEMMA ApplyingLeavesHops ==
  ASSUME NEW m, Sound(m), NEW hop \in {None} \cup Ids(m.hops),
         NEW field \in {None} \cup Attributes, NEW ops
  PROVE  Applied(m, hop, field, ops).hops = m.hops /\ Applied(m, hop, field, ops).root = m.root
<1> DEFINE cleared == RemoveFilters(m, FiltersOn(m, hop, field))
           low == IF "from" \in ops THEN UpsertFilter(cleared, hop, field, "from") ELSE cleared
           high == IF "to" \in ops THEN UpsertFilter(low, hop, field, "to") ELSE low
           all == IF "is" \in ops THEN UpsertFilter(high, hop, field, "is") ELSE high
           Fit(n) == Sound(n) /\ n \in QueryModel /\ n.hops = m.hops /\ n.root = m.root
<1>1. Fit(cleared)
  BY SoundIsApart, RemovingFilters, RemovalLeavesHops DEF Sound, WellFormed
<1> HIDE DEF cleared
<1>2. Fit(low)
  BY <1>1, Upserting, UpsertLeavesHops, SoundIsApart
<1> HIDE DEF low
<1>3. Fit(high)
  BY <1>2, Upserting, UpsertLeavesHops, SoundIsApart
<1> HIDE DEF high
<1>4. all.hops = m.hops /\ all.root = m.root
  BY <1>3, UpsertLeavesHops
<1> QED  BY <1>4 DEF Applied, cleared, low, high

LEMMA GroupEditsLeaveHops ==
  ASSUME NEW m, m \in QueryModel, NEW F, F \subseteq FilterType
  PROVE  /\ [m EXCEPT !.filters = F].hops = m.hops /\ [m EXCEPT !.filters = F].root = m.root
         /\ [m EXCEPT !.filters = F] \in QueryModel
         /\ Dissolved(m).hops = m.hops /\ Dissolved(m).root = m.root
BY DissolvedFilters DEF QueryModel, FilterType

(* Every edit keeps joins joins. *)
LEMMA EditKeepsJoins ==
  ASSUME model # None, Sound(model), Tree(model), Edit
  PROVE  Tree(model')
<1> USE DEF Edited
<1>0. model \in QueryModel /\ Hops = {None} \cup Ids(model.hops)
  BY DEF Sound, WellFormed, Hops
<1>1. CASE SelectColumn
  <2> PICK hop \in Hops, path \in Paths :
        /\ Len(path) > 0 => path[1].from = ClassAt(model, hop)
        /\ Len(path) > 1 => path[2].from = path[1].to
        /\ LET class == IF path = <<>> THEN ClassAt(model, hop) ELSE path[Len(path)].to
               end == ResolvePath(model, hop, path)
           IN  \E source \in {"label"} \cup FieldsOf[class] :
                 \E unticked \in {{}} \cup {{id} : id \in Ids(model.columns)} :
                   Edited(Selected(model, end, source, unticked))
    BY <1>1 DEF SelectColumn, Paths
  <2> DEFINE class == IF path = <<>> THEN ClassAt(model, hop) ELSE path[Len(path)].to
             end == ResolvePath(model, hop, path)
  <2>1. class \in Classes
    <3>1. path # <<>> => path[Len(path)] \in Links
      BY DEF Paths
    <3> QED  BY <1>0, <3>1, ClassType, LinkType
  <2> PICK source \in {"label"} \cup FieldsOf[class],
           unticked \in {{}} \cup {{id} : id \in Ids(model.columns)} :
             model' = Selected(model, end, source, unticked)
    OBVIOUS
  <2>2. source \in Attributes
    BY <2>1, FieldType
  <2> QED  BY <1>0, <2>2, SelectingKeepsJoins
<1>2. CASE RemoveGroup
  BY <1>2, HopRemovalKeepsJoins DEF RemoveGroup
<1>3. CASE RemoveColumn
  <2>1. model'.hops = model.hops /\ model'.root = model.root
    BY <1>0, <1>3, ColumnsRemoved DEF RemoveColumn
  <2> QED  BY <2>1, TreeOfHops
<1>4. CASE ApplyFilter
  <2> PICK hop \in Hops :
        \E field \in FieldsOf[ClassAt(model, hop)] \cup {None} : \E ops \in Forms(field) :
          model' = Applied(model, hop, field, ops)
    BY <1>4 DEF ApplyFilter
  <2> PICK field \in FieldsOf[ClassAt(model, hop)] \cup {None} :
        \E ops \in Forms(field) : model' = Applied(model, hop, field, ops)
    OBVIOUS
  <2>1. field \in {None} \cup Attributes
    BY <1>0, ClassType, FieldType
  <2>2. model'.hops = model.hops /\ model'.root = model.root
    BY <1>0, <2>1, ApplyingLeavesHops
  <2> QED  BY <2>2, TreeOfHops
<1>5. CASE RemoveChip \/ GroupChips \/ UngroupChips \/ TakeChipOut
  <2>1. \A chip \in Chips(model) : chip \in SUBSET model.filters
    BY DEF Chips, FiltersOn
  <2>2. model'.hops = model.hops /\ model'.root = model.root
    <3>1. CASE RemoveChip
      BY <1>0, <3>1, RemovalLeavesHops DEF RemoveChip
    <3>2. CASE GroupChips
      BY <1>0, <3>2 DEF GroupChips, GroupFilters, QueryModel
    <3>3. CASE UngroupChips
      BY <1>0, <3>3 DEF UngroupChips, Ungroup, QueryModel
    <3>4. CASE TakeChipOut
      <4> PICK chip \in Chips(model) : model' = TakeOut(model, chip)
        BY <3>4 DEF TakeChipOut
      <4> DEFINE out(f) == [f EXCEPT !.group = None]
                 F == (model.filters \ chip) \cup {out(f) : f \in chip}
                 n == [model EXCEPT !.filters = F]
      <4>1. \A f \in model.filters : f \in FilterType /\ out(f) \in FilterType
        BY <1>0 DEF QueryModel, FilterType
      <4>2. model' = Dissolved(n)
        BY DEF TakeOut
      <4>3. F \subseteq FilterType
        <5> HIDE DEF out
        <5> QED  BY <2>1, <4>1
      <4> HIDE DEF F
      <4>4. n.hops = model.hops /\ n.root = model.root /\ n \in QueryModel
        BY <1>0, <4>3, GroupEditsLeaveHops
      <4> HIDE DEF n
      <4>5. Dissolved(n).hops = n.hops /\ Dissolved(n).root = n.root
        <5>1. n.filters \subseteq FilterType
          BY <4>4 DEF QueryModel, FilterType
        <5> QED  BY <4>4, <5>1, GroupEditsLeaveHops
      <4> QED  BY <4>2, <4>4, <4>5
    <3> QED  BY <1>5, <3>1, <3>2, <3>3, <3>4
  <2> QED  BY <2>2, TreeOfHops
<1>6. CASE Sort \/ SetAggregated \/ GroupBy \/ NewMeasure \/ DropMeasure
  <2>1. model'.hops = model.hops /\ model'.root = model.root
    <3>1. CASE Sort
      BY <1>0, <3>1 DEF Sort, CycleSort, QueryModel
    <3>2. CASE SetAggregated
      BY <1>0, <3>2 DEF SetAggregated, EnableAggregation, DisableAggregation, QueryModel
    <3>3. CASE GroupBy
      BY <1>0, <3>3 DEF GroupBy, ToggleGroupBy, QueryModel
    <3>4. CASE NewMeasure
      BY <1>0, <3>4 DEF NewMeasure, AddMeasure, QueryModel
    <3>5. CASE DropMeasure
      BY <1>0, <3>5 DEF DropMeasure, RemoveMeasure, QueryModel
    <3> QED  BY <1>6, <3>1, <3>2, <3>3, <3>4, <3>5
  <2> QED  BY <2>1, TreeOfHops
<1>7. CASE AddHaving \/ RemoveHaving \/ AddRule \/ RemoveRule
  <2>1. model'.hops = model.hops /\ model'.root = model.root
    BY <1>0, <1>7 DEF AddHaving, RemoveHaving, AddRule, RemoveRule, QueryModel
  <2> QED  BY <2>1, TreeOfHops
<1> QED  BY <1>1, <1>2, <1>3, <1>4, <1>5, <1>6, <1>7 DEF Edit

(* The same for the hops: a typed path there and back along one relationship is no join of its own. *)
StoredJoins == \A m \in Stored : Runnable(m) => AreJoins(m)

(***************************************************************************)
(* Whatever is picked along the links and removed again, in whichever      *)
(* order, every hop stays a join of its own: no twin, no cycle, nothing    *)
(* walked twice or straight back.                                          *)
(***************************************************************************)
THEOREM HopsStayJoins == ASSUME StoredJoins PROVE Spec => []HopsAreJoins
<1> DEFINE Inv == SoundModel /\ (model # None => Tree(model))
<1>1. Init => Inv
  BY DEF Init, SoundModel
<1>2. ASSUME Inv, SoundModel', [Next]_vars
      PROVE  Inv'
  <2> SUFFICES ASSUME model' # None PROVE Tree(model')
    BY <1>2
  <2>1. CASE Load
    <3> PICK m \in Stored : Runnable(m) /\ model' = m
      BY <2>1 DEF Load, Opened
    <3> QED  BY DEF StoredJoins, Runnable, Valid, IdsAreApart, Tree, HopsApart
  <2>2. CASE StartFromPick \/ StartFromSearchHit
    <3>1. model'.hops = {}
      <4>1. CASE StartFromPick
        <5>1. \A c, source : AddColumn(Empty(c), None, source).hops = {}
          BY DEF AddColumn, Empty
        <5> QED  BY <4>1, <5>1 DEF StartFromPick, Opened
      <4>2. CASE StartFromSearchHit
        <5>1. \A c : AddFilter(Empty(c), None, None, "is").hops = {}
          BY DEF AddFilter, Empty
        <5> QED  BY <4>2, <5>1 DEF StartFromSearchHit, Opened
      <4> QED  BY <2>2, <4>1, <4>2
    <3> QED  BY <3>1 DEF Tree, HopsApart, AreJoins, NoCycle
  <2>3. CASE Close
    BY <2>3 DEF Close, Opened
  <2>4. CASE model # None /\ Edit
    BY <1>2, <2>4, EditKeepsJoins DEF SoundModel
  <2>5. CASE UNCHANGED vars
    BY <1>2, <2>5 DEF vars
  <2> QED  BY <1>2, <2>1, <2>2, <2>3, <2>4, <2>5 DEF Next
<1>3. Inv => HopsAreJoins
  BY DEF HopsAreJoins, Tree
<1> QED  BY <1>1, <1>2, <1>3, ModelsAreSound, PTL DEF Spec
=============================================================================

---------------------------- MODULE QueryEdits -----------------------------
(***************************************************************************)
(* The query builder's model: the pure edits of query-model-edit.ts and    *)
(* query-object-browser.ts, as the builder store and the components of the *)
(* workbench call them, and validateQueryModel, which decides whether the  *)
(* outcome can run.  A model is a tree of hops below a root class, with    *)
(* columns, filters, sort keys, measures, thresholds and colour rules that *)
(* refer to hops, to columns and to one another by id.  Order, headers,    *)
(* values and the row limit are left out: no edit looks at them.           *)
(***************************************************************************)
EXTENDS Naturals, Sequences, FiniteSets

CONSTANTS
  None,
  Classes,
  FieldsOf,    \* the attributes each class declares
  Numbers,     \* the numeric ones among them
  Links,       \* the relationships the schema lets a query follow, in either direction
  Stored,      \* the models of saved queries, shared links and typed SPL
  MaxEdits     \* bound on the edits of one model

Sources == {"label"} \cup UNION {FieldsOf[c] : c \in Classes}

\* Ids, aliases and group names are a prefix and a number; "other" prefixes are no edit's.
Prefixes == {"h", "c", "f", "g", "total", "count", "sum", "other"}
Id == Prefixes \X Nat
Ids(things) == {t.id : t \in things}

\* parseQueryModel: relationships and attributes may have left the schema, references may dangle.
Relations == {x.prop : x \in Links \cup UNION {m.hops : m \in Stored}}
Attributes == Sources \cup {x.source : x \in UNION {m.columns : m \in Stored}}
                      \cup {x.field : x \in UNION {m.filters : m \in Stored}}
QueryModel == [
  hops : SUBSET [id : Id, parent : {None} \cup Id, prop : Relations,
                 dir : {"forward", "inverse"}, class : Classes],
  columns : SUBSET [id : Id, hop : {None} \cup Id, source : Attributes],
  filters : SUBSET [id : Id, hop : {None} \cup Id, field : {None} \cup Attributes,
                    op : {"is", "from", "to"}, group : {None} \cup Id],
  sort : SUBSET Id, rules : SUBSET Id, aggregated : BOOLEAN, groupBy : SUBSET Id,
  measures : SUBSET [fn : {"count", "sum"}, of : {None} \cup Id, alias : Id],
  having : SUBSET Id, root : Classes]

\* Its lists are finite, its filters have ids of their own, which the builder and the SPL parser see to,
\* and without an aggregation there is nothing of one.
WellFormed(m) ==
  /\ m \in QueryModel
  /\ \A things \in {m.hops, m.columns, m.filters, m.measures} : IsFiniteSet(things)
  /\ \A f, g \in m.filters : f.id = g.id => f = g
  /\ ~m.aggregated => m.groupBy = {} /\ m.measures = {} /\ m.having = {}

ASSUME QueryEditsAssumption ==
  /\ None \notin Classes \cup Id
  /\ "label" \notin UNION {FieldsOf[c] : c \in Classes}
  /\ Links \subseteq [from : Classes, prop : {l.prop : l \in Links},
                      dir : {"forward", "inverse"}, to : Classes]
  /\ \A m \in Stored : WellFormed(m)
  /\ MaxEdits \in Nat

VARIABLES
  model,   \* QueryBuilderStore.model: None while the builder is closed
  edits    \* edits since it was opened

vars == <<model, edits>>
-----------------------------------------------------------------------------
\* nextId: the next number after those taken.
Fresh(prefix, ids) ==
  LET taken == {0} \cup {id[2] : id \in {x \in ids : x[1] = prefix}}
  IN  <<prefix, 1 + CHOOSE n \in taken : \A t \in taken : t <= n>>

Aliases(m) == {s.alias : s \in m.measures}

Empty(class) ==
  [hops |-> {}, columns |-> {}, filters |-> {}, sort |-> {}, rules |-> {},
   aggregated |-> FALSE, groupBy |-> {}, measures |-> {}, having |-> {}, root |-> class]

\* A hop and everything below it: the least set with the hop that is closed under children.
Below(m, id) ==
  {x \in Ids(m.hops) \cup {id} :
     \A S \in SUBSET (Ids(m.hops) \cup {id}) :
       (id \in S /\ \A h \in m.hops : h.parent \in S => h.id \in S) => x \in S}
\* A hop and those above it.
Lineage(m, id) ==
  {x \in m.hops :
     \A S \in SUBSET (Ids(m.hops) \cup {None}) :
       (id \in S /\ \A h \in m.hops : h.id \in S => h.parent \in S) => x.id \in S}

ClassAt(m, id) == IF id = None THEN m.root ELSE (CHOOSE h \in m.hops : h.id = id).class
-----------------------------------------------------------------------------
(* validateQueryModel, one part per kind of issue *)

\* Whatever names a hop, a column or a measure names one of the model.
ReferencesResolve(m) ==
  /\ \A x \in m.hops : x.parent \in Ids(m.hops) \cup {None}
  /\ \A x \in m.columns \cup m.filters : x.hop \in Ids(m.hops) \cup {None}
  /\ m.rules \cup m.groupBy \cup ({s.of : s \in m.measures} \ {None}) \subseteq Ids(m.columns)
  /\ m.having \subseteq Aliases(m)
  /\ m.sort \subseteq Ids(m.columns) \cup Aliases(m)

\* Sums are over numeric properties only.
SumsAreNumeric(m) ==
  \A s \in m.measures : s.fn = "sum" =>
    s.of # None /\ \A c \in m.columns : c.id = s.of => c.source \in Numbers

\* Ids and aliases, which become variables of the SPARQL text, are not shared.
IdsAreApart(m) ==
  /\ \A things \in {m.hops, m.columns} : \A x, y \in things : x.id = y.id => x = y
  /\ \A x, y \in m.measures : x.alias = y.alias => x = y
  /\ Aliases(m) \cap Ids(m.columns) = {}

GroupsHaveTwo(m) ==
  \A f \in m.filters : f.group # None => \E o \in m.filters \ {f} : o.group = f.group

SortIsAllowed(m) == m.aggregated => m.sort \subseteq m.groupBy \cup Aliases(m)

NoCycle(m) == \A h \in m.hops : h.id \notin Ids(Lineage(m, h.parent))

Valid(m) ==
  /\ ReferencesResolve(m) /\ SumsAreNumeric(m) /\ IdsAreApart(m)
  /\ GroupsHaveTwo(m) /\ SortIsAllowed(m) /\ NoCycle(m)

\* validateRunnableQueryModel: there is something to show.
Runnable(m) ==
  Valid(m) /\ IF m.aggregated THEN m.groupBy # {} \/ m.measures # {} ELSE m.columns # {}
-----------------------------------------------------------------------------
(* Columns *)

ColumnAt(m, hop, source) == {c \in m.columns : c.hop = hop /\ c.source = source}

AddColumn(m, hop, source) ==
  IF ColumnAt(m, hop, source) # {} THEN m
  ELSE [m EXCEPT !.columns = @ \cup {[id |-> Fresh("c", Ids(m.columns)), hop |-> hop, source |-> source]}]

\* removeColumn for each of the columns gone: counts fall back to the entity, sums go with their
\* thresholds and sort keys.
RemoveColumns(m, gone) ==
  LET lost == {s \in m.measures : s.of \in gone /\ s.fn = "sum"}
      dropped == {s.alias : s \in lost}
  IN  [m EXCEPT !.columns = {c \in @ : c.id \notin gone},
                !.rules = @ \ gone,
                !.groupBy = @ \ gone,
                !.measures = {[s EXCEPT !.of = IF @ \in gone THEN None ELSE @] : s \in m.measures \ lost},
                !.having = @ \ dropped,
                !.sort = @ \ (gone \cup dropped)]

(* Filters *)

\* dissolveSmallGroups: a group left with one member is none.
Dissolved(m) ==
  [m EXCEPT !.filters =
     {IF \E o \in m.filters \ {f} : o.group = f.group THEN f ELSE [f EXCEPT !.group = None] : f \in m.filters}]

RemoveFilters(m, gone) == Dissolved([m EXCEPT !.filters = @ \ gone])

AddFilter(m, hop, field, op) ==
  [m EXCEPT !.filters = @ \cup {[id |-> Fresh("f", Ids(m.filters)), hop |-> hop, field |-> field,
                                 op |-> op, group |-> None]}]

\* upsertFilter: one filter per hop and property, but for comparisons, of which each bound is one.
UpsertFilter(m, hop, field, op) ==
  LET same == {f \in m.filters : f.hop = hop /\ f.field = field
                                 /\ IF op = "is" THEN f.op = "is" ELSE f.op = op}
  IN  IF same = {} THEN AddFilter(m, hop, field, op) ELSE m

\* groupFilters: groups merge, they never nest.
GroupFilters(m, members) ==
  LET groups == {f.group : f \in m.filters} \ {None}
      touched == {f.group : f \in members} \ {None}
      all == members \cup {f \in m.filters : f.group \in touched}
  IN  [m EXCEPT !.filters = (@ \ all) \cup {[f EXCEPT !.group = Fresh("g", groups)] : f \in all}]

Ungroup(m, group) ==
  [m EXCEPT !.filters = {IF f.group = group THEN [f EXCEPT !.group = None] ELSE f : f \in @}]

TakeOut(m, members) ==
  Dissolved([m EXCEPT !.filters = (@ \ members) \cup {[f EXCEPT !.group = None] : f \in members}])

(* Hops *)

\* Mutant of CanExtendPath: only the parent is looked at, not the path above it.
CanExtendPath_ParentOnly(m, parent, link) ==
  /\ ~\E h \in m.hops : h.parent = parent /\ h.prop = link.prop /\ h.dir = link.dir /\ h.class = link.to
  /\ \A h \in m.hops : h.id = parent => h.prop # link.prop

\* canExtendPath: no twin at the parent, no property twice in one direction on the path, no step
\* straight back.
CanExtendPath(m, parent, link) ==
  /\ ~\E h \in m.hops : h.parent = parent /\ h.prop = link.prop /\ h.dir = link.dir /\ h.class = link.to
  /\ \A h \in Lineage(m, parent) : h.prop = link.prop => h.dir # link.dir /\ h.id # parent

\* One step of a browse path: a hop that is there is reused, a missing one added if it may be.
Follow(at, link) ==
  LET there == {h \in at.model.hops : h.parent = at.hop /\ h.prop = link.prop
                                      /\ h.dir = link.dir /\ h.class = link.to}
      new == Fresh("h", Ids(at.model.hops))
  IN  IF there # {} THEN [at EXCEPT !.hop = (CHOOSE h \in there : TRUE).id]
      ELSE IF at.ok /\ CanExtendPath(at.model, at.hop, link)
           THEN [at EXCEPT !.hop = new,
                           !.model.hops = @ \cup {[id |-> new, parent |-> at.hop, prop |-> link.prop,
                                                   dir |-> link.dir, class |-> link.to]}]
           ELSE [at EXCEPT !.ok = FALSE]

\* resolvePath, for the paths of at most two steps.
ResolvePath(m, hop, path) ==
  LET start == [model |-> m, hop |-> hop, ok |-> TRUE]
      one == IF Len(path) > 0 THEN Follow(start, path[1]) ELSE start
  IN  IF Len(path) > 1 THEN Follow(one, path[2]) ELSE one

\* applyBrowserSelection with one pick: its hops and its column, then the unticked columns; nothing
\* at all if the path is rejected.
Selected(m, end, source, unticked) ==
  IF end.ok THEN RemoveColumns(AddColumn(end.model, end.hop, source), unticked) ELSE m

\* Mutants of RemoveHop: only the children go with it; the groups are left as they are.
RemoveHop_ChildrenOnly(m, id) ==
  LET gone == {id} \cup {h.id : h \in {x \in m.hops : x.parent = id}}
  IN  RemoveColumns(
        RemoveFilters([m EXCEPT !.hops = {h \in @ : h.id \notin gone}], {f \in m.filters : f.hop \in gone}),
        {c.id : c \in {x \in m.columns : x.hop \in gone}})
RemoveHop_KeepsGroups(m, id) ==
  LET gone == Below(m, id)
  IN  RemoveColumns([m EXCEPT !.hops = {h \in @ : h.id \notin gone}, !.filters = {f \in @ : f.hop \notin gone}],
        {c.id : c \in {x \in m.columns : x.hop \in gone}})

\* removeHop: the hops below go too, with their filters and columns.
RemoveHop(m, id) ==
  LET gone == Below(m, id)
  IN  RemoveColumns(
        RemoveFilters([m EXCEPT !.hops = {h \in @ : h.id \notin gone}], {f \in m.filters : f.hop \in gone}),
        {c.id : c \in {x \in m.columns : x.hop \in gone}})

(* Sort keys and aggregation *)

AllowedSortKeys(m) == IF m.aggregated THEN m.groupBy \cup Aliases(m) ELSE Ids(m.columns)

\* cycleSort: none, ascending, descending, none; a key that is not allowed is left as it is.
CycleSort(m, key) == IF key \in m.sort THEN [m EXCEPT !.sort = @ \ {key}] ELSE [m EXCEPT !.sort = @ \cup {key}]

UniqueAlias(m, base) ==
  <<base, CHOOSE n \in 1..Cardinality(m.columns) + Cardinality(m.measures) + 1 :
            /\ <<base, n>> \notin Ids(m.columns) \cup Aliases(m)
            /\ \A k \in 1..n - 1 : <<base, k>> \in Ids(m.columns) \cup Aliases(m)>>

EnableAggregation(m) ==
  [m EXCEPT !.aggregated = TRUE,
            !.measures = {[fn |-> "count", of |-> None, alias |-> UniqueAlias(m, "total")]}]

DisableAggregation(m) ==
  [m EXCEPT !.aggregated = FALSE, !.groupBy = {}, !.measures = {}, !.having = {},
            !.sort = @ \cap Ids(m.columns)]

ToggleGroupBy(m, id) ==
  IF id \in m.groupBy THEN [m EXCEPT !.groupBy = @ \ {id}, !.sort = @ \ {id}]
  ELSE [m EXCEPT !.groupBy = @ \cup {id}]

\* measureFnsForColumn: sums are offered on numeric columns.
MeasureFns(m, of) ==
  {"count"} \cup IF \E c \in m.columns : c.id = of /\ c.source \in Numbers THEN {"sum"} ELSE {}

AddMeasure(m, fn, of) ==
  [m EXCEPT !.measures = @ \cup {[fn |-> fn, of |-> of, alias |-> UniqueAlias(m, fn)]}]

RemoveMeasure(m, alias) ==
  [m EXCEPT !.measures = {s \in @ : s.alias # alias}, !.having = @ \ {alias}, !.sort = @ \ {alias}]
-----------------------------------------------------------------------------
Init == model = None /\ edits = 0

\* The builder opens: on a loaded model that can run, on a picked class, or on a search hit.
Opened(m) == model' = m /\ edits' = 0
Load == \E m \in Stored : Runnable(m) /\ Opened(m)
StartFromPick ==
  \E c \in Classes : \E source \in {"label"} \cup FieldsOf[c] :
    Opened(AddColumn(Empty(c), None, source))
StartFromSearchHit == \E c \in Classes : Opened(AddFilter(Empty(c), None, None, "is"))
Close == model # None /\ Opened(None)

\* An edit of the open model.
Edited(m) ==
  /\ edits < MaxEdits
  /\ edits' = edits + 1
  /\ model' = m

Hops == Ids(model.hops) \cup {None}

\* The add-column dialog: a property at the end of a path the browser lets one follow.
SelectColumn ==
  \E hop \in Hops :
    \E path \in {<<>>} \cup {<<l>> : l \in Links} \cup (Links \X Links) :
      /\ Len(path) > 0 => path[1].from = ClassAt(model, hop)
      /\ Len(path) > 1 => path[2].from = path[1].to
      /\ LET class == IF path = <<>> THEN ClassAt(model, hop) ELSE path[Len(path)].to
             end == ResolvePath(model, hop, path)
         IN  end.ok /\ \E source \in {"label"} \cup FieldsOf[class] :
               \E unticked \in {{}} \cup {{id} : id \in Ids(model.columns)} :
                 Edited(Selected(model, end, source, unticked))

RemoveGroup == \E id \in Ids(model.hops) : Edited(RemoveHop(model, id))
RemoveColumn == \E id \in Ids(model.columns) : Edited(RemoveColumns(model, {id}))

\* The filter dialog replaces what a property carries, or the entity of a group, by what the form
\* says: one condition, or one or both bounds of a range.
FiltersOn(m, hop, field) == {f \in m.filters : f.hop = hop /\ f.field = field}
Applied(m, hop, field, ops) ==
  LET cleared == RemoveFilters(m, FiltersOn(m, hop, field))
      low == IF "from" \in ops THEN UpsertFilter(cleared, hop, field, "from") ELSE cleared
      high == IF "to" \in ops THEN UpsertFilter(low, hop, field, "to") ELSE low
  IN  IF "is" \in ops THEN UpsertFilter(high, hop, field, "is") ELSE high
Forms(field) == {{"is"}} \cup IF field \in Numbers THEN {{"from"}, {"to"}, {"from", "to"}} ELSE {}

ApplyFilter ==
  \E hop \in Hops : \E field \in FieldsOf[ClassAt(model, hop)] \cup {None} : \E ops \in Forms(field) :
    Edited(Applied(model, hop, field, ops))

\* The chips: one per property that carries filters, one per filter of an entity.
Chips(m) == {FiltersOn(m, f.hop, f.field) : f \in {x \in m.filters : x.field # None}}
            \cup {{f} : f \in {x \in m.filters : x.field = None}}
\* A range cannot be grouped: as alternatives its bounds would mean something else.
Groupable(chip) == Cardinality(chip) = 1

RemoveChip == \E chip \in Chips(model) : Edited(RemoveFilters(model, chip))
GroupChips ==
  \E picked \in SUBSET {chip \in Chips(model) : Groupable(chip)} :
    Cardinality(picked) >= 2 /\ Edited(GroupFilters(model, UNION picked))
UngroupChips ==
  \E group \in {f.group : f \in model.filters} \ {None} : Edited(Ungroup(model, group))
TakeChipOut ==
  \E chip \in Chips(model) : (\E f \in chip : f.group # None) /\ Edited(TakeOut(model, chip))

\* Headers sort by the columns shown, which are the allowed keys.
Sort == \E key \in AllowedSortKeys(model) : Edited(CycleSort(model, key))
SetAggregated == Edited(IF model.aggregated THEN DisableAggregation(model) ELSE EnableAggregation(model))
GroupBy == model.aggregated /\ \E id \in Ids(model.columns) : Edited(ToggleGroupBy(model, id))
NewMeasure ==
  /\ model.aggregated
  /\ \E of \in Ids(model.columns) \cup {None} : \E fn \in MeasureFns(model, of) :
       Edited(AddMeasure(model, fn, of))
DropMeasure == \E alias \in Aliases(model) : Edited(RemoveMeasure(model, alias))
AddHaving == \E alias \in Aliases(model) : Edited([model EXCEPT !.having = @ \cup {alias}])
RemoveHaving == \E alias \in model.having : Edited([model EXCEPT !.having = @ \ {alias}])
AddRule == \E id \in Ids(model.columns) : Edited([model EXCEPT !.rules = @ \cup {id}])
RemoveRule == \E id \in model.rules : Edited([model EXCEPT !.rules = @ \ {id}])

Edit ==
  \/ SelectColumn \/ RemoveGroup \/ RemoveColumn
  \/ ApplyFilter \/ RemoveChip \/ GroupChips \/ UngroupChips \/ TakeChipOut
  \/ Sort \/ SetAggregated \/ GroupBy \/ NewMeasure \/ DropMeasure
  \/ AddHaving \/ RemoveHaving \/ AddRule \/ RemoveRule

Next ==
  \/ Load \/ StartFromPick \/ StartFromSearchHit \/ Close
  \/ model # None /\ edits < MaxEdits /\ Edit

Spec == Init /\ [][Next]_vars
-----------------------------------------------------------------------------
\* Types: while the builder is open, its model is one that could be stored.
TypeOK == edits \in 0..MaxEdits /\ (model # None => WellFormed(model))

\* Nothing dangles: whatever goes, by itself, with a column or with a whole branch of hops, takes
\* every reference to it along, and a count of it falls back to the entity.
NothingDangles == model # None => ReferencesResolve(model) /\ SumsAreNumeric(model)

\* What a query's hops are when each is a join of its own.
AreJoins(m) ==
  /\ NoCycle(m)
  /\ \A h \in m.hops :
       /\ [from |-> ClassAt(m, h.parent), prop |-> h.prop, dir |-> h.dir, to |-> h.class] \in Links
       /\ \A o \in m.hops \ {h} : [o EXCEPT !.id = h.id] # h
       /\ \A o \in Lineage(m, h.parent) : o.prop = h.prop => o.dir # h.dir /\ o.id # h.parent

\* Every hop is a join of its own: it follows a relationship of its parent's class, has no twin at
\* its parent, and no property is walked twice in one direction, or straight back, on a path,
\* whatever was reused, added and removed in whichever order.
HopsAreJoins == model # None => AreJoins(model)

\* Properties whose filters are alternatives to others' carry one filter each.
AloneInGroups(m) ==
  \A f \in m.filters : f.group # None /\ f.field # None => FiltersOn(m, f.hop, f.field) = {f}

\* An "any of" group is a choice of at least two, and never one between the bounds of a range.
GroupsAreChoices == model # None => GroupsHaveTwo(model) /\ AloneInGroups(model)

\* A model that can be compiled stays so, but for two edits: to aggregate while a column is sorted
\* by, and to add a column whose fresh id is the alias a typed query gave to a measure.
OnlyTwoEditsInvalidate ==
  [][(model # None /\ model' # None /\ Valid(model)) =>
       \/ Valid(model')
       \/ ~model.aggregated /\ model'.aggregated /\ model.sort # {}
       \/ Aliases(model) \cap (Ids(model'.columns) \ Ids(model.columns)) # {}]_vars

\* An invalid combination, sorting by an ungrouped column, cannot be produced.
SortsStayAllowed == model # None => SortIsAllowed(model)

\* Editing a grouped filter keeps it in its group.
EditingKeepsTheGroup ==
  [][edits' > edits =>
       \A f \in model.filters : \A g \in model'.filters :
         /\ FiltersOn(model, f.hop, f.field) = {f} /\ FiltersOn(model', f.hop, f.field) = {g}
         /\ f.op # g.op
         => (f.group # None => g.group # None)]_vars
=============================================================================

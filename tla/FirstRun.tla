----------------------------- MODULE FirstRun -----------------------------
(***************************************************************************)
(* The load of the canvas page (services/schema-load.ts, loadSchemaFrom-   *)
(* GraphDB in routes/+page.svelte) with the two migrations it runs when a  *)
(* repository is opened for the first time (sparql-connector.ts): the      *)
(* legacy graph is copied into the default namespace, and every element    *)
(* of it becomes a member of the Default workspace.  Every tab of every    *)
(* user does this, there is no lock, and any request may fail.             *)
(***************************************************************************)
EXTENDS Naturals, Sequences, FiniteSets

CONSTANTS
  Legacy,       \* the elements of the legacy graph
  Tabs,
  Loads,        \* page loads that may be under way at once
  MaxLoads,     \* bound on the loads of a tab
  MaxFailures   \* bound on the requests that fail

ASSUME FirstRunAssumption ==
  IsFiniteSet(Legacy) /\ MaxLoads \in Nat /\ MaxFailures \in Nat

VARIABLES
  registered,   \* the default namespace is registered
  copied,       \* the elements in the default namespace's graphs
  workspace,    \* the Default workspace is declared
  complete,     \* its backfill-complete marker is there
  positions,    \* the positions in the row of each element
  page,         \* what a tab shows and remembers
  load,         \* the loads under way
  begun, failures

store == <<registered, copied, workspace, complete, positions>>
bounds == <<begun, failures>>
vars == <<store, page, load, bounds>>
-----------------------------------------------------------------------------
None == "none"
NoLoad == [tab |-> None, pc |-> "free", waits |-> {}, known |-> FALSE,
           schema |-> None, data |-> {}, chain |-> None, todo |-> <<>>]
Members == {e \in Legacy : positions[e] # {}}

Init ==
  /\ registered = FALSE /\ copied = {} /\ workspace = FALSE /\ complete = FALSE
  /\ positions = [e \in Legacy |-> {}]
  /\ page = [t \in Tabs |-> [loading |-> FALSE, error |-> FALSE, listed |-> FALSE, ensured |-> FALSE,
                             active |-> FALSE, members |-> {}, drawn |-> FALSE, canvas |-> {}]]
  /\ load = [l \in Loads |-> NoLoad]
  /\ begun = [t \in Tabs |-> 0] /\ failures = 0

Tab(l) == load[l].tab
Go(l, pc) == load' = [load EXCEPT ![l].pc = pc]

\* onMount, or the Reload button, which is disabled while the tab is loading.
Begin(l, t) ==
  /\ begun[t] < MaxLoads /\ begun' = [begun EXCEPT ![t] = @ + 1]
  /\ load[l] = NoLoad /\ ~page[t].loading
  /\ load' = [load EXCEPT ![l] = [NoLoad EXCEPT !.tab = t, !.pc = "lists", !.waits = {"namespaces", "workspaces"}]]
  /\ page' = [page EXCEPT ![t].loading = TRUE, ![t].error = FALSE]
  /\ UNCHANGED <<store, failures>>

\* The schema fetch and the workspace chain start together.
Parallel(rec) == [rec EXCEPT !.pc = "parallel", !.schema = "asked", !.chain = "ensure"]

\* The first stage ends when both lists are there.
EndOfLists(rec) ==
  IF rec.waits # {} THEN rec ELSE IF rec.known THEN Parallel(rec) ELSE [rec EXCEPT !.pc = "copy"]

\* Mutant of ReadNamespaces: a reload reuses the list of the tab's first load.
ReadNamespaces_Kept(l) ==
  /\ load[l].pc = "lists" /\ "namespaces" \in load[l].waits
  /\ load' = [load EXCEPT ![l] = EndOfLists([load[l] EXCEPT !.waits = @ \ {"namespaces"}])]
  /\ UNCHANGED <<store, page, bounds>>

ReadNamespaces(l) ==
  /\ load[l].pc = "lists" /\ "namespaces" \in load[l].waits
  /\ load' = [load EXCEPT ![l] = EndOfLists([load[l] EXCEPT !.waits = @ \ {"namespaces"}, !.known = registered])]
  /\ UNCHANGED <<store, page, bounds>>

ReadWorkspaces(l) ==
  /\ load[l].pc = "lists" /\ "workspaces" \in load[l].waits
  /\ load' = [load EXCEPT ![l] = EndOfLists([load[l] EXCEPT !.waits = @ \ {"workspaces"}])]
  /\ page' = [page EXCEPT ![Tab(l)].listed = workspace]
  /\ UNCHANGED <<store, bounds>>

\* ensureDefaultNamespaceMigrated: the legacy graph, which nobody changes, is copied.
Copy(l) ==
  /\ load[l].pc = "copy"
  /\ copied' = Legacy
  /\ Go(l, "registered?")
  /\ UNCHANGED <<registered, workspace, complete, positions, page, bounds>>

\* The whole load rejects.
Reject(l) ==
  /\ load' = [load EXCEPT ![l] = NoLoad]
  /\ page' = [page EXCEPT ![Tab(l)].loading = FALSE, ![Tab(l)].error = TRUE]

\* insertNamespace throws when the namespace is there.
AskRegistered(l) ==
  /\ load[l].pc = "registered?"
  /\ IF registered THEN Reject(l) ELSE Go(l, "register") /\ UNCHANGED page
  /\ UNCHANGED <<store, bounds>>

Register(l) ==
  /\ load[l].pc = "register"
  /\ registered' = TRUE
  /\ Go(l, "relist")
  /\ UNCHANGED <<copied, workspace, complete, positions, page, bounds>>

\* Mutant of RelistNamespaces: the list from before the migration is used.
RelistNamespaces_Old(l) ==
  /\ load[l].pc = "relist"
  /\ load' = [load EXCEPT ![l] = Parallel(@)]
  /\ UNCHANGED <<store, page, bounds>>

\* schema-load.ts fetches the namespaces again after a migration.
RelistNamespaces(l) ==
  /\ load[l].pc = "relist"
  /\ load' = [load EXCEPT ![l] = Parallel([@ EXCEPT !.known = registered])]
  /\ UNCHANGED <<store, page, bounds>>

\* Both sides of the last stage have succeeded: the schema and the notes are applied.
Apply(l, rec, screen) ==
  IF rec.schema = "read" /\ rec.chain = "done"
  THEN /\ load' = [load EXCEPT ![l] = NoLoad]
       /\ page' = [page EXCEPT ![Tab(l)] = [screen EXCEPT !.drawn = TRUE, !.canvas = rec.data, !.loading = FALSE]]
  ELSE /\ load' = [load EXCEPT ![l] = IF rec.schema # "asked" /\ rec.chain \in {"done", "failed"} THEN NoLoad ELSE rec]
       /\ page' = [page EXCEPT ![Tab(l)] = screen]

\* The schema of the namespaces in the list.
FetchSchema(l) ==
  /\ load[l].schema = "asked"
  /\ Apply(l, [load[l] EXCEPT !.schema = "read", !.data = IF load[l].known THEN copied ELSE {}], page[Tab(l)])
  /\ UNCHANGED <<store, bounds>>

Chain(l, step) == load' = [load EXCEPT ![l].chain = step]

\* ensureDefaultWorkspace returns: the workspace is activated when the list has it.
Ensured(l) ==
  /\ page' = [page EXCEPT ![Tab(l)].ensured = TRUE, ![Tab(l)].active = @ \/ page[Tab(l)].listed]
  /\ Chain(l, IF page[Tab(l)].listed THEN "layout" ELSE "relist")

\* ensureDefaultWorkspace: a tab that has done it does not ask again.
AskComplete(l) ==
  /\ load[l].chain = "ensure"
  /\ IF page[Tab(l)].ensured \/ complete THEN Ensured(l) ELSE Chain(l, "workspace?") /\ UNCHANGED page
  /\ UNCHANGED <<store, bounds>>

AskWorkspace(l) ==
  /\ load[l].chain = "workspace?"
  /\ Chain(l, IF workspace THEN "backfill" ELSE "create")
  /\ UNCHANGED <<store, page, bounds>>

CreateWorkspace(l) ==
  /\ load[l].chain = "create"
  /\ workspace' = TRUE
  /\ Chain(l, "backfill")
  /\ UNCHANGED <<registered, copied, complete, positions, page, bounds>>

\* The orders in which the store may return a set.
Orders(S) == {order \in [1..Cardinality(S) -> S] : S = {order[i] : i \in 1..Cardinality(S)}}

\* Each missing element with its slot on the grid.
Grid(order) == [i \in DOMAIN order |-> [element |-> order[i], position |-> i]]

\* backfillDefaultWorkspaceMembership: what is there and what is a member.
ListMissing(l) ==
  /\ load[l].chain = "backfill"
  /\ LET missing == (IF registered THEN copied ELSE {}) \ Members
     IN  \E order \in Orders(missing) :
           load' = [load EXCEPT ![l].todo = Grid(order), ![l].chain = IF missing = {} THEN "mark" ELSE "member?"]
  /\ UNCHANGED <<store, page, bounds>>

NextMissing(rec) ==
  [rec EXCEPT !.todo = Tail(@), !.chain = IF Len(rec.todo) = 1 THEN "mark" ELSE "member?"]

\* addWorkspaceMember for the next element of the list: ask, then insert.
AskMember(l) ==
  /\ load[l].chain = "member?"
  /\ load' = [load EXCEPT ![l] = IF Head(@.todo).element \in Members THEN NextMissing(@)
                                 ELSE [@ EXCEPT !.chain = "insert"]]
  /\ UNCHANGED <<store, page, bounds>>

\* Mutant of InsertMember: the workspace is marked complete with its first member.
InsertMember_Marks(l) ==
  /\ load[l].chain = "insert"
  /\ positions' = [positions EXCEPT ![Head(load[l].todo).element] = @ \cup {Head(load[l].todo).position}]
  /\ complete' = TRUE
  /\ load' = [load EXCEPT ![l] = NextMissing(@)]
  /\ UNCHANGED <<registered, copied, workspace, page, bounds>>

InsertMember(l) ==
  /\ load[l].chain = "insert"
  /\ positions' = [positions EXCEPT ![Head(load[l].todo).element] = @ \cup {Head(load[l].todo).position}]
  /\ load' = [load EXCEPT ![l] = NextMissing(@)]
  /\ UNCHANGED <<registered, copied, workspace, complete, page, bounds>>

MarkComplete(l) ==
  /\ load[l].chain = "mark"
  /\ complete' = TRUE
  /\ Ensured(l)
  /\ UNCHANGED <<registered, copied, workspace, positions, bounds>>

\* The list of workspaces is fetched again, then one of it is activated.
RelistWorkspaces(l) ==
  /\ load[l].chain = "relist"
  /\ page' = [page EXCEPT ![Tab(l)].listed = workspace, ![Tab(l)].active = TRUE]
  /\ Chain(l, "layout")
  /\ UNCHANGED <<store, bounds>>

\* reloadLayout: the members and their positions.
ReloadLayout(l) ==
  /\ load[l].chain = "layout"
  /\ Apply(l, [load[l] EXCEPT !.chain = "done"], [page[Tab(l)] EXCEPT !.members = Members])
  /\ UNCHANGED <<store, bounds>>

\* A request fails.  One of the last stage's two sides fails alone: the load has rejected,
\* and the other side runs on.
FailSide(l, rec) ==
  Apply(l, rec, IF "failed" \in {load[l].schema, load[l].chain} THEN page[Tab(l)]
                ELSE [page[Tab(l)] EXCEPT !.loading = FALSE, !.error = TRUE])

Fail(l) ==
  /\ failures < MaxFailures /\ failures' = failures + 1
  /\ load[l] # NoLoad
  /\ \/ load[l].pc # "parallel" /\ Reject(l)
     \/ load[l].schema = "asked" /\ FailSide(l, [load[l] EXCEPT !.schema = "failed"])
     \/ load[l].chain \notin {None, "done", "failed"} /\ FailSide(l, [load[l] EXCEPT !.chain = "failed"])
  /\ UNCHANGED <<store, begun>>

Step(l) ==
  \/ ReadNamespaces(l) \/ ReadWorkspaces(l) \/ Copy(l) \/ AskRegistered(l) \/ Register(l) \/ RelistNamespaces(l)
  \/ FetchSchema(l)
  \/ AskComplete(l) \/ AskWorkspace(l) \/ CreateWorkspace(l) \/ ListMissing(l)
  \/ AskMember(l) \/ InsertMember(l) \/ MarkComplete(l) \/ RelistWorkspaces(l) \/ ReloadLayout(l)

Next == \E l \in Loads : Step(l) \/ Fail(l) \/ \E t \in Tabs : Begin(l, t)

Spec == Init /\ [][Next]_vars

\* Every request is answered, and a user whose load failed presses Reload.
FairSpec ==
  /\ Spec
  /\ \A l \in Loads : WF_vars(Step(l))
  /\ \A t \in Tabs : WF_vars(~page[t].drawn /\ \E l \in Loads : Begin(l, t))
-----------------------------------------------------------------------------
\* Types: every variable stays in its domain.
TypeOK ==
  /\ registered \in BOOLEAN /\ workspace \in BOOLEAN /\ complete \in BOOLEAN
  /\ copied \subseteq Legacy
  /\ positions \in [Legacy -> SUBSET (1..Cardinality(Legacy))]
  /\ page \in [Tabs -> [loading : BOOLEAN, error : BOOLEAN, listed : BOOLEAN, ensured : BOOLEAN,
                        active : BOOLEAN, members : SUBSET Legacy, drawn : BOOLEAN, canvas : SUBSET Legacy]]
  /\ \A l \in Loads : /\ load[l].tab \in Tabs \cup {None}
                      /\ load[l].data \subseteq Legacy
                      /\ \A i \in DOMAIN load[l].todo : load[l].todo[i].element \in Legacy
  /\ begun \in [Tabs -> 0..MaxLoads] /\ failures \in 0..MaxFailures

\* The marker that ends the backfill for good is only there when every element of the
\* legacy graph has a row, whichever loads did the work and wherever they failed.
MarkedIsComplete == complete => Members = Legacy

\* The namespace is only registered, which ends the copying for good, after a whole copy.
RegisteredIsCopied == registered => copied = Legacy

\* A canvas is drawn from a whole schema, and with its workspace active and in the list.
CanvasIsWhole ==
  \A t \in Tabs : page[t].drawn =>
    page[t].canvas = Legacy /\ page[t].active /\ page[t].listed /\ page[t].members = Legacy

\* When failures end every tab gets its canvas, though each of them may lose a race.
EveryTabLoads == \A t \in Tabs : <>page[t].drawn

\* The backfill's comment calls its calls `independently safe under concurrent backfill
\* passes': then no element ends up with two positions.
OnePositionEach == \A e \in Legacy : Cardinality(positions[e]) <= 1

\* The migrations are called idempotent and safe for every tab and user at once: then a tab's
\* load does not fail while every request is answered.
LoadsDoNotClash == failures = 0 => \A t \in Tabs : ~page[t].error

\* schema-load.ts: nothing is applied until every step has succeeded.  A tab whose loads all
\* failed shows what it showed at first.
FailedLoadAppliesNothing ==
  \A t \in Tabs : (page[t].error /\ ~page[t].drawn) => ~page[t].active /\ page[t].members = {}
=============================================================================

--------------------------- MODULE QueryRunStore ---------------------------
(***************************************************************************)
(* The result table of the workbench (stores/query-run-store.svelte.ts)    *)
(* and the page that drives it (routes/workbench/+page.svelte): runs of a  *)
(* query that overlap, fail, or are superseded, paging through a result,   *)
(* and the debounced effect that keeps a shown table up to date with the   *)
(* query being built.  What a query matches does not change here.          *)
(***************************************************************************)
EXTENDS Naturals, Sequences

CONSTANTS
  Models,      \* query models as they are built, up to sorting and colours
  Matches,     \* the number of rows each model matches
  RowLimit,    \* each model's own row limit, or Nothing
  Nothing,        \* null and undefined
  Runnable,    \* models that pass the page's validation
  Compiles,    \* models that compile to SPARQL
  PageSizes,   \* sizes offered below the table
  MaxClicks    \* bound on edits and clicks

ASSUME QueryAssumption ==
  /\ Matches \in [Models -> Nat]
  /\ RowLimit \in [Models -> Nat \cup {Nothing}] /\ Nothing \notin Nat \cup Models
  /\ Runnable \subseteq Models /\ Compiles \subseteq Models
  /\ PageSizes \subseteq Nat \ {0} /\ PageSizes # {}
  /\ MaxClicks \in Nat

VARIABLES
  builder,     \* queryBuilderStore.model
  ranKey,      \* the model the page ran last, or Nothing
  timer,       \* the model the page's effect is about to run, or Nothing
  run,         \* the calls of execute, by sequence number: run[Len(run)] has `seq'
  shown,       \* number of the run that set table, compiled, offset, rowLimit and asOf, 0 at first
  total,       \* the last count of all matches, or Nothing
  pageSize,
  running,
  error,
  clicks

page == <<builder, ranKey, timer>>
result == <<shown, total>>
runsVars == <<page, run, result, pageSize, running, error, clicks>>

-----------------------------------------------------------------------------
Newest == Len(run)
Offset == IF shown = 0 THEN 0 ELSE run[shown].offset

RunsInit ==
  /\ builder \in Models
  /\ ranKey = Nothing
  /\ timer = Nothing
  /\ run = <<>>
  /\ shown = 0
  /\ total = Nothing
  /\ pageSize \in PageSizes
  /\ running = FALSE
  /\ error = FALSE
  /\ clicks = 0

\* pageInfo: paging stops at the matches, and at the row limit of the published run.
Rows(n, limit) == IF limit = Nothing \/ n <= limit THEN n ELSE limit
PageTotal == Rows(total, RowLimit[run[shown].model])
Info == total # Nothing
HasNext == Info /\ Offset + pageSize < PageTotal
HasPrev == Info /\ Offset > 0
NextOffset == Offset + pageSize

PrevOffset == IF pageSize <= Offset THEN Offset - pageSize ELSE 0

\* What a run asks GraphDB for.
Queries(withCount) ==
  {"page"} \cup (IF withCount \/ total = Nothing THEN {"count"} ELSE {})

Request(model, offset, size, queries) ==
  [model |-> model, offset |-> offset, size |-> size, asked |-> queries, waits |-> queries]

\* execute, up to its await.  A model that does not compile fails without a request.
Execute(model, offset, size, withCount) ==
  /\ running' = (model \in Compiles)
  /\ error' = (model \notin Compiles)
  /\ run' = Append(run, Request(model, offset, size, IF model \in Compiles THEN Queries(withCount) ELSE {}))
  /\ UNCHANGED result

Click == clicks < MaxClicks /\ clicks' = clicks + 1

\* The user edits the query graph.  The page's effect drops its timer, and sets it again
\* when there is a table on screen at that moment and the model can be run.
EditModel(m) ==
  /\ Click
  /\ m # builder /\ builder' = m
  /\ timer' = IF m # ranKey /\ shown # 0 /\ m \in Runnable THEN m ELSE Nothing
  /\ UNCHANGED <<ranKey, run, result, pageSize, running, error>>

\* The Run button.
Run ==
  /\ Click
  /\ builder \in Runnable /\ ~running
  /\ ranKey' = builder
  /\ Execute(builder, 0, pageSize, TRUE)
  /\ UNCHANGED <<builder, timer, pageSize>>

\* loadModelIntoBuilder: a saved query, a shared link or typed text replaces the builder's
\* model and is run, whatever else is running.
LoadModel(m) ==
  /\ Click
  /\ m \in Runnable
  /\ builder' = m /\ ranKey' = m /\ timer' = Nothing
  /\ Execute(m, 0, pageSize, TRUE)
  /\ UNCHANGED pageSize

\* Mutant of AutoRun: the effect runs only the first model.
AutoRun_Once ==
  /\ timer # Nothing /\ ranKey = Nothing
  /\ ranKey' = timer /\ timer' = Nothing
  /\ Execute(timer, 0, pageSize, TRUE)
  /\ UNCHANGED <<builder, pageSize, clicks>>

\* The timer of the page's effect fires.
AutoRun ==
  /\ timer # Nothing
  /\ ranKey' = timer /\ timer' = Nothing
  /\ Execute(timer, 0, pageSize, TRUE)
  /\ UNCHANGED <<builder, pageSize, clicks>>

\* sortBy: a click on a header changes only the order of the builder's model and calls rerun,
\* which starts over at the first page and does not count again.
Sort ==
  /\ Click
  /\ ranKey' = builder /\ timer' = Nothing
  /\ Execute(builder, 0, pageSize, FALSE)
  /\ UNCHANGED <<builder, pageSize>>

\* The RunsNext button, disabled while a run is under way.
NextPage ==
  /\ Click
  /\ ~running /\ HasNext
  /\ Execute(builder, NextOffset, pageSize, FALSE)
  /\ UNCHANGED <<page, pageSize>>

PreviousPage ==
  /\ Click
  /\ ~running /\ HasPrev
  /\ Execute(builder, PrevOffset, pageSize, FALSE)
  /\ UNCHANGED <<page, pageSize>>

\* The page-size menu, never disabled.
SetPageSize(n) ==
  /\ Click
  /\ n # pageSize /\ pageSize' = n
  /\ Execute(builder, 0, n, FALSE)
  /\ UNCHANGED page

\* Mutant of Publish: an older run publishes too.
Publish_Always(r) ==
  /\ shown' = r /\ running' = FALSE
  /\ total' = IF "count" \in run[r].asked THEN Matches[run[r].model] ELSE total

\* All answers of a run are in: only the newest one is published.
Publish(r) ==
  IF r = Newest
  THEN /\ shown' = r /\ running' = FALSE
       /\ total' = IF "count" \in run[r].asked THEN Matches[run[r].model] ELSE total
  ELSE UNCHANGED <<result, running>>

\* One of a run's queries is answered.
Answer(r, query) ==
  /\ query \in run[r].waits
  /\ run' = [run EXCEPT ![r].waits = @ \ {query}]
  /\ IF run[r].waits = {query} THEN Publish(r) ELSE UNCHANGED <<result, running>>
  /\ UNCHANGED <<page, pageSize, error, clicks>>

\* Mutant of Fail: the failure of a superseded run is reported.
Fail_Always(r) ==
  /\ run[r].waits # {}
  /\ run' = [run EXCEPT ![r].waits = {}]
  /\ error' = TRUE /\ running' = FALSE
  /\ UNCHANGED <<page, result, pageSize, clicks>>

\* A query of the run fails, and with it the run: only the newest one's error is shown.
Fail(r) ==
  /\ run[r].waits # {}
  /\ run' = [run EXCEPT ![r].waits = {}]
  /\ IF r = Newest THEN error' = TRUE /\ running' = FALSE ELSE UNCHANGED <<error, running>>
  /\ UNCHANGED <<page, result, pageSize, clicks>>

SettleRun(r) == Fail(r) \/ \E query \in {"page", "count"} : Answer(r, query)

RunsNext ==
  \/ \E m \in Models : EditModel(m) \/ LoadModel(m)
  \/ Run
  \/ AutoRun
  \/ Sort
  \/ NextPage
  \/ PreviousPage
  \/ \E n \in PageSizes : SetPageSize(n)
  \/ \E r \in DOMAIN run : \/ \E query \in {"page", "count"} : Answer(r, query)
                           \/ Fail(r)

RunsSpec == RunsInit /\ [][RunsNext]_runsVars

\* Every query is answered or fails; the timer of the effect fires.
RunsProgress ==
  /\ \A r \in 1..(2 * MaxClicks) : WF_runsVars(r \in DOMAIN run /\ SettleRun(r))
  /\ WF_runsVars(AutoRun)

FairRuns == RunsSpec /\ RunsProgress
-----------------------------------------------------------------------------
\* Types: every variable stays in its domain; a timer is for the model as it is built.
RunsTypeOK ==
  /\ builder \in Models
  /\ ranKey \in Models \cup {Nothing}
  /\ timer \in {Nothing, builder}
  /\ run \in Seq([model : Models, offset : Nat, size : PageSizes,
                  asked : SUBSET {"page", "count"}, waits : SUBSET {"page", "count"}])
  /\ shown \in 0..Len(run)
  /\ total \in Nat \cup {Nothing}
  /\ pageSize \in PageSizes
  /\ running \in BOOLEAN /\ error \in BOOLEAN
  /\ clicks \in 0..MaxClicks

Settled == Newest # 0 /\ ~running

\* The spinner, the message and the table tell of the newest run and of no other, whatever
\* order older answers and failures arrive in: it is under way, or it failed, or it is the
\* one on screen.
ScreenTellsNewest ==
  /\ running <=> (Newest # 0 /\ run[Newest].waits # {})
  /\ running => ~error
  /\ (Settled /\ ~error) => shown = Newest

\* The table never goes back to an older run, and no failure takes it away.
NeverGoesBack == [][shown' >= shown]_runsVars

\* The range under the table, and so the next page, is computed with the offset and page
\* size the table was read with, once the newest run has succeeded.
PageSizeMatchesTable == (Settled /\ ~error) => run[shown].size = pageSize

\* Every run ends, successful or not, and the buttons are enabled again.
EveryRunEnds == running ~> ~running

\* An edit the effect has seen gets its table, through newer runs, sorting and paging, unless
\* the user edits again or a run fails.
EditsAreFollowed ==
  \A m \in Models :
    timer = m ~> \/ builder # m
                 \/ error
                 \/ shown # 0 /\ run[shown].model = m

\* The page says that a result on screen follows the builder, so that the table `never shows a
\* stale column set': with a query that runs and without failures, it gets there.
TableFollowsBuilder ==
  []<>(shown # 0 => \/ builder \notin Runnable
                    \/ error
                    \/ run[shown].model = builder)

\* The store says of `total': the count query's result, what the query matches.  With the
\* newest run on screen, it is the count of the query on screen.
TotalMatchesTable == (Settled /\ ~error) => total = Matches[run[shown].model]

\* The store says of rerun that it re-queries the current page.
SortKeepsPage ==
  [][(Sort /\ builder = ranKey) => run'[Len(run')].offset = Offset]_runsVars
=============================================================================

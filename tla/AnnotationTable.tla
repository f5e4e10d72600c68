-------------------------- MODULE AnnotationTable --------------------------
(***************************************************************************)
(* The annotations a table of query results shows beside its facts         *)
(* (QueryResultsTable.svelte, annotation-edits.ts): one lookup per page,   *)
(* and entries added and removed at once, before the backend has answered. *)
(* Composed with FactEdits: the page's requests are two of its clients,    *)
(* and other clients edit the same facts meanwhile.                        *)
(***************************************************************************)
EXTENDS FactEdits

CONSTANTS Adder, Remover  \* the clients that carry the page's requests; one removal at a time

ASSUME PageClients == Adder \in Clients /\ Remover \in Clients /\ Adder # Remover

VARIABLES
  table,    \* the facts on the page, as its query found them
  load,     \* the newest lookup of the page's annotations: sent, answered, or arrived
  shown,    \* the annotations each fact is shown with, in order
  adding, removing,  \* the entry being added, and the one being removed
  blurred   \* since the page's lookup, an edit overlapped with it, or somebody else made one

page == <<table, load, shown, adding, removing, blurred>>
all == <<vars, page>>

Pending == 0
Others == Clients \ {Adder, Remover}

\* Numbers in ascending order, each where as many of the others are below it.
InOrder(S) == [n \in 1..Cardinality(S) |-> CHOOSE x \in S : Cardinality({y \in S : y < x}) = n - 1]

\* fetchAnnotationsForFacts: those of all statements of a fact, oldest first.
Ids(f) == {a.id : a \in On(Reifying({f}))}
Lookup(facts) == [f \in facts |-> InOrder(Ids(f))]

\* withAnnotation, withoutAnnotation, withReplacedAnnotation.
ListOf(f) == IF f \in DOMAIN shown THEN shown[f] ELSE <<>>
With(f, list) == [g \in DOMAIN shown \cup {f} |-> IF g = f THEN list ELSE shown[g]]
Less(list, id) ==
  LET kept == {n \in DOMAIN list : list[n] # id} IN [m \in 1..Cardinality(kept) |-> list[InOrder(kept)[m]]]

\* Mutant of Confirmed: the answer is appended wherever the entry went.
Confirmed_Appends(f, id) == Append(ListOf(f), id)

Confirmed(f, id) ==
  IF f \in DOMAIN shown THEN [n \in DOMAIN shown[f] |-> IF shown[f][n] = Pending THEN id ELSE shown[f][n]] ELSE <<id>>

TableInit ==
  /\ Init /\ table = {} /\ load = [at |-> "arrived", found |-> <<>>] /\ shown = <<>>
  /\ adding = {} /\ removing = {} /\ blurred = FALSE

\* A query is run again: its facts are on the page, and their annotations are looked up.
NewTable(facts) ==
  /\ table' = facts /\ load' = [at |-> "sent", found |-> <<>>]
  /\ blurred' = (adding \cup removing # {})
  /\ UNCHANGED <<vars, shown, adding, removing>>

Answer ==
  /\ load.at = "sent" /\ load' = [at |-> "answered", found |-> Lookup(table)]
  /\ UNCHANGED <<vars, table, shown, adding, removing, blurred>>

\* Only the newest lookup counts; one that fails leaves none.
Arrive ==
  /\ load.at = "answered" /\ load' = [at |-> "arrived", found |-> <<>>]
  /\ \/ shown' = load.found /\ UNCHANGED blurred
     \/ shown' = <<>> /\ blurred' = TRUE
  /\ UNCHANGED <<vars, table, adding, removing>>

\* addAnnotation: shown as pending, one at a time.
AddEntry(f) ==
  /\ f \in table /\ adding = {} /\ todo[Adder] = <<>>
  /\ AnnotateFact(Adder, f)
  /\ shown' = With(f, Append(ListOf(f), Pending)) /\ adding' = {[fact |-> f, id |-> Pending]}
  /\ blurred' = (blurred \/ load.at # "arrived")
  /\ UNCHANGED <<table, load, removing>>

AddRollback(f) == IF f \in DOMAIN shown THEN With(f, Less(shown[f], Pending)) ELSE shown

AddSettles ==
  /\ todo[Adder] = <<>> /\ adding' = {}
  /\ \E x \in adding :
       /\ shown' = IF ended[Adder] = "well" THEN With(x.fact, Confirmed(x.fact, x.id)) ELSE AddRollback(x.fact)
       /\ blurred' = (blurred \/ (ended[Adder] = "badly" /\ x.id # Pending))
  /\ UNCHANGED <<vars, table, load, removing>>

\* removeAnnotation: gone at once; put back where it was when the request fails.
RemoveEntry(f, n) ==
  /\ f \in table /\ removing = {} /\ todo[Remover] = <<>> /\ n \in DOMAIN ListOf(f) /\ shown[f][n] # Pending
  /\ RemoveAnnotation(Remover, shown[f][n])
  /\ shown' = With(f, Less(shown[f], shown[f][n])) /\ removing' = {[fact |-> f, id |-> shown[f][n], at |-> n]}
  /\ blurred' = (blurred \/ load.at # "arrived")
  /\ UNCHANGED <<table, load, adding>>

RemoveSettles ==
  /\ todo[Remover] = <<>> /\ removing' = {}
  /\ \E x \in removing :
       LET list == ListOf(x.fact) IN
       /\ shown' = IF ended[Remover] = "well" THEN shown
                   ELSE With(x.fact, IF x.at <= Len(list) THEN InsertAt(list, x.at, x.id) ELSE Append(list, x.id))
       /\ blurred' = (blurred \/ (ended[Remover] = "badly" /\ \A a \in store.annotations : a.id # x.id))
  /\ UNCHANGED <<vars, table, load, adding>>

\* The requests of the page and of everybody else; the id of the annotation is in the answer.
Requests(k) ==
  /\ Step(k) \/ Fail(k)
  /\ adding' = IF k = Adder /\ Now(k, "annotate") /\ store' # store THEN {[x EXCEPT !.id = minted'] : x \in adding} ELSE adding
  /\ blurred' = (blurred \/ (k \in Others /\ store' # store))
  /\ UNCHANGED <<table, load, shown, removing>>

TableNext ==
  \/ \E f \in store.facts : NewTable({f})
  \/ Answer \/ Arrive \/ AddSettles \/ RemoveSettles
  \/ \E f \in table : AddEntry(f) \/ \E n \in DOMAIN ListOf(f) : RemoveEntry(f, n)
  \/ \E k \in Clients : Requests(k)
  \/ \E k \in Others : Edit(k) /\ UNCHANGED page

TableSpec == TableInit /\ [][TableNext]_all
-----------------------------------------------------------------------------
\* No ghosts: an entry shown as pending, which nobody can delete, is one that is being added, in
\* whatever order lookups, answers and new pages come.
PendingIsInFlight ==
  \A f \in DOMAIN shown : \A n \in DOMAIN shown[f] : shown[f][n] = Pending => \E x \in adding : x.fact = f

\* The table agrees with the store: at rest, a page whose lookup no edit overlapped shows each
\* fact's annotations, each once, after additions and removals that succeed, fail and interleave.
TableShowsStored ==
  (load.at = "arrived" /\ adding = {} /\ removing = {} /\ ~blurred) =>
    \A f \in table : /\ ToSet(ListOf(f)) = Ids(f)
                     /\ IsInjective(ListOf(f))

\* runOptimistic commits what is saved: the entry is on the page, whatever overlapped.
SavedIsShown ==
  [][(\E x \in adding : x.fact \in table /\ ended[Adder] = "well" /\ todo[Adder] = <<>> /\ adding' = {}) =>
       \A x \in adding : x.id \in ToSet(shown'[x.fact])]_all
=============================================================================

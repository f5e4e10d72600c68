---------------------------- MODULE SchemaStore ----------------------------
(***************************************************************************)
(* The shared schema cache of the app (schema-store.ts) with the two parts *)
(* it is wired to: the namespace list (namespace-store.svelte.ts) and the  *)
(* connector's count of settled updates (sparql-connector.ts).             *)
(*                                                                         *)
(* The data is abstracted to the writes it reflects: a write is a change   *)
(* of one namespace's content, or registers a namespace (NamespaceWrites), *)
(* whose content a schema load only sees when its list has the namespace.  *)
(***************************************************************************)
EXTENDS Naturals, FiniteSets

CONSTANTS
  Consumers,        \* pages and panels that ask for a schema, one request at a time
  Writes,           \* the updates this client sends
  NamespaceWrites,  \* those that register a namespace
  Refreshes,        \* bound: namespace fetches at one time, "first" being ensureLoaded's
  Loads,            \* bound: promises of loads alive at one time
  None

ASSUME WritesAssumption == IsFiniteSet(Writes)
ASSUME NamespaceWritesAssumption == NamespaceWrites \subseteq Writes
ASSUME RefreshesAssumption == "first" \in Refreshes
ASSUME NoneAssumption == None \notin Loads

Variants == {"schema", "full"}

NoAsk == [load |-> None, variant |-> "schema", settled |-> {}, listed |-> {}]
NoLoad == [pc |-> "free", variant |-> "schema", writes |-> 0, data |-> {}]

VARIABLES
  outage,      \* the store may fail queries
  write,       \* each update: unsent, sent, executed by the store, settled
  stored,      \* the writes the store has executed
  namespaces,  \* namespaceStore.namespaces
  pending,     \* its `pending': none before the first ensureLoaded, then open, resolved, rejected
  refreshing,  \* the namespace fetches in flight, with what the store answered
  slots,       \* the load each variant's slot holds
  load,        \* the loads
  ask          \* each consumer's outstanding request, with what had settled when it was made

vars == <<outage, write, stored, namespaces, pending, refreshing, slots, load, ask>>
namespaceState == <<namespaces, pending, refreshing>>
server == <<outage, write, stored>>

Init ==
  /\ outage = FALSE
  /\ write = [w \in Writes |-> "unsent"]
  /\ stored = {}
  /\ namespaces = {}
  /\ pending = "none"
  /\ refreshing = [f \in Refreshes |-> [pc |-> "idle", answer |-> {}]]
  /\ slots = [v \in Variants |-> None]
  /\ load = [l \in Loads |-> NoLoad]
  /\ ask = [c \in Consumers |-> NoAsk]
-----------------------------------------------------------------------------
\* Mutant of writeCount: the update is counted when it is sent.
writeCount_WhenSent == Cardinality({w \in Writes : write[w] # "unsent"})

\* SparqlConnector.writeCount: the updates that have settled, successful or not.
writeCount == Cardinality({w \in Writes : write[w] = "settled"})

\* The store, or the way to it, stops answering, and comes back.
Outage ==
  /\ outage' = ~outage
  /\ UNCHANGED <<write, stored, namespaceState, slots, load, ask>>

\* executeUpdate: the request leaves, the store executes it, the answer arrives.
SendUpdate(w) ==
  /\ write[w] = "unsent"
  /\ write' = [write EXCEPT ![w] = "sent"]
  /\ UNCHANGED <<outage, stored, namespaceState, slots, load, ask>>

ExecuteUpdate(w) ==
  /\ write[w] = "sent"
  /\ write' = [write EXCEPT ![w] = "executed"]
  /\ stored' = stored \cup {w}
  /\ UNCHANGED <<outage, namespaceState, slots, load, ask>>

\* The answer, or an error before the store executed anything.
SettleUpdate(w) ==
  /\ write[w] \in {"sent", "executed"}
  /\ write' = [write EXCEPT ![w] = "settled"]
  /\ UNCHANGED <<outage, stored, namespaceState, slots, load, ask>>
-----------------------------------------------------------------------------
\* namespaceStore.refresh(), called after a namespace write or a reload.
RefreshNamespaces(f) ==
  /\ f # "first" /\ refreshing[f].pc = "idle"
  /\ refreshing' = [refreshing EXCEPT ![f].pc = "sent"]
  /\ UNCHANGED <<server, namespaces, pending, slots, load, ask>>

\* The store answers the namespace query.
ReadNamespaces(f) ==
  /\ refreshing[f].pc = "sent"
  /\ refreshing' = [refreshing EXCEPT ![f] = [pc |-> "read", answer |-> stored \cap NamespaceWrites]]
  /\ UNCHANGED <<server, namespaces, pending, slots, load, ask>>

\* The answer arrives: whichever arrives last is the list.
ListNamespaces(f) ==
  /\ refreshing[f].pc = "read"
  /\ namespaces' = refreshing[f].answer
  /\ refreshing' = [refreshing EXCEPT ![f] = [pc |-> "idle", answer |-> {}]]
  /\ pending' = IF f = "first" THEN "resolved" ELSE pending
  /\ UNCHANGED <<server, slots, load, ask>>

\* The namespace query fails: the promise ensureLoaded keeps is a rejected one.
FailNamespaces(f) ==
  /\ outage /\ refreshing[f].pc # "idle"
  /\ refreshing' = [refreshing EXCEPT ![f] = [pc |-> "idle", answer |-> {}]]
  /\ pending' = IF f = "first" THEN "rejected" ELSE pending
  /\ UNCHANGED <<server, namespaces, slots, load, ask>>
-----------------------------------------------------------------------------
\* reusable(): `full' answers either request.
Candidates(v) == IF v = "schema" THEN Variants ELSE {"full"}

Reusable(v) ==
  {u \in Candidates(v) : slots[u] # None /\ (slots[u] # None => load[slots[u]].writes = writeCount)}

\* A promise nobody holds is gone and its id may be used again.
Free ==
  {l \in Loads : load[l].pc \notin {"namespaces", "fetching"}
                 /\ \A v \in Variants : slots[v] # l
                 /\ \A c \in Consumers : ask[c].load # l}

\* namespaceStore.ensureLoaded(): fetches once, later calls get the kept promise.
EnsureNamespaces ==
  IF pending = "none"
  THEN /\ pending' = "open"
       /\ refreshing' = [refreshing EXCEPT !["first"].pc = "sent"]
       /\ UNCHANGED namespaces
  ELSE UNCHANGED namespaceState

\* What the consumer could know when it asks: the updates that succeeded, the listed namespaces.
Asking(v, l) ==
  [load |-> l, variant |-> v, settled |-> {w \in stored : write[w] = "settled"}, listed |-> namespaces]

\* load(variant): begin one and remember it in the variant's slot.
Load(c, v) ==
  \E l \in Free :
    /\ load' = [x \in Loads |->
         IF x = l THEN [pc |-> "namespaces", variant |-> v, writes |-> writeCount, data |-> {}]
         ELSE IF x \in Free THEN NoLoad ELSE load[x]]
    /\ slots' = [slots EXCEPT ![v] = l]
    /\ ask' = [ask EXCEPT ![c] = Asking(v, l)]
    /\ EnsureNamespaces

\* ensureLoaded(variant): a reusable copy or load in flight, `full' first, else a new load.
EnsureLoaded(c, v) ==
  /\ ask[c].load = None
  /\ IF Reusable(v) # {}
     THEN /\ ask' = [ask EXCEPT ![c] = Asking(v, slots[IF "full" \in Reusable(v) THEN "full" ELSE "schema"])]
          /\ UNCHANGED <<slots, load, namespaceState>>
     ELSE Load(c, v)
  /\ UNCHANGED server

\* refresh(variant): a new load whatever is cached.
Refresh(c, v) ==
  /\ ask[c].load = None
  /\ Load(c, v)
  /\ UNCHANGED server

\* invalidate(): the canvas Reload drops every copy.
Invalidate ==
  /\ slots # [v \in Variants |-> None]
  /\ slots' = [v \in Variants |-> None]
  /\ UNCHANGED <<server, namespaceState, load, ask>>

\* The namespace list is there: the schema queries leave, with the list as it is now.  What
\* was stored by then is in their answers.
FetchSchema(l) ==
  /\ load[l].pc = "namespaces" /\ pending = "resolved"
  /\ load' = [load EXCEPT ![l].pc = "fetching",
                          ![l].data = (stored \ NamespaceWrites) \cup namespaces]
  /\ UNCHANGED <<server, namespaceState, slots, ask>>

\* All answers are in: what was stored meanwhile is in some of them.
LoadResolves(l) ==
  /\ load[l].pc = "fetching"
  /\ \E seen \in SUBSET (stored \ NamespaceWrites) :
       load' = [load EXCEPT ![l].pc = "done", ![l].data = @ \cup seen]
  /\ UNCHANGED <<server, namespaceState, slots, ask>>

\* Mutant of Forget: the slot is cleared even if a newer load is in it.
Forget_Blindly(l) == slots' = [slots EXCEPT ![load[l].variant] = None]

\* promise.catch: only this load's own slot is cleared.
Forget(l) ==
  slots' = [slots EXCEPT ![load[l].variant] = IF @ = l THEN None ELSE @]

\* Mutant of LoadRejects: a failed namespace fetch leaves the load waiting.
LoadRejects_OnlyFetch(l) ==
  /\ load[l].pc = "fetching" /\ outage
  /\ load' = [load EXCEPT ![l].pc = "failed"]
  /\ Forget(l)
  /\ UNCHANGED <<server, namespaceState, ask>>

\* The load rejects: the kept namespace promise is a rejected one, or a query failed.
LoadRejects(l) ==
  /\ \/ load[l].pc = "namespaces" /\ pending = "rejected"
     \/ load[l].pc = "fetching" /\ outage
  /\ load' = [load EXCEPT ![l].pc = "failed"]
  /\ Forget(l)
  /\ UNCHANGED <<server, namespaceState, ask>>

\* The consumer's await returns or throws.
Deliver(c) ==
  /\ ask[c].load # None
  /\ load[ask[c].load].pc \in {"done", "failed"}
  /\ ask' = [ask EXCEPT ![c] = NoAsk]
  /\ UNCHANGED <<server, namespaceState, slots, load>>

Next ==
  \/ \E w \in Writes : SendUpdate(w) \/ ExecuteUpdate(w) \/ SettleUpdate(w)
  \/ Outage
  \/ \E f \in Refreshes : RefreshNamespaces(f) \/ ReadNamespaces(f) \/ ListNamespaces(f) \/ FailNamespaces(f)
  \/ \E c \in Consumers, v \in Variants : EnsureLoaded(c, v) \/ Refresh(c, v)
  \/ Invalidate
  \/ \E l \in Loads : FetchSchema(l) \/ LoadResolves(l) \/ LoadRejects(l)
  \/ \E c \in Consumers : Deliver(c)

Spec == Init /\ [][Next]_vars

\* Every request is answered or fails, and the event loop resumes every await.
Progress ==
  /\ \A f \in Refreshes : WF_vars(ReadNamespaces(f) \/ ListNamespaces(f) \/ FailNamespaces(f))
  /\ \A l \in Loads : WF_vars(FetchSchema(l) \/ LoadResolves(l) \/ LoadRejects(l))
  /\ \A c \in Consumers : WF_vars(Deliver(c))

FairSpec == Spec /\ Progress

\* The user reloads the namespace list and reopens the pages again and again.
RecoverySpec ==
  /\ FairSpec
  /\ \A f \in Refreshes : WF_vars(RefreshNamespaces(f))
  /\ \A c \in Consumers : WF_vars(EnsureLoaded(c, "full"))
-----------------------------------------------------------------------------
\* Types: every variable of the stores stays in its domain.
TypeOK ==
  /\ outage \in BOOLEAN
  /\ write \in [Writes -> {"unsent", "sent", "executed", "settled"}]
  /\ stored \subseteq Writes
  /\ namespaces \subseteq NamespaceWrites
  /\ pending \in {"none", "open", "resolved", "rejected"}
  /\ refreshing \in [Refreshes -> [pc : {"idle", "sent", "read"}, answer : SUBSET NamespaceWrites]]
  /\ slots \in [Variants -> Loads \cup {None}]
  /\ load \in [Loads -> [pc : {"free", "namespaces", "fetching", "done", "failed"},
                         variant : Variants, writes : Nat, data : SUBSET Writes]]
  /\ ask \in [Consumers -> [load : Loads \cup {None}, variant : Variants,
                            settled : SUBSET Writes, listed : SUBSET NamespaceWrites]]

Answered(c) == ask[c].load # None /\ (ask[c].load # None => load[ask[c].load].pc = "done")

\* No stale copy: whatever copy or load in flight the store hands out, it holds every change
\* this client had been told was made when it asked, also one that overlapped the load; and a
\* `full' request is never answered without the instances.
FreshAnswer ==
  \A c \in Consumers : Answered(c) =>
    LET copy == load[ask[c].load]
    IN  /\ ask[c].settled \ NamespaceWrites \subseteq copy.data
        /\ ask[c].variant = "full" => copy.variant = "full"

\* A rejected load is never remembered in a slot, and each slot has its own variant.
SlotsHealthy ==
  \A v \in Variants : slots[v] # None =>
    load[slots[v]].pc \in {"namespaces", "fetching", "done"} /\ load[slots[v]].variant = v

\* A load that rejects late never evicts the newer load or copy that took its slot: a slot
\* is emptied by the failure of its own load, or by invalidate(), which touches no load.
NewerCopySurvives ==
  [][\A v \in Variants :
       (slots[v] # None /\ slots'[v] = None) => load'[slots[v]].pc = "failed" \/ load' = load]_vars

\* Every request for a schema is answered in the end, with a schema or an error.
EveryAskSettles == \A c \in Consumers : (ask[c].load # None) ~> (ask[c].load = None)

\* What schema-store.ts says of a failed load (it `must not be remembered, or every later
\* caller would get the same rejection'): when every outage is over somebody gets a schema.
OutageIsForgotten == <>[]~outage => []<>(\E c \in Consumers : Answered(c))

\* What namespace-store.svelte.ts says it is for (a namespace created in one place appears in
\* the others without a full page reload): a namespace the app lists when a consumer asks is
\* in the schema it gets.
ListedNamespaceLoaded ==
  \A c \in Consumers : Answered(c) => ask[c].listed \subseteq load[ask[c].load].data
=============================================================================

--------------------------- MODULE RequestProofs ---------------------------
(***************************************************************************)
(* Proofs about what stands between a page and the triple store: the cache *)
(* of the schema (SchemaStore), the limiter of its requests                *)
(* (ConcurrencyLimiter) and the runs of the workbench (QueryRunStore).     *)
(* For any consumers, updates and promises, a copy the cache hands out     *)
(* holds every change whose update had settled, and a load that fails      *)
(* leaves nothing behind and takes nothing with it; for any limit and any  *)
(* callers, no slot leaks and the queue is served in order; whatever older *)
(* runs do, the screen tells of the newest.  The three share no variable:  *)
(* each part stands by itself.                                             *)
(***************************************************************************)
EXTENDS SchemaStore, ConcurrencyLimiter, QueryRunStore, FiniteSetTheorems, SequenceTheorems, TLAPS

\* The updates that have settled, and those of them that took effect.
SettledSet == {w \in Writes : write[w] = "settled"}
Told == {w \in stored : write[w] = "settled"}

(***************************************************************************)
(* The inductive invariant.  A copy is recognised as stale by its count of *)
(* settled updates alone, so the count has to be one that was true, and a  *)
(* copy whose count is still true has to hold all that was told by then.   *)
(* A request keeps what had been told when it was made.                    *)
(***************************************************************************)
UpdatesOK ==
  /\ stored \subseteq Writes
  /\ write \in [Writes -> {"unsent", "sent", "executed", "settled"}]
  /\ \A w \in Writes : write[w] = "executed" => w \in stored
  /\ \A w \in stored : write[w] \in {"executed", "settled"}

CopiesOK ==
  \A l \in Loads :
    /\ load[l].writes <= writeCount
    /\ load[l].pc \in {"fetching", "done"} /\ load[l].writes = writeCount
         => Told \ NamespaceWrites \subseteq load[l].data

AsksOK ==
  \A c \in Consumers : ask[c].load # None =>
    LET copy == load[ask[c].load]
    IN  /\ ask[c].settled \subseteq stored
        /\ copy.pc # "free"
        /\ copy.pc \in {"fetching", "done"} => ask[c].settled \ NamespaceWrites \subseteq copy.data
        /\ ask[c].variant = "full" => copy.variant = "full"

Inv == TypeOK /\ SlotsHealthy /\ UpdatesOK /\ CopiesOK /\ AsksOK

LoadType ==
  [pc : {"free", "namespaces", "fetching", "done", "failed"}, variant : Variants,
   writes : Nat, data : SUBSET Writes]

AskType ==
  [load : Loads \cup {None}, variant : Variants,
   settled : SUBSET Writes, listed : SUBSET NamespaceWrites]

RefreshType == [pc : {"idle", "sent", "read"}, answer : SUBSET NamespaceWrites]

\* The count is the number of a finite set.
LEMMA CountType == writeCount \in Nat /\ IsFiniteSet(SettledSet)
<1>1. IsFiniteSet(SettledSet)
  BY WritesAssumption, FS_Subset DEF SettledSet
<1> QED  BY <1>1, FS_CardinalityType DEF writeCount, SettledSet

LEMMA Initial == Init => Inv
<1> SUFFICES ASSUME Init PROVE Inv
  OBVIOUS
<1>1. SettledSet = {} /\ writeCount = 0
  <2>1. SettledSet = {}
    BY DEF Init, SettledSet
  <2> QED  BY <2>1, FS_EmptySet DEF writeCount, SettledSet
<1>2. NoLoad \in LoadType /\ NoAsk \in AskType
  BY DEF NoLoad, NoAsk, LoadType, AskType, Variants
<1>3. TypeOK
  BY <1>2 DEF Init, TypeOK, LoadType, AskType, Variants
<1>4. SlotsHealthy /\ AsksOK
  BY DEF Init, SlotsHealthy, AsksOK, NoAsk
<1>5. UpdatesOK
  BY DEF Init, UpdatesOK
<1>6. CopiesOK
  BY <1>1 DEF Init, CopiesOK, NoLoad
<1> QED  BY <1>3, <1>4, <1>5, <1>6 DEF Inv

\* What an update that settles does to the count: no copy's count is true any more.
LEMMA Counted ==
  ASSUME TypeOK, NEW w \in Writes, SettleUpdate(w) PROVE writeCount' = writeCount + 1
<1>1. write' = [write EXCEPT ![w] = "settled"] /\ write[w] # "settled"
  BY DEF SettleUpdate
<1>2. SettledSet' = SettledSet \cup {w} /\ w \notin SettledSet
  BY <1>1 DEF SettledSet, TypeOK
<1>3. Cardinality(SettledSet \cup {w}) = Cardinality(SettledSet) + 1
  BY <1>2, CountType, FS_AddElement
<1> QED  BY <1>2, <1>3 DEF writeCount, SettledSet

\* A step that settles nothing leaves the count as it is.
LEMMA NotCounted ==
  ASSUME TypeOK, SettledSet' = SettledSet PROVE writeCount' = writeCount
  BY DEF writeCount, SettledSet

\* A step of the namespace list keeps its types.
LEMMA NamespaceSteps ==
  ASSUME TypeOK, NEW f \in Refreshes,
         RefreshNamespaces(f) \/ ReadNamespaces(f) \/ ListNamespaces(f) \/ FailNamespaces(f)
  PROVE  /\ namespaces' \subseteq NamespaceWrites
         /\ pending' \in {"none", "open", "resolved", "rejected"}
         /\ refreshing' \in [Refreshes -> RefreshType]
         /\ UNCHANGED <<write, stored, slots, load, ask>> /\ outage' \in BOOLEAN
<1> USE DEF TypeOK, RefreshType, server
<1>1. CASE RefreshNamespaces(f)
  BY <1>1 DEF RefreshNamespaces
<1>2. CASE ReadNamespaces(f)
  BY <1>2 DEF ReadNamespaces
<1>3. CASE ListNamespaces(f)
  BY <1>3 DEF ListNamespaces
<1>4. CASE FailNamespaces(f)
  BY <1>4 DEF FailNamespaces
<1> QED  BY <1>1, <1>2, <1>3, <1>4

\* A step that touches no update, slot, copy or request keeps what is said of them.
LEMMA Untouched ==
  ASSUME Inv, TypeOK', UNCHANGED <<write, stored, slots, load, ask>> PROVE Inv'
<1>1. SettledSet' = SettledSet /\ Told' = Told
  BY DEF SettledSet, Told
<1>2. writeCount' = writeCount
  BY <1>1, NotCounted DEF Inv
<1>3. SlotsHealthy' /\ UpdatesOK' /\ AsksOK'
  BY DEF Inv, SlotsHealthy, UpdatesOK, AsksOK
<1>4. CopiesOK'
  BY <1>1, <1>2 DEF Inv, CopiesOK
<1> QED  BY <1>3, <1>4 DEF Inv

\* An update on its way: copies whose count is still true have lost nothing.
LEMMA UpdateInv ==
  ASSUME Inv, NEW w \in Writes, SendUpdate(w) \/ ExecuteUpdate(w) \/ SettleUpdate(w) PROVE Inv'
<1> USE DEF Inv
<1>1. /\ UNCHANGED <<outage, namespaceState, slots, load, ask>>
      /\ stored' \in {stored, stored \cup {w}}
  BY DEF SendUpdate, ExecuteUpdate, SettleUpdate
<1>2. UpdatesOK'
  <2>1. CASE SendUpdate(w)
    BY <2>1 DEF SendUpdate, UpdatesOK
  <2>2. CASE ExecuteUpdate(w)
    BY <2>2 DEF ExecuteUpdate, UpdatesOK
  <2>3. CASE SettleUpdate(w)
    BY <2>3 DEF SettleUpdate, UpdatesOK
  <2> QED  BY <2>1, <2>2, <2>3
<1>3. TypeOK'
  BY <1>1, <1>2 DEF TypeOK, UpdatesOK, namespaceState
<1>4. SlotsHealthy' /\ AsksOK'
  BY <1>1 DEF SlotsHealthy, AsksOK
<1>5. CopiesOK'
  <2>1. CASE SettleUpdate(w)
    <3>1. writeCount' = writeCount + 1
      BY <2>1, Counted
    <3>2. \A l \in Loads : load'[l].writes \in Nat /\ load'[l].writes < writeCount'
      BY <1>1, <3>1, CountType DEF CopiesOK, TypeOK
    <3> QED  BY <3>1, <3>2, CountType DEF CopiesOK
  <2>2. CASE SendUpdate(w) \/ ExecuteUpdate(w)
    <3>1. SettledSet' = SettledSet /\ Told' = Told
      BY <2>2 DEF SendUpdate, ExecuteUpdate, SettledSet, Told, UpdatesOK
    <3>2. writeCount' = writeCount
      BY <3>1, NotCounted
    <3> QED  BY <1>1, <3>1, <3>2 DEF CopiesOK
  <2> QED  BY <2>1, <2>2
<1> QED  BY <1>2, <1>3, <1>4, <1>5

\* The promises a new load may take are held by no slot and no request.
LEMMA NotHeld ==
  ASSUME TypeOK
  PROVE  /\ \A v \in Variants : slots[v] \notin Free
         /\ \A c \in Consumers : ask[c].load \notin Free
<1>1. ASSUME NEW v \in Variants, slots[v] \in Free PROVE FALSE
  BY <1>1 DEF Free
<1>2. ASSUME NEW c \in Consumers, ask[c].load \in Free PROVE FALSE
  BY <1>2 DEF Free, TypeOK
<1> QED  BY <1>1, <1>2

\* What a request remembers was true of the store when it was made.
LEMMA AskingType ==
  ASSUME Inv, NEW v \in Variants, NEW l \in Loads
  PROVE  /\ Asking(v, l) \in AskType
         /\ Asking(v, l).load = l /\ Asking(v, l).variant = v /\ Asking(v, l).settled = Told
         /\ Told \subseteq stored
  BY DEF Asking, AskType, Told, Inv, TypeOK

\* ensureLoaded() of the namespaces keeps the types and the list.
LEMMA EnsureNamespacesType ==
  ASSUME TypeOK, EnsureNamespaces
  PROVE  /\ namespaces' = namespaces
         /\ pending' \in {"none", "open", "resolved", "rejected"}
         /\ refreshing' \in [Refreshes -> RefreshType]
<1>1. CASE pending = "none"
  BY <1>1 DEF EnsureNamespaces, TypeOK, RefreshType
<1>2. CASE pending # "none"
  BY <1>2 DEF EnsureNamespaces, namespaceState, TypeOK, RefreshType
<1> QED  BY <1>1, <1>2

\* A new load: it takes a promise nobody holds, so no other request and no other slot is
\* touched, and it has no answer yet.
LEMMA LoadInv ==
  ASSUME Inv, NEW c \in Consumers, NEW v \in Variants, Load(c, v), UNCHANGED server PROVE Inv'
<1> USE DEF Inv
<1>1. PICK l \in Free :
        /\ load' = [x \in Loads |->
             IF x = l THEN [pc |-> "namespaces", variant |-> v, writes |-> writeCount, data |-> {}]
             ELSE IF x \in Free THEN NoLoad ELSE load[x]]
        /\ slots' = [slots EXCEPT ![v] = l]
        /\ ask' = [ask EXCEPT ![c] = Asking(v, l)]
        /\ EnsureNamespaces
  BY DEF Load
<1>2. l \in Loads /\ outage' = outage /\ write' = write /\ stored' = stored
  BY DEF Free, server
<1>3. Asking(v, l) \in AskType /\ Asking(v, l).load = l /\ Asking(v, l).variant = v
      /\ Asking(v, l).settled = Told /\ Told \subseteq stored
  BY <1>2, AskingType
<1>4. SettledSet' = SettledSet /\ Told' = Told
  BY <1>2 DEF SettledSet, Told
<1>5. writeCount' = writeCount /\ writeCount \in Nat
  BY <1>4, NotCounted, CountType
<1>6. TypeOK'
  <2>1. [pc |-> "namespaces", variant |-> v, writes |-> writeCount, data |-> {}] \in LoadType
        /\ NoLoad \in LoadType
    BY <1>5 DEF LoadType, NoLoad, Variants
  <2>2. load' \in [Loads -> LoadType]
    BY <1>1, <2>1 DEF TypeOK, LoadType
  <2>3. slots' \in [Variants -> Loads \cup {None}]
    BY <1>1, <1>2 DEF TypeOK
  <2>4. ask' \in [Consumers -> AskType]
    BY <1>1, <1>3 DEF TypeOK, AskType
  <2> QED  BY <1>1, <1>2, <2>2, <2>3, <2>4, EnsureNamespacesType DEF TypeOK, LoadType, AskType, RefreshType
<1>7. load'[l].pc = "namespaces" /\ load'[l].variant = v /\ load'[l].writes = writeCount
  BY <1>1, <1>2
<1>8. \A x \in Loads : x # l /\ x \notin Free => load'[x] = load[x]
  BY <1>1
<1>9. SlotsHealthy'
  <2> SUFFICES ASSUME NEW u \in Variants, slots'[u] # None
      PROVE  load'[slots'[u]].pc \in {"namespaces", "fetching", "done"} /\ load'[slots'[u]].variant = u
    BY DEF SlotsHealthy
  <2>1. CASE u = v
    <3>1. slots'[u] = l
      BY <1>1, <2>1 DEF TypeOK
    <3> QED  BY <1>7, <2>1, <3>1
  <2>2. CASE u # v
    <3>1. slots'[u] = slots[u] /\ slots[u] \in Loads
      BY <1>1, <2>2 DEF TypeOK
    <3>2. slots[u] \notin Free
      BY NotHeld
    <3>3. load'[slots[u]] = load[slots[u]]
      BY <1>8, <3>1, <3>2
    <3> QED  BY <3>1, <3>3 DEF SlotsHealthy
  <2> QED  BY <2>1, <2>2
<1>10. CopiesOK'
  <2> SUFFICES ASSUME NEW x \in Loads
      PROVE  /\ load'[x].writes <= writeCount
             /\ load'[x].pc \in {"fetching", "done"} /\ load'[x].writes = writeCount
                  => Told \ NamespaceWrites \subseteq load'[x].data
    BY <1>4, <1>5 DEF CopiesOK
  <2>1. CASE x = l
    BY <1>5, <1>7, <2>1
  <2>2. CASE x # l /\ x \in Free
    <3>1. load'[x] = NoLoad
      BY <1>1, <2>2
    <3> QED  BY <1>5, <3>1 DEF NoLoad
  <2>3. CASE x # l /\ x \notin Free
    BY <1>8, <2>3 DEF CopiesOK
  <2> QED  BY <2>1, <2>2, <2>3
<1>11. AsksOK'
  <2> SUFFICES ASSUME NEW d \in Consumers, ask'[d].load # None
      PROVE  /\ ask'[d].settled \subseteq stored
             /\ load'[ask'[d].load].pc # "free"
             /\ load'[ask'[d].load].pc \in {"fetching", "done"} =>
                  ask'[d].settled \ NamespaceWrites \subseteq load'[ask'[d].load].data
             /\ ask'[d].variant = "full" => load'[ask'[d].load].variant = "full"
    BY <1>2 DEF AsksOK
  <2>1. CASE d = c
    <3>1. ask'[d] = Asking(v, l)
      BY <1>1, <2>1 DEF TypeOK
    <3> QED  BY <1>3, <1>7, <3>1
  <2>2. CASE d # c
    <3>1. ask'[d] = ask[d] /\ ask[d].load \in Loads /\ ask[d].load \notin Free
      BY <1>1, <2>2, NotHeld DEF TypeOK
    <3>2. load'[ask[d].load] = load[ask[d].load]
      BY <1>1, <1>8, <3>1
    <3> QED  BY <3>1, <3>2 DEF AsksOK
  <2> QED  BY <2>1, <2>2
<1>12. UpdatesOK'
  BY <1>2 DEF UpdatesOK
<1> QED  BY <1>6, <1>9, <1>10, <1>11, <1>12

\* A request answered from the cache: the copy's count is the true one, so it holds all that
\* was told, and a copy with the instances answers either request.
LEMMA EnsureLoadedInv ==
  ASSUME Inv, NEW c \in Consumers, NEW v \in Variants, EnsureLoaded(c, v) PROVE Inv'
<1> USE DEF Inv
<1>1. CASE Reusable(v) = {}
  BY <1>1, LoadInv DEF EnsureLoaded
<1>2. CASE Reusable(v) # {}
  <2> DEFINE u == IF "full" \in Reusable(v) THEN "full" ELSE "schema"
             l == slots[u]
  <2>1. /\ UNCHANGED <<outage, write, stored, slots, load, namespaces, pending, refreshing>>
        /\ ask' = [ask EXCEPT ![c] = Asking(v, l)]
    BY <1>2 DEF EnsureLoaded, server, namespaceState
  <2>2. u \in Reusable(v) /\ u \in Variants /\ (v = "full" => u = "full")
    BY <1>2 DEF Reusable, Candidates, Variants
  <2>3. l # None /\ l \in Loads /\ load[l].writes = writeCount
    BY <2>2 DEF Reusable, TypeOK
  <2>4. load[l].pc \in {"namespaces", "fetching", "done"} /\ load[l].variant = u
    BY <2>2, <2>3 DEF SlotsHealthy
  <2>5. Asking(v, l) \in AskType /\ Asking(v, l).load = l /\ Asking(v, l).variant = v
        /\ Asking(v, l).settled = Told /\ Told \subseteq stored
    BY <2>3, AskingType
  <2>6. ask' \in [Consumers -> AskType]
    BY <2>1, <2>5 DEF TypeOK, AskType
  <2>7. TypeOK'
    BY <2>1, <2>6 DEF TypeOK, AskType
  <2>8. SettledSet' = SettledSet /\ Told' = Told
    BY <2>1 DEF SettledSet, Told
  <2>9. SlotsHealthy' /\ UpdatesOK' /\ CopiesOK'
    BY <2>1, <2>8, NotCounted DEF SlotsHealthy, UpdatesOK, CopiesOK
  <2>10. ask'[c] = Asking(v, l)
    BY <2>1 DEF TypeOK
  <2>11. load[l].pc \in {"fetching", "done"} => Told \ NamespaceWrites \subseteq load[l].data
    BY <2>3 DEF CopiesOK
  <2>12. v = "full" => load[l].variant = "full"
    BY <2>2, <2>4
  <2> HIDE DEF l, u
  <2>13. AsksOK'
    <3> SUFFICES ASSUME NEW d \in Consumers, ask'[d].load # None
        PROVE  /\ ask'[d].settled \subseteq stored
               /\ load[ask'[d].load].pc # "free"
               /\ load[ask'[d].load].pc \in {"fetching", "done"} =>
                    ask'[d].settled \ NamespaceWrites \subseteq load[ask'[d].load].data
               /\ ask'[d].variant = "full" => load[ask'[d].load].variant = "full"
      BY <2>1 DEF AsksOK
    <3>1. CASE d = c
      BY <2>4, <2>5, <2>10, <2>11, <2>12, <3>1
    <3>2. CASE d # c
      <4>1. ask'[d] = ask[d]
        BY <2>1, <3>2 DEF TypeOK
      <4> QED  BY <4>1 DEF AsksOK
    <3> QED  BY <3>1, <3>2
  <2> QED  BY <2>7, <2>9, <2>13
<1> QED  BY <1>1, <1>2

\* A load's own steps: its answer holds all that was stored when its queries left, which is
\* more than anybody had been told by then.
LEMMA FetchInv ==
  ASSUME Inv, NEW l \in Loads, FetchSchema(l) \/ LoadResolves(l) PROVE Inv'
<1> USE DEF Inv
<1>1. UNCHANGED <<outage, write, stored, namespaces, pending, refreshing, slots, ask>>
  BY DEF FetchSchema, LoadResolves, server, namespaceState
<1>2. PICK pc \in {"fetching", "done"}, data \in SUBSET Writes :
        /\ load' = [load EXCEPT ![l].pc = pc, ![l].data = data]
        /\ load[l].pc = "namespaces" => stored \ NamespaceWrites \subseteq data
        /\ load[l].pc # "namespaces" => load[l].data \subseteq data /\ load[l].pc = "fetching"
        /\ load[l].pc \in {"namespaces", "fetching"}
  <2>1. CASE FetchSchema(l)
    <3>1. (stored \ NamespaceWrites) \cup namespaces \in SUBSET Writes
      BY NamespaceWritesAssumption DEF TypeOK
    <3> QED  BY <2>1, <3>1 DEF FetchSchema
  <2>2. CASE LoadResolves(l)
    <3>1. PICK seen \in SUBSET (stored \ NamespaceWrites) :
            load' = [load EXCEPT ![l].pc = "done", ![l].data = @ \cup seen]
      BY <2>2 DEF LoadResolves
    <3>2. load' = [load EXCEPT ![l].pc = "done", ![l].data = load[l].data \cup seen]
      BY <3>1 DEF TypeOK
    <3>3. load[l].data \cup seen \in SUBSET Writes
      BY DEF TypeOK
    <3> QED  BY <2>2, <3>2, <3>3 DEF LoadResolves
  <2> QED  BY <2>1, <2>2
<1>3. load'[l] = [load[l] EXCEPT !.pc = pc, !.data = data] /\ load[l] \in LoadType
  BY <1>2 DEF TypeOK, LoadType
<1>4. /\ load'[l].pc = pc /\ load'[l].data = data
      /\ load'[l].writes = load[l].writes /\ load'[l].variant = load[l].variant
      /\ load'[l] \in LoadType
  BY <1>3 DEF LoadType
<1>5. \A x \in Loads : x # l => load'[x] = load[x]
  BY <1>2 DEF TypeOK
<1>6. load' \in [Loads -> LoadType]
  BY <1>2, <1>4, <1>5 DEF TypeOK, LoadType
<1>7. TypeOK'
  BY <1>1, <1>6 DEF TypeOK, LoadType
<1>8. SettledSet' = SettledSet /\ Told' = Told
  BY <1>1 DEF SettledSet, Told
<1>9. writeCount' = writeCount
  BY <1>8, NotCounted
<1>10. UpdatesOK'
  BY <1>1 DEF UpdatesOK
<1>11. SlotsHealthy'
  BY <1>1, <1>4, <1>5 DEF SlotsHealthy, TypeOK
<1>12. CopiesOK'
  <2>1. load[l].writes = writeCount => Told \ NamespaceWrites \subseteq data
    BY <1>2 DEF CopiesOK, Told
  <2> QED  BY <1>4, <1>5, <1>8, <1>9, <2>1 DEF CopiesOK
<1>13. AsksOK'
  <2> SUFFICES ASSUME NEW d \in Consumers, ask[d].load # None
      PROVE  /\ ask[d].settled \subseteq stored
             /\ load'[ask[d].load].pc # "free"
             /\ load'[ask[d].load].pc \in {"fetching", "done"} =>
                  ask[d].settled \ NamespaceWrites \subseteq load'[ask[d].load].data
             /\ ask[d].variant = "full" => load'[ask[d].load].variant = "full"
    BY <1>1 DEF AsksOK
  <2>1. CASE ask[d].load = l
    <3>1. ask[d].settled \ NamespaceWrites \subseteq data
      BY <1>2, <2>1 DEF AsksOK
    <3> QED  BY <1>2, <1>4, <2>1, <3>1 DEF AsksOK
  <2>2. CASE ask[d].load # l
    <3>1. load'[ask[d].load] = load[ask[d].load]
      BY <1>5, <2>2 DEF TypeOK
    <3> QED  BY <3>1 DEF AsksOK
  <2> QED  BY <2>1, <2>2
<1> QED  BY <1>7, <1>10, <1>11, <1>12, <1>13

\* A load that fails: its slot, and only its own slot, is emptied.
LEMMA RejectInv ==
  ASSUME Inv, NEW l \in Loads, LoadRejects(l)
  PROVE  Inv' /\ \A v \in Variants : slots'[v] = slots[v] \/ (slots[v] = l /\ slots'[v] = None)
<1> USE DEF Inv
<1>1. /\ UNCHANGED <<outage, write, stored, namespaces, pending, refreshing, ask>>
      /\ load' = [load EXCEPT ![l].pc = "failed"]
      /\ slots' = [slots EXCEPT ![load[l].variant] = IF @ = l THEN None ELSE @]
  BY DEF LoadRejects, Forget, server, namespaceState
<1>2. load[l].variant \in Variants
  BY DEF TypeOK
<1>3. /\ load'[l].pc = "failed" /\ load'[l].writes = load[l].writes
      /\ load'[l].variant = load[l].variant /\ load'[l].data = load[l].data
      /\ \A x \in Loads : x # l => load'[x] = load[x]
  BY <1>1 DEF TypeOK
<1>4. load' \in [Loads -> LoadType]
  <2>1. load \in [Loads -> LoadType]
    BY DEF TypeOK, LoadType
  <2>2. [load[l] EXCEPT !.pc = "failed"] \in LoadType
    BY <2>1 DEF LoadType
  <2> QED  BY <1>1, <2>1, <2>2
<1>5. \A v \in Variants : slots'[v] = IF v = load[l].variant /\ slots[v] = l THEN None ELSE slots[v]
  BY <1>1, <1>2 DEF TypeOK
<1>6. TypeOK'
  <2>1. slots' \in [Variants -> Loads \cup {None}]
    BY <1>1, <1>2 DEF TypeOK
  <2> QED  BY <1>1, <1>4, <2>1 DEF TypeOK, LoadType
<1>7. SlotsHealthy'
  <2> SUFFICES ASSUME NEW v \in Variants, slots'[v] # None
      PROVE  load'[slots'[v]].pc \in {"namespaces", "fetching", "done"} /\ load'[slots'[v]].variant = v
    BY DEF SlotsHealthy
  <2>1. slots'[v] = slots[v] /\ slots[v] \in Loads
    BY <1>5 DEF TypeOK
  <2>2. load[slots[v]].variant = v
    BY <2>1 DEF SlotsHealthy
  <2>3. slots[v] # l
    BY <1>5, <2>1, <2>2
  <2> QED  BY <1>3, <2>1, <2>3 DEF SlotsHealthy
<1>8. SettledSet' = SettledSet /\ Told' = Told
  BY <1>1 DEF SettledSet, Told
<1>9. writeCount' = writeCount
  BY <1>8, NotCounted
<1>10. UpdatesOK' /\ CopiesOK'
  BY <1>1, <1>3, <1>8, <1>9 DEF UpdatesOK, CopiesOK
<1>11. AsksOK'
  <2> SUFFICES ASSUME NEW d \in Consumers, ask[d].load # None
      PROVE  /\ ask[d].settled \subseteq stored
             /\ load'[ask[d].load].pc # "free"
             /\ load'[ask[d].load].pc \in {"fetching", "done"} =>
                  ask[d].settled \ NamespaceWrites \subseteq load'[ask[d].load].data
             /\ ask[d].variant = "full" => load'[ask[d].load].variant = "full"
    BY <1>1 DEF AsksOK
  <2>1. CASE ask[d].load = l
    BY <1>3, <2>1 DEF AsksOK
  <2>2. CASE ask[d].load # l
    <3>1. load'[ask[d].load] = load[ask[d].load]
      BY <1>3, <2>2 DEF TypeOK
    <3> QED  BY <3>1 DEF AsksOK
  <2> QED  BY <2>1, <2>2
<1> QED  BY <1>5, <1>6, <1>7, <1>10, <1>11

\* invalidate() and an await that returns only give copies up.
LEMMA DroppingInv ==
  ASSUME Inv, Invalidate \/ \E c \in Consumers : Deliver(c) PROVE Inv'
<1> USE DEF Inv
<1>1. UNCHANGED <<outage, write, stored, namespaces, pending, refreshing, load>>
  BY DEF Invalidate, Deliver, server, namespaceState
<1>2. SettledSet' = SettledSet /\ Told' = Told
  BY <1>1 DEF SettledSet, Told
<1>3. writeCount' = writeCount
  BY <1>2, NotCounted
<1>4. UpdatesOK' /\ CopiesOK'
  BY <1>1, <1>2, <1>3 DEF UpdatesOK, CopiesOK
<1>5. CASE Invalidate
  <2>1. slots' = [v \in Variants |-> None] /\ ask' = ask
    BY <1>5 DEF Invalidate
  <2>2. TypeOK'
    BY <1>1, <2>1 DEF TypeOK
  <2>3. SlotsHealthy' /\ AsksOK'
    BY <1>1, <2>1 DEF SlotsHealthy, AsksOK
  <2> QED  BY <1>4, <2>2, <2>3
<1>6. ASSUME NEW c \in Consumers, Deliver(c) PROVE Inv'
  <2>1. slots' = slots /\ ask' = [ask EXCEPT ![c] = NoAsk]
    BY <1>6 DEF Deliver
  <2>2. NoAsk \in AskType /\ NoAsk.load = None
    BY DEF NoAsk, AskType, Variants
  <2>3. ask' \in [Consumers -> AskType]
    BY <2>1, <2>2 DEF TypeOK, AskType
  <2>4. TypeOK' /\ SlotsHealthy'
    BY <1>1, <2>1, <2>3 DEF TypeOK, AskType, SlotsHealthy
  <2>5. \A d \in Consumers : ask'[d] = ask[d] \/ ask'[d].load = None
    BY <2>1, <2>2 DEF TypeOK
  <2>6. AsksOK'
    BY <1>1, <2>5 DEF AsksOK
  <2> QED  BY <1>4, <2>4, <2>6
<1> QED  BY <1>5, <1>6

\* Outages and the namespace list.
LEMMA SurroundingsInv ==
  ASSUME Inv,
         \/ Outage
         \/ \E f \in Refreshes :
              RefreshNamespaces(f) \/ ReadNamespaces(f) \/ ListNamespaces(f) \/ FailNamespaces(f)
         \/ UNCHANGED vars
  PROVE  Inv'
<1>1. CASE Outage
  <2>1. TypeOK'
    BY <1>1 DEF Inv, TypeOK, Outage, namespaceState
  <2> QED  BY <1>1, <2>1, Untouched DEF Outage
<1>2. ASSUME NEW f \in Refreshes,
             RefreshNamespaces(f) \/ ReadNamespaces(f) \/ ListNamespaces(f) \/ FailNamespaces(f)
      PROVE  Inv'
  <2>1. TypeOK'
    BY <1>2, NamespaceSteps DEF Inv, TypeOK, RefreshType
  <2> QED  BY <1>2, <2>1, NamespaceSteps, Untouched DEF Inv
<1>3. CASE UNCHANGED vars
  <2>1. TypeOK'
    BY <1>3 DEF Inv, TypeOK, vars
  <2> QED  BY <1>3, <2>1, Untouched DEF vars
<1> QED  BY <1>1, <1>2, <1>3

LEMMA Inductive == Inv /\ [Next]_vars => Inv'
<1> SUFFICES ASSUME Inv, [Next]_vars PROVE Inv'
  OBVIOUS
<1>1. ASSUME NEW w \in Writes, SendUpdate(w) \/ ExecuteUpdate(w) \/ SettleUpdate(w) PROVE Inv'
  BY <1>1, UpdateInv
<1>2. ASSUME NEW c \in Consumers, NEW v \in Variants, EnsureLoaded(c, v) PROVE Inv'
  BY <1>2, EnsureLoadedInv
<1>3. ASSUME NEW c \in Consumers, NEW v \in Variants, Refresh(c, v) PROVE Inv'
  BY <1>3, LoadInv DEF Refresh
<1>4. ASSUME NEW l \in Loads, FetchSchema(l) \/ LoadResolves(l) PROVE Inv'
  BY <1>4, FetchInv
<1>5. ASSUME NEW l \in Loads, LoadRejects(l) PROVE Inv'
  BY <1>5, RejectInv
<1> QED  BY <1>1, <1>2, <1>3, <1>4, <1>5, DroppingInv, SurroundingsInv DEF Next

\* The cache keeps its inductive invariant, whatever overlaps: every load, update, answer
\* and failure of the schema store.
THEOREM InvHolds == Spec => []Inv
<1> QED  BY Initial, Inductive, PTL DEF Spec

\* Types: every variable of the schema store stays in its domain.
THEOREM CacheTypes == Spec => []TypeOK
<1>1. Inv => TypeOK
  BY DEF Inv
<1> QED  BY <1>1, InvHolds, PTL

\* No stale copy: what ensureLoaded() hands out, cached or in flight, holds every change that
\* had settled when it was asked for, and the instances when they were asked for.
THEOREM NoStaleCopy == Spec => []FreshAnswer
<1>1. ASSUME Inv PROVE FreshAnswer
  <2> SUFFICES ASSUME NEW c \in Consumers, Answered(c)
      PROVE  /\ ask[c].settled \ NamespaceWrites \subseteq load[ask[c].load].data
             /\ ask[c].variant = "full" => load[ask[c].load].variant = "full"
    BY DEF FreshAnswer
  <2> QED  BY <1>1 DEF Inv, AsksOK, Answered
<1> QED  BY <1>1, InvHolds, PTL

\* promise.catch clears the slot of a load that fails: no slot ever holds a rejected promise.
THEOREM FailureIsNotRemembered == Spec => []SlotsHealthy
<1>1. Inv => SlotsHealthy
  BY DEF Inv
<1> QED  BY <1>1, InvHolds, PTL

\* A load that rejects late does not evict the newer load that took its slot.
THEOREM LateFailureSparesNewer == Spec => NewerCopySurvives
<1>1. ASSUME Inv, [Next]_vars,
             NEW v \in Variants, slots[v] # None, slots'[v] = None
      PROVE  load'[slots[v]].pc = "failed" \/ load' = load
  <2>1. PICK l \in Loads : LoadRejects(l) \/ load' = load \/ slots' = slots
                           \/ \E c \in Consumers, u \in Variants : Load(c, u)
    <3>1. slots[v] \in Loads
      BY <1>1 DEF Inv, TypeOK
    <3> QED  BY <1>1, <3>1 DEF Next, SendUpdate, ExecuteUpdate, SettleUpdate, Outage,
               RefreshNamespaces, ReadNamespaces, ListNamespaces, FailNamespaces, EnsureLoaded,
               Refresh, Invalidate, FetchSchema, LoadResolves, Deliver, vars
  <2>2. CASE LoadRejects(l)
    <3>1. slots[v] = l
      BY <1>1, <2>2, RejectInv
    <3> QED  BY <1>1, <2>2, <3>1 DEF LoadRejects, Inv, TypeOK
  <2>3. ASSUME NEW c \in Consumers, NEW u \in Variants, Load(c, u) PROVE FALSE
    <3>1. PICK x \in Loads : slots' = [slots EXCEPT ![u] = x]
      BY <2>3 DEF Load, Free
    <3>2. slots'[v] = slots[v] \/ slots'[v] = x
      BY <1>1, <3>1 DEF Inv, TypeOK
    <3> QED  BY <1>1, <3>2, NoneAssumption
  <2> QED  BY <1>1, <2>1, <2>2, <2>3
<1>2. Inv /\ [Next]_vars =>
        [\A v \in Variants : (slots[v] # None /\ slots'[v] = None)
                               => load'[slots[v]].pc = "failed" \/ load' = load]_vars
  BY <1>1
<1> QED  BY <1>2, InvHolds, PTL DEF Spec, NewerCopySurvives
-----------------------------------------------------------------------------
(* The limiter. *)

\* The inductive invariant: the counter can only be tied to the slot holders together
\* with the queue being exactly the parked callers, each once -- otherwise a hand-over
\* could grant a slot to a caller that already holds one.
LimiterInv == LimiterTypeOK /\ SlotsAccounted /\ QueueOnlyWhenFull

LEMMA MaxActiveType == MaxActive \in Nat /\ MaxActive >= 1
  BY LimitAssumption DEF MaxActive

LEMMA HoldersFinite == IsFiniteSet(Holders)
  BY CallersAssumption, FS_Subset DEF Holders

LEMMA LimiterInitial == LimiterInit => LimiterInv
<1> SUFFICES ASSUME LimiterInit PROVE LimiterInv
  OBVIOUS
<1>1. LimiterTypeOK
  BY DEF LimiterInit, LimiterTypeOK
<1>2. Holders = {}
  BY DEF LimiterInit, Holders
<1>3. SlotsAccounted
  BY <1>2, FS_EmptySet, MaxActiveType DEF LimiterInit, SlotsAccounted
<1>4. QueueOnlyWhenFull
  BY DEF LimiterInit, QueueOnlyWhenFull
<1>5. QED
  BY <1>1, <1>3, <1>4 DEF LimiterInv

\* The oldest waiter is parked, and what is left of the queue is the other parked callers.
LEMMA OldestWaiter ==
  ASSUME LimiterInv, waiting # << >>
  PROVE  /\ Head(waiting) \in Callers
         /\ stage[Head(waiting)] = "queued"
         /\ Tail(waiting) \in Seq(Callers)
         /\ Len(Tail(waiting)) = Len(waiting) - 1
         /\ \A i \in 1..Len(Tail(waiting)) : Tail(waiting)[i] = waiting[i + 1]
         /\ \A i \in 1..Len(Tail(waiting)) : Tail(waiting)[i] # Head(waiting)
<1>1. waiting \in Seq(Callers) /\ Len(waiting) \in Nat /\ Len(waiting) >= 1
  BY DEF LimiterInv, LimiterTypeOK
<1>2. Head(waiting) = waiting[1] /\ Head(waiting) \in Callers
  BY <1>1
<1>3. stage[Head(waiting)] = "queued"
  BY <1>1, <1>2 DEF LimiterInv, QueueOnlyWhenFull
<1>4. /\ Tail(waiting) \in Seq(Callers)
      /\ Len(Tail(waiting)) = Len(waiting) - 1
      /\ \A i \in 1..Len(Tail(waiting)) : Tail(waiting)[i] = waiting[i + 1]
  BY <1>1
<1>5. \A i \in 1..Len(Tail(waiting)) : Tail(waiting)[i] # Head(waiting)
  <2> SUFFICES ASSUME NEW i \in 1..Len(Tail(waiting)), Tail(waiting)[i] = Head(waiting)
               PROVE  FALSE
    OBVIOUS
  <2>1. waiting[i + 1] = waiting[1] /\ i + 1 \in 1..Len(waiting) /\ 1 \in 1..Len(waiting)
    BY <1>1, <1>2, <1>4
  <2>2. i + 1 = 1
    BY <2>1 DEF LimiterInv, QueueOnlyWhenFull
  <2>3. QED
    BY <2>2
<1>6. QED
  BY <1>2, <1>3, <1>4, <1>5

LEMMA QueuePreserves == ASSUME LimiterInv, NEW c \in Callers, Queue(c) PROVE LimiterInv'
<1> USE DEF Queue
<1>0. waiting \in Seq(Callers) /\ active \in Nat /\ stage \in [Callers -> {"idle", "queued", "granted", "running"}]
  BY DEF LimiterInv, LimiterTypeOK
<1>1. LimiterTypeOK'
  BY <1>0 DEF LimiterTypeOK
<1>2. Holders' = Holders
  BY <1>0 DEF Holders
<1>3. SlotsAccounted'
  BY <1>2 DEF LimiterInv, SlotsAccounted, MaxActive
<1>4. /\ Len(waiting') = Len(waiting) + 1 /\ Len(waiting) \in Nat
      /\ \A i \in 1..Len(waiting) : waiting'[i] = waiting[i]
      /\ waiting'[Len(waiting) + 1] = c
  BY <1>0
<1>5. \A i \in 1..Len(waiting) : waiting[i] # c
  BY DEF LimiterInv, QueueOnlyWhenFull
<1>6. \A d \in Callers : stage'[d] = "queued" <=> \E i \in 1..Len(waiting') : waiting'[i] = d
  <2> SUFFICES ASSUME NEW d \in Callers
               PROVE  stage'[d] = "queued" <=> \E i \in 1..Len(waiting') : waiting'[i] = d
    OBVIOUS
  <2>1. CASE d = c
    BY <1>0, <1>4, <2>1
  <2>2. CASE d # c
    <3>1. stage'[d] = stage[d]
      BY <1>0, <2>2
    <3>2. stage[d] = "queued" <=> \E i \in 1..Len(waiting) : waiting[i] = d
      BY DEF LimiterInv, QueueOnlyWhenFull
    <3>3. (\E i \in 1..Len(waiting) : waiting[i] = d) <=> \E i \in 1..Len(waiting') : waiting'[i] = d
      BY <1>4, <2>2
    <3>4. QED
      BY <3>1, <3>2, <3>3
  <2>3. QED
    BY <2>1, <2>2
<1>7. \A i, j \in 1..Len(waiting') : waiting'[i] = waiting'[j] => i = j
  <2> SUFFICES ASSUME NEW i \in 1..Len(waiting'), NEW j \in 1..Len(waiting'), waiting'[i] = waiting'[j]
               PROVE  i = j
    OBVIOUS
  <2>1. CASE i \in 1..Len(waiting) /\ j \in 1..Len(waiting)
    BY <1>4, <2>1 DEF LimiterInv, QueueOnlyWhenFull
  <2>2. CASE i \notin 1..Len(waiting) \/ j \notin 1..Len(waiting)
    BY <1>4, <1>5, <2>2
  <2>3. QED
    BY <2>1, <2>2
<1>8. active' = MaxActive'
  BY <1>0, MaxActiveType DEF LimiterInv, SlotsAccounted, MaxActive
<1>9. QED
  BY <1>1, <1>3, <1>6, <1>7, <1>8 DEF LimiterInv, QueueOnlyWhenFull

LEMMA StartPreserves == ASSUME LimiterInv, NEW c \in Callers, Start(c) PROVE LimiterInv'
<1> USE DEF Start
<1>0. active \in Nat /\ stage \in [Callers -> {"idle", "queued", "granted", "running"}]
  BY DEF LimiterInv, LimiterTypeOK
<1>1. LimiterTypeOK'
  BY <1>0 DEF LimiterInv, LimiterTypeOK
<1>2. Holders' = Holders \cup {c} /\ c \notin Holders
  BY <1>0 DEF Holders
<1>3. SlotsAccounted'
  BY <1>0, <1>2, HoldersFinite, FS_AddElement, MaxActiveType DEF LimiterInv, SlotsAccounted, MaxActive
<1>4. waiting = << >>
  BY <1>0, MaxActiveType DEF LimiterInv, QueueOnlyWhenFull
<1>5. QueueOnlyWhenFull'
  BY <1>0, <1>4 DEF LimiterInv, QueueOnlyWhenFull
<1>6. QED
  BY <1>1, <1>3, <1>5 DEF LimiterInv

LEMMA ResumePreserves == ASSUME LimiterInv, NEW c \in Callers, Resume(c) PROVE LimiterInv'
<1> USE DEF Resume
<1>0. stage \in [Callers -> {"idle", "queued", "granted", "running"}]
  BY DEF LimiterInv, LimiterTypeOK
<1>1. LimiterTypeOK'
  BY <1>0 DEF LimiterInv, LimiterTypeOK
<1>2. Holders' = Holders
  BY <1>0 DEF Holders
<1>3. SlotsAccounted'
  BY <1>2 DEF LimiterInv, SlotsAccounted, MaxActive
<1>4. QueueOnlyWhenFull'
  BY <1>0 DEF LimiterInv, QueueOnlyWhenFull, MaxActive
<1>5. QED
  BY <1>1, <1>3, <1>4 DEF LimiterInv

LEMMA SettlePreserves == ASSUME LimiterInv, NEW c \in Callers, Settle(c) PROVE LimiterInv'
<1>0. /\ active \in Nat /\ waiting \in Seq(Callers)
      /\ stage \in [Callers -> {"idle", "queued", "granted", "running"}] /\ stage[c] = "running"
  BY DEF LimiterInv, LimiterTypeOK, Settle
<1>1. CASE waiting # << >>
  <2> DEFINE oldest == Head(waiting)
  <2>1. /\ oldest \in Callers /\ stage[oldest] = "queued" /\ oldest # c
        /\ waiting' = Tail(waiting) /\ active' = active
        /\ stage' = [stage EXCEPT ![c] = "idle", ![oldest] = "granted"]
    BY <1>0, <1>1, OldestWaiter DEF Settle, Release
  <2>2. LimiterTypeOK'
    BY <1>0, <1>1, <2>1, OldestWaiter DEF LimiterTypeOK
  <2>3. Holders' = (Holders \ {c}) \cup {oldest} /\ c \in Holders /\ oldest \notin Holders
    BY <1>0, <2>1 DEF Holders
  <2>4. Cardinality(Holders') = Cardinality(Holders)
    <3>1. IsFiniteSet(Holders \ {c}) /\ Cardinality(Holders \ {c}) = Cardinality(Holders) - 1
      BY <2>3, HoldersFinite, FS_RemoveElement
    <3>2. Cardinality((Holders \ {c}) \cup {oldest}) = Cardinality(Holders \ {c}) + 1
      BY <2>3, <3>1, FS_AddElement
    <3>3. Cardinality(Holders) \in Nat
      BY HoldersFinite, FS_CardinalityType
    <3>4. QED
      BY <2>3, <3>1, <3>2, <3>3
  <2>5. SlotsAccounted'
    BY <2>1, <2>4 DEF LimiterInv, SlotsAccounted, MaxActive
  <2>6. \A d \in Callers : stage'[d] = "queued" <=> \E i \in 1..Len(waiting') : waiting'[i] = d
    <3> SUFFICES ASSUME NEW d \in Callers
                 PROVE  stage'[d] = "queued" <=> \E i \in 1..Len(waiting') : waiting'[i] = d
      OBVIOUS
    <3>1. stage[d] = "queued" <=> \E i \in 1..Len(waiting) : waiting[i] = d
      BY DEF LimiterInv, QueueOnlyWhenFull
    <3>2. CASE d = oldest
      <4>1. stage'[d] = "granted"
        BY <1>0, <2>1, <3>2
      <4>2. QED
        BY <1>1, <2>1, <3>2, <4>1, OldestWaiter
    <3>3. CASE d = c
      <4>1. stage'[d] = "idle" /\ stage[d] = "running"
        BY <1>0, <2>1, <3>3
      <4>2. \A i \in 1..Len(waiting) : waiting[i] # d
        BY <3>1, <4>1
      <4>3. QED
        BY <1>0, <1>1, <2>1, <4>1, <4>2, OldestWaiter
    <3>4. CASE d # oldest /\ d # c
      <4>1. stage'[d] = stage[d]
        BY <1>0, <2>1, <3>4
      <4>2. ASSUME NEW i \in 1..Len(waiting), waiting[i] = d
            PROVE  \E j \in 1..Len(waiting') : waiting'[j] = d
        <5>1. i # 1
          BY <1>0, <1>1, <3>4, <4>2
        <5>2. i - 1 \in 1..Len(waiting') /\ waiting'[i - 1] = waiting[i - 1 + 1]
          BY <1>0, <1>1, <2>1, <5>1, OldestWaiter
        <5>3. QED
          BY <4>2, <5>2
      <4>3. ASSUME NEW j \in 1..Len(waiting'), waiting'[j] = d
            PROVE  \E i \in 1..Len(waiting) : waiting[i] = d
        BY <1>0, <1>1, <2>1, <4>3, OldestWaiter
      <4>4. QED
        BY <3>1, <4>1, <4>2, <4>3
    <3>5. QED
      BY <3>2, <3>3, <3>4
  <2>7. \A i, j \in 1..Len(waiting') : waiting'[i] = waiting'[j] => i = j
    <3> SUFFICES ASSUME NEW i \in 1..Len(waiting'), NEW j \in 1..Len(waiting'), waiting'[i] = waiting'[j]
                 PROVE  i = j
      OBVIOUS
    <3>1. /\ i + 1 \in 1..Len(waiting) /\ j + 1 \in 1..Len(waiting)
          /\ waiting[i + 1] = waiting[j + 1]
      BY <1>0, <1>1, <2>1, OldestWaiter
    <3>2. i + 1 = j + 1
      BY <3>1 DEF LimiterInv, QueueOnlyWhenFull
    <3>3. QED
      BY <3>2
  <2>8. active' = MaxActive'
    BY <1>1, <2>1 DEF LimiterInv, QueueOnlyWhenFull, MaxActive
  <2>9. QED
    BY <2>2, <2>5, <2>6, <2>7, <2>8 DEF LimiterInv, QueueOnlyWhenFull
<1>2. CASE waiting = << >>
  <2>1. /\ active' = active - 1 /\ waiting' = waiting
        /\ stage' = [stage EXCEPT ![c] = "idle"]
    BY <1>2 DEF Settle, Release
  <2>2. Holders' = Holders \ {c} /\ c \in Holders
    BY <1>0, <2>1 DEF Holders
  <2>3. /\ Cardinality(Holders') = Cardinality(Holders) - 1
        /\ Cardinality(Holders) \in Nat /\ Cardinality(Holders') \in Nat
    BY <2>2, HoldersFinite, FS_RemoveElement, FS_CardinalityType
  <2>4. SlotsAccounted' /\ active' \in Nat
    BY <1>0, <2>1, <2>3, MaxActiveType DEF LimiterInv, SlotsAccounted, MaxActive
  <2>5. LimiterTypeOK'
    BY <1>0, <2>1, <2>4 DEF LimiterTypeOK
  <2>6. QueueOnlyWhenFull'
    BY <1>0, <1>2, <2>1 DEF LimiterInv, QueueOnlyWhenFull
  <2>7. QED
    BY <2>4, <2>5, <2>6 DEF LimiterInv
<1>3. QED
  BY <1>1, <1>2

LEMMA StutterPreserves == ASSUME LimiterInv, UNCHANGED limiterVars PROVE LimiterInv'
  BY DEF LimiterInv, limiterVars, LimiterTypeOK, SlotsAccounted, QueueOnlyWhenFull, Holders, MaxActive

LEMMA LimiterInductive == LimiterSpec => []LimiterInv
<1>1. LimiterInv /\ [LimiterNext]_limiterVars => LimiterInv'
  BY QueuePreserves, StartPreserves, ResumePreserves, SettlePreserves, StutterPreserves DEF LimiterNext
<1>2. QED
  BY LimiterInitial, <1>1, PTL DEF LimiterSpec
-----------------------------------------------------------------------------
\* Type correctness of the limiter.
THEOREM LimiterTypes == LimiterSpec => []LimiterTypeOK
<1>1. LimiterInv => LimiterTypeOK
  BY DEF LimiterInv
<1>2. QED
  BY LimiterInductive, <1>1, PTL

\* Whatever order the tasks settle, fail and resume in, the counter is the number of slot
\* holders and stays within the limit: no failure leaks a slot.
THEOREM NoSlotLeaks == LimiterSpec => []SlotsAccounted
<1>1. LimiterInv => SlotsAccounted
  BY DEF LimiterInv
<1>2. QED
  BY LimiterInductive, <1>1, PTL

\* A parked request never sits beside a free slot.
THEOREM NoIdleSlot == LimiterSpec => []QueueOnlyWhenFull
<1>1. LimiterInv => QueueOnlyWhenFull
  BY DEF LimiterInv
<1>2. QED
  BY LimiterInductive, <1>1, PTL

\* No newcomer gets a slot past a parked caller.
THEOREM FirstComeFirstServed == LimiterSpec => NoOvertaking
<1> DEFINE Fair == \A c, d \in Callers :
       (stage[c] = "queued" /\ stage[d] = "idle" /\ stage'[d] \in {"granted", "running"})
         => stage'[c] # "queued"
<1>1. ASSUME LimiterInv, [LimiterNext]_limiterVars PROVE Fair
  <2> SUFFICES ASSUME NEW c \in Callers, NEW d \in Callers, stage[c] = "queued", stage[d] = "idle",
                      stage'[d] \in {"granted", "running"}
               PROVE  FALSE
    OBVIOUS
  <2>0. /\ stage \in [Callers -> {"idle", "queued", "granted", "running"}] /\ active \in Nat
        /\ waiting # << >>
    BY <1>1 DEF LimiterInv, LimiterTypeOK, QueueOnlyWhenFull
  <2>1. ASSUME NEW x \in Callers, Queue(x) PROVE FALSE
    BY <2>0, <2>1 DEF Queue
  <2>2. ASSUME NEW x \in Callers, Start(x) PROVE FALSE
    BY <1>1, <2>0, <2>2, MaxActiveType DEF Start, LimiterInv, QueueOnlyWhenFull
  <2>3. ASSUME NEW x \in Callers, Resume(x) PROVE FALSE
    BY <2>0, <2>3 DEF Resume
  <2>4. ASSUME NEW x \in Callers, Settle(x) PROVE FALSE
    BY <1>1, <2>0, <2>4, OldestWaiter DEF Settle, Release
  <2>5. CASE UNCHANGED limiterVars
    BY <2>5 DEF limiterVars
  <2>6. QED
    BY <1>1, <2>1, <2>2, <2>3, <2>4, <2>5 DEF LimiterNext
<1>2. LimiterInv /\ [LimiterNext]_limiterVars => [Fair]_limiterVars
  BY <1>1
<1>3. QED
  BY <1>2, LimiterInductive, PTL DEF LimiterSpec, NoOvertaking

-----------------------------------------------------------------------------
(***************************************************************************)
(* The workbench (QueryRunStore), for any models, page sizes and number of *)
(* clicks: what is on screen belongs to the newest run, however many older *)
(* ones are still waiting for their answers.                               *)
(***************************************************************************)
RunType ==
  [model : Models, offset : Nat, size : PageSizes,
   asked : SUBSET {"page", "count"}, waits : SUBSET {"page", "count"}]

(* A call of execute with arguments of their types appends a run of its type. *)
LEMMA ExecuteType ==
  ASSUME RunsTypeOK,
         NEW m \in Models, NEW o \in Nat, NEW s \in PageSizes, NEW b \in BOOLEAN,
         Execute(m, o, s, b)
  PROVE  /\ run' \in Seq(RunType)
         /\ Len(run') = Len(run) + 1
         /\ run'[Len(run')] = Request(m, o, s, IF m \in Compiles THEN Queries(b) ELSE {})
         /\ \A r \in DOMAIN run : run'[r] = run[r]
         /\ shown' \in 0..Len(run') /\ total' \in Nat \cup {Nothing}
         /\ running' \in BOOLEAN /\ error' \in BOOLEAN
<1> DEFINE req == Request(m, o, s, IF m \in Compiles THEN Queries(b) ELSE {})
<1>1. req \in RunType
  BY DEF Request, Queries, RunType
<1>2. run \in Seq(RunType)
  BY DEF RunsTypeOK, RunType
<1>3. run' = Append(run, req)
  BY DEF Execute
<1>4. Len(run') = Len(run) + 1 /\ run'[Len(run')] = req /\ run' \in Seq(RunType)
      /\ \A r \in DOMAIN run : run'[r] = run[r]
  <2> HIDE DEF req
  <2> QED  BY <1>1, <1>2, <1>3
<1>5. shown' = shown /\ total' = total /\ shown \in 0..Len(run)
  BY DEF Execute, RunsTypeOK, result
<1>6. shown' \in 0..Len(run')
  BY <1>2, <1>4, <1>5
<1> QED  BY <1>4, <1>5, <1>6 DEF Execute, RunsTypeOK

(***************************************************************************)
(* The inductive invariant.  PageSizeMatchesTable looks at the run that is *)
(* on screen; what a step preserves is that the newest run, shown or not,  *)
(* was asked with the current page size.                                   *)
(***************************************************************************)
SizeOfNewest == Newest # 0 => run[Newest].size = pageSize

RunsInv == RunsTypeOK /\ ScreenTellsNewest /\ SizeOfNewest

(* The types of what execute leaves alone. *)
PageType ==
  /\ builder \in Models
  /\ ranKey \in Models \cup {Nothing}
  /\ timer \in {Nothing, builder}
  /\ pageSize \in PageSizes
  /\ clicks \in 0..MaxClicks

LEMMA RunsInitial == RunsInit => RunsInv
<1> SUFFICES ASSUME RunsInit PROVE RunsInv
  OBVIOUS
<1>1. run = <<>> /\ Len(run) = 0 /\ run \in Seq(RunType)
  BY DEF RunsInit
<1>2. RunsTypeOK
  <2>1. shown \in 0..Len(run) /\ clicks \in 0..MaxClicks
    BY <1>1, QueryAssumption DEF RunsInit
  <2> QED  BY <1>1, <2>1 DEF RunsInit, RunsTypeOK, RunType
<1>3. ScreenTellsNewest /\ SizeOfNewest
  BY <1>1 DEF RunsInit, ScreenTellsNewest, SizeOfNewest, Settled, Newest
<1> QED  BY <1>2, <1>3 DEF RunsInv

(* A new run is the newest one: it is under way, or it has failed to compile. *)
LEMMA ExecuteInv ==
  ASSUME RunsInv,
         NEW m \in Models, NEW o \in Nat, NEW b \in BOOLEAN,
         Execute(m, o, pageSize', b), PageType'
  PROVE  RunsInv'
<1> DEFINE req == Request(m, o, pageSize', IF m \in Compiles THEN Queries(b) ELSE {})
<1>1. /\ run' \in Seq(RunType)
      /\ Len(run') = Len(run) + 1
      /\ run'[Len(run')] = req
      /\ shown' \in 0..Len(run') /\ total' \in Nat \cup {Nothing}
      /\ running' \in BOOLEAN /\ error' \in BOOLEAN
  BY ExecuteType DEF RunsInv, PageType
<1>2. RunsTypeOK'
  BY <1>1 DEF RunsTypeOK, PageType, RunType
<1>3. Newest' # 0 /\ Newest' = Len(run')
  BY <1>1 DEF RunsInv, RunsTypeOK, Newest
<1>4. SizeOfNewest'
  BY <1>1, <1>3 DEF SizeOfNewest, Request
<1>5. req.waits # {} <=> m \in Compiles
  BY DEF Request, Queries
<1>6. ScreenTellsNewest'
  <2>1. running' = (m \in Compiles) /\ error' = (m \notin Compiles)
    BY DEF Execute
  <2>2. run'[Newest'].waits = req.waits
    BY <1>1, <1>3
  <2> QED  BY <1>3, <1>5, <2>1, <2>2 DEF ScreenTellsNewest, Settled, Newest
<1> QED  BY <1>2, <1>4, <1>6 DEF RunsInv

(* The pages that can be asked for have an offset. *)
LEMMA Offsets ==
  ASSUME RunsTypeOK
  PROVE  Offset \in Nat /\ NextOffset \in Nat /\ PrevOffset \in Nat
<1>1. pageSize \in Nat
  BY QueryAssumption DEF RunsTypeOK
<1>2. Offset \in Nat
  <2>1. CASE shown = 0
    BY <2>1 DEF Offset
  <2>2. CASE shown # 0
    <3>1. shown \in 1..Len(run) /\ run \in Seq(RunType)
      BY <2>2 DEF RunsTypeOK, RunType
    <3>2. run[shown] \in RunType
      BY <3>1
    <3> QED  BY <2>2, <3>2 DEF Offset, RunType
  <2> QED  BY <2>1, <2>2
<1> QED  BY <1>1, <1>2 DEF NextOffset, PrevOffset

(* What happens to one run leaves the newest one's request as it was. *)
LEMMA WaitsType ==
  ASSUME RunsTypeOK, NEW r \in DOMAIN run, NEW W \in SUBSET {"page", "count"},
         run' = [run EXCEPT ![r].waits = W]
  PROVE  /\ run' \in Seq(RunType) /\ Len(run') = Len(run) /\ DOMAIN run' = DOMAIN run
         /\ run'[r].waits = W /\ run'[r].size = run[r].size
         /\ \A q \in DOMAIN run : q # r => run'[q] = run[q]
<1>1. run \in Seq(RunType) /\ run[r] \in RunType
  <2>1. run \in Seq(RunType)
    BY DEF RunsTypeOK, RunType
  <2> QED  BY <2>1
<1>2. [run[r] EXCEPT !.waits = W] \in RunType
  BY <1>1 DEF RunType
<1>3. run' = [run EXCEPT ![r] = [run[r] EXCEPT !.waits = W]]
  OBVIOUS
<1>4. run' \in Seq(RunType) /\ Len(run') = Len(run) /\ DOMAIN run' = DOMAIN run
  BY <1>1, <1>2, <1>3
<1>5. [run[r] EXCEPT !.waits = W].waits = W /\ [run[r] EXCEPT !.waits = W].size = run[r].size
  BY <1>1 DEF RunType
<1> QED  BY <1>1, <1>3, <1>4, <1>5

LEMMA AnswerInv ==
  ASSUME RunsInv, NEW r \in DOMAIN run, NEW query \in {"page", "count"}, Answer(r, query)
  PROVE  RunsInv'
<1> DEFINE W == run[r].waits \ {query}
<1>1. run \in Seq(RunType) /\ run[r] \in RunType /\ r \in 1..Len(run) /\ Len(run) \in Nat
  <2>1. run \in Seq(RunType)
    BY DEF RunsInv, RunsTypeOK, RunType
  <2> QED  BY <2>1
<1>2. W \in SUBSET {"page", "count"} /\ query \in run[r].waits
  BY <1>1 DEF RunType, Answer
<1>3. run' = [run EXCEPT ![r].waits = W]
  BY DEF Answer
<1>4. /\ run' \in Seq(RunType) /\ Len(run') = Len(run) /\ DOMAIN run' = DOMAIN run
      /\ run'[r].waits = W /\ run'[r].size = run[r].size
      /\ \A q \in DOMAIN run : q # r => run'[q] = run[q]
  <2> HIDE DEF W
  <2> QED  BY <1>2, <1>3, WaitsType DEF RunsInv
<1>5. UNCHANGED <<builder, ranKey, timer, pageSize, error, clicks>>
  BY DEF Answer, page
<1>6. Newest' = Newest /\ Newest \in DOMAIN run /\ Newest # 0
  BY <1>1, <1>4 DEF Newest
<1>7. SizeOfNewest'
  BY <1>4, <1>5, <1>6 DEF SizeOfNewest, RunsInv
<1>8. CASE run[r].waits = {query} /\ r = Newest
  <2>1. shown' = r /\ running' = FALSE
    BY <1>8 DEF Answer, Publish
  <2>2. total' \in Nat \cup {Nothing}
    BY <1>1, <1>8, QueryAssumption DEF Answer, Publish, RunType, RunsInv, RunsTypeOK
  <2>3. RunsTypeOK'
    <3>1. shown' \in 0..Len(run')
      BY <1>1, <1>4, <2>1
    <3> QED  BY <1>4, <1>5, <2>1, <2>2, <3>1 DEF RunsInv, RunsTypeOK, RunType
  <2>4. W = {}
    BY <1>8
  <2>5. ScreenTellsNewest'
    BY <1>4, <1>6, <1>8, <2>1, <2>4 DEF ScreenTellsNewest, Settled
  <2> QED  BY <1>7, <2>3, <2>5 DEF RunsInv
<1>9. CASE ~(run[r].waits = {query} /\ r = Newest)
  <2>1. UNCHANGED <<shown, total, running>>
    BY <1>9 DEF Answer, Publish, result
  <2>2. RunsTypeOK'
    BY <1>1, <1>4, <1>5, <2>1 DEF RunsInv, RunsTypeOK, RunType
  <2>3. run'[Newest].waits # {} <=> run[Newest].waits # {}
    BY <1>2, <1>4, <1>6, <1>9
  <2>4. ScreenTellsNewest'
    BY <1>5, <1>6, <2>1, <2>3 DEF RunsInv, ScreenTellsNewest, Settled
  <2> QED  BY <1>7, <2>2, <2>4 DEF RunsInv
<1> QED  BY <1>8, <1>9

LEMMA FailInv ==
  ASSUME RunsInv, NEW r \in DOMAIN run, Fail(r)
  PROVE  RunsInv'
<1>1. run \in Seq(RunType) /\ r \in 1..Len(run) /\ Len(run) \in Nat
  BY DEF RunsInv, RunsTypeOK, RunType
<1>2. run' = [run EXCEPT ![r].waits = {}]
  BY DEF Fail
<1>3. /\ run' \in Seq(RunType) /\ Len(run') = Len(run) /\ DOMAIN run' = DOMAIN run
      /\ run'[r].waits = {} /\ run'[r].size = run[r].size
      /\ \A q \in DOMAIN run : q # r => run'[q] = run[q]
  <2>1. {} \in SUBSET {"page", "count"}
    OBVIOUS
  <2> QED  BY <1>2, <2>1, WaitsType DEF RunsInv
<1>4. UNCHANGED <<builder, ranKey, timer, shown, total, pageSize, clicks>>
  BY DEF Fail, page, result
<1>5. Newest' = Newest /\ Newest \in DOMAIN run /\ Newest # 0
  BY <1>1, <1>3 DEF Newest
<1>6. SizeOfNewest'
  BY <1>3, <1>4, <1>5 DEF SizeOfNewest, RunsInv
<1>7. running' \in BOOLEAN /\ error' \in BOOLEAN
  BY DEF Fail, RunsInv, RunsTypeOK
<1>8. RunsTypeOK'
  BY <1>1, <1>3, <1>4, <1>7 DEF RunsInv, RunsTypeOK, RunType
<1>9. ScreenTellsNewest'
  BY <1>3, <1>4, <1>5 DEF Fail, RunsInv, ScreenTellsNewest, Settled
<1> QED  BY <1>6, <1>8, <1>9 DEF RunsInv

LEMMA Clicking == ASSUME RunsTypeOK, Click PROVE clicks' \in 0..MaxClicks
  BY QueryAssumption DEF RunsTypeOK, Click

LEMMA RunsInductive == RunsInv /\ [RunsNext]_runsVars => RunsInv'
<1> SUFFICES ASSUME RunsInv, [RunsNext]_runsVars PROVE RunsInv'
  OBVIOUS
<1> USE DEF PageType
<1>0. RunsTypeOK /\ Offset \in Nat /\ NextOffset \in Nat /\ PrevOffset \in Nat
      /\ 0 \in Nat /\ TRUE \in BOOLEAN /\ FALSE \in BOOLEAN
  BY Offsets DEF RunsInv
<1>1. ASSUME NEW m \in Models, EditModel(m) PROVE RunsInv'
  <2>1. clicks' \in 0..MaxClicks
    BY <1>0, <1>1, Clicking DEF EditModel
  <2>2. UNCHANGED <<ranKey, run, shown, total, pageSize, running, error>>
        /\ builder' \in Models /\ timer' \in {Nothing, builder'}
    BY <1>1 DEF EditModel, result
  <2>3. RunsTypeOK'
    BY <1>0, <2>1, <2>2 DEF RunsTypeOK
  <2> QED  BY <2>2, <2>3 DEF RunsInv, ScreenTellsNewest, SizeOfNewest, Settled, Newest
<1>2. CASE Run
  <2>1. PageType'
    BY <1>0, <1>2, Clicking DEF Run, RunsTypeOK
  <2> QED  BY <1>0, <1>2, <2>1, ExecuteInv DEF Run, RunsTypeOK
<1>3. ASSUME NEW m \in Models, LoadModel(m) PROVE RunsInv'
  <2>1. PageType'
    BY <1>0, <1>3, Clicking DEF LoadModel, RunsTypeOK
  <2> QED  BY <1>0, <1>3, <2>1, ExecuteInv DEF LoadModel
<1>4. CASE AutoRun
  <2>1. PageType' /\ timer \in Models
    BY <1>0, <1>4 DEF AutoRun, RunsTypeOK
  <2> QED  BY <1>0, <1>4, <2>1, ExecuteInv DEF AutoRun
<1>5. CASE Sort
  <2>1. PageType'
    BY <1>0, <1>5, Clicking DEF Sort, RunsTypeOK
  <2> QED  BY <1>0, <1>5, <2>1, ExecuteInv DEF Sort, RunsTypeOK
<1>6. CASE NextPage
  <2>1. PageType'
    BY <1>0, <1>6, Clicking DEF NextPage, page, RunsTypeOK
  <2> QED  BY <1>0, <1>6, <2>1, ExecuteInv DEF NextPage, RunsTypeOK
<1>7. CASE PreviousPage
  <2>1. PageType'
    BY <1>0, <1>7, Clicking DEF PreviousPage, page, RunsTypeOK
  <2> QED  BY <1>0, <1>7, <2>1, ExecuteInv DEF PreviousPage, RunsTypeOK
<1>8. ASSUME NEW n \in PageSizes, SetPageSize(n) PROVE RunsInv'
  <2>1. PageType'
    BY <1>0, <1>8, Clicking DEF SetPageSize, page, RunsTypeOK
  <2>2. builder \in Models /\ Execute(builder, 0, pageSize', FALSE)
    BY <1>0, <1>8 DEF SetPageSize, RunsTypeOK
  <2> QED  BY <1>0, <2>1, <2>2, ExecuteInv
<1>9. CASE UNCHANGED runsVars
  BY <1>9 DEF runsVars, page, result, RunsInv, RunsTypeOK, ScreenTellsNewest, SizeOfNewest, Settled, Newest
<1> QED
  BY <1>1, <1>2, <1>3, <1>4, <1>5, <1>6, <1>7, <1>8, <1>9, AnswerInv, FailInv DEF RunsNext

\* The workbench keeps its inductive invariant over every click, answer and failure.
THEOREM RunsInvHold == RunsSpec => []RunsInv
<1> QED  BY RunsInitial, RunsInductive, PTL DEF RunsSpec

(* Every variable of the workbench model stays in its domain: no page before the first. *)
THEOREM WorkbenchTypes == RunsSpec => []RunsTypeOK
<1>1. RunsInv => RunsTypeOK
  BY DEF RunsInv
<1> QED  BY <1>1, RunsInvHold, PTL

(* Spinner, message and table tell of the newest run, whatever older runs do. *)
THEOREM NewestRunIsTold == RunsSpec => []ScreenTellsNewest
<1>1. RunsInv => ScreenTellsNewest
  BY DEF RunsInv
<1> QED  BY <1>1, RunsInvHold, PTL

(* The range under the table is computed with the page size it was read with. *)
THEOREM RangeMatchesTable == RunsSpec => []PageSizeMatchesTable
<1>1. RunsInv => PageSizeMatchesTable
  BY DEF RunsInv, SizeOfNewest, ScreenTellsNewest, PageSizeMatchesTable, Settled
<1> QED  BY <1>1, RunsInvHold, PTL

(* No answer or failure ever takes the table back to an older run. *)
THEOREM TableNeverGoesBack == RunsSpec => NeverGoesBack
<1>1. RunsInv /\ [RunsNext]_runsVars => [shown' >= shown]_runsVars
  <2> SUFFICES ASSUME RunsInv, RunsNext PROVE shown' >= shown
    BY DEF runsVars, result
  <2>1. shown \in 0..Len(run) /\ Len(run) \in Nat
    BY DEF RunsInv, RunsTypeOK
  <2>2. shown' = shown \/ shown' = Newest
    BY DEF RunsNext, EditModel, LoadModel, Run, AutoRun, Sort, NextPage, PreviousPage, SetPageSize,
           Execute, Answer, Publish, Fail, result
  <2> QED  BY <2>1, <2>2 DEF Newest
<1> QED  BY <1>1, RunsInvHold, PTL DEF RunsSpec, NeverGoesBack
=============================================================================

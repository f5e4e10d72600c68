--------------------------- MODULE FirstRunProofs ---------------------------
(***************************************************************************)
(* Proofs about FirstRun, for any legacy graph, any number of tabs, loads  *)
(* and failures: the markers of the two migrations are never set before    *)
(* their work is whole, and what a tab draws is whole.                     *)
(***************************************************************************)
EXTENDS FirstRun, FiniteSetTheorems, TLAPS

Item == [element : Legacy, position : 1..Cardinality(Legacy)]

LoadType ==
  [tab : Tabs \cup {None},
   pc : {"free", "lists", "copy", "registered?", "register", "relist", "parallel"},
   waits : SUBSET {"namespaces", "workspaces"}, known : BOOLEAN,
   schema : {None, "asked", "read", "failed"}, data : SUBSET Legacy,
   chain : {None, "ensure", "workspace?", "create", "backfill", "member?", "insert", "mark",
            "relist", "layout", "done", "failed"},
   todo : Seq(Item)]

PageType ==
  [loading : BOOLEAN, error : BOOLEAN, listed : BOOLEAN, ensured : BOOLEAN,
   active : BOOLEAN, members : SUBSET Legacy, drawn : BOOLEAN, canvas : SUBSET Legacy]

StoreType ==
  /\ registered \in BOOLEAN /\ workspace \in BOOLEAN /\ complete \in BOOLEAN
  /\ copied \in SUBSET Legacy
  /\ positions \in [Legacy -> SUBSET (1..Cardinality(Legacy))]

Types ==
  /\ StoreType
  /\ page \in [Tabs -> PageType]
  /\ load \in [Loads -> LoadType]

(***************************************************************************)
(* What holds of the store and of a tab.  That the markers are set after   *)
(* the work they stand for is not inductive: it rests on what each load    *)
(* knows at each of its steps (Knows), and that on nothing ever being      *)
(* taken back (Grown).                                                     *)
(***************************************************************************)
StoreInv ==
  /\ registered => copied = Legacy
  /\ complete => Members = Legacy /\ workspace

TabInv(t) ==
  /\ page[t].listed => workspace
  /\ page[t].ensured => complete
  /\ page[t].drawn => /\ page[t].canvas = Legacy /\ page[t].members = Legacy
                      /\ page[t].active /\ page[t].listed

Rest(rec) == {rec.todo[i].element : i \in DOMAIN rec.todo}

KnowsAs(rec) ==
  /\ rec.pc = "free" \/ rec.tab \in Tabs
  /\ rec.pc = "free" => rec = NoLoad
  /\ rec.pc # "parallel" => rec.schema = None /\ rec.chain = None
  /\ rec.known => registered
  /\ rec.pc = "parallel" => rec.known
  /\ rec.pc \in {"registered?", "register"} => copied = Legacy
  /\ rec.pc = "relist" => registered
  /\ rec.schema = "read" => rec.data = Legacy
  /\ rec.chain \in {"backfill", "member?", "insert", "mark"} => workspace
  /\ rec.chain \in {"member?", "insert"} => rec.todo # <<>> /\ Legacy \ Members \subseteq Rest(rec)
  /\ rec.chain = "mark" => Members = Legacy
  /\ rec.chain \in {"relist", "layout", "done"} => complete

(* What a load with its workspace activated has put on the screen. *)
Shows(rec, screen) ==
  /\ rec.chain \in {"layout", "done"} => screen.active /\ screen.listed
  /\ rec.chain = "done" => screen.members = Legacy

Knows(l) == KnowsAs(load[l]) /\ Shows(load[l], page[load[l].tab])

Inv ==
  /\ Types
  /\ StoreInv
  /\ \A t \in Tabs : TabInv(t)
  /\ \A l \in Loads : Knows(l)

StoreGrown ==
  /\ registered => registered'
  /\ copied = Legacy => copied' = Legacy
  /\ workspace => workspace'
  /\ complete => complete'
  /\ Members \subseteq Members'

(* What a step may do to a tab's page without a load of the tab losing what it knows. *)
PageGrown(t) ==
  /\ page[t].active => page'[t].active
  /\ page[t].listed => page'[t].listed
  /\ page[t].members = Legacy => page'[t].members = Legacy

LEMMA Initial == Init => Inv
<1> SUFFICES ASSUME Init PROVE Inv
  OBVIOUS
<1>1. <<>> \in Seq(Item)
  OBVIOUS
<1>2. Types
  BY <1>1 DEF Init, Types, StoreType, PageType, LoadType, NoLoad, None
<1>3. StoreInv /\ \A t \in Tabs : TabInv(t)
  BY DEF Init, StoreInv, TabInv
<1>4. \A l \in Loads : load[l] = NoLoad
  BY DEF Init
<1>5. \A l \in Loads : Knows(l)
  BY <1>4 DEF Knows, KnowsAs, Shows, NoLoad, None
<1> QED  BY <1>2, <1>3, <1>5 DEF Inv

(* A load that a step does not touch still knows what it knew. *)
LEMMA Others ==
  ASSUME Inv, StoreGrown, \A t \in Tabs : PageGrown(t), Types',
         NEW k \in Loads, load'[k] = load[k]
  PROVE  Knows(k)'
<1>1. Knows(k) /\ load[k] \in LoadType
  BY DEF Inv, Types
<1>2. copied' \subseteq Legacy /\ Members' \subseteq Legacy
  BY DEF Types, StoreType, Members
<1>3. Rest(load[k])' = Rest(load[k])
  BY DEF Rest
<1>4. load[k].chain \in {"layout", "done"} => load[k].tab \in Tabs
  BY <1>1 DEF Knows, KnowsAs, Shows, None
<1> QED
  BY <1>1, <1>2, <1>3, <1>4 DEF Knows, KnowsAs, Shows, StoreGrown, PageGrown

(* A step of load l that turns it into rec, and its tab's page into screen. *)
LEMMA Assembled ==
  ASSUME Inv, StoreType', StoreInv', StoreGrown,
         NEW l \in Loads, load' \in [Loads -> LoadType],
         \A k \in Loads : k # l => load'[k] = load[k],
         page' \in [Tabs -> PageType],
         \A t \in Tabs : PageGrown(t) /\ TabInv(t)',
         Knows(l)'
  PROVE  Inv'
<1>1. Types'
  BY DEF Types
<1>2. \A k \in Loads : Knows(k)'
  BY <1>1, Others
<1> QED  BY <1>1, <1>2 DEF Inv

LEMMA SamePages ==
  ASSUME Inv, StoreGrown, page' = page
  PROVE  page' \in [Tabs -> PageType] /\ \A t \in Tabs : PageGrown(t) /\ TabInv(t)'
  BY DEF Inv, Types, TabInv, PageGrown, StoreGrown

LEMMA SameStore ==
  ASSUME Inv, UNCHANGED store
  PROVE  StoreType' /\ StoreInv' /\ StoreGrown
  BY DEF Inv, Types, StoreType, StoreInv, StoreGrown, Members, store

(***************************************************************************)
(* The steps of a load.                                                    *)
(***************************************************************************)
LEMMA LoadTypes ==
  ASSUME Inv, NEW l \in Loads
  PROVE  load[l] \in LoadType /\ Knows(l) /\ NoLoad \in LoadType
<1>1. <<>> \in Seq(Item)
  OBVIOUS
<1> QED  BY <1>1 DEF Inv, Types, LoadType, NoLoad, None

LEMMA BeginInv ==
  ASSUME Inv, NEW l \in Loads, NEW t \in Tabs, Begin(l, t)
  PROVE  Inv'
<1> DEFINE rec == [NoLoad EXCEPT !.tab = t, !.pc = "lists", !.waits = {"namespaces", "workspaces"}]
<1>1. load' = [load EXCEPT ![l] = rec] /\ UNCHANGED store
  BY DEF Begin
<1>2. rec \in LoadType
  BY LoadTypes DEF LoadType, NoLoad
<1>3. load' \in [Loads -> LoadType] /\ load'[l] = rec /\ \A k \in Loads : k # l => load'[k] = load[k]
  BY <1>1, <1>2 DEF Inv, Types
<1>4. page' \in [Tabs -> PageType] /\ \A u \in Tabs : PageGrown(u) /\ TabInv(u)'
  <2>1. page' = [page EXCEPT ![t] = [page[t] EXCEPT !.loading = TRUE, !.error = FALSE]]
    BY DEF Begin
  <2>2. [page[t] EXCEPT !.loading = TRUE, !.error = FALSE] \in PageType
    BY DEF Inv, Types, PageType
  <2> QED  BY <1>1, <2>1, <2>2 DEF Inv, Types, PageType, TabInv, PageGrown, store
<1>5. Knows(l)'
  BY <1>3 DEF Knows, KnowsAs, Shows, NoLoad, None
<1>6. StoreType' /\ StoreInv' /\ StoreGrown
  BY <1>1, SameStore
<1> QED  BY <1>3, <1>4, <1>5, <1>6, Assembled

LEMMA ReadNamespacesInv ==
  ASSUME Inv, NEW l \in Loads, ReadNamespaces(l)
  PROVE  Inv'
<1> DEFINE rec == EndOfLists([load[l] EXCEPT !.waits = @ \ {"namespaces"}, !.known = registered])
<1>0. load[l] \in LoadType /\ Knows(l) /\ load[l].pc = "lists"
  BY LoadTypes DEF ReadNamespaces
<1>1. load' = [load EXCEPT ![l] = rec] /\ UNCHANGED <<store, page>>
  BY DEF ReadNamespaces
<1>2. /\ rec \in LoadType /\ rec.tab = load[l].tab /\ rec.todo = load[l].todo
      /\ rec.pc \in {"lists", "copy", "parallel"} /\ rec.known = registered
      /\ IF rec.pc = "parallel" THEN registered /\ rec.schema = "asked" /\ rec.chain = "ensure"
         ELSE rec.schema = None /\ rec.chain = None
  BY <1>0 DEF LoadType, EndOfLists, Parallel, Inv, Types, StoreType, Knows, KnowsAs, Shows, None
<1>3. load' \in [Loads -> LoadType] /\ load'[l] = rec /\ \A k \in Loads : k # l => load'[k] = load[k]
  <2> HIDE DEF rec
  <2> QED  BY <1>1, <1>2 DEF Inv, Types
<1>4. StoreType' /\ StoreInv' /\ StoreGrown
  BY <1>1, SameStore
<1>5. page' \in [Tabs -> PageType] /\ \A u \in Tabs : PageGrown(u) /\ TabInv(u)'
  BY <1>1, <1>4, SamePages
<1>6. Knows(l)'
  <2> HIDE DEF rec
  <2> QED  BY <1>0, <1>1, <1>2, <1>3 DEF Knows, KnowsAs, Shows, None, store
<1> QED  BY <1>3, <1>4, <1>5, <1>6, Assembled

LEMMA ReadWorkspacesInv ==
  ASSUME Inv, NEW l \in Loads, ReadWorkspaces(l)
  PROVE  Inv'
<1> DEFINE rec == EndOfLists([load[l] EXCEPT !.waits = @ \ {"workspaces"}])
           t == load[l].tab
<1>0. load[l] \in LoadType /\ Knows(l) /\ load[l].pc = "lists" /\ t \in Tabs
  BY LoadTypes DEF ReadWorkspaces, Knows, KnowsAs, Shows
<1>1. load' = [load EXCEPT ![l] = rec] /\ UNCHANGED store
  BY DEF ReadWorkspaces
<1>2. /\ rec \in LoadType /\ rec.tab = load[l].tab /\ rec.todo = load[l].todo
      /\ rec.pc \in {"lists", "copy", "parallel"} /\ rec.known = load[l].known
      /\ IF rec.pc = "parallel" THEN load[l].known /\ rec.schema = "asked" /\ rec.chain = "ensure"
         ELSE rec.schema = None /\ rec.chain = None
  BY <1>0 DEF LoadType, EndOfLists, Parallel, Knows, KnowsAs, Shows, None
<1>3. load' \in [Loads -> LoadType] /\ load'[l] = rec /\ \A k \in Loads : k # l => load'[k] = load[k]
  <2> HIDE DEF rec
  <2> QED  BY <1>1, <1>2 DEF Inv, Types
<1>4. StoreType' /\ StoreInv' /\ StoreGrown
  BY <1>1, SameStore
<1>5. page' \in [Tabs -> PageType] /\ \A u \in Tabs : PageGrown(u) /\ TabInv(u)'
  <2>1. page' = [page EXCEPT ![t] = [page[t] EXCEPT !.listed = workspace]]
    BY DEF ReadWorkspaces, Tab
  <2>2. [page[t] EXCEPT !.listed = workspace] \in PageType
    BY <1>0 DEF Inv, Types, StoreType, PageType
  <2> QED  BY <1>0, <1>1, <2>1, <2>2 DEF Inv, Types, PageType, TabInv, PageGrown, store
<1>6. Knows(l)'
  <2> HIDE DEF rec
  <2> QED  BY <1>0, <1>1, <1>2, <1>3 DEF Knows, KnowsAs, Shows, None, store
<1> QED  BY <1>3, <1>4, <1>5, <1>6, Assembled

(* A step of the migration that changes only the place of the load. *)
LEMMA CopyInv ==
  ASSUME Inv, NEW l \in Loads, Copy(l)
  PROVE  Inv'
<1> DEFINE rec == [load[l] EXCEPT !.pc = "registered?"]
<1>0. load[l] \in LoadType /\ Knows(l) /\ load[l].pc = "copy"
  BY LoadTypes DEF Copy
<1>1. load' = [load EXCEPT ![l] = rec] /\ UNCHANGED <<registered, workspace, complete, positions, page>>
      /\ copied' = Legacy
  BY DEF Copy, Go
<1>2. rec \in LoadType
  BY <1>0 DEF LoadType
<1>3. load' \in [Loads -> LoadType] /\ load'[l] = rec /\ \A k \in Loads : k # l => load'[k] = load[k]
  BY <1>1, <1>2 DEF Inv, Types
<1>4. StoreType' /\ StoreInv' /\ StoreGrown
  BY <1>1 DEF Inv, Types, StoreType, StoreInv, StoreGrown, Members
<1>5. page' \in [Tabs -> PageType] /\ \A u \in Tabs : PageGrown(u) /\ TabInv(u)'
  BY <1>1, <1>4, SamePages
<1>6. Knows(l)'
  BY <1>0, <1>1, <1>3 DEF Knows, KnowsAs, Shows, LoadType, None
<1> QED  BY <1>3, <1>4, <1>5, <1>6, Assembled

LEMMA RegisterInv ==
  ASSUME Inv, NEW l \in Loads, Register(l)
  PROVE  Inv'
<1> DEFINE rec == [load[l] EXCEPT !.pc = "relist"]
<1>0. load[l] \in LoadType /\ Knows(l) /\ load[l].pc = "register"
  BY LoadTypes DEF Register
<1>1. load' = [load EXCEPT ![l] = rec] /\ UNCHANGED <<copied, workspace, complete, positions, page>>
      /\ registered' = TRUE
  BY DEF Register, Go
<1>2. rec \in LoadType
  BY <1>0 DEF LoadType
<1>3. load' \in [Loads -> LoadType] /\ load'[l] = rec /\ \A k \in Loads : k # l => load'[k] = load[k]
  BY <1>1, <1>2 DEF Inv, Types
<1>4. StoreType' /\ StoreInv' /\ StoreGrown
  <2>1. copied = Legacy
    BY <1>0 DEF Knows, KnowsAs, Shows
  <2> QED  BY <1>1, <2>1 DEF Inv, Types, StoreType, StoreInv, StoreGrown, Members
<1>5. page' \in [Tabs -> PageType] /\ \A u \in Tabs : PageGrown(u) /\ TabInv(u)'
  BY <1>1, <1>4, SamePages
<1>6. Knows(l)'
  BY <1>0, <1>1, <1>3 DEF Knows, KnowsAs, Shows, LoadType, None
<1> QED  BY <1>3, <1>4, <1>5, <1>6, Assembled

(* A step that ends in an error: the load is gone, and its tab keeps what it shows. *)
LEMMA RejectInv ==
  ASSUME Inv, NEW l \in Loads, load[l].pc # "free", Reject(l), UNCHANGED store
  PROVE  Inv'
<1> DEFINE t == load[l].tab
<1>0. t \in Tabs
  BY LoadTypes DEF Knows, KnowsAs, Shows
<1>1. load' = [load EXCEPT ![l] = NoLoad]
  BY DEF Reject
<1>2. load' \in [Loads -> LoadType] /\ load'[l] = NoLoad /\ \A k \in Loads : k # l => load'[k] = load[k]
  BY <1>1, LoadTypes DEF Inv, Types
<1>3. StoreType' /\ StoreInv' /\ StoreGrown
  BY SameStore
<1>4. page' \in [Tabs -> PageType] /\ \A u \in Tabs : PageGrown(u) /\ TabInv(u)'
  <2>1. page' = [page EXCEPT ![t] = [page[t] EXCEPT !.loading = FALSE, !.error = TRUE]]
    BY DEF Reject, Tab
  <2>2. [page[t] EXCEPT !.loading = FALSE, !.error = TRUE] \in PageType
    <3>1. page[t] \in PageType
      BY <1>0 DEF Inv, Types
    <3> QED  BY <3>1 DEF PageType
  <2> QED  BY <1>0, <2>1, <2>2 DEF Inv, Types, PageType, TabInv, PageGrown, store
<1>5. Knows(l)'
  BY <1>2 DEF Knows, KnowsAs, Shows, NoLoad, None
<1> QED  BY <1>2, <1>3, <1>4, <1>5, Assembled

LEMMA AskRegisteredInv ==
  ASSUME Inv, NEW l \in Loads, AskRegistered(l)
  PROVE  Inv'
<1>0. load[l] \in LoadType /\ Knows(l) /\ load[l].pc = "registered?" /\ UNCHANGED store
  BY LoadTypes DEF AskRegistered
<1>1. CASE registered
  BY <1>0, <1>1, RejectInv DEF AskRegistered
<1>2. CASE ~registered
  <2> DEFINE rec == [load[l] EXCEPT !.pc = "register"]
  <2>1. load' = [load EXCEPT ![l] = rec] /\ page' = page
    BY <1>2 DEF AskRegistered, Go
  <2>2. rec \in LoadType
    BY <1>0 DEF LoadType
  <2>3. load' \in [Loads -> LoadType] /\ load'[l] = rec /\ \A k \in Loads : k # l => load'[k] = load[k]
    BY <2>1, <2>2 DEF Inv, Types
  <2>4. StoreType' /\ StoreInv' /\ StoreGrown
    BY <1>0, SameStore
  <2>5. page' \in [Tabs -> PageType] /\ \A u \in Tabs : PageGrown(u) /\ TabInv(u)'
    BY <2>1, <2>4, SamePages
  <2>6. Knows(l)'
    BY <1>0, <2>1, <2>3 DEF Knows, KnowsAs, Shows, LoadType, None, store
  <2> QED  BY <2>3, <2>4, <2>5, <2>6, Assembled
<1> QED  BY <1>1, <1>2

LEMMA RelistNamespacesInv ==
  ASSUME Inv, NEW l \in Loads, RelistNamespaces(l)
  PROVE  Inv'
<1> DEFINE rec == Parallel([load[l] EXCEPT !.known = registered])
<1>0. load[l] \in LoadType /\ Knows(l) /\ load[l].pc = "relist" /\ registered = TRUE
  BY LoadTypes DEF RelistNamespaces, Knows, KnowsAs, Shows, Inv, Types, StoreType
<1>1. load' = [load EXCEPT ![l] = rec] /\ UNCHANGED <<store, page>>
  BY DEF RelistNamespaces
<1>2. /\ rec \in LoadType /\ rec.tab = load[l].tab
      /\ rec.pc = "parallel" /\ rec.known = TRUE /\ rec.schema = "asked" /\ rec.chain = "ensure"
  BY <1>0 DEF LoadType, Parallel
<1>3. load' \in [Loads -> LoadType] /\ load'[l] = rec /\ \A k \in Loads : k # l => load'[k] = load[k]
  <2> HIDE DEF rec
  <2> QED  BY <1>1, <1>2 DEF Inv, Types
<1>4. StoreType' /\ StoreInv' /\ StoreGrown
  BY <1>1, SameStore
<1>5. page' \in [Tabs -> PageType] /\ \A u \in Tabs : PageGrown(u) /\ TabInv(u)'
  BY <1>1, <1>4, SamePages
<1>6. Knows(l)'
  <2> HIDE DEF rec
  <2> QED  BY <1>0, <1>1, <1>2, <1>3 DEF Knows, KnowsAs, Shows, None, store
<1> QED  BY <1>3, <1>4, <1>5, <1>6, Assembled

(***************************************************************************)
(* The last stage: the schema and the chain of the workspace.              *)
(***************************************************************************)
LEMMA InParallel ==
  ASSUME Inv, NEW l \in Loads, load[l].schema # None \/ load[l].chain # None
  PROVE  load[l].pc = "parallel" /\ load[l].tab \in Tabs /\ load[l].known /\ registered /\ copied = Legacy
  BY LoadTypes DEF Knows, KnowsAs, Shows, Inv, StoreInv

(* A step of the chain that leaves store and page as they are. *)
LEMMA ChainInv ==
  ASSUME Inv, NEW l \in Loads, UNCHANGED <<store, page>>,
         NEW rec \in LoadType, load' = [load EXCEPT ![l] = rec],
         KnowsAs(rec), Shows(rec, page[rec.tab])
  PROVE  Inv'
<1>1. load' \in [Loads -> LoadType] /\ load'[l] = rec /\ \A k \in Loads : k # l => load'[k] = load[k]
  BY DEF Inv, Types
<1>2. StoreType' /\ StoreInv' /\ StoreGrown
  BY SameStore
<1>3. page' \in [Tabs -> PageType] /\ \A u \in Tabs : PageGrown(u) /\ TabInv(u)'
  BY <1>2, SamePages
<1>4. Knows(l)'
  BY <1>1 DEF Knows, KnowsAs, Shows, store, Members, Rest
<1> QED  BY <1>1, <1>2, <1>3, <1>4, Assembled

(* What a side of the last stage does to the page: whatever is drawn is whole. *)
LEMMA ApplyInv ==
  ASSUME Inv, NEW l \in Loads, load[l].pc = "parallel", UNCHANGED store,
         NEW rec \in LoadType, rec.tab = load[l].tab, KnowsAs(rec),
         NEW screen \in PageType, Shows(rec, screen),
         LET old == page[load[l].tab]
         IN  /\ screen.listed = old.listed /\ screen.ensured = old.ensured
             /\ screen.active = old.active
             /\ screen.drawn = old.drawn /\ screen.canvas = old.canvas
             /\ screen.members = old.members \/ screen.members = Legacy,
         Apply(l, rec, screen)
  PROVE  Inv'
<1> DEFINE t == load[l].tab
<1>0. t \in Tabs /\ NoLoad \in LoadType /\ page[t] \in PageType
  <2>1. t \in Tabs
    BY LoadTypes DEF Knows, KnowsAs
  <2> QED  BY <2>1, LoadTypes DEF Inv, Types
<1>1. StoreType' /\ StoreInv' /\ StoreGrown
  BY SameStore
<1>2. CASE rec.schema = "read" /\ rec.chain = "done"
  <2> DEFINE drawn == [screen EXCEPT !.drawn = TRUE, !.canvas = rec.data, !.loading = FALSE]
  <2>1. load' = [load EXCEPT ![l] = NoLoad] /\ page' = [page EXCEPT ![t] = drawn]
    BY <1>2 DEF Apply, Tab
  <2>2. rec.data = Legacy
    BY <1>2 DEF KnowsAs
  <2>3. drawn \in PageType /\ drawn.canvas = Legacy /\ drawn.members = screen.members
        /\ drawn.active = screen.active /\ drawn.listed = screen.listed /\ drawn.ensured = screen.ensured
    BY <2>2 DEF PageType
  <2>4. drawn.active /\ drawn.listed /\ drawn.members = Legacy
    BY <1>2, <2>3 DEF Shows
  <2>5. load' \in [Loads -> LoadType] /\ load'[l] = NoLoad /\ \A k \in Loads : k # l => load'[k] = load[k]
    BY <1>0, <2>1 DEF Inv, Types
  <2>6. page' \in [Tabs -> PageType] /\ \A u \in Tabs : PageGrown(u) /\ TabInv(u)'
    <3> HIDE DEF drawn
    <3> QED  BY <1>0, <2>1, <2>3, <2>4 DEF Inv, Types, TabInv, PageGrown, store
  <2>7. Knows(l)'
    BY <2>5 DEF Knows, KnowsAs, Shows, NoLoad, None
  <2> QED  BY <1>1, <2>5, <2>6, <2>7, Assembled
<1>3. CASE ~(rec.schema = "read" /\ rec.chain = "done")
  <2>1. PICK next \in {rec, NoLoad} : load' = [load EXCEPT ![l] = next] /\ page' = [page EXCEPT ![t] = screen]
    BY <1>3 DEF Apply, Tab
  <2>2. load' \in [Loads -> LoadType] /\ load'[l] = next /\ \A k \in Loads : k # l => load'[k] = load[k]
    BY <1>0, <2>1 DEF Inv, Types
  <2>3. page' \in [Tabs -> PageType] /\ \A u \in Tabs : PageGrown(u) /\ TabInv(u)'
    BY <1>0, <2>1 DEF Inv, Types, TabInv, PageGrown, store
  <2>4. Knows(l)'
    <3>1. CASE next = NoLoad
      BY <2>2, <3>1 DEF Knows, KnowsAs, Shows, NoLoad, None
    <3>2. CASE next = rec
      <4>1. page'[rec.tab] = screen
        BY <1>0, <2>1 DEF Inv, Types
      <4> QED  BY <2>2, <3>2, <4>1 DEF Knows, KnowsAs, Shows, store, Members, Rest
    <3> QED  BY <3>1, <3>2
  <2> QED  BY <1>1, <2>2, <2>3, <2>4, Assembled
<1> QED  BY <1>2, <1>3

LEMMA FetchSchemaInv ==
  ASSUME Inv, NEW l \in Loads, FetchSchema(l)
  PROVE  Inv'
<1> DEFINE rec == [load[l] EXCEPT !.schema = "read", !.data = IF load[l].known THEN copied ELSE {}]
<1>1. load[l] \in LoadType /\ Knows(l) /\ load[l].schema = "asked" /\ UNCHANGED store
  BY LoadTypes DEF FetchSchema
<1>2. load[l].pc = "parallel" /\ load[l].tab \in Tabs /\ load[l].known /\ copied = Legacy
  BY <1>1, InParallel DEF None
<1>3. rec \in LoadType /\ rec.tab = load[l].tab /\ rec.data = Legacy
  BY <1>1, <1>2 DEF LoadType
<1>4. KnowsAs(rec) /\ Shows(rec, page[load[l].tab])
  BY <1>1, <1>2, <1>3 DEF Knows, KnowsAs, Shows, Rest, LoadType
<1>5. page[load[l].tab] \in PageType
  BY <1>2 DEF Inv, Types
<1>6. Apply(l, rec, page[load[l].tab])
  BY DEF FetchSchema, Tab
<1> HIDE DEF rec
<1> QED  BY <1>1, <1>2, <1>3, <1>4, <1>5, <1>6, ApplyInv

LEMMA ReloadLayoutInv ==
  ASSUME Inv, NEW l \in Loads, ReloadLayout(l)
  PROVE  Inv'
<1> DEFINE rec == [load[l] EXCEPT !.chain = "done"]
           screen == [page[load[l].tab] EXCEPT !.members = Members]
<1>1. load[l] \in LoadType /\ Knows(l) /\ load[l].chain = "layout" /\ UNCHANGED store
  BY LoadTypes DEF ReloadLayout
<1>2. load[l].pc = "parallel" /\ load[l].tab \in Tabs
  BY <1>1, InParallel DEF None
<1>3. Members = Legacy /\ complete
  BY <1>1 DEF Knows, KnowsAs, Inv, StoreInv
<1>4. rec \in LoadType /\ rec.tab = load[l].tab
  BY <1>1 DEF LoadType
<1>5. page[load[l].tab] \in PageType
  BY <1>2 DEF Inv, Types
<1>6. screen \in PageType /\ screen.members = Legacy
  BY <1>3, <1>5 DEF PageType
<1>7. LET old == page[load[l].tab]
      IN  /\ screen.listed = old.listed /\ screen.ensured = old.ensured
          /\ screen.active = old.active
          /\ screen.drawn = old.drawn /\ screen.canvas = old.canvas
  BY <1>5 DEF PageType
<1>8. KnowsAs(rec) /\ Shows(rec, screen)
  BY <1>1, <1>2, <1>3, <1>4, <1>6, <1>7 DEF Knows, KnowsAs, Shows, Rest, LoadType
<1>9. Apply(l, rec, screen)
  BY DEF ReloadLayout, Tab
<1> HIDE DEF rec, screen
<1> QED  BY <1>1, <1>2, <1>4, <1>6, <1>7, <1>8, <1>9, ApplyInv

LEMMA FailInv ==
  ASSUME Inv, NEW l \in Loads, Fail(l)
  PROVE  Inv'
<1>1. load[l] \in LoadType /\ Knows(l) /\ UNCHANGED store /\ load[l] # NoLoad
  BY LoadTypes DEF Fail
<1>2. load[l].pc # "free"
  BY <1>1 DEF Knows, KnowsAs
<1>3. CASE load[l].pc # "parallel" /\ Reject(l)
  BY <1>1, <1>2, <1>3, RejectInv
<1>4. ASSUME NEW rec \in LoadType, FailSide(l, rec), rec.tab = load[l].tab,
             load[l].pc = "parallel", KnowsAs(rec), Shows(rec, page[load[l].tab])
      PROVE  Inv'
  <2>1. page[load[l].tab] \in PageType
    <3>1. load[l].tab \in Tabs
      BY <1>1, <1>2 DEF Knows, KnowsAs
    <3> QED  BY <3>1 DEF Inv, Types
  <2> DEFINE old == page[load[l].tab]
             rejected == [old EXCEPT !.loading = FALSE, !.error = TRUE]
  <2>2. /\ rejected \in PageType
        /\ rejected.listed = old.listed /\ rejected.ensured = old.ensured
        /\ rejected.active = old.active /\ rejected.members = old.members
        /\ rejected.drawn = old.drawn /\ rejected.canvas = old.canvas
    BY <2>1 DEF PageType
  <2>3. Shows(rec, rejected)
    BY <1>4, <2>2 DEF Shows
  <2>4. Apply(l, rec, old) \/ Apply(l, rec, rejected)
    BY <1>4 DEF FailSide, Tab
  <2> HIDE DEF old, rejected
  <2>5. old = page[load[l].tab]
    BY DEF old
  <2>6. CASE Apply(l, rec, old)
    BY <1>1, <1>4, <2>1, <2>5, <2>6, ApplyInv
  <2>7. CASE Apply(l, rec, rejected)
    BY <1>1, <1>4, <2>2, <2>3, <2>5, <2>7, ApplyInv
  <2> QED  BY <2>4, <2>6, <2>7
<1>5. CASE load[l].schema = "asked" /\ FailSide(l, [load[l] EXCEPT !.schema = "failed"])
  <2> DEFINE rec == [load[l] EXCEPT !.schema = "failed"]
  <2>1. load[l].pc = "parallel" /\ load[l].tab \in Tabs
    BY <1>5, InParallel DEF None
  <2>2. rec \in LoadType /\ rec.tab = load[l].tab
    BY <1>1 DEF LoadType
  <2>3. KnowsAs(rec) /\ Shows(rec, page[load[l].tab])
    BY <1>1, <2>1 DEF Knows, KnowsAs, Shows, Rest, LoadType
  <2> HIDE DEF rec
  <2>4. FailSide(l, rec)
    BY <1>5 DEF rec
  <2> QED  BY <1>4, <2>1, <2>2, <2>3, <2>4
<1>6. CASE load[l].chain \notin {None, "done", "failed"} /\ FailSide(l, [load[l] EXCEPT !.chain = "failed"])
  <2> DEFINE rec == [load[l] EXCEPT !.chain = "failed"]
  <2>1. load[l].pc = "parallel" /\ load[l].tab \in Tabs
    BY <1>6, InParallel
  <2>2. rec \in LoadType /\ rec.tab = load[l].tab
    BY <1>1 DEF LoadType
  <2>3. KnowsAs(rec) /\ Shows(rec, page[load[l].tab])
    BY <1>1, <2>1 DEF Knows, KnowsAs, Shows, Rest, LoadType
  <2> HIDE DEF rec
  <2>4. FailSide(l, rec)
    BY <1>6 DEF rec
  <2> QED  BY <1>4, <2>1, <2>2, <2>3, <2>4
<1> QED  BY <1>3, <1>5, <1>6 DEF Fail

(***************************************************************************)
(* The chain of the Default workspace.                                     *)
(***************************************************************************)
LEMMA ChainTypes ==
  ASSUME Inv, NEW l \in Loads, load[l].chain # None,
         NEW next \in {"workspace?", "create", "backfill", "insert", "mark", "relist", "layout"}
  PROVE  LET rec == [load[l] EXCEPT !.chain = next]
         IN  /\ rec \in LoadType /\ rec.chain = next /\ rec.tab = load[l].tab
             /\ rec.pc = "parallel" /\ rec.known /\ rec.schema = load[l].schema
             /\ rec.data = load[l].data /\ rec.todo = load[l].todo /\ Rest(rec) = Rest(load[l])
<1>1. load[l] \in LoadType /\ load[l].pc = "parallel" /\ load[l].known
  BY LoadTypes, InParallel
<1> QED  BY <1>1 DEF LoadType, Rest

(* ensureDefaultWorkspace has returned, in a store where the backfill is complete. *)
LEMMA EnsuredInv ==
  ASSUME Inv, NEW l \in Loads, load[l].chain # None, Ensured(l),
         StoreType', StoreInv', StoreGrown, complete',
         UNCHANGED <<registered, copied, workspace, positions>>
  PROVE  Inv'
<1> DEFINE t == load[l].tab
           next == IF page[t].listed THEN "layout" ELSE "relist"
           rec == [load[l] EXCEPT !.chain = next]
           screen == [page[t] EXCEPT !.ensured = TRUE, !.active = page[t].active \/ page[t].listed]
<1>0. t \in Tabs /\ page[t] \in PageType /\ load[l] \in LoadType /\ Knows(l)
  <2>1. t \in Tabs
    BY InParallel
  <2> QED  BY <2>1, LoadTypes DEF Inv, Types
<1>1. load' = [load EXCEPT ![l] = rec] /\ page' = [page EXCEPT ![t] = screen]
  BY DEF Ensured, Chain, Tab
<1>2. /\ rec \in LoadType /\ rec.chain = next /\ rec.tab = t
      /\ rec.pc = "parallel" /\ rec.known /\ rec.schema = load[l].schema
      /\ rec.data = load[l].data
  <2>1. next \in {"workspace?", "create", "backfill", "insert", "mark", "relist", "layout"}
    OBVIOUS
  <2>2. load[l].pc = "parallel" /\ load[l].known
    BY InParallel
  <2> HIDE DEF next
  <2> QED  BY <1>0, <2>1, <2>2 DEF LoadType
<1>3. /\ screen \in PageType /\ screen.ensured /\ screen.listed = page[t].listed
      /\ screen.active = (page[t].active \/ page[t].listed) /\ screen.members = page[t].members
      /\ screen.drawn = page[t].drawn /\ screen.canvas = page[t].canvas
  BY <1>0 DEF PageType
<1>4. load' \in [Loads -> LoadType] /\ load'[l] = rec /\ \A k \in Loads : k # l => load'[k] = load[k]
  <2> HIDE DEF rec
  <2> QED  BY <1>1, <1>2 DEF Inv, Types
<1>5. page' \in [Tabs -> PageType] /\ page'[t] = screen /\ \A u \in Tabs : PageGrown(u) /\ TabInv(u)'
  <2> HIDE DEF screen
  <2> QED  BY <1>0, <1>1, <1>3 DEF Inv, Types, TabInv, PageGrown
<1>6. Knows(l)'
  <2> HIDE DEF rec, screen
  <2> QED  BY <1>0, <1>2, <1>3, <1>4, <1>5 DEF Knows, KnowsAs, Shows, None
<1> QED  BY <1>4, <1>5, <1>6, Assembled

LEMMA AskCompleteInv ==
  ASSUME Inv, NEW l \in Loads, AskComplete(l)
  PROVE  Inv'
<1>1. load[l].chain = "ensure" /\ load[l].chain # None /\ UNCHANGED store /\ Knows(l)
      /\ load[l].tab \in Tabs /\ load[l].pc = "parallel"
  BY LoadTypes, InParallel DEF AskComplete, None
<1>2. CASE page[load[l].tab].ensured \/ complete
  <2>1. complete /\ Ensured(l)
    BY <1>1, <1>2 DEF Inv, TabInv, AskComplete, Tab
  <2>2. StoreType' /\ StoreInv' /\ StoreGrown
    BY <1>1, SameStore
  <2> QED  BY <1>1, <2>1, <2>2, EnsuredInv DEF store
<1>3. CASE ~(page[load[l].tab].ensured \/ complete)
  <2> DEFINE rec == [load[l] EXCEPT !.chain = "workspace?"]
  <2>1. load' = [load EXCEPT ![l] = rec] /\ UNCHANGED <<store, page>>
    BY <1>3 DEF AskComplete, Chain, Tab
  <2>2. /\ rec \in LoadType /\ rec.chain = "workspace?" /\ rec.tab = load[l].tab
        /\ rec.pc = "parallel" /\ rec.known /\ rec.schema = load[l].schema /\ rec.data = load[l].data
    BY <1>1, ChainTypes
  <2> HIDE DEF rec
  <2>3. KnowsAs(rec) /\ Shows(rec, page[rec.tab])
    BY <1>1, <2>2 DEF Knows, KnowsAs, Shows, None
  <2> QED  BY <2>1, <2>2, <2>3, ChainInv
<1> QED  BY <1>2, <1>3

LEMMA AskWorkspaceInv ==
  ASSUME Inv, NEW l \in Loads, AskWorkspace(l)
  PROVE  Inv'
<1> DEFINE next == IF workspace THEN "backfill" ELSE "create"
           rec == [load[l] EXCEPT !.chain = next]
<1>1. load[l].chain = "workspace?" /\ load[l].chain # None /\ Knows(l)
      /\ load[l].tab \in Tabs /\ load[l].pc = "parallel"
  BY LoadTypes, InParallel DEF AskWorkspace, None
<1>2. load' = [load EXCEPT ![l] = rec] /\ UNCHANGED <<store, page>>
  BY DEF AskWorkspace, Chain
<1>3. /\ rec \in LoadType /\ rec.chain = next /\ rec.tab = load[l].tab
      /\ rec.pc = "parallel" /\ rec.known /\ rec.schema = load[l].schema /\ rec.data = load[l].data
  <2>1. next \in {"backfill", "create"}
    OBVIOUS
  <2>2. load[l] \in LoadType /\ load[l].known
    BY <1>1, LoadTypes, InParallel
  <2> HIDE DEF next
  <2> QED  BY <1>1, <2>1, <2>2 DEF LoadType
<1> HIDE DEF rec
<1>4. KnowsAs(rec) /\ Shows(rec, page[rec.tab])
  BY <1>1, <1>3 DEF Knows, KnowsAs, Shows, None
<1> QED  BY <1>2, <1>3, <1>4, ChainInv

LEMMA CreateWorkspaceInv ==
  ASSUME Inv, NEW l \in Loads, CreateWorkspace(l)
  PROVE  Inv'
<1> DEFINE rec == [load[l] EXCEPT !.chain = "backfill"]
<1>1. load[l].chain = "create" /\ load[l].chain # None /\ Knows(l)
      /\ load[l].tab \in Tabs /\ load[l].pc = "parallel"
  BY LoadTypes, InParallel DEF CreateWorkspace, None
<1>2. load' = [load EXCEPT ![l] = rec] /\ workspace' = TRUE
      /\ UNCHANGED <<registered, copied, complete, positions, page>>
  BY DEF CreateWorkspace, Chain
<1>3. /\ rec \in LoadType /\ rec.chain = "backfill" /\ rec.tab = load[l].tab
      /\ rec.pc = "parallel" /\ rec.known /\ rec.schema = load[l].schema /\ rec.data = load[l].data
  BY <1>1, ChainTypes
<1> HIDE DEF rec
<1>4. load' \in [Loads -> LoadType] /\ load'[l] = rec /\ \A k \in Loads : k # l => load'[k] = load[k]
  BY <1>2, <1>3 DEF Inv, Types
<1>5. StoreType' /\ StoreInv' /\ StoreGrown
  BY <1>2 DEF Inv, Types, StoreType, StoreInv, StoreGrown, Members
<1>6. page' \in [Tabs -> PageType] /\ \A u \in Tabs : PageGrown(u) /\ TabInv(u)'
  BY <1>2, <1>5, SamePages
<1>7. Knows(l)'
  BY <1>1, <1>2, <1>3, <1>4 DEF Knows, KnowsAs, Shows, None
<1> QED  BY <1>4, <1>5, <1>6, <1>7, Assembled

LEMMA MarkCompleteInv ==
  ASSUME Inv, NEW l \in Loads, MarkComplete(l)
  PROVE  Inv'
<1>1. load[l].chain = "mark" /\ load[l].chain # None /\ Knows(l)
  BY LoadTypes DEF MarkComplete, None
<1>2. complete' = TRUE /\ Ensured(l) /\ UNCHANGED <<registered, copied, workspace, positions>>
  BY DEF MarkComplete
<1>3. Members = Legacy /\ workspace
  BY <1>1 DEF Knows, KnowsAs
<1>4. StoreType' /\ StoreInv' /\ StoreGrown
  BY <1>2, <1>3 DEF Inv, Types, StoreType, StoreInv, StoreGrown, Members
<1> QED  BY <1>1, <1>2, <1>4, EnsuredInv

LEMMA RelistWorkspacesInv ==
  ASSUME Inv, NEW l \in Loads, RelistWorkspaces(l)
  PROVE  Inv'
<1> DEFINE t == load[l].tab
           rec == [load[l] EXCEPT !.chain = "layout"]
           screen == [page[t] EXCEPT !.listed = workspace, !.active = TRUE]
<1>1. load[l].chain = "relist" /\ load[l].chain # None /\ Knows(l) /\ UNCHANGED store
      /\ t \in Tabs /\ load[l].pc = "parallel"
  BY LoadTypes, InParallel DEF RelistWorkspaces, None
<1>2. load' = [load EXCEPT ![l] = rec] /\ page' = [page EXCEPT ![t] = screen]
  BY DEF RelistWorkspaces, Chain, Tab
<1>3. /\ rec \in LoadType /\ rec.chain = "layout" /\ rec.tab = t
      /\ rec.pc = "parallel" /\ rec.known /\ rec.schema = load[l].schema /\ rec.data = load[l].data
  BY <1>1, ChainTypes
<1>4. workspace = TRUE /\ complete
  BY <1>1 DEF Knows, KnowsAs, Inv, Types, StoreType, StoreInv
<1>5. page[t] \in PageType
  BY <1>1 DEF Inv, Types
<1>6. /\ screen \in PageType /\ screen.ensured = page[t].ensured /\ screen.listed
      /\ screen.active /\ screen.members = page[t].members
      /\ screen.drawn = page[t].drawn /\ screen.canvas = page[t].canvas
  BY <1>4, <1>5 DEF PageType
<1> HIDE DEF rec, screen
<1>7. load' \in [Loads -> LoadType] /\ load'[l] = rec /\ \A k \in Loads : k # l => load'[k] = load[k]
  BY <1>2, <1>3 DEF Inv, Types
<1>8. StoreType' /\ StoreInv' /\ StoreGrown
  BY <1>1, SameStore
<1>9. page' \in [Tabs -> PageType] /\ page'[t] = screen /\ \A u \in Tabs : PageGrown(u) /\ TabInv(u)'
  BY <1>1, <1>2, <1>4, <1>6 DEF Inv, Types, TabInv, PageGrown, store
<1>10. Knows(l)'
  BY <1>1, <1>3, <1>4, <1>6, <1>7, <1>9 DEF Knows, KnowsAs, Shows, None, store
<1> QED  BY <1>7, <1>8, <1>9, <1>10, Assembled

(***************************************************************************)
(* The backfill.                                                           *)
(***************************************************************************)
LEMMA GridType ==
  ASSUME NEW S \in SUBSET Legacy, NEW order \in Orders(S)
  PROVE  /\ Grid(order) \in Seq(Item)
         /\ {Grid(order)[i].element : i \in DOMAIN Grid(order)} = S
         /\ S # {} => Grid(order) # <<>>
<1>1. /\ Cardinality(S) \in Nat /\ Cardinality(Legacy) \in Nat
      /\ Cardinality(S) <= Cardinality(Legacy)
  BY FirstRunAssumption, FS_Subset, FS_CardinalityType
<1>2. order \in [1..Cardinality(S) -> S] /\ S = {order[i] : i \in 1..Cardinality(S)}
  BY DEF Orders
<1>3. Grid(order) = [i \in 1..Cardinality(S) |-> [element |-> order[i], position |-> i]]
  BY <1>2 DEF Grid
<1>4. Grid(order) \in [1..Cardinality(S) -> Item]
  BY <1>1, <1>2, <1>3 DEF Item
<1>5. Grid(order) \in Seq(Item) /\ Len(Grid(order)) = Cardinality(S)
  BY <1>1, <1>4
<1>6. {Grid(order)[i].element : i \in DOMAIN Grid(order)} = S
  BY <1>2, <1>3
<1>7. S # {} => Grid(order) # <<>>
  BY <1>1, <1>2, <1>5
<1> QED  BY <1>5, <1>6, <1>7

LEMMA ListMissingInv ==
  ASSUME Inv, NEW l \in Loads, ListMissing(l)
  PROVE  Inv'
<1> DEFINE missing == (IF registered THEN copied ELSE {}) \ Members
           next == IF missing = {} THEN "mark" ELSE "member?"
<1>1. load[l].chain = "backfill" /\ load[l].chain # None /\ Knows(l) /\ load[l] \in LoadType
      /\ load[l].tab \in Tabs /\ load[l].pc = "parallel" /\ registered /\ copied = Legacy
  BY LoadTypes, InParallel DEF ListMissing, None
<1>2. missing = Legacy \ Members /\ missing \in SUBSET Legacy
  BY <1>1
<1>3. PICK order \in Orders(missing) :
        load' = [load EXCEPT ![l].todo = Grid(order), ![l].chain = next]
  BY DEF ListMissing
<1> DEFINE rec == [load[l] EXCEPT !.todo = Grid(order), !.chain = next]
<1>4. load' = [load EXCEPT ![l] = rec] /\ UNCHANGED <<store, page>>
  BY <1>3 DEF ListMissing
<1>5. /\ Grid(order) \in Seq(Item)
      /\ missing # {} => Grid(order) # <<>>
      /\ {Grid(order)[i].element : i \in DOMAIN Grid(order)} = missing
  <2> HIDE DEF missing
  <2> QED  BY <1>2, <1>3, GridType
<1>6. next \in {"mark", "member?"} /\ (next = "mark" <=> missing = {})
  OBVIOUS
<1> HIDE DEF missing, next
<1>7. /\ rec \in LoadType /\ rec.chain = next /\ rec.todo = Grid(order) /\ rec.tab = load[l].tab
      /\ rec.pc = "parallel" /\ rec.known = load[l].known /\ rec.schema = load[l].schema
      /\ rec.data = load[l].data
  <2> DEFINE grid == Grid(order)
  <2>1. load[l] \in LoadType /\ grid \in Seq(Item) /\ load[l].pc = "parallel"
    BY <1>1, <1>5
  <2> HIDE DEF grid
  <2>2. LET new == [load[l] EXCEPT !.todo = grid, !.chain = next]
        IN  /\ new \in LoadType /\ new.chain = next /\ new.todo = grid /\ new.tab = load[l].tab
            /\ new.pc = "parallel" /\ new.known = load[l].known /\ new.schema = load[l].schema
            /\ new.data = load[l].data
    BY <1>6, <2>1 DEF LoadType
  <2> QED  BY <2>2 DEF grid
<1> HIDE DEF rec
<1>8. Rest(rec) = missing
  BY <1>5, <1>7 DEF Rest
<1>9. missing = {} => Members = Legacy
  BY <1>2 DEF Members
<1>10. KnowsAs(rec) /\ Shows(rec, page[rec.tab])
  BY <1>1, <1>2, <1>5, <1>6, <1>7, <1>8, <1>9 DEF Knows, KnowsAs, Shows, None
<1> QED  BY <1>4, <1>7, <1>10, ChainInv

(* The head of the list has been dealt with: it is a member. *)
LEMMA Popped ==
  ASSUME NEW todo \in Seq(Item), todo # <<>>, NEW M,
         Legacy \ M \subseteq {todo[i].element : i \in DOMAIN todo},
         Head(todo).element \in M
  PROVE  /\ Tail(todo) \in Seq(Item)
         /\ Len(todo) = 1 => Legacy \subseteq M
         /\ Len(todo) # 1 => /\ Tail(todo) # <<>>
                             /\ Legacy \ M \subseteq {Tail(todo)[i].element : i \in DOMAIN Tail(todo)}
<1>1. /\ Len(todo) \in Nat /\ Len(todo) >= 1 /\ DOMAIN todo = 1..Len(todo) /\ Head(todo) = todo[1]
      /\ Tail(todo) \in Seq(Item) /\ Len(Tail(todo)) = Len(todo) - 1
      /\ DOMAIN Tail(todo) = 1..Len(todo) - 1
      /\ \A i \in 1..Len(todo) - 1 : Tail(todo)[i] = todo[i + 1]
  OBVIOUS
<1>2. ASSUME Len(todo) = 1 PROVE Legacy \subseteq M
  BY <1>1, <1>2
<1>3. ASSUME Len(todo) # 1
      PROVE  Legacy \ M \subseteq {Tail(todo)[i].element : i \in DOMAIN Tail(todo)}
  <2> SUFFICES ASSUME NEW e \in Legacy \ M
               PROVE  \E i \in DOMAIN Tail(todo) : e = Tail(todo)[i].element
    OBVIOUS
  <2>1. PICK i \in 1..Len(todo) : e = todo[i].element
    BY <1>1
  <2>2. i # 1 /\ i - 1 \in 1..Len(todo) - 1 /\ (i - 1) + 1 = i
    BY <1>1, <2>1
  <2>3. e = Tail(todo)[i - 1].element
    BY <1>1, <2>1, <2>2
  <2> QED  BY <1>1, <2>2, <2>3
<1>4. Len(todo) # 1 => Tail(todo) # <<>>
  <2> SUFFICES ASSUME Len(todo) # 1, Tail(todo) = <<>> PROVE FALSE
    OBVIOUS
  <2>1. Len(Tail(todo)) # 0
    BY <1>1
  <2>2. Len(Tail(todo)) = Len(<<>>)
    OBVIOUS
  <2>3. Len(<<>>) = 0
    OBVIOUS
  <2> QED  BY <2>1, <2>2, <2>3
<1> QED  BY <1>1, <1>2, <1>3, <1>4

LEMMA NextMissingType ==
  ASSUME Inv, NEW l \in Loads, load[l].chain \in {"member?", "insert"}
  PROVE  LET rec == NextMissing(load[l])
         IN  /\ rec \in LoadType /\ rec.todo = Tail(load[l].todo) /\ rec.tab = load[l].tab
             /\ rec.chain = IF Len(load[l].todo) = 1 THEN "mark" ELSE "member?"
             /\ rec.pc = "parallel" /\ rec.known /\ rec.schema = load[l].schema
             /\ rec.data = load[l].data
<1>1. load[l] \in LoadType /\ load[l].pc = "parallel" /\ load[l].known /\ load[l].todo # <<>>
  BY LoadTypes, InParallel DEF Knows, KnowsAs, None
<1>2. load[l].todo \in Seq(Item)
  BY <1>1 DEF LoadType
<1>3. Tail(load[l].todo) \in Seq(Item)
  BY <1>1, <1>2
<1> QED  BY <1>1, <1>3 DEF NextMissing, LoadType

LEMMA AskMemberInv ==
  ASSUME Inv, NEW l \in Loads, AskMember(l)
  PROVE  Inv'
<1>1. load[l].chain = "member?" /\ load[l].chain # None /\ Knows(l) /\ load[l] \in LoadType
      /\ load[l].tab \in Tabs /\ load[l].pc = "parallel" /\ UNCHANGED <<store, page>>
  BY LoadTypes, InParallel DEF AskMember, None
<1>2. CASE Head(load[l].todo).element \in Members
  <2> DEFINE rec == NextMissing(load[l])
  <2>1. load' = [load EXCEPT ![l] = rec]
    BY <1>2 DEF AskMember
  <2>2. /\ rec \in LoadType /\ rec.todo = Tail(load[l].todo) /\ rec.tab = load[l].tab
        /\ rec.chain = IF Len(load[l].todo) = 1 THEN "mark" ELSE "member?"
        /\ rec.pc = "parallel" /\ rec.known /\ rec.schema = load[l].schema /\ rec.data = load[l].data
    BY <1>1, NextMissingType
  <2>3. /\ load[l].todo \in Seq(Item) /\ load[l].todo # <<>>
        /\ Legacy \ Members \subseteq {load[l].todo[i].element : i \in DOMAIN load[l].todo}
    BY <1>1 DEF LoadType, Knows, KnowsAs, Rest
  <2>4. /\ Len(load[l].todo) = 1 => Legacy \subseteq Members
        /\ Len(load[l].todo) # 1 =>
             /\ Tail(load[l].todo) # <<>>
             /\ Legacy \ Members \subseteq
                  {Tail(load[l].todo)[i].element : i \in DOMAIN Tail(load[l].todo)}
    BY <1>2, <2>3, Popped
  <2> HIDE DEF rec
  <2>5. Rest(rec) = {Tail(load[l].todo)[i].element : i \in DOMAIN Tail(load[l].todo)}
    BY <2>2 DEF Rest
  <2>6. Members \subseteq Legacy
    BY DEF Members
  <2>7. KnowsAs(rec) /\ Shows(rec, page[rec.tab])
    BY <1>1, <2>2, <2>4, <2>5, <2>6 DEF Knows, KnowsAs, Shows, None
  <2> QED  BY <1>1, <2>1, <2>2, <2>7, ChainInv
<1>3. CASE Head(load[l].todo).element \notin Members
  <2> DEFINE rec == [load[l] EXCEPT !.chain = "insert"]
  <2>1. load' = [load EXCEPT ![l] = rec]
    BY <1>3 DEF AskMember
  <2>2. /\ rec \in LoadType /\ rec.chain = "insert" /\ rec.tab = load[l].tab
        /\ rec.pc = "parallel" /\ rec.known /\ rec.schema = load[l].schema /\ rec.data = load[l].data
        /\ rec.todo = load[l].todo /\ Rest(rec) = Rest(load[l])
    BY <1>1, ChainTypes
  <2> HIDE DEF rec
  <2>3. KnowsAs(rec) /\ Shows(rec, page[rec.tab])
    BY <1>1, <2>2 DEF Knows, KnowsAs, Shows, None
  <2> QED  BY <1>1, <2>1, <2>2, <2>3, ChainInv
<1> QED  BY <1>2, <1>3

LEMMA InsertMemberInv ==
  ASSUME Inv, NEW l \in Loads, InsertMember(l)
  PROVE  Inv'
<1> DEFINE rec == NextMissing(load[l])
           head == Head(load[l].todo)
<1>1. load[l].chain = "insert" /\ load[l].chain # None /\ Knows(l) /\ load[l] \in LoadType
      /\ load[l].tab \in Tabs /\ load[l].pc = "parallel"
  BY LoadTypes, InParallel DEF InsertMember, None
<1>2. /\ load' = [load EXCEPT ![l] = rec] /\ UNCHANGED <<registered, copied, workspace, complete, page>>
      /\ positions' = [positions EXCEPT ![head.element] = positions[head.element] \cup {head.position}]
  BY DEF InsertMember
<1>3. /\ rec \in LoadType /\ rec.todo = Tail(load[l].todo) /\ rec.tab = load[l].tab
      /\ rec.chain = IF Len(load[l].todo) = 1 THEN "mark" ELSE "member?"
      /\ rec.pc = "parallel" /\ rec.known /\ rec.schema = load[l].schema /\ rec.data = load[l].data
  BY <1>1, NextMissingType
<1>4. /\ load[l].todo \in Seq(Item) /\ load[l].todo # <<>> /\ head \in Item
      /\ Legacy \ Members \subseteq {load[l].todo[i].element : i \in DOMAIN load[l].todo}
  <2>1. load[l].todo \in Seq(Item) /\ load[l].todo # <<>>
    BY <1>1 DEF LoadType, Knows, KnowsAs
  <2>2. head \in Item
    BY <2>1
  <2> QED  BY <1>1, <2>1, <2>2 DEF Knows, KnowsAs, Rest
<1>5. StoreType' /\ Members' = Members \cup {head.element} /\ Members' \subseteq Legacy
  <2>1. positions' \in [Legacy -> SUBSET (1..Cardinality(Legacy))]
    BY <1>2, <1>4 DEF Inv, Types, StoreType, Item
  <2>2. Members' = Members \cup {head.element}
    BY <1>2, <1>4 DEF Inv, Types, StoreType, Item, Members
  <2> QED  BY <1>2, <2>1, <2>2 DEF Inv, Types, StoreType, Members
<1>6. StoreInv' /\ StoreGrown
  BY <1>2, <1>5 DEF Inv, StoreInv, StoreGrown, Members
<1>7. /\ Len(load[l].todo) = 1 => Legacy \subseteq Members'
      /\ Len(load[l].todo) # 1 =>
           /\ Tail(load[l].todo) # <<>>
           /\ Legacy \ Members' \subseteq
                {Tail(load[l].todo)[i].element : i \in DOMAIN Tail(load[l].todo)}
  <2>1. Legacy \ Members' \subseteq {load[l].todo[i].element : i \in DOMAIN load[l].todo}
        /\ head.element \in Members'
    BY <1>4, <1>5
  <2> QED  BY <1>4, <2>1, Popped
<1> HIDE DEF rec
<1>8. load' \in [Loads -> LoadType] /\ load'[l] = rec /\ \A k \in Loads : k # l => load'[k] = load[k]
  BY <1>2, <1>3 DEF Inv, Types
<1>9. Rest(load'[l]) = {Tail(load[l].todo)[i].element : i \in DOMAIN Tail(load[l].todo)}
  <2>1. load'[l].todo = Tail(load[l].todo)
    BY <1>3, <1>8
  <2> QED  BY <2>1 DEF Rest
<1>10. page' \in [Tabs -> PageType] /\ \A u \in Tabs : PageGrown(u) /\ TabInv(u)'
  BY <1>2, <1>6, SamePages
<1>11. Knows(l)'
  BY <1>1, <1>2, <1>3, <1>5, <1>7, <1>8, <1>9 DEF Knows, KnowsAs, Shows, None
<1> QED  BY <1>5, <1>6, <1>8, <1>10, <1>11, Assembled

(***************************************************************************)
(* The theorems.                                                           *)
(***************************************************************************)
LEMMA Inductive == Inv /\ [Next]_vars => Inv'
<1> SUFFICES ASSUME Inv, [Next]_vars PROVE Inv'
  OBVIOUS
<1>1. CASE UNCHANGED vars
  BY <1>1 DEF vars, store, Inv, Types, StoreType, StoreInv, TabInv, Knows, KnowsAs, Shows, Members, Rest
<1>2. ASSUME NEW l \in Loads, Step(l) PROVE Inv'
  BY <1>2, ReadNamespacesInv, ReadWorkspacesInv, CopyInv, AskRegisteredInv, RegisterInv,
     RelistNamespacesInv, FetchSchemaInv, AskCompleteInv, AskWorkspaceInv, CreateWorkspaceInv,
     ListMissingInv, AskMemberInv, InsertMemberInv, MarkCompleteInv, RelistWorkspacesInv,
     ReloadLayoutInv DEF Step
<1> QED  BY <1>1, <1>2, FailInv, BeginInv DEF Next

\* Every load keeps its inductive invariant beside those of the other tabs.
THEOREM InvHolds == Spec => []Inv
<1> QED  BY Initial, Inductive, PTL DEF Spec

(* The marker that ends the backfill for good is only set when every legacy element has a
   row, whatever loads work on it at once and wherever they fail. *)
THEOREM BackfillIsComplete == Spec => []MarkedIsComplete
<1>1. Inv => MarkedIsComplete
  BY DEF Inv, StoreInv, MarkedIsComplete
<1> QED  BY <1>1, InvHolds, PTL

(* The default namespace is only registered after a whole copy of the legacy graph. *)
THEOREM MigrationIsComplete == Spec => []RegisteredIsCopied
<1>1. Inv => RegisteredIsCopied
  BY DEF Inv, StoreInv, RegisteredIsCopied
<1> QED  BY <1>1, InvHolds, PTL

(* What any tab draws is whole, with its workspace active and listed. *)
THEOREM DrawnIsWhole == Spec => []CanvasIsWhole
<1>1. Inv => CanvasIsWhole
  BY DEF Inv, TabInv, CanvasIsWhole
<1> QED  BY <1>1, InvHolds, PTL
=============================================================================

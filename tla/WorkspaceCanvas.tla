-------------------------- MODULE WorkspaceCanvas --------------------------
(***************************************************************************)
(* What one canvas page does with the workspaces in GraphDB: it switches   *)
(* between them, drags, adds and removes elements, and reloads             *)
(* (routes/+page.svelte), through the store that caches one workspace's    *)
(* positions and writes them back with a delay (stores/layout-store.ts).   *)
(* The calls overlap, and are answered in any order.                       *)
(***************************************************************************)
EXTENDS Naturals, FiniteSets

CONSTANTS
  Workspaces, Elements,
  Calls,         \* the calls that may be under way at once
  MaxClicks,     \* bound on what the user does
  MaxFailures    \* bound on the calls that fail

ASSUME CanvasAssumption ==
  /\ IsFiniteSet(Calls) /\ IsFiniteSet(Elements)
  /\ MaxClicks \in Nat /\ MaxFailures \in Nat

VARIABLES
  stored,        \* the position of each element in each workspace, in GraphDB
  active,        \* activeWorkspaceIri of the page
  primed,        \* activeWorkspaceIri of the layout store
  cache,         \* its positions
  members,       \* workspaceMembers: the elements on the canvas
  notesOf,       \* the workspace whose notes are on the canvas
  loading,       \* the overlay covers the canvas
  timer,         \* the delayed write of each element
  call,          \* the calls under way
  want,          \* what the user last asked for, for each element of each workspace
  disturbed,     \* calls have overlapped, or one has failed
  clicks, failures

layout == <<primed, cache, timer>>
bounds == <<disturbed, clicks, failures>>
vars == <<stored, active, layout, members, notesOf, loading, call, want, bounds>>
-----------------------------------------------------------------------------
(* A position carries the number of the click that chose it, whether that was a drag or an
   add, and the workspace the user saw: only the properties look at these. *)
Absent == [click |-> 0, how |-> "absent", ws |-> "none"]
Old(w) == [click |-> 0, how |-> "old", ws |-> w]
Placed(how, w) == [click |-> clicks + 1, how |-> how, ws |-> w]
On(positions) == {e \in Elements : positions[e] # Absent}

NoWrite == [ws |-> "none", position |-> Absent]
NoCall == [kind |-> "none", ws |-> "none", stage |-> "none", element |-> "none", position |-> Absent,
           new |-> FALSE, notes |-> "none", data |-> [e \in Elements |-> Absent]]
Call(kind, w, stage) == [NoCall EXCEPT !.kind = kind, !.ws = w, !.stage = stage]

Init ==
  /\ \E on \in [Workspaces -> SUBSET Elements] :
       stored = [w \in Workspaces |-> [e \in Elements |-> IF e \in on[w] THEN Old(w) ELSE Absent]]
  /\ active \in Workspaces
  /\ primed = active /\ cache = stored[active]
  /\ members = On(cache)
  /\ notesOf = active
  /\ loading = FALSE
  /\ timer = [e \in Elements |-> NoWrite]
  /\ call = [c \in Calls |-> NoCall]
  /\ want = stored
  /\ disturbed = FALSE /\ clicks = 0 /\ failures = 0

\* The bounds: so many clicks, and a user with at most so many calls and timers under way,
\* where a drag replaces the timer of the element.
Busy == {c \in Calls : call[c] # NoCall}
Ticking == {e \in Elements : timer[e] # NoWrite}
Click(replaced) ==
  /\ clicks < MaxClicks /\ clicks' = clicks + 1
  /\ Cardinality(Busy) + Cardinality(Ticking \ replaced) < Cardinality(Calls)
  /\ disturbed' = (disturbed \/ Busy # {} \/ Ticking \ replaced # {})
  /\ UNCHANGED failures

\* A call of the page or of the layout store takes a free place.
Send(c, record) == call[c] = NoCall /\ call' = [call EXCEPT ![c] = record]
Stage(c, stage) == call' = [call EXCEPT ![c].stage = stage]
End(c) == call' = [call EXCEPT ![c] = NoCall]

-----------------------------------------------------------------------------
\* handleActiveWorkspaceChange: the select in the navbar is never disabled.
Switch(c, w) ==
  /\ Click({})
  /\ w # active /\ active' = w
  /\ loading' = TRUE
  /\ Send(c, Call("load", w, "sent"))
  /\ UNCHANGED <<stored, layout, members, notesOf, want>>

\* loadSchemaFromGraphDB again, for Reload and after an edit of the schema: its first requests
\* end before it reloads the layout of what is then the active workspace.
Reload(c) ==
  /\ Click({})
  /\ ~loading /\ loading' = TRUE
  /\ Send(c, Call("load", active, "lists"))
  /\ UNCHANGED <<stored, active, layout, members, notesOf, want>>

\* The notes are asked for beside the members.
ReloadLayout(c) ==
  /\ call[c].kind = "load" /\ call[c].stage = "lists"
  /\ call' = [call EXCEPT ![c].ws = active, ![c].notes = active, ![c].stage = "sent"]
  /\ UNCHANGED <<stored, active, layout, members, notesOf, loading, want, bounds>>

\* fetchWorkspaceMembers is executed.
FetchMembers(c) ==
  /\ call[c].kind = "load" /\ call[c].stage = "sent"
  /\ call' = [call EXCEPT ![c].stage = "answered", ![c].data = stored[call[c].ws]]
  /\ UNCHANGED <<stored, active, layout, members, notesOf, loading, want, bounds>>

\* GraphDbLayoutStore.reload, when the members are there: the timers stay.
Prime(w, positions) == primed' = w /\ cache' = positions /\ UNCHANGED timer

\* The page shows the members; a switch then asks for the notes of what is by now the active
\* workspace, a reload has asked already.
ShowMembers(c) ==
  /\ call[c].kind = "load" /\ call[c].stage = "answered"
  /\ Prime(call[c].ws, call[c].data)
  /\ members' = On(cache')
  /\ call' = [call EXCEPT ![c].notes = IF @ = "none" THEN active ELSE @, ![c].stage = "notes"]
  /\ UNCHANGED <<stored, active, notesOf, loading, want, bounds>>

ShowNotes(c) ==
  /\ call[c].kind = "load" /\ call[c].stage = "notes"
  /\ notesOf' = call[c].notes
  /\ loading' = FALSE
  /\ End(c)
  /\ UNCHANGED <<stored, active, layout, members, want, bounds>>

\* Mutant of SetPosition: a timer that is set keeps its first position.
SetPosition_KeepsFirst(e, p) ==
  /\ cache' = [cache EXCEPT ![e] = p]
  /\ timer' = [timer EXCEPT ![e] = IF @ = NoWrite THEN [ws |-> primed, position |-> p] ELSE @]
  /\ UNCHANGED primed

\* GraphDbLayoutStore.setPosition: the timer is one per element, whatever the workspace.
SetPosition(e, p) ==
  /\ cache' = [cache EXCEPT ![e] = p]
  /\ timer' = [timer EXCEPT ![e] = [ws |-> primed, position |-> p]]
  /\ UNCHANGED primed

\* handleNodeDragStop: a member is dragged on a canvas that is not covered.
Drag(e) ==
  /\ Click({e})
  /\ ~loading /\ e \in members
  /\ SetPosition(e, Placed("drag", primed))
  /\ want' = [want EXCEPT ![primed][e] = Placed("drag", primed)]
  /\ UNCHANGED <<stored, active, members, notesOf, loading, call>>

\* Mutant of Fire: the write goes to the workspace of the store as it is now.
Fire_Now(c, e) ==
  /\ timer[e] # NoWrite
  /\ Send(c, [Call("write", primed, "sent") EXCEPT !.element = e, !.position = timer[e].position])
  /\ timer' = [timer EXCEPT ![e] = NoWrite]
  /\ UNCHANGED <<stored, active, primed, cache, members, notesOf, loading, want, bounds>>

\* The timer of an element: nobody waits for the write, nor for an earlier one.
Fire(c, e) ==
  /\ timer[e] # NoWrite
  /\ Send(c, [Call("write", timer[e].ws, "sent") EXCEPT !.element = e, !.position = timer[e].position])
  /\ timer' = [timer EXCEPT ![e] = NoWrite]
  /\ UNCHANGED <<stored, active, primed, cache, members, notesOf, loading, want, bounds>>

\* updateWorkspaceMemberPosition: the row is replaced, or made.
Update(c) ==
  /\ call[c].kind = "write"
  /\ stored' = [stored EXCEPT ![call[c].ws][call[c].element] = call[c].position]
  /\ End(c)
  /\ UNCHANGED <<active, layout, members, notesOf, loading, want, bounds>>

\* handleAddElementToWorkspace, with a place for an element that is not on the canvas yet.
Add(c, e) ==
  /\ Click({})
  /\ Send(c, [Call("add", active, "sent") EXCEPT !.element = e, !.position = Placed("add", active),
                                                 !.new = e \notin members])
  /\ want' = IF e \in members THEN want ELSE [want EXCEPT ![active][e] = Placed("add", active)]
  /\ UNCHANGED <<stored, active, layout, members, notesOf, loading>>

\* addWorkspaceMember is executed: a member keeps its row.
InsertMember(c) ==
  /\ call[c].kind = "add" /\ call[c].stage = "sent"
  /\ stored' = [stored EXCEPT ![call[c].ws][call[c].element] = IF @ = Absent THEN call[c].position ELSE @]
  /\ Stage(c, "answered")
  /\ UNCHANGED <<active, layout, members, notesOf, loading, want, bounds>>

\* The new member joins the canvas, at its place.
ShowAdded(c) ==
  /\ call[c].kind = "add" /\ call[c].stage = "answered"
  /\ IF call[c].new
     THEN members' = members \cup {call[c].element} /\ SetPosition(call[c].element, call[c].position)
     ELSE UNCHANGED <<members, layout>>
  /\ End(c)
  /\ UNCHANGED <<stored, active, notesOf, loading, want, bounds>>

\* handleRemoveFromWorkspace, from the menu of a node.
Remove(c, e) ==
  /\ Click({})
  /\ ~loading /\ e \in members
  /\ Send(c, [Call("remove", active, "sent") EXCEPT !.element = e])
  /\ want' = [want EXCEPT ![active][e] = Absent]
  /\ UNCHANGED <<stored, active, layout, members, notesOf, loading>>

\* removeWorkspaceMember is executed.
DeleteMember(c) ==
  /\ call[c].kind = "remove" /\ call[c].stage = "sent"
  /\ stored' = [stored EXCEPT ![call[c].ws][call[c].element] = Absent]
  /\ Stage(c, "answered")
  /\ UNCHANGED <<active, layout, members, notesOf, loading, want, bounds>>

\* The element leaves the canvas; the layout store still has its position, and its timer.
HideRemoved(c) ==
  /\ call[c].kind = "remove" /\ call[c].stage = "answered"
  /\ members' = members \ {call[c].element}
  /\ End(c)
  /\ UNCHANGED <<stored, active, layout, notesOf, loading, want, bounds>>

\* `finally' of a load; a failed write is not noticed.
Failed(c) == loading' = (loading /\ call[c].kind # "load")

\* A call fails, executed or not.
Fail(c) ==
  /\ failures < MaxFailures /\ failures' = failures + 1 /\ disturbed' = TRUE
  /\ call[c] # NoCall
  /\ Failed(c)
  /\ End(c)
  /\ UNCHANGED <<stored, active, layout, members, notesOf, want, clicks>>

Proceed(c) ==
  \/ ReloadLayout(c) \/ FetchMembers(c) \/ ShowMembers(c) \/ ShowNotes(c)
  \/ Update(c) \/ InsertMember(c) \/ ShowAdded(c) \/ DeleteMember(c) \/ HideRemoved(c)

Next ==
  \/ \E c \in Calls :
       \/ Proceed(c) \/ Fail(c) \/ Reload(c)
       \/ \E w \in Workspaces : Switch(c, w)
       \/ \E e \in Elements : Fire(c, e) \/ Add(c, e) \/ Remove(c, e)
  \/ \E e \in Elements : Drag(e)

Spec == Init /\ [][Next]_vars

\* Every request is answered or fails, and every timer fires.
FairSpec ==
  /\ Spec
  /\ \A c \in Calls : WF_vars(Proceed(c))
  /\ \A e \in Elements : WF_vars(\E c \in Calls : Fire(c, e))
-----------------------------------------------------------------------------
Position == [click : 0..MaxClicks, how : {"absent", "old", "drag", "add"}, ws : Workspaces \cup {"none"}]

\* Types: every variable stays in its domain, and what is written is a position.
TypeOK ==
  /\ stored \in [Workspaces -> [Elements -> Position]] /\ want \in [Workspaces -> [Elements -> Position]]
  /\ active \in Workspaces /\ primed \in Workspaces /\ notesOf \in Workspaces
  /\ cache \in [Elements -> Position]
  /\ members \subseteq Elements
  /\ loading \in BOOLEAN
  /\ timer \in [Elements -> [ws : Workspaces \cup {"none"}, position : Position]]
  /\ call \in [Calls -> [kind : {"none", "load", "write", "add", "remove"}, ws : Workspaces \cup {"none"},
                         stage : {"none", "lists", "sent", "answered", "notes"},
                         element : Elements \cup {"none"}, position : Position, new : BOOLEAN,
                         notes : Workspaces \cup {"none"}, data : [Elements -> Position]]]
  /\ \A c \in Calls : call[c].kind = "write" => call[c].position # Absent
  /\ disturbed \in BOOLEAN /\ clicks \in 0..MaxClicks /\ failures \in 0..MaxFailures

\* A drag is only ever written to the workspace the user saw when dragging, however many
\* switches happen before its timer fires and before its write is executed.
DragsStayInWorkspace ==
  \A w \in Workspaces, e \in Elements : stored[w][e].how = "drag" => stored[w][e].ws = w

\* The overlay goes away, also when calls fail and switches overlap.
OverlayEnds == loading ~> ~loading

Quiet == Busy = {} /\ Ticking = {}
Settled == Quiet /\ ~disturbed

\* One call after the other, what is stored is what the user asked for last: drags kept, added
\* and removed in the workspace that was active, and nothing else moved.
StoreFollowsUser == Settled => stored = want

\* One call after the other, the canvas shows the active workspace as it is stored.
CanvasFollowsStore ==
  Settled => /\ primed = active /\ notesOf = active
             /\ members = On(stored[active])
             /\ \A e \in members : cache[e] = stored[active][e]

\* Both at once, the user's last word in the store and the store on the canvas: as long as calls
\* do not overlap, a switch, a drag, an addition or a removal gets through to either.
CallsInTurnAgree == StoreFollowsUser /\ CanvasFollowsStore

\* The navbar says of the active workspace: `which diagram is shown on the canvas'.  When all
\* calls have ended, the canvas shows the members and the notes of that workspace.
CanvasShowsActive == Quiet => primed = active /\ notesOf = active

\* The layout store says that rearranging a diagram is reflected everywhere: when all calls have
\* ended, an element that is still in the workspace is stored where it was dragged to last.
DragsAreKept ==
  Quiet => \A w \in Workspaces, e \in Elements :
             want[w][e].how = "drag" /\ stored[w][e] # Absent => stored[w][e] = want[w][e]

\* The documentation says that `Remove from workspace' removes the node from the workspace: when
\* all calls have ended it is not there.
RemovedStaysRemoved ==
  Quiet => \A w \in Workspaces, e \in Elements : want[w][e] = Absent => stored[w][e] = Absent

\* handleAddElementToWorkspace `joins an existing class to the active workspace': an element added
\* to one workspace gets a row in that one only.
AddedWhereAsked ==
  \A w \in Workspaces, e \in Elements : stored[w][e].how = "add" => stored[w][e].ws = w
=============================================================================

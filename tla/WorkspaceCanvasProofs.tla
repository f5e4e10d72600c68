----------------------- MODULE WorkspaceCanvasProofs -----------------------
(***************************************************************************)
(* Proofs about WorkspaceCanvas, for any workspaces, elements and calls:   *)
(* however switches, drags, adds, removals and delayed writes overlap, no  *)
(* drag reaches another workspace than the one it was made in; and while   *)
(* they come one after the other, user, store and canvas agree.            *)
(***************************************************************************)
EXTENDS WorkspaceCanvas, TLAPS

CallType ==
  [kind : {"none", "load", "write", "add", "remove"}, ws : Workspaces \cup {"none"},
   stage : {"none", "lists", "sent", "answered", "notes"},
   element : Elements \cup {"none"}, position : Position, new : BOOLEAN,
   notes : Workspaces \cup {"none"}, data : [Elements -> Position]]

TimerType == [ws : Workspaces \cup {"none"}, position : Position]

(***************************************************************************)
(* The inductive invariant.  Where a drag is stored is decided long before *)
(* it is stored: by the timer it waits in, and then by the call that       *)
(* writes it, which both have to carry the workspace of the drag.          *)
(***************************************************************************)
CallInv(rec) ==
  /\ rec.kind # "none" => rec.ws \in Workspaces
  /\ rec.kind = "load" /\ rec.stage = "notes" => rec.notes \in Workspaces
  /\ rec.kind \in {"write", "add", "remove"} => rec.element \in Elements
  /\ rec.kind \in {"write", "add"} => rec.position # Absent
  /\ rec.kind = "write" /\ rec.position.how = "drag" => rec.position.ws = rec.ws
  /\ rec.kind = "add" => rec.position.how = "add"

TimerInv(write) ==
  write # NoWrite =>
    /\ write.ws \in Workspaces
    /\ write.position # Absent
    /\ write.position.how = "drag" => write.position.ws = write.ws

Inv ==
  /\ TypeOK
  /\ DragsStayInWorkspace
  /\ \A c \in Calls : CallInv(call[c])
  /\ \A e \in Elements : TimerInv(timer[e])

LEMMA AbsentType == Absent \in Position /\ NoWrite \in TimerType /\ NoCall \in CallType
<1>1. 0 \in 0..MaxClicks
  BY CanvasAssumption
<1>2. Absent \in Position
  BY <1>1 DEF Absent, Position
<1>3. [e \in Elements |-> Absent] \in [Elements -> Position]
  BY <1>2
<1> QED  BY <1>2, <1>3 DEF NoWrite, TimerType, NoCall, CallType

LEMMA Initial == Init => Inv
<1> SUFFICES ASSUME Init PROVE Inv
  OBVIOUS
<1>1. PICK on \in [Workspaces -> SUBSET Elements] :
        stored = [w \in Workspaces |-> [e \in Elements |-> IF e \in on[w] THEN Old(w) ELSE Absent]]
  BY DEF Init
<1>2. \A w \in Workspaces : Old(w) \in Position /\ Old(w).how = "old"
  <2>1. 0 \in 0..MaxClicks
    BY CanvasAssumption
  <2> QED  BY <2>1 DEF Old, Position
<1>3. stored \in [Workspaces -> [Elements -> Position]]
  BY <1>1, <1>2, AbsentType
<1>4. DragsStayInWorkspace
  BY <1>1, <1>2 DEF DragsStayInWorkspace, Absent
<1>5. timer \in [Elements -> TimerType] /\ call \in [Calls -> CallType]
  BY AbsentType DEF Init
<1>6. \A c \in Calls : CallInv(call[c])
  BY DEF Init, CallInv, NoCall
<1>7. \A e \in Elements : TimerInv(timer[e])
  BY DEF Init, TimerInv
<1>8. TypeOK
  <2>1. active \in Workspaces /\ cache \in [Elements -> Position] /\ members \subseteq Elements
    BY <1>3 DEF Init, On
  <2>2. clicks \in 0..MaxClicks /\ failures \in 0..MaxFailures
    BY CanvasAssumption DEF Init
  <2>3. \A c \in Calls : call[c].kind = "write" => call[c].position # Absent
    BY <1>6 DEF CallInv
  <2> QED  BY <1>3, <1>5, <2>1, <2>2, <2>3 DEF Init, TypeOK, CallType, TimerType
<1> QED  BY <1>4, <1>6, <1>7, <1>8 DEF Inv

(***************************************************************************)
(* What a step leaves as it was, or changes in one place.                  *)
(***************************************************************************)
StoredOK == stored \in [Workspaces -> [Elements -> Position]] /\ DragsStayInWorkspace

TimersOK == timer \in [Elements -> TimerType] /\ \A e \in Elements : TimerInv(timer[e])

CallsOK == call \in [Calls -> CallType] /\ \A c \in Calls : CallInv(call[c])

PageOK ==
  /\ want \in [Workspaces -> [Elements -> Position]]
  /\ active \in Workspaces /\ primed \in Workspaces /\ notesOf \in Workspaces
  /\ cache \in [Elements -> Position]
  /\ members \subseteq Elements
  /\ loading \in BOOLEAN

BoundsOK == disturbed \in BOOLEAN /\ clicks \in 0..MaxClicks /\ failures \in 0..MaxFailures

LEMMA Parts == Inv <=> StoredOK /\ TimersOK /\ CallsOK /\ PageOK /\ BoundsOK
  BY DEF Inv, TypeOK, StoredOK, TimersOK, CallsOK, PageOK, BoundsOK, CallType, TimerType, CallInv

LEMMA Together == ASSUME StoredOK', TimersOK', CallsOK', PageOK', BoundsOK' PROVE Inv'
  BY DEF Inv, TypeOK, StoredOK, TimersOK, CallsOK, PageOK, BoundsOK, CallType, TimerType, CallInv

LEMMA SameParts ==
  ASSUME Inv
  PROVE  /\ UNCHANGED stored => StoredOK'
         /\ UNCHANGED timer => TimersOK'
         /\ UNCHANGED call => CallsOK'
         /\ UNCHANGED <<want, active, primed, notesOf, cache, members, loading>> => PageOK'
         /\ UNCHANGED bounds => BoundsOK'
<1>1. StoredOK /\ TimersOK /\ CallsOK /\ PageOK /\ BoundsOK
  BY Parts
<1>2. UNCHANGED stored => StoredOK'
  BY <1>1 DEF StoredOK, DragsStayInWorkspace
<1>3. UNCHANGED timer => TimersOK'
  BY <1>1 DEF TimersOK
<1>4. UNCHANGED call => CallsOK'
  BY <1>1 DEF CallsOK
<1>5. UNCHANGED <<want, active, primed, notesOf, cache, members, loading>> => PageOK'
  BY <1>1 DEF PageOK
<1>6. UNCHANGED bounds => BoundsOK'
  BY <1>1 DEF BoundsOK, bounds
<1> QED  BY <1>2, <1>3, <1>4, <1>5, <1>6

LEMMA Clicked ==
  ASSUME Inv, NEW S, Click(S)
  PROVE  BoundsOK' /\ clicks + 1 \in 0..MaxClicks
<1>1. clicks \in 0..MaxClicks /\ clicks < MaxClicks /\ clicks' = clicks + 1 /\ MaxClicks \in Nat
  BY CanvasAssumption DEF Click, Inv, TypeOK
<1>2. disturbed' \in BOOLEAN /\ failures' \in 0..MaxFailures
  BY DEF Click, Inv, TypeOK
<1> QED  BY <1>1, <1>2 DEF BoundsOK

LEMMA Placing ==
  ASSUME clicks + 1 \in 0..MaxClicks, NEW how \in {"drag", "add"}, NEW w \in Workspaces
  PROVE  LET p == Placed(how, w)
         IN  p \in Position /\ p.how = how /\ p.ws = w /\ p # Absent
  BY DEF Placed, Position, Absent

LEMMA OneCall ==
  ASSUME Inv, NEW c \in Calls, NEW rec \in CallType, CallInv(rec), call' = [call EXCEPT ![c] = rec]
  PROVE  CallsOK'
  BY DEF Inv, TypeOK, CallsOK, CallType

LEMMA Ended ==
  ASSUME Inv, NEW c \in Calls, End(c)
  PROVE  CallsOK'
<1>1. CallInv(NoCall)
  BY DEF CallInv, NoCall
<1> QED  BY <1>1, AbsentType, OneCall DEF End

LEMMA Staged ==
  ASSUME Inv, NEW c \in Calls, NEW stage \in {"none", "lists", "sent", "answered"}, Stage(c, stage)
  PROVE  CallsOK'
<1>1. call[c] \in CallType /\ CallInv(call[c])
  BY DEF Inv, TypeOK, CallType
<1>2. LET rec == [call[c] EXCEPT !.stage = stage] IN rec \in CallType /\ CallInv(rec)
  BY <1>1 DEF CallType, CallInv
<1> QED  BY <1>2, OneCall DEF Stage

LEMMA SendType ==
  ASSUME NEW kind \in {"load", "write", "add", "remove"}, NEW w \in Workspaces,
         NEW stage \in {"lists", "sent"}
  PROVE  LET rec == Call(kind, w, stage)
         IN  rec \in CallType /\ rec.kind = kind /\ rec.ws = w /\ rec.stage = stage
  BY AbsentType DEF Call, NoCall, CallType

LEMMA OneStored ==
  ASSUME Inv, NEW w \in Workspaces, NEW e \in Elements, NEW p \in Position,
         p.how = "drag" => p.ws = w,
         stored' = [stored EXCEPT ![w][e] = p]
  PROVE  StoredOK'
  BY DEF Inv, TypeOK, StoredOK, DragsStayInWorkspace

LEMMA Setting ==
  ASSUME Inv, NEW e \in Elements, NEW p \in Position, p # Absent, SetPosition(e, p),
         p.how = "drag" => p.ws = primed
  PROVE  TimersOK' /\ cache' \in [Elements -> Position] /\ primed' \in Workspaces
<1> DEFINE write == [ws |-> primed, position |-> p]
<1>1. timer' = [timer EXCEPT ![e] = write] /\ cache' = [cache EXCEPT ![e] = p] /\ primed' = primed
  BY DEF SetPosition
<1>2. primed \in Workspaces /\ timer \in [Elements -> TimerType]
      /\ \A d \in Elements : TimerInv(timer[d])
  BY DEF Inv, TypeOK, TimerType
<1>3. write \in TimerType /\ TimerInv(write)
  BY <1>2 DEF TimerType, TimerInv
<1>4. cache' \in [Elements -> Position]
  BY <1>1 DEF Inv, TypeOK
<1> HIDE DEF write
<1> QED  BY <1>1, <1>2, <1>3, <1>4 DEF TimersOK

(***************************************************************************)
(* The steps.                                                              *)
(***************************************************************************)
LEMMA Calling ==
  ASSUME Inv, NEW c \in Calls
  PROVE  /\ call[c] \in CallType /\ CallInv(call[c])
         /\ active \in Workspaces /\ primed \in Workspaces
         /\ \A e \in Elements : timer[e] \in TimerType /\ TimerInv(timer[e])
  BY DEF Inv, TypeOK, CallType, TimerType

LEMMA SwitchInv ==
  ASSUME Inv, NEW c \in Calls, NEW w \in Workspaces, Switch(c, w)
  PROVE  Inv'
<1> DEFINE rec == Call("load", w, "sent")
<1>1. rec \in CallType /\ CallInv(rec)
  BY SendType DEF CallInv
<1>2. CallsOK'
  <2>1. call' = [call EXCEPT ![c] = rec]
    BY DEF Switch, Send
  <2> HIDE DEF rec
  <2> QED  BY <1>1, <2>1, OneCall
<1>3. PageOK'
  BY DEF Switch, Inv, TypeOK, PageOK, layout
<1> QED  BY <1>2, <1>3, Clicked, SameParts, Together DEF Switch, layout

LEMMA ReloadInv ==
  ASSUME Inv, NEW c \in Calls, Reload(c)
  PROVE  Inv'
<1> DEFINE rec == Call("load", active, "lists")
<1>1. rec \in CallType /\ CallInv(rec)
  BY Calling, SendType DEF CallInv
<1>2. CallsOK'
  <2>1. call' = [call EXCEPT ![c] = rec]
    BY DEF Reload, Send
  <2> HIDE DEF rec
  <2> QED  BY <1>1, <2>1, OneCall
<1>3. PageOK'
  BY DEF Reload, Inv, TypeOK, PageOK, layout
<1> QED  BY <1>2, <1>3, Clicked, SameParts, Together DEF Reload, layout

LEMMA LoadingInv ==
  ASSUME Inv, NEW c \in Calls, ReloadLayout(c) \/ FetchMembers(c) \/ ShowMembers(c) \/ ShowNotes(c)
  PROVE  Inv'
<1>0. /\ call[c] \in CallType /\ CallInv(call[c]) /\ call[c].kind = "load"
      /\ call[c].ws \in Workspaces /\ active \in Workspaces
  BY Calling DEF ReloadLayout, FetchMembers, ShowMembers, ShowNotes, CallInv
<1>1. CASE ReloadLayout(c)
  <2> DEFINE rec == [call[c] EXCEPT !.ws = active, !.notes = active, !.stage = "sent"]
  <2>1. call' = [call EXCEPT ![c] = rec]
    BY <1>1 DEF ReloadLayout
  <2>2. rec \in CallType /\ CallInv(rec)
    BY <1>0 DEF CallType, CallInv
  <2> HIDE DEF rec
  <2>3. CallsOK'
    BY <2>1, <2>2, OneCall
  <2> QED  BY <1>1, <2>3, SameParts, Together DEF ReloadLayout, layout
<1>2. CASE FetchMembers(c)
  <2> DEFINE rec == [call[c] EXCEPT !.stage = "answered", !.data = stored[call[c].ws]]
  <2>1. call' = [call EXCEPT ![c] = rec]
    BY <1>2 DEF FetchMembers
  <2>2. stored[call[c].ws] \in [Elements -> Position]
    BY <1>0 DEF Inv, TypeOK
  <2>3. rec \in CallType /\ CallInv(rec)
    BY <1>0, <2>2 DEF CallType, CallInv
  <2> HIDE DEF rec
  <2>4. CallsOK'
    BY <2>1, <2>3, OneCall
  <2> QED  BY <1>2, <2>4, SameParts, Together DEF FetchMembers, layout
<1>3. CASE ShowMembers(c)
  <2> DEFINE rec == [call[c] EXCEPT !.notes = IF @ = "none" THEN active ELSE @, !.stage = "notes"]
  <2>1. call' = [call EXCEPT ![c] = rec]
    BY <1>3 DEF ShowMembers
  <2>2. rec \in CallType /\ CallInv(rec)
    BY <1>0 DEF CallType, CallInv
  <2> HIDE DEF rec
  <2>3. CallsOK'
    BY <2>1, <2>2, OneCall
  <2>4. PageOK'
    <3>1. call[c].data \in [Elements -> Position]
      BY <1>0 DEF CallType
    <3>2. members' \subseteq Elements
      BY <1>3 DEF ShowMembers, On
    <3> QED  BY <1>0, <1>3, <3>1, <3>2 DEF ShowMembers, Prime, Inv, TypeOK, PageOK
  <2>5. UNCHANGED <<stored, timer, bounds>>
    BY <1>3 DEF ShowMembers, Prime
  <2> QED  BY <2>3, <2>4, <2>5, SameParts, Together
<1>4. CASE ShowNotes(c)
  <2>1. CallsOK'
    BY <1>4, Ended DEF ShowNotes
  <2>2. PageOK'
    BY <1>0, <1>4 DEF ShowNotes, CallInv, Inv, TypeOK, PageOK, layout
  <2> QED  BY <1>4, <2>1, <2>2, SameParts, Together DEF ShowNotes, layout
<1> QED  BY <1>1, <1>2, <1>3, <1>4

LEMMA DragInv ==
  ASSUME Inv, NEW e \in Elements, Drag(e)
  PROVE  Inv'
<1> DEFINE p == Placed("drag", primed)
<1>1. BoundsOK' /\ clicks + 1 \in 0..MaxClicks
  BY Clicked DEF Drag
<1>2. primed \in Workspaces
  BY DEF Inv, TypeOK
<1>3. p \in Position /\ p # Absent /\ p.ws = primed
  BY <1>1, <1>2, Placing
<1>4. SetPosition(e, p) /\ want' = [want EXCEPT ![primed][e] = p]
      /\ UNCHANGED <<stored, active, members, notesOf, loading, call>>
  BY DEF Drag
<1> HIDE DEF p
<1>5. TimersOK' /\ cache' \in [Elements -> Position] /\ primed' \in Workspaces
  BY <1>3, <1>4, Setting
<1>6. want' \in [Workspaces -> [Elements -> Position]]
  BY <1>2, <1>3, <1>4 DEF Inv, TypeOK
<1>7. PageOK'
  BY <1>4, <1>5, <1>6 DEF Inv, TypeOK, PageOK
<1> QED  BY <1>1, <1>4, <1>5, <1>7, SameParts, Together

(* The write that leaves when a timer fires carries the workspace of the timer. *)
LEMMA FireInv ==
  ASSUME Inv, NEW c \in Calls, NEW e \in Elements, Fire(c, e)
  PROVE  Inv'
<1> DEFINE w == timer[e].ws
           rec == [Call("write", w, "sent") EXCEPT !.element = e, !.position = timer[e].position]
<1>1. timer[e] \in TimerType /\ TimerInv(timer[e]) /\ timer[e] # NoWrite
  BY Calling DEF Fire
<1>2. w \in Workspaces /\ timer[e].position \in Position
  BY <1>1 DEF TimerInv, TimerType
<1>3. rec \in CallType /\ rec.kind = "write" /\ rec.ws = w /\ rec.element = e /\ rec.position = timer[e].position
  <2> DEFINE base == Call("write", w, "sent")
  <2>1. base \in CallType /\ base.kind = "write" /\ base.ws = w
    BY <1>2, SendType
  <2> HIDE DEF base
  <2>2. LET new == [base EXCEPT !.element = e, !.position = timer[e].position]
        IN  new \in CallType /\ new.kind = "write" /\ new.ws = w /\ new.element = e
            /\ new.position = timer[e].position
    BY <1>2, <2>1 DEF CallType
  <2> QED  BY <2>2 DEF base
<1>4. call' = [call EXCEPT ![c] = rec]
  BY DEF Fire, Send
<1>5. CallInv(rec)
  <2> HIDE DEF rec
  <2> QED  BY <1>1, <1>2, <1>3 DEF CallInv, TimerInv
<1> HIDE DEF rec
<1>6. CallsOK'
  BY <1>3, <1>4, <1>5, OneCall
<1>7. TimersOK'
  <2>1. TimerInv(NoWrite)
    BY DEF TimerInv
  <2> QED  BY <2>1, AbsentType, Parts DEF Fire, TimersOK
<1>8. UNCHANGED <<stored, want, active, primed, notesOf, cache, members, loading, bounds>>
  BY DEF Fire
<1> QED  BY <1>6, <1>7, <1>8, SameParts, Together

LEMMA UpdateInv ==
  ASSUME Inv, NEW c \in Calls, Update(c)
  PROVE  Inv'
<1>1. call[c] \in CallType /\ CallInv(call[c]) /\ call[c].kind = "write"
  BY Calling DEF Update
<1>2. /\ call[c].ws \in Workspaces /\ call[c].element \in Elements /\ call[c].position \in Position
      /\ call[c].position.how = "drag" => call[c].position.ws = call[c].ws
  BY <1>1 DEF CallInv, CallType
<1>3. stored' = [stored EXCEPT ![call[c].ws][call[c].element] = call[c].position]
  BY DEF Update
<1>4. StoredOK'
  BY <1>2, <1>3, OneStored
<1>5. CallsOK'
  BY Ended DEF Update
<1> QED  BY <1>4, <1>5, SameParts, Together DEF Update, layout

LEMMA AddInv ==
  ASSUME Inv, NEW c \in Calls, NEW e \in Elements, Add(c, e)
  PROVE  Inv'
<1> DEFINE p == Placed("add", active)
           rec == [Call("add", active, "sent") EXCEPT !.element = e, !.position = p, !.new = e \notin members]
<1>1. BoundsOK' /\ clicks + 1 \in 0..MaxClicks
  BY Clicked DEF Add
<1>2. active \in Workspaces
  BY Calling
<1>3. p \in Position /\ p # Absent /\ p.how = "add"
  BY <1>1, <1>2, Placing
<1>4. /\ call' = [call EXCEPT ![c] = rec]
      /\ want' = want \/ want' = [want EXCEPT ![active][e] = p]
      /\ UNCHANGED <<stored, active, primed, cache, timer, members, notesOf, loading>>
  BY DEF Add, Send, layout
<1> HIDE DEF p
<1>5. rec \in CallType /\ rec.kind = "add" /\ rec.ws = active /\ rec.element = e /\ rec.position = p
  <2> DEFINE base == Call("add", active, "sent")
  <2>1. base \in CallType /\ base.kind = "add" /\ base.ws = active
    BY <1>2, SendType
  <2> HIDE DEF base
  <2>2. LET new == [base EXCEPT !.element = e, !.position = p, !.new = e \notin members]
        IN  new \in CallType /\ new.kind = "add" /\ new.ws = active /\ new.element = e /\ new.position = p
    BY <1>3, <2>1 DEF CallType
  <2> QED  BY <2>2 DEF base
<1> HIDE DEF rec
<1>6. CallInv(rec)
  BY <1>2, <1>3, <1>5 DEF CallInv
<1>7. CallsOK'
  BY <1>4, <1>5, <1>6, OneCall
<1>8. PageOK'
  <2>1. want' \in [Workspaces -> [Elements -> Position]]
    <3>1. want \in [Workspaces -> [Elements -> Position]]
      BY DEF Inv, TypeOK
    <3>2. [want EXCEPT ![active][e] = p] \in [Workspaces -> [Elements -> Position]]
      BY <1>2, <1>3, <3>1
    <3> QED  BY <1>4, <3>1, <3>2
  <2> QED  BY <1>4, <2>1 DEF Inv, TypeOK, PageOK
<1> QED  BY <1>1, <1>4, <1>7, <1>8, SameParts, Together

LEMMA AddingInv ==
  ASSUME Inv, NEW c \in Calls, InsertMember(c) \/ ShowAdded(c)
  PROVE  Inv'
<1> DEFINE w == call[c].ws
           e == call[c].element
           p == call[c].position
<1>1. /\ call[c] \in CallType /\ CallInv(call[c]) /\ call[c].kind = "add"
      /\ w \in Workspaces /\ e \in Elements /\ p \in Position /\ p # Absent /\ p.how = "add"
  BY Calling DEF InsertMember, ShowAdded, CallInv, CallType
<1>2. CASE InsertMember(c)
  <2> DEFINE q == IF stored[w][e] = Absent THEN p ELSE stored[w][e]
  <2>1. q \in Position /\ (q.how = "drag" => q.ws = w)
    BY <1>1 DEF Inv, TypeOK, DragsStayInWorkspace
  <2>2. stored' = [stored EXCEPT ![w][e] = q]
    BY <1>2 DEF InsertMember
  <2> HIDE DEF q
  <2>3. StoredOK'
    BY <1>1, <2>1, <2>2, OneStored
  <2>4. CallsOK'
    BY <1>2, Staged DEF InsertMember
  <2> QED  BY <1>2, <2>3, <2>4, SameParts, Together DEF InsertMember, layout
<1>3. CASE ShowAdded(c)
  <2>1. CallsOK' /\ UNCHANGED <<stored, active, notesOf, loading, want, bounds>>
    BY <1>3, Ended DEF ShowAdded
  <2>2. CASE call[c].new
    <3>1. SetPosition(e, p) /\ members' = members \cup {e}
      BY <1>3, <2>2 DEF ShowAdded
    <3>2. TimersOK' /\ cache' \in [Elements -> Position] /\ primed' \in Workspaces
      BY <1>1, <3>1, Setting
    <3>3. PageOK'
      BY <1>1, <2>1, <3>1, <3>2 DEF Inv, TypeOK, PageOK
    <3> QED  BY <2>1, <3>2, <3>3, SameParts, Together
  <2>3. CASE ~call[c].new
    <3>1. UNCHANGED <<members, primed, cache, timer>>
      BY <1>3, <2>3 DEF ShowAdded, layout
    <3> QED  BY <2>1, <3>1, SameParts, Together
  <2> QED  BY <2>2, <2>3
<1> QED  BY <1>2, <1>3

LEMMA RemoveInv ==
  ASSUME Inv, NEW c \in Calls, NEW e \in Elements, Remove(c, e)
  PROVE  Inv'
<1> DEFINE rec == [Call("remove", active, "sent") EXCEPT !.element = e]
<1>1. active \in Workspaces
  BY Calling
<1>2. /\ call' = [call EXCEPT ![c] = rec]
      /\ want' = [want EXCEPT ![active][e] = Absent]
      /\ UNCHANGED <<stored, active, primed, cache, timer, members, notesOf, loading>>
  BY DEF Remove, Send, layout
<1>3. rec \in CallType /\ rec.kind = "remove" /\ rec.ws = active /\ rec.element = e
  BY <1>1, SendType DEF CallType
<1> HIDE DEF rec
<1>4. CallsOK'
  <2>1. CallInv(rec)
    BY <1>1, <1>3 DEF CallInv
  <2> QED  BY <1>2, <1>3, <2>1, OneCall
<1>5. PageOK'
  BY <1>1, <1>2, AbsentType DEF Inv, TypeOK, PageOK
<1>6. BoundsOK'
  BY Clicked DEF Remove
<1> QED  BY <1>2, <1>4, <1>5, <1>6, SameParts, Together

LEMMA RemovingInv ==
  ASSUME Inv, NEW c \in Calls, DeleteMember(c) \/ HideRemoved(c)
  PROVE  Inv'
<1>1. /\ call[c] \in CallType /\ CallInv(call[c]) /\ call[c].kind = "remove"
      /\ call[c].ws \in Workspaces /\ call[c].element \in Elements
  BY Calling DEF DeleteMember, HideRemoved, CallInv
<1>2. CASE DeleteMember(c)
  <2>1. StoredOK'
    <3>1. Absent \in Position /\ Absent.how # "drag"
      BY AbsentType DEF Absent
    <3>2. stored' = [stored EXCEPT ![call[c].ws][call[c].element] = Absent]
      BY <1>2 DEF DeleteMember
    <3> QED  BY <1>1, <3>1, <3>2, OneStored
  <2>2. CallsOK'
    BY <1>2, Staged DEF DeleteMember
  <2> QED  BY <1>2, <2>1, <2>2, SameParts, Together DEF DeleteMember, layout
<1>3. CASE HideRemoved(c)
  <2>1. CallsOK'
    BY <1>3, Ended DEF HideRemoved
  <2>2. PageOK'
    BY <1>3 DEF HideRemoved, Inv, TypeOK, PageOK, layout
  <2> QED  BY <1>3, <2>1, <2>2, SameParts, Together DEF HideRemoved, layout
<1> QED  BY <1>2, <1>3

LEMMA FailInv ==
  ASSUME Inv, NEW c \in Calls, Fail(c)
  PROVE  Inv'
<1>1. CallsOK'
  BY Ended DEF Fail
<1>2. PageOK'
  BY DEF Fail, Failed, Inv, TypeOK, PageOK, layout
<1>3. BoundsOK'
  BY CanvasAssumption DEF Fail, Inv, TypeOK, BoundsOK
<1> QED  BY <1>1, <1>2, <1>3, SameParts, Together DEF Fail, layout

LEMMA Inductive == Inv /\ [Next]_vars => Inv'
<1> SUFFICES ASSUME Inv, [Next]_vars PROVE Inv'
  OBVIOUS
<1>1. CASE UNCHANGED vars
  BY <1>1, SameParts, Together DEF vars, layout
<1>2. ASSUME NEW c \in Calls, Proceed(c) PROVE Inv'
  BY <1>2, LoadingInv, UpdateInv, AddingInv, RemovingInv DEF Proceed
<1> QED
  BY <1>1, <1>2, FailInv, ReloadInv, SwitchInv, FireInv, AddInv, RemoveInv, DragInv DEF Next

\* The canvas page keeps its inductive invariant over every gesture, timer and call.
THEOREM InvHolds == Spec => []Inv
<1> QED  BY Initial, Inductive, PTL DEF Spec

(* Every variable of the canvas model stays in its domain, and no write is without a position. *)
THEOREM CanvasTypes == Spec => []TypeOK
<1>1. Inv => TypeOK
  BY DEF Inv
<1> QED  BY <1>1, InvHolds, PTL

(* No drag is ever stored in another workspace than the one on the canvas when it was made. *)
THEOREM DragsStayHome == Spec => []DragsStayInWorkspace
<1>1. Inv => DragsStayInWorkspace
  BY DEF Inv
<1> QED  BY <1>1, InvHolds, PTL

(***************************************************************************)
(* One call after the other: the canvas, the store and the user's wishes.  *)
(***************************************************************************)
(* The canvas shows an element as the rows of the active workspace have it. *)
Shown(rows, e) ==
  /\ e \in members <=> rows[active][e] # Absent
  /\ e \in members => cache[e] = rows[active][e]

Home == primed = active /\ notesOf = active

Stored == \A w \in Workspaces, e \in Elements : stored[w][e] = want[w][e]

\* All is stored, but perhaps what the user wants of one element of the active workspace.
StoredBut(e, p) ==
  /\ \A w \in Workspaces, d \in Elements : (w = active /\ d = e) \/ stored[w][d] = want[w][d]
  /\ want[active][e] = p

\* What is known while a drag waits for its timer or its write,
DragTells(w, e, p) ==
  w = active /\ Home /\ StoredBut(e, p) /\ \A d \in Elements : Shown(want, d)

\* while a workspace is loaded,
LoadTells(rec) ==
  /\ Stored
  /\ rec.stage \in {"sent", "answered"} => rec.ws = active
  /\ rec.notes # "none" => rec.notes = active
  /\ rec.stage = "answered" => rec.data = stored[active]
  /\ rec.stage = "notes" => rec.notes = active /\ primed = active /\ \A d \in Elements : Shown(stored, d)

\* while an element is added,
AddTells(rec) ==
  /\ rec.ws = active /\ Home
  /\ rec.stage = "sent" =>
       /\ \A d \in Elements : Shown(stored, d)
       /\ rec.new <=> rec.element \notin members
       /\ StoredBut(rec.element, IF rec.new THEN rec.position ELSE stored[active][rec.element])
  /\ rec.stage = "answered" =>
       /\ Stored
       /\ \A d \in Elements : (rec.new /\ d = rec.element) \/ Shown(stored, d)
       /\ rec.new => stored[active][rec.element] = rec.position

\* and while one is removed.
RemoveTells(rec) ==
  /\ rec.ws = active /\ Home
  /\ rec.stage = "sent" => StoredBut(rec.element, Absent) /\ \A d \in Elements : Shown(stored, d)
  /\ rec.stage = "answered" =>
       /\ Stored /\ stored[active][rec.element] = Absent
       /\ \A d \in Elements : d = rec.element \/ Shown(stored, d)

CallTells(rec) ==
  /\ rec.kind = "load" => LoadTells(rec)
  /\ rec.kind = "write" => DragTells(rec.ws, rec.element, rec.position)
  /\ rec.kind = "add" => AddTells(rec)
  /\ rec.kind = "remove" => RemoveTells(rec)

\* There is one call under way, or one timer, or nothing.
Alone ==
  /\ \A c, d \in Busy : c = d
  /\ \A e, f \in Ticking : e = f
  /\ Busy = {} \/ Ticking = {}

InTurn ==
  disturbed \/ /\ Alone
               /\ Quiet => Home /\ Stored /\ \A d \in Elements : Shown(stored, d)
               /\ \A c \in Busy : CallTells(call[c])
               /\ \A e \in Ticking : DragTells(timer[e].ws, e, timer[e].position)

LEMMA ToQuiet ==
  ASSUME Busy' = {}, Ticking' = {}, Home', Stored', (\A d \in Elements : Shown(stored, d))'
  PROVE  InTurn'
  BY DEF InTurn, Alone, Quiet

LEMMA ToCall ==
  ASSUME NEW c, Busy' = {c}, Ticking' = {}, CallTells(call[c])'
  PROVE  InTurn'
  BY DEF InTurn, Alone, Quiet

LEMMA ToTimer ==
  ASSUME NEW e, Busy' = {}, Ticking' = {e}, DragTells(timer[e].ws, e, timer[e].position)'
  PROVE  InTurn'
  BY DEF InTurn, Alone, Quiet

LEMMA OneAtATime ==
  ASSUME InTurn, ~disturbed, NEW c \in Calls, call[c] # NoCall
  PROVE  Busy = {c} /\ Ticking = {} /\ CallTells(call[c])
<1>1. c \in Busy
  BY DEF Busy
<1> QED  BY <1>1 DEF InTurn, Alone

(* A user who clicks when nothing is under way finds the canvas, the store and the wishes at one. *)
LEMMA ClickInTurn ==
  ASSUME InTurn, NEW S, Click(S), ~disturbed'
  PROVE  /\ ~disturbed /\ Busy = {} /\ Ticking \subseteq S
         /\ Ticking = {} => Home /\ Stored /\ \A d \in Elements : Shown(stored, d)
<1>1. ~disturbed /\ Busy = {} /\ Ticking \subseteq S
  BY DEF Click
<1> QED  BY <1>1 DEF InTurn, Quiet

LEMMA Begins ==
  ASSUME Inv, Busy = {}, Ticking = {}, NEW c \in Calls, NEW rec, rec.kind # "none",
         call' = [call EXCEPT ![c] = rec], timer' = timer
  PROVE  Busy' = {c} /\ Ticking' = {} /\ call'[c] = rec
<1>1. call' \in [Calls -> {call[d] : d \in Calls} \cup {rec}] /\ call'[c] = rec
      /\ \A d \in Calls \ {c} : call'[d] = call[d]
  BY DEF Inv, TypeOK
<1>2. rec # NoCall
  BY DEF NoCall
<1> QED  BY <1>1, <1>2 DEF Busy, Ticking

LEMMA Goes ==
  ASSUME Inv, NEW c \in Calls, Busy = {c}, Ticking = {}, NEW rec, rec.kind # "none",
         call' = [call EXCEPT ![c] = rec], timer' = timer
  PROVE  Busy' = {c} /\ Ticking' = {} /\ call'[c] = rec
<1>1. call'[c] = rec /\ \A d \in Calls \ {c} : call'[d] = call[d]
  BY DEF Inv, TypeOK
<1>2. rec # NoCall
  BY DEF NoCall
<1> QED  BY <1>1, <1>2 DEF Busy, Ticking

LEMMA Ends ==
  ASSUME Inv, NEW c \in Calls, Busy = {c}, End(c)
  PROVE  Busy' = {}
  BY DEF Inv, TypeOK, Busy, End

LEMMA LoadingInTurn ==
  ASSUME Inv, InTurn, NEW c \in Calls, ~disturbed,
         ReloadLayout(c) \/ FetchMembers(c) \/ ShowMembers(c) \/ ShowNotes(c)
  PROVE  InTurn'
<1>0. /\ call[c].kind = "load" /\ call[c] \in CallType /\ call[c].ws \in Workspaces
      /\ active \in Workspaces /\ stored \in [Workspaces -> [Elements -> Position]]
  BY Calling DEF ReloadLayout, FetchMembers, ShowMembers, ShowNotes, CallInv, Inv, TypeOK
<1>1. Busy = {c} /\ Ticking = {} /\ LoadTells(call[c])
  <2>1. call[c] # NoCall
    BY <1>0 DEF NoCall
  <2> QED  BY <1>0, <2>1, OneAtATime DEF CallTells
<1>2. CASE ReloadLayout(c)
  <2> DEFINE rec == [call[c] EXCEPT !.ws = active, !.notes = active, !.stage = "sent"]
  <2>1. call' = [call EXCEPT ![c] = rec] /\ UNCHANGED <<stored, active, timer, want>>
    BY <1>2 DEF ReloadLayout, layout
  <2>2. rec.kind = "load" /\ rec.ws = active /\ rec.notes = active /\ rec.stage = "sent"
    BY <1>0 DEF CallType
  <2> HIDE DEF rec
  <2>3. Busy' = {c} /\ Ticking' = {} /\ call'[c] = rec
    BY <1>1, <2>1, <2>2, Goes
  <2>4. Stored'
    BY <1>1, <2>1 DEF LoadTells, Stored
  <2>5. CallTells(call[c])'
    BY <2>1, <2>2, <2>3, <2>4 DEF CallTells, LoadTells
  <2> QED  BY <2>3, <2>5, ToCall
<1>3. CASE FetchMembers(c)
  <2> DEFINE rec == [call[c] EXCEPT !.stage = "answered", !.data = stored[call[c].ws]]
  <2>1. call' = [call EXCEPT ![c] = rec] /\ UNCHANGED <<stored, active, timer, want>>
    BY <1>3 DEF FetchMembers, layout
  <2>2. rec.kind = "load" /\ rec.ws = call[c].ws /\ rec.notes = call[c].notes /\ rec.stage = "answered" /\ rec.data = stored[call[c].ws]
    BY <1>0 DEF CallType
  <2> HIDE DEF rec
  <2>3. Busy' = {c} /\ Ticking' = {} /\ call'[c] = rec
    BY <1>1, <2>1, <2>2, Goes
  <2>4. Stored' /\ call[c].ws = active /\ (call[c].notes # "none" => call[c].notes = active)
    BY <1>1, <1>3, <2>1 DEF LoadTells, Stored, FetchMembers
  <2>5. CallTells(call[c])'
    BY <2>1, <2>2, <2>3, <2>4 DEF CallTells, LoadTells
  <2> QED  BY <2>3, <2>5, ToCall
<1>4. CASE ShowMembers(c)
  <2> DEFINE rec == [call[c] EXCEPT !.notes = IF @ = "none" THEN active ELSE @, !.stage = "notes"]
  <2>1. call' = [call EXCEPT ![c] = rec] /\ UNCHANGED <<stored, active, timer, want>>
    BY <1>4 DEF ShowMembers, Prime
  <2>2. rec.kind = "load" /\ rec.notes = active /\ rec.stage = "notes"
    BY <1>0, <1>1 DEF CallType, LoadTells
  <2> HIDE DEF rec
  <2>3. Busy' = {c} /\ Ticking' = {} /\ call'[c] = rec
    BY <1>1, <2>1, <2>2, Goes
  <2>4. Stored' /\ call[c].ws = active /\ call[c].data = stored[active]
    BY <1>1, <1>4, <2>1 DEF LoadTells, Stored, ShowMembers
  <2>5. primed' = active' /\ cache' = stored'[active'] /\ members' = On(cache')
    BY <1>4, <2>1, <2>4 DEF ShowMembers, Prime
  <2>6. (\A d \in Elements : Shown(stored, d))'
    BY <2>5 DEF Shown, On
  <2>7. CallTells(call[c])'
    BY <2>1, <2>2, <2>3, <2>4, <2>5, <2>6 DEF CallTells, LoadTells
  <2> QED  BY <2>3, <2>7, ToCall
<1>5. CASE ShowNotes(c)
  <2>1. End(c) /\ notesOf' = call[c].notes /\ UNCHANGED <<stored, active, primed, cache, timer, members, want>>
    BY <1>5 DEF ShowNotes, layout
  <2>2. /\ call[c].notes = active /\ Stored /\ primed = active
        /\ \A d \in Elements : Shown(stored, d)
    BY <1>1, <1>5 DEF LoadTells, ShowNotes
  <2>3. Home' /\ Stored' /\ (\A d \in Elements : Shown(stored, d))'
    BY <2>1, <2>2 DEF Home, Stored, Shown
  <2>4. Busy' = {} /\ Ticking' = {}
    BY <1>1, <2>1, Ends DEF Ticking
  <2> QED  BY <2>3, <2>4, ToQuiet
<1> QED  BY <1>2, <1>3, <1>4, <1>5

LEMMA LoadsBeginInTurn ==
  ASSUME Inv, InTurn, NEW c \in Calls, ~disturbed', Reload(c) \/ \E w \in Workspaces : Switch(c, w)
  PROVE  InTurn'
<1>1. PICK rec : /\ call' = [call EXCEPT ![c] = rec] /\ Click({})
                 /\ (rec = Call("load", active', "lists") \/ rec = Call("load", active', "sent"))
                 /\ UNCHANGED <<stored, timer, want>>
  BY DEF Reload, Switch, Send, layout
<1>2. rec.kind = "load" /\ (rec.stage = "lists" \/ rec.stage = "sent") /\ rec.ws = active' /\ rec.notes = "none"
  BY <1>1 DEF Call, NoCall
<1>3. Busy = {} /\ Ticking = {} /\ Stored
  BY <1>1, ClickInTurn
<1>4. Busy' = {c} /\ Ticking' = {} /\ call'[c] = rec
  BY <1>1, <1>2, <1>3, Begins
<1>5. Stored'
  BY <1>1, <1>3 DEF Stored
<1>6. CallTells(call[c])'
  BY <1>2, <1>4, <1>5 DEF CallTells, LoadTells
<1> QED  BY <1>4, <1>6, ToCall

(* A drag moves the canvas and the wish of the user together; the store follows, by its timer. *)
LEMMA DragInTurn ==
  ASSUME Inv, InTurn, NEW e \in Elements, ~disturbed', Drag(e)
  PROVE  InTurn'
<1>1. PICK p : p = Placed("drag", primed)
  OBVIOUS
<1>2. /\ Click({e}) /\ e \in members /\ SetPosition(e, p) /\ want' = [want EXCEPT ![primed][e] = p]
      /\ UNCHANGED <<stored, active, members, notesOf, call>>
  BY <1>1 DEF Drag
<1>3. p # Absent
  <2>1. clicks + 1 \in 0..MaxClicks /\ primed \in Workspaces
    BY <1>2, Clicked DEF Inv, TypeOK
  <2> QED  BY <1>1, <2>1, Placing
<1>4. /\ cache' = [cache EXCEPT ![e] = p] /\ primed' = primed
      /\ timer' = [timer EXCEPT ![e] = [ws |-> primed, position |-> p]]
  BY <1>2 DEF SetPosition
<1>5. /\ want \in [Workspaces -> [Elements -> Position]] /\ cache \in [Elements -> Position]
      /\ timer \in [Elements -> TimerType] /\ active \in Workspaces
  BY DEF Inv, TypeOK, TimerType
<1>6. ~disturbed /\ Busy = {} /\ Ticking \subseteq {e}
  BY <1>2, ClickInTurn
<1>7. /\ Home
      /\ \A w \in Workspaces, d \in Elements : (w = active /\ d = e) \/ stored[w][d] = want[w][d]
      /\ \A d \in Elements : d = e \/ Shown(want, d)
  <2>1. CASE Ticking = {}
    <3>1. Home /\ Stored /\ \A d \in Elements : Shown(stored, d)
      BY <1>2, <2>1, ClickInTurn
    <3> QED  BY <1>5, <3>1 DEF Stored, Shown
  <2>2. CASE e \in Ticking
    <3>1. DragTells(timer[e].ws, e, timer[e].position)
      BY <1>6, <2>2 DEF InTurn
    <3> QED  BY <3>1 DEF DragTells, StoredBut
  <2> QED  BY <1>6, <2>1, <2>2
<1>8. Home' /\ primed = active
  BY <1>2, <1>4, <1>7 DEF Home
<1>9. /\ \A w \in Workspaces, d \in Elements : (w = active /\ d = e) \/ want'[w][d] = want[w][d]
      /\ want'[active][e] = p
  BY <1>2, <1>5, <1>8
<1>10. StoredBut(e, p)'
  BY <1>2, <1>7, <1>9 DEF StoredBut
<1>11. ASSUME NEW d \in Elements PROVE Shown(want, d)'
  <2>1. CASE d = e
    BY <1>2, <1>3, <1>4, <1>5, <1>9, <2>1 DEF Shown
  <2>2. CASE d # e
    <3>1. cache'[d] = cache[d] /\ want'[active][d] = want[active][d] /\ Shown(want, d)
      BY <1>4, <1>5, <1>7, <1>9, <2>2
    <3> QED  BY <1>2, <3>1 DEF Shown
  <2> QED  BY <2>1, <2>2
<1>12. timer'[e].ws = active' /\ timer'[e].position = p
  BY <1>2, <1>4, <1>5, <1>8
<1>13. DragTells(timer[e].ws, e, timer[e].position)'
  BY <1>8, <1>10, <1>11, <1>12 DEF DragTells
<1>14. Busy' = {} /\ Ticking' = {e}
  <2>1. timer'[e].position = p /\ \A d \in Elements \ {e} : timer'[d] = timer[d]
    BY <1>4, <1>5, <1>12
  <2> QED  BY <1>2, <1>3, <1>6, <2>1 DEF Busy, Ticking, NoWrite
<1> QED  BY <1>13, <1>14, ToTimer

LEMMA FireInTurn ==
  ASSUME Inv, InTurn, NEW c \in Calls, NEW e \in Elements, ~disturbed, Fire(c, e)
  PROVE  InTurn'
<1> DEFINE rec == [Call("write", timer[e].ws, "sent") EXCEPT !.element = e, !.position = timer[e].position]
<1>1. /\ timer[e] # NoWrite /\ call[c] = NoCall /\ call' = [call EXCEPT ![c] = rec]
      /\ timer' = [timer EXCEPT ![e] = NoWrite]
      /\ UNCHANGED <<stored, active, primed, cache, members, notesOf, want>>
  BY DEF Fire, Send
<1>2. rec.kind = "write" /\ rec.ws = timer[e].ws /\ rec.element = e /\ rec.position = timer[e].position
  BY DEF Call, NoCall
<1> HIDE DEF rec
<1>3. Ticking = {e} /\ Busy = {} /\ DragTells(timer[e].ws, e, timer[e].position)
  <2>1. e \in Ticking
    BY <1>1 DEF Ticking
  <2> QED  BY <2>1 DEF InTurn, Alone
<1>4. Ticking' = {} /\ Busy' = {c} /\ call'[c] = rec
  <2>1. timer \in [Elements -> TimerType] /\ call \in [Calls -> CallType]
    BY DEF Inv, TypeOK, TimerType, CallType
  <2>2. rec # NoCall
    BY <1>2 DEF NoCall
  <2>3. Ticking' = {}
    BY <1>1, <1>3, <2>1 DEF Ticking
  <2>4. call'[c] = rec /\ \A d \in Calls \ {c} : call'[d] = call[d]
    BY <1>1, <2>1
  <2> QED  BY <1>3, <2>2, <2>3, <2>4 DEF Busy
<1>5. PICK w, p : w = timer[e].ws /\ p = timer[e].position
  OBVIOUS
<1>6. DragTells(w, e, p)'
  BY <1>1, <1>3, <1>5 DEF DragTells, StoredBut, Home, Shown
<1>7. CallTells(call[c])'
  <2>1. (call[c].kind = "write" /\ call[c].ws = w /\ call[c].element = e /\ call[c].position = p)'
    BY <1>2, <1>4, <1>5
  <2> QED  BY <1>6, <2>1 DEF CallTells
<1> QED  BY <1>4, <1>7, ToCall

LEMMA UpdateInTurn ==
  ASSUME Inv, InTurn, NEW c \in Calls, ~disturbed, Update(c)
  PROVE  InTurn'
<1> DEFINE e == call[c].element
           p == call[c].position
<1>1. /\ call[c].kind = "write" /\ End(c) /\ stored' = [stored EXCEPT ![call[c].ws][e] = p]
      /\ UNCHANGED <<active, primed, cache, timer, members, notesOf, want>>
  BY DEF Update, layout
<1>2. Busy = {c} /\ Ticking = {} /\ DragTells(call[c].ws, e, p)
  <2>1. call[c] # NoCall
    BY <1>1 DEF NoCall
  <2> QED  BY <1>1, <2>1, OneAtATime DEF CallTells
<1>3. /\ e \in Elements /\ active \in Workspaces
      /\ stored \in [Workspaces -> [Elements -> Position]] /\ want \in [Workspaces -> [Elements -> Position]]
  BY <1>1, Calling DEF CallInv, Inv, TypeOK
<1> HIDE DEF e, p
<1>4. Home /\ call[c].ws = active /\ want[active][e] = p
      /\ \A d \in Elements : Shown(want, d)
  BY <1>2 DEF DragTells, StoredBut
<1>5. stored' = [stored EXCEPT ![active][e] = p]
  BY <1>1, <1>4
<1>6. /\ \A w \in Workspaces, d \in Elements : stored'[w][d] = want[w][d]
  BY <1>2, <1>3, <1>4, <1>5 DEF DragTells, StoredBut
<1>7. Home' /\ Stored'
  BY <1>1, <1>4, <1>6 DEF Home, Stored
<1>8. (\A d \in Elements : Shown(stored, d))'
  BY <1>1, <1>3, <1>4, <1>6 DEF Shown
<1>9. Busy' = {} /\ Ticking' = {}
  BY <1>1, <1>2, Ends DEF Ticking
<1> QED  BY <1>7, <1>8, <1>9, ToQuiet

LEMMA AddInTurn ==
  ASSUME Inv, InTurn, NEW c \in Calls, NEW e \in Elements, ~disturbed', Add(c, e)
  PROVE  InTurn'
<1>1. PICK p : p = Placed("add", active)
  OBVIOUS
<1> DEFINE rec == [Call("add", active, "sent") EXCEPT !.element = e, !.position = p, !.new = e \notin members]
<1>2. /\ Click({}) /\ call' = [call EXCEPT ![c] = rec]
      /\ want' = IF e \in members THEN want ELSE [want EXCEPT ![active][e] = p]
      /\ UNCHANGED <<stored, active, primed, cache, timer, members, notesOf>>
  BY <1>1 DEF Add, Send, layout
<1>3. /\ rec.kind = "add" /\ rec.ws = active /\ rec.stage = "sent" /\ rec.element = e
      /\ rec.position = p /\ rec.new = (e \notin members)
  BY DEF Call, NoCall
<1> HIDE DEF rec
<1>4. Busy = {} /\ Ticking = {} /\ Home /\ Stored /\ \A d \in Elements : Shown(stored, d)
  BY <1>2, ClickInTurn
<1>5. Busy' = {c} /\ Ticking' = {} /\ call'[c] = rec
  BY <1>2, <1>3, <1>4, Begins
<1>6. PICK q : q = IF e \notin members THEN p ELSE stored[active][e]
  OBVIOUS
<1>7. StoredBut(e, q)'
  <2>1. want \in [Workspaces -> [Elements -> Position]] /\ active \in Workspaces
    BY DEF Inv, TypeOK
  <2>2. \A w \in Workspaces, d \in Elements : (w = active /\ d = e) \/ want'[w][d] = want[w][d]
    BY <1>2, <2>1
  <2>3. want'[active][e] = q
    BY <1>2, <1>4, <1>6, <2>1 DEF Stored
  <2> QED  BY <1>2, <1>4, <2>2, <2>3 DEF StoredBut, Stored
<1>8. Home' /\ (\A d \in Elements : Shown(stored, d))'
  BY <1>2, <1>4 DEF Home, Shown
<1>9. PICK r : r = rec
  OBVIOUS
<1>10. q = (IF r.new THEN r.position ELSE stored[active][r.element])'
  BY <1>2, <1>3, <1>6, <1>9
<1>11. AddTells(r)'
  <2>1. StoredBut(r.element, IF r.new THEN r.position ELSE stored[active][r.element])'
    BY <1>3, <1>7, <1>9, <1>10
  <2>2. (r.new <=> r.element \notin members)'
    BY <1>2, <1>3, <1>9
  <2>3. r.ws = active' /\ r.stage = "sent"
    BY <1>2, <1>3, <1>9
  <2> QED  BY <1>8, <2>1, <2>2, <2>3 DEF AddTells
<1>12. CallTells(call[c])'
  <2>1. call'[c] = r /\ r.kind = "add"
    BY <1>3, <1>5, <1>9
  <2> QED  BY <1>11, <2>1 DEF CallTells
<1> QED  BY <1>5, <1>12, ToCall

LEMMA InsertInTurn ==
  ASSUME Inv, InTurn, NEW c \in Calls, ~disturbed, InsertMember(c)
  PROVE  InTurn'
<1> DEFINE e == call[c].element
           rec == [call[c] EXCEPT !.stage = "answered"]
           p == IF stored[active][e] = Absent THEN call[c].position ELSE stored[active][e]
<1>1. /\ call[c].kind = "add" /\ call[c].stage = "sent" /\ call' = [call EXCEPT ![c] = rec]
      /\ stored' = [stored EXCEPT ![call[c].ws][e] = IF @ = Absent THEN call[c].position ELSE @]
      /\ UNCHANGED <<active, primed, cache, timer, members, notesOf, want>>
  BY DEF InsertMember, Stage, layout
<1>2. Busy = {c} /\ Ticking = {} /\ AddTells(call[c])
  <2>1. call[c] # NoCall
    BY <1>1 DEF NoCall
  <2> QED  BY <1>1, <2>1, OneAtATime DEF CallTells
<1>3. /\ e \in Elements /\ active \in Workspaces /\ call[c] \in CallType
      /\ stored \in [Workspaces -> [Elements -> Position]] /\ want \in [Workspaces -> [Elements -> Position]]
  BY <1>1, Calling DEF CallInv, Inv, TypeOK
<1>4. /\ rec.kind = "add" /\ rec.ws = call[c].ws /\ rec.stage = "answered" /\ rec.element = e
      /\ rec.position = call[c].position /\ rec.new = call[c].new
  BY <1>1, <1>3 DEF CallType
<1> HIDE DEF rec
<1>5. Busy' = {c} /\ Ticking' = {} /\ call'[c] = rec
  BY <1>1, <1>2, <1>4, Goes
<1>6. /\ call[c].ws = active /\ Home /\ \A d \in Elements : Shown(stored, d)
      /\ call[c].new <=> e \notin members
      /\ StoredBut(e, IF call[c].new THEN call[c].position ELSE stored[active][e])
  BY <1>1, <1>2 DEF AddTells
<1>7. stored' = [stored EXCEPT ![active][e] = p]
  BY <1>1, <1>3, <1>6
<1>8. /\ want[active][e] = p
      /\ call[c].new => p = call[c].position
      /\ ~call[c].new => p = stored[active][e]
  BY <1>3, <1>6 DEF StoredBut, Shown
<1> HIDE DEF e, p
<1>9. /\ \A w \in Workspaces, d \in Elements : (w = active /\ d = e) \/ stored'[w][d] = stored[w][d]
      /\ stored'[active][e] = p
  BY <1>3, <1>7
<1>10. Stored' /\ Home'
  BY <1>1, <1>6, <1>8, <1>9 DEF Stored, StoredBut, Home
<1>11. ASSUME NEW d \in Elements PROVE ((call[c].new /\ d = e) \/ Shown(stored, d)')
  <2>1. CASE call[c].new /\ d = e
    BY <2>1
  <2>2. CASE ~(call[c].new /\ d = e)
    <3>1. stored'[active][d] = stored[active][d] /\ Shown(stored, d)
      BY <1>3, <1>6, <1>8, <1>9, <2>2
    <3> QED  BY <1>1, <3>1 DEF Shown
  <2> QED  BY <2>1, <2>2
<1>12. PICK r : r = rec
  OBVIOUS
<1>13. AddTells(r)'
  <2>1. r.ws = active' /\ r.stage = "answered" /\ r.element = e /\ r.new = call[c].new
    BY <1>1, <1>4, <1>6, <1>12
  <2>2. r.new => stored'[active'][r.element] = r.position
    BY <1>1, <1>4, <1>8, <1>9, <1>12
  <2>3. (\A d \in Elements : (r.new /\ d = r.element) \/ Shown(stored, d))'
    BY <1>11, <2>1
  <2> QED  BY <1>10, <2>1, <2>2, <2>3 DEF AddTells
<1>14. CallTells(call[c])'
  <2>1. call'[c] = r /\ r.kind = "add"
    BY <1>4, <1>5, <1>12
  <2> QED  BY <1>13, <2>1 DEF CallTells
<1> QED  BY <1>5, <1>14, ToCall

LEMMA AddedInTurn ==
  ASSUME Inv, InTurn, NEW c \in Calls, ~disturbed, ShowAdded(c)
  PROVE  InTurn'
<1>1. /\ call[c].kind = "add" /\ call[c].stage = "answered" /\ End(c)
      /\ UNCHANGED <<stored, active, notesOf, want>>
  BY DEF ShowAdded
<1>2. Busy = {c} /\ Ticking = {} /\ AddTells(call[c])
  <2>1. call[c] # NoCall
    BY <1>1 DEF NoCall
  <2> QED  BY <1>1, <2>1, OneAtATime DEF CallTells
<1>3. Busy' = {}
  BY <1>1, <1>2, Ends
<1>4. PICK e, p : e = call[c].element /\ p = call[c].position
  OBVIOUS
<1>5. /\ e \in Elements /\ p # Absent /\ active \in Workspaces
      /\ cache \in [Elements -> Position] /\ timer \in [Elements -> TimerType]
      /\ members \subseteq Elements
  BY <1>1, <1>4, Calling DEF CallInv, Inv, TypeOK, TimerType
<1>6. Home /\ Stored
  BY <1>1, <1>2 DEF AddTells
<1>7. CASE ~call[c].new
  <2>1. UNCHANGED <<members, primed, cache, timer>>
    BY <1>7 DEF ShowAdded, layout
  <2>2. \A d \in Elements : Shown(stored, d)
    BY <1>1, <1>2, <1>7 DEF AddTells
  <2>3. Home' /\ Stored' /\ (\A d \in Elements : Shown(stored, d))'
    BY <1>1, <1>6, <2>1, <2>2 DEF Home, Stored, Shown
  <2>4. Ticking' = {}
    BY <1>2, <2>1 DEF Ticking
  <2> QED  BY <1>3, <2>3, <2>4, ToQuiet
<1>8. CASE call[c].new
  <2>1. /\ members' = members \cup {e} /\ primed' = primed /\ cache' = [cache EXCEPT ![e] = p]
        /\ timer' = [timer EXCEPT ![e] = [ws |-> primed, position |-> p]]
    BY <1>4, <1>8 DEF ShowAdded, SetPosition
  <2>2. /\ stored[active][e] = p
        /\ \A d \in Elements : d = e \/ Shown(stored, d)
    BY <1>1, <1>2, <1>4, <1>8 DEF AddTells
  <2>3. timer'[e].ws = active' /\ timer'[e].position = p /\ \A d \in Elements \ {e} : timer'[d] = timer[d]
    BY <1>1, <1>5, <1>6, <2>1 DEF Home
  <2>4. Ticking' = {e}
    BY <1>2, <1>5, <2>3 DEF Ticking, NoWrite
  <2>5. Home' /\ StoredBut(e, p)'
    BY <1>1, <1>5, <1>6, <2>1, <2>2 DEF Home, Stored, StoredBut
  <2>6. ASSUME NEW d \in Elements PROVE Shown(want, d)'
    <3>1. want'[active'][d] = stored[active][d]
      BY <1>1, <1>5, <1>6 DEF Stored
    <3>2. CASE d = e
      BY <1>5, <2>1, <2>2, <3>1, <3>2 DEF Shown
    <3>3. CASE d # e
      <4>1. cache'[d] = cache[d] /\ (d \in members' <=> d \in members) /\ Shown(stored, d)
        BY <1>5, <2>1, <2>2, <3>3
      <4> QED  BY <3>1, <4>1 DEF Shown
    <3> QED  BY <3>2, <3>3
  <2>7. DragTells(timer[e].ws, e, timer[e].position)'
    BY <2>3, <2>5, <2>6 DEF DragTells
  <2> QED  BY <1>3, <2>4, <2>7, ToTimer
<1> QED  BY <1>7, <1>8

LEMMA RemoveInTurn ==
  ASSUME Inv, InTurn, NEW c \in Calls, NEW e \in Elements, ~disturbed', Remove(c, e)
  PROVE  InTurn'
<1> DEFINE rec == [Call("remove", active, "sent") EXCEPT !.element = e]
<1>1. /\ Click({}) /\ call' = [call EXCEPT ![c] = rec]
      /\ want' = [want EXCEPT ![active][e] = Absent]
      /\ UNCHANGED <<stored, active, primed, cache, timer, members, notesOf>>
  BY DEF Remove, Send, layout
<1>2. rec.kind = "remove" /\ rec.ws = active /\ rec.stage = "sent" /\ rec.element = e
  BY DEF Call, NoCall
<1> HIDE DEF rec
<1>3. Busy = {} /\ Ticking = {} /\ Home /\ Stored /\ \A d \in Elements : Shown(stored, d)
  BY <1>1, ClickInTurn
<1>4. Busy' = {c} /\ Ticking' = {} /\ call'[c] = rec
  BY <1>1, <1>2, <1>3, Begins
<1>5. want \in [Workspaces -> [Elements -> Position]] /\ active \in Workspaces
  BY DEF Inv, TypeOK
<1>6. StoredBut(e, Absent)'
  BY <1>1, <1>3, <1>5 DEF StoredBut, Stored, Absent
<1>7. Home' /\ (\A d \in Elements : Shown(stored, d))'
  BY <1>1, <1>3 DEF Home, Shown
<1>8. PICK r : r = rec
  OBVIOUS
<1>9. RemoveTells(r)'
  <2>1. r.ws = active' /\ r.stage = "sent" /\ r.element = e
    BY <1>1, <1>2, <1>8
  <2> QED  BY <1>6, <1>7, <2>1 DEF RemoveTells
<1>10. CallTells(call[c])'
  <2>1. call'[c] = r /\ r.kind = "remove"
    BY <1>2, <1>4, <1>8
  <2> QED  BY <1>9, <2>1 DEF CallTells
<1> QED  BY <1>4, <1>10, ToCall

LEMMA DeleteInTurn ==
  ASSUME Inv, InTurn, NEW c \in Calls, ~disturbed, DeleteMember(c)
  PROVE  InTurn'
<1> DEFINE e == call[c].element
           rec == [call[c] EXCEPT !.stage = "answered"]
<1>1. /\ call[c].kind = "remove" /\ call[c].stage = "sent" /\ call' = [call EXCEPT ![c] = rec]
      /\ stored' = [stored EXCEPT ![call[c].ws][e] = Absent]
      /\ UNCHANGED <<active, primed, cache, timer, members, notesOf, want>>
  BY DEF DeleteMember, Stage, layout
<1>2. Busy = {c} /\ Ticking = {} /\ RemoveTells(call[c])
  <2>1. call[c] # NoCall
    BY <1>1 DEF NoCall
  <2> QED  BY <1>1, <2>1, OneAtATime DEF CallTells
<1>3. /\ e \in Elements /\ active \in Workspaces /\ call[c] \in CallType
      /\ stored \in [Workspaces -> [Elements -> Position]]
  BY <1>1, Calling DEF CallInv, Inv, TypeOK
<1>4. rec.kind = "remove" /\ rec.ws = call[c].ws /\ rec.stage = "answered" /\ rec.element = e
  BY <1>1, <1>3 DEF CallType
<1> HIDE DEF rec, e
<1>5. Busy' = {c} /\ Ticking' = {} /\ call'[c] = rec
  BY <1>1, <1>2, <1>4, Goes
<1>6. /\ call[c].ws = active /\ Home /\ \A d \in Elements : Shown(stored, d)
      /\ StoredBut(e, Absent)
  BY <1>1, <1>2 DEF RemoveTells, e
<1>7. /\ \A w \in Workspaces, d \in Elements : (w = active /\ d = e) \/ stored'[w][d] = stored[w][d]
      /\ stored'[active][e] = Absent
  BY <1>1, <1>3, <1>6
<1>8. Home' /\ Stored'
  BY <1>1, <1>6, <1>7 DEF Home, Stored, StoredBut
<1>9. ASSUME NEW d \in Elements PROVE d = e \/ Shown(stored, d)'
  <2>1. d = e \/ stored'[active][d] = stored[active][d]
    BY <1>3, <1>7
  <2> QED  BY <1>1, <1>6, <2>1 DEF Shown
<1>10. PICK r : r = rec
  OBVIOUS
<1>11. RemoveTells(r)'
  <2>1. r.ws = active' /\ r.stage = "answered" /\ r.element = e /\ (stored[active][r.element] = Absent)'
    BY <1>1, <1>4, <1>6, <1>7, <1>10 DEF Absent
  <2>2. (\A d \in Elements : d = r.element \/ Shown(stored, d))'
    BY <1>9, <2>1
  <2> QED  BY <1>8, <2>1, <2>2 DEF RemoveTells
<1>12. CallTells(call[c])'
  <2>1. call'[c] = r /\ r.kind = "remove"
    BY <1>4, <1>5, <1>10
  <2> QED  BY <1>11, <2>1 DEF CallTells
<1> QED  BY <1>5, <1>12, ToCall

LEMMA HideInTurn ==
  ASSUME Inv, InTurn, NEW c \in Calls, ~disturbed, HideRemoved(c)
  PROVE  InTurn'
<1> DEFINE e == call[c].element
<1>1. /\ call[c].kind = "remove" /\ call[c].stage = "answered" /\ End(c) /\ members' = members \ {e}
      /\ UNCHANGED <<stored, active, primed, cache, timer, notesOf, want>>
  BY DEF HideRemoved, layout
<1>2. Busy = {c} /\ Ticking = {} /\ RemoveTells(call[c])
  <2>1. call[c] # NoCall
    BY <1>1 DEF NoCall
  <2> QED  BY <1>1, <2>1, OneAtATime DEF CallTells
<1>3. /\ Home /\ Stored /\ stored[active][e] = Absent
      /\ \A d \in Elements : d = e \/ Shown(stored, d)
  BY <1>1, <1>2 DEF RemoveTells
<1> HIDE DEF e
<1>4. Home' /\ Stored' /\ (\A d \in Elements : Shown(stored, d))'
  BY <1>1, <1>3 DEF Home, Stored, Shown
<1>5. Busy' = {} /\ Ticking' = {}
  BY <1>1, <1>2, Ends DEF Ticking
<1> QED  BY <1>4, <1>5, ToQuiet

LEMMA InitialInTurn == Init => InTurn
<1> SUFFICES ASSUME Init PROVE InTurn
  OBVIOUS
<1>1. Busy = {} /\ Ticking = {}
  BY DEF Init, Busy, Ticking
<1>2. Home /\ Stored /\ \A d \in Elements : Shown(stored, d)
  BY DEF Init, Home, Stored, Shown, On
<1> QED  BY <1>1, <1>2 DEF InTurn, Alone, Quiet

LEMMA SameInTurn ==
  ASSUME InTurn, UNCHANGED vars PROVE InTurn'
<1>1. UNCHANGED <<stored, active, primed, cache, timer, members, notesOf, call, want, disturbed>>
  BY DEF vars, layout, bounds
<1>2. UNCHANGED <<Busy, Ticking, Home, Stored>> /\ \A d : UNCHANGED <<Shown(stored, d), Shown(want, d)>>
  BY <1>1 DEF Busy, Ticking, Home, Stored, Shown
<1>3. \A e, p : UNCHANGED StoredBut(e, p)
  BY <1>1 DEF StoredBut
<1>4. \A w, e, p : UNCHANGED DragTells(w, e, p)
  BY <1>1, <1>2, <1>3 DEF DragTells
<1>5. \A rec : UNCHANGED <<LoadTells(rec), AddTells(rec), RemoveTells(rec)>>
  BY <1>1, <1>2, <1>3 DEF LoadTells, AddTells, RemoveTells
<1>6. \A rec : UNCHANGED CallTells(rec)
  BY <1>4, <1>5 DEF CallTells
<1> QED  BY <1>1, <1>2, <1>4, <1>6 DEF InTurn, Alone, Quiet

LEMMA InTurnInductive ==
  ASSUME Inv, InTurn, [Next]_vars PROVE InTurn'
<1>1. CASE UNCHANGED vars
  BY <1>1, SameInTurn
<1>2. CASE disturbed'
  BY <1>2 DEF InTurn
<1>3. CASE Next /\ ~disturbed'
  <2>1. ASSUME NEW c \in Calls, Proceed(c) PROVE InTurn'
    <3>1. ~disturbed
      BY <1>3, <2>1 DEF Proceed, ReloadLayout, FetchMembers, ShowMembers, ShowNotes, Update, InsertMember,
                        ShowAdded, DeleteMember, HideRemoved, bounds
    <3> QED  BY <2>1, <3>1, LoadingInTurn, UpdateInTurn, InsertInTurn, AddedInTurn, DeleteInTurn,
                HideInTurn DEF Proceed
  <2>2. ASSUME NEW c \in Calls, NEW e \in Elements, Fire(c, e) PROVE InTurn'
    <3>1. ~disturbed
      BY <1>3, <2>2 DEF Fire, bounds
    <3> QED  BY <2>2, <3>1, FireInTurn
  <2>3. ASSUME NEW c \in Calls, Reload(c) \/ (\E w \in Workspaces : Switch(c, w)) PROVE InTurn'
    BY <1>3, <2>3, LoadsBeginInTurn
  <2>4. ASSUME NEW c \in Calls, NEW e \in Elements, Add(c, e) \/ Remove(c, e) PROVE InTurn'
    BY <1>3, <2>4, AddInTurn, RemoveInTurn
  <2>5. ASSUME NEW e \in Elements, Drag(e) PROVE InTurn'
    BY <1>3, <2>5, DragInTurn
  <2>6. \A c \in Calls : ~Fail(c)
    BY <1>3 DEF Fail
  <2> QED  BY <1>3, <2>1, <2>2, <2>3, <2>4, <2>5, <2>6 DEF Next
<1> QED  BY <1>1, <1>2, <1>3

(* As long as calls do not overlap and none fails, whenever nothing is under way the store has what
   the user last asked for and the canvas shows the active workspace as it is stored. *)
THEOREM CanvasInTurn == Spec => []CallsInTurnAgree
<1>1. Inv /\ InTurn => CallsInTurnAgree
  <2> SUFFICES ASSUME Inv, InTurn, Quiet, ~disturbed
               PROVE  /\ stored = want /\ primed = active /\ notesOf = active
                      /\ members = On(stored[active])
                      /\ \A e \in members : cache[e] = stored[active][e]
    BY DEF CallsInTurnAgree, StoreFollowsUser, CanvasFollowsStore, Settled
  <2>1. Home /\ Stored /\ \A d \in Elements : Shown(stored, d)
    BY DEF InTurn
  <2>2. /\ stored \in [Workspaces -> [Elements -> Position]] /\ want \in [Workspaces -> [Elements -> Position]]
        /\ members \subseteq Elements
    BY DEF Inv, TypeOK
  <2>3. stored = want
    <3>1. \A w \in Workspaces : stored[w] = want[w]
      BY <2>1, <2>2 DEF Stored
    <3> QED  BY <2>2, <3>1
  <2>4. members = On(stored[active]) /\ \A e \in members : cache[e] = stored[active][e]
    BY <2>1, <2>2 DEF Shown, On
  <2> QED  BY <2>1, <2>3, <2>4 DEF Home
<1>2. Init => InTurn
  BY InitialInTurn
<1>3. Inv /\ InTurn /\ [Next]_vars => InTurn'
  BY InTurnInductive
<1> QED  BY <1>1, <1>2, <1>3, InvHolds, PTL DEF Spec
=============================================================================

------------------------ MODULE WorkspaceMembership ------------------------
(***************************************************************************)
(* The rows that place elements on one workspace's canvas, and the calls   *)
(* of the SPARQL connector that read, add, move and remove them            *)
(* (services/sparql-connector.ts, addWorkspaceMember and the functions     *)
(* after it).  A row's subject is made of local names only, so elements    *)
(* of one name in two namespaces compete for it; each call finds out with  *)
(* several requests which subject is its own before it writes.             *)
(***************************************************************************)
EXTENDS Naturals, Sequences, FiniteSets, SequencesExt

CONSTANTS
  Elements,
  Names,       \* local names
  NameOf,      \* the local name of each element
  Positions,
  Calls,       \* calls of the connector that may be under way at once
  MaxCalls,    \* bound on the calls made
  ChunkSize    \* WORKSPACE_MEMBERS_CHUNK_SIZE

ASSUME MembershipAssumption ==
  /\ NameOf \in [Elements -> Names] /\ Names \cap Elements = {}
  /\ MaxCalls \in Nat
  /\ ChunkSize \in Nat \ {0}

VARIABLES
  rows,        \* the triples of each subject in GraphDB
  call,        \* the calls under way
  made         \* number of calls made

vars == <<rows, call, made>>
-----------------------------------------------------------------------------
\* workspaceMembershipIri and workspaceMembershipIriDisambiguated.  Hashes do not collide here.
Legacy(e) == NameOf[e]
Hashed(e) == e
Subjects == Names \cup Elements

\* The elements and positions a subject has: two positions are two values of x and of y.
NoRow == [elements |-> {}, positions |-> {}]
Owned(rs, s, e) == e \in rs[s].elements
Taken(rs, s) == rs[s].elements # {}

Item(e, p) == [element |-> e, position |-> p]
Idle == [pc |-> "idle", op |-> "none", items |-> <<>>, subject |-> "none"]
Begin(op, items, pc) == [pc |-> pc, op |-> op, items |-> items, subject |-> "none"]
E(c) == call[c].items[1].element
P(c) == call[c].items[1].position

Init ==
  /\ rows = [s \in Subjects |-> NoRow]
  /\ call = [c \in Calls |-> Idle]
  /\ made = 0

\* INSERT DATA adds to what the subject has.
Inserted(rs, s, item) ==
  [rs EXCEPT ![s].elements = @ \cup {item.element}, ![s].positions = @ \cup {item.position}]

\* The DELETE/INSERT of a position update replaces all the subject has.
Replaced(rs, s, item) ==
  [rs EXCEPT ![s] = [elements |-> {item.element}, positions |-> {item.position}]]

New(c) ==
  /\ made < MaxCalls /\ made' = made + 1
  /\ call[c] = Idle

\* addWorkspaceMember and updateWorkspaceMemberPosition begin with resolveMembershipIri.
Started(c, op, e, p) == call' = [call EXCEPT ![c] = Begin(op, <<Item(e, p)>>, "hashed?")]

Resolve(c, op, e, p) ==
  /\ New(c)
  /\ Started(c, op, e, p)
  /\ UNCHANGED rows

Write == [add |-> "exists?", update |-> "write"]
Found(c, s) == call' = [call EXCEPT ![c].pc = Write[call[c].op], ![c].subject = s]
Ask(c, pc) == call' = [call EXCEPT ![c].pc = pc]

\* Mutant of AskHashed: the disambiguated subject is not looked for.
AskHashed_Skipped(c) ==
  /\ call[c].pc = "hashed?"
  /\ Ask(c, "legacy?")
  /\ UNCHANGED <<rows, made>>

AskHashed(c) ==
  /\ call[c].pc = "hashed?"
  /\ IF Owned(rows, Hashed(E(c)), E(c)) THEN Found(c, Hashed(E(c))) ELSE Ask(c, "legacy?")
  /\ UNCHANGED <<rows, made>>

AskLegacy(c) ==
  /\ call[c].pc = "legacy?"
  /\ IF Owned(rows, Legacy(E(c)), E(c)) THEN Found(c, Legacy(E(c))) ELSE Ask(c, "taken?")
  /\ UNCHANGED <<rows, made>>

AskTaken(c) ==
  /\ call[c].pc = "taken?"
  /\ Found(c, IF Taken(rows, Legacy(E(c))) THEN Hashed(E(c)) ELSE Legacy(E(c)))
  /\ UNCHANGED <<rows, made>>

\* addWorkspaceMember: a member keeps its row.
AskExists(c) ==
  /\ call[c].pc = "exists?"
  /\ IF Owned(rows, call[c].subject, E(c)) THEN call' = [call EXCEPT ![c] = Idle] ELSE Ask(c, "write")
  /\ UNCHANGED <<rows, made>>

\* The update of addWorkspaceMember or of updateWorkspaceMemberPosition.
WriteRow(c) ==
  /\ call[c].pc = "write" /\ call[c].op # "bulk"
  /\ rows' = IF call[c].op = "add" THEN Inserted(rows, call[c].subject, call[c].items[1])
                                   ELSE Replaced(rows, call[c].subject, call[c].items[1])
  /\ call' = [call EXCEPT ![c] = Idle]
  /\ UNCHANGED made

\* removeWorkspaceMember: every row of the element, whatever its subject.
Removed(rs, e) == [s \in Subjects |-> IF Owned(rs, s, e) THEN NoRow ELSE rs[s]]

RemoveMember(c, e) ==
  /\ New(c)
  /\ rows' = Removed(rows, e)
  /\ UNCHANGED call

\* Mutant of BulkStep: an item of the batch does not claim its subject.
BulkStep_NoClaim(acc, item) ==
  IF Owned(acc.known, Hashed(item.element), item.element) \/ Owned(acc.known, Legacy(item.element), item.element)
  THEN acc
  ELSE LET s == IF Taken(acc.known, Legacy(item.element)) THEN Hashed(item.element) ELSE Legacy(item.element)
       IN  [acc EXCEPT !.out = Append(@, <<s, item>>)]

\* addWorkspaceMembers, its loop over the items: look each one up in what is known so far.
BulkStep(acc, item) ==
  IF Owned(acc.known, Hashed(item.element), item.element) \/ Owned(acc.known, Legacy(item.element), item.element)
  THEN acc
  ELSE LET s == IF Taken(acc.known, Legacy(item.element)) THEN Hashed(item.element) ELSE Legacy(item.element)
       IN  [known |-> [acc.known EXCEPT ![s].elements = {item.element}], out |-> Append(acc.out, <<s, item>>)]

BulkRows(rs, items) == FoldLeft(BulkStep, [known |-> rs, out |-> <<>>], items).out
BulkInserted(rs, new) == FoldLeft(LAMBDA acc, r : Inserted(acc, r[1], r[2]), rs, new)

\* The one SELECT of addWorkspaceMembers and the rows it leads to.
SelectMembers(c, items) ==
  /\ New(c)
  /\ call' = [call EXCEPT ![c] = Begin("bulk", BulkRows(rows, items), "write")]
  /\ UNCHANGED rows

\* One INSERT DATA per chunk of rows.
InsertChunk(c) ==
  /\ call[c].pc = "write" /\ call[c].op = "bulk"
  /\ LET n == IF Len(call[c].items) <= ChunkSize THEN Len(call[c].items) ELSE ChunkSize
         rest == SubSeq(call[c].items, n + 1, Len(call[c].items))
     IN  /\ rows' = BulkInserted(rows, SubSeq(call[c].items, 1, n))
         /\ call' = [call EXCEPT ![c] = IF rest = <<>> THEN Idle ELSE [@ EXCEPT !.items = rest]]
  /\ UNCHANGED made

\* A request of the call fails.
Fail(c) ==
  /\ call[c] # Idle
  /\ call' = [call EXCEPT ![c] = Idle]
  /\ UNCHANGED <<rows, made>>

\* The lists the canvas adds at once: positions on a grid, in any order of the elements.
Item2(e, f, p, q) == <<Item(e, p), Item(f, q)>>

Next ==
  \E c \in Calls :
    \/ \E e \in Elements, p \in Positions : Resolve(c, "add", e, p) \/ Resolve(c, "update", e, p)
    \/ AskHashed(c) \/ AskLegacy(c) \/ AskTaken(c) \/ AskExists(c) \/ WriteRow(c)
    \/ \E e \in Elements : RemoveMember(c, e)
    \/ \E e, f \in Elements, p, q \in Positions : e # f /\ SelectMembers(c, Item2(e, f, p, q))
    \/ InsertChunk(c)
    \/ Fail(c)

Spec == Init /\ [][Next]_vars
-----------------------------------------------------------------------------
\* Types: every variable stays in its domain, and a row is whole or not there: one with a
\* position and no element could not be seen by fetchWorkspaceMembers, nor removed.
TypeOK ==
  /\ rows \in [Subjects -> [elements : SUBSET Elements, positions : SUBSET Positions]]
  /\ \A s \in Subjects : rows[s].elements = {} <=> rows[s].positions = {}
  /\ \A c \in Calls : /\ call[c].pc \in {"idle", "hashed?", "legacy?", "taken?", "exists?", "write"}
                      /\ call[c].op \in {"none", "add", "update", "bulk"}
                      /\ call[c].subject \in Subjects \cup {"none"}
                      /\ call[c].pc # "idle" /\ call[c].op # "bulk" => Len(call[c].items) = 1
  /\ made \in 0..MaxCalls

SubjectsOf(e) == {s \in Subjects : Owned(rows, s, e)}
PositionsOf(e) == UNION {rows[s].positions : s \in SubjectsOf(e)}

\* A member has one row with one position, through re-adds, drags before the first add,
\* removals and a batch, so that fetchWorkspaceMembers returns it once.
OneRowEach ==
  \A e \in Elements : Cardinality(SubjectsOf(e)) <= 1 /\ Cardinality(PositionsOf(e)) <= 1

\* What resolveMembershipIri says it prevents: that two elements of one name share a subject,
\* so that adding or moving one overwrites the other's row.
NoSharedSubject == \A s \in Subjects : Cardinality(rows[s].elements) <= 1

\* The reference for addWorkspaceMembers: addWorkspaceMember, once per item, undisturbed.
AddOne(rs, item) ==
  LET e == item.element
      s == CASE Owned(rs, Hashed(e), e) -> Hashed(e)
             [] ~Owned(rs, Hashed(e), e) /\ ~Owned(rs, Legacy(e), e) /\ Taken(rs, Legacy(e)) -> Hashed(e)
             [] OTHER -> Legacy(e)
  IN  IF Owned(rs, s, e) THEN rs ELSE Inserted(rs, s, item)

\* A batch has the semantics of adding its items one by one, as its comment claims: also for
\* items of one name, for members, and for an item that is in the batch twice.
BatchIsAddRepeated ==
  \A items \in [1..3 -> [element : Elements, position : Positions]] :
    BulkInserted(rows, BulkRows(rows, items)) = FoldLeft(AddOne, rows, items)
=============================================================================

---------------------------- MODULE MCFactEdits ----------------------------
(* Two individuals; a class with every kind of field, and one that shares only a relation. *)
EXTENDS FactEdits, TLC

CONSTANTS h, j, a, b, age, tag, p, q, one, two, u, w

MCIndividuals == {h, j}
MCClasses == {a, b}
MCSingle == {age}
MCRepeatable == {tag}
MCRelations == {p, q}
MCFieldsOf == (a :> {age, tag, p}) @@ (b :> {p})
MCRangeOf == (age :> {one, two}) @@ (tag :> {one}) @@ (p :> {j}) @@ (q :> {j})
MCLabelOf == (p :> "runs on") @@ (q :> "uses")
MCSameLabel == (p :> "runs on") @@ (q :> "runs on")
\* Clients are interchangeable.
MCClients == {u, w}
Alike == Permutations(MCClients)

MCStart == [types |-> {<<h, a>>, <<j, b>>}, facts |-> {<<h, age, one>>, <<h, p, j>>}, statements |-> {}, annotations |-> {}]
=============================================================================

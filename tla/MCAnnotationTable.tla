------------------------- MODULE MCAnnotationTable -------------------------
(* Two individuals, and a fact two annotators met at; the page has two clients, and two more edit. *)
EXTENDS AnnotationTable, TLC

CONSTANTS h, j, a, b, age, tag, p, one, two, u, w, adder, remover

MCIndividuals == {h, j}
MCClasses == {a, b}
MCSingle == {age}
MCRepeatable == {tag}
MCRelations == {p}
MCFieldsOf == (a :> {age, tag, p}) @@ (b :> {p})
MCRangeOf == (age :> {one, two}) @@ (tag :> {one}) @@ (p :> {j})
MCLabelOf == (p :> "runs on")
MCStart == [types |-> {<<h, a>>, <<j, b>>}, facts |-> {<<h, age, one>>, <<h, p, j>>},
            statements |-> {[id |-> n, s |-> h, p |-> age, o |-> one] : n \in {1, 2}},
            annotations |-> {[id |-> 3, on |-> 1], [id |-> 4, on |-> 2]}]

\* The clients that are not the page's are interchangeable.
MCClients == {adder, remover, u, w}
MCUnreliable == {adder, remover}
Alike == Permutations({u, w})
=============================================================================

--------------------------- MODULE MCQueryEdits ----------------------------
(* Two classes that refer to each other and one to itself, one with a text, one with a number. *)
EXTENDS QueryEdits, TLC

CONSTANTS a, b, p, q, r, text, number

MCFields == (a :> {text}) @@ (b :> {number})
MCLinks ==
  {[from |-> a, prop |-> p, dir |-> "forward", to |-> b],
   [from |-> b, prop |-> p, dir |-> "inverse", to |-> a],
   [from |-> b, prop |-> q, dir |-> "forward", to |-> a], [from |-> a, prop |-> r, dir |-> "inverse", to |-> a]}

Hop(n, parent, prop, class) == [id |-> <<"h", n>>, parent |-> parent, prop |-> prop, dir |-> "forward", class |-> class]
Column(n, hop, source) == [id |-> <<"c", n>>, hop |-> hop, source |-> source]
Filter(n, hop, field, op, group) == [id |-> <<"f", n>>, hop |-> hop, field |-> field, op |-> op, group |-> group]

\* A saved query: there and back again, a choice across two hops, sorted and coloured by a number.
Listing ==
  [Empty(a) EXCEPT
     !.hops = {Hop(1, None, p, b), Hop(2, <<"h", 1>>, q, a)},
     !.columns = {Column(1, None, "label"), Column(2, <<"h", 1>>, number)},
     !.filters = {Filter(1, None, text, "is", <<"g", 1>>), Filter(2, <<"h", 2>>, text, "is", <<"g", 1>>)},
     !.sort = {<<"c", 2>>}, !.rules = {<<"c", 2>>}]

\* Typed text: a sum named c3, with a threshold and a sort key.
Statistics(key) ==
  [Empty(a) EXCEPT
     !.hops = {Hop(1, None, p, b)},
     !.columns = {Column(1, None, "label"), Column(2, <<"h", 1>>, number)},
     !.aggregated = TRUE, !.groupBy = {<<"c", 1>>},
     !.measures = {[fn |-> "sum", of |-> <<"c", 2>>, alias |-> <<"c", 3>>]},
     !.having = {<<"c", 3>>}, !.sort = {key}]

\* Sorted by the column the sum is of, the model cannot run and is not loaded.
MCStored == {Listing, Statistics(<<"c", 3>>), Statistics(<<"c", 2>>)}
============================================================================

--------------------------- MODULE MCSchemaEdits ---------------------------
(* Two classes of one namespace and one of another. *)
EXTENDS SchemaEdits, TLC

CONSTANTS n1, n2, a, b, z, x, y

MCNamespaces == {n1, n2}
MCClasses == {a, b, z}
MCHomeOf == (a :> n1) @@ (b :> n1) @@ (z :> n2)
MCNames == {x, y}
MCDrawn == {x}

\* The two classes of one namespace are interchangeable.
Twins == Permutations({a, b})
============================================================================

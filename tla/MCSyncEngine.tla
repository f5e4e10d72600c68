---------------------------- MODULE MCSyncEngine ----------------------------
(* Small instances of SyncEngine for TLC. *)
EXTENDS SyncEngine, TLC

CONSTANTS kA, kB, c1, c2, n1, n2, e1, e2, e3, x, y, t1

Plain == [field |-> "absent", relations |-> {}, annotation |-> None]
OnlyPlain == {Plain}
NoShape == [field |-> "none", relation |-> FALSE, represents |-> FALSE]
NoShapes == [c \in Classes |-> NoShape]

\* Two kinds, an entity each; or one entity alone.
TwoKinds == (e1 :> kA @@ e2 :> kB)
TwoRefs == (e1 :> x @@ e2 :> y)
OneKind == (e1 :> kA)
OneRef == (e1 :> x)

\* Two kinds, an entity each, and a third one: the first, recreated with another uid.
Recreated == (e1 :> kA @@ e2 :> kB @@ e3 :> kA)
RecreatedRefs == (e1 :> x @@ e2 :> y @@ e3 :> x)

\* A value that becomes an array, an annotation that comes and goes, relations across the
\* kinds and to an entity of the same kind.
RelatedContents ==
  {[field |-> "scalar", relations |-> {y}, annotation |-> t1],
   [field |-> "list", relations |-> {x, y}, annotation |-> None]}
RelatedShapes ==
  (c1 :> [field |-> "single", relation |-> TRUE, represents |-> TRUE]) @@
  (c2 :> [field |-> "repeatable", relation |-> TRUE, represents |-> FALSE])

\* Every way to carry the two kinds on the classes, all declared in the first namespace.
MappedSettings ==
  [kind : [Classes -> Kinds \cup {None}], home : {[c \in Classes |-> n1]},
   represents : {FALSE}, targets : {{}}]

\* A class for each kind, both in the first namespace; without and with the annotation.
StartMapped ==
  [kind : {(c1 :> kA @@ c2 :> kB)}, home : {[c \in Classes |-> n1]},
   represents : {FALSE}, targets : {{}}]
StartRepresented ==
  [kind : {(c1 :> kA @@ c2 :> kB)}, home : {[c \in Classes |-> n1]},
   represents : {TRUE}, targets : {Targets}]
=============================================================================

--------------------------- MODULE MCCanvasEdits ---------------------------
(* A page on two classes and an association, one of them with a subclass, an attribute, a relation
   with its reverse and an instance another one points at. *)
EXTENDS CanvasEdits, TLC

CONSTANTS a, b, m, ext, i, j, n

MCClasses == {a, b, m}

Page ==
  [classes |-> {a, b}, attrs |-> {a}, supers |-> {<<b, a>>},
   rels |-> {<<"rel", a, b>>, <<"rev", b, a>>},
   typed |-> (i :> a) @@ (j :> b), facts |-> {<<i, j>>}, notes |-> n :> i]
PageWithLinks ==
  [classes |-> {a, b, m}, attrs |-> {b}, supers |-> {<<a, ext>>},
   rels |-> {<<"l1", m, a>>, <<"l2", m, b>>, <<"l3", m, a>>},
   typed |-> (i :> b) @@ (j :> None), facts |-> {<<i, b>>}, notes |-> n :> m]

MCStores == {Page, PageWithLinks}
MCLinkNames == {"l1", "l2", "l3"}
============================================================================

---------------------------- MODULE MCItemStore ----------------------------
(* Instances of ItemStore for TLC. *)
EXTENDS ItemStoreProperties, TLC

CONSTANTS a, b, x, c1, g1, g2, pa, pb, px, d1, d2, n1, n2, t1, t2

Item(n, t) == [name |-> n, text |-> t]

\* Two rows.  A create, and a patch of b, want the name of a; a patch of a wants
\* the name of b; another patch of b sends a text, which may be what b has; two
\* deletes of a; and looks at the created row and at a.
Requests ==
  c1 :> [kind |-> "create", id |-> x, sent |-> Item(n1, t1)] @@
  g1 :> [kind |-> "get", id |-> x, sent |-> <<>>] @@
  g2 :> [kind |-> "get", id |-> a, sent |-> <<>>] @@
  pa :> [kind |-> "patch", id |-> a, sent |-> "name" :> n2] @@
  pb :> [kind |-> "patch", id |-> b, sent |-> Item(n1, t2)] @@
  px :> [kind |-> "patch", id |-> b, sent |-> "text" :> t2] @@
  d1 :> [kind |-> "delete", id |-> a, sent |-> <<>>] @@
  d2 :> [kind |-> "delete", id |-> a, sent |-> <<>>]

TwoRows == [i \in Id |-> CASE i = a -> Item(n1, t1) [] i = b -> Item(n2, t1) [] OTHER -> NoRow]
=============================================================================

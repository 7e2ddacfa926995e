------------------------------- MODULE MCList -------------------------------
(* Instance of List: four nodes over two lists. *)
EXTENDS List

CONSTANTS n1, n2, n3, n4, l1, l2
MCNodes == {n1, n2, n3, n4}
MCLists == {l1, l2}
=============================================================================

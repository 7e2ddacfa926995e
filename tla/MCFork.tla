------------------------------- MODULE MCFork -------------------------------
(* Instances of Fork: one or two parents. *)
EXTENDS Fork

CONSTANTS p1, p2
OneParent == {p1}
TwoParents == {p1, p2}
=============================================================================

-------------------------------- MODULE MCVm --------------------------------
(* Instances of Vm: two tasks, programs and stacks of two pages. *)
EXTENDS Vm

CONSTANTS a, b
MCTasks == {a, b}

\* A word that is not the number of a page.
Stored == {50}
MCWritten == {6}
AnyFile == {"program", "other"}
MCIncrs == {15, 16}
=============================================================================

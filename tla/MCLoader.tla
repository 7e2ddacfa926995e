------------------------------ MODULE MCLoader ------------------------------
(* Instances of Loader: files of two program headers and their segments. *)
EXTENDS Loader

CONSTANTS a, b
OneTask == {a}
ThreePages == {1, 2, 3}
MCStrings == {<<>>, <<101>>, <<101, 102, 103>>}
NoStrings == {}
TwoTasks == {a, b}

Data(n) == [kind |-> "data", id |-> n]

Header(ok) == [kind |-> "header", ok |-> ok, phnum |-> 2]

Phdr(load, vaddr, offset, pages) ==
  [kind |-> "phdr", load |-> load, vaddr |-> vaddr, offset |-> offset, pages |-> pages]

\* Records 3 and 4 are the data of the first segment, 5 that of the second; the
\* data may also be stored in the other order.
MCVolumes ==
  {<<Header(ok), Phdr(load1, 4, offset, 2), Phdr(load2, 7, 8 - offset, 1), Data(3), Data(4), Data(5)>>
     : ok \in BOOLEAN, load1 \in BOOLEAN, load2 \in BOOLEAN, offset \in {3, 4}}

SmallVolume == {<<[Header(TRUE) EXCEPT !.phnum = 1], Phdr(TRUE, 4, 2, 2), Data(2), Data(3)>>}
=============================================================================

------------------------------- MODULE MCBoot -------------------------------
(* Instance of Boot: RAM from 0 to 6 and, above the hole that ends at 9, 7 or 8 cells. *)
EXTENDS Boot

Region(start, size, usable, ignored) ==
  [start |-> start, size |-> size, usable |-> usable, ignored |-> ignored]

Low == {Region(0, 7, TRUE, FALSE)}
Hole == {Region(7, 2, FALSE, ign) : ign \in BOOLEAN}
Upper == {Region(9, n, TRUE, FALSE) : n \in {7, 8}}
Behind == {Region(17, 3, usable, ign) : usable, ign \in BOOLEAN}

\* Lists that end with any of the ranges, and one that is longer than the table.
MCMaps ==
  UNION {{<<l, h, u>>, <<u, l, h>>, <<l, u, h, b>>, <<l, h, b, u>>, <<l, h, b, b, u>>}
           : l \in Low, h \in Hole, u \in Upper, b \in Behind}

Data(n) == [kind |-> "data", id |-> n]

Phdr(load, paddr, offset, filesz, memsz) ==
  [kind |-> "phdr", load |-> load, paddr |-> paddr, offset |-> offset, filesz |-> filesz,
   memsz |-> memsz]

MCKernels ==
  {<<[kind |-> "header", phnum |-> 2], Phdr(load, 1, offset, 2, memsz),
     Phdr(TRUE, 4, 8 - offset, 1, 1), Data(3), Data(4), Data(5)>>
     : load \in BOOLEAN, offset \in {3, 4}, memsz \in 2 .. 3}
  \union {<<Data(0), Data(1)>>}
=============================================================================

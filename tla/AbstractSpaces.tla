--------------------------- MODULE AbstractSpaces ---------------------------
(***************************************************************************)
(* What virtual memory promises: every task has a space of its own, which  *)
(* only its own stores, its heap's growth and its execve change; fork      *)
(* gives the child a copy.                                                 *)
(***************************************************************************)
CONSTANTS Tasks, UserPages, Unmapped, Image, First

VARIABLE space

NoSpace == [v \in UserPages |-> Unmapped]

Mapped(s) == {v \in UserPages : s[v] # Unmapped}

\* Only the space of t changes.
Only(t) == \A u \in Tasks \ {t} : space'[u] = space[u]

Init ==
  \E t \in Tasks : /\ Mapped(space[t]) = First
                   /\ \A u \in Tasks \ {t} : space[u] = NoSpace

Fork(t, child) ==
  /\ space[t] # NoSpace /\ space[child] = NoSpace
  /\ space'[child] = space[t]
  /\ Only(child)

Exec(t) == Mapped(space'[t]) = Image /\ Only(t)

Grow(t) ==
  /\ Mapped(space[t]) \subseteq Mapped(space'[t])
  /\ \A v \in Mapped(space[t]) : space'[t][v] = space[t][v]
  /\ Only(t)

Store(t, v) ==
  /\ v \in Mapped(space[t])
  /\ Mapped(space'[t]) = Mapped(space[t])
  /\ \A u \in UserPages \ {v} : space'[t][u] = space[t][u]
  /\ Only(t)

Next ==
  \E t \in Tasks :
    /\ space[t] # NoSpace
    /\ \/ \E child \in Tasks : Fork(t, child)
       \/ Exec(t)
       \/ Grow(t)
       \/ \E v \in UserPages : Store(t, v)

Spec == Init /\ [][Next]_space

=============================================================================

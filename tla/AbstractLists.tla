--------------------------- MODULE AbstractLists ----------------------------
(***************************************************************************)
(* What list.h promises: lists of nodes as sequences, a node in at most    *)
(* one of them, and a count that is the length.                            *)
(***************************************************************************)
EXTENDS Naturals, SequencesExt

CONSTANTS Nodes, Lists

VARIABLES seq, size

listVars == <<seq, size>>

Init == seq = [l \in Lists |-> <<>>] /\ size = [l \in Lists |-> 0]

Free(n) == \A l \in Lists : n \notin ToSet(seq[l])

Becomes(l, s) ==
  /\ seq' = [seq EXCEPT ![l] = s]
  /\ size' = [size EXCEPT ![l] = Len(s)]

InsertFirst(l, n) == Free(n) /\ Becomes(l, <<n>> \o seq[l])

InsertLast(l, n) == Free(n) /\ Becomes(l, Append(seq[l], n))

RemoveFirstNode(l) == seq[l] # <<>> /\ Becomes(l, Tail(seq[l]))

Delete(l, n) == n \in ToSet(seq[l]) /\ Becomes(l, RemoveFirst(seq[l], n))

\* A node goes from one list to the tail of another.
Move(l, k, n) ==
  /\ l # k /\ n \in ToSet(seq[l])
  /\ seq' = [seq EXCEPT ![l] = RemoveFirst(@, n), ![k] = Append(@, n)]
  /\ size' = [size EXCEPT ![l] = @ - 1, ![k] = @ + 1]

Next ==
  \/ \E l \in Lists, n \in Nodes : InsertFirst(l, n) \/ InsertLast(l, n) \/ Delete(l, n)
  \/ \E l \in Lists : RemoveFirstNode(l)
  \/ \E l, k \in Lists, n \in Nodes : Move(l, k, n)

Spec == Init /\ [][Next]_listVars

=============================================================================

----------------------------- MODULE ListProofs -----------------------------
(***************************************************************************)
(* Proofs about the doubly linked lists, for any number of nodes and       *)
(* lists: the links always show one sequence of distinct nodes per list,   *)
(* and the functions of list.c are operations on those sequences.          *)
(***************************************************************************)
EXTENDS List, FiniteSetTheorems, SequenceTheorems, Loops

-----------------------------------------------------------------------------
(* Sequences *)

Distinct(s) == \A i, j \in DOMAIN s : s[i] = s[j] => i = j

\* What the links of a list that shows s hold.
HeadOf(s) == IF s = <<>> THEN Null ELSE s[1]
LastOf(s) == IF s = <<>> THEN Null ELSE s[Len(s)]
Behind(s, i) == IF i = Len(s) THEN Null ELSE s[i + 1]
Before(s, i) == IF i = 1 THEN Null ELSE s[i - 1]

\* Adding a node at the tail ...
LEMMA AppendLemma ==
  ASSUME NEW s \in Seq(Nodes), NEW n \in Nodes
  PROVE  LET t == Append(s, n) IN
         /\ t \in Seq(Nodes) /\ Len(t) = Len(s) + 1
         /\ \A i \in 1 .. Len(s) : t[i] = s[i]
         /\ t[Len(s) + 1] = n
         /\ ToSet(t) = ToSet(s) \union {n}
         /\ Distinct(s) /\ n \notin ToSet(s) => Distinct(t)
<1> DEFINE t == Append(s, n)
<1>1. /\ t \in Seq(Nodes) /\ Len(t) = Len(s) + 1 /\ Len(s) \in Nat
      /\ \A i \in 1 .. Len(s) : t[i] = s[i]
      /\ t[Len(s) + 1] = n
      /\ DOMAIN s = 1 .. Len(s) /\ DOMAIN t = 1 .. Len(s) + 1
  OBVIOUS
<1> HIDE DEF t
<1>2. ToSet(t) = ToSet(s) \union {n}
  BY <1>1 DEF ToSet
<1>3. Distinct(s) /\ n \notin ToSet(s) => Distinct(t)
  BY <1>1 DEF ToSet, Distinct
<1> QED
  BY <1>1, <1>2, <1>3 DEF t

\* ... or at the head.
LEMMA PrependLemma ==
  ASSUME NEW s \in Seq(Nodes), NEW n \in Nodes
  PROVE  LET t == <<n>> \o s IN
         /\ t \in Seq(Nodes) /\ Len(t) = Len(s) + 1
         /\ t[1] = n
         /\ \A i \in 1 .. Len(s) : t[i + 1] = s[i]
         /\ ToSet(t) = ToSet(s) \union {n}
         /\ Distinct(s) /\ n \notin ToSet(s) => Distinct(t)
<1> DEFINE t == <<n>> \o s
<1>1. /\ t \in Seq(Nodes) /\ Len(t) = Len(s) + 1 /\ Len(s) \in Nat
      /\ \A i \in 1 .. 1 + Len(s) : t[i] = IF i <= 1 THEN n ELSE s[i - 1]
      /\ DOMAIN s = 1 .. Len(s)
  <2>1. <<n>> \in Seq(Nodes) /\ Len(<<n>>) = 1 /\ <<n>>[1] = n
    OBVIOUS
  <2>2. /\ t \in Seq(Nodes) /\ Len(t) = Len(<<n>>) + Len(s)
        /\ \A i \in 1 .. Len(<<n>>) + Len(s) :
             t[i] = IF i <= Len(<<n>>) THEN <<n>>[i] ELSE s[i - Len(<<n>>)]
    BY <2>1, ConcatProperties
  <2>3. Len(s) \in Nat /\ DOMAIN s = 1 .. Len(s)
    OBVIOUS
  <2> HIDE DEF t
  <2> QED
    BY <2>1, <2>2, <2>3
<1> HIDE DEF t
<1>2. DOMAIN t = 1 .. Len(s) + 1 /\ t[1] = n
  BY <1>1
<1>3. ASSUME NEW i \in 1 .. Len(s)
      PROVE  t[i + 1] = s[i]
  <2>1. i + 1 \in 1 .. 1 + Len(s) /\ ~(i + 1 <= 1) /\ (i + 1) - 1 = i
    BY <1>1
  <2> QED
    BY <1>1, <2>1
<1>4. ASSUME NEW i \in 1 .. Len(s) + 1
      PROVE  i = 1 \/ (i - 1 \in 1 .. Len(s) /\ t[i] = s[i - 1])
  BY <1>1
<1>5. ToSet(t) = ToSet(s) \union {n}
  <2>1. \A i \in DOMAIN s : i + 1 \in DOMAIN t /\ t[i + 1] = s[i]
    BY <1>1, <1>2, <1>3
  <2>2. \A i \in DOMAIN t : t[i] = n \/ (i - 1 \in DOMAIN s /\ t[i] = s[i - 1])
    BY <1>1, <1>2, <1>4
  <2>3. 1 \in DOMAIN t
    BY <1>1, <1>2
  <2> QED
    BY <1>2, <2>1, <2>2, <2>3 DEF ToSet
<1>6. ASSUME Distinct(s), n \notin ToSet(s)
      PROVE  Distinct(t)
  <2> SUFFICES ASSUME NEW i \in 1 .. Len(s) + 1, NEW j \in 1 .. Len(s) + 1, t[i] = t[j]
               PROVE  i = j
    BY <1>2 DEF Distinct
  <2>1. \A k \in 1 .. Len(s) : s[k] # n
    BY <1>1, <1>6 DEF ToSet
  <2>2. CASE i = 1 \/ j = 1
    BY <1>2, <1>4, <2>1, <2>2
  <2>3. CASE i # 1 /\ j # 1
    <3>1. /\ i - 1 \in 1 .. Len(s) /\ t[i] = s[i - 1]
          /\ j - 1 \in 1 .. Len(s) /\ t[j] = s[j - 1]
      BY <1>4, <2>3
    <3>2. i - 1 = j - 1
      BY <1>1, <1>6, <3>1 DEF Distinct
    <3> QED
      BY <1>1, <3>2
  <2> QED
    BY <2>2, <2>3
<1> QED
  BY <1>1, <1>2, <1>3, <1>5, <1>6 DEF t

\* Removing the node at place i.
LEMMA RemoveLemma ==
  ASSUME NEW s \in Seq(Nodes), NEW i \in 1 .. Len(s), Distinct(s)
  PROVE  LET r == RemoveAt(s, i) IN
         /\ r \in Seq(Nodes) /\ Len(r) = Len(s) - 1
         /\ \A k \in 1 .. Len(s) - 1 : r[k] = IF k < i THEN s[k] ELSE s[k + 1]
         /\ ToSet(r) = ToSet(s) \ {s[i]}
         /\ Distinct(r)
         /\ r = RemoveFirst(s, s[i])
         /\ i = 1 => r = Tail(s)
<1> DEFINE r == RemoveAt(s, i)
           a == SubSeq(s, 1, i - 1)
           b == SubSeq(s, i + 1, Len(s))
<1>1. Len(s) \in Nat /\ DOMAIN s = 1 .. Len(s) /\ i \in Nat /\ \A k \in 1 .. Len(s) : s[k] \in Nodes
  OBVIOUS
<1>2. r = a \o b
  BY DEF RemoveAt
<1>3. a \in Seq(Nodes) /\ Len(a) = i - 1 /\ \A k \in 1 .. i - 1 : a[k] = s[k]
  <2>1. \A k \in 1 .. i - 1 : s[k] \in Nodes
    BY <1>1
  <2> QED
    BY <1>1, <2>1, SubSeqProperties
<1>4. b \in Seq(Nodes) /\ Len(b) = Len(s) - i /\ \A k \in 1 .. Len(s) - i : b[k] = s[k + i]
  <2>1. \A k \in i + 1 .. Len(s) : s[k] \in Nodes
    BY <1>1
  <2>2. i + 1 \in Int /\ Len(s) \in Int
    BY <1>1
  <2>3. /\ b \in Seq(Nodes)
        /\ Len(b) = IF i + 1 <= Len(s) THEN Len(s) - (i + 1) + 1 ELSE 0
        /\ \A k \in 1 .. Len(s) - (i + 1) + 1 : b[k] = s[(i + 1) + k - 1]
    BY <2>1, <2>2, SubSeqProperties
  <2>4. Len(s) - (i + 1) + 1 = Len(s) - i /\ (i + 1 <= Len(s) \/ Len(s) - i = 0)
    <3>1. \A m \in Nat : \A k \in 1 .. m : m - (k + 1) + 1 = m - k /\ (k + 1 <= m \/ m - k = 0)
      OBVIOUS
    <3> QED
      BY <1>1, <3>1
  <2>5. \A k \in 1 .. Len(s) - i : (i + 1) + k - 1 = k + i
    BY <1>1
  <2> HIDE DEF b
  <2> QED
    BY <2>3, <2>4, <2>5
<1> HIDE DEF a, b, r
<1>5. /\ r \in Seq(Nodes) /\ Len(r) = Len(a) + Len(b)
      /\ \A k \in 1 .. Len(a) + Len(b) : r[k] = IF k <= Len(a) THEN a[k] ELSE b[k - Len(a)]
  BY <1>2, <1>3, <1>4, ConcatProperties
<1>6. Len(r) = Len(s) - 1 /\ DOMAIN r = 1 .. Len(s) - 1
  BY <1>1, <1>3, <1>4, <1>5
<1>7. \A k \in 1 .. Len(s) - 1 : r[k] = IF k < i THEN s[k] ELSE s[k + 1]
  <2> TAKE k \in 1 .. Len(s) - 1
  <2>1. k \in 1 .. Len(a) + Len(b) /\ (k <= Len(a) <=> k < i) /\ k \in Nat
    BY <1>1, <1>3, <1>4
  <2>2. r[k] = IF k < i THEN a[k] ELSE b[k - Len(a)]
    BY <1>5, <2>1
  <2>3. CASE k < i
    <3>1. k \in 1 .. i - 1
      BY <1>1, <2>3, <2>1
    <3> QED
      BY <1>3, <2>3, <2>2, <3>1
  <2>4. CASE k >= i
    <3>1. k - Len(a) \in 1 .. Len(s) - i /\ (k - Len(a)) + i = k + 1
      BY <1>1, <1>3, <2>4
    <3>2. r[k] = b[k - Len(a)]
      BY <1>1, <2>4, <2>1, <2>2
    <3>3. b[k - Len(a)] = s[k + 1]
      BY <1>4, <3>1
    <3> QED
      BY <1>1, <2>4, <3>2, <3>3
  <2> QED
    BY <1>1, <2>3, <2>4
<1> DEFINE place(k) == IF k < i THEN k ELSE k + 1
<1>8. \A k \in 1 .. Len(s) - 1 : place(k) \in 1 .. Len(s) /\ place(k) # i /\ r[k] = s[place(k)]
  BY <1>1, <1>7
<1>9. Distinct(r)
  <2> SUFFICES ASSUME NEW j \in 1 .. Len(s) - 1, NEW k \in 1 .. Len(s) - 1, r[j] = r[k]
               PROVE  j = k
    BY <1>6 DEF Distinct
  <2>1. place(j) = place(k)
    BY <1>1, <1>8 DEF Distinct
  <2> QED
    BY <1>1, <2>1
<1>10. ToSet(r) = ToSet(s) \ {s[i]}
  <2>1. ASSUME NEW k \in DOMAIN r
        PROVE  r[k] \in ToSet(s) \ {s[i]}
    <3>1. place(k) \in 1 .. Len(s) /\ place(k) # i /\ r[k] = s[place(k)]
      BY <1>6, <1>8
    <3> HIDE DEF place
    <3>2. s[place(k)] # s[i]
      BY <1>1, <3>1 DEF Distinct
    <3> QED
      BY <1>1, <3>1, <3>2 DEF ToSet
  <2>2. ASSUME NEW k \in DOMAIN s, s[k] # s[i]
        PROVE  s[k] \in ToSet(r)
    <3>1. CASE k < i
      <4>1. k \in DOMAIN r /\ r[k] = s[k]
        BY <1>1, <1>6, <1>7, <3>1
      <4> QED
        BY <4>1 DEF ToSet
    <3>2. CASE k > i
      <4>1. k - 1 \in DOMAIN r /\ r[k - 1] = s[k]
        BY <1>1, <1>6, <1>7, <3>2
      <4> QED
        BY <4>1 DEF ToSet
    <3> QED
      BY <1>1, <2>2, <3>1, <3>2
  <2> QED
    BY <2>1, <2>2 DEF ToSet
<1>11. r = RemoveFirst(s, s[i])
  <2> DEFINE I == {k \in 1 .. Len(s) : s[k] = s[i]}
  <2>1. I = {i}
    BY <1>1 DEF Distinct
  <2>2. Min(I) = i
    <3>1. \A y \in {i} : i <= y
      BY <1>1
    <3> HIDE DEF I
    <3> QED
      BY <2>1, <3>1 DEF Min
  <2>3. RemoveFirst(s, s[i]) = RemoveAt(s, IF I # {} THEN Min(I) ELSE 0)
    BY DEF RemoveFirst, SelectInSeq
  <2> HIDE DEF I
  <2> QED
    BY <2>1, <2>2, <2>3 DEF r
<1>12. i = 1 => r = Tail(s)
  <2> SUFFICES ASSUME i = 1 PROVE r = Tail(s)
    OBVIOUS
  <2>1. /\ Tail(s) \in Seq(Nodes) /\ Len(Tail(s)) = Len(s) - 1
        /\ \A k \in 1 .. Len(s) - 1 : Tail(s)[k] = s[k + 1]
    <3>1. s # <<>>
      OBVIOUS
    <3> QED
      BY <3>1
  <2>2. \A k \in 1 .. Len(s) - 1 : r[k] = s[k + 1]
    BY <1>7
  <2> QED
    BY <1>5, <1>6, <2>1, <2>2, SeqEqual
<1> QED
  BY <1>5, <1>6, <1>7, <1>9, <1>10, <1>11, <1>12 DEF r

-----------------------------------------------------------------------------
(* The walk from the first node *)

\* Reach and Content, as functions of first and next.
Turn(at, f, x) ==
  [i \in 1 .. Cardinality(Nodes) + 1 |->
     IF i = 1 THEN f ELSE IF at[i - 1] = Null THEN Null ELSE x[at[i - 1]]]

ReachFrom(f, x) == CHOOSE at : at = Turn(at, f, x)

ContentFrom(f, x) ==
  [i \in 1 .. Cardinality({k \in DOMAIN ReachFrom(f, x) : ReachFrom(f, x)[k] # Null})
     |-> ReachFrom(f, x)[i]]

\* The links x behind f show s.
Chain(s, f, x) == f = HeadOf(s) /\ \A i \in 1 .. Len(s) : x[s[i]] = Behind(s, i)

\* A list of distinct nodes is no longer than there are nodes.
LEMMA LengthLemma ==
  ASSUME NEW s \in Seq(Nodes), Distinct(s)
  PROVE  Cardinality(Nodes) \in Nat /\ Len(s) <= Cardinality(Nodes)
<1>1. Len(s) \in Nat /\ DOMAIN s = 1 .. Len(s) /\ s \in [1 .. Len(s) -> Nodes]
  OBVIOUS
<1>2. s \in Injection(1 .. Len(s), Nodes)
  BY <1>1 DEF Injection, IsInjective, Distinct
<1>3. Cardinality(1 .. Len(s)) <= Cardinality(Nodes)
  BY <1>2, ListAssumption, FS_Injection
<1>4. Cardinality(1 .. Len(s)) = Len(s)
  BY <1>1, FS_Interval
<1> QED
  BY <1>3, <1>4, ListAssumption, FS_CardinalityType

\* The nodes reached, as the sequence that is shown says: then the null pointer.
Reached(s) == [i \in 1 .. Cardinality(Nodes) + 1 |-> IF i <= Len(s) THEN s[i] ELSE Null]

\* Following the links reaches these ...
LEMMA ReachedIsAFixpoint ==
  ASSUME NEW s \in Seq(Nodes), Distinct(s), NEW f, NEW x, Chain(s, f, x)
  PROVE  Reached(s) = Turn(Reached(s), f, x)
<1>1. /\ Len(s) \in Nat /\ Cardinality(Nodes) \in Nat /\ Len(s) <= Cardinality(Nodes)
      /\ \A i \in 1 .. Len(s) : s[i] \in Nodes /\ s[i] # Null
      /\ s = <<>> <=> Len(s) = 0
  BY LengthLemma, ListAssumption
<1>2. /\ f = IF Len(s) = 0 THEN Null ELSE s[1]
      /\ \A i \in 1 .. Len(s) : x[s[i]] = IF i = Len(s) THEN Null ELSE s[i + 1]
  BY <1>1 DEF Chain, HeadOf, Behind
<1> DEFINE R == Reached(s)
<1>3. \A i \in 1 .. Cardinality(Nodes) + 1 : R[i] = IF i <= Len(s) THEN s[i] ELSE Null
  BY DEF Reached
<1>4. ASSUME NEW i \in 1 .. Cardinality(Nodes) + 1
      PROVE  R[i] = IF i = 1 THEN f ELSE IF R[i - 1] = Null THEN Null ELSE x[R[i - 1]]
  <2>1. CASE i = 1
    BY <1>1, <1>2, <1>3, <2>1
  <2>2. CASE i # 1
    <3>1. i - 1 \in 1 .. Cardinality(Nodes) + 1 /\ (i - 1) + 1 = i
      BY <1>1, <2>2
    <3>2. R[i - 1] = IF i - 1 <= Len(s) THEN s[i - 1] ELSE Null
      BY <1>3, <3>1
    <3>3. CASE i - 1 <= Len(s)
      <4>1. /\ i - 1 \in 1 .. Len(s) /\ R[i - 1] = s[i - 1] /\ s[i - 1] # Null
            /\ x[s[i - 1]] = IF i - 1 = Len(s) THEN Null ELSE s[(i - 1) + 1]
        BY <1>1, <1>2, <3>1, <3>2, <3>3
      <4>2. i - 1 = Len(s) <=> ~(i <= Len(s))
        BY <1>1, <3>1, <3>3
      <4> HIDE DEF R
      <4> QED
        BY <1>3, <2>2, <3>1, <4>1, <4>2
    <3>4. CASE ~(i - 1 <= Len(s))
      <4>1. ~(i <= Len(s))
        BY <1>1, <3>4
      <4> HIDE DEF R
      <4> QED
        BY <1>3, <2>2, <3>2, <3>4, <4>1
    <3> QED
      BY <3>3, <3>4
  <2> QED
    BY <2>1, <2>2
<1>5. R = [i \in 1 .. Cardinality(Nodes) + 1 |-> R[i]]
  BY DEF Reached
<1> QED
  BY <1>4, <1>5 DEF Turn

\* ... and only these: by induction along the list.
LEMMA FixpointIsReached ==
  ASSUME NEW s \in Seq(Nodes), Distinct(s), NEW f, NEW x, Chain(s, f, x),
         NEW at, at = Turn(at, f, x)
  PROVE  at = Reached(s)
<1> DEFINE N == Cardinality(Nodes)
           R == Reached(s)
           Wrong == {i \in 1 .. N + 1 : at[i] # R[i]}
<1>1. R = Turn(R, f, x) /\ N \in Nat
  BY ReachedIsAFixpoint, LengthLemma
<1> HIDE DEF R
<1>2. \A i \in 1 .. N + 1 :
        /\ at[i] = IF i = 1 THEN f ELSE IF at[i - 1] = Null THEN Null ELSE x[at[i - 1]]
        /\ R[i] = IF i = 1 THEN f ELSE IF R[i - 1] = Null THEN Null ELSE x[R[i - 1]]
  BY <1>1 DEF Turn
<1> HIDE DEF N
<1>3. Wrong = {}
  <2> SUFFICES ASSUME Wrong # {} PROVE FALSE
    OBVIOUS
  <2>1. PICK i \in Wrong : \A j \in Wrong : i <= j
    <3>1. Wrong \in SUBSET Nat
      BY <1>1
    <3> HIDE DEF Wrong
    <3> QED
      BY <3>1, LeastLemma
  <2>2. i \in 1 .. N + 1 /\ at[i] # R[i]
    BY <2>1
  <2>3. i # 1
    BY <1>2, <2>2
  <2>4. i - 1 \in 1 .. N + 1 /\ ~(i <= i - 1)
    BY <1>1, <2>2, <2>3
  <2>5. at[i - 1] = R[i - 1]
    BY <2>1, <2>4
  <2> QED
    BY <1>2, <2>2, <2>5
<1>4. at = [i \in 1 .. N + 1 |-> at[i]] /\ R = [i \in 1 .. N + 1 |-> R[i]]
  BY <1>1 DEF Turn, N
<1>5. at = R
  BY <1>3, <1>4
<1> QED
  BY <1>5 DEF R

\* So a list shows the sequence its links were made for.
LEMMA ContentLemma ==
  ASSUME NEW s \in Seq(Nodes), Distinct(s), NEW f, NEW x, Chain(s, f, x)
  PROVE  /\ ContentFrom(f, x) = s
         /\ ReachFrom(f, x) = Reached(s)
<1> DEFINE R == Reached(s)
           N == Cardinality(Nodes)
<1>1. ReachFrom(f, x) = R
  <2>1. R = Turn(R, f, x)
    BY ReachedIsAFixpoint
  <2>2. ReachFrom(f, x) = Turn(ReachFrom(f, x), f, x)
    <3> HIDE DEF R
    <3> QED
      BY <2>1 DEF ReachFrom
  <2> QED
    BY <2>2, FixpointIsReached
<1>2. Len(s) \in Nat /\ N \in Nat /\ Len(s) <= N /\ \A i \in 1 .. Len(s) : s[i] # Null
  BY LengthLemma, ListAssumption
<1>3. DOMAIN R = 1 .. N + 1 /\ \A i \in 1 .. N + 1 : R[i] = IF i <= Len(s) THEN s[i] ELSE Null
  BY DEF Reached
<1> HIDE DEF R, N
<1>4. {k \in DOMAIN R : R[k] # Null} = 1 .. Len(s)
  BY <1>2, <1>3
<1>5. Cardinality(1 .. Len(s)) = Len(s)
  <2>1. \A k \in Nat : Cardinality(1 .. k) = k
    BY FS_Interval
  <2> QED
    BY <1>2, <2>1
<1>6. ContentFrom(f, x) = [i \in 1 .. Len(s) |-> R[i]]
  BY <1>1, <1>4, <1>5 DEF ContentFrom
<1>7. \A i \in 1 .. Len(s) : R[i] = s[i]
  BY <1>2, <1>3
<1>8. s = [i \in 1 .. Len(s) |-> s[i]]
  OBVIOUS
<1> QED
  BY <1>1, <1>6, <1>7, <1>8 DEF R

\* A node is linked in a list exactly when it is in the sequence.
LEMMA ReachedLemma ==
  ASSUME NEW s \in Seq(Nodes), Distinct(s), NEW n \in Nodes
  PROVE  (\E i \in 1 .. Cardinality(Nodes) : Reached(s)[i] = n) <=> n \in ToSet(s)
<1>1. /\ Len(s) \in Nat /\ Cardinality(Nodes) \in Nat /\ Len(s) <= Cardinality(Nodes)
      /\ DOMAIN s = 1 .. Len(s) /\ n # Null
  BY LengthLemma, ListAssumption
<1>2. \A i \in 1 .. Cardinality(Nodes) : Reached(s)[i] = IF i <= Len(s) THEN s[i] ELSE Null
  BY <1>1 DEF Reached
<1> QED
  BY <1>1, <1>2 DEF ToSet

-----------------------------------------------------------------------------
(* What the links of one list hold *)

Links(s, p, x) == \A i \in 1 .. Len(s) : x[s[i]] = Behind(s, i) /\ p[s[i]] = Before(s, i)

\* A list knows its links from the nodes that are in it.
LEMMA LinksFrame ==
  ASSUME NEW s \in Seq(Nodes), NEW p, NEW x, NEW p2, NEW x2, Links(s, p, x),
         \A q \in ToSet(s) : p2[q] = p[q] /\ x2[q] = x[q]
  PROVE  Links(s, p2, x2)
BY DEF Links, ToSet

\* list_insert_last, seen from the list ...
LEMMA AppendLinks ==
  ASSUME NEW s \in Seq(Nodes), Distinct(s), NEW n \in Nodes, n \notin ToSet(s),
         NEW p, NEW x, NEW p2, NEW x2, Links(s, p, x),
         p2[n] = LastOf(s), \A q \in ToSet(s) : p2[q] = p[q],
         x2[n] = Null, \A q \in ToSet(s) : x2[q] = IF q = LastOf(s) THEN n ELSE x[q]
  PROVE  LET t == Append(s, n) IN
         /\ Links(t, p2, x2)
         /\ HeadOf(t) = IF s = <<>> THEN n ELSE HeadOf(s)
         /\ LastOf(t) = n
<1> DEFINE t == Append(s, n)
<1>1. /\ t \in Seq(Nodes) /\ Len(t) = Len(s) + 1 /\ t # <<>>
      /\ \A i \in 1 .. Len(s) : t[i] = s[i] /\ s[i] \in ToSet(s)
      /\ t[Len(s) + 1] = n /\ DOMAIN s = 1 .. Len(s)
      /\ Len(s) \in Nat /\ (s = <<>> <=> Len(s) = 0)
  BY AppendLemma DEF ToSet
<1> HIDE DEF t
<1>2. ASSUME NEW i \in 1 .. Len(s)
      PROVE  x2[t[i]] = Behind(t, i) /\ p2[t[i]] = Before(t, i)
  <2>1. t[i] = s[i] /\ s[i] \in ToSet(s) /\ x[s[i]] = Behind(s, i) /\ p[s[i]] = Before(s, i)
    BY <1>1 DEF Links
  <2>2. p2[t[i]] = Before(t, i)
    <3>1. CASE i = 1
      BY <2>1, <3>1 DEF Before
    <3>2. CASE i # 1
      <4>1. i - 1 \in 1 .. Len(s)
        BY <1>1, <3>2
      <4> QED
        BY <1>1, <2>1, <3>2, <4>1 DEF Before
    <3> QED
      BY <3>1, <3>2
  <2>3. LastOf(s) = s[Len(s)] /\ Len(s) \in 1 .. Len(s)
    BY <1>1 DEF LastOf
  <2>4. CASE i = Len(s)
    <3>1. i # Len(t) /\ t[i + 1] = n /\ s[i] = LastOf(s)
      BY <1>1, <2>3, <2>4
    <3> QED
      BY <2>1, <2>2, <3>1 DEF Behind
  <2>5. CASE i # Len(s)
    <3>1. s[i] # LastOf(s) /\ i + 1 \in 1 .. Len(s) /\ i # Len(t)
      BY <1>1, <2>3, <2>5 DEF Distinct
    <3> QED
      BY <1>1, <2>1, <2>2, <2>5, <3>1 DEF Behind
  <2> QED
    BY <2>4, <2>5
<1>3. x2[t[Len(s) + 1]] = Behind(t, Len(s) + 1) /\ p2[t[Len(s) + 1]] = Before(t, Len(s) + 1)
  <2>1. Before(t, Len(s) + 1) = LastOf(s)
    <3>1. CASE s = <<>>
      BY <1>1, <3>1 DEF Before, LastOf
    <3>2. CASE s # <<>>
      <4>1. (Len(s) + 1) - 1 = Len(s) /\ Len(s) \in 1 .. Len(s) /\ Len(s) + 1 # 1
        BY <1>1, <3>2
      <4> QED
        BY <1>1, <3>2, <4>1 DEF Before, LastOf
    <3> QED
      BY <3>1, <3>2
  <2> QED
    BY <1>1, <2>1 DEF Behind
<1>4. Links(t, p2, x2)
  <2>1. \A i \in 1 .. Len(t) : i \in 1 .. Len(s) \/ i = Len(s) + 1
    BY <1>1
  <2> QED
    BY <1>2, <1>3, <2>1 DEF Links
<1>5. HeadOf(t) = IF s = <<>> THEN n ELSE HeadOf(s)
  BY <1>1 DEF HeadOf
<1>6. LastOf(t) = n
  BY <1>1 DEF LastOf
<1> QED
  BY <1>4, <1>5, <1>6 DEF t

\* ... list_insert_first ...
LEMMA PrependLinks ==
  ASSUME NEW s \in Seq(Nodes), Distinct(s), NEW n \in Nodes, n \notin ToSet(s),
         NEW p, NEW x, NEW p2, NEW x2, Links(s, p, x),
         x2[n] = HeadOf(s), \A q \in ToSet(s) : x2[q] = x[q],
         p2[n] = Null, \A q \in ToSet(s) : p2[q] = IF q = HeadOf(s) THEN n ELSE p[q]
  PROVE  LET t == <<n>> \o s IN
         /\ Links(t, p2, x2)
         /\ HeadOf(t) = n
         /\ LastOf(t) = IF s = <<>> THEN n ELSE LastOf(s)
<1> DEFINE t == <<n>> \o s
<1>1. /\ t \in Seq(Nodes) /\ Len(t) = Len(s) + 1 /\ t[1] = n /\ DOMAIN s = 1 .. Len(s)
      /\ \A i \in 1 .. Len(s) : t[i + 1] = s[i]
      /\ Len(s) \in Nat /\ (s = <<>> <=> Len(s) = 0)
  <2>1. Len(s) \in Nat /\ (s = <<>> <=> Len(s) = 0) /\ DOMAIN s = 1 .. Len(s)
    OBVIOUS
  <2> HIDE DEF t
  <2> QED
    BY <2>1, PrependLemma DEF t
<1> HIDE DEF t
<1>0. t # <<>> /\ \A i \in 1 .. Len(s) : s[i] \in ToSet(s)
  BY <1>1 DEF ToSet
<1>2. ASSUME NEW i \in 1 .. Len(s)
      PROVE  x2[t[i + 1]] = Behind(t, i + 1) /\ p2[t[i + 1]] = Before(t, i + 1)
  <2>1. t[i + 1] = s[i] /\ s[i] \in ToSet(s) /\ x[s[i]] = Behind(s, i) /\ p[s[i]] = Before(s, i)
    BY <1>0, <1>1 DEF Links
  <2>2. x2[s[i]] = Behind(t, i + 1)
    <3>1. CASE i = Len(s)
      BY <1>1, <2>1, <3>1 DEF Behind
    <3>2. CASE i # Len(s)
      <4>1. i + 1 \in 1 .. Len(s) /\ i + 1 # Len(t)
        BY <1>1, <3>2
      <4> QED
        BY <1>1, <2>1, <3>2, <4>1 DEF Behind
    <3> QED
      BY <3>1, <3>2
  <2>3. HeadOf(s) = s[1] /\ 1 \in 1 .. Len(s) /\ (i + 1) - 1 = i /\ i + 1 # 1
    BY <1>1 DEF HeadOf
  <2>4. CASE i = 1
    BY <1>1, <2>1, <2>2, <2>3, <2>4 DEF Before
  <2>5. CASE i # 1
    <3>1. s[i] # HeadOf(s) /\ i - 1 \in 1 .. Len(s) /\ (i - 1) + 1 = i
      BY <1>1, <2>3, <2>5 DEF Distinct
    <3>2. t[i] = s[i - 1]
      BY <1>1, <3>1
    <3> QED
      BY <1>1, <2>1, <2>2, <2>3, <2>5, <3>1, <3>2 DEF Before
  <2> QED
    BY <2>4, <2>5
<1>3. x2[t[1]] = Behind(t, 1) /\ p2[t[1]] = Before(t, 1)
  <2>1. Behind(t, 1) = HeadOf(s)
    <3>1. CASE s = <<>>
      BY <1>1, <3>1 DEF Behind, HeadOf
    <3>2. CASE s # <<>>
      <4>1. 1 \in 1 .. Len(s) /\ Len(t) # 1
        BY <1>1, <3>2
      <4> QED
        BY <1>1, <3>2, <4>1 DEF Behind, HeadOf
    <3> QED
      BY <3>1, <3>2
  <2> QED
    BY <1>1, <2>1 DEF Before
<1>4. Links(t, p2, x2)
  <2>1. ASSUME NEW i \in 1 .. Len(t)
        PROVE  x2[t[i]] = Behind(t, i) /\ p2[t[i]] = Before(t, i)
    <3>1. CASE i = 1
      BY <1>3, <3>1
    <3>2. CASE i # 1
      <4>1. i - 1 \in 1 .. Len(s) /\ (i - 1) + 1 = i
        BY <1>1, <3>2
      <4>2. x2[t[(i - 1) + 1]] = Behind(t, (i - 1) + 1) /\ p2[t[(i - 1) + 1]] = Before(t, (i - 1) + 1)
        BY <1>2, <4>1
      <4> QED
        BY <4>1, <4>2
    <3> QED
      BY <3>1, <3>2
  <2> QED
    BY <2>1 DEF Links
<1>5. HeadOf(t) = n
  BY <1>0, <1>1 DEF HeadOf
<1>6. LastOf(t) = IF s = <<>> THEN n ELSE LastOf(s)
  <2>1. s # <<>> => Len(s) \in 1 .. Len(s)
    BY <1>1
  <2> QED
    BY <1>0, <1>1, <2>1 DEF LastOf
<1> QED
  BY <1>4, <1>5, <1>6 DEF t

\* ... and list_remove of the node at place i: it is bridged over.
Bridged(s, i, p, x, p2, x2) ==
  \A q \in ToSet(s) \ {s[i]} :
    /\ p2[q] = IF q = Behind(s, i) THEN Before(s, i) ELSE p[q]
    /\ x2[q] = IF q = Before(s, i) THEN Behind(s, i) ELSE x[q]

LEMMA RemoveLinks ==
  ASSUME NEW s \in Seq(Nodes), Distinct(s), NEW i \in 1 .. Len(s),
         NEW p, NEW x, NEW p2, NEW x2, Links(s, p, x), Bridged(s, i, p, x, p2, x2)
  PROVE  LET r == RemoveAt(s, i) IN
         /\ Links(r, p2, x2)
         /\ HeadOf(r) = IF HeadOf(s) = s[i] THEN Behind(s, i) ELSE HeadOf(s)
         /\ LastOf(r) = IF LastOf(s) = s[i] THEN Before(s, i) ELSE LastOf(s)
<1> DEFINE r == RemoveAt(s, i)
           m == Len(s) - 1
<1>1. /\ Len(s) \in Nat /\ DOMAIN s = 1 .. Len(s) /\ i \in Nat /\ 1 <= i /\ i <= Len(s)
      /\ m \in Nat /\ Len(s) = m + 1
      /\ \A k \in 1 .. Len(s) : s[k] \in Nodes /\ s[k] # Null /\ s[k] \in ToSet(s)
      /\ \A j, k \in 1 .. Len(s) : s[j] = s[k] => j = k
  BY ListAssumption DEF Distinct, ToSet
<1>2. /\ r \in Seq(Nodes) /\ Len(r) = m /\ (r = <<>> <=> m = 0)
      /\ \A k \in 1 .. m : r[k] = IF k < i THEN s[k] ELSE s[k + 1]
  <2>1. r \in Seq(Nodes) /\ Len(r) = m
        /\ \A k \in 1 .. m : r[k] = IF k < i THEN s[k] ELSE s[k + 1]
    BY RemoveLemma
  <2> HIDE DEF r
  <2> QED
    BY <2>1
<1> HIDE DEF r, m
<1>3. ASSUME NEW k \in 1 .. m, k < i
      PROVE  x2[r[k]] = Behind(r, k) /\ p2[r[k]] = Before(r, k)
  <2>1. /\ r[k] = s[k] /\ k \in 1 .. Len(s) /\ s[k] \in ToSet(s) \ {s[i]} /\ k # Len(s)
        /\ k \in Nat /\ k + 1 \in 1 .. Len(s)
        /\ x[s[k]] = s[k + 1] /\ p[s[k]] = Before(s, k)
    <3>1. r[k] = s[k] /\ k \in 1 .. Len(s) /\ k # Len(s) /\ k # i /\ k + 1 \in 1 .. Len(s)
      BY <1>1, <1>2, <1>3
    <3>2. x[s[k]] = Behind(s, k) /\ p[s[k]] = Before(s, k)
      BY <3>1 DEF Links
    <3> QED
      BY <1>1, <3>1, <3>2 DEF Behind
  <2>0. /\ p2[s[k]] = IF s[k] = Behind(s, i) THEN Before(s, i) ELSE p[s[k]]
        /\ x2[s[k]] = IF s[k] = Before(s, i) THEN Behind(s, i) ELSE x[s[k]]
    BY <2>1 DEF Bridged
  <2>2. s[k] # Behind(s, i)
    BY <1>1, <1>3, <2>1 DEF Behind
  <2>3. Before(r, k) = Before(s, k)
    <3>1. k = 1 \/ (k - 1 \in 1 .. m /\ k - 1 < i)
      BY <1>1, <1>3, <2>1
    <3> QED
      BY <1>2, <2>1, <3>1 DEF Before
  <2>4. x2[s[k]] = Behind(r, k)
    <3>1. CASE k + 1 = i
      <4>1. i # 1 /\ i - 1 = k /\ s[k] = Before(s, i)
        BY <1>1, <2>1, <3>1 DEF Before
      <4>2. x2[s[k]] = Behind(s, i)
        BY <2>0, <4>1
      <4>3. i = Len(s) <=> k = m
        BY <1>1, <2>1, <3>1
      <4>4. k # m => r[k + 1] = s[i + 1]
        <5> SUFFICES ASSUME k # m PROVE r[k + 1] = s[i + 1]
          OBVIOUS
        <5>1. k + 1 \in 1 .. m /\ ~(k + 1 < i)
          BY <1>1, <1>3, <2>1, <3>1
        <5> QED
          BY <1>2, <3>1, <5>1
      <4> QED
        BY <1>2, <4>2, <4>3, <4>4 DEF Behind
    <3>2. CASE k + 1 # i
      <4>1. s[k] # Before(s, i)
        <5>1. i = 1 \/ (i - 1 \in 1 .. Len(s) /\ i - 1 # k)
          BY <1>1, <2>1, <3>2
        <5> QED
          BY <1>1, <2>1, <5>1 DEF Before
      <4>2. x2[s[k]] = s[k + 1]
        BY <2>0, <2>1, <4>1
      <4>3. k + 1 \in 1 .. m /\ k + 1 < i /\ k # m
        BY <1>1, <1>3, <2>1, <3>2
      <4>4. r[k + 1] = s[k + 1]
        BY <1>2, <4>3
      <4> QED
        BY <1>2, <4>2, <4>3, <4>4 DEF Behind
    <3> QED
      BY <3>1, <3>2
  <2> QED
    BY <2>0, <2>1, <2>2, <2>3, <2>4
<1>4. ASSUME NEW k \in 1 .. m, ~(k < i)
      PROVE  x2[r[k]] = Behind(r, k) /\ p2[r[k]] = Before(r, k)
  <2>1. /\ r[k] = s[k + 1] /\ k + 1 \in 1 .. Len(s) /\ s[k + 1] \in ToSet(s) \ {s[i]}
        /\ k \in 1 .. Len(s) /\ k \in Nat
        /\ x[s[k + 1]] = Behind(s, k + 1) /\ p[s[k + 1]] = s[k]
    <3>1. r[k] = s[k + 1] /\ k + 1 \in 1 .. Len(s) /\ k \in 1 .. Len(s) /\ k + 1 # i
          /\ k + 1 # 1 /\ (k + 1) - 1 = k
      BY <1>1, <1>2, <1>4
    <3>2. x[s[k + 1]] = Behind(s, k + 1) /\ p[s[k + 1]] = Before(s, k + 1)
      BY <3>1 DEF Links
    <3> QED
      BY <1>1, <3>1, <3>2 DEF Before
  <2>0. /\ p2[s[k + 1]] = IF s[k + 1] = Behind(s, i) THEN Before(s, i) ELSE p[s[k + 1]]
        /\ x2[s[k + 1]] = IF s[k + 1] = Before(s, i) THEN Behind(s, i) ELSE x[s[k + 1]]
    BY <2>1 DEF Bridged
  <2>2. s[k + 1] # Before(s, i)
    <3>1. i = 1 \/ (i - 1 \in 1 .. Len(s) /\ i - 1 # k + 1)
      BY <1>1, <1>4, <2>1
    <3> QED
      BY <1>1, <2>1, <3>1 DEF Before
  <2>3. Behind(r, k) = Behind(s, k + 1)
    <3>1. k = m <=> k + 1 = Len(s)
      BY <1>1, <2>1
    <3>2. CASE k = m
      BY <1>2, <3>1, <3>2 DEF Behind
    <3>3. CASE k # m
      <4>1. k + 1 \in 1 .. m /\ ~(k + 1 < i)
        BY <1>1, <1>4, <2>1, <3>3
      <4> QED
        BY <1>2, <3>1, <3>3, <4>1 DEF Behind
    <3> QED
      BY <3>2, <3>3
  <2>4. p2[s[k + 1]] = Before(r, k)
    <3>1. CASE k = i
      <4>1. Behind(s, i) = s[k + 1]
        BY <1>1, <2>1, <3>1 DEF Behind
      <4>2. p2[s[k + 1]] = Before(s, i)
        BY <2>0, <4>1
      <4>3. i = 1 \/ (i - 1 \in 1 .. m /\ i - 1 < i)
        BY <1>1, <2>1, <3>1
      <4>4. Before(r, k) = Before(s, i)
        BY <1>2, <3>1, <4>3 DEF Before
      <4> QED
        BY <4>2, <4>4
    <3>2. CASE k # i
      <4>1. s[k + 1] # Behind(s, i)
        <5>1. i = Len(s) \/ (i + 1 \in 1 .. Len(s) /\ i + 1 # k + 1)
          BY <1>1, <2>1, <3>2
        <5> QED
          BY <1>1, <2>1, <5>1 DEF Behind
      <4>2. k # 1 /\ k - 1 \in 1 .. m /\ ~(k - 1 < i) /\ (k - 1) + 1 = k
        BY <1>1, <1>4, <2>1, <3>2
      <4>3. Before(r, k) = s[k]
        BY <1>2, <4>2 DEF Before
      <4> QED
        BY <2>0, <2>1, <4>1, <4>3
    <3> QED
      BY <3>1, <3>2
  <2> QED
    BY <2>0, <2>1, <2>2, <2>3, <2>4
<1>5. Links(r, p2, x2)
  BY <1>2, <1>3, <1>4 DEF Links
<1>6. HeadOf(r) = IF HeadOf(s) = s[i] THEN Behind(s, i) ELSE HeadOf(s)
  <2>1. HeadOf(s) = s[1] /\ 1 \in 1 .. Len(s)
    BY <1>1 DEF HeadOf
  <2>2. CASE i = 1
    <3>1. i = Len(s) <=> m = 0
      BY <1>1, <2>2
    <3>2. m # 0 => 1 \in 1 .. m /\ ~(1 < i)
      BY <1>1, <2>2
    <3> QED
      BY <1>2, <2>1, <2>2, <3>1, <3>2 DEF HeadOf, Behind
  <2>3. CASE i # 1
    <3>1. m # 0 /\ 1 \in 1 .. m /\ 1 < i /\ s[1] # s[i]
      BY <1>1, <2>1, <2>3
    <3> QED
      BY <1>2, <2>1, <3>1 DEF HeadOf
  <2> QED
    BY <2>2, <2>3
<1>7. LastOf(r) = IF LastOf(s) = s[i] THEN Before(s, i) ELSE LastOf(s)
  <2>1. LastOf(s) = s[Len(s)] /\ Len(s) \in 1 .. Len(s)
    BY <1>1 DEF LastOf
  <2>2. CASE i = Len(s)
    <3>1. i = 1 <=> m = 0
      BY <1>1, <2>2
    <3>2. m # 0 => m \in 1 .. m /\ m < i /\ i - 1 = m
      BY <1>1, <2>2
    <3> QED
      BY <1>2, <2>1, <2>2, <3>1, <3>2 DEF LastOf, Before
  <2>3. CASE i # Len(s)
    <3>1. m # 0 /\ m \in 1 .. m /\ ~(m < i) /\ s[Len(s)] # s[i] /\ m + 1 = Len(s)
      BY <1>1, <2>1, <2>3
    <3>2. r[m] = s[Len(s)] /\ r # <<>>
      BY <1>2, <3>1
    <3> QED
      BY <1>2, <2>1, <3>1, <3>2 DEF LastOf
  <2> QED
    BY <2>2, <2>3
<1> QED
  BY <1>5, <1>6, <1>7 DEF r

-----------------------------------------------------------------------------
(* What all the links hold *)

\* The links and lists show the sequences s: no node is in two of them or twice
\* in one, and a node in none has no links.
Shape(s, p, x, f, e, c) ==
  /\ s \in [Lists -> Seq(Nodes)]
  /\ p \in [Nodes -> Pointers] /\ x \in [Nodes -> Pointers]
  /\ f = [l \in Lists |-> HeadOf(s[l])]
  /\ e = [l \in Lists |-> LastOf(s[l])]
  /\ c = [l \in Lists |-> Len(s[l])]
  /\ \A l \in Lists : Distinct(s[l]) /\ Links(s[l], p, x)
  /\ \A k, l \in Lists : k # l => ToSet(s[k]) \cap ToSet(s[l]) = {}
  /\ \A q \in Nodes : (\A l \in Lists : q \notin ToSet(s[l])) => p[q] = Null /\ x[q] = Null

\* An operation on list l changes the links of the nodes it has or gets.
Replaces(s, p, x, l, r, p2, x2) ==
  /\ r \in Seq(Nodes) /\ Distinct(r) /\ Links(r, p2, x2)
  /\ p2 \in [Nodes -> Pointers] /\ x2 \in [Nodes -> Pointers]
  /\ \A k \in Lists \ {l} : ToSet(r) \cap ToSet(s[k]) = {}
  /\ \A q \in Nodes : q \notin ToSet(s[l]) /\ q \notin ToSet(r) => p2[q] = p[q] /\ x2[q] = x[q]
  /\ \A q \in ToSet(s[l]) : q \notin ToSet(r) => p2[q] = Null /\ x2[q] = Null

LEMMA ReplaceLemma ==
  ASSUME NEW s, NEW p, NEW x, NEW f, NEW e, NEW c, Shape(s, p, x, f, e, c),
         NEW l \in Lists, NEW r, NEW p2, NEW x2, Replaces(s, p, x, l, r, p2, x2)
  PROVE  Shape([s EXCEPT ![l] = r], p2, x2,
               [f EXCEPT ![l] = HeadOf(r)], [e EXCEPT ![l] = LastOf(r)], [c EXCEPT ![l] = Len(r)])
<1> DEFINE t == [s EXCEPT ![l] = r]
<1>a. /\ r \in Seq(Nodes) /\ Distinct(r) /\ Links(r, p2, x2)
      /\ p2 \in [Nodes -> Pointers] /\ x2 \in [Nodes -> Pointers]
      /\ \A k \in Lists \ {l} : ToSet(r) \cap ToSet(s[k]) = {}
      /\ \A q \in Nodes : q \notin ToSet(s[l]) /\ q \notin ToSet(r) => p2[q] = p[q] /\ x2[q] = x[q]
      /\ \A q \in ToSet(s[l]) : q \notin ToSet(r) => p2[q] = Null /\ x2[q] = Null
  BY DEF Replaces
<1> USE <1>a
<1>1. s \in [Lists -> Seq(Nodes)] /\ t \in [Lists -> Seq(Nodes)]
      /\ t[l] = r /\ \A k \in Lists \ {l} : t[k] = s[k]
  BY DEF Shape
<1>2. /\ [f EXCEPT ![l] = HeadOf(r)] = [k \in Lists |-> HeadOf(t[k])]
      /\ [e EXCEPT ![l] = LastOf(r)] = [k \in Lists |-> LastOf(t[k])]
      /\ [c EXCEPT ![l] = Len(r)] = [k \in Lists |-> Len(t[k])]
  <2>1. /\ f = [k \in Lists |-> HeadOf(s[k])]
        /\ e = [k \in Lists |-> LastOf(s[k])]
        /\ c = [k \in Lists |-> Len(s[k])]
    BY DEF Shape
  <2> HIDE DEF t
  <2> QED
    BY <1>1, <2>1
<1> HIDE DEF t
<1>3. \A k \in Lists : Distinct(t[k])
  BY <1>1 DEF Shape
<1>4. \A k \in Lists : Links(t[k], p2, x2)
  <2> TAKE k \in Lists
  <2>1. CASE k = l
    BY <1>1, <2>1
  <2>2. CASE k # l
    <3>1. s[k] \in Seq(Nodes) /\ Links(s[k], p, x) /\ ToSet(s[k]) \subseteq Nodes
      <4>1. s[k] \in Seq(Nodes) /\ Links(s[k], p, x)
        BY DEF Shape
      <4> QED
        BY <4>1 DEF ToSet
    <3>2. \A q \in ToSet(s[k]) : q \notin ToSet(s[l]) /\ q \notin ToSet(r)
      BY <2>2 DEF Shape
    <3>3. \A q \in ToSet(s[k]) : p2[q] = p[q] /\ x2[q] = x[q]
      BY <3>1, <3>2
    <3> QED
      BY <1>1, <2>2, <3>1, <3>3, LinksFrame
  <2> QED
    BY <2>1, <2>2
<1>5. \A j, k \in Lists : j # k => ToSet(t[j]) \cap ToSet(t[k]) = {}
  <2> SUFFICES ASSUME NEW j \in Lists, NEW k \in Lists, j # k
               PROVE  ToSet(t[j]) \cap ToSet(t[k]) = {}
    OBVIOUS
  <2>1. ToSet(s[j]) \cap ToSet(s[k]) = {}
    BY DEF Shape
  <2>2. CASE j = l
    BY <1>1, <2>2
  <2>3. CASE k = l
    BY <1>1, <2>3
  <2>4. CASE j # l /\ k # l
    BY <1>1, <2>1, <2>4
  <2> QED
    BY <2>2, <2>3, <2>4
<1>6. ASSUME NEW q \in Nodes, \A k \in Lists : q \notin ToSet(t[k])
      PROVE  p2[q] = Null /\ x2[q] = Null
  <2>1. q \notin ToSet(r) /\ \A k \in Lists \ {l} : q \notin ToSet(s[k])
    BY <1>1, <1>6
  <2>2. CASE q \in ToSet(s[l])
    BY <2>1, <2>2
  <2>3. CASE q \notin ToSet(s[l])
    <3>1. p[q] = Null /\ x[q] = Null
      BY <2>1, <2>3 DEF Shape
    <3> QED
      BY <2>1, <2>3, <3>1
  <2> QED
    BY <2>2, <2>3
<1> QED
  BY <1>1, <1>2, <1>3, <1>4, <1>5, <1>6 DEF Shape, t

\* What a shape says of the ends of a list.
LEMMA ShapeFacts ==
  ASSUME NEW s, NEW p, NEW x, NEW f, NEW e, NEW c, Shape(s, p, x, f, e, c), NEW l \in Lists
  PROVE  /\ s[l] \in Seq(Nodes) /\ Distinct(s[l]) /\ Links(s[l], p, x)
         /\ Len(s[l]) \in Nat /\ ToSet(s[l]) \subseteq Nodes /\ Null \notin ToSet(s[l])
         /\ DOMAIN s[l] = 1 .. Len(s[l])
         /\ f[l] = HeadOf(s[l]) /\ e[l] = LastOf(s[l]) /\ c[l] = Len(s[l])
         /\ c[l] = 0 <=> s[l] = <<>>
         /\ s[l] # <<>> => HeadOf(s[l]) \in ToSet(s[l]) /\ LastOf(s[l]) \in ToSet(s[l])
         /\ s[l] = <<>> => HeadOf(s[l]) = Null /\ LastOf(s[l]) = Null
<1>1. /\ s[l] \in Seq(Nodes) /\ Distinct(s[l]) /\ Links(s[l], p, x)
      /\ f[l] = HeadOf(s[l]) /\ e[l] = LastOf(s[l]) /\ c[l] = Len(s[l])
  BY DEF Shape
<1>2. /\ Len(s[l]) \in Nat /\ DOMAIN s[l] = 1 .. Len(s[l]) /\ (Len(s[l]) = 0 <=> s[l] = <<>>)
      /\ \A i \in 1 .. Len(s[l]) : s[l][i] \in Nodes
  BY <1>1
<1>3. ToSet(s[l]) \subseteq Nodes /\ Null \notin ToSet(s[l])
  BY <1>2, ListAssumption DEF ToSet
<1>4. s[l] # <<>> => HeadOf(s[l]) \in ToSet(s[l]) /\ LastOf(s[l]) \in ToSet(s[l])
  BY <1>2 DEF ToSet, HeadOf, LastOf
<1>5. s[l] = <<>> => HeadOf(s[l]) = Null /\ LastOf(s[l]) = Null
  BY DEF HeadOf, LastOf
<1> QED
  BY <1>1, <1>2, <1>3, <1>4, <1>5

\* list_insert_last of a node that is in no list.
LEMMA InsertLastShape ==
  ASSUME NEW s, NEW p, NEW x, NEW f, NEW e, NEW c, Shape(s, p, x, f, e, c),
         NEW l \in Lists, NEW n \in Nodes, \A k \in Lists : n \notin ToSet(s[k])
  PROVE  Shape([s EXCEPT ![l] = Append(s[l], n)],
               [p EXCEPT ![n] = e[l]],
               IF c[l] = 0 THEN [x EXCEPT ![n] = Null] ELSE [x EXCEPT ![n] = Null, ![e[l]] = n],
               IF c[l] = 0 THEN [f EXCEPT ![l] = n] ELSE f,
               [e EXCEPT ![l] = n],
               [c EXCEPT ![l] = @ + 1])
<1> DEFINE t  == Append(s[l], n)
           p2 == [p EXCEPT ![n] = e[l]]
           x2 == IF c[l] = 0 THEN [x EXCEPT ![n] = Null] ELSE [x EXCEPT ![n] = Null, ![e[l]] = n]
<1>1. /\ s[l] \in Seq(Nodes) /\ Distinct(s[l]) /\ Links(s[l], p, x)
      /\ Len(s[l]) \in Nat /\ ToSet(s[l]) \subseteq Nodes /\ Null \notin ToSet(s[l])
      /\ f[l] = HeadOf(s[l]) /\ e[l] = LastOf(s[l]) /\ c[l] = Len(s[l])
      /\ c[l] = 0 <=> s[l] = <<>>
      /\ s[l] # <<>> => HeadOf(s[l]) \in ToSet(s[l]) /\ LastOf(s[l]) \in ToSet(s[l])
      /\ s[l] = <<>> => HeadOf(s[l]) = Null /\ LastOf(s[l]) = Null
  BY ShapeFacts
<1>2. p \in [Nodes -> Pointers] /\ x \in [Nodes -> Pointers]
      /\ f = [f EXCEPT ![l] = f[l]] /\ n # Null
  BY ListAssumption DEF Shape
<1>3. t \in Seq(Nodes) /\ Len(t) = Len(s[l]) + 1 /\ Distinct(t) /\ ToSet(t) = ToSet(s[l]) \union {n}
  BY <1>1, AppendLemma
<1>4. p2 \in [Nodes -> Pointers] /\ p2[n] = e[l] /\ \A q \in Nodes \ {n} : p2[q] = p[q]
  BY <1>1, <1>2 DEF Pointers
<1>5. /\ x2 \in [Nodes -> Pointers] /\ x2[n] = Null
      /\ \A q \in Nodes \ {n} : x2[q] = IF q = LastOf(s[l]) THEN n ELSE x[q]
  <2>1. CASE s[l] = <<>>
    BY <1>1, <1>2, <2>1, ListAssumption DEF Pointers
  <2>2. CASE s[l] # <<>>
    <3>1. e[l] \in Nodes /\ e[l] # n
      BY <1>1, <2>2
    <3> QED
      BY <1>1, <1>2, <2>2, <3>1 DEF Pointers
  <2> QED
    BY <2>1, <2>2
<1> HIDE DEF t, p2, x2
<1>6. /\ Links(t, p2, x2) /\ LastOf(t) = n
      /\ HeadOf(t) = IF s[l] = <<>> THEN n ELSE HeadOf(s[l])
  <2>1. \A q \in ToSet(s[l]) : p2[q] = p[q] /\ x2[q] = IF q = LastOf(s[l]) THEN n ELSE x[q]
    BY <1>1, <1>4, <1>5
  <2>2. n \notin ToSet(s[l]) /\ p2[n] = LastOf(s[l]) /\ x2[n] = Null
    BY <1>1, <1>4, <1>5
  <2>3. s[l] \in Seq(Nodes) /\ Distinct(s[l]) /\ Links(s[l], p, x)
    BY <1>1
  <2> QED
    BY <2>1, <2>2, <2>3, AppendLinks DEF t
<1>7. \A k \in Lists \ {l} : ToSet(t) \cap ToSet(s[k]) = {}
  BY <1>3 DEF Shape
<1>8. \A q \in Nodes : q \notin ToSet(s[l]) /\ q \notin ToSet(t) => p2[q] = p[q] /\ x2[q] = x[q]
  <2> SUFFICES ASSUME NEW q \in Nodes, q \notin ToSet(s[l]), q # n
               PROVE  p2[q] = p[q] /\ x2[q] = x[q]
    BY <1>3
  <2>1. q # LastOf(s[l])
    BY <1>1, ListAssumption
  <2> QED
    BY <1>4, <1>5, <2>1
<1>9. \A q \in ToSet(s[l]) : q \in ToSet(t)
  BY <1>3
<1>10. Shape([s EXCEPT ![l] = t], p2, x2,
             [f EXCEPT ![l] = HeadOf(t)], [e EXCEPT ![l] = LastOf(t)], [c EXCEPT ![l] = Len(t)])
  <2>1. /\ t \in Seq(Nodes) /\ Distinct(t) /\ Links(t, p2, x2)
        /\ p2 \in [Nodes -> Pointers] /\ x2 \in [Nodes -> Pointers]
    BY <1>3, <1>4, <1>5, <1>6
  <2>2. Replaces(s, p, x, l, t, p2, x2)
    BY <1>7, <1>8, <1>9, <2>1 DEF Replaces
  <2> QED
    BY <2>2, ReplaceLemma
<1>11. [f EXCEPT ![l] = HeadOf(t)] = IF c[l] = 0 THEN [f EXCEPT ![l] = n] ELSE f
  BY <1>1, <1>2, <1>6
<1>12. [c EXCEPT ![l] = Len(t)] = [c EXCEPT ![l] = @ + 1]
  BY <1>1, <1>3
<1> QED
  BY <1>6, <1>10, <1>11, <1>12 DEF t, p2, x2

\* list_insert_first of a node that is in no list.
LEMMA InsertFirstShape ==
  ASSUME NEW s, NEW p, NEW x, NEW f, NEW e, NEW c, Shape(s, p, x, f, e, c),
         NEW l \in Lists, NEW n \in Nodes, \A k \in Lists : n \notin ToSet(s[k])
  PROVE  Shape([s EXCEPT ![l] = <<n>> \o s[l]],
               IF c[l] = 0 THEN [p EXCEPT ![n] = Null] ELSE [p EXCEPT ![n] = Null, ![f[l]] = n],
               [x EXCEPT ![n] = f[l]],
               [f EXCEPT ![l] = n],
               IF c[l] = 0 THEN [e EXCEPT ![l] = n] ELSE e,
               [c EXCEPT ![l] = @ + 1])
<1> DEFINE t  == <<n>> \o s[l]
           p2 == IF c[l] = 0 THEN [p EXCEPT ![n] = Null] ELSE [p EXCEPT ![n] = Null, ![f[l]] = n]
           x2 == [x EXCEPT ![n] = f[l]]
<1>1. /\ s[l] \in Seq(Nodes) /\ Distinct(s[l]) /\ Links(s[l], p, x)
      /\ Len(s[l]) \in Nat /\ ToSet(s[l]) \subseteq Nodes /\ Null \notin ToSet(s[l])
      /\ f[l] = HeadOf(s[l]) /\ e[l] = LastOf(s[l]) /\ c[l] = Len(s[l])
      /\ c[l] = 0 <=> s[l] = <<>>
      /\ s[l] # <<>> => HeadOf(s[l]) \in ToSet(s[l]) /\ LastOf(s[l]) \in ToSet(s[l])
      /\ s[l] = <<>> => HeadOf(s[l]) = Null /\ LastOf(s[l]) = Null
  BY ShapeFacts
<1>2. p \in [Nodes -> Pointers] /\ x \in [Nodes -> Pointers]
      /\ e = [e EXCEPT ![l] = e[l]] /\ n # Null
  BY ListAssumption DEF Shape
<1>3. t \in Seq(Nodes) /\ Len(t) = Len(s[l]) + 1 /\ Distinct(t) /\ ToSet(t) = ToSet(s[l]) \union {n}
  <2> HIDE DEF t
  <2> QED
    BY <1>1, PrependLemma DEF t
<1>4. x2 \in [Nodes -> Pointers] /\ x2[n] = f[l] /\ \A q \in Nodes \ {n} : x2[q] = x[q]
  BY <1>1, <1>2 DEF Pointers
<1>5. /\ p2 \in [Nodes -> Pointers] /\ p2[n] = Null
      /\ \A q \in Nodes \ {n} : p2[q] = IF q = HeadOf(s[l]) THEN n ELSE p[q]
  <2>1. CASE s[l] = <<>>
    BY <1>1, <1>2, <2>1, ListAssumption DEF Pointers
  <2>2. CASE s[l] # <<>>
    <3>1. f[l] \in Nodes /\ f[l] # n
      BY <1>1, <2>2
    <3> QED
      BY <1>1, <1>2, <2>2, <3>1 DEF Pointers
  <2> QED
    BY <2>1, <2>2
<1> HIDE DEF t, p2, x2
<1>6. /\ Links(t, p2, x2) /\ HeadOf(t) = n
      /\ LastOf(t) = IF s[l] = <<>> THEN n ELSE LastOf(s[l])
  <2>1. \A q \in ToSet(s[l]) : x2[q] = x[q] /\ p2[q] = IF q = HeadOf(s[l]) THEN n ELSE p[q]
    BY <1>1, <1>4, <1>5
  <2>2. n \notin ToSet(s[l]) /\ x2[n] = HeadOf(s[l]) /\ p2[n] = Null
    BY <1>1, <1>4, <1>5
  <2>3. s[l] \in Seq(Nodes) /\ Distinct(s[l]) /\ Links(s[l], p, x)
    BY <1>1
  <2> QED
    BY <2>1, <2>2, <2>3, PrependLinks DEF t
<1>7. \A k \in Lists \ {l} : ToSet(t) \cap ToSet(s[k]) = {}
  BY <1>3 DEF Shape
<1>8. \A q \in Nodes : q \notin ToSet(s[l]) /\ q \notin ToSet(t) => p2[q] = p[q] /\ x2[q] = x[q]
  <2> SUFFICES ASSUME NEW q \in Nodes, q \notin ToSet(s[l]), q # n
               PROVE  p2[q] = p[q] /\ x2[q] = x[q]
    BY <1>3
  <2>1. q # HeadOf(s[l])
    BY <1>1, ListAssumption
  <2> QED
    BY <1>4, <1>5, <2>1
<1>9. \A q \in ToSet(s[l]) : q \in ToSet(t)
  BY <1>3
<1>10. Shape([s EXCEPT ![l] = t], p2, x2,
             [f EXCEPT ![l] = HeadOf(t)], [e EXCEPT ![l] = LastOf(t)], [c EXCEPT ![l] = Len(t)])
  <2>1. /\ t \in Seq(Nodes) /\ Distinct(t) /\ Links(t, p2, x2)
        /\ p2 \in [Nodes -> Pointers] /\ x2 \in [Nodes -> Pointers]
    BY <1>3, <1>4, <1>5, <1>6
  <2>2. Replaces(s, p, x, l, t, p2, x2)
    BY <1>7, <1>8, <1>9, <2>1 DEF Replaces
  <2> QED
    BY <2>2, ReplaceLemma
<1>11. [e EXCEPT ![l] = LastOf(t)] = IF c[l] = 0 THEN [e EXCEPT ![l] = n] ELSE e
  BY <1>1, <1>2, <1>6
<1>12. [c EXCEPT ![l] = Len(t)] = [c EXCEPT ![l] = @ + 1]
  BY <1>1, <1>3
<1> QED
  BY <1>6, <1>10, <1>11, <1>12 DEF t, p2, x2

\* list_remove of the node at place i of a list.
LEMMA RemoveShape ==
  ASSUME NEW s, NEW p, NEW x, NEW f, NEW e, NEW c, Shape(s, p, x, f, e, c),
         NEW l \in Lists, NEW i \in 1 .. Len(s[l]), NEW n, n = s[l][i]
  PROVE  Shape([s EXCEPT ![l] = RemoveAt(s[l], i)],
               [q \in Nodes |-> IF q = n THEN Null ELSE IF q = x[n] THEN p[n] ELSE p[q]],
               [q \in Nodes |-> IF q = n THEN Null ELSE IF q = p[n] THEN x[n] ELSE x[q]],
               IF f[l] = n THEN [f EXCEPT ![l] = x[n]] ELSE f,
               IF e[l] = n THEN [e EXCEPT ![l] = p[n]] ELSE e,
               [c EXCEPT ![l] = @ - 1])
<1> DEFINE t  == RemoveAt(s[l], i)
           p2 == [q \in Nodes |-> IF q = n THEN Null ELSE IF q = x[n] THEN p[n] ELSE p[q]]
           x2 == [q \in Nodes |-> IF q = n THEN Null ELSE IF q = p[n] THEN x[n] ELSE x[q]]
<1>1. /\ s[l] \in Seq(Nodes) /\ Distinct(s[l]) /\ Links(s[l], p, x)
      /\ Len(s[l]) \in Nat /\ ToSet(s[l]) \subseteq Nodes /\ Null \notin ToSet(s[l])
      /\ DOMAIN s[l] = 1 .. Len(s[l])
      /\ f[l] = HeadOf(s[l]) /\ e[l] = LastOf(s[l]) /\ c[l] = Len(s[l])
  BY ShapeFacts
<1>2. /\ p \in [Nodes -> Pointers] /\ x \in [Nodes -> Pointers]
      /\ f = [f EXCEPT ![l] = f[l]] /\ e = [e EXCEPT ![l] = e[l]]
  BY DEF Shape
<1>3. /\ n \in ToSet(s[l]) /\ n \in Nodes
      /\ x[n] = Behind(s[l], i) /\ p[n] = Before(s[l], i)
  <2>1. n \in ToSet(s[l])
    BY <1>1 DEF ToSet
  <2> QED
    BY <1>1, <2>1 DEF Links
<1>4. /\ x[n] = Null \/ x[n] \in ToSet(s[l])
      /\ p[n] = Null \/ p[n] \in ToSet(s[l])
  <2>1. i = Len(s[l]) \/ i + 1 \in DOMAIN s[l]
    BY <1>1
  <2>2. i = 1 \/ i - 1 \in DOMAIN s[l]
    BY <1>1
  <2> QED
    BY <1>3, <2>1, <2>2 DEF Behind, Before, ToSet
<1>5. /\ t \in Seq(Nodes) /\ Len(t) = Len(s[l]) - 1 /\ Distinct(t)
      /\ ToSet(t) = ToSet(s[l]) \ {n}
  <2> HIDE DEF t
  <2> QED
    BY <1>1, RemoveLemma DEF t
<1>6. /\ p2 \in [Nodes -> Pointers] /\ x2 \in [Nodes -> Pointers]
      /\ p2[n] = Null /\ x2[n] = Null
      /\ \A q \in Nodes \ {n} : /\ p2[q] = IF q = x[n] THEN p[n] ELSE p[q]
                                /\ x2[q] = IF q = p[n] THEN x[n] ELSE x[q]
  BY <1>2, <1>3 DEF Pointers
<1> HIDE DEF t, p2, x2
<1>7. /\ Links(t, p2, x2)
      /\ HeadOf(t) = IF HeadOf(s[l]) = n THEN x[n] ELSE HeadOf(s[l])
      /\ LastOf(t) = IF LastOf(s[l]) = n THEN p[n] ELSE LastOf(s[l])
  <2> DEFINE w == s[l]
  <2>1. /\ w \in Seq(Nodes) /\ Distinct(w) /\ Links(w, p, x) /\ i \in 1 .. Len(w)
        /\ n = w[i] /\ x[n] = Behind(w, i) /\ p[n] = Before(w, i) /\ ToSet(w) \subseteq Nodes
    BY <1>1, <1>3
  <2>2. t = RemoveAt(w, i)
    BY DEF t
  <2> HIDE DEF w
  <2>3. Bridged(w, i, p, x, p2, x2)
    BY <1>6, <2>1 DEF Bridged
  <2>4. /\ Links(t, p2, x2)
        /\ HeadOf(t) = IF HeadOf(w) = w[i] THEN Behind(w, i) ELSE HeadOf(w)
        /\ LastOf(t) = IF LastOf(w) = w[i] THEN Before(w, i) ELSE LastOf(w)
    BY <2>1, <2>2, <2>3, RemoveLinks
  <2> QED
    BY <2>1, <2>4 DEF w
<1>8. \A k \in Lists \ {l} : ToSet(t) \cap ToSet(s[k]) = {}
  BY <1>5 DEF Shape
<1>9. \A q \in Nodes : q \notin ToSet(s[l]) /\ q \notin ToSet(t) => p2[q] = p[q] /\ x2[q] = x[q]
  BY <1>3, <1>4, <1>6, ListAssumption
<1>10. \A q \in ToSet(s[l]) : q \notin ToSet(t) => p2[q] = Null /\ x2[q] = Null
  BY <1>5, <1>6
<1>11. Shape([s EXCEPT ![l] = t], p2, x2,
             [f EXCEPT ![l] = HeadOf(t)], [e EXCEPT ![l] = LastOf(t)], [c EXCEPT ![l] = Len(t)])
  <2>1. /\ t \in Seq(Nodes) /\ Distinct(t) /\ Links(t, p2, x2)
        /\ p2 \in [Nodes -> Pointers] /\ x2 \in [Nodes -> Pointers]
    BY <1>5, <1>6, <1>7
  <2>2. Replaces(s, p, x, l, t, p2, x2)
    BY <1>8, <1>9, <1>10, <2>1 DEF Replaces
  <2> QED
    BY <2>2, ReplaceLemma
<1>12. [f EXCEPT ![l] = HeadOf(t)] = IF f[l] = n THEN [f EXCEPT ![l] = x[n]] ELSE f
  BY <1>1, <1>2, <1>7
<1>13. [e EXCEPT ![l] = LastOf(t)] = IF e[l] = n THEN [e EXCEPT ![l] = p[n]] ELSE e
  BY <1>1, <1>2, <1>7
<1>14. [c EXCEPT ![l] = Len(t)] = [c EXCEPT ![l] = @ - 1]
  BY <1>1, <1>5
<1> QED
  BY <1>11, <1>12, <1>13, <1>14 DEF t, p2, x2

-----------------------------------------------------------------------------
(* The state *)

Shows(s) == Shape(s, pre, next, first, last, count)

\* Content and Linked read the sequences off the links.
LEMMA ShapeShows ==
  ASSUME NEW s, NEW p, NEW x, NEW f, NEW e, NEW c, Shape(s, p, x, f, e, c), NEW l \in Lists
  PROVE  /\ ContentFrom(f[l], x) = s[l]
         /\ \A n \in Nodes : (\E i \in 1 .. Cardinality(Nodes) : ReachFrom(f[l], x)[i] = n)
                             <=> n \in ToSet(s[l])
<1>1. s[l] \in Seq(Nodes) /\ Distinct(s[l]) /\ Chain(s[l], f[l], x)
  BY ShapeFacts DEF Links, Chain
<1>2. ContentFrom(f[l], x) = s[l] /\ ReachFrom(f[l], x) = Reached(s[l])
  BY <1>1, ContentLemma
<1>3. ASSUME NEW n \in Nodes
      PROVE  (\E i \in 1 .. Cardinality(Nodes) : Reached(s[l])[i] = n) <=> n \in ToSet(s[l])
  BY <1>1, ReachedLemma
<1> QED
  BY <1>2, <1>3

LEMMA ShowsLemma ==
  ASSUME NEW s, Shows(s), NEW l \in Lists
  PROVE  Content(l) = s[l] /\ \A n \in Nodes : Linked(n, l) <=> n \in ToSet(s[l])
<1>1. Reach(l) = ReachFrom(first[l], next)
  BY DEF Reach, ReachFrom, Turn
<1>2. Content(l) = ContentFrom(first[l], next)
  BY <1>1 DEF Content, ContentFrom
<1>3. ContentFrom(first[l], next) = s[l]
  BY ShapeShows DEF Shows
<1>4. \A n \in Nodes : (\E i \in 1 .. Cardinality(Nodes) : ReachFrom(first[l], next)[i] = n)
                       <=> n \in ToSet(s[l])
  BY ShapeShows DEF Shows
<1> QED
  BY <1>1, <1>2, <1>3, <1>4 DEF Linked

LEMMA ShowsNext ==
  ASSUME NEW s, Shows(s)', NEW l \in Lists
  PROVE  Content(l)' = s[l]
<1>1. Reach(l)' = ReachFrom(first'[l], next')
  BY DEF Reach, ReachFrom, Turn
<1>2. Content(l)' = ContentFrom(first'[l], next')
  BY <1>1 DEF Content, ContentFrom
<1>3. ContentFrom(first'[l], next') = s[l]
  BY ShapeShows DEF Shows
<1> QED
  BY <1>2, <1>3

-----------------------------------------------------------------------------
(* The walk *)

\* todo is what the list w has from place j on.
Rest(w, j, todo) ==
  /\ j \in 1 .. Len(w) /\ todo \in Seq(Nodes)
  /\ Len(todo) = Len(w) - j + 1
  /\ \A i \in 1 .. Len(todo) : todo[i] = w[j + i - 1]

\* The list seen at the cursor's place; the node may then stay or be unlinked,
\* which puts the next one in its place.
LEMMA RestLemma ==
  ASSUME NEW w \in Seq(Nodes), Distinct(w), NEW j, NEW todo, Rest(w, j, todo)
  PROVE  /\ j = Len(w) => Tail(todo) = <<>>
         /\ j # Len(w) =>
              /\ Tail(todo) # <<>> /\ Head(Tail(todo)) = w[j + 1]
              /\ Rest(w, j + 1, Tail(todo))
              /\ Rest(RemoveAt(w, j), j, Tail(todo)) /\ RemoveAt(w, j)[j] = w[j + 1]
<1> DEFINE left == Tail(todo)
           r == RemoveAt(w, j)
<1>1. /\ Len(w) \in Nat /\ j \in 1 .. Len(w) /\ todo \in Seq(Nodes)
      /\ Len(todo) = Len(w) - j + 1
      /\ \A i \in 1 .. Len(todo) : todo[i] = w[j + i - 1]
  BY DEF Rest
<1>2. /\ left \in Seq(Nodes) /\ Len(left) = Len(w) - j
      /\ \A i \in 1 .. Len(w) - j : left[i] = todo[i + 1]
  <2>1. todo # <<>> /\ Len(todo) - 1 = Len(w) - j
    BY <1>1
  <2> QED
    BY <1>1, <2>1
<1>3. (left = <<>> <=> Len(left) = 0) /\ (left # <<>> => Head(left) = left[1])
  <2>1. \A q \in Seq(Nodes) : (q = <<>> <=> Len(q) = 0) /\ (q # <<>> => Head(q) = q[1])
    OBVIOUS
  <2> HIDE DEF left
  <2> QED
    BY <1>2, <2>1
<1> HIDE DEF left
<1>5. \A i \in 1 .. Len(w) - j : left[i] = w[j + i]
  <2> TAKE i \in 1 .. Len(w) - j
  <2>1. i + 1 \in 1 .. Len(todo) /\ j + (i + 1) - 1 = j + i
    BY <1>1
  <2> QED
    BY <1>1, <1>2, <2>1
<1>6. CASE j = Len(w)
  BY <1>1, <1>2, <1>3, <1>6 DEF left
<1>7. CASE j # Len(w)
  <2>1. 1 \in 1 .. Len(w) - j /\ Len(left) # 0 /\ j + 1 \in 1 .. Len(w) /\ j \in 1 .. Len(w) - 1
    BY <1>1, <1>2, <1>7
  <2>2. left # <<>> /\ Head(left) = w[j + 1]
    BY <1>3, <1>5, <2>1
  <2>3. Rest(w, j + 1, left)
    <3>1. Len(left) = Len(w) - (j + 1) + 1
      BY <1>1, <1>2
    <3>2. ASSUME NEW i \in 1 .. Len(left)
          PROVE  left[i] = w[(j + 1) + i - 1]
      <4>1. (j + 1) + i - 1 = j + i
        BY <1>1, <1>2
      <4> QED
        BY <1>2, <1>5, <4>1
    <3> QED
      BY <1>2, <2>1, <3>1, <3>2 DEF Rest
  <2>4. /\ Len(r) = Len(w) - 1
        /\ \A k \in 1 .. Len(w) - 1 : r[k] = IF k < j THEN w[k] ELSE w[k + 1]
    <3> HIDE DEF r
    <3> QED
      BY <1>1, RemoveLemma DEF r
  <2> HIDE DEF r
  <2>5. Rest(r, j, left)
    <3>1. Len(left) = Len(r) - j + 1
      BY <1>1, <1>2, <2>4
    <3>2. ASSUME NEW i \in 1 .. Len(left)
          PROVE  left[i] = r[j + i - 1]
      <4>1. j + i - 1 \in 1 .. Len(w) - 1 /\ ~(j + i - 1 < j) /\ (j + i - 1) + 1 = j + i
        BY <1>1, <1>2
      <4> QED
        BY <1>2, <1>5, <2>4, <4>1
    <3> QED
      BY <1>2, <2>1, <2>4, <3>1, <3>2 DEF Rest
  <2>6. r[j] = w[j + 1]
    BY <1>1, <2>1, <2>4
  <2> QED
    BY <1>7, <2>2, <2>3, <2>5, <2>6 DEF left, r
<1> QED
  BY <1>6, <1>7

Walks == [from : Lists, cursor : Nodes, todo : Seq(Nodes)]

WalkShows(s) ==
  walk # NoWalk =>
    /\ walk \in Walks
    /\ \E j \in 1 .. Len(s[walk.from]) :
         Rest(s[walk.from], j, walk.todo) /\ walk.cursor = s[walk.from][j]

-----------------------------------------------------------------------------
(* The steps *)

\* What a step does to the sequences.
Operation(s, t) ==
  \/ \E l \in Lists, n \in Nodes :
       /\ \A k \in Lists : n \notin ToSet(s[k])
       /\ t \in {[s EXCEPT ![l] = <<n>> \o s[l]], [s EXCEPT ![l] = Append(s[l], n)]}
  \/ \E l \in Lists, n \in Nodes :
       n \in ToSet(s[l]) /\ t = [s EXCEPT ![l] = RemoveFirst(s[l], n)]
  \/ \E l \in Lists : s[l] # <<>> /\ t = [s EXCEPT ![l] = Tail(s[l])]

LEMMA InsertStep ==
  ASSUME NEW s, Shows(s), NEW l \in Lists, NEW n \in Nodes, Insert(l, n)
  PROVE  \E t : Shows(t)' /\ Operation(s, t)
<1>1. \A k \in Lists : n \notin ToSet(s[k])
  BY ShowsLemma DEF Insert, Free
<1>2. CASE list_insert_first(l, n)
  <2> DEFINE t == [s EXCEPT ![l] = <<n>> \o s[l]]
  <2>1. Shape(t,
              IF count[l] = 0 THEN [pre EXCEPT ![n] = Null]
              ELSE [pre EXCEPT ![n] = Null, ![first[l]] = n],
              [next EXCEPT ![n] = first[l]],
              [first EXCEPT ![l] = n],
              IF count[l] = 0 THEN [last EXCEPT ![l] = n] ELSE last,
              [count EXCEPT ![l] = @ + 1])
    BY <1>1, InsertFirstShape DEF Shows
  <2>2. Shape(t, pre', next', first', last', count')
    <3> HIDE DEF t
    <3> QED
      BY <1>2, <2>1 DEF list_insert_first, list_is_empty
  <2>3. Operation(s, t)
    BY <1>1 DEF Operation
  <2> QED
    BY <2>2, <2>3 DEF Shows
<1>3. CASE list_insert_last(l, n)
  <2> DEFINE t == [s EXCEPT ![l] = Append(s[l], n)]
  <2>1. Shape(t,
              [pre EXCEPT ![n] = last[l]],
              IF count[l] = 0 THEN [next EXCEPT ![n] = Null]
              ELSE [next EXCEPT ![n] = Null, ![last[l]] = n],
              IF count[l] = 0 THEN [first EXCEPT ![l] = n] ELSE first,
              [last EXCEPT ![l] = n],
              [count EXCEPT ![l] = @ + 1])
    BY <1>1, InsertLastShape DEF Shows
  <2>2. Shape(t, pre', next', first', last', count')
    <3> HIDE DEF t
    <3> QED
      BY <1>3, <2>1 DEF list_insert_last, list_is_empty
  <2>3. Operation(s, t)
    BY <1>1 DEF Operation
  <2> QED
    BY <2>2, <2>3 DEF Shows
<1> QED
  BY <1>2, <1>3 DEF Insert

\* The lists and links without the node at place i of list l.
LEMMA WithoutLemma ==
  ASSUME NEW s, Shows(s), NEW l \in Lists, NEW i \in 1 .. Len(s[l]), NEW n, n = s[l][i]
  PROVE  /\ Shape([s EXCEPT ![l] = RemoveAt(s[l], i)], PreWithout(n), NextWithout(n),
                  FirstWithout(l, n), LastWithout(l, n), [count EXCEPT ![l] = @ - 1])
         /\ RemoveAt(s[l], i) = RemoveFirst(s[l], n)
         /\ n \in ToSet(s[l]) /\ n \in Nodes
<1>1. Shape([s EXCEPT ![l] = RemoveAt(s[l], i)],
            [q \in Nodes |-> IF q = n THEN Null ELSE IF q = next[n] THEN pre[n] ELSE pre[q]],
            [q \in Nodes |-> IF q = n THEN Null ELSE IF q = pre[n] THEN next[n] ELSE next[q]],
            IF first[l] = n THEN [first EXCEPT ![l] = next[n]] ELSE first,
            IF last[l] = n THEN [last EXCEPT ![l] = pre[n]] ELSE last,
            [count EXCEPT ![l] = @ - 1])
  <2>1. Shape(s, pre, next, first, last, count)
    BY DEF Shows
  <2> QED
    BY <2>1, RemoveShape
<1>2. s[l] \in Seq(Nodes) /\ Distinct(s[l]) /\ ToSet(s[l]) \subseteq Nodes
  BY ShapeFacts DEF Shows
<1>3. RemoveAt(s[l], i) = RemoveFirst(s[l], n)
  BY <1>2, RemoveLemma
<1>4. n \in ToSet(s[l])
  BY <1>2 DEF ToSet
<1> QED
  BY <1>1, <1>2, <1>3, <1>4 DEF PreWithout, NextWithout, FirstWithout, LastWithout

LEMMA UnlinkStep ==
  ASSUME NEW s, Shows(s), NEW l \in Lists, NEW n \in Nodes, Unlink(l, n)
  PROVE  \E t : Shows(t)' /\ Operation(s, t)
<1>1. n \in ToSet(s[l])
  BY ShowsLemma DEF Unlink
<1>2. PICK i \in 1 .. Len(s[l]) : n = s[l][i]
  <2>1. DOMAIN s[l] = 1 .. Len(s[l])
    BY ShapeFacts DEF Shows
  <2> QED
    BY <1>1, <2>1 DEF ToSet
<1> DEFINE t == [s EXCEPT ![l] = RemoveAt(s[l], i)]
<1>3. /\ Shape(t, PreWithout(n), NextWithout(n), FirstWithout(l, n), LastWithout(l, n),
               [count EXCEPT ![l] = @ - 1])
      /\ RemoveAt(s[l], i) = RemoveFirst(s[l], n)
  BY <1>2, WithoutLemma
<1>4. Operation(s, t)
  BY <1>1, <1>3 DEF Operation
<1> HIDE DEF t
<1>5. Shape(t, pre', next', first', last', count')
  BY <1>3 DEF Unlink, list_remove
<1> QED
  BY <1>4, <1>5 DEF Shows

\* list_remove_first is list_remove of the first node.
LEMMA RemoveFirstStep ==
  ASSUME NEW s, Shows(s), NEW l \in Lists, list_remove_first(l)
  PROVE  \E t : Shows(t)' /\ Operation(s, t)
<1> DEFINE n == s[l][1]
           t == [s EXCEPT ![l] = RemoveAt(s[l], 1)]
<1>1. /\ s[l] \in Seq(Nodes) /\ Distinct(s[l]) /\ s[l] # <<>> /\ 1 \in 1 .. Len(s[l])
      /\ DOMAIN s[l] = 1 .. Len(s[l]) /\ Links(s[l], pre, next)
      /\ first[l] = n /\ last[l] = LastOf(s[l]) /\ Null \notin ToSet(s[l])
      /\ Len(s[l]) \in Nat
  <2>1. /\ s[l] \in Seq(Nodes) /\ Distinct(s[l]) /\ count[l] = Len(s[l]) /\ Len(s[l]) \in Nat
        /\ DOMAIN s[l] = 1 .. Len(s[l]) /\ Links(s[l], pre, next)
        /\ (count[l] = 0 <=> s[l] = <<>>) /\ first[l] = HeadOf(s[l]) /\ last[l] = LastOf(s[l])
        /\ Null \notin ToSet(s[l])
    BY ShapeFacts DEF Shows
  <2>2. count[l] # 0
    BY DEF list_remove_first, list_is_empty
  <2> QED
    BY <2>1, <2>2 DEF HeadOf
<1>2. /\ Shape(t, PreWithout(n), NextWithout(n), FirstWithout(l, n), LastWithout(l, n),
               [count EXCEPT ![l] = @ - 1])
      /\ n \in Nodes
  BY <1>1, WithoutLemma
<1>3. RemoveAt(s[l], 1) = Tail(s[l])
  BY <1>1, RemoveLemma
<1>4. Operation(s, t)
  BY <1>1, <1>3 DEF Operation
<1>5. /\ pre[n] = Null /\ next[n] = Behind(s[l], 1)
      /\ last[l] = n <=> next[n] = Null
  <2>1. pre[n] = Null /\ next[n] = Behind(s[l], 1)
    BY <1>1 DEF Links, Before
  <2>2. CASE Len(s[l]) = 1
    BY <1>1, <2>1, <2>2 DEF LastOf, Behind
  <2>3. CASE Len(s[l]) # 1
    <3>1. 2 \in 1 .. Len(s[l]) /\ Len(s[l]) \in 1 .. Len(s[l]) /\ 1 + 1 = 2
      <4>1. \A m \in Nat : 1 \in 1 .. m /\ m # 1 => 2 \in 1 .. m /\ m \in 1 .. m /\ 1 + 1 = 2
        OBVIOUS
      <4> QED
        BY <1>1, <2>3, <4>1
    <3>2. s[l][2] \in ToSet(s[l]) /\ s[l][Len(s[l])] # s[l][1]
      BY <1>1, <2>3, <3>1 DEF ToSet, Distinct
    <3> QED
      BY <1>1, <2>1, <2>3, <3>1, <3>2 DEF LastOf, Behind
  <2> QED
    BY <2>2, <2>3
<1>6. next \in [Nodes -> Pointers] /\ last = [last EXCEPT ![l] = last[l]]
  BY DEF Shows, Shape
<1> HIDE DEF n, t
<1>7. pre' = PreWithout(n)
  BY <1>1, <1>5 DEF list_remove_first, PreWithout
<1>8. next' = NextWithout(n)
  <2>1. next' = [next EXCEPT ![n] = Null]
    BY <1>1 DEF list_remove_first
  <2> QED
    BY <1>2, <1>5, <1>6, <2>1, ListAssumption DEF NextWithout
<1>9. first' = FirstWithout(l, n) /\ last' = LastWithout(l, n)
  BY <1>1, <1>5 DEF list_remove_first, FirstWithout, LastWithout
<1>10. count' = [count EXCEPT ![l] = @ - 1]
  BY DEF list_remove_first
<1> QED
  BY <1>2, <1>4, <1>7, <1>8, <1>9, <1>10 DEF Shows

\* What a step of the walk does to the walk.
Walked ==
  LET left == Tail(walk.todo) IN
  IF walk' = NoWalk THEN left = <<>> ELSE left # <<>> /\ walk'.cursor = Head(left)

\* The current node is moved to the tail of list k.
Moved(s, t, k) ==
  /\ walk.from \in Lists /\ k # walk.from /\ walk.cursor \in ToSet(s[walk.from])
  /\ t = [s EXCEPT ![walk.from] = RemoveFirst(s[walk.from], walk.cursor),
                   ![k] = Append(s[k], walk.cursor)]

\* What the cursor says of the list.
LEMMA WalkFacts ==
  ASSUME NEW s, Shows(s), WalkShows(s), walk # NoWalk
  PROVE  \E j \in 1 .. Len(s[walk.from]) :
           /\ walk \in Walks /\ walk.from \in Lists
           /\ s[walk.from] \in Seq(Nodes) /\ Distinct(s[walk.from])
           /\ Len(s[walk.from]) \in Nat
           /\ Rest(s[walk.from], j, walk.todo) /\ walk.cursor = s[walk.from][j]
           /\ next[walk.cursor] = Behind(s[walk.from], j)
           /\ \A i \in 1 .. Len(s[walk.from]) : s[walk.from][i] \in Nodes /\ s[walk.from][i] # Null
<1>1. PICK j \in 1 .. Len(s[walk.from]) :
        Rest(s[walk.from], j, walk.todo) /\ walk.cursor = s[walk.from][j]
  BY DEF WalkShows
<1>2. walk \in Walks /\ walk.from \in Lists
  BY DEF WalkShows, Walks
<1>3. /\ s[walk.from] \in Seq(Nodes) /\ Distinct(s[walk.from]) /\ Links(s[walk.from], pre, next)
      /\ Len(s[walk.from]) \in Nat
  BY <1>2, ShapeFacts DEF Shows
<1>4. next[walk.cursor] = Behind(s[walk.from], j)
  BY <1>1, <1>3 DEF Links
<1>5. \A i \in 1 .. Len(s[walk.from]) : s[walk.from][i] \in Nodes /\ s[walk.from][i] # Null
  BY <1>3, ListAssumption
<1> QED
  BY <1>1, <1>2, <1>3, <1>4, <1>5

\* The walk goes on from place i of what list from shows then, which has what
\* was left to visit.
LEMMA AdvanceLemma ==
  ASSUME NEW t, walk \in Walks, NEW i, NEW saved \in Nodes,
         Advance(saved), Tail(walk.todo) # <<>>, saved = Head(Tail(walk.todo)),
         Rest(t[walk.from], i, Tail(walk.todo)), t[walk.from][i] = saved
  PROVE  WalkShows(t)' /\ Walked
<1>1. walk' = [walk EXCEPT !.cursor = saved, !.todo = Tail(@)]
  BY ListAssumption DEF Advance
<1>2. /\ walk'.from = walk.from /\ walk'.cursor = saved /\ walk'.todo = Tail(walk.todo)
      /\ walk'.from \in Lists /\ walk' \in Walks
  <2>1. Tail(walk.todo) \in Seq(Nodes)
    BY DEF Rest
  <2> QED
    BY <1>1, <2>1 DEF Walks
<1>3. walk' # NoWalk
  <2>1. saved # Null /\ NoWalk.cursor = Null
    BY ListAssumption DEF NoWalk
  <2> QED
    BY <1>2, <2>1
<1>4. Rest(t[walk'.from], i, walk'.todo) /\ walk'.cursor = t[walk'.from][i]
      /\ i \in 1 .. Len(t[walk'.from])
  BY <1>2 DEF Rest
<1>5. WalkShows(t)'
  BY <1>2, <1>4 DEF WalkShows
<1>6. Walked
  BY <1>2, <1>3 DEF Walked
<1> QED
  BY <1>5, <1>6

LEMMA WalkBeginStep ==
  ASSUME NEW s, Shows(s), NEW l \in Lists, WalkBegin(l)
  PROVE  Shows(s)' /\ WalkShows(s)'
<1>1. Shows(s)'
  BY DEF WalkBegin, Shows, linkVars, listVars
<1>2. /\ s[l] \in Seq(Nodes) /\ Content(l) = s[l] /\ first[l] = HeadOf(s[l])
      /\ Len(s[l]) \in Nat
  BY ShowsLemma, ShapeFacts DEF Shows
<1>3. s[l] # <<>> /\ first[l] = s[l][1] /\ 1 \in 1 .. Len(s[l]) /\ s[l][1] \in Nodes
  <2>1. first[l] # Null
    BY DEF WalkBegin
  <2>2. s[l] # <<>> /\ first[l] = s[l][1]
    BY <1>2, <2>1 DEF HeadOf
  <2> QED
    BY <1>2, <2>2
<1>4. Rest(s[l], 1, s[l])
  BY <1>2, <1>3 DEF Rest
<1>5. walk' = [from |-> l, cursor |-> s[l][1], todo |-> s[l]]
  BY <1>2, <1>3 DEF WalkBegin
<1>6. walk' \in Walks /\ walk'.from = l /\ walk'.cursor = s[l][1] /\ walk'.todo = s[l]
  BY <1>2, <1>3, <1>5 DEF Walks
<1>7. WalkShows(s)'
  BY <1>3, <1>4, <1>6 DEF WalkShows
<1> QED
  BY <1>1, <1>7

LEMMA WalkKeepStep ==
  ASSUME NEW s, Shows(s), WalkShows(s), WalkKeep
  PROVE  Shows(s)' /\ WalkShows(s)' /\ Walked
<1> DEFINE w == s[walk.from]
<1>1. Shows(s)' /\ walk # NoWalk
  BY DEF WalkKeep, Shows, linkVars, listVars
<1>2. PICK j \in 1 .. Len(w) :
        /\ walk \in Walks /\ w \in Seq(Nodes) /\ Distinct(w) /\ Len(w) \in Nat
        /\ Rest(w, j, walk.todo) /\ walk.cursor = w[j]
        /\ next[walk.cursor] = Behind(w, j)
        /\ \A i \in 1 .. Len(w) : w[i] \in Nodes /\ w[i] # Null
  BY <1>1, WalkFacts
<1> DEFINE saved == next[walk.cursor]
<1>3. Advance(saved)
  BY DEF WalkKeep
<1> HIDE DEF w
<1>4. CASE j = Len(w)
  <2>1. walk' = NoWalk /\ Tail(walk.todo) = <<>>
    BY <1>2, <1>3, <1>4, RestLemma DEF Advance, Behind
  <2> QED
    BY <1>1, <2>1 DEF WalkShows, Walked
<1>5. CASE j # Len(w)
  <2>1. j + 1 \in 1 .. Len(w) /\ saved = w[j + 1] /\ saved \in Nodes
    BY <1>2, <1>5 DEF Behind
  <2>2. /\ Tail(walk.todo) # <<>> /\ Head(Tail(walk.todo)) = saved
        /\ Rest(w, j + 1, Tail(walk.todo))
    BY <1>2, <1>5, <2>1, RestLemma
  <2> HIDE DEF saved
  <2>3. WalkShows(s)' /\ Walked
    BY <1>2, <1>3, <2>1, <2>2, AdvanceLemma DEF w
  <2> QED
    BY <1>1, <2>3
<1> QED
  BY <1>4, <1>5

LEMMA WalkMoveStep ==
  ASSUME NEW s, Shows(s), WalkShows(s), NEW k \in Lists, WalkMove(k)
  PROVE  \E t : Shows(t)' /\ WalkShows(t)' /\ Walked /\ Moved(s, t, k)
<1>0. PICK l, n : l = walk.from /\ n = walk.cursor
  OBVIOUS
<1> DEFINE w == s[l]
<1>1. walk # NoWalk /\ k # l
  BY <1>0 DEF WalkMove
<1>2. PICK j \in 1 .. Len(w) :
        /\ walk \in Walks /\ l \in Lists /\ w \in Seq(Nodes) /\ Distinct(w) /\ Len(w) \in Nat
        /\ Rest(w, j, walk.todo) /\ n = w[j] /\ next[n] = Behind(w, j)
        /\ \A i \in 1 .. Len(w) : w[i] \in Nodes /\ w[i] # Null
  BY <1>0, <1>1, WalkFacts
<1> DEFINE r  == RemoveAt(w, j)
           s1 == [s EXCEPT ![l] = r]
           t  == [s1 EXCEPT ![k] = Append(s1[k], n)]
           c1 == [count EXCEPT ![l] = @ - 1]
<1>3. /\ Shape(s1, PreWithout(n), NextWithout(n), FirstWithout(l, n), LastWithout(l, n), c1)
      /\ r = RemoveFirst(w, n) /\ n \in ToSet(w) /\ n \in Nodes
  BY <1>2, WithoutLemma
<1>4. /\ s \in [Lists -> Seq(Nodes)] /\ last \in [Lists -> Pointers] /\ count \in [Lists -> Nat]
      /\ s1 \in [Lists -> Seq(Nodes)] /\ NextWithout(n) \in [Nodes -> Pointers]
  <2>1. s \in [Lists -> Seq(Nodes)] /\ last = [i \in Lists |-> LastOf(s[i])]
        /\ count = [i \in Lists |-> Len(s[i])]
    BY DEF Shows, Shape
  <2>2. s1 \in [Lists -> Seq(Nodes)] /\ NextWithout(n) \in [Nodes -> Pointers]
    <3> HIDE DEF s1, w
    <3> QED
      BY <1>3 DEF Shape
  <2>3. \A i \in Lists : LastOf(s[i]) \in Pointers /\ Len(s[i]) \in Nat
    BY <2>1, ShapeFacts DEF Pointers, Shows
  <2> QED
    BY <2>1, <2>2, <2>3
<1>5. s1[k] = s[k] /\ s1[l] = r /\ LastWithout(l, n)[k] = last[k] /\ c1[k] = count[k]
  BY <1>1, <1>2, <1>4 DEF LastWithout
<1>6. NextWithout(n)[n] = Null
  BY <1>3 DEF NextWithout
<1>7. \A i \in Lists : n \notin ToSet(s1[i])
  <2>1. ToSet(r) = ToSet(w) \ {n}
    BY <1>2, RemoveLemma
  <2>2. \A i \in Lists \ {l} : ToSet(s[i]) \cap ToSet(w) = {}
    BY <1>2 DEF Shows, Shape
  <2>3. \A i \in Lists \ {l} : s1[i] = s[i]
    BY <1>4
  <2> HIDE DEF s1, r, w
  <2> QED
    BY <1>3, <1>5, <2>1, <2>2, <2>3
<1> HIDE DEF s1, c1
<1>8. Shape(t, [PreWithout(n) EXCEPT ![n] = last[k]],
            IF count[k] = 0 THEN [NextWithout(n) EXCEPT ![n] = Null]
            ELSE [NextWithout(n) EXCEPT ![n] = Null, ![last[k]] = n],
            IF count[k] = 0 THEN [FirstWithout(l, n) EXCEPT ![k] = n] ELSE FirstWithout(l, n),
            [LastWithout(l, n) EXCEPT ![k] = n],
            [c1 EXCEPT ![k] = @ + 1])
  <2>1. Shape(s1, PreWithout(n), NextWithout(n), FirstWithout(l, n), LastWithout(l, n), c1)
        /\ n \in Nodes
    BY <1>3
  <2>2. Shape([s1 EXCEPT ![k] = Append(s1[k], n)],
              [PreWithout(n) EXCEPT ![n] = LastWithout(l, n)[k]],
              IF c1[k] = 0 THEN [NextWithout(n) EXCEPT ![n] = Null]
              ELSE [NextWithout(n) EXCEPT ![n] = Null, ![LastWithout(l, n)[k]] = n],
              IF c1[k] = 0 THEN [FirstWithout(l, n) EXCEPT ![k] = n] ELSE FirstWithout(l, n),
              [LastWithout(l, n) EXCEPT ![k] = n],
              [c1 EXCEPT ![k] = @ + 1])
    BY <1>7, <2>1, InsertLastShape
  <2>3. LastWithout(l, n)[k] = last[k] /\ c1[k] = count[k]
    BY <1>5
  <2> QED
    BY <2>2, <2>3
<1>9. [NextWithout(n) EXCEPT ![n] = Null] = NextWithout(n)
  BY <1>3, <1>4, <1>6
<1>10. [c1 EXCEPT ![k] = @ + 1] = [count EXCEPT ![l] = @ - 1, ![k] = @ + 1]
  BY <1>1, <1>2, <1>4 DEF c1
<1>11. Shape(t, pre', next', first', last', count')
  <2>1. /\ pre' = [PreWithout(n) EXCEPT ![n] = last[k]]
        /\ next' = IF count[k] = 0 THEN NextWithout(n) ELSE [NextWithout(n) EXCEPT ![last[k]] = n]
        /\ first' = IF count[k] = 0 THEN [FirstWithout(l, n) EXCEPT ![k] = n] ELSE FirstWithout(l, n)
        /\ last' = [LastWithout(l, n) EXCEPT ![k] = n]
        /\ count' = [count EXCEPT ![l] = @ - 1, ![k] = @ + 1]
    BY <1>0 DEF WalkMove, list_is_empty
  <2> HIDE DEF t
  <2> QED
    BY <1>8, <1>9, <1>10, <2>1
<1>12. t[l] = r
  BY <1>1, <1>2, <1>4, <1>5
<1>13. Moved(s, t, k)
  <2>1. t = [s EXCEPT ![l] = r, ![k] = Append(s[k], n)]
    BY <1>5 DEF s1
  <2> QED
    BY <1>0, <1>1, <1>2, <1>3, <2>1 DEF Moved
<1>14. PICK saved : saved = next[n] /\ Advance(saved)
  BY <1>0 DEF WalkMove
<1> HIDE DEF t, r, w
<1>15. CASE j = Len(w)
  <2>1. walk' = NoWalk /\ Tail(walk.todo) = <<>>
    BY <1>2, <1>14, <1>15, RestLemma DEF Advance, Behind
  <2> QED
    BY <1>11, <1>13, <2>1 DEF WalkShows, Walked, Shows
<1>16. CASE j # Len(w)
  <2>1. saved = w[j + 1] /\ saved \in Nodes
    BY <1>2, <1>14, <1>16 DEF Behind
  <2>2. /\ Tail(walk.todo) # <<>> /\ Head(Tail(walk.todo)) = saved
        /\ Rest(r, j, Tail(walk.todo)) /\ r[j] = saved
    BY <1>2, <1>16, <2>1, RestLemma DEF r
  <2>3. Rest(t[walk.from], j, Tail(walk.todo)) /\ t[walk.from][j] = saved
    BY <1>0, <1>12, <2>2
  <2>4. WalkShows(t)' /\ Walked
    BY <1>2, <1>14, <2>1, <2>2, <2>3, AdvanceLemma
  <2> QED
    BY <1>11, <1>13, <2>4 DEF Shows
<1> QED
  BY <1>15, <1>16

-----------------------------------------------------------------------------
(* The inductive invariant *)

Shown == [l \in Lists |-> Content(l)]

\* The links show the sequences Content reads off them, and a walk what is left
\* of the list it is in.
ListInv == Shows(Shown) /\ WalkShows(Shown)

\* Content reads nothing but what the links show.
LEMMA OnlyShown ==
  ASSUME NEW s, Shows(s)
  PROVE  Shown = s
<1>1. s \in [Lists -> Seq(Nodes)]
  BY DEF Shows, Shape
<1>2. \A l \in Lists : Content(l) = s[l]
  BY ShowsLemma
<1> QED
  BY <1>1, <1>2 DEF Shown

LEMMA OnlyShownNext ==
  ASSUME NEW s, Shows(s)'
  PROVE  Shown' = s
<1>1. s \in [Lists -> Seq(Nodes)]
  BY DEF Shows, Shape
<1>2. \A l \in Lists : Content(l)' = s[l]
  BY ShowsNext
<1> QED
  BY <1>1, <1>2 DEF Shown

\* Every list is empty after list_init.
LEMMA ListInitShows == ListInit => ListInv /\ Shown = [l \in Lists |-> <<>>]
<1> SUFFICES ASSUME ListInit
             PROVE  ListInv /\ Shown = [l \in Lists |-> <<>>]
  OBVIOUS
<1> DEFINE s == [l \in Lists |-> <<>>]
<1>1. /\ s \in [Lists -> Seq(Nodes)]
      /\ \A l \in Lists : s[l] = <<>> /\ HeadOf(s[l]) = Null /\ LastOf(s[l]) = Null /\ Len(s[l]) = 0
  BY DEF HeadOf, LastOf
<1>2. \A l \in Lists : Distinct(s[l]) /\ Links(s[l], pre, next) /\ ToSet(s[l]) = {}
  BY <1>1 DEF Distinct, Links, ToSet
<1>3. Shows(s)
  BY <1>1, <1>2 DEF Shows, Shape, ListInit, Pointers
<1>4. Shown = s
  BY <1>3, OnlyShown
<1> QED
  BY <1>3, <1>4 DEF ListInv, WalkShows, ListInit

\* Every step is an operation on the sequences, and keeps the walk in its list.
LEMMA ListStep ==
  ASSUME ListInv, [ListNext]_vars
  PROVE  /\ ListInv'
         /\ \/ Operation(Shown, Shown')
            \/ \E k \in Lists : WalkMove(k) /\ Moved(Shown, Shown', k)
            \/ Shown' = Shown /\ UNCHANGED count
         /\ walk # NoWalk => Walked \/ UNCHANGED vars
<1>1. PICK s : s = Shown /\ Shows(s) /\ WalkShows(s)
  BY DEF ListInv
<1>2. ASSUME NEW t, Shows(t)'
      PROVE  Shown' = t
  BY <1>2, OnlyShownNext
<1>3. ASSUME NEW t, Shows(t)', Operation(s, t), walk = NoWalk, UNCHANGED walk
      PROVE  ListInv' /\ Operation(Shown, Shown')
  <2>1. Shown' = t
    BY <1>2, <1>3
  <2> QED
    BY <1>1, <1>3, <2>1 DEF ListInv, WalkShows
<1>4. ASSUME walk = NoWalk, UNCHANGED walk, NEW l \in Lists, NEW n \in Nodes,
             Insert(l, n) \/ Unlink(l, n)
      PROVE  ListInv' /\ Operation(Shown, Shown')
  <2>1. \E t : Shows(t)' /\ Operation(s, t)
    BY <1>1, <1>4, InsertStep, UnlinkStep
  <2> QED
    BY <1>3, <1>4, <2>1
<1>5. ASSUME walk = NoWalk, UNCHANGED walk, NEW l \in Lists, list_remove_first(l)
      PROVE  ListInv' /\ Operation(Shown, Shown')
  <2>1. \E t : Shows(t)' /\ Operation(s, t)
    BY <1>1, <1>5, RemoveFirstStep
  <2> QED
    BY <1>3, <1>5, <2>1
<1>6. ASSUME Shows(s)', WalkShows(s)'
      PROVE  ListInv' /\ Shown' = Shown
  <2>1. Shown' = s
    BY <1>2, <1>6
  <2> QED
    BY <1>1, <1>6, <2>1 DEF ListInv, WalkShows
<1>7. ASSUME NEW l \in Lists, WalkBegin(l)
      PROVE  ListInv' /\ Shown' = Shown /\ UNCHANGED count /\ walk = NoWalk
  <2>1. Shows(s)' /\ WalkShows(s)'
    BY <1>1, <1>7, WalkBeginStep
  <2> QED
    BY <1>6, <1>7, <2>1 DEF WalkBegin, listVars
<1>8. ASSUME WalkKeep
      PROVE  ListInv' /\ Shown' = Shown /\ UNCHANGED count /\ Walked
  <2>1. Shows(s)' /\ WalkShows(s)' /\ Walked
    BY <1>1, <1>8, WalkKeepStep
  <2> QED
    BY <1>6, <1>8, <2>1 DEF WalkKeep, listVars
<1>9. ASSUME NEW k \in Lists, WalkMove(k)
      PROVE  ListInv' /\ Moved(Shown, Shown', k) /\ Walked
  <2>1. PICK t : Shows(t)' /\ WalkShows(t)' /\ Walked /\ Moved(s, t, k)
    BY <1>1, <1>9, WalkMoveStep
  <2>2. Shown' = t
    BY <1>2, <2>1
  <2> QED
    BY <1>1, <2>1, <2>2 DEF ListInv, WalkShows
<1>10. CASE UNCHANGED vars
  <2>1. Shows(s)' /\ WalkShows(s)'
    BY <1>1, <1>10 DEF Shows, WalkShows, vars, linkVars, listVars
  <2> QED
    BY <1>6, <1>10, <2>1 DEF vars, listVars
<1> QED
  BY <1>4, <1>5, <1>7, <1>8, <1>9, <1>10 DEF ListNext

\* The links of every reachable state show sequences of nodes, disjoint and
\* without repetition.
THEOREM ListInvariant == ListSpec => []ListInv
<1>1. ListInit => ListInv
  BY ListInitShows
<1>2. ListInv /\ [ListNext]_vars => ListInv'
  BY ListStep
<1> QED
  BY <1>1, <1>2, PTL DEF ListSpec

-----------------------------------------------------------------------------
(* The properties *)

\* In every list of list.c the links agree in both directions, first and last
\* are its ends, and a node that is in no list has no links: what list_remove
\* relies on when it takes a node out of the middle.
THEOREM ListsAreWellLinked == ListSpec => []WellLinked
<1>1. ListInv => WellLinked
  <2> SUFFICES ASSUME NEW s, Shows(s)
               PROVE  WellLinked
    BY DEF ListInv
  <2>1. ASSUME NEW l \in Lists
        PROVE  /\ last[l] = IF Content(l) = <<>> THEN Null ELSE Content(l)[Len(Content(l))]
               /\ \A i \in 1 .. Len(Content(l)) :
                    pre[Content(l)[i]] = IF i = 1 THEN Null ELSE Content(l)[i - 1]
    <3>1. Content(l) = s[l]
      BY ShowsLemma
    <3>2. last[l] = LastOf(s[l]) /\ Links(s[l], pre, next)
      BY ShapeFacts DEF Shows
    <3> QED
      BY <3>1, <3>2 DEF LastOf, Links, Before
  <2>2. ASSUME NEW n \in Nodes, Free(n)
        PROVE  pre[n] = Null /\ next[n] = Null
    <3>1. \A l \in Lists : n \notin ToSet(s[l])
      BY <2>2, ShowsLemma DEF Free
    <3> QED
      BY <3>1 DEF Shows, Shape
  <2> QED
    BY <2>1, <2>2 DEF WellLinked
<1> QED
  BY <1>1, ListInvariant, PTL

\* task_time_tick visits every sleeper the list had when it began, in order,
\* although it moves sleepers to the ready list on its way.
THEOREM WalksVisitAll == ListSpec => WalkVisitsAll
<1>1. ListInv /\ [ListNext]_vars => (walk # NoWalk => Walked \/ UNCHANGED vars)
  BY ListStep
<1>2. ListSpec => [][walk # NoWalk => Walked]_vars
  BY <1>1, ListInvariant, PTL DEF ListSpec
<1> QED
  BY <1>2, PTL DEF WalkVisitsAll, Walked

\* The functions of list.c, used as the kernel uses them, implement sequences of
\* nodes: each call is one operation on them, and count is the length.
THEOREM ListsImplementSequences == ListSpec => ImplementsSequences
<1>1. ListInit => Sequences!Init
  <2> SUFFICES ASSUME ListInit
               PROVE  Sequences!Init
    OBVIOUS
  <2>1. Shown = [l \in Lists |-> <<>>] /\ count = [l \in Lists |-> 0]
    BY ListInitShows DEF ListInit
  <2> QED
    BY <2>1 DEF Sequences!Init, Shown
<1>0. /\ \A q : Sequences!ToSet(q) = ToSet(q)
      /\ \A q, n : Sequences!RemoveFirst(q, n) = RemoveFirst(q, n)
  BY DEF Sequences!ToSet, ToSet, Sequences!RemoveFirst, RemoveFirst, Sequences!RemoveAt, RemoveAt,
         Sequences!SelectInSeq, SelectInSeq, Sequences!Min, Min
<1>2. ListInv /\ ListInv' /\ [ListNext]_vars => [Sequences!Next]_(Sequences!listVars)
  <2> SUFFICES ASSUME ListInv, ListInv', [ListNext]_vars
               PROVE  [Sequences!Next]_(Sequences!listVars)
    OBVIOUS
  <2>1. PICK s : s = Shown /\ Shows(s)
    BY DEF ListInv
  <2>2. PICK t : t = Shown' /\ Shows(t)'
    BY DEF ListInv
  <2>3. /\ s \in [Lists -> Seq(Nodes)] /\ t \in [Lists -> Seq(Nodes)]
        /\ count = [l \in Lists |-> Len(s[l])] /\ count' = [l \in Lists |-> Len(t[l])]
    BY <2>1, <2>2 DEF Shows, Shape
  <2>4. [l \in Lists |-> Content(l)] = s /\ [l \in Lists |-> Content(l)]' = t
    BY <2>1, <2>2 DEF Shown
  <2>5. ASSUME NEW l \in Lists, NEW q, t = [s EXCEPT ![l] = q]
        PROVE  Sequences!Becomes(l, q)
    <3>1. count' = [count EXCEPT ![l] = Len(q)]
      BY <2>3, <2>5
    <3> QED
      BY <2>4, <2>5, <3>1 DEF Sequences!Becomes
  <2>6. CASE Operation(Shown, Shown')
    <3>1. Operation(s, t)
      BY <2>1, <2>2, <2>6
    <3>2. ASSUME NEW l \in Lists, NEW n \in Nodes, \A k \in Lists : n \notin ToSet(s[k]),
                 t \in {[s EXCEPT ![l] = <<n>> \o s[l]], [s EXCEPT ![l] = Append(s[l], n)]}
          PROVE  Sequences!Next
      <4>1. Sequences!Free(n)
        BY <1>0, <2>4, <3>2 DEF Sequences!Free
      <4>2. CASE t = [s EXCEPT ![l] = <<n>> \o s[l]]
        <5>1. Sequences!InsertFirst(l, n)
          BY <2>4, <2>5, <4>1, <4>2 DEF Sequences!InsertFirst
        <5> QED
          BY <5>1 DEF Sequences!Next
      <4>3. CASE t = [s EXCEPT ![l] = Append(s[l], n)]
        <5>1. Sequences!InsertLast(l, n)
          BY <2>4, <2>5, <4>1, <4>3 DEF Sequences!InsertLast
        <5> QED
          BY <5>1 DEF Sequences!Next
      <4> QED
        BY <3>2, <4>2, <4>3
    <3>3. ASSUME NEW l \in Lists, NEW n \in Nodes, n \in ToSet(s[l]),
                 t = [s EXCEPT ![l] = RemoveFirst(s[l], n)]
          PROVE  Sequences!Next
      BY <1>0, <2>4, <2>5, <3>3 DEF Sequences!Next, Sequences!Delete
    <3>4. ASSUME NEW l \in Lists, s[l] # <<>>, t = [s EXCEPT ![l] = Tail(s[l])]
          PROVE  Sequences!Next
      BY <2>4, <2>5, <3>4 DEF Sequences!Next, Sequences!RemoveFirstNode
    <3> QED
      BY <3>1, <3>2, <3>3, <3>4 DEF Operation
  <2>7. ASSUME NEW k \in Lists, WalkMove(k), Moved(Shown, Shown', k)
        PROVE  Sequences!Next
    <3>1. PICK l, n : l = walk.from /\ n = walk.cursor
      OBVIOUS
    <3>2. /\ l \in Lists /\ k # l /\ n \in ToSet(s[l])
          /\ t = [s EXCEPT ![l] = RemoveFirst(s[l], n), ![k] = Append(s[k], n)]
      BY <2>1, <2>2, <2>7, <3>1 DEF Moved
    <3>3. count' = [count EXCEPT ![l] = @ - 1, ![k] = @ + 1]
      BY <2>7, <3>1 DEF WalkMove
    <3>4. n \in Nodes
      BY <2>1, <3>2, ShapeFacts DEF Shows
    <3>5. Sequences!Move(l, k, n)
      BY <1>0, <2>4, <3>2, <3>3 DEF Sequences!Move
    <3> QED
      BY <3>2, <3>4, <3>5 DEF Sequences!Next
  <2>8. CASE Shown' = Shown /\ UNCHANGED count
    BY <2>8 DEF Shown, Sequences!listVars
  <2> QED
    BY <2>6, <2>7, <2>8, ListStep
<1> QED
  BY <1>1, <1>2, ListInvariant, PTL DEF ListSpec, ImplementsSequences, Sequences!Spec

=============================================================================

------------------------------- MODULE Loops -------------------------------
(***************************************************************************)
(* Lemmas about loops: what is kept by every turn holds at the end, and a  *)
(* fold over a sequence is a run of turns.  They are proved from the least *)
(* element of a set of numbers.  With them are facts on division, for      *)
(* loops over pages.                                                       *)
(***************************************************************************)
EXTENDS Integers, FiniteSetsExt, SequencesExt, WellFoundedInduction, TLAPS

\* A set of natural numbers that is not empty has a least element.
LEMMA LeastLemma ==
  ASSUME NEW S \in SUBSET Nat, S # {}
  PROVE  \E i \in S : \A j \in S : i <= j
<1>1. PICK i \in S : \A j \in S : ~(<<j, i>> \in OpToRel(<, Nat))
  BY NatLessThanWellFounded, WFMin
<1>2. \A j \in S : <<j, i>> \in OpToRel(<, Nat) <=> j < i
  BY DEF OpToRel
<1>3. ASSUME NEW j \in S
      PROVE  i <= j
  <2>1. ~(j < i)
    BY <1>1, <1>2, Zenon
  <2> QED BY <2>1
<1> QED BY <1>3

\* What holds before a loop and is kept by every turn holds after it.
LEMMA LoopLemma ==
  ASSUME NEW n \in Nat, NEW S, 0 \in S, \A i \in 1 .. n : i - 1 \in S => i \in S
  PROVE  \A i \in 0 .. n : i \in S
<1> DEFINE Bad == {i \in 0 .. n : i \notin S}
<1>1. CASE Bad # {}
  <2>1. Bad \in SUBSET Nat
    OBVIOUS
  <2> HIDE DEF Bad
  <2>2. PICK i \in Bad : \A j \in Bad : i <= j
    BY <1>1, <2>1, LeastLemma
  <2>3. i \in 0 .. n /\ i \notin S
    BY DEF Bad
  <2>4. i # 0 /\ i \in 1 .. n /\ i - 1 \in 0 .. n /\ ~(i <= i - 1)
    BY <2>3
  <2>5. i - 1 \in S
    BY <2>2, <2>4 DEF Bad
  <2> QED
    BY <2>3, <2>4, <2>5
<1>2. CASE Bad = {}
  BY <1>2
<1> QED
  BY <1>1, <1>2

\* The largest of the first numbers a set has.
LEMMA MaxLemma ==
  ASSUME NEW k \in Nat, NEW x \in SUBSET (1 .. k), k \in x
  PROVE  Max(x) = k
<1>1. \A y \in x : k >= y
  OBVIOUS
<1>2. \A z \in x : (\A y \in x : z >= y) => z = k
  BY <1>1
<1> QED
  BY <1>1, <1>2 DEF Max

\* The recursive function behind FoldLeft over 1 .. k, turn i of which is step[i].
FoldTurn(it, k, base, step) ==
  [x \in SUBSET (1 .. k) |-> IF x = {} THEN base ELSE step[Max(x)][it[x \ {Max(x)}]]]

Firsts(n) == SUBSET (1 .. n)

LEMMA FoldExists ==
  ASSUME NEW n \in Nat, NEW V, NEW base \in V, NEW step \in [1 .. n -> [V -> V]]
  PROVE  \E it : it \in [Firsts(n) -> V] /\ it = FoldTurn(it, n, base, step)
<1> DEFINE S == {k \in 0 .. n : \E it \in [SUBSET (1 .. k) -> V] : it = FoldTurn(it, k, base, step)}
<1>1. 0 \in S
  <2> DEFINE none == [x \in SUBSET (1 .. 0) |-> base]
  <2>1. none \in [SUBSET (1 .. 0) -> V]
    OBVIOUS
  <2>2. \A x \in SUBSET (1 .. 0) : x = {}
    <3>1. 1 .. 0 = {}
      OBVIOUS
    <3> QED
      BY <3>1
  <2>3. none = FoldTurn(none, 0, base, step)
    BY <2>2 DEF FoldTurn
  <2> HIDE DEF none
  <2>4. \E it \in [SUBSET (1 .. 0) -> V] : it = FoldTurn(it, 0, base, step)
    BY <2>1, <2>3, Zenon
  <2>5. 0 \in 0 .. n
    OBVIOUS
  <2> QED
    BY <2>4, <2>5, Zenon
<1>2. ASSUME NEW k \in 1 .. n, k - 1 \in S
      PROVE  k \in S
  <2>1. PICK it \in [SUBSET (1 .. k - 1) -> V] : it = FoldTurn(it, k - 1, base, step)
    BY <1>2
  <2> DEFINE next == [x \in SUBSET (1 .. k) |->
                        IF k \in x THEN step[k][it[x \ {k}]] ELSE it[x]]
  <2>2. \A x \in SUBSET (1 .. k) : k \notin x => x \in SUBSET (1 .. k - 1)
    OBVIOUS
  <2>3. \A x \in SUBSET (1 .. k) : x \ {k} \in SUBSET (1 .. k - 1) /\ k \notin x \ {k}
                                   /\ x \ {k} \in SUBSET (1 .. k)
    OBVIOUS
  <2>4. ASSUME NEW x \in SUBSET (1 .. k)
        PROVE  next[x] \in V
    <3>1. step[k] \in [V -> V]
      OBVIOUS
    <3> QED
      BY <2>2, <2>3, <3>1
  <2>5. ASSUME NEW x \in SUBSET (1 .. k)
        PROVE  next[x] = IF x = {} THEN base ELSE step[Max(x)][next[x \ {Max(x)}]]
    <3>1. CASE k \in x
      <4>1. Max(x) = k /\ x # {}
        BY <3>1, MaxLemma
      <4>2. next[x \ {k}] = it[x \ {k}]
        BY <2>3
      <4> HIDE DEF next
      <4>3. next[x] = step[k][it[x \ {k}]]
        BY <3>1 DEF next
      <4> QED
        BY <4>1, <4>2, <4>3
    <3>2. CASE k \notin x
      <4>1. x \in SUBSET (1 .. k - 1) /\ next[x] = it[x]
        BY <2>2, <3>2
      <4>2. it[x] = IF x = {} THEN base ELSE step[Max(x)][it[x \ {Max(x)}]]
        BY <2>1, <4>1 DEF FoldTurn
      <4>3. next[x \ {Max(x)}] = it[x \ {Max(x)}]
        <5>1. x \ {Max(x)} \in SUBSET (1 .. k) /\ k \notin x \ {Max(x)}
          BY <3>2
        <5> QED
          BY <5>1
      <4> HIDE DEF next
      <4> QED
        BY <4>1, <4>2, <4>3
    <3> QED
      BY <3>1, <3>2
  <2>6. next \in [SUBSET (1 .. k) -> V]
    BY <2>4
  <2>7. next = [x \in SUBSET (1 .. k) |-> next[x]]
    OBVIOUS
  <2> HIDE DEF next
  <2>8. next = FoldTurn(next, k, base, step)
    BY <2>5, <2>7 DEF FoldTurn
  <2> QED
    BY <2>6, <2>8
<1> HIDE DEF S
<1>3. n \in S
  <2>1. \A i \in 0 .. n : i \in S
    BY <1>1, <1>2, LoopLemma
  <2> QED
    BY <2>1
<1>4. PICK it \in [SUBSET (1 .. n) -> V] : it = FoldTurn(it, n, base, step)
  BY <1>3 DEF S
<1>5. it \in [Firsts(n) -> V]
  BY DEF Firsts
<1> QED
  BY <1>4, <1>5

\* The values of a loop, turn by turn, from a solution of that recursion.
LEMMA FoldRuns ==
  ASSUME NEW n \in Nat, NEW V, NEW base \in V, NEW step \in [1 .. n -> [V -> V]],
         NEW it, it[{}] = base,
         \A i \in 1 .. n : it[1 .. i - 1] \in V => it[1 .. i] = step[i][it[1 .. i - 1]]
  PROVE  \E run \in [0 .. n -> V] :
           /\ run[0] = base /\ run[n] = it[1 .. n]
           /\ \A i \in 1 .. n : run[i] = step[i][run[i - 1]]
<1> DEFINE run == [i \in 0 .. n |-> it[1 .. i]]
           S == {i \in 0 .. n : run[i] \in V}
<1>1. run[0] = base
  <2>1. 1 .. 0 = {}
    OBVIOUS
  <2> QED
    BY <2>1
<1>2. \A i \in 1 .. n : run[i - 1] \in V => run[i] = step[i][run[i - 1]]
  OBVIOUS
<1> HIDE DEF run
<1>3. \A i \in 0 .. n : i \in S
  <2>1. 0 \in S
    BY <1>1
  <2>2. \A i \in 1 .. n : i - 1 \in S => i \in S
    BY <1>2
  <2> HIDE DEF S
  <2> QED
    BY <2>1, <2>2, LoopLemma
<1>4. run \in [0 .. n -> V]
  BY <1>3 DEF run
<1>5. run[n] = it[1 .. n]
  BY DEF run
<1>6. \A i \in 1 .. n : run[i] = step[i][run[i - 1]]
  BY <1>2, <1>4
<1> QED
  BY <1>1, <1>4, <1>5, <1>6

LEMMA MaxIn ==
  ASSUME NEW n \in Nat, NEW x \in SUBSET (1 .. n), x # {}
  PROVE  Max(x) \in x
<1> DEFINE S == {j \in Nat : \E y \in x : j = n - y}
<1>1. S # {}
  <2>1. PICK y \in x : TRUE
    OBVIOUS
  <2>2. n - y \in S
    BY <2>1
  <2> QED
    BY <2>2
<1>2. PICK j \in S : \A i \in S : j <= i
  <2>1. S \in SUBSET Nat
    OBVIOUS
  <2> HIDE DEF S
  <2> QED
    BY <1>1, <2>1, LeastLemma
<1>3. PICK z \in x : j = n - z
  BY <1>2
<1>4. \A y \in x : z >= y
  <2> TAKE y \in x
  <2>1. n - y \in S
    OBVIOUS
  <2>2. n - z <= n - y
    BY <1>2, <1>3, <2>1
  <2> QED
    BY <2>2
<1>5. \E w \in x : \A y \in x : w >= y
  BY <1>4
<1> HIDE DEF S
<1> QED
  BY <1>5 DEF Max

\* The sets such a recursion goes through.
LEMMA FirstsLemma ==
  ASSUME NEW n \in Nat
  PROVE  /\ \A i \in 1 .. n : Max(1 .. i) = i /\ 1 .. i \in SUBSET (1 .. n) /\ 1 .. i # {}
                              /\ (1 .. i) \ {i} = 1 .. i - 1
         /\ {} \in SUBSET (1 .. n)
         /\ \A x \in SUBSET (1 .. n) : x # {} =>
              Max(x) \in 1 .. n /\ x \ {Max(x)} \in SUBSET (1 .. n)
<1>1. ASSUME NEW i \in 1 .. n
      PROVE  /\ Max(1 .. i) = i /\ 1 .. i \in SUBSET (1 .. n) /\ 1 .. i # {}
             /\ (1 .. i) \ {i} = 1 .. i - 1
  <2>1. i \in 1 .. i /\ i \in Nat /\ \A j \in 1 .. i : j \in 1 .. n
    OBVIOUS
  <2>2. (1 .. i) \ {i} = 1 .. i - 1
    OBVIOUS
  <2>3. 1 .. i \in SUBSET (1 .. i)
    OBVIOUS
  <2> QED
    BY <2>1, <2>2, <2>3, MaxLemma
<1>2. \A x \in SUBSET (1 .. n) : x # {} =>
        Max(x) \in 1 .. n /\ x \ {Max(x)} \in SUBSET (1 .. n)
  BY MaxIn
<1> QED
  BY <1>1, <1>2

-----------------------------------------------------------------------------
(* Division *)

\* The quotient is the only number of whole divisors.
LEMMA DivUnique ==
  ASSUME NEW p \in Nat, p # 0, NEW x \in Nat, NEW k \in Nat, p * k <= x, x < p * k + p
  PROVE  x \div p = k
<1> DEFINE e == x \div p
           i == x % p
<1>1. e \in Int /\ i \in 0 .. p - 1 /\ x = p * e + i
  OBVIOUS
<1> HIDE DEF e, i
<1>2. CASE e < k
  <2>1. p * e <= p * (k - 1) /\ p * (k - 1) = p * k - p
    BY <1>1, <1>2
  <2> QED
    BY <1>1, <2>1
<1>3. CASE e > k
  <2>1. p * e >= p * (k + 1) /\ p * (k + 1) = p * k + p
    BY <1>1, <1>3
  <2> QED
    BY <1>1, <2>1
<1> QED
  BY <1>1, <1>2, <1>3 DEF e

\* Division keeps the order.
LEMMA DivMono ==
  ASSUME NEW p \in Nat, p # 0, NEW x \in Nat, NEW y \in Nat, x <= y
  PROVE  x \div p <= y \div p
<1> DEFINE d == x \div p
           e == y \div p
           i == x % p
           j == y % p
<1>1. /\ d \in Int /\ e \in Int /\ i \in 0 .. p - 1 /\ j \in 0 .. p - 1
      /\ x = p * d + i /\ y = p * e + j
  OBVIOUS
<1> HIDE DEF d, e, i, j
<1>2. CASE d > e
  <2>1. p * d >= p * (e + 1) /\ p * (e + 1) = p * e + p
    BY <1>1, <1>2
  <2> QED
    BY <1>1, <2>1
<1> QED
  BY <1>1, <1>2 DEF d, e

\* Quotient and remainder of a natural number.
LEMMA DivMod ==
  ASSUME NEW p \in Nat, p # 0, NEW x \in Nat
  PROVE  /\ x \div p \in Nat /\ x % p \in 0 .. p - 1 /\ x = p * (x \div p) + (x % p)
         /\ p * (x \div p) \in Nat
<1> DEFINE e == x \div p
           i == x % p
<1>1. e \in Int /\ i \in 0 .. p - 1 /\ x = p * e + i
  OBVIOUS
<1> HIDE DEF e, i
<1>2. e >= 0
  <2>1. CASE e < 0
    <3>1. p * e <= p * (-1)
      BY <1>1, <2>1
    <3> QED
      BY <1>1, <3>1
  <2> QED
    BY <1>1, <2>1
<1> QED
  BY <1>1, <1>2 DEF e, i

=============================================================================

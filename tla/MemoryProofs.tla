----------------------------- MODULE MemoryProofs ----------------------------
(***************************************************************************)
(* Proofs about physical memory: the bitmap's search for one bit and the   *)
(* page allocator, for any number and size of pages and any holders; and   *)
(* what the second-stage loader leaves to them, for any BIOS's list and    *)
(* any kernel.                                                             *)
(***************************************************************************)
EXTENDS PageAlloc, Boot, FiniteSetTheorems, Loops

-----------------------------------------------------------------------------
(* The search for one bit *)

\* The bits behind k that are equal to bit.
Ahead(bitmap, bit, n, k) == {j \in k .. n - 1 : bitmap[j] = bit}

\* What the loop of bitmap_alloc_nbits returns when it is at bit k and one bit is asked for.
Found(bitmap, bit, n) ==
  [k \in 0 .. n |->
     IF Ahead(bitmap, bit, n, k) = {} THEN -1
     ELSE CHOOSE j \in Ahead(bitmap, bit, n, k) : \A i \in Ahead(bitmap, bit, n, k) : j <= i]

\* One turn of the loop, f being what the rest of it returns.
Turn(f, bitmap, bit, n) ==
  [k \in 0 .. n |-> IF k = n THEN -1 ELSE IF bitmap[k] # bit THEN f[k + 1] ELSE k]

\* Found is what one turn of the loop makes of it.
LEMMA FoundIsAFixpoint ==
  ASSUME NEW n \in Nat, NEW b \in [0 .. n - 1 -> Bit], NEW bit \in Bit
  PROVE  Found(b, bit, n) = Turn(Found(b, bit, n), b, bit, n)
<1> DEFINE F == Found(b, bit, n)
           A(k) == Ahead(b, bit, n, k)
<1>1. \A k \in 0 .. n : F[k] = IF A(k) = {} THEN -1
                               ELSE CHOOSE j \in A(k) : \A i \in A(k) : j <= i
  BY DEF Found
<1>2. A(n) = {}
  BY DEF Ahead
<1>3. ASSUME NEW k \in 0 .. n - 1, b[k] # bit
      PROVE  F[k] = F[k + 1]
  <2>1. A(k) = A(k + 1)
    BY <1>3 DEF Ahead
  <2>2. k \in 0 .. n /\ k + 1 \in 0 .. n
    OBVIOUS
  <2> HIDE DEF A, F
  <2> QED
    BY <1>1, <2>1, <2>2
<1>4. ASSUME NEW k \in 0 .. n - 1, b[k] = bit
      PROVE  F[k] = k
  <2>1. k \in A(k) /\ \A i \in A(k) : k <= i /\ i \in Int
    BY <1>4 DEF Ahead
  <2>2. k \in 0 .. n
    OBVIOUS
  <2> HIDE DEF A, F
  <2>3. \E j \in A(k) : \A i \in A(k) : j <= i
    BY <2>1
  <2>4. F[k] \in A(k) /\ \A i \in A(k) : F[k] <= i
    BY <1>1, <2>2, <2>3
  <2> QED
    BY <2>1, <2>4
<1>5. ASSUME NEW k \in 0 .. n
      PROVE  F[k] = IF k = n THEN -1 ELSE IF b[k] # bit THEN F[k + 1] ELSE k
  <2>1. CASE k = n
    BY <1>1, <1>2, <2>1
  <2>2. CASE k # n
    <3>1. k \in 0 .. n - 1
      BY <2>2
    <3> QED
      BY <1>3, <1>4, <2>2, <3>1
  <2> QED
    BY <2>1, <2>2
<1>6. F = [k \in 0 .. n |-> F[k]]
  BY DEF Found
<1> QED
  BY <1>5, <1>6 DEF Turn

\* Whatever a turn of the loop leaves alone is Found: by induction from the last bit down.
LEMMA FixpointIsFound ==
  ASSUME NEW n \in Nat, NEW b \in [0 .. n - 1 -> Bit], NEW bit \in Bit,
         NEW f, f = Turn(f, b, bit, n)
  PROVE  f = Found(b, bit, n)
<1> DEFINE F == Found(b, bit, n)
           Wrong == {m \in 0 .. n : f[n - m] # F[n - m]}
<1>1. F = Turn(F, b, bit, n)
  BY FoundIsAFixpoint
<1> HIDE DEF F
<1>2. ASSUME NEW k \in 0 .. n
      PROVE  /\ f[k] = IF k = n THEN -1 ELSE IF b[k] # bit THEN f[k + 1] ELSE k
             /\ F[k] = IF k = n THEN -1 ELSE IF b[k] # bit THEN F[k + 1] ELSE k
  BY <1>1 DEF Turn
<1>3. Wrong = {}
  <2> SUFFICES ASSUME Wrong # {} PROVE FALSE
    OBVIOUS
  <2>1. PICK m \in Wrong : \A y \in Wrong : m <= y
    <3>1. Wrong \in SUBSET Nat
      OBVIOUS
    <3> HIDE DEF Wrong
    <3> QED
      BY <3>1, LeastLemma
  <2>2. m \in 0 .. n /\ n - m \in 0 .. n /\ f[n - m] # F[n - m]
    BY <2>1
  <2>3. m # 0
    <3>1. m = 0 => n - m = n
      BY <2>2
    <3> QED
      BY <1>2, <2>2, <3>1
  <2>4. m - 1 \in 0 .. n /\ ~(m <= m - 1) /\ n - (m - 1) = (n - m) + 1
    BY <2>2, <2>3
  <2>5. m - 1 \notin Wrong
    BY <2>1, <2>4
  <2>6. f[(n - m) + 1] = F[(n - m) + 1]
    BY <2>4, <2>5
  <2> QED
    BY <1>2, <2>2, <2>6
<1>4. ASSUME NEW k \in 0 .. n
      PROVE  f[k] = F[k]
  <2>1. n - k \in 0 .. n /\ n - (n - k) = k
    OBVIOUS
  <2> QED
    BY <1>3, <2>1
<1>5. f = [k \in 0 .. n |-> f[k]] /\ F = [k \in 0 .. n |-> F[k]]
  BY <1>1 DEF Turn
<1>6. f = F
  BY <1>4, <1>5
<1> QED
  BY <1>6 DEF F

\* With one bit to find, the search returns the first that matches.
LEMMA SearchLemma ==
  ASSUME NEW n \in Nat, NEW b \in [0 .. n - 1 -> Bit], NEW bit \in Bit
  PROVE  AllocIndex(b, bit, 1) = Found(b, bit, n)[0]
<1> DEFINE search == CHOOSE f : f = Turn(f, b, bit, n)
<1>1. DOMAIN b = 0 .. n - 1 /\ bit_count(b) = n
  <2>1. Cardinality(0 .. n - 1) = n
    BY FS_Interval
  <2> QED
    BY <2>1 DEF bit_count
<1>2. search = Turn(search, b, bit, n)
  BY FoundIsAFixpoint
<1>3. search = Found(b, bit, n)
  <2> HIDE DEF search
  <2> QED
    BY <1>2, FixpointIsFound
<1> DEFINE turn(f) ==
      [k \in 0 .. n |->
         LET compared == {j \in DOMAIN b : k <= j /\ j <= k + 1 - 2}
             differ   == {j \in compared : b[j] # bit}
         IN  IF k = n THEN -1
             ELSE IF b[k] # bit THEN f[k + 1]
             ELSE IF differ # {} THEN f[1 + CHOOSE j \in differ : \A i \in differ : j <= i]
             ELSE IF k + 1 - 1 <= n THEN k
             ELSE -1]
<1>4. AllocIndex(b, bit, 1) = (CHOOSE f : f = turn(f))[0]
  BY <1>1 DEF AllocIndex
<1>5. ASSUME NEW f
      PROVE  turn(f) = Turn(f, b, bit, n)
  <2> SUFFICES ASSUME NEW k \in 0 .. n
               PROVE  turn(f)[k] = Turn(f, b, bit, n)[k]
    BY DEF Turn
  <2>1. {j \in DOMAIN b : k <= j /\ j <= k + 1 - 2} = {}
    BY <1>1
  <2>2. k + 1 - 1 <= n
    OBVIOUS
  <2> QED
    BY <2>1, <2>2 DEF Turn
<1> HIDE DEF turn
<1>6. (CHOOSE f : f = turn(f)) = search
  BY <1>5
<1> QED
  BY <1>3, <1>4, <1>6

\* Allocating one bit that is 0 finds the first of them, if any, and sets it.  (A
\* search for a 1 would set it again: ~bit is never 0.)
LEMMA OneBitLemma ==
  ASSUME NEW n \in Nat, NEW b \in [0 .. n - 1 -> Bit]
  PROVE  LET r == bitmap_alloc_nbits(b, 0, 1)
             Z == {j \in 0 .. n - 1 : b[j] = 0}
         IN  /\ r.bits \in [0 .. n - 1 -> Bit]
             /\ r.index \in Int
             /\ Z = {} => r.index = -1 /\ r.bits = b
             /\ Z # {} => /\ r.index \in Z /\ \A j \in Z : r.index <= j
                          /\ r.bits = [b EXCEPT ![r.index] = 1]
<1> DEFINE index == AllocIndex(b, 0, 1)
           Z == {j \in 0 .. n - 1 : b[j] = 0}
           r == bitmap_alloc_nbits(b, 0, 1)
<1>1. /\ Z = {} => index = -1
      /\ Z # {} => index \in Z /\ \A j \in Z : index <= j
  <2> DEFINE A == Ahead(b, 0, n, 0)
  <2>1. index = Found(b, 0, n)[0]
    BY SearchLemma DEF Bit
  <2>2. A = Z /\ Z \in SUBSET Nat /\ 0 \in 0 .. n
    BY DEF Ahead
  <2>3. Found(b, 0, n)[0] = IF A = {} THEN -1 ELSE CHOOSE j \in A : \A i \in A : j <= i
    BY <2>2 DEF Found
  <2> HIDE DEF index, Z, A
  <2>4. A # {} => \E j \in A : \A i \in A : j <= i
    BY <2>2, LeastLemma
  <2>5. A # {} => Found(b, 0, n)[0] \in A /\ \A i \in A : Found(b, 0, n)[0] <= i
    BY <2>3, <2>4
  <2> QED
    BY <2>1, <2>2, <2>3, <2>5
<1>3. r.index = index /\ r.bits = IF index >= 0 THEN bitmap_set_bit(b, index, 1, Complement(0)) ELSE b
  BY DEF bitmap_alloc_nbits
<1> HIDE DEF index, r
<1>4. CASE Z = {}
  <2>1. r.index = -1 /\ r.bits = b
    BY <1>1, <1>3, <1>4
  <2> QED
    BY <1>4, <2>1 DEF r
<1>5. CASE Z # {}
  <2>1. index \in 0 .. n - 1 /\ index >= 0
    BY <1>1, <1>5
  <2>2. Complement(0) # 0
    BY DEF Complement
  <2>3. DOMAIN b = 0 .. n - 1 /\ \A i \in DOMAIN b : i \in index .. index + 1 - 1 <=> i = index
    BY <2>1
  <2>4. r.bits = [i \in DOMAIN b |-> IF i = index THEN 1 ELSE b[i]]
    BY <1>3, <2>1, <2>2, <2>3 DEF bitmap_set_bit
  <2>5. r.bits = [b EXCEPT ![index] = 1]
    BY <2>1, <2>3, <2>4
  <2>6. r.bits \in [0 .. n - 1 -> Bit]
    BY <2>5 DEF Bit
  <2> HIDE DEF Z
  <2>7. /\ r.bits \in [0 .. n - 1 -> Bit] /\ r.index \in Int
        /\ r.index \in Z /\ \A j \in Z : r.index <= j
        /\ r.bits = [b EXCEPT ![r.index] = 1]
    BY <1>1, <1>3, <1>5, <2>1, <2>5, <2>6
  <2> QED
    BY <1>5, <2>7 DEF r, Z
<1> QED
  BY <1>4, <1>5

\* So it does what the reference definition says, for every bitmap.
LEMMA OneBitCorrect ==
  ASSUME NEW n \in Nat, NEW b \in [0 .. n - 1 -> Bit]
  PROVE  AllocCorrect(b, 0, 1)
<1> DEFINE r == bitmap_alloc_nbits(b, 0, 1)
           B == Blocks(b, 0, 1)
           Z == {j \in 0 .. n - 1 : b[j] = 0}
<1>1. /\ r.index \in Int
      /\ Z = {} => r.index = -1 /\ r.bits = b
      /\ Z # {} => /\ r.index \in Z /\ \A j \in Z : r.index <= j
                   /\ r.bits = [b EXCEPT ![r.index] = 1]
  BY OneBitLemma
<1>2. B = Z
  <2>1. Cardinality(0 .. n - 1) = n /\ DOMAIN b = 0 .. n - 1
    BY FS_Interval
  <2>2. \A k \in 0 .. n - 1 : k + 1 <= n /\ k .. k + 1 - 1 = {k}
    OBVIOUS
  <2> QED
    BY <2>1, <2>2 DEF Blocks, bit_count
<1> HIDE DEF r
<1>3. r.index = IF B = {} THEN -1 ELSE CHOOSE k \in B : \A j \in B : k <= j
  <2>1. Z \subseteq Int
    OBVIOUS
  <2> HIDE DEF Z, B
  <2>2. ASSUME NEW x \in Z, NEW y \in Z, \A j \in Z : x <= j, \A j \in Z : y <= j
        PROVE  x = y
    BY <2>1, <2>2
  <2> QED
    BY <1>1, <1>2, <2>2
<1>4. ASSUME NEW i \in DOMAIN b
      PROVE  r.bits[i] = IF B # {} /\ i \in r.index .. r.index + 1 - 1 THEN 1 - 0 ELSE b[i]
  <2>1. DOMAIN b = 0 .. n - 1 /\ i \in Int /\ (i \in r.index .. r.index + 1 - 1 <=> i = r.index)
    BY <1>1
  <2>2. CASE Z = {}
    BY <1>1, <1>2, <2>2
  <2>3. CASE Z # {}
    <3>1. r.bits[i] = IF i = r.index THEN 1 ELSE b[i]
      BY <1>1, <2>3
    <3>2. B # {}
      BY <1>2, <2>3
    <3> HIDE DEF B, Z
    <3> QED
      BY <2>1, <3>1, <3>2
  <2> QED
    BY <2>2, <2>3
<1> HIDE DEF B
<1> QED
  BY <1>3, <1>4 DEF AllocCorrect, r, B

-----------------------------------------------------------------------------
(* The allocator *)

\* The types of the allocator's fields.
PageTypeOK ==
  /\ bits \in [0 .. PageCount - 1 -> Bit]
  /\ held \in [Holders -> SUBSET Addresses]
  /\ reply \in Addresses \union {0}

\* bitmap_set_bit keeps the type of a bitmap.
LEMMA SetBitLemma ==
  ASSUME NEW n \in Nat, NEW b \in [0 .. n - 1 -> Bit], NEW index \in Int
  PROVE  /\ bitmap_set_bit(b, index, 1, 0) \in [0 .. n - 1 -> Bit]
         /\ \A i \in 0 .. n - 1 : bitmap_set_bit(b, index, 1, 0)[i] = IF i = index THEN 0 ELSE b[i]
<1>1. DOMAIN b = 0 .. n - 1 /\ \A i \in DOMAIN b : i \in index .. index + 1 - 1 <=> i = index
  OBVIOUS
<1>2. bitmap_set_bit(b, index, 1, 0) = [i \in 0 .. n - 1 |-> IF i = index THEN 0 ELSE b[i]]
  BY <1>1 DEF bitmap_set_bit
<1> QED
  BY <1>2 DEF Bit

\* The pages a step takes from the bitmap and gives back to it.
LEMMA PageStepLemma ==
  ASSUME PageTypeOK, [PageNext]_pageVars
  PROVE  PageTypeOK'
<1>1. PageCount \in Nat
  BY PageAssumption
<1>2. ASSUME NEW h \in Holders, addr_alloc_page(h)
      PROVE  PageTypeOK'
  <2> DEFINE r == bitmap_alloc_nbits(bits, 0, 1)
             Z == {j \in 0 .. PageCount - 1 : bits[j] = 0}
  <2>1. /\ bits' = r.bits
        /\ r.bits \in [0 .. PageCount - 1 -> Bit]
        /\ Z = {} => r.index = -1
        /\ Z # {} => r.index \in Z
    BY <1>1, <1>2, OneBitLemma DEF addr_alloc_page, PageTypeOK
  <2>2. /\ IF r.index >= 0
           THEN /\ reply' = AddressOf(r.index)
                /\ held' = [held EXCEPT ![h] = @ \union {AddressOf(r.index)}]
           ELSE reply' = 0 /\ UNCHANGED held
    BY <1>2 DEF addr_alloc_page
  <2> HIDE DEF r
  <2>3. r.index >= 0 => AddressOf(r.index) \in Addresses
    BY <2>1 DEF Addresses
  <2> QED
    BY <2>1, <2>2, <2>3 DEF PageTypeOK
<1>3. ASSUME NEW h \in Holders, NEW addr \in Addresses, addr_free_page(h, addr)
      PROVE  PageTypeOK'
  <2>1. FreeIndex(addr) \in Int
    BY PageAssumption DEF FreeIndex, Addresses, AddressOf
  <2>2. bits' \in [0 .. PageCount - 1 -> Bit]
    BY <1>1, <1>3, <2>1, SetBitLemma DEF addr_free_page, PageTypeOK
  <2> QED
    BY <1>3, <2>2 DEF addr_free_page, PageTypeOK
<1>4. CASE UNCHANGED pageVars
  BY <1>4 DEF pageVars, PageTypeOK
<1> QED
  BY <1>2, <1>3, <1>4 DEF PageNext

\* The allocator's fields keep their types.
THEOREM PageTypes == PageSpec => []PageTypeOK
<1>1. PageInit => PageTypeOK
  BY DEF PageInit, PageTypeOK, bitmap_init, Bit
<1>2. PageTypeOK /\ [PageNext]_pageVars => PageTypeOK'
  BY PageStepLemma
<1> QED
  BY <1>1, <1>2, PTL DEF PageSpec

\* In every reachable state, of any number of pages, allocating one page takes
\* the first that is free, and only that one.
THEOREM FirstFreePage == PageSpec => []OnePageCorrect
<1>1. PageTypeOK => OnePageCorrect
  BY OneBitCorrect, PageAssumption DEF PageTypeOK, OnePageCorrect
<1> QED
  BY <1>1, PageTypes, PTL

\* A free of the page addr clears no bit of another page: the page is the first, or
\* its distance in bytes from the first is no number of a page.
FreesNoOther(addr) == FreeIndex(addr) = 0 \/ FreeIndex(addr) >= PageCount

\* No page that would clear another one's bit is freed.
HarmlessFrees ==
  \A h \in Holders, addr \in Addresses : addr \in held[h] \ held'[h] => FreesNoOther(addr)

\* A page somebody holds is marked, and nobody else holds it.
PageInv ==
  /\ PageTypeOK
  /\ PagesExclusive
  /\ \A i \in 0 .. PageCount - 1 : bits[i] = 0 => \A h \in Holders : AddressOf(i) \notin held[h]

\* Different pages have different addresses.
LEMMA AddressLemma ==
  ASSUME NEW i \in Int, NEW j \in Int
  PROVE  /\ AddressOf(i) = AddressOf(j) => i = j
         /\ FreeIndex(AddressOf(i)) \in Int
         /\ FreeIndex(AddressOf(i)) = 0 => i = 0
<1>1. \A k \in Nat \ {0}, x \in Int, y \in Int : (x * k = y * k => x = y) /\ (x * k = 0 => x = 0)
  OBVIOUS
<1>2. /\ PageSize \in Nat \ {0} /\ Start \in Nat
      /\ i * PageSize \in Int /\ j * PageSize \in Int
  BY PageAssumption
<1>3. FreeIndex(AddressOf(i)) = i * PageSize
  BY <1>2 DEF FreeIndex, AddressOf
<1>4. AddressOf(i) = AddressOf(j) => i * PageSize = j * PageSize
  BY <1>2 DEF AddressOf
<1> QED
  BY <1>1, <1>2, <1>3, <1>4

LEMMA PageInvStep ==
  ASSUME PageInv, [PageNext]_pageVars, HarmlessFrees
  PROVE  PageInv'
<1>1. /\ PageCount \in Nat /\ PageTypeOK /\ PageTypeOK'
      /\ 0 .. PageCount - 1 \subseteq Int
  BY PageAssumption, PageStepLemma DEF PageInv
<1>2. ASSUME NEW h \in Holders, addr_alloc_page(h)
      PROVE  PageInv'
  <2> DEFINE r == bitmap_alloc_nbits(bits, 0, 1)
             Z == {j \in 0 .. PageCount - 1 : bits[j] = 0}
             new == AddressOf(r.index)
  <2>1. /\ bits' = r.bits
        /\ Z = {} => r.index = -1 /\ r.bits = bits
        /\ Z # {} => r.index \in Z /\ r.bits = [bits EXCEPT ![r.index] = 1]
    BY <1>1, <1>2, OneBitLemma DEF addr_alloc_page, PageTypeOK
  <2>2. IF r.index >= 0 THEN held' = [held EXCEPT ![h] = @ \union {new}] ELSE UNCHANGED held
    BY <1>2 DEF addr_alloc_page
  <2> HIDE DEF r
  <2>3. CASE Z = {}
    BY <1>1, <2>1, <2>2, <2>3 DEF PageInv, PagesExclusive
  <2>4. CASE Z # {}
    <3>1. r.index \in 0 .. PageCount - 1 /\ bits[r.index] = 0 /\ r.index >= 0
      BY <2>1, <2>4
    <3>2. \A k \in Holders : new \notin held[k]
      BY <3>1 DEF PageInv
    <3>3. \A k \in Holders : held'[k] = IF k = h THEN held[k] \union {new} ELSE held[k]
      BY <1>1, <2>2, <3>1 DEF PageTypeOK
    <3>4. PagesExclusive'
      BY <3>2, <3>3 DEF PageInv, PagesExclusive
    <3>5. ASSUME NEW i \in 0 .. PageCount - 1, bits'[i] = 0, NEW k \in Holders
          PROVE  AddressOf(i) \notin held'[k]
      <4>1. i # r.index /\ bits[i] = 0
        BY <1>1, <2>1, <2>4, <3>1, <3>5 DEF PageTypeOK
      <4>2. AddressOf(i) # new
        BY <1>1, <3>1, <4>1, AddressLemma
      <4> QED
        BY <3>3, <4>1, <4>2 DEF PageInv
    <3> QED
      BY <1>1, <3>4, <3>5 DEF PageInv
  <2> QED
    BY <2>3, <2>4
<1>3. ASSUME NEW h \in Holders, NEW addr \in Addresses, addr_free_page(h, addr)
      PROVE  PageInv'
  <2>1. /\ addr \in held[h] /\ held' = [held EXCEPT ![h] = @ \ {addr}]
        /\ bits' = bitmap_set_bit(bits, FreeIndex(addr), 1, 0)
    BY <1>3 DEF addr_free_page
  <2>2. PICK a \in 0 .. PageCount - 1 : addr = AddressOf(a)
    BY DEF Addresses
  <2>3. \A k \in Holders : held'[k] = IF k = h THEN held[k] \ {addr} ELSE held[k]
    BY <1>1, <2>1 DEF PageTypeOK
  <2>4. FreesNoOther(addr)
    BY <2>1, <2>3 DEF HarmlessFrees
  <2>5. \A k \in Holders : addr \notin held'[k]
    BY <2>1, <2>3 DEF PageInv, PagesExclusive
  <2>6. FreeIndex(addr) \in Int /\ (FreeIndex(addr) = 0 => a = 0)
    BY <1>1, <2>2, AddressLemma
  <2>7. \A i \in 0 .. PageCount - 1 : bits'[i] = IF i = FreeIndex(addr) THEN 0 ELSE bits[i]
    BY <1>1, <2>1, <2>6, SetBitLemma DEF PageTypeOK
  <2>8. ASSUME NEW i \in 0 .. PageCount - 1, bits'[i] = 0, NEW k \in Holders
        PROVE  AddressOf(i) \notin held'[k]
    <3>1. CASE i = FreeIndex(addr)
      <4>1. i = 0 /\ a = 0
        BY <1>1, <2>4, <2>6, <3>1 DEF FreesNoOther
      <4> QED
        BY <2>2, <2>5, <4>1
    <3>2. CASE i # FreeIndex(addr)
      BY <2>3, <2>7, <2>8, <3>2 DEF PageInv
    <3> QED
      BY <3>1, <3>2
  <2>9. PagesExclusive'
    BY <2>3 DEF PageInv, PagesExclusive
  <2> QED
    BY <1>1, <2>8, <2>9 DEF PageInv
<1>4. CASE UNCHANGED pageVars
  BY <1>1, <1>4 DEF pageVars, PageInv, PagesExclusive
<1> QED
  BY <1>2, <1>3, <1>4 DEF PageNext

LEMMA PageInvInit == PageInit => PageInv
<1> SUFFICES ASSUME PageInit PROVE PageInv
  OBVIOUS
<1>1. held = [h \in Holders |-> {}]
  BY DEF PageInit
<1>2. PageTypeOK
  BY DEF PageInit, PageTypeOK, bitmap_init, Bit
<1> QED
  BY <1>1, <1>2 DEF PageInv, PagesExclusive

\* As long as no page is freed whose distance in bytes numbers another page, no page
\* is ever held twice, although addr_free_page clears wrong bits.
THEOREM HarmlessFreesKeepPages == PageSpec /\ [][HarmlessFrees]_pageVars => []PagesExclusive
<1>1. PageInv /\ [PageNext]_pageVars /\ [HarmlessFrees]_pageVars => PageInv'
  <2>1. PageInv /\ UNCHANGED pageVars => PageInv'
    BY DEF pageVars, PageInv, PageTypeOK, PagesExclusive
  <2> QED
    BY <2>1, PageInvStep
<1>2. PageInv => PagesExclusive
  BY DEF PageInv
<1> QED
  BY <1>1, <1>2, PageInvInit, PTL DEF PageSpec

\* If a page has at least as many bytes as there are pages, all frees are such.
THEOREM SmallMemoryKeepsPages ==
  ASSUME PageCount <= PageSize
  PROVE  PageSpec => []PagesExclusive
<1>1. ASSUME NEW addr \in Addresses
      PROVE  FreesNoOther(addr)
  <2>1. PICK i \in 0 .. PageCount - 1 : addr = AddressOf(i)
    BY DEF Addresses
  <2>2. FreeIndex(addr) = i * PageSize
    BY <2>1, PageAssumption DEF FreeIndex, AddressOf
  <2>3. \A k \in Nat, n \in Nat : k = 0 \/ k * n >= n
    OBVIOUS
  <2>4. i = 0 \/ i * PageSize >= PageSize
    BY <2>3, PageAssumption
  <2>5. i = 0 => i * PageSize = 0
    BY PageAssumption
  <2>6. i * PageSize \in Int
    BY PageAssumption
  <2> QED
    BY <2>2, <2>4, <2>5, <2>6, PageAssumption DEF FreesNoOther
<1>2. PageSpec => [][HarmlessFrees]_pageVars
  <2>1. HarmlessFrees
    BY <1>1 DEF HarmlessFrees
  <2> QED
    BY <2>1, PTL
<1> QED
  BY <1>2, HarmlessFreesKeepPages, PTL

-----------------------------------------------------------------------------
(* Memory detection *)

Regions == [start : Nat, size : Nat]

\* The regions are the usable ranges among the first n of the BIOS's list, in its order.
InOrder(n) ==
  \E at \in [1 .. Len(regions) -> 1 .. n] :
    /\ \A j, k \in 1 .. Len(regions) : j < k => at[j] < at[k]
    /\ \A k \in 1 .. n : Counted(map[k]) <=> \E j \in 1 .. Len(regions) : at[j] = k
    /\ \A j \in 1 .. Len(regions) : regions[j] = [start |-> map[at[j]].start, size |-> map[at[j]].size]

DetectInv ==
  /\ map \in Maps /\ map \in Seq(Ranges)
  /\ contID \in 0 .. Len(map) /\ calls \in Nat
  /\ regions \in Seq(Regions)
  /\ FitsLoop => /\ place = "detect" => contID = calls /\ InOrder(contID)
                 /\ place # "detect" => InOrder(Len(map))

LEMMA DetectInit == BootInit => DetectInv
<1> SUFFICES ASSUME BootInit PROVE DetectInv
  OBVIOUS
<1>1. /\ map \in Maps /\ map \in Seq(Ranges) /\ contID = 0 /\ calls = 0 /\ regions = <<>> /\ place = "detect"
  BY BootAssumption DEF BootInit
<1>2. Len(map) \in Nat /\ regions \in Seq(Regions) /\ Len(regions) = 0
  BY <1>1
<1>3. InOrder(0)
  <2> DEFINE at == [j \in 1 .. 0 |-> 0]
  <2>1. at \in [1 .. Len(regions) -> 1 .. 0]
    BY <1>2
  <2>2. \A j \in 1 .. Len(regions) : FALSE
    BY <1>2
  <2>3. \A k \in 1 .. 0 : FALSE
    OBVIOUS
  <2> HIDE DEF at
  <2> QED
    BY <2>1, <2>2, <2>3, Zenon DEF InOrder
<1> QED
  BY <1>1, <1>2, <1>3 DEF DetectInv

\* One entry more.
LEMMA EntryInOrder ==
  ASSUME DetectInv, contID < Len(map), InOrder(contID),
         regions' = IF Counted(Entry)
                    THEN Append(regions, [start |-> Entry.start, size |-> Entry.size])
                    ELSE regions,
         map' = map
  PROVE  /\ regions' \in Seq(Regions)
         /\ \E at \in [1 .. Len(regions') -> 1 .. contID + 1] :
              /\ \A j, k \in 1 .. Len(regions') : j < k => at[j] < at[k]
              /\ \A k \in 1 .. contID + 1 : Counted(map[k]) <=> \E j \in 1 .. Len(regions') : at[j] = k
              /\ \A j \in 1 .. Len(regions') :
                   regions'[j] = [start |-> map[at[j]].start, size |-> map[at[j]].size]
<1> DEFINE n == contID
           l == Len(regions)
<1>1. /\ n \in Nat /\ n + 1 \in 1 .. Len(map) /\ l \in Nat /\ regions \in Seq(Regions)
      /\ map \in Seq(Ranges)
  BY DEF DetectInv
<1>2. Entry = map[n + 1] /\ Entry \in Ranges
  BY <1>1 DEF Entry
<1>3. PICK at \in [1 .. l -> 1 .. n] :
        /\ \A j, k \in 1 .. l : j < k => at[j] < at[k]
        /\ \A k \in 1 .. n : Counted(map[k]) <=> \E j \in 1 .. l : at[j] = k
        /\ \A j \in 1 .. l : regions[j] = [start |-> map[at[j]].start, size |-> map[at[j]].size]
  BY DEF InOrder
<1>4. CASE Counted(Entry)
  <2> DEFINE r == [start |-> Entry.start, size |-> Entry.size]
             more == [j \in 1 .. l + 1 |-> IF j = l + 1 THEN n + 1 ELSE at[j]]
  <2>1. r \in Regions
    BY <1>2 DEF Ranges, Regions
  <2>2. regions' = Append(regions, r)
    BY <1>4
  <2> HIDE DEF r
  <2>3. /\ regions' \in Seq(Regions) /\ Len(regions') = l + 1
        /\ regions'[l + 1] = r /\ \A j \in 1 .. l : regions'[j] = regions[j]
    BY <1>1, <2>1, <2>2
  <2>4. more \in [1 .. l + 1 -> 1 .. n + 1]
    BY <1>1
  <2>5. \A j, k \in 1 .. l + 1 : j < k => more[j] < more[k]
    <3> SUFFICES ASSUME NEW j \in 1 .. l + 1, NEW k \in 1 .. l + 1, j < k
                 PROVE  more[j] < more[k]
      OBVIOUS
    <3>1. j \in 1 .. l /\ more[j] = at[j] /\ at[j] \in 1 .. n
      BY <1>1, <1>3
    <3>2. CASE k = l + 1
      BY <1>1, <3>1, <3>2
    <3>3. CASE k # l + 1
      <4>1. k \in 1 .. l /\ more[k] = at[k]
        BY <1>1, <3>3
      <4> QED
        BY <1>3, <3>1, <4>1
    <3> QED
      BY <3>2, <3>3
  <2>6. ASSUME NEW k \in 1 .. n + 1
        PROVE  Counted(map[k]) <=> \E j \in 1 .. l + 1 : more[j] = k
    <3>1. CASE k = n + 1
      <4>1. more[l + 1] = k /\ l + 1 \in 1 .. l + 1
        BY <1>1, <3>1
      <4> QED
        BY <1>2, <1>4, <3>1, <4>1
    <3>2. CASE k # n + 1
      <4>1. k \in 1 .. n
        BY <1>1, <3>2
      <4>2. ASSUME NEW j \in 1 .. l
            PROVE  j \in 1 .. l + 1 /\ more[j] = at[j]
        BY <1>1
      <4>3. ASSUME NEW j \in 1 .. l + 1, more[j] = k
            PROVE  j \in 1 .. l /\ at[j] = k
        <5>1. j # l + 1
          BY <3>2, <4>3
        <5> QED
          BY <1>1, <4>3, <5>1
      <4>4. Counted(map[k]) <=> \E j \in 1 .. l : at[j] = k
        BY <1>3, <4>1
      <4> HIDE DEF more, l
      <4> QED
        BY <4>2, <4>3, <4>4
    <3> QED
      BY <3>1, <3>2
  <2>7. ASSUME NEW j \in 1 .. l + 1
        PROVE  regions'[j] = [start |-> map[more[j]].start, size |-> map[more[j]].size]
    <3>1. CASE j = l + 1
      BY <1>1, <1>2, <2>3, <3>1 DEF r
    <3>2. CASE j # l + 1
      <4>1. j \in 1 .. l /\ more[j] = at[j]
        BY <1>1, <3>2
      <4> QED
        BY <1>3, <2>3, <4>1
    <3> QED
      BY <3>1, <3>2
  <2> HIDE DEF more, n, l
  <2>8. /\ regions' \in Seq(Regions) /\ more \in [1 .. Len(regions') -> 1 .. contID + 1]
        /\ \A j, k \in 1 .. Len(regions') : j < k => more[j] < more[k]
        /\ \A k \in 1 .. contID + 1 : Counted(map[k]) <=> \E j \in 1 .. Len(regions') : more[j] = k
        /\ \A j \in 1 .. Len(regions') :
             regions'[j] = [start |-> map[more[j]].start, size |-> map[more[j]].size]
    BY <2>3, <2>4, <2>5, <2>6, <2>7 DEF n
  <2> QED
    BY <2>8
<1>5. CASE ~Counted(Entry)
  <2>1. regions' = regions
    BY <1>5
  <2>2. at \in [1 .. l -> 1 .. n + 1]
    <3>1. 1 .. n \subseteq 1 .. n + 1
      BY <1>1
    <3> QED
      BY <1>3, <3>1
  <2>3. ASSUME NEW k \in 1 .. n + 1
        PROVE  Counted(map[k]) <=> \E j \in 1 .. l : at[j] = k
    <3>1. CASE k = n + 1
      <4>1. ASSUME NEW j \in 1 .. l
            PROVE  at[j] # n + 1
        <5>1. at[j] \in 1 .. n
          BY <1>3
        <5> QED
          BY <1>1, <5>1
      <4> QED
        BY <1>2, <1>5, <3>1, <4>1
    <3>2. CASE k # n + 1
      <4>1. k \in 1 .. n
        BY <1>1, <3>2
      <4> QED
        BY <1>3, <4>1
    <3> QED
      BY <3>1, <3>2
  <2>4. Len(regions') = l
    BY <2>1
  <2> HIDE DEF n, l
  <2>5. /\ regions' \in Seq(Regions) /\ at \in [1 .. Len(regions') -> 1 .. contID + 1]
        /\ \A j, k \in 1 .. Len(regions') : j < k => at[j] < at[k]
        /\ \A k \in 1 .. contID + 1 : Counted(map[k]) <=> \E j \in 1 .. Len(regions') : at[j] = k
        /\ \A j \in 1 .. Len(regions') :
             regions'[j] = [start |-> map[at[j]].start, size |-> map[at[j]].size]
    BY <1>1, <1>3, <2>1, <2>2, <2>3, <2>4 DEF n
  <2> QED
    BY <2>5
<1> QED
  BY <1>4, <1>5

LEMMA DetectStep == DetectInv /\ [BootNext]_bootVars => DetectInv'
<1> SUFFICES ASSUME DetectInv, [BootNext]_bootVars
             PROVE  DetectInv'
  OBVIOUS
<1>1. CASE detect_memory
  <2>1. /\ place = "detect" /\ contID < Len(map) /\ contID' = NextID /\ calls' = calls + 1
        /\ map' = map /\ ending' = ending /\ (FitsLoop' <=> FitsLoop)
        /\ place' = IF LastCall THEN "read_disk" ELSE "detect"
        /\ contID \in Nat /\ Len(map) \in Nat /\ calls \in Nat
    BY <1>1 DEF detect_memory, DetectInv, FitsLoop, Counted
  <2>2. contID' \in 0 .. Len(map') /\ calls' \in Nat
    BY <2>1 DEF NextID
  <2>3. regions' \in Seq(Regions)
    <3>1. Entry \in Ranges
      BY <2>1 DEF DetectInv, Entry
    <3>2. [start |-> Entry.start, size |-> Entry.size] \in Regions
      BY <3>1 DEF Ranges, Regions
    <3> QED
      BY <1>1, <3>2 DEF detect_memory, DetectInv
  <2>4. ASSUME FitsLoop
        PROVE  /\ place' = "detect" => contID' = calls' /\ InOrder(contID)'
               /\ place' # "detect" => InOrder(Len(map))'
    <3>1. contID = calls /\ InOrder(contID)
      BY <2>1, <2>4 DEF DetectInv
    <3>2. \E at \in [1 .. Len(regions') -> 1 .. contID + 1] :
              /\ \A j, k \in 1 .. Len(regions') : j < k => at[j] < at[k]
              /\ \A k \in 1 .. contID + 1 : Counted(map[k]) <=> \E j \in 1 .. Len(regions') : at[j] = k
              /\ \A j \in 1 .. Len(regions') :
                   regions'[j] = [start |-> map[at[j]].start, size |-> map[at[j]].size]
      BY <1>1, <2>1, <3>1, EntryInOrder DEF detect_memory
    <3>3. CASE LastCall
      <4>1. contID + 1 = Len(map)
        <5>1. CASE calls + 1 = BOOT_RAM_REGION_MAX
          BY <2>1, <2>4, <3>1, <5>1, BootAssumption DEF FitsLoop
        <5>2. CASE NextID = 0
          BY <2>1, <5>2 DEF NextID
        <5> QED
          BY <3>3, <5>1, <5>2 DEF LastCall
      <4>2. place' # "detect"
        BY <2>1, <3>3
      <4>3. Len(map') = contID + 1 /\ map' = map
        BY <2>1, <4>1
      <4>4. InOrder(Len(map))'
        BY <3>2, <4>3 DEF InOrder, Counted
      <4> QED
        BY <4>2, <4>4
    <3>4. CASE ~LastCall
      <4>1. contID' = contID + 1
        <5>1. CASE contID + 1 = Len(map) /\ ending = "zero"
          <6>1. ~Entry.ignored /\ NextID = 0
            BY <2>4, <5>1 DEF FitsLoop, Entry, Last, NextID
          <6> QED
            BY <3>4, <6>1 DEF LastCall
        <5>2. CASE ~(contID + 1 = Len(map) /\ ending = "zero")
          BY <2>1, <5>2 DEF NextID
        <5> QED
          BY <5>1, <5>2
      <4>2. place' = "detect"
        BY <2>1, <3>4
      <4>3. map' = map /\ contID' = calls'
        BY <2>1, <3>1, <4>1
      <4>4. InOrder(contID)'
        BY <3>2, <4>1, <4>3 DEF InOrder, Counted
      <4> QED
        BY <4>2, <4>3, <4>4
    <3> QED
      BY <3>3, <3>4
  <2> QED
    BY <2>1, <2>2, <2>3, <2>4 DEF DetectInv
<1>2. CASE detect_fails
  <2>1. /\ place = "detect" /\ contID = Len(map) /\ place' # "detect"
        /\ UNCHANGED <<map, ending, contID, calls, regions>>
    BY <1>2 DEF detect_fails
  <2>2. FitsLoop' = FitsLoop /\ InOrder(Len(map))' = InOrder(Len(map))
    BY <2>1 DEF FitsLoop, InOrder
  <2> QED
    BY <2>1, <2>2 DEF DetectInv
<1>3. CASE /\ UNCHANGED <<map, ending, contID, calls, regions>>
           /\ (place # "detect" /\ place' # "detect") \/ UNCHANGED place
  <2>1. FitsLoop' = FitsLoop /\ InOrder(Len(map))' = InOrder(Len(map)) /\ InOrder(contID)' = InOrder(contID)
    BY <1>3 DEF FitsLoop, InOrder
  <2> QED
    BY <1>3, <2>1 DEF DetectInv
<1> QED
  BY <1>1, <1>2, <1>3
  DEF BootNext, bootVars, read_disk, reload_elf_file, die, kernel_entry, memory_init

\* Memory detection finds each usable range once, whatever the BIOS reports, if its list
\* fits and does not end with an entry to be ignored.
THEOREM UsableRangesAreFoundOnce == BootSpec => []RegionsOnce
<1>1. DetectInv => RegionsOnce
  <2> SUFFICES ASSUME DetectInv, place # "detect", FitsLoop
               PROVE  \E at \in [DOMAIN regions -> DOMAIN map] :
                        /\ \A j, k \in DOMAIN regions : j < k => at[j] < at[k]
                        /\ {at[j] : j \in DOMAIN regions} = {k \in DOMAIN map : Counted(map[k])}
                        /\ \A j \in DOMAIN regions :
                             regions[j] = [start |-> map[at[j]].start, size |-> map[at[j]].size]
    BY DEF RegionsOnce
  <2>1. DOMAIN regions = 1 .. Len(regions) /\ DOMAIN map = 1 .. Len(map)
    BY DEF DetectInv
  <2>2. PICK at \in [1 .. Len(regions) -> 1 .. Len(map)] :
          /\ \A j, k \in 1 .. Len(regions) : j < k => at[j] < at[k]
          /\ \A k \in 1 .. Len(map) : Counted(map[k]) <=> \E j \in 1 .. Len(regions) : at[j] = k
          /\ \A j \in 1 .. Len(regions) : regions[j] = [start |-> map[at[j]].start, size |-> map[at[j]].size]
    BY DEF DetectInv, InOrder
  <2>3. {at[j] : j \in DOMAIN regions} = {k \in DOMAIN map : Counted(map[k])}
    <3>1. \A j \in 1 .. Len(regions) : at[j] \in 1 .. Len(map) /\ Counted(map[at[j]])
      BY <2>2
    <3>2. \A k \in 1 .. Len(map) : Counted(map[k]) => \E j \in 1 .. Len(regions) : at[j] = k
      BY <2>2
    <3> QED
      BY <2>1, <3>1, <3>2
  <2> QED
    BY <2>1, <2>2, <2>3, Zenon
<1>2. DetectInv /\ [BootNext]_bootVars => DetectInv'
  BY DetectStep
<1> QED
  BY <1>1, <1>2, DetectInit, PTL DEF BootSpec

\* The loop of total_mem_size, region by region.
LEMMA TotalRun ==
  ASSUME Len(regions) \in Nat, DOMAIN regions = 1 .. Len(regions),
         \A i \in 1 .. Len(regions) : regions[i].size \in Nat
  PROVE  \E run \in [0 .. Len(regions) -> Nat] :
           /\ run[0] = 0 /\ run[Len(regions)] = total_mem_size(regions)
           /\ \A i \in 1 .. Len(regions) : run[i] = (run[i - 1] + regions[i].size) % UINT32
<1> DEFINE n == Len(regions)
           V == Nat
           none == 0
           step == [i \in 1 .. n |-> [r \in V |-> (r + regions[i].size) % UINT32]]
           Solves(fold) == fold = [x \in SUBSET (1 .. n) |->
                                 IF x = {} THEN none
                                 ELSE (fold[x \ {Max(x)}] + regions[Max(x)].size) % UINT32]
           fold == CHOOSE fold : Solves(fold)
<1>1. /\ n \in Nat /\ DOMAIN regions = 1 .. n
      /\ \A i \in 1 .. n : regions[i].size \in Nat
  OBVIOUS
<1>2. /\ \A i \in 1 .. n : Max(1 .. i) = i /\ 1 .. i \in SUBSET (1 .. n) /\ 1 .. i # {}
                           /\ (1 .. i) \ {i} = 1 .. i - 1
      /\ {} \in SUBSET (1 .. n) /\ 1 .. n \in SUBSET (1 .. n)
      /\ \A x \in SUBSET (1 .. n) : x # {} => Max(x) \in 1 .. n /\ x \ {Max(x)} \in SUBSET (1 .. n)
  BY <1>1, FirstsLemma
<1>3. total_mem_size(regions) = fold[1 .. n]
  BY <1>1 DEF total_mem_size, FoldLeft, MapThenFoldSet
<1>4. step \in [1 .. n -> [V -> V]] /\ none \in V
  <2>1. ASSUME NEW i \in 1 .. n, NEW r \in Nat
        PROVE  (r + regions[i].size) % UINT32 \in Nat
    <3>1. r + regions[i].size \in Nat
      BY <1>1
    <3> QED
      BY <3>1, BootAssumption
  <2> QED
    BY <2>1
<1>5. \A i \in 1 .. n, r \in V : step[i][r] = (r + regions[i].size) % UINT32
  OBVIOUS
<1> HIDE DEF n, V, none, step, Solves, fold
<1>6. Solves(fold)
  <2>1. PICK at : at \in [Firsts(n) -> V] /\ at = FoldTurn(at, n, none, step)
    BY <1>1, <1>4, FoldExists
  <2>2. at \in [SUBSET (1 .. n) -> V] /\ at = FoldTurn(at, n, none, step)
    BY <2>1 DEF Firsts
  <2>3. ASSUME NEW x \in SUBSET (1 .. n), x # {}
        PROVE  step[Max(x)][at[x \ {Max(x)}]] = (at[x \ {Max(x)}] + regions[Max(x)].size) % UINT32
    BY <1>2, <1>5, <2>2, <2>3
  <2>4. Solves(at)
    BY <2>2, <2>3 DEF FoldTurn, Solves
  <2> QED
    BY <2>4 DEF fold
<1> DEFINE run == [i \in 0 .. n |-> fold[1 .. i]]
<1>7. run[0] = 0
  <2>1. fold[{}] = none
    BY <1>2, <1>6 DEF Solves
  <2>2. 1 .. 0 = {}
    OBVIOUS
  <2> QED
    BY <1>1, <2>1, <2>2 DEF none
<1>8. ASSUME NEW i \in 1 .. n
      PROVE  run[i] = (run[i - 1] + regions[i].size) % UINT32
  <2>1. fold[1 .. i] = (fold[(1 .. i) \ {i}] + regions[i].size) % UINT32
    BY <1>2, <1>6 DEF Solves
  <2>2. (1 .. i) \ {i} = 1 .. i - 1 /\ i - 1 \in 0 .. n /\ i \in 0 .. n
    BY <1>1, <1>2
  <2> QED
    BY <2>1, <2>2
<1>9. run[n] = total_mem_size(regions)
  BY <1>1, <1>3
<1> HIDE DEF run
<1>10. ASSUME NEW i \in 0 .. n
       PROVE  run[i] \in Nat
  <2> DEFINE S == {k \in 0 .. n : run[k] \in Nat}
  <2>1. 0 \in S
    BY <1>1, <1>7
  <2>2. ASSUME NEW k \in 1 .. n, k - 1 \in S
        PROVE  k \in S
    <3>1. run[k - 1] \in Nat /\ regions[k].size \in Nat /\ k \in 0 .. n
      BY <1>1, <2>2
    <3>2. run[k - 1] + regions[k].size \in Nat
      BY <3>1
    <3>3. (run[k - 1] + regions[k].size) % UINT32 \in Nat
      BY <3>2, BootAssumption
    <3> QED
      BY <1>8, <3>1, <3>3
  <2> HIDE DEF S
  <2>3. \A k \in 0 .. n : k \in S
    BY <1>1, <2>1, <2>2, LoopLemma
  <2> QED
    BY <2>3 DEF S
<1>11. run \in [0 .. n -> Nat]
  BY <1>10 DEF run
<1> QED
  BY <1>7, <1>8, <1>9, <1>11 DEF n

Cells(r) == r.start .. r.start + r.size - 1

\* Ranges that share no cell are together no larger than the memory they are in.
LEMMA SumOfRanges ==
  ASSUME regions \in Seq(Regions), NEW end \in Nat,
         \A j \in 1 .. Len(regions) : Cells(regions[j]) \subseteq 0 .. end - 1,
         \A j, k \in 1 .. Len(regions) : j # k => Cells(regions[j]) \intersect Cells(regions[k]) = {}
  PROVE  total_mem_size(regions) \in Nat /\ total_mem_size(regions) <= end
<1> DEFINE n == Len(regions)
           Upto(i) == {a \in 0 .. end - 1 : \E j \in 1 .. i : a \in Cells(regions[j])}
<1>1. /\ n \in Nat /\ DOMAIN regions = 1 .. n
      /\ \A i \in 1 .. n : regions[i].size \in Nat /\ regions[i].start \in Nat
  <2>1. \A i \in 1 .. n : regions[i] \in Regions
    OBVIOUS
  <2>2. \A r \in Regions : r.size \in Nat /\ r.start \in Nat
    BY DEF Regions
  <2> QED
    BY <2>1, <2>2
<1>2. PICK run \in [0 .. n -> Nat] :
        /\ run[0] = 0 /\ run[n] = total_mem_size(regions)
        /\ \A i \in 1 .. n : run[i] = (run[i - 1] + regions[i].size) % UINT32
  BY <1>1, TotalRun
<1>3. IsFiniteSet(0 .. end - 1) /\ Cardinality(0 .. end - 1) = end
  <2> DEFINE b == end - 1
  <2>1. b \in Int /\ 0 \in Int
    OBVIOUS
  <2> HIDE DEF b
  <2>2. IsFiniteSet(0 .. b) /\ Cardinality(0 .. b) = IF 0 > b THEN 0 ELSE b - 0 + 1
    BY <2>1, FS_Interval
  <2> QED
    BY <2>2 DEF b
<1>4. ASSUME NEW i \in 0 .. n
      PROVE  IsFiniteSet(Upto(i)) /\ Cardinality(Upto(i)) \in Nat /\ Cardinality(Upto(i)) <= end
  <2>1. Upto(i) \in SUBSET (0 .. end - 1)
    OBVIOUS
  <2> HIDE DEF Upto
  <2> QED
    BY <1>3, <2>1, FS_Subset, FS_CardinalityType
<1> HIDE DEF Upto
<1>5. ASSUME NEW i \in 1 .. n
      PROVE  Cardinality(Upto(i)) = Cardinality(Upto(i - 1)) + regions[i].size
  <2> DEFINE C == Cells(regions[i])
  <2>1. IsFiniteSet(C) /\ Cardinality(C) = regions[i].size
    <3>1. regions[i].start \in Nat /\ regions[i].size \in Nat
      BY <1>1
    <3> DEFINE a == regions[i].start
               b == regions[i].start + regions[i].size - 1
    <3>2. a \in Int /\ b \in Int /\ C = a .. b
      BY <3>1 DEF Cells
    <3> HIDE DEF a, b, n, C
    <3>3. IsFiniteSet(C) /\ Cardinality(C) = IF a > b THEN 0 ELSE b - a + 1
      BY <3>2, FS_Interval
    <3> QED
      BY <3>1, <3>3 DEF a, b
  <2>2. Upto(i) = Upto(i - 1) \union C
    <3>1. C \subseteq 0 .. end - 1
      OBVIOUS
    <3>2. 1 .. i = (1 .. i - 1) \union {i}
      BY <1>1
    <3> HIDE DEF n
    <3> QED
      BY <3>1, <3>2 DEF Upto
  <2>3. Upto(i - 1) \intersect C = {}
    <3>1. \A j \in 1 .. i - 1 : Cells(regions[j]) \intersect C = {}
      BY <1>1
    <3> HIDE DEF n, C
    <3> QED
      BY <3>1 DEF Upto
  <2>4. i - 1 \in 0 .. n /\ IsFiniteSet(Upto(i - 1)) /\ Cardinality(Upto(i - 1)) \in Nat
    <3>1. i - 1 \in 0 .. n
      BY <1>1
    <3> QED
      BY <1>4, <3>1
  <2> HIDE DEF C, n
  <2>5. Cardinality(Upto(i - 1) \intersect C) = 0
    BY <2>3, FS_EmptySet
  <2>6. regions[i].size \in Nat
    BY <1>1
  <2> DEFINE T == Upto(i - 1)
  <2> HIDE DEF T
  <2>7. /\ IsFiniteSet(T) /\ Cardinality(T \intersect C) = 0
        /\ Upto(i) = T \union C /\ Cardinality(T) = Cardinality(Upto(i - 1))
    BY <2>2, <2>4, <2>5 DEF T
  <2>8. Cardinality(T \union C) = Cardinality(T) + Cardinality(C) - Cardinality(T \intersect C)
    BY <2>1, <2>7, FS_Union
  <2> QED
    BY <2>1, <2>4, <2>6, <2>7, <2>8
<1> DEFINE S == {i \in 0 .. n : run[i] <= Cardinality(Upto(i))}
<1>6. 0 \in S
  <2>1. 0 \in 0 .. n
    BY <1>1
  <2>2. Cardinality(Upto(0)) \in Nat
    BY <1>4, <2>1
  <2> QED
    BY <1>2, <2>1, <2>2
<1>7. ASSUME NEW i \in 1 .. n, i - 1 \in S
      PROVE  i \in S
  <2> DEFINE x == run[i - 1] + regions[i].size
  <2>1. i - 1 \in 0 .. n /\ i \in 0 .. n
    BY <1>1
  <2>2. run[i - 1] \in Nat /\ regions[i].size \in Nat /\ run[i - 1] <= Cardinality(Upto(i - 1))
    BY <1>1, <1>2, <1>7, <2>1
  <2>3. Cardinality(Upto(i - 1)) \in Nat
    BY <1>4, <2>1
  <2>4. x \in Nat /\ x <= Cardinality(Upto(i))
    BY <1>5, <2>2, <2>3
  <2>5. run[i] = x % UINT32
    BY <1>2
  <2> HIDE DEF x
  <2>6. x % UINT32 <= x /\ x % UINT32 \in Nat
    BY <2>4, BootAssumption
  <2>7. Cardinality(Upto(i)) \in Nat
    BY <1>4, <2>1
  <2>8. run[i] <= Cardinality(Upto(i))
    BY <2>4, <2>5, <2>6, <2>7
  <2> QED
    BY <2>1, <2>8
<1> HIDE DEF S
<1>8. n \in S
  <2>1. \A i \in 0 .. n : i \in S
    BY <1>1, <1>6, <1>7, LoopLemma
  <2> QED
    BY <1>1, <2>1
<1>9. run[n] <= Cardinality(Upto(n)) /\ n \in 0 .. n
  BY <1>1, <1>8 DEF S
<1> HIDE DEF n
<1>10. Cardinality(Upto(n)) \in Nat /\ Cardinality(Upto(n)) <= end
  BY <1>4, <1>9
<1> QED
  BY <1>2, <1>9, <1>10

\* The allocator's pages, once memory_init has set it up.
PagesInv ==
  /\ DetectInv
  /\ place = "done" => pages = [start |-> MEM_EXT_START, size |-> mem_up1MB_free]

LEMMA PagesStep == PagesInv /\ [BootNext]_bootVars => PagesInv'
<1> SUFFICES ASSUME PagesInv, [BootNext]_bootVars
             PROVE  PagesInv'
  OBVIOUS
<1>1. DetectInv'
  BY DetectStep DEF PagesInv
<1>2. CASE memory_init
  <2>1. regions' = regions /\ pages' = [start |-> MEM_EXT_START, size |-> mem_up1MB_free]
    BY <1>2 DEF memory_init
  <2>2. mem_up1MB_free' = mem_up1MB_free
    BY <2>1 DEF mem_up1MB_free
  <2> QED
    BY <1>1, <2>1, <2>2 DEF PagesInv
<1>3. CASE place' # "done"
  BY <1>1, <1>3 DEF PagesInv
<1>4. CASE UNCHANGED bootVars
  <2>1. place' = place /\ pages' = pages /\ regions' = regions
    BY <1>4 DEF bootVars
  <2>2. mem_up1MB_free' = mem_up1MB_free
    BY <2>1 DEF mem_up1MB_free
  <2> QED
    BY <1>1, <2>1, <2>2 DEF PagesInv
<1> QED
  BY <1>2, <1>3, <1>4
  DEF BootNext, detect_memory, detect_fails, read_disk, reload_elf_file, die, kernel_entry

\* Every page the allocator is set up with lies in the one range behind the first
\* megabyte, although its size comes from the sum of all ranges, in 32 bits.
THEOREM AllocatedPagesAreRam == BootSpec => []PagesAreRam
<1>1. BootInit => PagesInv
  <2>1. BootInit => place # "done"
    BY DEF BootInit
  <2> QED
    BY <2>1, DetectInit DEF PagesInv
<1>2. PagesInv => PagesAreRam
  <2> SUFFICES ASSUME PagesInv, place = "done", FitsLoop, OneUpperRange, total_mem_size(regions) >= MEM_EXT_START,
                      NEW a \in pages.start .. pages.start + pages.size - 1
               PROVE  \E e \in ToSet(map) : Counted(e) /\ a \in e.start .. e.start + e.size - 1
    BY DEF PagesAreRam
  <2>1. /\ regions \in Seq(Regions) /\ map \in Seq(Ranges) /\ DOMAIN map = 1 .. Len(map)
        /\ MEM_EXT_START \in Nat
    BY BootAssumption DEF PagesInv, DetectInv
  <2>2. PICK e \in ToSet(map) :
          /\ {e} = {f \in ToSet(map) : Counted(f) /\ f.start + f.size > MEM_EXT_START}
          /\ e.start = MEM_EXT_START
    BY DEF OneUpperRange
  <2>3. Counted(e) /\ e.start + e.size > MEM_EXT_START
    BY <2>2
  <2>4. \A k \in 1 .. Len(map) : map[k] \in ToSet(map) /\ map[k] \in Ranges
    BY <2>1 DEF ToSet
  <2>5. \A f \in Ranges : f.start \in Nat /\ f.size \in Nat
    BY DEF Ranges
  <2>6. e \in Ranges /\ e.start \in Nat /\ e.size \in Nat
    BY <2>1, <2>4, <2>5 DEF ToSet
  <2> DEFINE end == MEM_EXT_START + e.size
  <2>7. end \in Nat
    BY <2>1, <2>6
  <2>8. PICK at \in [1 .. Len(regions) -> 1 .. Len(map)] :
          /\ \A j, k \in 1 .. Len(regions) : j < k => at[j] < at[k]
          /\ \A k \in 1 .. Len(map) : Counted(map[k]) <=> \E j \in 1 .. Len(regions) : at[j] = k
          /\ \A j \in 1 .. Len(regions) : regions[j] = [start |-> map[at[j]].start, size |-> map[at[j]].size]
    BY DEF PagesInv, DetectInv, InOrder
  <2>9. ASSUME NEW j \in 1 .. Len(regions)
        PROVE  /\ at[j] \in 1 .. Len(map) /\ Counted(map[at[j]])
               /\ Cells(regions[j]) = map[at[j]].start .. map[at[j]].start + map[at[j]].size - 1
    <3>1. at[j] \in 1 .. Len(map) /\ Counted(map[at[j]])
      BY <2>8
    <3>2. regions[j] = [start |-> map[at[j]].start, size |-> map[at[j]].size]
      BY <2>8
    <3> QED
      BY <3>1, <3>2 DEF Cells
  <2>10. ASSUME NEW j \in 1 .. Len(regions)
         PROVE  Cells(regions[j]) \subseteq 0 .. end - 1
    <3> DEFINE f == map[at[j]]
    <3>1. f \in ToSet(map) /\ f.start \in Nat /\ f.size \in Nat /\ Counted(f)
      BY <2>4, <2>5, <2>9
    <3>2. f.start + f.size <= end
      <4>1. CASE f.start + f.size > MEM_EXT_START
        <5>1. f = e
          BY <2>2, <3>1, <4>1
        <5> QED
          BY <2>2, <2>6, <2>7, <5>1
      <4>2. CASE ~(f.start + f.size > MEM_EXT_START)
        BY <2>1, <2>6, <3>1, <4>2
      <4> QED
        BY <4>1, <4>2
    <3>3. Cells(regions[j]) = f.start .. f.start + f.size - 1
      BY <2>9
    <3> HIDE DEF f, end
    <3> QED
      BY <2>7, <3>1, <3>2, <3>3
  <2>11. ASSUME NEW j \in 1 .. Len(regions), NEW k \in 1 .. Len(regions), j # k
         PROVE  Cells(regions[j]) \intersect Cells(regions[k]) = {}
    <3>1. at[j] # at[k]
      <4>1. j < k \/ k < j
        BY <2>11
      <4>2. at[j] \in Int /\ at[k] \in Int
        BY <2>9
      <4>3. at[j] < at[k] \/ at[k] < at[j]
        BY <2>8, <4>1
      <4> QED
        BY <4>2, <4>3
    <3>2. at[j] \in DOMAIN map /\ at[k] \in DOMAIN map /\ Counted(map[at[j]]) /\ Counted(map[at[k]])
      BY <2>1, <2>9
    <3>3. (map[at[j]].start .. map[at[j]].start + map[at[j]].size - 1)
            \intersect (map[at[k]].start .. map[at[k]].start + map[at[k]].size - 1) = {}
      BY <3>1, <3>2 DEF OneUpperRange
    <3> QED
      BY <2>9, <3>3
  <2> HIDE DEF end
  <2>12. total_mem_size(regions) \in Nat /\ total_mem_size(regions) <= end
    BY <2>1, <2>7, <2>10, <2>11, SumOfRanges
  <2>13. mem_up1MB_free \in Nat /\ mem_up1MB_free <= e.size
    <3> DEFINE x == total_mem_size(regions) - MEM_EXT_START
               y == x % UINT32
    <3>1. x \in Nat /\ x <= e.size
      BY <2>1, <2>6, <2>12 DEF end
    <3> HIDE DEF x
    <3>2. y \in Nat /\ y <= x
      BY <3>1, BootAssumption
    <3>3. mem_up1MB_free = y - (y % MEM_PAGE_SIZE)
      BY DEF mem_up1MB_free, x
    <3> HIDE DEF y
    <3>4. y % MEM_PAGE_SIZE \in Nat /\ y % MEM_PAGE_SIZE <= y
      BY <3>2, BootAssumption
    <3> QED
      BY <2>6, <3>1, <3>2, <3>3, <3>4
  <2>14. pages.start = MEM_EXT_START /\ pages.size = mem_up1MB_free
    BY DEF PagesInv
  <2>15. a \in e.start .. e.start + e.size - 1
    BY <2>1, <2>2, <2>6, <2>13, <2>14
  <2> QED
    BY <2>3, <2>15
<1>3. PagesInv /\ [BootNext]_bootVars => PagesInv'
  BY PagesStep
<1> QED
  BY <1>1, <1>2, <1>3, PTL DEF BootSpec

-----------------------------------------------------------------------------
(* The kernel *)

CellValues == Records \union {Junk, Zero}
RamAddresses == 0 .. RamEnd - 1
Memories == [RamAddresses -> CellValues]

\* One cell of a segment.
UnpackCell(m, p, j) ==
  [m EXCEPT ![p.paddr + j] = IF j < p.filesz THEN m[MEM_EXT_START + p.offset + j] ELSE Zero]

\* A segment of a file of n cells that is read to MEM_EXT_START and linked below it.
Fits(p, n) ==
  /\ p \in ProgramHeaders /\ n \in Nat /\ MEM_EXT_START + n <= RamEnd
  /\ p.filesz <= p.memsz /\ p.offset + p.filesz <= n /\ p.paddr + p.memsz <= MEM_EXT_START

LEMMA UnpackCellLemma ==
  ASSUME NEW m \in Memories, NEW p, NEW n, Fits(p, n), NEW j \in 0 .. p.memsz - 1
  PROVE  /\ UnpackCell(m, p, j) \in Memories
         /\ \A a \in RamAddresses : a # p.paddr + j => UnpackCell(m, p, j)[a] = m[a]
         /\ j < p.filesz => UnpackCell(m, p, j)[p.paddr + j] = m[MEM_EXT_START + p.offset + j]
         /\ ~(j < p.filesz) => UnpackCell(m, p, j)[p.paddr + j] = Zero
<1>1. /\ p.paddr \in Nat /\ p.memsz \in Nat /\ p.offset \in Nat /\ p.filesz \in Nat
      /\ MEM_EXT_START \in Nat /\ RamEnd \in Nat /\ n \in Nat
  BY BootAssumption DEF Fits, ProgramHeaders
<1>2. p.paddr + j \in RamAddresses
  BY <1>1 DEF Fits, RamAddresses
<1>3. j < p.filesz => MEM_EXT_START + p.offset + j \in RamAddresses
  BY <1>1 DEF Fits, RamAddresses
<1> DEFINE v == IF j < p.filesz THEN m[MEM_EXT_START + p.offset + j] ELSE Zero
           b == p.paddr + j
<1>4. v \in CellValues
  BY <1>3 DEF Memories, CellValues
<1>5. UnpackCell(m, p, j) = [m EXCEPT ![b] = v]
  BY DEF UnpackCell
<1>6. b \in RamAddresses
  BY <1>2
<1> HIDE DEF v, b
<1>7. /\ UnpackCell(m, p, j) \in Memories /\ UnpackCell(m, p, j)[b] = v
      /\ \A a \in RamAddresses : a # b => UnpackCell(m, p, j)[a] = m[a]
  BY <1>4, <1>5, <1>6 DEF Memories
<1> QED
  BY <1>7 DEF v, b

\* The loop that unpacks a segment, cell by cell.
LEMMA UnpackRun ==
  ASSUME NEW m \in Memories, NEW p, NEW n, Fits(p, n)
  PROVE  \E run \in [0 .. p.memsz -> Memories] :
           /\ run[0] = m /\ run[p.memsz] = Unpack(m, p)
           /\ \A i \in 1 .. p.memsz : run[i] = UnpackCell(run[i - 1], p, i - 1)
<1> DEFINE l == p.memsz
           s == [j \in 1 .. l |-> j - 1]
           step == [i \in 1 .. l |-> [r \in Memories |-> UnpackCell(r, p, s[i])]]
           Solves(fold) == fold = [x \in SUBSET (1 .. l) |->
                                 IF x = {} THEN m ELSE UnpackCell(fold[x \ {Max(x)}], p, s[Max(x)])]
           fold == CHOOSE fold : Solves(fold)
<1>1. l \in Nat /\ DOMAIN s = 1 .. l
  BY DEF Fits, ProgramHeaders
<1>2. /\ \A i \in 1 .. l : Max(1 .. i) = i /\ 1 .. i \in SUBSET (1 .. l) /\ 1 .. i # {}
                           /\ (1 .. i) \ {i} = 1 .. i - 1
      /\ {} \in SUBSET (1 .. l) /\ 1 .. l \in SUBSET (1 .. l)
      /\ \A x \in SUBSET (1 .. l) : x # {} => Max(x) \in 1 .. l /\ x \ {Max(x)} \in SUBSET (1 .. l)
  BY <1>1, FirstsLemma
<1>3. Unpack(m, p) = fold[1 .. l]
  BY <1>1 DEF Unpack, UnpackCell, FoldLeft, MapThenFoldSet
<1>4. \A i \in 1 .. l : s[i] = i - 1 /\ s[i] \in 0 .. p.memsz - 1
  BY <1>1
<1>5. \A i \in 1 .. l, r \in Memories : UnpackCell(r, p, s[i]) \in Memories
  <2> HIDE DEF s, l
  <2> QED
    BY <1>4, UnpackCellLemma
<1>6. step \in [1 .. l -> [Memories -> Memories]]
  <2> HIDE DEF s, l
  <2> QED
    BY <1>5
<1>7. \A i \in 1 .. l, r \in Memories : step[i][r] = UnpackCell(r, p, s[i])
  OBVIOUS
<1> HIDE DEF l, s, step, Solves, fold
<1>8. Solves(fold)
  <2>1. PICK at : at \in [Firsts(l) -> Memories] /\ at = FoldTurn(at, l, m, step)
    BY <1>1, <1>6, FoldExists
  <2>2. at \in [SUBSET (1 .. l) -> Memories] /\ at = FoldTurn(at, l, m, step)
    BY <2>1 DEF Firsts
  <2>3. ASSUME NEW x \in SUBSET (1 .. l), x # {}
        PROVE  step[Max(x)][at[x \ {Max(x)}]] = UnpackCell(at[x \ {Max(x)}], p, s[Max(x)])
    BY <1>2, <1>7, <2>2, <2>3
  <2>4. Solves(at)
    BY <2>2, <2>3 DEF FoldTurn, Solves
  <2> QED
    BY <2>4 DEF fold
<1> DEFINE run == [i \in 0 .. l |-> fold[1 .. i]]
<1>9. run[0] = m
  <2>1. fold[{}] = m
    BY <1>2, <1>8 DEF Solves
  <2>2. 1 .. 0 = {}
    OBVIOUS
  <2> QED
    BY <1>1, <2>1, <2>2
<1>10. ASSUME NEW i \in 1 .. l
       PROVE  run[i] = UnpackCell(run[i - 1], p, i - 1)
  <2>1. fold[1 .. i] = UnpackCell(fold[(1 .. i) \ {i}], p, s[i])
    BY <1>2, <1>8 DEF Solves
  <2>2. (1 .. i) \ {i} = 1 .. i - 1 /\ i - 1 \in 0 .. l /\ i \in 0 .. l /\ s[i] = i - 1
    <3>1. i - 1 \in 0 .. l /\ i \in 0 .. l
      BY <1>1
    <3> QED
      BY <1>2, <1>4, <3>1
  <2> QED
    BY <2>1, <2>2
<1>11. run[l] = Unpack(m, p)
  BY <1>1, <1>3
<1> HIDE DEF run
<1>12. \A i \in 0 .. l : run[i] \in Memories
  <2> DEFINE S == {k \in 0 .. l : run[k] \in Memories}
  <2>1. 0 \in S
    BY <1>1, <1>9
  <2>2. ASSUME NEW k \in 1 .. l, k - 1 \in S
        PROVE  k \in S
    <3>1. run[k - 1] \in Memories /\ k \in 0 .. l /\ s[k] = k - 1
      BY <1>1, <1>4, <2>2
    <3> QED
      BY <1>5, <1>10, <3>1
  <2> HIDE DEF S
  <2>3. \A k \in 0 .. l : k \in S
    BY <1>1, <2>1, <2>2, LoopLemma
  <2> QED
    BY <2>3 DEF S
<1>13. run \in [0 .. l -> Memories]
  BY <1>12 DEF run
<1> QED
  BY <1>9, <1>10, <1>11, <1>13 DEF l

Target(p) == p.paddr .. p.paddr + p.memsz - 1

\* What unpacking a segment leaves in memory.
LEMMA UnpackLemma ==
  ASSUME NEW m \in Memories, NEW p, NEW n, Fits(p, n)
  PROVE  /\ Unpack(m, p) \in Memories
         /\ \A a \in RamAddresses \ Target(p) : Unpack(m, p)[a] = m[a]
         /\ \A j \in 0 .. p.memsz - 1 :
              Unpack(m, p)[p.paddr + j] = IF j < p.filesz THEN m[MEM_EXT_START + p.offset + j] ELSE Zero
<1> DEFINE l == p.memsz
           Value(j) == IF j < p.filesz THEN m[MEM_EXT_START + p.offset + j] ELSE Zero
<1>1. /\ p.paddr \in Nat /\ l \in Nat /\ p.offset \in Nat /\ p.filesz \in Nat
      /\ MEM_EXT_START \in Nat /\ RamEnd \in Nat /\ n \in Nat
      /\ MEM_EXT_START + n <= RamEnd /\ p.filesz <= l /\ p.offset + p.filesz <= n
      /\ p.paddr + l <= MEM_EXT_START
  BY BootAssumption DEF Fits, ProgramHeaders
<1>2. PICK run \in [0 .. l -> Memories] :
        /\ run[0] = m /\ run[l] = Unpack(m, p)
        /\ \A i \in 1 .. l : run[i] = UnpackCell(run[i - 1], p, i - 1)
  BY UnpackRun
<1> DEFINE Done(i) == /\ \A a \in RamAddresses \ Target(p) : run[i][a] = m[a]
                      /\ \A j \in 0 .. i - 1 : run[i][p.paddr + j] = Value(j)
           S == {i \in 0 .. l : Done(i)}
<1>3. 0 \in S
  <2>1. Done(0)
    BY <1>2
  <2> QED
    BY <1>1, <2>1
<1>4. ASSUME NEW i \in 1 .. l, i - 1 \in S
      PROVE  i \in S
  <2>1. i - 1 \in 0 .. l /\ i \in 0 .. l /\ i - 1 \in 0 .. l - 1 /\ i \in Nat
    BY <1>1
  <2>2. run[i - 1] \in Memories /\ Done(i - 1)
    BY <1>2, <1>4, <2>1
  <2>3. run[i] = UnpackCell(run[i - 1], p, i - 1)
    BY <1>2
  <2> DEFINE k == i - 1
  <2>4. k \in 0 .. p.memsz - 1
    BY <2>1
  <2>5. run[k] \in Memories /\ run[i] = UnpackCell(run[k], p, k) /\ Done(k)
    BY <2>2, <2>3
  <2> HIDE DEF S, k, l, Done
  <2>6. /\ \A a \in RamAddresses : a # p.paddr + k => run[i][a] = run[k][a]
        /\ k < p.filesz => run[i][p.paddr + k] = run[k][MEM_EXT_START + p.offset + k]
        /\ ~(k < p.filesz) => run[i][p.paddr + k] = Zero
    BY <2>4, <2>5, UnpackCellLemma
  <2>7. k \in Nat /\ k < l /\ p.memsz = l /\ i = k + 1
    BY <1>1, <2>1, <2>4 DEF k, l
  <2>8. ASSUME NEW a \in RamAddresses \ Target(p)
        PROVE  run[i][a] = m[a]
    <3>1. a # p.paddr + k
      BY <1>1, <2>7 DEF Target
    <3> QED
      BY <2>5, <2>6, <3>1 DEF Done
  <2>9. ASSUME NEW j \in 0 .. i - 1
        PROVE  run[i][p.paddr + j] = Value(j)
    <3>1. CASE j = k
      <4>1. CASE k < p.filesz
        <5>1. /\ MEM_EXT_START + p.offset + k \in RamAddresses
              /\ MEM_EXT_START + p.offset + k \notin Target(p)
          BY <1>1, <2>7, <4>1 DEF RamAddresses, Target
        <5> QED
          BY <2>5, <2>6, <3>1, <4>1, <5>1 DEF Done
      <4>2. CASE ~(k < p.filesz)
        BY <2>6, <3>1, <4>2
      <4> QED
        BY <4>1, <4>2
    <3>2. CASE j # k
      <4>1. j \in 0 .. k - 1 /\ p.paddr + j # p.paddr + k /\ p.paddr + j \in RamAddresses
        BY <1>1, <2>7, <3>2 DEF RamAddresses
      <4> QED
        BY <2>5, <2>6, <4>1 DEF Done
    <3> QED
      BY <3>1, <3>2
  <2>10. Done(i)
    BY <2>8, <2>9 DEF Done
  <2> QED
    BY <2>1, <2>10 DEF S, l
<1> HIDE DEF S, Done, Value
<1>5. l \in S
  <2>1. \A i \in 0 .. l : i \in S
    BY <1>1, <1>3, <1>4, LoopLemma
  <2> QED
    BY <1>1, <2>1
<1>6. Done(l) /\ l \in 0 .. l
  BY <1>1, <1>5 DEF S
<1>7. Unpack(m, p) \in Memories
  BY <1>2, <1>6
<1> QED
  BY <1>2, <1>6, <1>7 DEF Done, Value

\* The file is in memory up to record n, and the segments of the first n program headers
\* are where they belong.
InMemory(n) == \A k \in 1 .. n : memory[MEM_EXT_START + k - 1] = kernel[k]

Placed(p) ==
  \A j \in 0 .. p.memsz - 1 :
    memory[p.paddr + j] = IF j < p.filesz THEN kernel[p.offset + j + 1] ELSE Zero

Unpacked(n) == \A k \in 2 .. 1 + n : kernel[k].load => Placed(kernel[k])

IsHeader == kernel[1].kind = "header"

KernelInv ==
  /\ kernel \in Kernels /\ memory \in Memories /\ done \in Nat
  /\ place = "detect" => done = 0
  /\ place = "read_disk" => done <= Len(kernel) /\ InMemory(done)
  /\ place \in {"reload_elf_file", "memory_init"} => InMemory(Len(kernel))
  /\ place = "reload_elf_file" /\ IsHeader => done <= kernel[1].phnum /\ Unpacked(done)
  /\ place = "memory_init" => IsHeader /\ Unpacked(kernel[1].phnum)

\* What the build makes, in the words of the lemmas above.
LEMMA LinkedLemma ==
  ASSUME kernel \in Kernels
  PROVE  /\ Len(kernel) \in Nat \ {0} /\ DOMAIN kernel = 1 .. Len(kernel)
         /\ MEM_EXT_START \in Nat /\ RamEnd \in Nat /\ MEM_EXT_START + Len(kernel) <= RamEnd
         /\ \A k \in 1 .. Len(kernel) : kernel[k] \in Records
         /\ IsHeader =>
              /\ kernel[1].phnum \in Nat /\ 1 + kernel[1].phnum <= Len(kernel)
              /\ \A k \in 1 .. Len(kernel) : kernel[k].kind = "phdr" <=> k \in 2 .. 1 + kernel[1].phnum
              /\ \A k \in 2 .. 1 + kernel[1].phnum : kernel[k].load =>
                   /\ Fits(kernel[k], Len(kernel))
                   /\ \A l \in 2 .. 1 + kernel[1].phnum : l # k /\ kernel[l].load =>
                        Target(kernel[k]) \intersect Target(kernel[l]) = {}
<1>1. kernel \in Seq(Records) /\ Linked(kernel) /\ MEM_EXT_START \in Nat /\ RamEnd \in Nat
  BY BootAssumption
<1>2. /\ Len(kernel) \in Nat \ {0} /\ DOMAIN kernel = 1 .. Len(kernel)
      /\ MEM_EXT_START + Len(kernel) <= RamEnd
      /\ \A k \in 1 .. Len(kernel) : kernel[k] \in Records
  BY <1>1 DEF Linked
<1>3. ASSUME IsHeader
      PROVE  kernel[1].phnum \in Nat /\ 1 + kernel[1].phnum <= Len(kernel)
  <2>1. kernel[1] \in Records /\ kernel[1].kind = "header"
    BY <1>2, <1>3 DEF IsHeader
  <2>2. kernel[1].phnum \in Nat
    BY <2>1 DEF Records, ProgramHeaders
  <2>3. kernel[1].phnum < Len(kernel)
    BY <1>1, <2>1 DEF Linked
  <2> QED
    BY <1>2, <2>2, <2>3
<1>4. ASSUME IsHeader, NEW k \in 1 .. Len(kernel)
      PROVE  kernel[k].kind = "phdr" <=> k \in 2 .. 1 + kernel[1].phnum
  BY <1>1, <1>2, <1>4 DEF Linked, IsHeader
<1>5. ASSUME IsHeader, NEW k \in 2 .. 1 + kernel[1].phnum, kernel[k].load
      PROVE  /\ Fits(kernel[k], Len(kernel))
             /\ \A l \in 2 .. 1 + kernel[1].phnum : l # k /\ kernel[l].load =>
                  Target(kernel[k]) \intersect Target(kernel[l]) = {}
  <2>1. k \in 1 .. Len(kernel)
    BY <1>2, <1>3, <1>5
  <2>2. kernel[k] \in Records /\ kernel[k].kind = "phdr"
    BY <1>2, <1>4, <1>5, <2>1
  <2>3. kernel[k] \in ProgramHeaders
    BY <2>2 DEF Records
  <2>4. /\ kernel[k].filesz <= kernel[k].memsz
        /\ kernel[k].offset + kernel[k].filesz <= Len(kernel)
        /\ kernel[k].paddr + kernel[k].memsz <= MEM_EXT_START
        /\ \A l \in 2 .. 1 + kernel[1].phnum : l # k /\ kernel[l].load =>
             Target(kernel[k]) \intersect Target(kernel[l]) = {}
    BY <1>1, <1>5 DEF Linked, IsHeader, Target
  <2> QED
    BY <1>2, <2>3, <2>4 DEF Fits
<1> QED
  BY <1>1, <1>2, <1>3, <1>4, <1>5

LEMMA KernelInit == BootInit => KernelInv
<1> SUFFICES ASSUME BootInit PROVE KernelInv
  OBVIOUS
<1>1. kernel \in Kernels /\ done = 0 /\ place = "detect" /\ memory = [a \in RamAddresses |-> Junk]
  BY DEF BootInit, RamAddresses
<1>2. memory \in Memories
  BY <1>1 DEF Memories, CellValues
<1> QED
  BY <1>1, <1>2 DEF KernelInv

LEMMA ReadStep == KernelInv /\ read_disk => KernelInv'
<1> SUFFICES ASSUME KernelInv, read_disk PROVE KernelInv'
  OBVIOUS
<1>1. kernel \in Kernels /\ kernel' = kernel /\ place = "read_disk" /\ memory \in Memories /\ done \in Nat
  BY DEF read_disk, KernelInv
<1>2. /\ Len(kernel) \in Nat \ {0} /\ MEM_EXT_START \in Nat /\ RamEnd \in Nat
      /\ MEM_EXT_START + Len(kernel) <= RamEnd
      /\ \A k \in 1 .. Len(kernel) : kernel[k] \in Records
  BY <1>1, LinkedLemma
<1>3. done <= Len(kernel) /\ InMemory(done)
  BY <1>1 DEF KernelInv
<1>4. CASE done < Len(kernel)
  <2> DEFINE b == MEM_EXT_START + done
             v == kernel[done + 1]
  <2>1. memory' = [memory EXCEPT ![b] = v] /\ done' = done + 1 /\ place' = place
    BY <1>4 DEF read_disk
  <2>2. b \in RamAddresses /\ v \in CellValues
    BY <1>1, <1>2, <1>4 DEF RamAddresses, CellValues
  <2> HIDE DEF b, v
  <2>3. /\ memory' \in Memories /\ memory'[b] = v
        /\ \A a \in RamAddresses : a # b => memory'[a] = memory[a]
    BY <1>1, <2>1, <2>2 DEF Memories
  <2>4. ASSUME NEW k \in 1 .. done + 1
        PROVE  memory'[MEM_EXT_START + k - 1] = kernel[k]
    <3>1. CASE k = done + 1
      <4>1. MEM_EXT_START + k - 1 = b
        BY <1>1, <1>2, <3>1 DEF b
      <4> QED
        BY <2>3, <3>1, <4>1 DEF v
    <3>2. CASE k # done + 1
      <4>1. k \in 1 .. done /\ MEM_EXT_START + k - 1 \in RamAddresses /\ MEM_EXT_START + k - 1 # b
        BY <1>1, <1>2, <1>4, <3>2 DEF b, RamAddresses
      <4> QED
        BY <1>3, <2>3, <4>1 DEF InMemory
    <3> QED
      BY <3>1, <3>2
  <2>5. InMemory(done)'
    BY <1>1, <2>1, <2>4 DEF InMemory
  <2>6. done' \in Nat /\ done' <= Len(kernel')
    BY <1>1, <1>2, <1>4, <2>1
  <2> QED
    BY <1>1, <2>1, <2>3, <2>5, <2>6 DEF KernelInv
<1>5. CASE ~(done < Len(kernel))
  <2>1. done = Len(kernel)
    BY <1>1, <1>2, <1>3, <1>5
  <2>2. memory' = memory /\ done' = 0 /\ place' = "reload_elf_file"
    BY <1>5 DEF read_disk
  <2>3. InMemory(Len(kernel))'
    BY <1>1, <1>3, <2>1, <2>2 DEF InMemory
  <2>4. Unpacked(0)'
    BY DEF Unpacked
  <2>5. IsHeader' => kernel'[1].phnum \in Nat
    BY <1>1, LinkedLemma DEF IsHeader
  <2> QED
    BY <1>1, <2>2, <2>3, <2>4, <2>5 DEF KernelInv
<1> QED
  BY <1>4, <1>5

\* The first record of the file is at MEM_EXT_START, and program header k behind it.
LEMMA ReloadStep == KernelInv /\ reload_elf_file => KernelInv'
<1> SUFFICES ASSUME KernelInv, reload_elf_file PROVE KernelInv'
  OBVIOUS
<1> DEFINE n == Len(kernel)
           k == done + 2
           p == kernel[k]
<1>1. /\ kernel \in Kernels /\ kernel' = kernel /\ place = "reload_elf_file" /\ place' = place
      /\ memory \in Memories /\ done \in Nat /\ done' = done + 1 /\ InMemory(n)
  BY DEF reload_elf_file, KernelInv
<1>2. /\ n \in Nat \ {0} /\ MEM_EXT_START \in Nat /\ RamEnd \in Nat /\ MEM_EXT_START + n <= RamEnd
  BY <1>1, LinkedLemma
<1>3. Header = kernel[1]
  <2>1. memory[MEM_EXT_START + 1 - 1] = kernel[1] /\ MEM_EXT_START + 1 - 1 = MEM_EXT_START
    BY <1>1, <1>2 DEF InMemory
  <2> QED
    BY <2>1 DEF Header
<1>4. IsHeader /\ done < kernel[1].phnum /\ kernel[1].phnum \in Nat /\ 1 + kernel[1].phnum <= n
  BY <1>1, <1>3, LinkedLemma DEF reload_elf_file, IsHeader
<1>5. Unpacked(done)
  BY <1>1, <1>4 DEF KernelInv
<1>6. k \in 1 .. n /\ k \in 2 .. 1 + kernel[1].phnum /\ MEM_EXT_START + 1 + done = MEM_EXT_START + k - 1
  BY <1>1, <1>2, <1>4
<1>7. memory' = IF p.load THEN Unpack(memory, p) ELSE memory
  <2>1. memory[MEM_EXT_START + 1 + done] = p
    BY <1>1, <1>6 DEF InMemory
  <2> QED
    BY <2>1 DEF reload_elf_file
<1> HIDE DEF n, k, p
<1>8. CASE p.load
  <2>1. /\ Fits(p, n)
        /\ \A l \in 2 .. 1 + kernel[1].phnum : l # k /\ kernel[l].load =>
             Target(p) \intersect Target(kernel[l]) = {}
    BY <1>1, <1>4, <1>6, <1>8, LinkedLemma DEF n, p
  <2>2. /\ memory' \in Memories
        /\ \A a \in RamAddresses \ Target(p) : memory'[a] = memory[a]
        /\ \A j \in 0 .. p.memsz - 1 :
             memory'[p.paddr + j] = IF j < p.filesz THEN memory[MEM_EXT_START + p.offset + j] ELSE Zero
    <3>1. memory' = Unpack(memory, p)
      BY <1>7, <1>8
    <3> QED
      BY <1>1, <2>1, <3>1, UnpackLemma
  <2>3. /\ p.paddr \in Nat /\ p.memsz \in Nat /\ p.offset \in Nat /\ p.filesz \in Nat
        /\ p.paddr + p.memsz <= MEM_EXT_START /\ p.offset + p.filesz <= n
    BY <2>1 DEF Fits, ProgramHeaders
  <2>4. InMemory(n)'
    <3> SUFFICES ASSUME NEW i \in 1 .. n' PROVE memory'[MEM_EXT_START + i - 1] = kernel'[i]
      BY DEF InMemory
    <3>1. i \in 1 .. n
      BY <1>1 DEF n
    <3>2. MEM_EXT_START + i - 1 \in RamAddresses \ Target(p)
      BY <1>2, <2>3, <3>1 DEF RamAddresses, Target
    <3> QED
      BY <1>1, <2>2, <3>1, <3>2 DEF InMemory
  <2>5. ASSUME NEW j \in 0 .. p.memsz - 1
        PROVE  memory'[p.paddr + j] = IF j < p.filesz THEN kernel[p.offset + j + 1] ELSE Zero
    <3>1. CASE j < p.filesz
      <4> DEFINE i == p.offset + j + 1
      <4>1. i \in 1 .. n /\ MEM_EXT_START + p.offset + j = MEM_EXT_START + i - 1
        BY <1>2, <2>3, <3>1
      <4>2. memory[MEM_EXT_START + i - 1] = kernel[i]
        BY <1>1, <4>1 DEF InMemory
      <4> QED
        BY <2>2, <3>1, <4>1, <4>2
    <3>2. CASE ~(j < p.filesz)
      BY <2>2, <3>2
    <3> QED
      BY <3>1, <3>2
  <2>6. ASSUME NEW l \in 2 .. 1 + (done + 1), kernel[l].load
        PROVE  Placed(kernel[l])'
    <3>1. CASE l = k
      BY <1>1, <2>5, <3>1 DEF Placed, p
    <3>2. CASE l # k
      <4> DEFINE q == kernel[l]
      <4>1. l \in 2 .. 1 + done /\ l \in 2 .. 1 + kernel[1].phnum
        BY <1>1, <1>4, <3>2 DEF k
      <4>2. Placed(q)
        BY <1>5, <2>6, <4>1 DEF Unpacked
      <4>3. Fits(q, n) /\ Target(p) \intersect Target(q) = {}
        BY <1>1, <1>4, <2>1, <2>6, <3>2, <4>1, LinkedLemma DEF n
      <4> HIDE DEF q
      <4>4. q.paddr \in Nat /\ q.memsz \in Nat /\ q.paddr + q.memsz <= MEM_EXT_START
        BY <4>3 DEF Fits, ProgramHeaders
      <4>5. ASSUME NEW j \in 0 .. q.memsz - 1
            PROVE  memory'[q.paddr + j] = memory[q.paddr + j]
        <5>1. q.paddr + j \in RamAddresses /\ q.paddr + j \in Target(q)
          BY <1>2, <4>4 DEF RamAddresses, Target
        <5> QED
          BY <2>2, <4>3, <5>1
      <4>6. Placed(q)'
        <5>1. q' = q
          BY <1>1 DEF q
        <5> QED
          BY <1>1, <4>2, <4>5, <5>1 DEF Placed
      <4> QED
        BY <4>6 DEF q
    <3> QED
      BY <3>1, <3>2
  <2>7. Unpacked(done)'
    BY <1>1, <2>6 DEF Unpacked, Placed
  <2> QED
    BY <1>1, <1>4, <2>2, <2>4, <2>7 DEF KernelInv, n
<1>9. CASE ~p.load
  <2>1. memory' = memory
    BY <1>7, <1>9
  <2>2. ASSUME NEW l \in 2 .. 1 + (done + 1), kernel[l].load
        PROVE  Placed(kernel[l])
    <3>1. l # k
      BY <1>9, <2>2 DEF p
    <3>2. l \in 2 .. 1 + done
      BY <1>1, <3>1 DEF k
    <3> QED
      BY <1>5, <2>2, <3>2 DEF Unpacked
  <2>3. Unpacked(done)'
    BY <1>1, <2>1, <2>2 DEF Unpacked, Placed
  <2>4. InMemory(Len(kernel))'
    BY <1>1, <2>1 DEF InMemory, n
  <2> QED
    BY <1>1, <1>4, <2>1, <2>3, <2>4 DEF KernelInv
<1> QED
  BY <1>8, <1>9

LEMMA KernelStep == KernelInv /\ [BootNext]_bootVars => KernelInv'
<1> SUFFICES ASSUME KernelInv, [BootNext]_bootVars
             PROVE  KernelInv'
  OBVIOUS
<1>1. CASE read_disk
  BY <1>1, ReadStep
<1>2. CASE reload_elf_file
  BY <1>2, ReloadStep
<1>3. CASE kernel_entry
  <2>1. /\ place = "reload_elf_file" /\ Header.kind = "header" /\ done = Header.phnum
        /\ place' = "memory_init" /\ kernel' = kernel /\ memory' = memory /\ done' = done
    BY <1>3 DEF kernel_entry
  <2>2. kernel \in Kernels /\ InMemory(Len(kernel)) /\ memory \in Memories /\ done \in Nat
    BY <2>1 DEF KernelInv
  <2>3. Len(kernel) \in Nat \ {0} /\ MEM_EXT_START \in Nat
    BY <2>2, LinkedLemma
  <2>4. memory[MEM_EXT_START + 1 - 1] = kernel[1] /\ MEM_EXT_START + 1 - 1 = MEM_EXT_START
    BY <2>2, <2>3 DEF InMemory
  <2>5. IsHeader /\ done = kernel[1].phnum
    BY <2>1, <2>4 DEF Header, IsHeader
  <2>6. Unpacked(kernel[1].phnum)
    BY <2>1, <2>5 DEF KernelInv
  <2>7. InMemory(Len(kernel))' /\ Unpacked(kernel[1].phnum)' /\ IsHeader'
    BY <2>1, <2>2, <2>5, <2>6 DEF InMemory, Unpacked, Placed, IsHeader
  <2> QED
    BY <2>1, <2>2, <2>7 DEF KernelInv
<1>4. CASE detect_memory \/ detect_fails
  <2>1. /\ place = "detect" /\ place' \in {"detect", "read_disk"}
        /\ kernel' = kernel /\ memory' = memory /\ done' = done
    BY <1>4 DEF detect_memory, detect_fails
  <2>2. kernel \in Kernels /\ memory \in Memories /\ done = 0
    BY <2>1 DEF KernelInv
  <2>3. Len(kernel') \in Nat \ {0} /\ InMemory(done)'
    BY <2>1, <2>2, LinkedLemma DEF InMemory
  <2> QED
    BY <2>1, <2>2, <2>3 DEF KernelInv
<1>5. CASE die \/ memory_init
  <2>1. /\ place' \in {"died", "done"} /\ kernel' = kernel /\ memory' = memory /\ done' = done
    BY <1>5 DEF die, memory_init
  <2> QED
    BY <2>1 DEF KernelInv
<1>6. CASE UNCHANGED bootVars
  <2>1. place' = place /\ kernel' = kernel /\ memory' = memory /\ done' = done
    BY <1>6 DEF bootVars
  <2> QED
    BY <2>1 DEF KernelInv, InMemory, Unpacked, Placed, IsHeader
<1> QED
  BY <1>1, <1>2, <1>3, <1>4, <1>5, <1>6 DEF BootNext

\* Whatever file the build puts on the disk and whatever was in memory before, the kernel
\* is entered with every segment where it was linked.
THEOREM KernelIsEnteredAsLinked == BootSpec => []KernelAsLinked
<1>1. KernelInv => KernelAsLinked
  <2> SUFFICES ASSUME KernelInv, place = "memory_init", NEW p \in Segments,
                      NEW j \in 0 .. p.memsz - 1
               PROVE  memory[p.paddr + j] = IF j < p.filesz THEN kernel[p.offset + j + 1] ELSE Zero
    BY DEF KernelAsLinked
  <2>1. kernel \in Kernels /\ IsHeader /\ Unpacked(kernel[1].phnum)
    BY DEF KernelInv
  <2>2. PICK k \in DOMAIN kernel : p = kernel[k]
    BY DEF Segments, ToSet
  <2>3. kernel[k].kind = "phdr" /\ kernel[k].load
    BY <2>2 DEF Segments
  <2>4. k \in 2 .. 1 + kernel[1].phnum
    BY <2>1, <2>2, <2>3, LinkedLemma
  <2>5. Placed(p)
    BY <2>1, <2>2, <2>3, <2>4 DEF Unpacked
  <2> QED
    BY <2>5 DEF Placed
<1>2. KernelInv /\ [BootNext]_bootVars => KernelInv'
  BY KernelStep
<1> QED
  BY <1>1, <1>2, KernelInit, PTL DEF BootSpec

=============================================================================

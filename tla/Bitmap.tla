------------------------------- MODULE Bitmap -------------------------------
(***************************************************************************)
(* The bitmap of source/kernel/tools/bitmap.c: a function from the bit     *)
(* numbers 0 .. bit_count - 1 to {0, 1}.                                   *)
(***************************************************************************)
EXTENDS Integers, FiniteSets

Bit == {0, 1}

\* ~bit in C: never 0 for the bits 0 and 1.
Complement(bit) == -bit - 1

bit_count(bits) == Cardinality(DOMAIN bits)

bitmap_init(n, init_bit) == [i \in 0 .. n - 1 |-> IF init_bit # 0 THEN 1 ELSE 0]

\* Mutant: one bit too many.
Bad_bitmap_set_bit(bits, index, count, bit) ==
  [i \in DOMAIN bits |-> IF i \in index .. index + count
                         THEN IF bit # 0 THEN 1 ELSE 0
                         ELSE bits[i]]

\* Bits past the end are ignored.
bitmap_set_bit(bits, index, count, bit) ==
  [i \in DOMAIN bits |-> IF i \in index .. index + count - 1
                         THEN IF bit # 0 THEN 1 ELSE 0
                         ELSE bits[i]]

\* The index bitmap_alloc_nbits returns.  At a bit that matches, the inner loop
\* starts over from that same bit and compares count - 1 bits; it fails at the
\* first that differs, the search going on behind it, or at the end of the map.
AllocIndex(bits, bit, count) ==
  LET n == bit_count(bits)
      search[k \in 0 .. n] ==
        LET compared == {j \in DOMAIN bits : k <= j /\ j <= k + count - 2}
            differ   == {j \in compared : bits[j] # bit}
        IN  IF k = n THEN -1
            ELSE IF bits[k] # bit THEN search[k + 1]
            ELSE IF differ # {} THEN search[1 + CHOOSE j \in differ : \A i \in differ : j <= i]
            ELSE IF k + count - 1 <= n THEN k
            ELSE -1
  IN  search[0]

\* Mutant: the bits found are not changed.
Bad_bitmap_alloc_nbits(bits, bit, count) ==
  [index |-> AllocIndex(bits, bit, count), bits |-> bits]

\* bitmap_alloc_nbits: the index, and the bits with the block set to ~bit.
bitmap_alloc_nbits(bits, bit, count) ==
  LET index == AllocIndex(bits, bit, count) IN
  [index |-> index,
   bits  |-> IF index >= 0 THEN bitmap_set_bit(bits, index, count, Complement(bit)) ELSE bits]

-----------------------------------------------------------------------------
(* Reference definition *)

\* The starts of the blocks of count bits that are all equal to bit.
Blocks(bits, bit, count) ==
  {k \in DOMAIN bits : /\ k + count <= bit_count(bits)
                       /\ \A j \in k .. k + count - 1 : bits[j] = bit}

\* Allocating count bits finds the first block of them, if there is one, and
\* changes exactly that block.
AllocCorrect(bits, bit, count) ==
  LET r == bitmap_alloc_nbits(bits, bit, count)
      B == Blocks(bits, bit, count)
  IN
  /\ r.index = IF B = {} THEN -1 ELSE CHOOSE k \in B : \A j \in B : k <= j
  /\ \A i \in DOMAIN bits :
       r.bits[i] = IF B # {} /\ i \in r.index .. r.index + count - 1
                   THEN 1 - bit ELSE bits[i]

=============================================================================

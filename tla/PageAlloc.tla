------------------------------ MODULE PageAlloc ------------------------------
(***************************************************************************)
(* The physical page allocator of source/kernel/core/memory.c: addresses   *)
(* over a bitmap.  Each function holds the allocator's mutex from its      *)
(* first access of the bitmap to its last, so it is one step (Ipc is about *)
(* the mutex).                                                             *)
(***************************************************************************)
EXTENDS Bitmap

CONSTANTS
  Holders,    \* who asks for pages: page directories, page tables, stacks
  PageCount,  \* addr_alloc_t.size / page_size
  PageSize,   \* addr_alloc_t.page_size
  Start       \* addr_alloc_t.start

ASSUME PageAssumption ==
  PageCount \in Nat /\ PageSize \in Nat \ {0} /\ Start \in Nat \ {0}

VARIABLES
  bits,   \* addr_alloc_t.bitmap
  held,   \* history: the addresses each holder was given and has not freed
  reply   \* history: the last address addr_alloc_page returned

pageVars == <<bits, held, reply>>

AddressOf(index) == Start + index * PageSize

Addresses == {AddressOf(i) : i \in 0 .. PageCount - 1}

IndexOf(addr) == (addr - Start) \div PageSize

\* addr_alloc_init
PageInit ==
  /\ bits = bitmap_init(PageCount, 0)
  /\ held = [h \in Holders |-> {}]
  /\ reply = 0

\* addr_alloc_page; every caller in the kernel asks for one page.
addr_alloc_page(h) ==
  LET r == bitmap_alloc_nbits(bits, 0, 1) IN
  /\ bits' = r.bits
  /\ IF r.index >= 0
     THEN /\ reply' = AddressOf(r.index)
          /\ held' = [held EXCEPT ![h] = @ \union {AddressOf(r.index)}]
     ELSE reply' = 0 /\ UNCHANGED held

\* addr_free_page: the bit is numbered by the distance from start in bytes.
FreeIndex(addr) == addr - Start

addr_free_page(h, addr) ==
  /\ addr \in held[h]
  /\ bits' = bitmap_set_bit(bits, FreeIndex(addr), 1, 0)
  /\ held' = [held EXCEPT ![h] = @ \ {addr}]
  /\ UNCHANGED reply

PageNext ==
  \E h \in Holders :
    \/ addr_alloc_page(h)
    \/ \E addr \in Addresses : addr_free_page(h, addr)

PageSpec == PageInit /\ [][PageNext]_pageVars

-----------------------------------------------------------------------------
(* Properties *)

\* Allocating one page finds the first free one, if any, whatever the bitmap.
OnePageCorrect == AllocCorrect(bits, 0, 1)

\* No page is held twice: addr_alloc_page "gets a free page".  It holds while
\* page_size is at least the number of pages, so that the byte distance of every
\* page but the first is no bit number and its free is lost.
PagesExclusive ==
  \A h, k \in Holders : h # k => held[h] \intersect held[k] = {}

=============================================================================

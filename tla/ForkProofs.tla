----------------------------- MODULE ForkProofs -----------------------------
(***************************************************************************)
(* Proofs about Fork with one parent, for any numbers of slots,            *)
(* descriptors and pages: what the run fork checks on a small instance.    *)
(* With two parents the properties fail, as the run fork_pids shows.       *)
(***************************************************************************)
EXTENDS Fork, Loops

-----------------------------------------------------------------------------
(* The invariant *)

Named == {s \in Slots : slot[s].named}

\* Places between the functions that take something and those that give it back.
HasSel == {"clear", "stack", "publish", "dir", "name", "copy", "start", "undo_sel"}
HasStack == {"publish", "dir", "name", "copy", "start"}
MayHaveStack == {"undo_sel", "undo_stack"}
Published == {"dir", "name", "copy", "start"}
HasName == {"copy", "start"}
NoSel == {"undo_stack", "free_task", "uninit_sel", "uninit_stack", "erase"}
NoStack == {"free_task", "uninit_sel", "uninit_stack", "erase"}

\* A named slot's descriptor and stack are allocated and its own.
NamedOwn ==
  \A s \in Named :
    /\ slot[s].tss_sel \in gdt /\ slot[s].esp0 \in Pages \ free
    /\ \A r \in Named \ {s} : slot[r].tss_sel # slot[s].tss_sel /\ slot[r].esp0 # slot[s].esp0

StartedNamed == \A s \in Slots : pids[s] > 0 => s \in Named

\* A slot that is neither named nor being filled is empty.
UnnamedEmpty(p) ==
  \A s \in Slots \ Named : At(p, "user") \/ s # proc[p].child => slot[s] = Empty

\* The descriptor sel is allocated, and no slot but the child's has it.
OwnSel(p) ==
  /\ proc[p].sel \in gdt
  /\ \A s \in Named \ {proc[p].child} : slot[s].tss_sel # proc[p].sel

\* The same of the stack.
OwnStack(p) ==
  /\ proc[p].stack \in Pages \ free
  /\ \A s \in Named \ {proc[p].child} : slot[s].esp0 # proc[p].stack

\* The child under construction, place by place.
ChildOK(p) ==
  LET at == proc[p].at
      c == proc[p].child
  IN  /\ at = "user" => proc[p] = User
      /\ at # "user" => c \in Slots /\ (c \in Named <=> at \in HasName)
      /\ at = "gdt" => proc[p].sel = None
      /\ at \in {"gdt", "clear", "stack"} => proc[p].stack = None
      /\ at \in HasSel => OwnSel(p)
      /\ at \in HasStack => OwnStack(p)
      /\ at \in MayHaveStack => proc[p].stack = None \/ OwnStack(p)
      /\ at \in Published => slot[c].tss_sel = proc[p].sel /\ slot[c].esp0 = proc[p].stack
      /\ at \notin HasName \union {"user"} =>
           /\ slot[c].tss_sel \in {None, proc[p].sel}
           /\ slot[c].esp0 \in {None, proc[p].stack}
           /\ slot[c].cr3 = None
      /\ at \in NoSel => proc[p].sel \notin gdt
      /\ at \in NoStack => proc[p].stack = None \/ proc[p].stack \in free

ForkInv(p) ==
  /\ ForkTypeOK
  /\ NamedOwn
  /\ StartedNamed
  /\ UnnamedEmpty(p)
  /\ ChildOK(p)

-----------------------------------------------------------------------------
(* What a function finds that takes the first of something *)

LEMMA MinLemma ==
  ASSUME NEW S \in SUBSET Nat, S # {}
  PROVE  Min(S) \in S
BY LeastLemma DEF Min

\* Page and descriptor numbers are positive: none is None.
LEMMA NumbersLemma ==
  ASSUME ForkTypeOK
  PROVE  /\ None \notin Pages /\ None \notin Sels
         /\ free # {} => Min(free) \in free /\ Min(free) \in Pages
         /\ gdt # Sels => Min(Sels \ gdt) \in Sels \ gdt
<1>1. Pages \subseteq Nat /\ Sels \subseteq Nat /\ None \notin Pages /\ None \notin Sels
  BY ForkAssumption DEF Pages, Sels, None
<1>2. free \subseteq Pages /\ gdt \subseteq Sels
  BY DEF ForkTypeOK
<1>3. free # {} => Min(free) \in free
  BY <1>1, <1>2, MinLemma
<1>4. gdt # Sels => Min(Sels \ gdt) \in Sels \ gdt
  BY <1>1, <1>2, MinLemma
<1> QED BY <1>1, <1>2, <1>3, <1>4

-----------------------------------------------------------------------------
(* Every step keeps the invariant: one lemma per action *)

USE DEF At, Go, Named, HasSel, HasStack, MayHaveStack, Published, HasName, NoSel, NoStack

LEMMA alloc_task_Step ==
  ASSUME NEW p, Parents = {p},
         ForkTypeOK, NamedOwn, StartedNamed, UnnamedEmpty(p), ChildOK(p), alloc_task(p)
  PROVE  ForkInv(p)'
<1> DEFINE c == Min(Slots \ Named)
           new == [User EXCEPT !.at = "gdt", !.child = c]
<1>1. Slots \ Named # {} /\ Slots \ Named \subseteq Nat /\ Slots \ Named = {s \in Slots : ~slot[s].named}
  BY DEF alloc_task, Slots
<1>2. c \in Slots \ Named
  BY <1>1, MinLemma
<1>3. slot[c] = Empty /\ At(p, "user") /\ proc[p] = User /\ UNCHANGED <<slot, gdt, free, pids>>
  BY <1>2 DEF alloc_task, UnnamedEmpty, ChildOK
<1>4. proc' = [proc EXCEPT ![p] = new]
  BY <1>1 DEF alloc_task
<1> HIDE DEF c
<1>5. new \in Locals /\ new.at = "gdt" /\ new.child = c /\ new.sel = None /\ new.stack = None
  BY <1>2 DEF User, Locals, Places
<1> HIDE DEF new
<1>6. proc' \in [Parents -> Locals] /\ proc'[p] = new
  BY <1>4, <1>5 DEF ForkTypeOK
<1>7. ForkTypeOK'
  BY <1>2, <1>3, <1>5, <1>6 DEF ForkTypeOK, Locals, TaskSlots, ChildOK, Places
<1>8. NamedOwn'
  BY <1>2, <1>3, <1>5, <1>6 DEF ForkTypeOK, Locals, TaskSlots, NamedOwn, ChildOK, OwnSel, OwnStack, Empty
<1>9. StartedNamed'
  BY <1>2, <1>3, <1>5, <1>6 DEF ForkTypeOK, Locals, TaskSlots, StartedNamed, ChildOK, Empty
<1>10. UnnamedEmpty(p)'
  BY <1>2, <1>3, <1>5, <1>6 DEF UnnamedEmpty
<1>11. ChildOK(p)'
  BY <1>2, <1>3, <1>5, <1>6 DEF ForkTypeOK, Locals, TaskSlots, NamedOwn, ChildOK, OwnSel, OwnStack, Empty, UnnamedEmpty
<1> QED BY <1>7, <1>8, <1>9, <1>10, <1>11 DEF ForkInv

LEMMA gdt_alloc_desc_Step ==
  ASSUME NEW p, Parents = {p},
         ForkTypeOK, NamedOwn, StartedNamed, UnnamedEmpty(p), ChildOK(p), gdt_alloc_desc(p)
  PROVE  ForkInv(p)'
<1>1. ForkTypeOK'
  BY NumbersLemma DEF gdt_alloc_desc, ForkTypeOK, Locals, TaskSlots, ChildOK, Places
<1>2. NamedOwn'
  BY NumbersLemma DEF gdt_alloc_desc, ForkTypeOK, Locals, TaskSlots, NamedOwn, ChildOK, OwnSel, OwnStack
<1>3. StartedNamed'
  BY NumbersLemma DEF gdt_alloc_desc, ForkTypeOK, Locals, TaskSlots, StartedNamed, ChildOK
<1>4. UnnamedEmpty(p)'
  BY NumbersLemma DEF gdt_alloc_desc, ForkTypeOK, Locals, TaskSlots, UnnamedEmpty, ChildOK
<1>5. ChildOK(p)'
  BY NumbersLemma DEF gdt_alloc_desc, ForkTypeOK, Locals, TaskSlots, NamedOwn, ChildOK, OwnSel, OwnStack
<1> QED BY <1>1, <1>2, <1>3, <1>4, <1>5 DEF ForkInv

LEMMA clear_tss_Step ==
  ASSUME NEW p, Parents = {p},
         ForkTypeOK, NamedOwn, StartedNamed, UnnamedEmpty(p), ChildOK(p), clear_tss(p)
  PROVE  ForkInv(p)'
<1> DEFINE c == proc[p].child
           new == [slot[c] EXCEPT !.esp0 = None, !.cr3 = None]
<1>1. c \in Slots /\ slot[c] \in TaskSlots /\ proc[p] \in Locals
  BY DEF clear_tss, ForkTypeOK, ChildOK
<1>2. new \in TaskSlots
  BY <1>1 DEF Locals, TaskSlots
<1>3. slot' = [slot EXCEPT ![c] = new]
  BY DEF clear_tss
<1>4. slot' \in [Slots -> TaskSlots] /\ slot'[c] = new /\ \A s \in Slots \ {c} : slot'[s] = slot[s]
  BY <1>1, <1>2, <1>3 DEF ForkTypeOK
<1>5. ForkTypeOK'
  BY <1>1, <1>4 DEF clear_tss, ForkTypeOK, Locals, TaskSlots, ChildOK, Places
<1>6. NamedOwn'
  BY <1>1, <1>4 DEF clear_tss, ForkTypeOK, Locals, TaskSlots, NamedOwn, ChildOK, OwnSel, OwnStack
<1>7. StartedNamed'
  BY <1>1, <1>4 DEF clear_tss, ForkTypeOK, Locals, TaskSlots, StartedNamed, ChildOK
<1>8. UnnamedEmpty(p)'
  BY <1>1, <1>4 DEF clear_tss, ForkTypeOK, Locals, TaskSlots, UnnamedEmpty, ChildOK
<1>9. ChildOK(p)'
  BY <1>1, <1>4 DEF clear_tss, ForkTypeOK, Locals, TaskSlots, NamedOwn, ChildOK, OwnSel, OwnStack
<1> QED BY <1>5, <1>6, <1>7, <1>8, <1>9 DEF ForkInv

LEMMA alloc_stack_Step ==
  ASSUME NEW p, Parents = {p},
         ForkTypeOK, NamedOwn, StartedNamed, UnnamedEmpty(p), ChildOK(p), alloc_stack(p)
  PROVE  ForkInv(p)'
<1>1. ForkTypeOK'
  BY NumbersLemma DEF alloc_stack, AllocPage, ForkTypeOK, Locals, TaskSlots, ChildOK, Places
<1>2. NamedOwn'
  BY NumbersLemma DEF alloc_stack, AllocPage, ForkTypeOK, Locals, TaskSlots, NamedOwn, ChildOK, OwnSel, OwnStack
<1>3. StartedNamed'
  BY NumbersLemma DEF alloc_stack, AllocPage, ForkTypeOK, Locals, TaskSlots, StartedNamed, ChildOK
<1>4. UnnamedEmpty(p)'
  BY NumbersLemma DEF alloc_stack, AllocPage, ForkTypeOK, Locals, TaskSlots, UnnamedEmpty, ChildOK
<1>5. ChildOK(p)'
  BY NumbersLemma DEF alloc_stack, AllocPage, ForkTypeOK, Locals, TaskSlots, NamedOwn, ChildOK, OwnSel, OwnStack
<1> QED BY <1>1, <1>2, <1>3, <1>4, <1>5 DEF ForkInv

LEMMA set_tss_Step ==
  ASSUME NEW p, Parents = {p},
         ForkTypeOK, NamedOwn, StartedNamed, UnnamedEmpty(p), ChildOK(p), set_tss(p)
  PROVE  ForkInv(p)'
<1> DEFINE c == proc[p].child
           new == [slot[c] EXCEPT !.esp0 = proc[p].stack, !.tss_sel = proc[p].sel]
<1>1. c \in Slots /\ slot[c] \in TaskSlots /\ proc[p] \in Locals
  BY DEF set_tss, ForkTypeOK, ChildOK
<1>2. new \in TaskSlots
  BY <1>1 DEF Locals, TaskSlots
<1>3. slot' = [slot EXCEPT ![c] = new]
  BY DEF set_tss
<1>4. slot' \in [Slots -> TaskSlots] /\ slot'[c] = new /\ \A s \in Slots \ {c} : slot'[s] = slot[s]
  BY <1>1, <1>2, <1>3 DEF ForkTypeOK
<1>5. ForkTypeOK'
  BY <1>1, <1>4, NumbersLemma DEF set_tss, ForkTypeOK, Locals, TaskSlots, ChildOK, Places
<1>6. NamedOwn'
  BY <1>1, <1>4, NumbersLemma DEF set_tss, ForkTypeOK, Locals, TaskSlots, NamedOwn, ChildOK, OwnSel, OwnStack
<1>7. StartedNamed'
  BY <1>1, <1>4, NumbersLemma DEF set_tss, ForkTypeOK, Locals, TaskSlots, StartedNamed, ChildOK
<1>8. UnnamedEmpty(p)'
  BY <1>1, <1>4, NumbersLemma DEF set_tss, ForkTypeOK, Locals, TaskSlots, UnnamedEmpty, ChildOK
<1>9. ChildOK(p)'
  BY <1>1, <1>4, NumbersLemma DEF set_tss, ForkTypeOK, Locals, TaskSlots, NamedOwn, ChildOK, OwnSel, OwnStack
<1> QED BY <1>5, <1>6, <1>7, <1>8, <1>9 DEF ForkInv

LEMMA memory_create_uvm_Step ==
  ASSUME NEW p, Parents = {p},
         ForkTypeOK, NamedOwn, StartedNamed, UnnamedEmpty(p), ChildOK(p), memory_create_uvm(p)
  PROVE  ForkInv(p)'
<1>1. ForkTypeOK'
  BY NumbersLemma DEF memory_create_uvm, AllocPage, ForkTypeOK, Locals, TaskSlots, ChildOK, Places
<1>2. NamedOwn'
  BY NumbersLemma DEF memory_create_uvm, AllocPage, ForkTypeOK, Locals, TaskSlots, NamedOwn, ChildOK, OwnSel, OwnStack
<1>3. StartedNamed'
  BY NumbersLemma DEF memory_create_uvm, AllocPage, ForkTypeOK, Locals, TaskSlots, StartedNamed, ChildOK
<1>4. UnnamedEmpty(p)'
  BY NumbersLemma DEF memory_create_uvm, AllocPage, ForkTypeOK, Locals, TaskSlots, UnnamedEmpty, ChildOK
<1>5. ChildOK(p)'
  BY NumbersLemma DEF memory_create_uvm, AllocPage, ForkTypeOK, Locals, TaskSlots, NamedOwn, ChildOK, OwnSel, OwnStack
<1> QED BY <1>1, <1>2, <1>3, <1>4, <1>5 DEF ForkInv

LEMMA undo_sel_Step ==
  ASSUME NEW p, Parents = {p},
         ForkTypeOK, NamedOwn, StartedNamed, UnnamedEmpty(p), ChildOK(p), undo_sel(p)
  PROVE  ForkInv(p)'
<1>1. ForkTypeOK'
  BY NumbersLemma DEF undo_sel, ForkTypeOK, Locals, TaskSlots, ChildOK, Places
<1>2. NamedOwn'
  BY NumbersLemma DEF undo_sel, ForkTypeOK, Locals, TaskSlots, NamedOwn, ChildOK, OwnSel, OwnStack
<1>3. StartedNamed'
  BY NumbersLemma DEF undo_sel, ForkTypeOK, Locals, TaskSlots, StartedNamed, ChildOK
<1>4. UnnamedEmpty(p)'
  BY NumbersLemma DEF undo_sel, ForkTypeOK, Locals, TaskSlots, UnnamedEmpty, ChildOK
<1>5. ChildOK(p)'
  BY NumbersLemma DEF undo_sel, ForkTypeOK, Locals, TaskSlots, NamedOwn, ChildOK, OwnSel, OwnStack
<1> QED BY <1>1, <1>2, <1>3, <1>4, <1>5 DEF ForkInv

LEMMA undo_stack_Step ==
  ASSUME NEW p, Parents = {p},
         ForkTypeOK, NamedOwn, StartedNamed, UnnamedEmpty(p), ChildOK(p), undo_stack(p)
  PROVE  ForkInv(p)'
<1>1. ForkTypeOK'
  BY NumbersLemma DEF undo_stack, ForkTypeOK, Locals, TaskSlots, ChildOK, Places
<1>2. NamedOwn'
  BY NumbersLemma DEF undo_stack, ForkTypeOK, Locals, TaskSlots, NamedOwn, ChildOK, OwnSel, OwnStack
<1>3. StartedNamed'
  BY NumbersLemma DEF undo_stack, ForkTypeOK, Locals, TaskSlots, StartedNamed, ChildOK
<1>4. UnnamedEmpty(p)'
  BY NumbersLemma DEF undo_stack, ForkTypeOK, Locals, TaskSlots, UnnamedEmpty, ChildOK
<1>5. ChildOK(p)'
  BY NumbersLemma DEF undo_stack, ForkTypeOK, Locals, TaskSlots, NamedOwn, ChildOK, OwnSel, OwnStack
<1> QED BY <1>1, <1>2, <1>3, <1>4, <1>5 DEF ForkInv

LEMMA set_name_Step ==
  ASSUME NEW p, Parents = {p},
         ForkTypeOK, NamedOwn, StartedNamed, UnnamedEmpty(p), ChildOK(p), set_name(p)
  PROVE  ForkInv(p)'
<1> DEFINE c == proc[p].child
           new == [slot[c] EXCEPT !.named = TRUE, !.cr3 = proc[p].dir]
<1>1. c \in Slots /\ slot[c] \in TaskSlots /\ proc[p] \in Locals
  BY DEF set_name, ForkTypeOK, ChildOK
<1>2. new \in TaskSlots
  BY <1>1 DEF Locals, TaskSlots
<1>3. slot' = [slot EXCEPT ![c] = new]
  BY DEF set_name
<1>4. slot' \in [Slots -> TaskSlots] /\ slot'[c] = new /\ \A s \in Slots \ {c} : slot'[s] = slot[s]
  BY <1>1, <1>2, <1>3 DEF ForkTypeOK
<1>5. ForkTypeOK'
  BY <1>1, <1>4, NumbersLemma DEF set_name, ForkTypeOK, Locals, TaskSlots, ChildOK, Places
<1>6. NamedOwn'
  BY <1>1, <1>4, NumbersLemma DEF set_name, ForkTypeOK, Locals, TaskSlots, NamedOwn, ChildOK, OwnSel, OwnStack
<1>7. StartedNamed'
  BY <1>1, <1>4, NumbersLemma DEF set_name, ForkTypeOK, Locals, TaskSlots, StartedNamed, ChildOK
<1>8. UnnamedEmpty(p)'
  BY <1>1, <1>4, NumbersLemma DEF set_name, ForkTypeOK, Locals, TaskSlots, UnnamedEmpty, ChildOK
<1>9. ChildOK(p)'
  BY <1>1, <1>4, NumbersLemma DEF set_name, ForkTypeOK, Locals, TaskSlots, NamedOwn, ChildOK, OwnSel, OwnStack
<1> QED BY <1>5, <1>6, <1>7, <1>8, <1>9 DEF ForkInv

LEMMA memory_copy_uvm_Step ==
  ASSUME NEW p, Parents = {p},
         ForkTypeOK, NamedOwn, StartedNamed, UnnamedEmpty(p), ChildOK(p), memory_copy_uvm(p)
  PROVE  ForkInv(p)'
<1> DEFINE c == proc[p].child
<1>1. c \in Slots /\ slot[c] \in TaskSlots /\ proc[p] \in Locals
  BY DEF memory_copy_uvm, ForkTypeOK, ChildOK
<1>2. PICK d \in Pages \union {None} : slot' = [slot EXCEPT ![c].cr3 = d]
  BY <1>1, NumbersLemma DEF memory_copy_uvm, Locals
<1>3. slot' \in [Slots -> TaskSlots] /\ slot'[c] = [slot[c] EXCEPT !.cr3 = d] /\ \A s \in Slots \ {c} : slot'[s] = slot[s]
  BY <1>1, <1>2 DEF ForkTypeOK, TaskSlots
<1>4. /\ Named' = Named
      /\ \A s \in Slots : slot'[s].tss_sel = slot[s].tss_sel /\ slot'[s].esp0 = slot[s].esp0
  BY <1>1, <1>3 DEF TaskSlots
<1>5. proc' \in [Parents -> Locals] /\ free' \subseteq Pages /\ UNCHANGED <<gdt, pids>>
  BY <1>1, NumbersLemma DEF memory_copy_uvm, ForkTypeOK, Locals, Places
<1>6. ForkTypeOK'
  BY <1>3, <1>5 DEF ForkTypeOK
<1>7. NamedOwn'
  BY <1>1, <1>3, <1>4, NumbersLemma DEF memory_copy_uvm, ForkTypeOK, Locals, TaskSlots, NamedOwn, ChildOK, OwnSel, OwnStack
<1>8. StartedNamed'
  BY <1>1, <1>3, <1>4, NumbersLemma DEF memory_copy_uvm, ForkTypeOK, Locals, TaskSlots, StartedNamed, ChildOK
<1>9. UnnamedEmpty(p)'
  BY <1>1, <1>3, <1>4, NumbersLemma DEF memory_copy_uvm, ForkTypeOK, Locals, TaskSlots, UnnamedEmpty, ChildOK
<1>10. ChildOK(p)'
  BY <1>1, <1>3, <1>4, NumbersLemma DEF memory_copy_uvm, ForkTypeOK, Locals, TaskSlots, NamedOwn, ChildOK, OwnSel, OwnStack
<1> QED BY <1>6, <1>7, <1>8, <1>9, <1>10 DEF ForkInv

LEMMA start_child_Step ==
  ASSUME NEW p, Parents = {p},
         ForkTypeOK, NamedOwn, StartedNamed, UnnamedEmpty(p), ChildOK(p), start_child(p)
  PROVE  ForkInv(p)'
<1>1. ForkTypeOK'
  BY NumbersLemma DEF start_child, ForkTypeOK, Locals, TaskSlots, ChildOK, User, Places
<1>2. NamedOwn'
  BY NumbersLemma DEF start_child, ForkTypeOK, Locals, TaskSlots, NamedOwn, ChildOK, OwnSel, OwnStack
<1>3. StartedNamed'
  BY NumbersLemma DEF start_child, ForkTypeOK, Locals, TaskSlots, StartedNamed, ChildOK
<1>4. UnnamedEmpty(p)'
  BY NumbersLemma DEF start_child, ForkTypeOK, Locals, TaskSlots, UnnamedEmpty, ChildOK, User
<1>5. ChildOK(p)'
  BY NumbersLemma DEF start_child, ForkTypeOK, Locals, TaskSlots, NamedOwn, ChildOK, OwnSel, OwnStack, User
<1> QED BY <1>1, <1>2, <1>3, <1>4, <1>5 DEF ForkInv

LEMMA free_task_Step ==
  ASSUME NEW p, Parents = {p},
         ForkTypeOK, NamedOwn, StartedNamed, UnnamedEmpty(p), ChildOK(p), free_task(p)
  PROVE  ForkInv(p)'
<1> DEFINE c == proc[p].child
           new == [slot[c] EXCEPT !.named = FALSE]
<1>1. c \in Slots /\ slot[c] \in TaskSlots /\ proc[p] \in Locals
  BY DEF free_task, ForkTypeOK, ChildOK
<1>2. new \in TaskSlots
  BY <1>1 DEF Locals, TaskSlots
<1>3. slot' = [slot EXCEPT ![c] = new]
  BY DEF free_task
<1>4. slot' \in [Slots -> TaskSlots] /\ slot'[c] = new /\ \A s \in Slots \ {c} : slot'[s] = slot[s]
  BY <1>1, <1>2, <1>3 DEF ForkTypeOK
<1>5. ForkTypeOK'
  BY <1>1, <1>4 DEF free_task, ForkTypeOK, Locals, TaskSlots, ChildOK, Places
<1>6. NamedOwn'
  BY <1>1, <1>4 DEF free_task, ForkTypeOK, Locals, TaskSlots, NamedOwn, ChildOK, OwnSel, OwnStack
<1>7. StartedNamed'
  BY <1>1, <1>4 DEF free_task, ForkTypeOK, Locals, TaskSlots, StartedNamed, ChildOK
<1>8. UnnamedEmpty(p)'
  BY <1>1, <1>4 DEF free_task, ForkTypeOK, Locals, TaskSlots, UnnamedEmpty, ChildOK
<1>9. ChildOK(p)'
  BY <1>1, <1>4 DEF free_task, ForkTypeOK, Locals, TaskSlots, NamedOwn, ChildOK, OwnSel, OwnStack
<1> QED BY <1>5, <1>6, <1>7, <1>8, <1>9 DEF ForkInv

LEMMA uninit_sel_Step ==
  ASSUME NEW p, Parents = {p},
         ForkTypeOK, NamedOwn, StartedNamed, UnnamedEmpty(p), ChildOK(p), uninit_sel(p)
  PROVE  ForkInv(p)'
<1>1. ForkTypeOK'
  BY NumbersLemma DEF uninit_sel, ForkTypeOK, Locals, TaskSlots, ChildOK, Places
<1>2. NamedOwn'
  BY NumbersLemma DEF uninit_sel, ForkTypeOK, Locals, TaskSlots, NamedOwn, ChildOK, OwnSel, OwnStack
<1>3. StartedNamed'
  BY NumbersLemma DEF uninit_sel, ForkTypeOK, Locals, TaskSlots, StartedNamed, ChildOK
<1>4. UnnamedEmpty(p)'
  BY NumbersLemma DEF uninit_sel, ForkTypeOK, Locals, TaskSlots, UnnamedEmpty, ChildOK
<1>5. ChildOK(p)'
  BY NumbersLemma DEF uninit_sel, ForkTypeOK, Locals, TaskSlots, NamedOwn, ChildOK, OwnSel, OwnStack
<1> QED BY <1>1, <1>2, <1>3, <1>4, <1>5 DEF ForkInv

LEMMA uninit_stack_Step ==
  ASSUME NEW p, Parents = {p},
         ForkTypeOK, NamedOwn, StartedNamed, UnnamedEmpty(p), ChildOK(p), uninit_stack(p)
  PROVE  ForkInv(p)'
<1>1. ForkTypeOK'
  BY NumbersLemma DEF uninit_stack, ForkTypeOK, Locals, TaskSlots, ChildOK, Places
<1>2. NamedOwn'
  BY NumbersLemma DEF uninit_stack, ForkTypeOK, Locals, TaskSlots, NamedOwn, ChildOK, OwnSel, OwnStack
<1>3. StartedNamed'
  BY NumbersLemma DEF uninit_stack, ForkTypeOK, Locals, TaskSlots, StartedNamed, ChildOK
<1>4. UnnamedEmpty(p)'
  BY NumbersLemma DEF uninit_stack, ForkTypeOK, Locals, TaskSlots, UnnamedEmpty, ChildOK
<1>5. ChildOK(p)'
  BY NumbersLemma DEF uninit_stack, ForkTypeOK, Locals, TaskSlots, NamedOwn, ChildOK, OwnSel, OwnStack
<1> QED BY <1>1, <1>2, <1>3, <1>4, <1>5 DEF ForkInv

LEMMA erase_slot_Step ==
  ASSUME NEW p, Parents = {p},
         ForkTypeOK, NamedOwn, StartedNamed, UnnamedEmpty(p), ChildOK(p), erase_slot(p)
  PROVE  ForkInv(p)'
<1>1. Empty \in TaskSlots /\ User \in Locals
  BY DEF Empty, TaskSlots, User, Locals, Places
<1>2. ForkTypeOK'
  BY <1>1, NumbersLemma DEF erase_slot, ForkTypeOK, Locals, TaskSlots, ChildOK, User, Places
<1>3. NamedOwn'
  BY <1>1, NumbersLemma DEF erase_slot, ForkTypeOK, Locals, TaskSlots, NamedOwn, ChildOK, OwnSel, OwnStack, Empty
<1>4. StartedNamed'
  BY <1>1, NumbersLemma DEF erase_slot, ForkTypeOK, Locals, TaskSlots, StartedNamed, ChildOK, Empty
<1>5. UnnamedEmpty(p)'
  BY <1>1, NumbersLemma DEF erase_slot, ForkTypeOK, Locals, TaskSlots, UnnamedEmpty, ChildOK, Empty, User
<1>6. ChildOK(p)'
  BY <1>1, NumbersLemma DEF erase_slot, ForkTypeOK, Locals, TaskSlots, NamedOwn, ChildOK, OwnSel, OwnStack, Empty, User
<1> QED BY <1>2, <1>3, <1>4, <1>5, <1>6 DEF ForkInv

-----------------------------------------------------------------------------
(* Theorems *)

LEMMA InitLemma ==
  ASSUME NEW p, Parents = {p}, ForkInit
  PROVE  ForkInv(p)
<1>1. ForkTypeOK
  BY DEF ForkInit, ForkTypeOK, Empty, TaskSlots, User, Locals, Places
<1>2. NamedOwn /\ StartedNamed /\ UnnamedEmpty(p)
  BY DEF ForkInit, NamedOwn, StartedNamed, UnnamedEmpty, Empty
<1>3. ChildOK(p)
  BY DEF ForkInit, ChildOK, User
<1> QED BY <1>1, <1>2, <1>3 DEF ForkInv

LEMMA NextLemma ==
  ASSUME NEW p, Parents = {p}, ForkInv(p), [ForkNext]_vars
  PROVE  ForkInv(p)'
<1>1. CASE sys_fork(p)
  <2>1. CASE alloc_task(p)
    BY <2>1, alloc_task_Step DEF ForkInv
  <2>2. CASE gdt_alloc_desc(p)
    BY <2>2, gdt_alloc_desc_Step DEF ForkInv
  <2>3. CASE clear_tss(p)
    BY <2>3, clear_tss_Step DEF ForkInv
  <2>4. CASE alloc_stack(p)
    BY <2>4, alloc_stack_Step DEF ForkInv
  <2>5. CASE set_tss(p)
    BY <2>5, set_tss_Step DEF ForkInv
  <2>6. CASE memory_create_uvm(p)
    BY <2>6, memory_create_uvm_Step DEF ForkInv
  <2>7. CASE undo_sel(p)
    BY <2>7, undo_sel_Step DEF ForkInv
  <2>8. CASE undo_stack(p)
    BY <2>8, undo_stack_Step DEF ForkInv
  <2>9. CASE set_name(p)
    BY <2>9, set_name_Step DEF ForkInv
  <2>10. CASE memory_copy_uvm(p)
    BY <2>10, memory_copy_uvm_Step DEF ForkInv
  <2>11. CASE start_child(p)
    BY <2>11, start_child_Step DEF ForkInv
  <2>12. CASE free_task(p)
    BY <2>12, free_task_Step DEF ForkInv
  <2>13. CASE uninit_sel(p)
    BY <2>13, uninit_sel_Step DEF ForkInv
  <2>14. CASE uninit_stack(p)
    BY <2>14, uninit_stack_Step DEF ForkInv
  <2>15. CASE erase_slot(p)
    BY <2>15, erase_slot_Step DEF ForkInv
  <2> QED BY <1>1, <2>1, <2>2, <2>3, <2>4, <2>5, <2>6, <2>7, <2>8, <2>9, <2>10, <2>11, <2>12, <2>13, <2>14, <2>15
          DEF sys_fork, tss_init, task_uninit
<1>2. CASE UNCHANGED vars
  BY <1>2 DEF ForkInv, ForkTypeOK, vars, NamedOwn, StartedNamed, UnnamedEmpty, ChildOK, OwnSel, OwnStack
<1> QED BY <1>1, <1>2 DEF ForkNext

\* With one parent, the invariant of task creation holds in every behaviour.
THEOREM ForkInvariant ==
  ASSUME NEW p, Parents = {p}
  PROVE  ForkSpec => []ForkInv(p)
<1>1. ForkInit => ForkInv(p)
  BY InitLemma
<1>2. ForkInv(p) /\ [ForkNext]_vars => ForkInv(p)'
  BY NextLemma
<1> QED BY <1>1, <1>2, PTL DEF ForkSpec

\* A single parent's started children own their descriptors and kernel stacks, however
\* its forks succeed and fail (tss_init, task_uninit).
THEOREM ChildrenOwnResources ==
  ASSUME NEW p, Parents = {p}
  PROVE  ForkSpec => []ResourcesOwned
<1>1. ForkInv(p) => ResourcesOwned
  BY DEF ForkInv, ResourcesOwned, Started, StartedNamed, NamedOwn
<1> QED BY <1>1, ForkInvariant, PTL

\* task_uninit of a single parent never erases a slot that holds a directory.
THEOREM DirectoriesAreKept ==
  ASSUME NEW p, Parents = {p}
  PROVE  ForkSpec => []NoDirectoryErased
<1>1. ForkInv(p) => NoDirectoryErased
  BY DEF ForkInv, NoDirectoryErased, ChildOK
<1> QED BY <1>1, ForkInvariant, PTL

\* A failed fork of a single parent holds no descriptor, no stack and no name when it
\* ends (tss_init_failed, task_uninit), wherever it failed.
THEOREM FailedForksGiveBack ==
  ASSUME NEW p, Parents = {p}
  PROVE  ForkSpec => []FailureGivesBack
<1>1. ForkInv(p) => FailureGivesBack
  BY DEF ForkInv, FailureGivesBack, ChildOK
<1> QED BY <1>1, ForkInvariant, PTL

=============================================================================

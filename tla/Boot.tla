-------------------------------- MODULE Boot --------------------------------
(***************************************************************************)
(* From the second-stage loader to the kernel's page allocator: memory     *)
(* detection (loader_16.c), reading the kernel from the disk and unpacking *)
(* it (loader_32.c), and memory_init (core/memory.c).                      *)
(*                                                                         *)
(* Memory is a sequence of cells from address 0; a sector, an ELF header   *)
(* and a program header take one cell each.  A BIOS entry is a range with  *)
(* whether it is usable RAM, and whether its extended attributes say that  *)
(* it is to be ignored.                                                    *)
(***************************************************************************)
EXTENDS Integers, FiniteSetsExt, SequencesExt

CONSTANTS
  Maps,                 \* the lists of memory ranges a BIOS may report
  Kernels,              \* the kernel files that may be on the disk
  RamEnd,               \* the end of the memory modelled
  BOOT_RAM_REGION_MAX,
  MEM_EXT_START,        \* also SYS_KERNEL_LOAD_ADDR
  MEM_EBDA_START,
  MEM_PAGE_SIZE,
  UINT32                \* 2^32 in the code

Ranges == [start : Nat, size : Nat, usable : BOOLEAN, ignored : BOOLEAN]
ProgramHeaders == [kind : {"phdr"}, load : BOOLEAN, paddr : Nat, offset : Nat, filesz : Nat, memsz : Nat]
Records == [kind : {"header"}, phnum : Nat] \union ProgramHeaders \union [kind : {"data"}, id : Nat]

\* What the build makes: a file that fits into memory and, if it is an ELF file, the
\* program headers behind the ELF header, segments that are within the file and no
\* larger there than in memory, and that are linked to different places below 1 MB.
Linked(file) ==
  /\ file # <<>> /\ Len(file) <= RamEnd - MEM_EXT_START
  /\ file[1].kind = "header" =>
       /\ file[1].phnum < Len(file)
       /\ \A k \in DOMAIN file : file[k].kind = "phdr" <=> k \in 2 .. 1 + file[1].phnum
       /\ \A k \in 2 .. 1 + file[1].phnum : file[k].load =>
            /\ file[k].filesz <= file[k].memsz /\ file[k].offset + file[k].filesz <= Len(file)
            /\ file[k].paddr + file[k].memsz <= MEM_EXT_START
            /\ \A l \in 2 .. 1 + file[1].phnum : l # k /\ file[l].load =>
                 (file[k].paddr .. file[k].paddr + file[k].memsz - 1)
                   \intersect (file[l].paddr .. file[l].paddr + file[l].memsz - 1) = {}

ASSUME BootAssumption ==
  /\ BOOT_RAM_REGION_MAX \in Nat \ {0} /\ MEM_PAGE_SIZE \in Nat \ {0}
  /\ UINT32 \in Nat \ {0} /\ MEM_EXT_START \in Nat /\ RamEnd \in MEM_EXT_START .. UINT32
  /\ Maps \subseteq Seq(Ranges) /\ Kernels \subseteq Seq(Records)
  /\ \A file \in Kernels : Linked(file)

VARIABLES
  place,    \* how far boot has come
  map,      \* the BIOS's list
  ending,   \* how the BIOS ends it: with continuation 0 or with a call that fails
  contID,   \* the continuation: entries reported in this round
  calls,    \* BIOS calls made
  regions,  \* boot_info.ram_region_cfg
  kernel,   \* the file on the disk
  memory,   \* the cells of memory
  done,     \* sectors read, then program headers done
  pages     \* paddr_alloc: where its pages start and how many cells they have

bootVars == <<place, map, ending, contID, calls, regions, kernel, memory, done, pages>>

Junk == [kind |-> "junk"]
Zero == [kind |-> "zero"]

BootInit ==
  /\ place = "detect"
  /\ map \in Maps /\ ending \in {"zero", "fail"}
  /\ contID = 0 /\ calls = 0 /\ regions = <<>>
  /\ kernel \in Kernels
  /\ memory = [a \in 0 .. RamEnd - 1 |-> Junk]
  /\ done = 0
  /\ pages = [start |-> 0, size |-> 0]

-----------------------------------------------------------------------------
(* detect_memory *)

Entry == map[contID + 1]

NextID == IF contID + 1 = Len(map) /\ ending = "zero" THEN 0 ELSE contID + 1

Counted(e) == e.usable /\ ~e.ignored

\* Mutant: the list's end is looked for at the entry behind it.
Bad_LastCall == calls + 1 = BOOT_RAM_REGION_MAX

\* Whether the loop ends with this call.  An ignored entry continues before the
\* continuation is looked at.
LastCall == calls + 1 = BOOT_RAM_REGION_MAX \/ (~Entry.ignored /\ NextID = 0)

detect_memory ==
  /\ place = "detect" /\ contID < Len(map)
  /\ regions' = IF Counted(Entry)
                THEN Append(regions, [start |-> Entry.start, size |-> Entry.size])
                ELSE regions
  /\ contID' = NextID /\ calls' = calls + 1
  /\ place' = IF LastCall THEN "read_disk" ELSE "detect"
  /\ UNCHANGED <<map, ending, kernel, memory, done, pages>>

\* The call behind the last entry fails: what has been found is kept.
detect_fails ==
  /\ place = "detect" /\ contID = Len(map)
  /\ place' = "read_disk"
  /\ UNCHANGED <<map, ending, contID, calls, regions, kernel, memory, done, pages>>

-----------------------------------------------------------------------------
(* load_kernel *)

read_disk ==
  /\ place = "read_disk"
  /\ IF done < Len(kernel)
     THEN /\ memory' = [memory EXCEPT ![MEM_EXT_START + done] = kernel[done + 1]]
          /\ done' = done + 1 /\ UNCHANGED place
     ELSE /\ done' = 0 /\ place' = "reload_elf_file" /\ UNCHANGED memory
  /\ UNCHANGED <<map, ending, contID, calls, regions, kernel, pages>>

Header == memory[MEM_EXT_START]

\* Mutant: what the file does not fill is left as it was.
Bad_Unpack(m, p) ==
  FoldLeft(LAMBDA n, j : [n EXCEPT ![p.paddr + j] = n[MEM_EXT_START + p.offset + j]],
           m, [j \in 1 .. p.filesz |-> j - 1])

\* Cell by cell, from the file in memory to the segment's physical address; then zeros.
Unpack(m, p) ==
  FoldLeft(LAMBDA n, j : [n EXCEPT ![p.paddr + j] = IF j < p.filesz
                                                    THEN n[MEM_EXT_START + p.offset + j]
                                                    ELSE Zero],
           m, [j \in 1 .. p.memsz |-> j - 1])

\* The loop over the program headers.
reload_elf_file ==
  LET p == memory[MEM_EXT_START + 1 + done] IN
  /\ place = "reload_elf_file" /\ Header.kind = "header" /\ done < Header.phnum
  /\ memory' = IF p.load THEN Unpack(memory, p) ELSE memory
  /\ done' = done + 1
  /\ UNCHANGED <<place, map, ending, contID, calls, regions, kernel, pages>>

\* A file that is no ELF file: die(-1).
die ==
  /\ place = "reload_elf_file" /\ Header.kind # "header"
  /\ place' = "died"
  /\ UNCHANGED <<map, ending, contID, calls, regions, kernel, memory, done, pages>>

\* Paging is enabled and the kernel is entered.
kernel_entry ==
  /\ place = "reload_elf_file" /\ Header.kind = "header" /\ done = Header.phnum
  /\ place' = "memory_init"
  /\ UNCHANGED <<map, ending, contID, calls, regions, kernel, memory, done, pages>>

-----------------------------------------------------------------------------
(* memory_init *)

Segments == {p \in ToSet(kernel) : p.kind = "phdr" /\ p.load}

\* The linker puts mem_free_start behind the last segment.
mem_free_start == Max({p.paddr + p.memsz : p \in Segments} \union {0})

total_mem_size(cfg) == FoldLeft(LAMBDA n, r : (n + r.size) % UINT32, 0, cfg)

\* Mutant: all the memory is taken to lie behind the first megabyte.
Bad_mem_up1MB_free == total_mem_size(regions)

\* In 32 bits, down to a page's size.
mem_up1MB_free ==
  LET size == (total_mem_size(regions) - MEM_EXT_START) % UINT32
  IN  size - (size % MEM_PAGE_SIZE)

bitmap_byte_count(bits) == (bits + 7) \div 8

memory_init ==
  /\ place = "memory_init"
  /\ pages' = [start |-> MEM_EXT_START, size |-> mem_up1MB_free]
  /\ LET mem_free == mem_free_start + bitmap_byte_count(mem_up1MB_free \div MEM_PAGE_SIZE)
     IN  place' = IF mem_free < MEM_EBDA_START THEN "done" ELSE "died"
  /\ UNCHANGED <<map, ending, contID, calls, regions, kernel, memory, done>>

BootNext ==
  \/ detect_memory \/ detect_fails
  \/ read_disk \/ reload_elf_file \/ die \/ kernel_entry
  \/ memory_init

BootSpec == BootInit /\ [][BootNext]_bootVars

-----------------------------------------------------------------------------
(* Properties *)

\* A BIOS's list the loop gets through in one round.
FitsLoop == Len(map) <= BOOT_RAM_REGION_MAX /\ (ending = "zero" => ~Last(map).ignored)

\* Detection finds every range of usable memory once, in the BIOS's order, if the list
\* is not longer than the table and does not end with an ignored entry (the
\* `continue` in the loop of detect_memory skips the check for the end).
RegionsOnce ==
  place # "detect" /\ FitsLoop =>
    \E at \in [DOMAIN regions -> DOMAIN map] :
      /\ \A j, k \in DOMAIN regions : j < k => at[j] < at[k]
      /\ {at[j] : j \in DOMAIN regions} = {k \in DOMAIN map : Counted(map[k])}
      /\ \A j \in DOMAIN regions : regions[j] = [start |-> map[at[j]].start, size |-> map[at[j]].size]

\* No two usable ranges share a cell, and the one behind the first megabyte begins there.
OneUpperRange ==
  /\ \A j, k \in DOMAIN map : j # k /\ Counted(map[j]) /\ Counted(map[k]) =>
       (map[j].start .. map[j].start + map[j].size - 1)
         \intersect (map[k].start .. map[k].start + map[k].size - 1) = {}
  /\ \E e \in ToSet(map) :
       {e} = {f \in ToSet(map) : Counted(f) /\ f.start + f.size > MEM_EXT_START} /\ e.start = MEM_EXT_START

\* The allocator hands out memory that exists: memory_init computes its size from the
\* sum of all ranges, which is right only if those above 1 MB are one and the ranges
\* have 1 MB in all (with less, the subtraction wraps).
PagesAreRam ==
  place = "done" /\ FitsLoop /\ OneUpperRange /\ total_mem_size(regions) >= MEM_EXT_START =>
    \A a \in pages.start .. pages.start + pages.size - 1 :
      \E e \in ToSet(map) : Counted(e) /\ a \in e.start .. e.start + e.size - 1

\* When the kernel is entered, its segments are where it was linked, with what the file
\* holds and zeros behind that.
KernelAsLinked ==
  place = "memory_init" =>
    \A p \in Segments : \A j \in 0 .. p.memsz - 1 :
      memory[p.paddr + j] = IF j < p.filesz THEN kernel[p.offset + j + 1] ELSE Zero

=============================================================================

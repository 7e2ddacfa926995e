------------------------------- MODULE Loader -------------------------------
(***************************************************************************)
(* Loading a program: sys_execve, load_elf_file, load_phdr and copy_args   *)
(* of source/kernel/core/task.c over the file of source/kernel/fs/fs.c,    *)
(* for tasks inside sys_execve that preempt each other.                    *)
(*                                                                         *)
(* There is one file, whatever its name: sys_open copies the same sectors  *)
(* of the disk to one buffer, and one pointer, temp_pos, is the position   *)
(* of every reader.  The file is a sequence of records, numbered from 0:   *)
(* the header, the program headers, the pages of the segments.  A sector   *)
(* holds one record, sys_read reads one.                                   *)
(***************************************************************************)
EXTENDS Args

CONSTANTS
  Tasks,    \* tasks that call execve
  Volumes,  \* the files that may be on the disk
  ArgPages, \* MEM_TASK_ARG_SIZE / MEM_PAGE_SIZE
  ArgMax    \* bound: arguments of a call

Headers == [kind : {"header"}, ok : BOOLEAN, phnum : Nat]
ProgramHeaders == [kind : {"phdr"}, load : BOOLEAN, vaddr : Nat, offset : Nat, pages : Nat]
Records == Headers \union ProgramHeaders \union [kind : {"data"}, id : Nat]

ASSUME LoaderAssumption ==
  /\ Volumes \subseteq Seq(Records)
  /\ Strings \subseteq Seq(Nat) /\ ArgPages \in Nat /\ ArgMax \in Nat
  /\ ArgPages * MEM_PAGE_SIZE >= TaskArgsSize

VARIABLES
  volume,    \* the file on the disk
  disk,      \* the sector the disk delivers next, Sectors if none
  buffer,    \* the memory at TEMP_ADDR
  temp_pos,  \* the record temp_pos points to, -1 for the null pointer
  proc,      \* a task's place in sys_execve and its local variables
  image,     \* the pages loaded into the new directory: page number -> record
  program,   \* the pages of the program the task runs
  heap_start, \* task_t.heap_start, a page number
  memory     \* the physical pages for argument areas

vars == <<volume, disk, buffer, temp_pos, proc, image, program, heap_start, memory>>

Sectors == Len(volume)

Unknown == [kind |-> "unknown"]

NoPages == [p \in {} |-> Unknown]

NoHeader == [kind |-> "header", ok |-> FALSE, phnum |-> 0]

NoSegment == [kind |-> "phdr", load |-> FALSE, vaddr |-> 0, offset |-> 0, pages |-> 0]

\* Outside sys_execve.
User == [at |-> "user", filled |-> 0, header |-> NoHeader, i |-> 0,
         phdr |-> NoSegment, done |-> 0, area |-> <<>>, argv |-> <<>>, dest |-> 0]

LoaderInit ==
  /\ volume \in Volumes
  /\ disk = Sectors
  /\ buffer = [s \in 0 .. Sectors - 1 |-> Unknown]
  /\ temp_pos = -1
  /\ proc = [t \in Tasks |-> User]
  /\ image = [t \in Tasks |-> NoPages]
  /\ program = [t \in Tasks |-> NoPages]
  /\ heap_start = [t \in Tasks |-> 0]
  /\ memory = Blank

At(t, at) == proc[t].at = at

Go(t, at) == proc' = [proc EXCEPT ![t].at = at]

\* The record at temp_pos; behind the buffer there may be anything.
Current == IF temp_pos \in DOMAIN buffer THEN buffer[temp_pos] ELSE Unknown

\* sys_read is a copy, then the addition of len to temp_pos: this is the addition.
Advance(t, from, to) ==
  /\ At(t, from)
  /\ temp_pos' = temp_pos + 1
  /\ Go(t, to)
  /\ UNCHANGED <<volume, disk, buffer, image, program, heap_start, memory>>

-----------------------------------------------------------------------------
(* sys_open and read_disk *)

\* memory_create_uvm and the start of sys_open.  Only the first character of the
\* name counts: without a slash, execve fails with the program unchanged.
sys_open(t) ==
  /\ At(t, "user")
  /\ proc' = [proc EXCEPT ![t] = [User EXCEPT !.at = "command"]]
  /\ UNCHANGED <<volume, disk, buffer, temp_pos, image, program, heap_start, memory>>

\* The command is given to the disk.  A disk that still has sectors to deliver
\* may ignore it or start again.
disk_command(t) ==
  /\ At(t, "command")
  /\ disk' \in IF disk = Sectors THEN {0} ELSE {0, disk}
  /\ Go(t, "sectors")
  /\ UNCHANGED <<volume, buffer, temp_pos, image, program, heap_start, memory>>

\* Mutant: every sector is stored at the start of the buffer.
Bad_disk_sector(t) ==
  /\ At(t, "sectors") /\ proc[t].filled < Sectors
  /\ disk < Sectors
  /\ buffer' = [buffer EXCEPT ![0] = volume[disk + 1]]
  /\ disk' = disk + 1
  /\ proc' = [proc EXCEPT ![t].filled = @ + 1]
  /\ UNCHANGED <<volume, temp_pos, image, program, heap_start, memory>>

\* The loop of read_disk: wait until the disk has data, store a sector.
disk_sector(t) ==
  /\ At(t, "sectors") /\ proc[t].filled < Sectors
  /\ disk < Sectors
  /\ buffer' = [buffer EXCEPT ![proc[t].filled] = volume[disk + 1]]
  /\ disk' = disk + 1
  /\ proc' = [proc EXCEPT ![t].filled = @ + 1]
  /\ UNCHANGED <<volume, temp_pos, image, program, heap_start, memory>>

opened(t) ==
  /\ At(t, "sectors") /\ proc[t].filled = Sectors
  /\ temp_pos' = 0
  /\ Go(t, "header")
  /\ UNCHANGED <<volume, disk, buffer, image, program, heap_start, memory>>

-----------------------------------------------------------------------------
(* load_elf_file *)

\* The header is read and checked; bytes that are no header fail the checks.
read_header(t) ==
  /\ At(t, "header")
  /\ proc' = [proc EXCEPT ![t].at = "header_read",
                          ![t].header = IF Current.kind = "header" THEN Current ELSE NoHeader]
  /\ UNCHANGED <<volume, disk, buffer, temp_pos, image, program, heap_start, memory>>

header_read(t) == Advance(t, "header_read", "checks")

\* exec_failed: back to the old program.
check_fails(t) ==
  /\ At(t, "checks") /\ ~proc[t].header.ok
  /\ Go(t, "user")
  /\ image' = [image EXCEPT ![t] = NoPages]
  /\ UNCHANGED <<volume, disk, buffer, temp_pos, program, heap_start, memory>>

\* The loop over the program headers: sys_lseek to header i.
seek_phdr(t) ==
  /\ At(t, "checks") /\ proc[t].header.ok /\ proc[t].i < proc[t].header.phnum
  /\ temp_pos' = 1 + proc[t].i
  /\ Go(t, "phdr")
  /\ UNCHANGED <<volume, disk, buffer, image, program, heap_start, memory>>

\* Bytes that are no program header may well have another type than PT_LOAD.
read_phdr(t) ==
  /\ At(t, "phdr")
  /\ proc' = [proc EXCEPT ![t].at = "phdr_read",
                          ![t].phdr = IF Current.kind = "phdr" THEN Current ELSE NoSegment]
  /\ UNCHANGED <<volume, disk, buffer, temp_pos, image, program, heap_start, memory>>

phdr_read(t) == Advance(t, "phdr_read", "segment")

skip_phdr(t) ==
  /\ At(t, "segment") /\ ~proc[t].phdr.load
  /\ proc' = [proc EXCEPT ![t].at = "checks", ![t].i = @ + 1]
  /\ UNCHANGED <<volume, disk, buffer, temp_pos, image, program, heap_start, memory>>

-----------------------------------------------------------------------------
(* load_phdr *)

\* Mutant: the position is not set to the segment.
Bad_seek_segment(t) ==
  /\ At(t, "segment") /\ proc[t].phdr.load
  /\ proc' = [proc EXCEPT ![t].at = "pages", ![t].done = 0]
  /\ UNCHANGED <<volume, disk, buffer, temp_pos, image, program, heap_start, memory>>

\* The pages of the segment are allocated (Vm), then sys_lseek to its data.
seek_segment(t) ==
  /\ At(t, "segment") /\ proc[t].phdr.load
  /\ temp_pos' = proc[t].phdr.offset
  /\ proc' = [proc EXCEPT ![t].at = "pages", ![t].done = 0]
  /\ UNCHANGED <<volume, disk, buffer, image, program, heap_start, memory>>

read_page(t) ==
  /\ At(t, "pages") /\ proc[t].done < proc[t].phdr.pages
  /\ LET page == proc[t].phdr.vaddr + proc[t].done
     IN  image' = [image EXCEPT ![t] = [x \in DOMAIN @ \union {page} |->
                                         IF x = page THEN Current ELSE @[x]]]
  /\ proc' = [proc EXCEPT ![t].at = "page_read", ![t].done = @ + 1]
  /\ UNCHANGED <<volume, disk, buffer, temp_pos, program, heap_start, memory>>

page_read(t) == Advance(t, "page_read", "pages")

\* Mutant: the loop goes on with the same header.
Bad_segment_loaded(t) ==
  /\ At(t, "pages") /\ proc[t].done = proc[t].phdr.pages
  /\ proc' = [proc EXCEPT ![t].at = "checks"]
  /\ heap_start' = [heap_start EXCEPT ![t] = proc[t].phdr.vaddr + proc[t].phdr.pages]
  /\ UNCHANGED <<volume, disk, buffer, temp_pos, image, program, memory>>

\* Mutant: the heap starts at the beginning of the segment.
Bad_segment_loaded_heap(t) ==
  /\ At(t, "pages") /\ proc[t].done = proc[t].phdr.pages
  /\ proc' = [proc EXCEPT ![t].at = "checks", ![t].i = @ + 1]
  /\ heap_start' = [heap_start EXCEPT ![t] = proc[t].phdr.vaddr]
  /\ UNCHANGED <<volume, disk, buffer, temp_pos, image, program, memory>>

\* The heap starts at the end of the segment loaded last.
segment_loaded(t) ==
  /\ At(t, "pages") /\ proc[t].done = proc[t].phdr.pages
  /\ proc' = [proc EXCEPT ![t].at = "checks", ![t].i = @ + 1]
  /\ heap_start' = [heap_start EXCEPT ![t] = proc[t].phdr.vaddr + proc[t].phdr.pages]
  /\ UNCHANGED <<volume, disk, buffer, temp_pos, image, program, memory>>

-----------------------------------------------------------------------------
(* The rest of sys_execve: stack, arguments, switch *)

\* All headers are done: memory_alloc_for_page_dir maps the stack to pages no other
\* area has, in any order, and strings_count counts the caller's strings.
alloc_stack(t) ==
  /\ At(t, "checks") /\ proc[t].header.ok /\ proc[t].i = proc[t].header.phnum
  /\ \E area \in [1 .. ArgPages -> Pages \ UNION {ToSet(proc[u].area) : u \in Tasks}] :
       /\ IsInjective(area)
       /\ \E argv \in SeqOf(Strings, ArgMax) :
            proc' = [proc EXCEPT ![t] = [User EXCEPT !.at = "arguments", !.area = area,
                                           !.argv = argv, !.dest = FirstString(Len(argv))]]
  /\ UNCHANGED <<volume, disk, buffer, temp_pos, image, program, heap_start, memory>>

\* The loop of copy_args.  A string that does not fit fails an assertion.
copy_argument(t) ==
  LET i == proc[t].i
      string == proc[t].argv[i + 1]
      size == Len(string) + 1
  IN  /\ At(t, "arguments") /\ i < Len(proc[t].argv)
      /\ IF Mapped(proc[t].area, proc[t].dest, size)
         THEN /\ memory' = CopyArgument(memory, proc[t].area, i, proc[t].dest, string)
              /\ proc' = [proc EXCEPT ![t].i = i + 1, ![t].dest = @ + size]
         ELSE Go(t, "halted") /\ UNCHANGED memory
      /\ UNCHANGED <<volume, disk, buffer, temp_pos, image, program, heap_start>>

\* The end of copy_args.
copy_task_args(t) ==
  /\ At(t, "arguments") /\ proc[t].i = Len(proc[t].argv)
  /\ memory' = memory_copy_uvm_data(memory, proc[t].area, 0, TaskArgs(Len(proc[t].argv)))
  /\ Go(t, "copied")
  /\ UNCHANGED <<volume, disk, buffer, temp_pos, image, program, heap_start>>

\* sys_execve switches to the new directory; the area is the program's from now on.
switch_program(t) ==
  /\ At(t, "copied")
  /\ program' = [program EXCEPT ![t] = image[t]]
  /\ image' = [image EXCEPT ![t] = NoPages]
  /\ memory' = [a \in DOMAIN memory |->
                  IF a \div MEM_PAGE_SIZE \in ToSet(proc[t].area) THEN Junk ELSE memory[a]]
  /\ proc' = [proc EXCEPT ![t] = User]
  /\ UNCHANGED <<volume, disk, buffer, temp_pos, heap_start>>

read_disk(t) == disk_command(t) \/ disk_sector(t) \/ opened(t)

load_elf_file(t) ==
  \/ read_header(t) \/ header_read(t) \/ check_fails(t)
  \/ seek_phdr(t) \/ read_phdr(t) \/ phdr_read(t) \/ skip_phdr(t)

load_phdr(t) == seek_segment(t) \/ read_page(t) \/ page_read(t) \/ segment_loaded(t)

copy_args(t) == copy_argument(t) \/ copy_task_args(t)

Halted == \E t \in Tasks : At(t, "halted")

Continue(t) ==
  /\ ~Halted
  /\ \/ read_disk(t) \/ load_elf_file(t) \/ load_phdr(t)
     \/ alloc_stack(t) \/ copy_args(t) \/ switch_program(t)

LoaderNext ==
  \E t \in Tasks : (~Halted /\ sys_open(t)) \/ Continue(t)

\* The scheduler gives every task in a system call its turn (Task!ReadyRuns).
LoaderSpec == LoaderInit /\ [][LoaderNext]_vars /\ \A t \in Tasks : WF_vars(Continue(t))

-----------------------------------------------------------------------------
(* Properties *)

\* A file whose first record is a header; if the header passes the checks, the file has
\* the program headers it counts and the pages of the segments they name.
IsProgram(file) ==
  /\ file # <<>> /\ file[1].kind = "header"
  /\ file[1].ok =>
       /\ file[1].phnum < Len(file)
       /\ \A k \in 1 .. file[1].phnum :
            /\ file[k + 1].kind = "phdr"
            /\ file[k + 1].load => file[k + 1].offset + file[k + 1].pages <= Len(file)

\* The program headers up to header n that are to be loaded, and the pages of one.
Loadable(n) == {k \in 1 .. n : volume[k + 1].load}

PagesOf(k) == volume[k + 1].vaddr .. volume[k + 1].vaddr + volume[k + 1].pages - 1

\* The pages of the first n segments of the program on the disk; of segments that
\* overlap the last counts.
OnDisk(n) ==
  [p \in UNION {PagesOf(k) : k \in Loadable(n)} |->
    LET s == volume[1 + Max({k \in Loadable(n) : p \in PagesOf(k)})]
    IN  volume[s.offset + (p - s.vaddr) + 1]]

\* The end of the last of them.
EndOnDisk(n) ==
  LET s == volume[1 + Max(Loadable(n))] IN s.vaddr + s.pages

\* Whoever reads, reads from where it put the position: the header at 0, header i
\* behind it, the pages of a segment from its offset on ("adjust the current read
\* and write position", task.c), until the next sys_lseek or sys_open of its own.
PositionKept ==
  \A t \in Tasks :
    /\ At(t, "header") => temp_pos = 0
    /\ At(t, "phdr") => temp_pos = 1 + proc[t].i
    /\ At(t, "pages") => temp_pos = proc[t].phdr.offset + proc[t].done

\* When execve returns, the task runs the program on the disk, page by page, if
\* that is a program, and the one it ran before if not: never what another position
\* of the file or another task's half-read buffer held ("load the program headers
\* from it and copy the contents to the corresponding place", task.c).
ProgramOnDisk ==
  [][\A t \in Tasks : ~At(t, "user") /\ At(t, "user")' =>
       program'[t] = IF volume[1].ok THEN OnDisk(volume[1].phnum) ELSE program[t]]_vars

\* When a program has been loaded, the heap starts right behind its last segment.
HeapBehindProgram ==
  [][\A t \in Tasks : ~At(t, "user") /\ At(t, "user")' /\ volume[1].ok
                        /\ Loadable(volume[1].phnum) # {} =>
       heap_start[t] = EndOnDisk(volume[1].phnum)]_vars

\* When the arguments are copied, the area holds what main expects as argc and argv,
\* string by string across the borders of pages, and on the way no page outside of the
\* areas is written (copy_args), provided every table of pointers, which is filled
\* through one physical address, is in one piece.
ArgsArrive ==
  [][(\A t \in Tasks : TableInOnePiece(proc[t].area, Len(proc[t].argv))) =>
       /\ \A t \in Tasks : ~At(t, "copied") /\ At(t, "copied")' =>
            Finds(memory', proc[t].area, proc[t].argv)
       /\ \A a \in DOMAIN memory : memory'[a] # memory[a] =>
            \E t \in Tasks : a \div MEM_PAGE_SIZE \in ToSet(proc[t].area)]_vars

\* Every execve returns, or halts with arguments that do not fit: the disk delivers what
\* read_disk waits for, and the loops over headers, pages and arguments end.
ExecveReturns == \A t \in Tasks : ~At(t, "user") ~> (At(t, "user") \/ Halted)

=============================================================================

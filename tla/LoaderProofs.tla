---------------------------- MODULE LoaderProofs ----------------------------
(***************************************************************************)
(* Proofs about sys_execve: with one task in it, it reads the file from    *)
(* where it put the position, and the program it switches to is the one on *)
(* the disk; with any number of tasks, arguments are in the area main      *)
(* looks at.                                                               *)
(***************************************************************************)
EXTENDS Loader, Loops

Opening == {"command", "sectors"}
Reading == {"header", "header_read", "checks", "phdr", "phdr_read", "segment", "pages", "page_read"}
HeaderRead == Reading \ {"header"}
PhdrRead == {"phdr_read", "segment", "pages", "page_read"}
Paging == {"pages", "page_read"}
Places == {"user", "arguments", "copied", "halted"} \union Opening \union Reading

Calls == [at : Places, filled : Nat, header : Headers, i : Nat, phdr : ProgramHeaders,
          done : Nat, area : Seq(Pages), argv : Seq(Strings), dest : Nat]

\* The record at position n of the file; behind the file there may be anything.
InFile(n) == IF n \in 0 .. Sectors - 1 THEN volume[n + 1] ELSE Unknown

Images == [Tasks -> UNION {[D -> Records \union {Unknown}] : D \in SUBSET Int}]

LoaderTypeOK ==
  /\ volume \in Seq(Records)
  /\ disk \in 0 .. Sectors
  /\ buffer \in [0 .. Sectors - 1 -> Records \union {Unknown}]
  /\ temp_pos \in Int
  /\ proc \in [Tasks -> Calls]
  /\ image \in Images

\* The disk has delivered what was stored, and after the last sector the buffer is the file.
FileRead(t) ==
  /\ ~At(t, "sectors") => disk = Sectors
  /\ At(t, "command") => proc[t].filled = 0
  /\ At(t, "sectors") => /\ disk = proc[t].filled
                         /\ \A s \in 0 .. proc[t].filled - 1 : buffer[s] = volume[s + 1]
  /\ proc[t].at \in Reading => \A s \in 0 .. Sectors - 1 : buffer[s] = volume[s + 1]

\* The position, also between the two halves of a sys_read.
PositionOK(t) ==
  /\ At(t, "header") => temp_pos = 0
  /\ At(t, "phdr") => temp_pos = 1 + proc[t].i
  /\ At(t, "pages") => temp_pos = proc[t].phdr.offset + proc[t].done
  /\ At(t, "page_read") => temp_pos = (proc[t].phdr.offset + proc[t].done) - 1

\* The headers in the task's hands are those of the file, and the pages read so far
\* are those the program header names.
FromFile(t) ==
  /\ proc[t].at \in HeaderRead =>
       proc[t].header = IF InFile(0).kind = "header" THEN InFile(0) ELSE NoHeader
  /\ proc[t].at \in PhdrRead =>
       proc[t].phdr = IF InFile(1 + proc[t].i).kind = "phdr" THEN InFile(1 + proc[t].i) ELSE NoSegment
  /\ proc[t].at \in Paging =>
       \A k \in 0 .. proc[t].done - 1 :
         /\ proc[t].phdr.vaddr + k \in DOMAIN image[t]
         /\ image[t][proc[t].phdr.vaddr + k] = InFile(proc[t].phdr.offset + k)

LoaderInv(t) == LoaderTypeOK /\ FileRead(t) /\ PositionOK(t) /\ FromFile(t)

LEMMA UserIsCall == User \in Calls /\ NoHeader \in Headers /\ NoSegment \in ProgramHeaders
<1>1. <<>> \in Seq(Pages) /\ <<>> \in Seq(Strings)
  OBVIOUS
<1> QED
  BY <1>1 DEF User, Calls, Places, Opening, Reading, NoHeader, NoSegment, Headers, ProgramHeaders

LEMMA InitLoader ==
  ASSUME NEW t, Tasks = {t}, LoaderInit
  PROVE  LoaderInv(t)
<1>1. volume \in Seq(Records) /\ Sectors \in Nat
  BY LoaderAssumption DEF LoaderInit, Sectors
<1>2. LoaderTypeOK
  BY <1>1, UserIsCall DEF LoaderInit, LoaderTypeOK, Images, NoPages
<1>3. proc[t].at = "user" /\ disk = Sectors
  BY DEF LoaderInit, User
<1> QED
  BY <1>2, <1>3
  DEF LoaderInv, FileRead, PositionOK, FromFile, At, Reading, HeaderRead, PhdrRead, Paging

\* The steps that change nothing but the place in the call and the local variables.
LEMMA CurrentLemma ==
  ASSUME LoaderTypeOK
  PROVE  /\ Sectors \in Nat /\ Len(volume) = Sectors
         /\ Current \in Records \union {Unknown}
         /\ Current = IF temp_pos \in 0 .. Sectors - 1 THEN buffer[temp_pos] ELSE Unknown
         /\ Current.kind = "header" => Current \in Headers
         /\ Current.kind = "phdr" => Current \in ProgramHeaders
<1>1. Sectors \in Nat /\ Len(volume) = Sectors
  BY DEF LoaderTypeOK, Sectors
<1>2. Current = IF temp_pos \in 0 .. Sectors - 1 THEN buffer[temp_pos] ELSE Unknown
  BY DEF LoaderTypeOK, Current
<1>3. Current \in Records \union {Unknown}
  BY <1>2 DEF LoaderTypeOK
<1>4. /\ Current.kind = "header" => Current \in Headers
      /\ Current.kind = "phdr" => Current \in ProgramHeaders
  BY <1>3 DEF Records, Headers, ProgramHeaders, Unknown
<1> QED
  BY <1>1, <1>2, <1>3, <1>4

\* A task reads the record at its position.
LEMMA ReadsRecord ==
  ASSUME NEW t, Tasks = {t}, LoaderInv(t), proc[t].at \in Reading
  PROVE  Current = InFile(temp_pos)
<1>1. temp_pos \in Int /\ \A s \in 0 .. Sectors - 1 : buffer[s] = volume[s + 1]
  BY DEF LoaderInv, LoaderTypeOK, FileRead
<1> QED
  BY <1>1, CurrentLemma DEF LoaderInv, InFile

\* A task that moves on in its call.
LEMMA CallLemma ==
  ASSUME LoaderTypeOK, NEW t \in Tasks
  PROVE  /\ proc[t] \in Calls /\ proc[t].i + 1 \in Nat /\ proc[t].filled + 1 \in Nat
         /\ proc[t].done + 1 \in Nat
         /\ \A at \in Places : [proc[t] EXCEPT !.at = at] \in Calls
<1>1. proc[t] \in Calls /\ proc[t].i \in Nat /\ proc[t].filled \in Nat /\ proc[t].done \in Nat
  BY DEF LoaderTypeOK, Calls
<1>2. \A at \in Places : [proc[t] EXCEPT !.at = at] \in Calls
  BY <1>1 DEF Calls
<1> QED
  BY <1>1, <1>2

LEMMA OpenLoader ==
  ASSUME NEW t, Tasks = {t}, LoaderInv(t), sys_open(t) \/ disk_command(t) \/ opened(t)
  PROVE  LoaderInv(t)'
<1>1. CASE sys_open(t)
  <2>1. proc'[t] = [User EXCEPT !.at = "command"] /\ proc' \in [Tasks -> Calls]
    BY <1>1, UserIsCall DEF sys_open, LoaderInv, LoaderTypeOK, Calls, Places, Opening
  <2>2. proc'[t].at = "command" /\ proc'[t].filled = 0
    BY <2>1 DEF User
  <2> QED
    BY <1>1, <2>1, <2>2 DEF sys_open, LoaderInv, LoaderTypeOK, FileRead, PositionOK, FromFile, At, Sectors,
      Reading, HeaderRead, PhdrRead, Paging
<1>2. CASE disk_command(t)
  <2>1. proc'[t] = [proc[t] EXCEPT !.at = "sectors"] /\ proc' \in [Tasks -> Calls] /\ proc[t].at = "command"
    <3>1. proc' = [proc EXCEPT ![t] = [proc[t] EXCEPT !.at = "sectors"]] /\ proc[t].at = "command"
      BY <1>2 DEF disk_command, Go, At
    <3>2. proc \in [Tasks -> Calls] /\ t \in Tasks /\ LoaderTypeOK /\ "sectors" \in Places
      BY DEF LoaderInv, LoaderTypeOK, Places, Opening
    <3>3. [proc[t] EXCEPT !.at = "sectors"] \in Calls
      BY <3>2, CallLemma
    <3> QED
      BY <3>1, <3>2, <3>3
  <2>2. proc'[t].at = "sectors" /\ proc'[t].filled = 0 /\ disk' = 0
    BY <1>2, <2>1 DEF disk_command, LoaderInv, LoaderTypeOK, FileRead, At, Calls
  <2> QED
    BY <1>2, <2>1, <2>2, CurrentLemma DEF disk_command, LoaderInv, LoaderTypeOK, FileRead, PositionOK, FromFile, At, Sectors,
      Reading, HeaderRead, PhdrRead, Paging
<1>3. CASE opened(t)
  <2>1. proc'[t] = [proc[t] EXCEPT !.at = "header"] /\ proc' \in [Tasks -> Calls] /\ proc[t].at = "sectors"
    <3>1. proc' = [proc EXCEPT ![t] = [proc[t] EXCEPT !.at = "header"]] /\ proc[t].at = "sectors"
      BY <1>3 DEF opened, Go, At
    <3>2. proc \in [Tasks -> Calls] /\ t \in Tasks /\ LoaderTypeOK /\ "header" \in Places
      BY DEF LoaderInv, LoaderTypeOK, Places, Reading
    <3>3. [proc[t] EXCEPT !.at = "header"] \in Calls
      BY <3>2, CallLemma
    <3> QED
      BY <3>1, <3>2, <3>3
  <2>2. proc'[t].at = "header" /\ disk = Sectors /\ \A s \in 0 .. Sectors - 1 : buffer[s] = volume[s + 1]
    BY <1>3, <2>1 DEF opened, LoaderInv, LoaderTypeOK, FileRead, At, Calls
  <2> QED
    BY <1>3, <2>1, <2>2, CurrentLemma DEF opened, LoaderInv, LoaderTypeOK, FileRead, PositionOK, FromFile, At, Sectors,
      Reading, HeaderRead, PhdrRead, Paging
<1> QED
  BY <1>1, <1>2, <1>3

LEMMA SectorLoader ==
  ASSUME NEW t, Tasks = {t}, LoaderInv(t), disk_sector(t)
  PROVE  LoaderInv(t)'
<1> DEFINE n == proc[t].filled
<1>1. /\ proc' = [proc EXCEPT ![t] = [proc[t] EXCEPT !.filled = n + 1]]
      /\ proc[t].at = "sectors" /\ n < Sectors /\ disk < Sectors
      /\ buffer' = [buffer EXCEPT ![n] = volume[disk + 1]] /\ disk' = disk + 1
      /\ UNCHANGED <<volume, temp_pos, image>>
  BY DEF disk_sector, At
<1>2. n \in Nat /\ disk = n /\ Sectors \in Nat /\ Len(volume) = Sectors
      /\ (\A s \in 0 .. n - 1 : buffer[s] = volume[s + 1]) /\ proc[t] \in Calls
  BY <1>1, CurrentLemma DEF LoaderInv, FileRead, At, LoaderTypeOK, Calls
<1> HIDE DEF n
<1>3. /\ proc' \in [Tasks -> Calls] /\ proc'[t].at = "sectors" /\ proc'[t].filled = n + 1
  <2> DEFINE c == [proc[t] EXCEPT !.filled = n + 1]
  <2>1. n + 1 \in Nat /\ proc[t] \in Calls /\ proc[t].at = "sectors"
    BY <1>1, <1>2
  <2>2. c \in Calls /\ c.at = "sectors" /\ c.filled = n + 1
    BY <2>1 DEF Calls
  <2> HIDE DEF c
  <2>3. proc' = [proc EXCEPT ![t] = c]
    BY <1>1 DEF c
  <2> QED
    BY <2>2, <2>3 DEF LoaderInv, LoaderTypeOK
<1>4. volume[n + 1] \in Records /\ n \in 0 .. Sectors - 1
  BY <1>1, <1>2 DEF LoaderInv, LoaderTypeOK
<1>5. buffer' = [buffer EXCEPT ![n] = volume[n + 1]]
  BY <1>1, <1>2
<1>6. buffer' \in [0 .. Sectors - 1 -> Records \union {Unknown}]
  BY <1>4, <1>5 DEF LoaderInv, LoaderTypeOK
<1>7. ASSUME NEW s \in 0 .. n
      PROVE  buffer'[s] = volume[s + 1]
  <2>1. s \in 0 .. Sectors - 1 /\ (s = n \/ s \in 0 .. n - 1)
    BY <1>2, <1>4
  <2> QED
    BY <1>2, <1>5, <2>1 DEF LoaderInv, LoaderTypeOK
<1>8. Sectors' = Sectors /\ disk' = n + 1 /\ disk' \in 0 .. Sectors /\ (n + 1) - 1 = n
  BY <1>1, <1>2, <1>4 DEF Sectors
<1>9. LoaderTypeOK'
  BY <1>1, <1>3, <1>6, <1>8 DEF LoaderInv, LoaderTypeOK
<1>10. FileRead(t)'
  <2>1. \A s \in 0 .. proc'[t].filled - 1 : buffer'[s] = volume'[s + 1]
    BY <1>1, <1>3, <1>7, <1>8
  <2> QED
    BY <1>3, <1>8, <2>1 DEF FileRead, At, Reading
<1> QED
  BY <1>3, <1>9, <1>10
  DEF LoaderInv, PositionOK, FromFile, At, Reading, HeaderRead, PhdrRead, Paging

\* A step of load_elf_file or of what follows, after which the task's call is c.
Continues(t, c) ==
  /\ proc' = [proc EXCEPT ![t] = c] /\ c \in Calls
  /\ temp_pos' \in Int /\ image' \in Images
  /\ UNCHANGED <<volume, disk, buffer>>
  /\ proc[t].at \notin Opening /\ c.at \notin Opening
  /\ c.at \in Reading => proc[t].at \in Reading

\* Such a step leaves the buffer alone.
LEMMA ContinueLemma ==
  ASSUME NEW t, Tasks = {t}, LoaderInv(t), NEW c, Continues(t, c)
  PROVE  /\ LoaderTypeOK' /\ FileRead(t)' /\ proc'[t] = c
         /\ \A n : InFile(n)' = InFile(n)
<1>1. Sectors' = Sectors /\ volume' = volume
  BY DEF Continues, Sectors
<1>2. proc' \in [Tasks -> Calls] /\ proc'[t] = c
  BY DEF Continues, LoaderInv, LoaderTypeOK
<1>3. LoaderTypeOK'
  BY <1>1, <1>2 DEF Continues, LoaderInv, LoaderTypeOK
<1>4. disk = Sectors
        /\ (c.at \in Reading => \A s \in 0 .. Sectors - 1 : buffer[s] = volume[s + 1])
  BY DEF Continues, LoaderInv, FileRead, At, Opening
<1>5. FileRead(t)'
  BY <1>1, <1>2, <1>4 DEF Continues, FileRead, At, Opening
<1> QED
  BY <1>1, <1>2, <1>3, <1>5 DEF InFile

\* The second half of a sys_read.
LEMMA AdvanceLoader ==
  ASSUME NEW t, Tasks = {t}, LoaderInv(t), header_read(t) \/ phdr_read(t) \/ page_read(t)
  PROVE  LoaderInv(t)'
<1>1. PICK old \in {"header_read", "phdr_read", "page_read"},
           new \in {"checks", "segment", "pages"} :
        /\ old = "header_read" <=> new = "checks"
        /\ old = "phdr_read" <=> new = "segment"
        /\ Advance(t, old, new)
  BY DEF header_read, phdr_read, page_read
<1> DEFINE c == [proc[t] EXCEPT !.at = new]
<1>2. /\ proc' = [proc EXCEPT ![t] = c] /\ proc[t].at = old /\ temp_pos' = temp_pos + 1
      /\ temp_pos \in Int /\ proc[t] \in Calls
      /\ UNCHANGED <<volume, disk, buffer, image>> /\ image \in Images
  BY <1>1 DEF Advance, At, Go, LoaderInv, LoaderTypeOK
<1>3. /\ c \in Calls /\ c.at = new /\ c.header = proc[t].header
      /\ c.i = proc[t].i /\ c.phdr = proc[t].phdr /\ c.done = proc[t].done
  BY <1>2 DEF Calls, Places, Reading
<1> HIDE DEF c
<1>4. Continues(t, c)
  BY <1>2, <1>3 DEF Continues, Opening, Reading
<1>5. PositionOK(t)'
  <2>1. proc[t].phdr.offset \in Nat /\ proc[t].done \in Nat
    BY <1>2 DEF Calls, ProgramHeaders
  <2>2. new = "pages" => temp_pos + 1 = proc[t].phdr.offset + proc[t].done
    BY <1>1, <1>2, <2>1 DEF LoaderInv, PositionOK, At
  <2> QED
    BY <1>2, <1>3, <1>4, <2>2, ContinueLemma DEF PositionOK, At
<1>6. FromFile(t)'
  BY <1>1, <1>2, <1>3, <1>4, ContinueLemma
  DEF LoaderInv, FromFile, HeaderRead, Reading, PhdrRead, Paging
<1> QED
  BY <1>4, <1>5, <1>6, ContinueLemma DEF LoaderInv

\* Steps that read a header, a program header, or set the position.
LEMMA HeaderLoader ==
  ASSUME NEW t, Tasks = {t}, LoaderInv(t),
         read_header(t) \/ seek_phdr(t) \/ read_phdr(t) \/ skip_phdr(t) \/ seek_segment(t)
           \/ segment_loaded(t)
  PROVE  LoaderInv(t)'
<1>1. /\ proc \in [Tasks -> Calls] /\ proc[t] \in Calls /\ proc[t].i \in Nat /\ proc[t].i + 1 \in Nat
      /\ temp_pos \in Int /\ image \in Images /\ proc[t].phdr.offset \in Nat
  BY DEF LoaderInv, LoaderTypeOK, Calls, ProgramHeaders
<1>2. CASE read_header(t)
  <2> DEFINE h == IF Current.kind = "header" THEN Current ELSE NoHeader
             c == [proc[t] EXCEPT !.at = "header_read", !.header = h]
  <2>1. proc[t].at = "header" /\ proc' = [proc EXCEPT ![t] = c]
        /\ UNCHANGED <<volume, disk, buffer, temp_pos, image>>
    BY <1>2 DEF read_header, At
  <2>2. h \in Headers /\ Current = InFile(0)
    BY <2>1, CurrentLemma, UserIsCall, ReadsRecord DEF LoaderInv, PositionOK, At, Reading
  <2>3. c \in Calls /\ c.at = "header_read" /\ c.header = h
    BY <1>1, <2>2 DEF Calls, Places, Reading
  <2> HIDE DEF c
  <2>4. Continues(t, c)
    BY <1>1, <2>1, <2>3 DEF Continues, Opening, Reading
  <2> QED
    BY <2>2, <2>3, <2>4, ContinueLemma
    DEF LoaderInv, PositionOK, FromFile, At, HeaderRead, PhdrRead, Paging
<1>3. CASE seek_phdr(t)
  <2> DEFINE c == [proc[t] EXCEPT !.at = "phdr"]
  <2>1. proc[t].at = "checks" /\ proc' = [proc EXCEPT ![t] = c] /\ temp_pos' = 1 + proc[t].i
        /\ UNCHANGED <<volume, disk, buffer, image>>
    BY <1>3 DEF seek_phdr, At, Go
  <2>2. c \in Calls /\ c.at = "phdr" /\ c.header = proc[t].header /\ c.i = proc[t].i
    BY <1>1 DEF Calls, Places, Reading
  <2> HIDE DEF c
  <2>3. Continues(t, c)
    BY <1>1, <2>1, <2>2 DEF Continues, Opening, Reading
  <2> QED
    BY <2>1, <2>2, <2>3, ContinueLemma
    DEF LoaderInv, PositionOK, FromFile, At, HeaderRead, Reading, PhdrRead, Paging
<1>4. CASE read_phdr(t)
  <2> DEFINE h == IF Current.kind = "phdr" THEN Current ELSE NoSegment
             c == [proc[t] EXCEPT !.at = "phdr_read", !.phdr = h]
  <2>1. proc[t].at = "phdr" /\ proc' = [proc EXCEPT ![t] = c]
        /\ UNCHANGED <<volume, disk, buffer, temp_pos, image>>
    BY <1>4 DEF read_phdr, At
  <2>2. h \in ProgramHeaders /\ Current = InFile(1 + proc[t].i)
    BY <2>1, CurrentLemma, UserIsCall, ReadsRecord DEF LoaderInv, PositionOK, At, Reading
  <2>3. c \in Calls /\ c.at = "phdr_read" /\ c.phdr = h /\ c.header = proc[t].header /\ c.i = proc[t].i
    BY <1>1, <2>2 DEF Calls, Places, Reading
  <2> HIDE DEF c
  <2>4. Continues(t, c)
    BY <1>1, <2>1, <2>3 DEF Continues, Opening, Reading
  <2> QED
    BY <2>1, <2>2, <2>3, <2>4, ContinueLemma
    DEF LoaderInv, PositionOK, FromFile, At, HeaderRead, Reading, PhdrRead, Paging
<1>5. CASE skip_phdr(t) \/ segment_loaded(t)
  <2> DEFINE c == [proc[t] EXCEPT !.at = "checks", !.i = proc[t].i + 1]
  <2>1. proc[t].at \in {"segment", "pages"} /\ proc' = [proc EXCEPT ![t] = c]
        /\ UNCHANGED <<volume, disk, buffer, temp_pos, image>>
    BY <1>5 DEF skip_phdr, segment_loaded, At
  <2>2. c \in Calls /\ c.at = "checks" /\ c.header = proc[t].header
    BY <1>1 DEF Calls, Places, Reading
  <2> HIDE DEF c
  <2>3. Continues(t, c)
    BY <1>1, <2>1, <2>2 DEF Continues, Opening, Reading
  <2> QED
    BY <2>1, <2>2, <2>3, ContinueLemma
    DEF LoaderInv, PositionOK, FromFile, At, HeaderRead, Reading, PhdrRead, Paging
<1>6. CASE seek_segment(t)
  <2> DEFINE c == [proc[t] EXCEPT !.at = "pages", !.done = 0]
  <2>1. proc[t].at = "segment" /\ proc' = [proc EXCEPT ![t] = c] /\ temp_pos' = proc[t].phdr.offset
        /\ UNCHANGED <<volume, disk, buffer, image>>
    BY <1>6 DEF seek_segment, At
  <2>2. c \in Calls /\ c.at = "pages" /\ c.header = proc[t].header /\ c.i = proc[t].i
        /\ c.phdr = proc[t].phdr /\ c.done = 0
    BY <1>1 DEF Calls, Places, Reading
  <2> HIDE DEF c
  <2>3. Continues(t, c)
    BY <1>1, <2>1, <2>2 DEF Continues, Opening, Reading
  <2>4. PositionOK(t)'
    BY <1>1, <2>1, <2>2, <2>3, ContinueLemma DEF PositionOK, At
  <2> QED
    BY <2>1, <2>2, <2>3, <2>4, ContinueLemma
    DEF LoaderInv, FromFile, HeaderRead, Reading, PhdrRead, Paging
<1> QED
  BY <1>2, <1>3, <1>4, <1>5, <1>6

\* A page of the segment is read to its place.
LEMMA PageLoader ==
  ASSUME NEW t, Tasks = {t}, LoaderInv(t), read_page(t)
  PROVE  LoaderInv(t)'
<1> DEFINE v == proc[t].phdr.vaddr
           n == proc[t].done
           c == [proc[t] EXCEPT !.at = "page_read", !.done = n + 1]
           pages == [x \in DOMAIN image[t] \union {v + n} |->
                      IF x = v + n THEN Current ELSE image[t][x]]
<1>1. /\ proc[t].at = "pages" /\ proc' = [proc EXCEPT ![t] = c]
      /\ image' = [image EXCEPT ![t] = pages]
      /\ UNCHANGED <<volume, disk, buffer, temp_pos>>
  BY DEF read_page, At
<1>2. /\ proc[t] \in Calls /\ v \in Nat /\ n \in Nat /\ proc[t].phdr.offset \in Nat
      /\ temp_pos \in Int /\ image \in Images
      /\ temp_pos = proc[t].phdr.offset + n
  BY <1>1 DEF LoaderInv, LoaderTypeOK, Calls, ProgramHeaders, PositionOK, At
<1>3. Current = InFile(proc[t].phdr.offset + n) /\ Current \in Records \union {Unknown}
  BY <1>1, <1>2, ReadsRecord, CurrentLemma DEF LoaderInv, Reading
<1>4. /\ DOMAIN pages = DOMAIN image[t] \union {v + n}
      /\ pages[v + n] = Current
      /\ \A x \in DOMAIN image[t] : x # v + n => pages[x] = image[t][x]
      /\ pages \in [DOMAIN image[t] \union {v + n} -> Records \union {Unknown}]
  <2>1. image[t] \in [DOMAIN image[t] -> Records \union {Unknown}]
    BY <1>2 DEF Images
  <2> HIDE DEF v, n
  <2> QED
    BY <1>3, <2>1
<1>5. c \in Calls /\ c.at = "page_read" /\ c.header = proc[t].header /\ c.i = proc[t].i
      /\ c.phdr = proc[t].phdr /\ c.done = n + 1
  <2>1. n + 1 \in Nat
    BY <1>2
  <2> HIDE DEF n
  <2> QED
    BY <1>2, <2>1 DEF Calls, Places, Reading
<1> HIDE DEF c, pages, v, n
<1>6. image' \in Images /\ image'[t] = pages
  <2>1. DOMAIN image[t] \in SUBSET Int
    BY <1>2 DEF Images
  <2>2. DOMAIN image[t] \union {v + n} \in SUBSET Int
    BY <1>2, <2>1
  <2>3. pages \in UNION {[D -> Records \union {Unknown}] : D \in SUBSET Int}
    BY <1>4, <2>2
  <2> QED
    BY <1>1, <1>2, <2>3 DEF Images
<1>7. Continues(t, c)
  BY <1>1, <1>2, <1>5, <1>6 DEF Continues, Opening, Reading
<1>8. PositionOK(t)'
  <2>1. temp_pos = (proc[t].phdr.offset + (n + 1)) - 1
    BY <1>2
  <2> QED
    BY <1>1, <1>5, <1>7, <2>1, ContinueLemma DEF PositionOK, At
<1>9. ASSUME NEW k \in 0 .. n
      PROVE  v + k \in DOMAIN pages /\ pages[v + k] = InFile(proc[t].phdr.offset + k)
  <2>1. CASE k = n
    BY <1>3, <1>4, <2>1
  <2>2. CASE k # n
    <3>1. k \in 0 .. n - 1 /\ v + k # v + n
      BY <1>2, <1>9, <2>2
    <3>2. v + k \in DOMAIN image[t] /\ image[t][v + k] = InFile(proc[t].phdr.offset + k)
      BY <1>1, <3>1 DEF LoaderInv, FromFile, Paging, v, n
    <3> QED
      BY <1>4, <3>1, <3>2
  <2> QED
    BY <2>1, <2>2
<1>10. FromFile(t)'
  <2>1. \A k \in 0 .. c.done - 1 :
          c.phdr.vaddr + k \in DOMAIN image'[t] /\ image'[t][c.phdr.vaddr + k] = InFile(c.phdr.offset + k)
    <3>1. c.done - 1 = n /\ c.phdr.vaddr = v
      BY <1>2, <1>5 DEF v
    <3> QED
      BY <1>5, <1>6, <1>9, <3>1
  <2> QED
    BY <1>1, <1>5, <1>7, <2>1, ContinueLemma
    DEF LoaderInv, FromFile, HeaderRead, Reading, PhdrRead, Paging
<1> QED
  BY <1>7, <1>8, <1>10, ContinueLemma DEF LoaderInv

\* The steps before and behind the reading of the file.
LEMMA LeaveLoader ==
  ASSUME NEW t, Tasks = {t}, LoaderInv(t),
         check_fails(t) \/ alloc_stack(t) \/ copy_args(t) \/ switch_program(t)
  PROVE  LoaderInv(t)'
<1>1. /\ proc \in [Tasks -> Calls] /\ proc[t] \in Calls /\ temp_pos \in Int /\ image \in Images
      /\ NoPages \in UNION {[D -> Records \union {Unknown}] : D \in SUBSET Int}
  <2>1. NoPages \in [{} -> Records \union {Unknown}] /\ {} \in SUBSET Int
    BY DEF NoPages
  <2>2. NoPages \in UNION {[D -> Records \union {Unknown}] : D \in SUBSET Int}
    BY <2>1
  <2> QED
    BY <2>2 DEF LoaderInv, LoaderTypeOK
<1>2. ASSUME NEW c, Continues(t, c), c.at \notin Reading
      PROVE  LoaderInv(t)'
  <2>1. LoaderTypeOK' /\ FileRead(t)' /\ proc'[t] = c
    BY <1>2, ContinueLemma
  <2> QED
    BY <1>2, <2>1
    DEF LoaderInv, PositionOK, FromFile, At, HeaderRead, Reading, PhdrRead, Paging
<1> SUFFICES \E c : Continues(t, c) /\ c.at \notin Reading
  BY <1>2
<1>3. CASE check_fails(t)
  <2> DEFINE c == [proc[t] EXCEPT !.at = "user"]
  <2>1. proc[t].at = "checks" /\ proc' = [proc EXCEPT ![t] = c] /\ image' \in Images
        /\ UNCHANGED <<volume, disk, buffer, temp_pos>>
    BY <1>1, <1>3 DEF check_fails, At, Go, Images
  <2>2. c \in Calls /\ c.at = "user"
    BY <1>1 DEF Calls, Places
  <2> QED
    BY <1>1, <2>1, <2>2 DEF Continues, Opening, Reading
<1>4. CASE alloc_stack(t)
  <2>1. PICK area \in [1 .. ArgPages -> Pages], argv \in SeqOf(Strings, ArgMax) :
          proc' = [proc EXCEPT ![t] = [User EXCEPT !.at = "arguments", !.area = area,
                                         !.argv = argv, !.dest = FirstString(Len(argv))]]
    BY <1>4 DEF alloc_stack
  <2> DEFINE c == [User EXCEPT !.at = "arguments", !.area = area, !.argv = argv,
                               !.dest = FirstString(Len(argv))]
  <2>2. proc[t].at = "checks" /\ UNCHANGED <<volume, disk, buffer, temp_pos, image>>
    BY <1>4 DEF alloc_stack, At
  <2>3. area \in Seq(Pages) /\ argv \in Seq(Strings) /\ FirstString(Len(argv)) \in Nat
    BY LoaderAssumption DEF SeqOf, FirstString, TaskArgsSize
  <2>4. c \in Calls /\ c.at = "arguments"
    BY <2>3, UserIsCall DEF Calls, Places
  <2> QED
    BY <1>1, <2>1, <2>2, <2>4 DEF Continues, Opening, Reading
<1>5. CASE copy_args(t)
  <2>1. /\ proc[t].at = "arguments" /\ UNCHANGED <<volume, disk, buffer, temp_pos, image>>
    BY <1>5 DEF copy_args, copy_argument, copy_task_args, At
  <2>2. \E c \in Calls : proc' = [proc EXCEPT ![t] = c] /\ c.at \in {"arguments", "halted", "copied"}
    <3> DEFINE size == Len(proc[t].argv[proc[t].i + 1]) + 1
               c == [proc[t] EXCEPT !.i = proc[t].i + 1, !.dest = proc[t].dest + size]
               stopped == [proc[t] EXCEPT !.at = "halted"]
               done == [proc[t] EXCEPT !.at = "copied"]
    <3>1. stopped \in Calls /\ done \in Calls /\ stopped.at = "halted" /\ done.at = "copied"
      BY <1>1 DEF Calls, Places
    <3>2. CASE copy_argument(t)
      <4>1. proc[t].i \in Nat /\ proc[t].i < Len(proc[t].argv) /\ proc[t].argv \in Seq(Strings)
            /\ proc[t].dest \in Nat
        BY <1>1, <3>2 DEF copy_argument, Calls
      <4>2. proc[t].argv[proc[t].i + 1] \in Seq(Nat)
        BY <4>1, LoaderAssumption
      <4>a. size \in Nat
        BY <4>2
      <4> HIDE DEF size
      <4>3. proc[t].i + 1 \in Nat /\ proc[t].dest + size \in Nat
        BY <4>1, <4>a
      <4>4. c \in Calls /\ c.at = "arguments"
        BY <1>1, <2>1, <4>3 DEF Calls
      <4>5. proc' = [proc EXCEPT ![t] = c] \/ proc' = [proc EXCEPT ![t] = stopped]
        BY <3>2 DEF copy_argument, Go, size
      <4> QED
        BY <3>1, <4>4, <4>5
    <3>3. CASE copy_task_args(t)
      <4>1. proc' = [proc EXCEPT ![t] = done]
        BY <3>3 DEF copy_task_args, Go
      <4> QED
        BY <3>1, <4>1
    <3> QED
      BY <1>5, <3>2, <3>3 DEF copy_args
  <2> QED
    BY <1>1, <2>1, <2>2 DEF Continues, Opening, Reading
<1>6. CASE switch_program(t)
  <2>1. proc[t].at = "copied" /\ proc' = [proc EXCEPT ![t] = User] /\ image' \in Images
        /\ UNCHANGED <<volume, disk, buffer, temp_pos>>
    BY <1>1, <1>6 DEF switch_program, At, Images
  <2>2. User.at = "user"
    BY DEF User
  <2> QED
    BY <1>1, <2>1, <2>2, UserIsCall DEF Continues, Opening, Reading
<1> QED
  BY <1>3, <1>4, <1>5, <1>6

LEMMA NextLoader ==
  ASSUME NEW t, Tasks = {t}, LoaderInv(t), [LoaderNext]_vars
  PROVE  LoaderInv(t)'
<1>1. CASE UNCHANGED vars
  BY <1>1 DEF vars, LoaderInv, LoaderTypeOK, FileRead, PositionOK, FromFile, InFile, Sectors, At
<1>2. CASE LoaderNext
  <2>1. sys_open(t) \/ Continue(t)
    BY <1>2 DEF LoaderNext
  <2>2. \/ sys_open(t) \/ disk_command(t) \/ opened(t)
        \/ disk_sector(t)
        \/ header_read(t) \/ phdr_read(t) \/ page_read(t)
        \/ read_header(t) \/ seek_phdr(t) \/ read_phdr(t) \/ skip_phdr(t) \/ seek_segment(t)
        \/ segment_loaded(t)
        \/ read_page(t)
        \/ check_fails(t) \/ alloc_stack(t) \/ copy_args(t) \/ switch_program(t)
    BY <2>1 DEF Continue, read_disk, load_elf_file, load_phdr
  <2> QED
    BY <2>2, OpenLoader, SectorLoader, AdvanceLoader, HeaderLoader, PageLoader, LeaveLoader
<1> QED
  BY <1>1, <1>2

\* The inductive invariant of a task alone in sys_execve.
THEOREM LoaderInvariant ==
  ASSUME NEW t, Tasks = {t}
  PROVE  LoaderSpec => []LoaderInv(t)
<1>1. LoaderInit => LoaderInv(t)
  BY InitLoader
<1>2. LoaderInv(t) /\ [LoaderNext]_vars => LoaderInv(t)'
  BY NextLoader
<1> QED
  BY <1>1, <1>2, PTL DEF LoaderSpec

\* The position is always where the reader put it with sys_open or sys_lseek, advanced
\* by what it has read since, if only one task is in sys_execve.
THEOREM OneReaderKeepsPosition ==
  ASSUME NEW t, Tasks = {t}
  PROVE  LoaderSpec => []PositionKept
<1>1. LoaderInv(t) => PositionKept
  BY DEF LoaderInv, PositionOK, PositionKept, At
<1> QED
  BY <1>1, LoaderInvariant, PTL

\* Every page in the new directory, while a segment is being read, holds the record of
\* the file on the disk that the segment's header names, and that header is the one of
\* the file whose turn it is, whatever file that is.
PagesOnDisk(t) ==
  proc[t].at \in Paging =>
    /\ proc[t].phdr \in {InFile(1 + proc[t].i), NoSegment}
    /\ \A k \in 0 .. proc[t].done - 1 :
         image[t][proc[t].phdr.vaddr + k] = InFile(proc[t].phdr.offset + k)

\* So load_phdr loads from the disk what a program header of the file names.
THEOREM SegmentsComeFromDisk ==
  ASSUME NEW t, Tasks = {t}
  PROVE  LoaderSpec => []PagesOnDisk(t)
<1>1. LoaderInv(t) => PagesOnDisk(t)
  BY DEF LoaderInv, FromFile, PagesOnDisk, PhdrRead, Paging
<1> QED
  BY <1>1, LoaderInvariant, PTL

-----------------------------------------------------------------------------
(* The whole program *)

Before == {"user", "command", "sectors", "header", "header_read"}
AtHeader == {"phdr", "phdr_read", "segment"}

\* The program's pages after n program headers and d pages of the next segment.
Partly(n, d) ==
  LET s == volume[n + 2]
      new == s.vaddr .. s.vaddr + d - 1
  IN  [p \in DOMAIN OnDisk(n) \union new |->
        IF p \in new THEN volume[s.offset + (p - s.vaddr) + 1] ELSE OnDisk(n)[p]]

LoadedTo(t, n) ==
  /\ image[t] = OnDisk(n)
  /\ Loadable(n) # {} => heap_start[t] = EndOnDisk(n)

\* The directory under construction holds what has been loaded of the program so far.
ProgramInv(t) ==
  /\ IsProgram(volume) /\ program \in Images /\ heap_start \in [Tasks -> Int]
  /\ proc[t].at \in Before => image[t] = NoPages
  /\ proc[t].at \in Before \ {"user"} => proc[t].i = 0
  /\ proc[t].at \in {"checks"} \union AtHeader =>
       LoadedTo(t, proc[t].i) /\ (volume[1].ok => proc[t].i <= volume[1].phnum)
  /\ proc[t].at \in AtHeader \union Paging => volume[1].ok /\ proc[t].i < volume[1].phnum
  /\ proc[t].at \in Paging => /\ proc[t].phdr.load /\ proc[t].done <= proc[t].phdr.pages
                              /\ image[t] = Partly(proc[t].i, proc[t].done)
  /\ proc[t].at \in {"arguments", "copied"} => volume[1].ok /\ LoadedTo(t, volume[1].phnum)

\* What a program's records are.
LEMMA ProgramLemma ==
  ASSUME volume \in Seq(Records), IsProgram(volume)
  PROVE  /\ Len(volume) \in Nat /\ Len(volume) > 0
         /\ volume[1].phnum \in Nat /\ volume[1].ok \in BOOLEAN /\ volume[1].kind = "header"
         /\ volume[1].ok =>
              /\ volume[1].phnum < Len(volume)
              /\ \A k \in 1 .. volume[1].phnum :
                   /\ volume[k + 1] \in ProgramHeaders
                   /\ volume[k + 1].load => volume[k + 1].offset + volume[k + 1].pages <= Len(volume)
<1>1. Len(volume) \in Nat /\ Len(volume) > 0
  BY DEF IsProgram
<1>2. \A k \in 1 .. Len(volume) : volume[k] \in Records
  OBVIOUS
<1>3. volume[1] \in Headers
  <2>1. volume[1] \in Records /\ volume[1].kind = "header"
    BY <1>1, <1>2 DEF IsProgram
  <2> QED
    BY <2>1 DEF Records, Headers, ProgramHeaders
<1>4. volume[1].phnum \in Nat /\ volume[1].ok \in BOOLEAN /\ volume[1].kind = "header"
  BY <1>3 DEF Headers
<1>5. ASSUME volume[1].ok, NEW k \in 1 .. volume[1].phnum
      PROVE  /\ volume[k + 1] \in ProgramHeaders
             /\ volume[k + 1].load => volume[k + 1].offset + volume[k + 1].pages <= Len(volume)
  <2>1. volume[1].phnum < Len(volume) /\ volume[k + 1].kind = "phdr"
    BY <1>5 DEF IsProgram
  <2>2. volume[k + 1] \in Records
    BY <1>1, <1>2, <1>4, <2>1
  <2> QED
    BY <1>5, <2>1, <2>2 DEF IsProgram, Records, Headers, ProgramHeaders
<1> QED
  BY <1>1, <1>4, <1>5 DEF IsProgram

LEMMA NothingLoaded == OnDisk(0) = NoPages /\ Loadable(0) = {}
<1>1. Loadable(0) = {}
  BY DEF Loadable
<1>2. DOMAIN OnDisk(0) = {}
  BY <1>1 DEF OnDisk
<1> QED
  BY <1>1, <1>2 DEF OnDisk, NoPages

\* One header more.
LEMMA HeaderSkipped ==
  ASSUME NEW n \in Nat, ~volume[n + 2].load
  PROVE  OnDisk(n + 1) = OnDisk(n) /\ Loadable(n + 1) = Loadable(n) /\ EndOnDisk(n + 1) = EndOnDisk(n)
<1>1. n + 1 + 1 = n + 2
  OBVIOUS
<1>2. Loadable(n + 1) = Loadable(n)
  BY <1>1 DEF Loadable
<1> QED
  BY <1>2 DEF OnDisk, EndOnDisk

LEMMA HeaderLoaded ==
  ASSUME NEW n \in Nat, volume[n + 2].load
  PROVE  /\ OnDisk(n + 1) = Partly(n, volume[n + 2].pages)
         /\ EndOnDisk(n + 1) = volume[n + 2].vaddr + volume[n + 2].pages
<1> DEFINE L == Loadable(n)
           M == Loadable(n + 1)
           new == PagesOf(n + 1)
           s == volume[n + 2]
<1>1. n + 1 + 1 = n + 2 /\ 1 + (n + 1) = n + 2 /\ n + 1 \in Nat
  OBVIOUS
<1>2. M = L \union {n + 1} /\ L \subseteq 1 .. n
  BY <1>1 DEF Loadable
<1>3. \A x \in SUBSET (1 .. n + 1) : n + 1 \in x => Max(x) = n + 1
  BY <1>1, MaxLemma
<1>4. M \in SUBSET (1 .. n + 1) /\ n + 1 \in M
  BY <1>2
<1>5. EndOnDisk(n + 1) = s.vaddr + s.pages
  <2>1. Max(M) = n + 1
    BY <1>3, <1>4
  <2> QED
    BY <1>1, <2>1 DEF EndOnDisk
<1>6. new = s.vaddr .. s.vaddr + s.pages - 1
  BY <1>1 DEF PagesOf
<1>7. DOMAIN OnDisk(n) = UNION {PagesOf(k) : k \in L}
  BY DEF OnDisk
<1>8. DOMAIN OnDisk(n + 1) = UNION {PagesOf(k) : k \in M}
  BY DEF OnDisk
<1>9. DOMAIN OnDisk(n + 1) = DOMAIN OnDisk(n) \union new
  <2> HIDE DEF L, M
  <2> QED
    BY <1>2, <1>7, <1>8
<1>10. ASSUME NEW p \in DOMAIN OnDisk(n + 1)
       PROVE  OnDisk(n + 1)[p] = IF p \in new THEN volume[s.offset + (p - s.vaddr) + 1] ELSE OnDisk(n)[p]
  <2> DEFINE C == {k \in M : p \in PagesOf(k)}
  <2>1. OnDisk(n + 1)[p] = LET r == volume[1 + Max(C)] IN volume[r.offset + (p - r.vaddr) + 1]
    BY <1>8, <1>10 DEF OnDisk
  <2>2. CASE p \in new
    <3>1. C \in SUBSET (1 .. n + 1) /\ n + 1 \in C
      BY <1>4, <2>2
    <3> HIDE DEF C
    <3>2. Max(C) = n + 1
      BY <1>3, <3>1
    <3> QED
      BY <1>1, <2>1, <2>2, <3>2
  <2>3. CASE p \notin new
    <3>1. C = {k \in L : p \in PagesOf(k)}
      BY <1>2, <2>3
    <3>2. p \in DOMAIN OnDisk(n)
      BY <1>9, <2>3
    <3>3. OnDisk(n)[p] = LET r == volume[1 + Max(C)] IN volume[r.offset + (p - r.vaddr) + 1]
      BY <3>1, <3>2, <1>7 DEF OnDisk
    <3> QED
      BY <2>1, <2>3, <3>3
  <2> QED
    BY <2>2, <2>3
<1>11. OnDisk(n + 1) = [p \in DOMAIN OnDisk(n + 1) |-> OnDisk(n + 1)[p]]
  BY DEF OnDisk
<1>12. OnDisk(n + 1) = Partly(n, s.pages)
  <2>1. Partly(n, s.pages) = [p \in DOMAIN OnDisk(n) \union new |->
          IF p \in new THEN volume[s.offset + (p - s.vaddr) + 1] ELSE OnDisk(n)[p]]
    BY <1>6 DEF Partly
  <2> HIDE DEF new, s
  <2> QED
    BY <1>9, <1>10, <1>11, <2>1
<1> QED
  BY <1>5, <1>12

LEMMA NoPagesYet ==
  ASSUME NEW n \in Nat, volume[n + 2].vaddr \in Nat
  PROVE  Partly(n, 0) = OnDisk(n)
<1> DEFINE s == volume[n + 2]
<1>1. s.vaddr .. s.vaddr + 0 - 1 = {}
  OBVIOUS
<1>2. OnDisk(n) = [p \in DOMAIN OnDisk(n) |-> OnDisk(n)[p]]
  BY DEF OnDisk
<1> QED
  BY <1>1, <1>2 DEF Partly

\* One page more.
LEMMA PageLoaded ==
  ASSUME NEW n \in Nat, NEW d \in Nat, volume[n + 2].vaddr \in Nat, NEW page,
         page = volume[n + 2].vaddr + d
  PROVE  Partly(n, d + 1)
           = [x \in DOMAIN Partly(n, d) \union {page} |->
               IF x = page THEN volume[volume[n + 2].offset + d + 1] ELSE Partly(n, d)[x]]
<1> DEFINE v == volume[n + 2].vaddr
           o == volume[n + 2].offset
           old == v .. v + d - 1
           new == v .. v + (d + 1) - 1
           D == DOMAIN OnDisk(n)
<1>1. Partly(n, d) = [p \in D \union old |-> IF p \in old THEN volume[o + (p - v) + 1] ELSE OnDisk(n)[p]]
  BY DEF Partly
<1>2. Partly(n, d + 1) = [p \in D \union new |-> IF p \in new THEN volume[o + (p - v) + 1] ELSE OnDisk(n)[p]]
  BY DEF Partly
<1>3. new = old \union {page} /\ page \notin old /\ page - v = d
  OBVIOUS
<1> HIDE DEF v, o, old, new, D
<1> DEFINE F == Partly(n, d)
           G == [x \in DOMAIN F \union {page} |-> IF x = page THEN volume[o + d + 1] ELSE F[x]]
<1>4. DOMAIN F = D \union old /\ DOMAIN G = D \union new
  BY <1>1, <1>3
<1>5. ASSUME NEW x \in D \union new
      PROVE  G[x] = IF x \in new THEN volume[o + (x - v) + 1] ELSE OnDisk(n)[x]
  <2>1. CASE x = page
    BY <1>3, <1>4, <1>5, <2>1
  <2>2. CASE x # page
    <3>1. x \in D \union old /\ (x \in new <=> x \in old)
      BY <1>3, <1>5, <2>2
    <3>2. F[x] = IF x \in old THEN volume[o + (x - v) + 1] ELSE OnDisk(n)[x]
      BY <1>1, <3>1
    <3>3. G[x] = F[x]
      BY <1>4, <1>5, <2>2
    <3> QED
      BY <3>1, <3>2, <3>3
  <2> QED
    BY <2>1, <2>2
<1>6. G = [x \in D \union new |-> G[x]]
  BY <1>4
<1>7. G = Partly(n, d + 1)
  <2> HIDE DEF G
  <2> QED
    BY <1>2, <1>5, <1>6
<1> QED
  BY <1>7 DEF v, o

\* The headers a task holds are those of the program.
LEMMA HeadersHeld ==
  ASSUME NEW t, Tasks = {t}, LoaderInv(t), ProgramInv(t)
  PROVE  /\ volume \in Seq(Records) /\ proc \in [Tasks -> Calls] /\ proc[t] \in Calls
         /\ proc[t].i \in Nat /\ proc[t].done \in Nat
         /\ proc[t].at \in HeaderRead => proc[t].header = volume[1]
         /\ proc[t].at \in PhdrRead =>
              /\ proc[t].phdr = volume[proc[t].i + 2] /\ proc[t].phdr \in ProgramHeaders
              /\ proc[t].phdr.vaddr \in Nat /\ proc[t].phdr.pages \in Nat /\ proc[t].phdr.offset \in Nat
              /\ proc[t].phdr.load => proc[t].phdr.offset + proc[t].phdr.pages <= Sectors
<1>1. volume \in Seq(Records) /\ proc \in [Tasks -> Calls] /\ proc[t] \in Calls
      /\ proc[t].i \in Nat /\ proc[t].done \in Nat
  BY DEF LoaderInv, LoaderTypeOK, Calls
<1>2. Sectors = Len(volume) /\ Sectors \in Nat /\ Sectors > 0 /\ IsProgram(volume)
      /\ volume[1].kind = "header"
  BY <1>1, ProgramLemma DEF Sectors, ProgramInv
<1>3. InFile(0) = volume[1]
  BY <1>2 DEF InFile
<1>4. proc[t].at \in HeaderRead => proc[t].header = volume[1]
  BY <1>2, <1>3 DEF LoaderInv, FromFile
<1>5. ASSUME proc[t].at \in PhdrRead
      PROVE  /\ proc[t].phdr = volume[proc[t].i + 2] /\ proc[t].phdr \in ProgramHeaders
             /\ proc[t].phdr.load => proc[t].phdr.offset + proc[t].phdr.pages <= Sectors
  <2> DEFINE i == proc[t].i
  <2>1. volume[1].ok /\ i < volume[1].phnum
    BY <1>5 DEF ProgramInv, PhdrRead, AtHeader, Paging
  <2>2. volume[1].phnum < Len(volume) /\ volume[1].phnum \in Nat
    BY <1>1, <1>2, <2>1, ProgramLemma
  <2>3. i + 1 \in 1 .. volume[1].phnum /\ (i + 1) + 1 = i + 2 /\ 1 + i \in 0 .. Sectors - 1
        /\ (1 + i) + 1 = i + 2
    BY <1>1, <1>2, <2>1, <2>2
  <2>4. volume[i + 2] \in ProgramHeaders
        /\ (volume[i + 2].load => volume[i + 2].offset + volume[i + 2].pages <= Len(volume))
    BY <1>1, <1>2, <2>1, <2>3, ProgramLemma
  <2>5. InFile(1 + i) = volume[i + 2]
    BY <2>3 DEF InFile
  <2>6. volume[i + 2].kind = "phdr"
    BY <2>4 DEF ProgramHeaders
  <2> QED
    BY <1>2, <1>5, <2>4, <2>5, <2>6 DEF LoaderInv, FromFile
<1>6. proc[t].at \in PhdrRead =>
        proc[t].phdr.vaddr \in Nat /\ proc[t].phdr.pages \in Nat /\ proc[t].phdr.offset \in Nat
  BY <1>5 DEF ProgramHeaders
<1> QED
  BY <1>1, <1>4, <1>5, <1>6

LEMMA SameVolume ==
  ASSUME volume' = volume
  PROVE  /\ \A n : OnDisk(n)' = OnDisk(n) /\ Loadable(n)' = Loadable(n) /\ EndOnDisk(n)' = EndOnDisk(n)
         /\ \A n, d : Partly(n, d)' = Partly(n, d)
BY DEF OnDisk, Loadable, PagesOf, EndOnDisk, Partly

\* Steps before the checks, and the second halves of reading.
LEMMA BeforeProgram ==
  ASSUME NEW t, Tasks = {t}, LoaderInv(t), ProgramInv(t),
         \/ sys_open(t) \/ disk_command(t) \/ disk_sector(t) \/ opened(t)
         \/ read_header(t) \/ header_read(t)
  PROVE  ProgramInv(t)'
<1>1. UNCHANGED <<volume, image, program, heap_start>> /\ proc[t].at \in Before
  BY DEF sys_open, disk_command, disk_sector, opened, read_header, header_read, Advance, At, Before
<1>2. /\ proc \in [Tasks -> Calls] /\ proc[t] \in Calls /\ image[t] = NoPages /\ IsProgram(volume)
      /\ program \in Images /\ heap_start \in [Tasks -> Int] /\ volume \in Seq(Records)
  BY <1>1, HeadersHeld DEF ProgramInv
<1>3. \A n : OnDisk(n)' = OnDisk(n) /\ Loadable(n)' = Loadable(n) /\ EndOnDisk(n)' = EndOnDisk(n)
  BY <1>1, SameVolume
<1>4. proc'[t].i = 0 /\ proc'[t].at \in (Before \ {"user"}) \union {"checks"}
  <2>1. CASE sys_open(t)
    BY <1>2, <2>1 DEF sys_open, User, Before
  <2>2. CASE ~sys_open(t)
    BY <1>1, <1>2, <2>2
    DEF disk_command, disk_sector, opened, read_header, header_read, Advance, Go, At, Before, ProgramInv, Calls
  <2> QED
    BY <2>1, <2>2
<1>5. LoadedTo(t, 0)'
  BY <1>1, <1>2, <1>3, NothingLoaded DEF LoadedTo
<1>6. volume[1].ok => 0 <= volume[1].phnum
  BY <1>2, ProgramLemma
<1> QED
  BY <1>1, <1>2, <1>4, <1>5, <1>6 DEF ProgramInv, Before, AtHeader, Paging

\* Steps over the program headers.
LEMMA HeadersProgram ==
  ASSUME NEW t, Tasks = {t}, LoaderInv(t), ProgramInv(t),
         seek_phdr(t) \/ read_phdr(t) \/ phdr_read(t) \/ skip_phdr(t)
  PROVE  ProgramInv(t)'
<1> DEFINE i == proc[t].i
<1>1. UNCHANGED <<volume, image, program, heap_start>> /\ proc[t].at \in {"checks"} \union AtHeader
  BY DEF seek_phdr, read_phdr, phdr_read, skip_phdr, Advance, At, AtHeader
<1>2. /\ proc \in [Tasks -> Calls] /\ proc[t] \in Calls /\ i \in Nat /\ IsProgram(volume)
      /\ program \in Images /\ heap_start \in [Tasks -> Int] /\ volume \in Seq(Records)
      /\ LoadedTo(t, i) /\ (volume[1].ok => i <= volume[1].phnum)
      /\ proc[t].header = volume[1] /\ volume[1].phnum \in Nat
  BY <1>1, HeadersHeld, ProgramLemma DEF ProgramInv, AtHeader, HeaderRead, Reading
<1>3. \A n : OnDisk(n)' = OnDisk(n) /\ Loadable(n)' = Loadable(n) /\ EndOnDisk(n)' = EndOnDisk(n)
  BY <1>1, SameVolume
<1>4. CASE seek_phdr(t) \/ read_phdr(t) \/ phdr_read(t)
  <2>1. proc'[t].i = i /\ proc'[t].at \in AtHeader
    BY <1>2, <1>4 DEF seek_phdr, read_phdr, phdr_read, Advance, Go, At, AtHeader, Calls
  <2>2. volume[1].ok /\ i < volume[1].phnum
    BY <1>2, <1>4 DEF seek_phdr, read_phdr, phdr_read, Advance, At, AtHeader, ProgramInv
  <2>3. LoadedTo(t, proc[t].i)'
    BY <1>1, <1>2, <1>3, <2>1 DEF LoadedTo
  <2> QED
    BY <1>1, <1>2, <2>1, <2>2, <2>3 DEF ProgramInv, Before, AtHeader, Paging
<1>5. CASE skip_phdr(t)
  <2>1. proc'[t].i = i + 1 /\ proc'[t].at = "checks" /\ ~proc[t].phdr.load /\ proc[t].at = "segment"
    BY <1>2, <1>5 DEF skip_phdr, At, Calls
  <2>2. volume[1].ok /\ i < volume[1].phnum /\ proc[t].phdr = volume[i + 2]
    BY <2>1, HeadersHeld DEF ProgramInv, AtHeader, PhdrRead
  <2>3. OnDisk(i + 1) = OnDisk(i) /\ Loadable(i + 1) = Loadable(i) /\ EndOnDisk(i + 1) = EndOnDisk(i)
    BY <1>2, <2>1, <2>2, HeaderSkipped
  <2>4. LoadedTo(t, proc[t].i)'
    BY <1>1, <1>2, <1>3, <2>1, <2>3 DEF LoadedTo
  <2>5. i + 1 <= volume[1].phnum
    BY <1>2, <2>2
  <2> QED
    BY <1>1, <1>2, <2>1, <2>4, <2>5 DEF ProgramInv, Before, AtHeader, Paging
<1> QED
  BY <1>4, <1>5

\* Steps of load_phdr.
LEMMA SegmentProgram ==
  ASSUME NEW t, Tasks = {t}, LoaderInv(t), ProgramInv(t), load_phdr(t)
  PROVE  ProgramInv(t)'
<1> DEFINE i == proc[t].i
           d == proc[t].done
           s == volume[i + 2]
<1>1. proc[t].at \in {"segment"} \union Paging /\ UNCHANGED <<volume, program>>
  BY DEF load_phdr, seek_segment, read_page, page_read, segment_loaded, Advance, At, Paging
<1>2. /\ proc \in [Tasks -> Calls] /\ proc[t] \in Calls /\ i \in Nat /\ d \in Nat /\ IsProgram(volume)
      /\ program \in Images /\ heap_start \in [Tasks -> Int] /\ volume \in Seq(Records)
      /\ volume[1].ok /\ i < volume[1].phnum /\ volume[1].phnum \in Nat
      /\ proc[t].phdr = s /\ s.vaddr \in Nat /\ s.pages \in Nat /\ s.offset \in Nat
      /\ (s.load => s.offset + s.pages <= Sectors)
      /\ image \in Images /\ Sectors \in Nat /\ t \in Tasks
  BY <1>1, HeadersHeld, ProgramLemma, CurrentLemma
  DEF ProgramInv, AtHeader, Paging, PhdrRead, LoaderInv, LoaderTypeOK
<1>3. /\ \A n : OnDisk(n)' = OnDisk(n) /\ Loadable(n)' = Loadable(n) /\ EndOnDisk(n)' = EndOnDisk(n)
      /\ \A n, k : Partly(n, k)' = Partly(n, k)
  BY <1>1, SameVolume
<1> HIDE DEF s
<1>4. ASSUME proc'[t].i = i, proc'[t].at \in Paging, proc'[t].phdr = s, s.load,
             proc'[t].done <= s.pages, image'[t] = Partly(i, proc'[t].done), heap_start' = heap_start
      PROVE  ProgramInv(t)'
  BY <1>1, <1>2, <1>3, <1>4 DEF ProgramInv, Before, AtHeader, Paging
<1>5. CASE seek_segment(t)
  <2>1. /\ proc'[t].i = i /\ proc'[t].at = "pages" /\ proc'[t].phdr = s /\ proc'[t].done = 0 /\ s.load
        /\ image' = image /\ heap_start' = heap_start /\ proc[t].at = "segment"
    BY <1>2, <1>5 DEF seek_segment, At, Calls
  <2>2. image[t] = OnDisk(i)
    BY <2>1 DEF ProgramInv, AtHeader, LoadedTo
  <2>3. Partly(i, 0) = OnDisk(i)
    BY <1>2, NoPagesYet DEF s
  <2> QED
    BY <1>2, <1>4, <2>1, <2>2, <2>3 DEF Paging
<1>6. CASE page_read(t)
  <2>1. /\ proc'[t].i = i /\ proc'[t].at = "pages" /\ proc'[t].phdr = s /\ proc'[t].done = d
        /\ image' = image /\ heap_start' = heap_start /\ proc[t].at \in Paging
    BY <1>2, <1>6 DEF page_read, Advance, Go, At, Paging, Calls
  <2>2. image[t] = Partly(i, d) /\ s.load /\ d <= s.pages
    BY <1>2, <2>1 DEF ProgramInv
  <2> QED
    BY <1>4, <2>1, <2>2 DEF Paging
<1>7. CASE read_page(t)
  <2> DEFINE page == s.vaddr + d
  <2>1. /\ proc'[t].i = i /\ proc'[t].at = "page_read" /\ proc'[t].phdr = s /\ proc'[t].done = d + 1
        /\ heap_start' = heap_start /\ proc[t].at = "pages" /\ d < s.pages
        /\ image'[t] = [x \in DOMAIN image[t] \union {page} |->
                         IF x = page THEN Current ELSE image[t][x]]
    BY <1>2, <1>7 DEF read_page, At, Images, Calls
  <2>2. image[t] = Partly(i, d) /\ s.load
    BY <1>2, <2>1 DEF ProgramInv, Paging
  <2>3. Current = InFile(temp_pos) /\ temp_pos = s.offset + d
    BY <1>2, <2>1, ReadsRecord DEF LoaderInv, PositionOK, At, Reading
  <2>4. Current = volume[s.offset + d + 1]
    <3>1. s.offset + d \in 0 .. Sectors - 1
      BY <1>2, <2>1, <2>2
    <3> QED
      BY <2>3, <3>1 DEF InFile
  <2>5. image'[t] = Partly(i, d + 1)
    <3>1. Partly(i, d + 1) = [x \in DOMAIN Partly(i, d) \union {page} |->
                               IF x = page THEN volume[s.offset + d + 1] ELSE Partly(i, d)[x]]
      <4>1. s.vaddr \in Nat /\ i \in Nat /\ d \in Nat
        BY <1>2
      <4> HIDE DEF i, d
      <4> QED
        BY <4>1, PageLoaded DEF s
    <3> QED
      BY <2>1, <2>2, <2>4, <3>1
  <2>6. d + 1 <= s.pages
    BY <1>2, <2>1
  <2> QED
    BY <1>4, <2>1, <2>2, <2>5, <2>6 DEF Paging
<1>8. CASE segment_loaded(t)
  <2>1. /\ proc'[t].i = i + 1 /\ proc'[t].at = "checks" /\ proc[t].at = "pages" /\ d = s.pages
        /\ image' = image /\ heap_start' = [heap_start EXCEPT ![t] = s.vaddr + s.pages]
    BY <1>2, <1>8 DEF segment_loaded, At, Calls
  <2>2. image[t] = Partly(i, d) /\ s.load
    BY <1>2, <2>1 DEF ProgramInv, Paging
  <2>3. OnDisk(i + 1) = Partly(i, s.pages) /\ EndOnDisk(i + 1) = s.vaddr + s.pages
    BY <1>2, <2>2, HeaderLoaded DEF s
  <2>4. heap_start' \in [Tasks -> Int] /\ heap_start'[t] = s.vaddr + s.pages
    BY <1>2, <2>1
  <2>5. LoadedTo(t, proc[t].i)'
    BY <1>3, <2>1, <2>2, <2>3, <2>4 DEF LoadedTo
  <2>6. i + 1 <= volume[1].phnum
    BY <1>2
  <2> QED
    BY <1>1, <1>2, <2>1, <2>4, <2>5, <2>6 DEF ProgramInv, Before, AtHeader, Paging
<1> QED
  BY <1>5, <1>6, <1>7, <1>8 DEF load_phdr

\* Steps behind the loading.
LEMMA RestProgram ==
  ASSUME NEW t, Tasks = {t}, LoaderInv(t), ProgramInv(t),
         check_fails(t) \/ alloc_stack(t) \/ copy_args(t) \/ switch_program(t)
  PROVE  ProgramInv(t)'
<1>1. /\ proc \in [Tasks -> Calls] /\ proc[t] \in Calls /\ proc[t].i \in Nat /\ IsProgram(volume)
      /\ program \in Images /\ heap_start \in [Tasks -> Int] /\ volume \in Seq(Records)
      /\ volume[1].phnum \in Nat /\ image \in Images /\ t \in Tasks
  BY HeadersHeld, ProgramLemma DEF ProgramInv, LoaderInv, LoaderTypeOK
<1>2. volume' = volume /\ heap_start' = heap_start
  BY DEF check_fails, alloc_stack, copy_args, copy_argument, copy_task_args, switch_program
<1>3. \A n : OnDisk(n)' = OnDisk(n) /\ Loadable(n)' = Loadable(n) /\ EndOnDisk(n)' = EndOnDisk(n)
  BY <1>2, SameVolume
<1>4. CASE check_fails(t)
  <2>1. image'[t] = NoPages /\ proc'[t].at = "user" /\ program' = program
    BY <1>1, <1>4 DEF check_fails, Go, Images, Calls
  <2> QED
    BY <1>1, <1>2, <2>1 DEF ProgramInv, Before, AtHeader, Paging
<1>5. CASE switch_program(t)
  <2>1. image'[t] = NoPages /\ proc'[t].at = "user" /\ program' \in Images
    <3>1. image[t] \in UNION {[D -> Records \union {Unknown}] : D \in SUBSET Int}
      BY <1>1 DEF Images
    <3>2. program' = [program EXCEPT ![t] = image[t]]
      BY <1>5 DEF switch_program
    <3>3. program' \in Images
      BY <1>1, <3>1, <3>2 DEF Images
    <3> QED
      BY <1>1, <1>5, <3>3 DEF switch_program, Images, User
  <2> QED
    BY <1>1, <1>2, <2>1 DEF ProgramInv, Before, AtHeader, Paging
<1>6. CASE alloc_stack(t)
  <2>1. /\ UNCHANGED <<image, program>> /\ proc'[t].at = "arguments"
        /\ proc[t].at = "checks" /\ proc[t].header.ok /\ proc[t].i = proc[t].header.phnum
    <3>1. PICK area, argv :
            proc' = [proc EXCEPT ![t] = [User EXCEPT !.at = "arguments", !.area = area,
                                           !.argv = argv, !.dest = FirstString(Len(argv))]]
      BY <1>6 DEF alloc_stack
    <3>2. proc'[t].at = "arguments"
      BY <1>1, <3>1 DEF User
    <3> QED
      BY <1>6, <3>2 DEF alloc_stack, At
  <2>2. proc[t].header = volume[1]
    BY <2>1, HeadersHeld DEF HeaderRead, Reading
  <2>3. volume[1].ok /\ LoadedTo(t, volume[1].phnum)
    BY <2>1, <2>2 DEF ProgramInv
  <2>4. LoadedTo(t, volume[1].phnum)'
    BY <1>2, <1>3, <2>1, <2>3 DEF LoadedTo
  <2> QED
    BY <1>1, <1>2, <2>1, <2>3, <2>4 DEF ProgramInv, Before, AtHeader, Paging
<1>7. CASE copy_args(t)
  <2>1. /\ UNCHANGED <<image, program>> /\ proc[t].at = "arguments"
        /\ proc'[t].at \in {"arguments", "copied", "halted"}
    BY <1>1, <1>7 DEF copy_args, copy_argument, copy_task_args, Go, At, Calls
  <2>2. volume[1].ok /\ LoadedTo(t, volume[1].phnum)
    BY <2>1 DEF ProgramInv
  <2>3. LoadedTo(t, volume[1].phnum)'
    BY <1>2, <1>3, <2>1, <2>2 DEF LoadedTo
  <2> QED
    BY <1>1, <1>2, <2>1, <2>2, <2>3 DEF ProgramInv, Before, AtHeader, Paging
<1> QED
  BY <1>4, <1>5, <1>6, <1>7

LEMMA NextProgram ==
  ASSUME NEW t, Tasks = {t}, LoaderInv(t), ProgramInv(t), [LoaderNext]_vars
  PROVE  ProgramInv(t)'
<1>1. CASE UNCHANGED vars
  <2>1. UNCHANGED <<volume, proc, image, program, heap_start>>
    BY <1>1 DEF vars
  <2>2. /\ \A n : OnDisk(n)' = OnDisk(n) /\ Loadable(n)' = Loadable(n) /\ EndOnDisk(n)' = EndOnDisk(n)
        /\ \A n, d : Partly(n, d)' = Partly(n, d)
    BY <2>1, SameVolume
  <2> QED
    BY <2>1, <2>2 DEF ProgramInv, LoadedTo
<1>2. CASE LoaderNext
  <2>1. sys_open(t) \/ Continue(t)
    BY <1>2 DEF LoaderNext
  <2>2. \/ sys_open(t) \/ disk_command(t) \/ disk_sector(t) \/ opened(t)
        \/ read_header(t) \/ header_read(t)
        \/ seek_phdr(t) \/ read_phdr(t) \/ phdr_read(t) \/ skip_phdr(t)
        \/ load_phdr(t)
        \/ check_fails(t) \/ alloc_stack(t) \/ copy_args(t) \/ switch_program(t)
    BY <2>1 DEF Continue, read_disk, load_elf_file
  <2> QED
    BY <2>2, BeforeProgram, HeadersProgram, SegmentProgram, RestProgram
<1> QED
  BY <1>1, <1>2

LEMMA InitProgram ==
  ASSUME NEW t, Tasks = {t}, \A file \in Volumes : IsProgram(file), LoaderInit
  PROVE  ProgramInv(t)
<1>1. IsProgram(volume) /\ proc[t].at = "user" /\ image[t] = NoPages
      /\ heap_start \in [Tasks -> Int]
  BY DEF LoaderInit, User
<1>2. program \in Images
  <2>1. NoPages \in [{} -> Records \union {Unknown}] /\ {} \in SUBSET Int
    BY DEF NoPages
  <2> QED
    BY <2>1 DEF LoaderInit, Images
<1> QED
  BY <1>1, <1>2 DEF ProgramInv, Before, AtHeader, Paging

LEMMA ProgramInvariant ==
  ASSUME NEW task, Tasks = {task}, \A file \in Volumes : IsProgram(file)
  PROVE  LoaderSpec => [](LoaderInv(task) /\ ProgramInv(task))
<1>1. LoaderInit => LoaderInv(task) /\ ProgramInv(task)
  BY InitLoader, InitProgram
<1>2. LoaderInv(task) /\ ProgramInv(task) /\ [LoaderNext]_vars => LoaderInv(task)' /\ ProgramInv(task)'
  BY NextLoader, NextProgram
<1> QED
  BY <1>1, <1>2, PTL DEF LoaderSpec

\* The steps by which a call of execve ends.
LEMMA EndOfCall ==
  ASSUME NEW t, Tasks = {t}, LoaderInv(t), ProgramInv(t), [LoaderNext]_vars,
         ~At(t, "user"), At(t, "user")'
  PROVE  \/ ~volume[1].ok /\ UNCHANGED program
         \/ /\ volume[1].ok /\ LoadedTo(t, volume[1].phnum)
            /\ program' = [program EXCEPT ![t] = image[t]] /\ t \in DOMAIN program
<1>1. proc \in [Tasks -> Calls] /\ proc[t] \in Calls /\ t \in Tasks /\ program \in Images
  BY HeadersHeld DEF ProgramInv
<1>2. ~UNCHANGED vars
  BY DEF vars, At
<1>3. Continue(t)
  BY <1>1, <1>2 DEF LoaderNext, sys_open, At
<1>4. check_fails(t) \/ switch_program(t)
  <2>1. ~disk_command(t) /\ ~opened(t) /\ ~header_read(t) /\ ~seek_phdr(t) /\ ~phdr_read(t) /\ ~page_read(t)
    BY <1>1 DEF disk_command, opened, header_read, seek_phdr, phdr_read, page_read, Advance, Go, At, Calls
  <2>2. ~disk_sector(t) /\ ~read_header(t) /\ ~read_phdr(t) /\ ~skip_phdr(t) /\ ~seek_segment(t)
        /\ ~read_page(t) /\ ~segment_loaded(t)
    BY <1>1 DEF disk_sector, read_header, read_phdr, skip_phdr, seek_segment, read_page,
        segment_loaded, At, Calls
  <2>3. ~alloc_stack(t)
    <3>1. SUFFICES ASSUME alloc_stack(t) PROVE FALSE
      OBVIOUS
    <3>2. PICK area, argv :
            proc' = [proc EXCEPT ![t] = [User EXCEPT !.at = "arguments", !.area = area,
                                           !.argv = argv, !.dest = FirstString(Len(argv))]]
      BY <3>1 DEF alloc_stack
    <3>3. proc'[t].at = "arguments"
      BY <1>1, <3>2 DEF User
    <3> QED
      BY <3>3 DEF At
  <2>4. ~copy_args(t)
    BY <1>1 DEF copy_args, copy_argument, copy_task_args, Go, At, Calls
  <2> QED
    BY <1>3, <2>1, <2>2, <2>3, <2>4 DEF Continue, read_disk, load_elf_file, load_phdr
<1>5. CASE check_fails(t)
  <2>1. proc[t].at = "checks" /\ ~proc[t].header.ok /\ UNCHANGED program
    BY <1>5 DEF check_fails, At
  <2> QED
    BY <2>1, HeadersHeld DEF HeaderRead, Reading
<1>6. CASE switch_program(t)
  <2>1. proc[t].at = "copied" /\ program' = [program EXCEPT ![t] = image[t]]
    BY <1>6 DEF switch_program, At
  <2> QED
    BY <1>1, <2>1 DEF ProgramInv, Images
<1> QED
  BY <1>4, <1>5, <1>6

\* When execve returns, the task runs the program on the disk, every page of every
\* segment, or the one it ran before when the header fails the checks: for every file
\* that is a program, whatever its segments, with one task in sys_execve.
THEOREM ProgramIsLoadedFromDisk ==
  ASSUME NEW task, Tasks = {task}, \A file \in Volumes : IsProgram(file)
  PROVE  LoaderSpec => ProgramOnDisk
<1> DEFINE Inv == LoaderInv(task) /\ ProgramInv(task)
           Loads == \A t \in Tasks : ~At(t, "user") /\ At(t, "user")' =>
                      program'[t] = IF volume[1].ok THEN OnDisk(volume[1].phnum) ELSE program[t]
<1>1. Inv /\ [LoaderNext]_vars => Loads
  <2> SUFFICES ASSUME Inv, [LoaderNext]_vars, ~At(task, "user"), At(task, "user")'
               PROVE  program'[task] = IF volume[1].ok THEN OnDisk(volume[1].phnum) ELSE program[task]
    OBVIOUS
  <2> QED
    BY EndOfCall DEF LoadedTo
<1>2. Inv /\ [LoaderNext]_vars => [Loads]_vars
  BY <1>1
<1>3. LoaderSpec => [](LoaderInv(task) /\ ProgramInv(task))
  BY ProgramInvariant, PTL
<1>4. LoaderSpec => [][Loads]_vars
  <2> HIDE DEF Loads
  <2> QED
    BY <1>2, <1>3, PTL DEF LoaderSpec
<1> QED
  BY <1>4, PTL DEF ProgramOnDisk

\* After a program has been loaded, its heap starts right behind the last segment that
\* was, under the same conditions.
THEOREM HeapStartsBehindProgram ==
  ASSUME NEW task, Tasks = {task}, \A file \in Volumes : IsProgram(file)
  PROVE  LoaderSpec => HeapBehindProgram
<1> DEFINE Inv == LoaderInv(task) /\ ProgramInv(task)
           Follows == \A t \in Tasks : ~At(t, "user") /\ At(t, "user")' /\ volume[1].ok
                                         /\ Loadable(volume[1].phnum) # {} =>
                        heap_start[t] = EndOnDisk(volume[1].phnum)
<1>1. Inv /\ [LoaderNext]_vars => Follows
  <2> SUFFICES ASSUME Inv, [LoaderNext]_vars, ~At(task, "user"), At(task, "user")',
                      volume[1].ok, Loadable(volume[1].phnum) # {}
               PROVE  heap_start[task] = EndOnDisk(volume[1].phnum)
    OBVIOUS
  <2> QED
    BY EndOfCall DEF LoadedTo
<1>2. Inv /\ [LoaderNext]_vars => [Follows]_vars
  BY <1>1
<1>3. LoaderSpec => [](LoaderInv(task) /\ ProgramInv(task))
  BY ProgramInvariant, PTL
<1>4. LoaderSpec => [][Follows]_vars
  <2> HIDE DEF Follows
  <2> QED
    BY <1>2, <1>3, PTL DEF LoaderSpec
<1> QED
  BY <1>4, PTL DEF HeapBehindProgram

-----------------------------------------------------------------------------
(* The arguments *)

Memory == DOMAIN Blank
Contents == [Memory -> Int]

\* An argument area, and the bytes that are mapped to it.
Areas == {area \in [1 .. ArgPages -> Pages] : IsInjective(area)}
AreaSize == ArgPages * MEM_PAGE_SIZE

\* The addresses of an area.
LEMMA PaddrLemma ==
  ASSUME NEW d \in Areas, NEW v \in 0 .. AreaSize - 1
  PROVE  /\ memory_get_paddr(d, v) = d[v \div MEM_PAGE_SIZE + 1] * MEM_PAGE_SIZE + (v % MEM_PAGE_SIZE)
         /\ d[v \div MEM_PAGE_SIZE + 1] \in Pages /\ memory_get_paddr(d, v) \in Memory
         /\ memory_get_paddr(d, v) \div MEM_PAGE_SIZE \in ToSet(d)
         /\ \A w \in 0 .. AreaSize - 1 : memory_get_paddr(d, w) = memory_get_paddr(d, v) => w = v
<1> DEFINE P == MEM_PAGE_SIZE
           At_(x) == d[x \div P + 1] * P + (x % P)
<1>1. P \in Nat /\ P # 0 /\ ArgPages \in Nat /\ Pages \subseteq Nat /\ AreaSize \in Nat
  BY ArgsAssumption, LoaderAssumption DEF AreaSize
<1>2. d \in [1 .. ArgPages -> Pages] /\ Len(d) = ArgPages /\ IsInjective(d)
  BY <1>1 DEF Areas
<1>3. ASSUME NEW x \in 0 .. AreaSize - 1
      PROVE  /\ x \div P + 1 \in 1 .. ArgPages /\ x % P \in 0 .. P - 1 /\ x \div P \in Nat
             /\ x = P * (x \div P) + (x % P)
             /\ memory_get_paddr(d, x) = At_(x) /\ At_(x) \in Nat /\ At_(x) \div P = d[x \div P + 1]
             /\ d[x \div P + 1] \in Pages
  <2>1. x \in Nat /\ x < ArgPages * P
    BY <1>1, <1>3 DEF AreaSize
  <2>2. /\ x \div P \in Nat /\ x % P \in 0 .. P - 1 /\ x = P * (x \div P) + (x % P)
        /\ P * (x \div P) \in Nat
    BY <1>1, <2>1, DivMod
  <2> DEFINE q == x \div P
             r == x % P
  <2>3. q < ArgPages
    <3>1. q \in Nat /\ r \in Nat /\ x = P * q + r /\ x < ArgPages * P /\ P \in Nat /\ P # 0 /\ ArgPages \in Nat
      BY <1>1, <2>1, <2>2
    <3> HIDE DEF q, r, P
    <3>2. CASE q >= ArgPages
      <4>1. P * q >= P * ArgPages
        BY <3>1, <3>2
      <4> QED
        BY <3>1, <4>1
    <3> QED
      BY <3>1, <3>2
  <2>4. q + 1 \in 1 .. ArgPages
    BY <1>1, <2>2, <2>3
  <2>5. memory_get_paddr(d, x) = At_(x)
    BY <1>2, <2>1 DEF memory_get_paddr, Address
  <2>6. d[q + 1] \in Pages /\ d[q + 1] \in Nat
    BY <1>1, <1>2, <2>4
  <2> DEFINE g == d[q + 1]
  <2>7. At_(x) = P * g + r /\ g \in Nat /\ r \in 0 .. P - 1
    BY <1>1, <2>2, <2>6
  <2>8. At_(x) \in Nat /\ P * g <= At_(x) /\ At_(x) < P * g + P
    <3> DEFINE y == At_(x)
    <3>1. y = P * g + r /\ g \in Nat /\ r \in 0 .. P - 1 /\ P \in Nat
      BY <1>1, <2>7
    <3> HIDE DEF y, g, r, P
    <3>2. P * g \in Nat
      BY <3>1
    <3> QED
      BY <3>1, <3>2 DEF y
  <2>9. At_(x) \div P = g
    <3> DEFINE y == At_(x)
    <3>1. y \in Nat /\ P * g <= y /\ y < P * g + P /\ g \in Nat
      BY <2>7, <2>8
    <3> HIDE DEF y, g
    <3>2. y \div P = g
      BY <1>1, <3>1, DivUnique
    <3> QED
      BY <3>2 DEF y
  <2> QED
    BY <2>2, <2>4, <2>5, <2>6, <2>8, <2>9
<1>4. memory_get_paddr(d, v) \in Memory
  <2>1. Memory = {Address(p, o) : p \in Pages, o \in 0 .. MEM_PAGE_SIZE - 1}
    BY DEF Memory, Blank
  <2> QED
    BY <1>3, <2>1 DEF Address
<1>5. memory_get_paddr(d, v) \div MEM_PAGE_SIZE \in ToSet(d)
  <2>1. ToSet(d) = {d[k] : k \in 1 .. ArgPages}
    BY <1>2 DEF ToSet
  <2> QED
    BY <1>3, <2>1
<1>6. ASSUME NEW w \in 0 .. AreaSize - 1, memory_get_paddr(d, w) = memory_get_paddr(d, v)
      PROVE  w = v
  <2>1. At_(w) = At_(v) /\ d[w \div P + 1] = d[v \div P + 1]
    BY <1>3, <1>6
  <2>2. w \div P + 1 = v \div P + 1
    BY <1>2, <1>3, <2>1 DEF IsInjective
  <2>3. w \div P = v \div P
    BY <1>3, <2>2
  <2>4. w % P = v % P
    <3> DEFINE g == d[v \div P + 1] * P
               r == v % P
               s == w % P
    <3>1. g + r = g + s /\ r \in Int /\ s \in Int /\ g \in Int
      <4>1. d[v \div P + 1] \in Nat
        BY <1>1, <1>3
      <4>2. g \in Int
        BY <1>1, <4>1
      <4> QED
        BY <1>3, <2>1, <4>2
    <3> HIDE DEF g, r, s
    <3>2. r = s
      BY <3>1
    <3> QED
      BY <3>2 DEF r, s
  <2> QED
    BY <1>3, <2>3, <2>4
<1> QED
  BY <1>3, <1>4, <1>5, <1>6

\* Page by page the loop of memory_copy_uvm_data translates every address.
LEMMA ChunkLemma ==
  ASSUME NEW d \in Areas, NEW to \in 0 .. AreaSize - 1, NEW v \in to .. AreaSize - 1
  PROVE  ChunkAddress(d, to, v) = memory_get_paddr(d, v)
<1> DEFINE P == MEM_PAGE_SIZE
           base == v - (v % P)
           start == Max({to, base})
<1>1. P \in Nat /\ P # 0 /\ AreaSize \in Nat /\ v \in Nat /\ to \in Nat /\ to <= v /\ v < AreaSize
  BY ArgsAssumption, LoaderAssumption DEF AreaSize
<1>2. /\ v \div P \in Nat /\ v % P \in 0 .. P - 1 /\ v = P * (v \div P) + (v % P)
      /\ P * (v \div P) \in Nat
  BY <1>1, DivMod
<1> DEFINE q == v \div P
<1>3. base = P * q /\ base \in Nat /\ base <= v /\ v < base + P
  <2> DEFINE r == v % P
             b == P * q
  <2>1. v = b + r /\ b \in Nat /\ r \in 0 .. P - 1
    BY <1>2
  <2> HIDE DEF r, b
  <2>2. v - r = b /\ b <= v /\ v < b + P
    BY <1>1, <2>1
  <2> QED
    BY <2>1, <2>2 DEF r, b
<1>4. start \in Nat /\ start <= v /\ base <= start /\ start <= v
  <2> HIDE DEF base
  <2>1. base \in Nat /\ to \in Nat
    BY <1>1, <1>3
  <2>2. \E m \in {to, base} : \A y \in {to, base} : m >= y
    BY <2>1
  <2>3. start \in {to, base} /\ \A y \in {to, base} : start >= y
    BY <2>2 DEF Max
  <2> QED
    BY <1>1, <1>3, <2>1, <2>3
<1> HIDE DEF start, base
<1>5. start \in 0 .. AreaSize - 1 /\ v \in 0 .. AreaSize - 1
  BY <1>1, <1>4
<1>6. start \div P = q
  <2>1. P * q <= start /\ start < P * q + P
    BY <1>1, <1>3, <1>4
  <2> QED
    BY <1>1, <1>2, <1>4, <2>1, DivUnique
<1>7. start % P = (v % P) - (v - start)
  <2>1. start = P * (start \div P) + (start % P) /\ start % P \in 0 .. P - 1
    BY <1>1, <1>4, DivMod
  <2> DEFINE b == P * q
             r == v % P
             s == start % P
  <2>2. start = b + s /\ v = b + r /\ b \in Int /\ s \in Int /\ r \in Int
    BY <1>2, <1>6, <2>1
  <2> HIDE DEF b, r, s
  <2>3. s = r - (v - start)
    BY <2>2
  <2> QED
    BY <2>3 DEF r, s
<1>8. ChunkAddress(d, to, v) = memory_get_paddr(d, start) + (v - start)
  BY DEF ChunkAddress, start, base
<1>9. /\ memory_get_paddr(d, start) = d[q + 1] * P + (start % P)
      /\ memory_get_paddr(d, v) = d[q + 1] * P + (v % P)
      /\ memory_get_paddr(d, start) \in Memory
  BY <1>5, <1>6, PaddrLemma
<1>10. d[q + 1] * P \in Int
  <2> DEFINE p == d[q + 1]
  <2>1. p \in Nat
    BY <1>5, PaddrLemma, ArgsAssumption
  <2> HIDE DEF p
  <2>2. p * P \in Int
    BY <1>1, <2>1
  <2> QED
    BY <2>2 DEF p
<1> DEFINE g == d[q + 1] * P
           r == v % P
           s == start % P
<1>11. g \in Int /\ r \in Int /\ s = r - (v - start) /\ v \in Nat /\ start \in Nat
  BY <1>1, <1>2, <1>4, <1>7, <1>10
<1>12. memory_get_paddr(d, start) = g + s /\ memory_get_paddr(d, v) = g + r
  BY <1>9
<1> HIDE DEF g, r, s
<1> QED
  BY <1>8, <1>11, <1>12

LEMMA WriteLemma ==
  ASSUME NEW m \in Contents, NEW a \in Memory, NEW cell \in Int
  PROVE  /\ Write(m, a, cell) \in Contents /\ Write(m, a, cell)[a] = cell
         /\ \A b \in Memory : b # a => Write(m, a, cell)[b] = m[b]
BY DEF Write, Contents

\* One turn of the loop of memory_copy_uvm_data.
CopyCell(m, d, to, data, i) == Write(m, ChunkAddress(d, to, to + i - 1), data[i])

LEMMA CopyCellLemma ==
  ASSUME NEW m \in Contents, NEW d \in Areas, NEW to \in Nat, NEW data \in Seq(Int),
         to + Len(data) <= AreaSize, NEW i \in 1 .. Len(data)
  PROVE  /\ to + i - 1 \in to .. AreaSize - 1 /\ to \in 0 .. AreaSize - 1
         /\ CopyCell(m, d, to, data, i) = Write(m, memory_get_paddr(d, to + i - 1), data[i])
         /\ CopyCell(m, d, to, data, i) \in Contents
         /\ Load(CopyCell(m, d, to, data, i), d, to + i - 1) = data[i]
         /\ \A v \in 0 .. AreaSize - 1 : v # to + i - 1 =>
              Load(CopyCell(m, d, to, data, i), d, v) = Load(m, d, v)
         /\ \A a \in Memory : CopyCell(m, d, to, data, i)[a] # m[a] =>
              a \div MEM_PAGE_SIZE \in ToSet(d)
<1> DEFINE v == to + i - 1
<1>1. AreaSize \in Nat /\ Len(data) \in Nat
  BY ArgsAssumption, LoaderAssumption DEF AreaSize
<1>2. v \in to .. AreaSize - 1 /\ to \in 0 .. AreaSize - 1 /\ v \in 0 .. AreaSize - 1
  BY <1>1
<1>3. ChunkAddress(d, to, v) = memory_get_paddr(d, v)
  BY <1>2, ChunkLemma
<1>4. /\ memory_get_paddr(d, v) \in Memory
      /\ memory_get_paddr(d, v) \div MEM_PAGE_SIZE \in ToSet(d)
      /\ \A w \in 0 .. AreaSize - 1 : memory_get_paddr(d, w) = memory_get_paddr(d, v) => w = v
      /\ \A w \in 0 .. AreaSize - 1 : memory_get_paddr(d, w) \in Memory
  BY <1>2, PaddrLemma
<1> DEFINE a == memory_get_paddr(d, v)
           m1 == Write(m, a, data[i])
<1>5. CopyCell(m, d, to, data, i) = m1
  BY <1>3 DEF CopyCell
<1>6. data[i] \in Int /\ a \in Memory
  BY <1>4
<1> HIDE DEF a
<1>7. m1 \in Contents /\ m1[a] = data[i] /\ \A b \in Memory : b # a => m1[b] = m[b]
  BY <1>6, WriteLemma
<1> HIDE DEF m1
<1>8. Load(m1, d, v) = data[i]
  BY <1>7 DEF Load, a
<1>9. \A w \in 0 .. AreaSize - 1 : w # v => Load(m1, d, w) = Load(m, d, w)
  BY <1>4, <1>7 DEF Load, a
<1>10. \A b \in Memory : m1[b] # m[b] => b \div MEM_PAGE_SIZE \in ToSet(d)
  BY <1>4, <1>7 DEF a
<1> QED
  BY <1>2, <1>3, <1>5, <1>7, <1>8, <1>9, <1>10 DEF m1, a

Turns(run, m, d, to, data) ==
  /\ run \in [0 .. Len(data) -> Contents]
  /\ run[0] = m /\ run[Len(data)] = memory_copy_uvm_data(m, d, to, data)
  /\ \A i \in 1 .. Len(data) : run[i] = CopyCell(run[i - 1], d, to, data, i)

LEMMA CopyRun ==
  ASSUME NEW m \in Contents, NEW d \in Areas, NEW to \in Nat, NEW data \in Seq(Int),
         to + Len(data) <= AreaSize
  PROVE  \E run : Turns(run, m, d, to, data)
<1> DEFINE l == Len(data)
           s == [i \in 1 .. l |-> i]
           step == [i \in 1 .. l |-> [r \in Contents |-> CopyCell(r, d, to, data, s[i])]]
           Solves(fold) == fold = [x \in SUBSET (1 .. l) |->
                                 IF x = {} THEN m ELSE CopyCell(fold[x \ {Max(x)}], d, to, data, s[Max(x)])]
           fold == CHOOSE fold : Solves(fold)
<1>1. l \in Nat /\ DOMAIN s = 1 .. l
  OBVIOUS
<1>2. /\ \A i \in 1 .. l : Max(1 .. i) = i /\ 1 .. i \in SUBSET (1 .. l) /\ 1 .. i # {}
                           /\ (1 .. i) \ {i} = 1 .. i - 1
      /\ {} \in SUBSET (1 .. l) /\ 1 .. l \in SUBSET (1 .. l)
      /\ \A x \in SUBSET (1 .. l) : x # {} => Max(x) \in 1 .. l /\ x \ {Max(x)} \in SUBSET (1 .. l)
  BY <1>1, FirstsLemma
<1>3. memory_copy_uvm_data(m, d, to, data) = fold[1 .. l]
  BY <1>1 DEF memory_copy_uvm_data, CopyCell, FoldLeft, MapThenFoldSet
<1>4. \A i \in 1 .. l : s[i] = i /\ s[i] \in 1 .. Len(data)
  OBVIOUS
<1>5. \A i \in 1 .. l, r \in Contents : CopyCell(r, d, to, data, s[i]) \in Contents
  <2> HIDE DEF s, l
  <2> QED
    BY <1>4, CopyCellLemma
<1>6. step \in [1 .. l -> [Contents -> Contents]]
  <2> HIDE DEF s, l
  <2> QED
    BY <1>5
<1>7. \A i \in 1 .. l, r \in Contents : step[i][r] = CopyCell(r, d, to, data, s[i])
  OBVIOUS
<1> HIDE DEF l, s, step, Solves, fold
<1>8. Solves(fold)
  <2>1. PICK at : at \in [Firsts(l) -> Contents] /\ at = FoldTurn(at, l, m, step)
    BY <1>1, <1>6, FoldExists
  <2>2. at \in [SUBSET (1 .. l) -> Contents] /\ at = FoldTurn(at, l, m, step)
    BY <2>1 DEF Firsts
  <2>3. ASSUME NEW x \in SUBSET (1 .. l), x # {}
        PROVE  step[Max(x)][at[x \ {Max(x)}]] = CopyCell(at[x \ {Max(x)}], d, to, data, s[Max(x)])
    BY <1>2, <1>7, <2>2, <2>3
  <2>4. Solves(at)
    BY <2>2, <2>3 DEF FoldTurn, Solves
  <2> QED
    BY <2>4 DEF fold
<1> DEFINE run == [i \in 0 .. l |-> fold[1 .. i]]
<1>9. run[0] = m
  <2>1. fold[{}] = m
    BY <1>2, <1>8 DEF Solves
  <2>2. 1 .. 0 = {}
    OBVIOUS
  <2> QED
    BY <1>1, <2>1, <2>2
<1>10. ASSUME NEW i \in 1 .. l
       PROVE  run[i] = CopyCell(run[i - 1], d, to, data, i)
  <2>1. fold[1 .. i] = CopyCell(fold[(1 .. i) \ {i}], d, to, data, s[i])
    BY <1>2, <1>8 DEF Solves
  <2>2. (1 .. i) \ {i} = 1 .. i - 1 /\ i - 1 \in 0 .. l /\ i \in 0 .. l /\ s[i] = i
    <3>1. i - 1 \in 0 .. l /\ i \in 0 .. l
      BY <1>1
    <3> QED
      BY <1>2, <1>4, <3>1
  <2> QED
    BY <2>1, <2>2
<1>11. run[l] = memory_copy_uvm_data(m, d, to, data)
  BY <1>1, <1>3
<1> HIDE DEF run
<1>12. \A i \in 0 .. l : run[i] \in Contents
  <2> DEFINE S == {k \in 0 .. l : run[k] \in Contents}
  <2>1. 0 \in S
    BY <1>1, <1>9
  <2>2. ASSUME NEW k \in 1 .. l, k - 1 \in S
        PROVE  k \in S
    <3>1. run[k - 1] \in Contents /\ k \in 0 .. l /\ s[k] = k
      BY <1>1, <1>4, <2>2
    <3> QED
      BY <1>5, <1>10, <3>1
  <2> HIDE DEF S
  <2>3. \A k \in 0 .. l : k \in S
    BY <1>1, <2>1, <2>2, LoopLemma
  <2> QED
    BY <2>3 DEF S
<1>13. run \in [0 .. l -> Contents]
  BY <1>12 DEF run
<1>14. Turns(run, m, d, to, data)
  BY <1>9, <1>10, <1>11, <1>13 DEF l, Turns
<1> QED
  BY <1>14

\* What memory_copy_uvm_data leaves in memory: the data, in the task's view where it was
\* sent, and nothing else is written, in that view or outside of the area.
LEMMA CopyLemma ==
  ASSUME NEW m \in Contents, NEW d \in Areas, NEW to \in Nat, NEW data \in Seq(Int),
         to + Len(data) <= AreaSize
  PROVE  /\ memory_copy_uvm_data(m, d, to, data) \in Contents
         /\ \A v \in 0 .. AreaSize - 1 : v < to \/ v >= to + Len(data) =>
              Load(memory_copy_uvm_data(m, d, to, data), d, v) = Load(m, d, v)
         /\ \A i \in 1 .. Len(data) :
              Load(memory_copy_uvm_data(m, d, to, data), d, to + i - 1) = data[i]
         /\ \A a \in Memory : memory_copy_uvm_data(m, d, to, data)[a] # m[a] =>
              a \div MEM_PAGE_SIZE \in ToSet(d)
<1> DEFINE l == Len(data)
<1>1. l \in Nat /\ AreaSize \in Nat
  BY ArgsAssumption, LoaderAssumption DEF AreaSize
<1>a. PICK run : Turns(run, m, d, to, data)
  BY CopyRun
<1>2. /\ run \in [0 .. l -> Contents]
      /\ run[0] = m /\ run[l] = memory_copy_uvm_data(m, d, to, data)
      /\ \A i \in 1 .. l : run[i] = CopyCell(run[i - 1], d, to, data, i)
  BY <1>a DEF Turns
<1> DEFINE Done(i) ==
             /\ \A v \in 0 .. AreaSize - 1 : v < to \/ v >= to + i => Load(run[i], d, v) = Load(m, d, v)
             /\ \A j \in 1 .. i : Load(run[i], d, to + j - 1) = data[j]
             /\ \A a \in Memory : run[i][a] # m[a] => a \div MEM_PAGE_SIZE \in ToSet(d)
           S == {i \in 0 .. l : Done(i)}
<1>3. 0 \in S
  BY <1>1, <1>2
<1>4. ASSUME NEW i \in 1 .. l, i - 1 \in S
      PROVE  i \in S
  <2> DEFINE k == i - 1
             v0 == to + i - 1
  <2>1. k \in 0 .. l /\ i \in 0 .. l /\ i \in Nat /\ k \in Nat /\ i = k + 1
    BY <1>1
  <2>2. run[k] \in Contents /\ Done(k) /\ run[i] = CopyCell(run[k], d, to, data, i)
    BY <1>2, <1>4, <2>1
  <2>3. /\ v0 \in to .. AreaSize - 1 /\ v0 = to + k
        /\ Load(run[i], d, v0) = data[i]
        /\ \A v \in 0 .. AreaSize - 1 : v # v0 => Load(run[i], d, v) = Load(run[k], d, v)
        /\ \A a \in Memory : run[i][a] # run[k][a] => a \div MEM_PAGE_SIZE \in ToSet(d)
    BY <2>2, CopyCellLemma
  <2> HIDE DEF S, k, v0
  <2>4. ASSUME NEW v \in 0 .. AreaSize - 1, v < to \/ v >= to + i
        PROVE  Load(run[i], d, v) = Load(m, d, v)
    <3>1. v # v0 /\ (v < to \/ v >= to + k)
      BY <1>1, <2>1, <2>3, <2>4
    <3> QED
      BY <2>2, <2>3, <3>1
  <2>5. ASSUME NEW j \in 1 .. i
        PROVE  Load(run[i], d, to + j - 1) = data[j]
    <3>1. CASE j = i
      BY <2>3, <3>1 DEF v0
    <3>2. CASE j # i
      <4>1. j \in 1 .. k /\ to + j - 1 # v0 /\ to + j - 1 \in 0 .. AreaSize - 1
        <5>1. k \in Nat /\ i = k + 1 /\ v0 = to + k
          BY <2>1, <2>3
        <5>2. AreaSize \in Nat /\ to + i <= AreaSize
          BY <1>1
        <5> QED
          BY <3>2, <5>1, <5>2
      <4> QED
        BY <2>2, <2>3, <4>1
    <3> QED
      BY <3>1, <3>2
  <2>6. ASSUME NEW a \in Memory, run[i][a] # m[a]
        PROVE  a \div MEM_PAGE_SIZE \in ToSet(d)
    BY <2>2, <2>3, <2>6
  <2>7. Done(i)
    BY <2>4, <2>5, <2>6
  <2> QED
    BY <2>1, <2>7 DEF S
<1> HIDE DEF S
<1>5. \A i \in 0 .. l : i \in S
  BY <1>1, <1>3, <1>4, LoopLemma
<1>6. Done(l)
  <2>1. l \in S
    BY <1>1, <1>5
  <2> HIDE DEF l, Done
  <2> QED
    BY <2>1 DEF S
<1> QED
  BY <1>2, <1>6

LEMMA AppendLemma ==
  ASSUME NEW string \in Seq(Nat)
  PROVE  /\ Append(string, Nul) \in Seq(Int) /\ Len(string) \in Nat
         /\ Len(Append(string, Nul)) = Len(string) + 1
         /\ Append(string, Nul)[Len(string) + 1] = 0
         /\ \A j \in 1 .. Len(string) : Append(string, Nul)[j] = string[j]
BY DEF Nul

LEMMA MappedLemma ==
  ASSUME NEW d \in Areas, NEW to \in Nat, NEW size \in Nat, size > 0, Mapped(d, to, size)
  PROVE  to + size <= AreaSize
<1>1. Len(d) = ArgPages /\ AreaSize \in Nat
  BY ArgsAssumption, LoaderAssumption DEF Areas, AreaSize
<1>2. to + size - 1 < AreaSize
  BY <1>1 DEF Mapped, memory_get_paddr, AreaSize
<1> QED
  BY <1>1, <1>2

\* An argument whose string is mapped: the memory stays one whatever the table.
LEMMA ArgumentTyped ==
  ASSUME NEW m \in Contents, NEW d \in Areas, NEW i \in Nat, NEW dest \in Nat,
         NEW string \in Seq(Nat), Mapped(d, dest, Len(string) + 1)
  PROVE  CopyArgument(m, d, i, dest, string) \in Contents
<1> DEFINE data == Append(string, Nul)
           copied == memory_copy_uvm_data(m, d, dest, data)
<1>1. data \in Seq(Int) /\ Len(data) = Len(string) + 1 /\ Len(string) + 1 \in Nat /\ Len(string) + 1 > 0
  BY AppendLemma
<1>2. dest + Len(data) <= AreaSize
  BY <1>1, MappedLemma
<1> HIDE DEF data
<1>3. copied \in Contents
  BY <1>1, <1>2, CopyLemma
<1> HIDE DEF copied
<1>4. Write(copied, TableEntry(d, i), dest) \in Contents
  BY <1>3 DEF Write, Contents
<1> QED
  BY <1>4 DEF CopyArgument, copied, data

\* One turn of copy_args, in the task's view.
LEMMA ArgumentLemma ==
  ASSUME NEW m \in Contents, NEW d \in Areas, NEW n \in Nat, NEW i \in 0 .. n - 1, NEW dest \in Nat,
         NEW string \in Seq(Nat), Mapped(d, dest, Len(string) + 1),
         TableInOnePiece(d, n), FirstString(n) <= dest
  PROVE  /\ dest + Len(string) < AreaSize
         /\ Load(CopyArgument(m, d, i, dest, string), d, TaskArgsSize + i) = dest
         /\ \A j \in DOMAIN string :
              Load(CopyArgument(m, d, i, dest, string), d, dest + j - 1) = string[j]
         /\ Load(CopyArgument(m, d, i, dest, string), d, dest + Len(string)) = Nul
         /\ \A v \in 0 .. dest - 1 : v # TaskArgsSize + i =>
              Load(CopyArgument(m, d, i, dest, string), d, v) = Load(m, d, v)
         /\ \A a \in Memory : CopyArgument(m, d, i, dest, string)[a] # m[a] =>
              a \div MEM_PAGE_SIZE \in ToSet(d)
<1> DEFINE data == Append(string, Nul)
           copied == memory_copy_uvm_data(m, d, dest, data)
           entry == TaskArgsSize + i
           a0 == memory_get_paddr(d, entry)
           m1 == Write(copied, a0, dest)
           l == Len(string)
<1>1. /\ data \in Seq(Int) /\ l \in Nat /\ Len(data) = l + 1 /\ data[l + 1] = Nul
      /\ (\A j \in 1 .. l : data[j] = string[j]) /\ DOMAIN string = 1 .. l
  BY AppendLemma DEF Nul
<1>2. dest + Len(data) <= AreaSize /\ AreaSize \in Nat
  <2>1. l + 1 \in Nat /\ l + 1 > 0
    BY <1>1
  <2>2. dest + (l + 1) <= AreaSize
    BY <2>1, MappedLemma
  <2>3. AreaSize \in Nat
    BY ArgsAssumption, LoaderAssumption DEF AreaSize
  <2> HIDE DEF data, l
  <2> QED
    BY <1>1, <2>2, <2>3
<1>3. entry \in 0 .. dest - 1 /\ entry \in 0 .. AreaSize - 1
  BY <1>1, <1>2 DEF FirstString, TaskArgsSize
<1>4. CopyArgument(m, d, i, dest, string) = m1
  BY DEF CopyArgument, TableInOnePiece
<1> HIDE DEF data, l
<1>5. /\ copied \in Contents
      /\ \A v \in 0 .. AreaSize - 1 : v < dest => Load(copied, d, v) = Load(m, d, v)
      /\ \A j \in 1 .. l + 1 : Load(copied, d, dest + j - 1) = data[j]
      /\ \A a \in Memory : copied[a] # m[a] => a \div MEM_PAGE_SIZE \in ToSet(d)
  <2>1. /\ copied \in Contents
        /\ \A v \in 0 .. AreaSize - 1 : v < dest \/ v >= dest + Len(data) => Load(copied, d, v) = Load(m, d, v)
        /\ \A j \in 1 .. Len(data) : Load(copied, d, dest + j - 1) = data[j]
        /\ \A a \in Memory : copied[a] # m[a] => a \div MEM_PAGE_SIZE \in ToSet(d)
    BY <1>1, <1>2, CopyLemma
  <2> HIDE DEF copied
  <2> QED
    BY <1>1, <2>1
<1> HIDE DEF copied, entry
<1>6. /\ a0 \in Memory /\ a0 \div MEM_PAGE_SIZE \in ToSet(d)
      /\ \A w \in 0 .. AreaSize - 1 : memory_get_paddr(d, w) = a0 => w = entry
      /\ \A w \in 0 .. AreaSize - 1 : memory_get_paddr(d, w) \in Memory
  BY <1>3, PaddrLemma
<1>7. m1 \in Contents /\ m1[a0] = dest /\ \A b \in Memory : b # a0 => m1[b] = copied[b]
  BY <1>5, <1>6, WriteLemma
<1> HIDE DEF m1, a0
<1>8. Load(m1, d, entry) = dest
  BY <1>7 DEF Load, a0
<1>9. ASSUME NEW v \in 0 .. AreaSize - 1, v # entry
      PROVE  Load(m1, d, v) = Load(copied, d, v)
  BY <1>6, <1>7, <1>9 DEF Load
<1>10. ASSUME NEW j \in 1 .. l + 1
       PROVE  Load(m1, d, dest + j - 1) = data[j]
  <2>1. dest + j - 1 \in 0 .. AreaSize - 1 /\ dest + j - 1 # entry
    <3>1. l \in Nat /\ dest + (l + 1) <= AreaSize /\ AreaSize \in Nat /\ entry \in 0 .. dest - 1
      BY <1>1, <1>2, <1>3
    <3> QED
      BY <3>1
  <2> QED
    BY <1>5, <1>9, <2>1
<1>11. \A j \in 1 .. l : Load(m1, d, dest + j - 1) = string[j]
  BY <1>1, <1>10
<1>12. Load(m1, d, dest + l) = Nul
  <2>1. l + 1 \in 1 .. l + 1 /\ dest + (l + 1) - 1 = dest + l
    BY <1>1
  <2> QED
    BY <1>1, <1>10, <2>1
<1>13. ASSUME NEW v \in 0 .. dest - 1, v # entry
       PROVE  Load(m1, d, v) = Load(m, d, v)
  <2>1. v \in 0 .. AreaSize - 1 /\ v < dest
    BY <1>1, <1>2
  <2> QED
    BY <1>5, <1>9, <1>13, <2>1
<1>14. \A a \in Memory : m1[a] # m[a] => a \div MEM_PAGE_SIZE \in ToSet(d)
  BY <1>5, <1>6, <1>7
<1>15. dest + l < AreaSize
  BY <1>1, <1>2
<1> QED
  BY <1>1, <1>4, <1>8, <1>11, <1>12, <1>13, <1>14, <1>15 DEF l, entry

\* Argument k is in the area: its pointer, below `end` its string and the terminator.
Arrived(m, d, argv, k, end) ==
  LET e == Load(m, d, TaskArgsSize + k - 1)
  IN  /\ e \in Nat /\ FirstString(Len(argv)) <= e /\ e + Len(argv[k]) < end
      /\ \A j \in DOMAIN argv[k] : Load(m, d, e + j - 1) = argv[k][j]
      /\ Load(m, d, e + Len(argv[k])) = Nul

\* An argument is kept when its pointer and what lies behind the table are.
LEMMA ArrivedKept ==
  ASSUME NEW m, NEW m1, NEW d, NEW argv \in Seq(Strings), NEW k \in 1 .. Len(argv),
         NEW end \in Nat, NEW end1 \in Nat, end <= end1, Arrived(m, d, argv, k, end),
         \A v \in 0 .. end - 1 : v = TaskArgsSize + k - 1 \/ v >= FirstString(Len(argv)) =>
           Load(m1, d, v) = Load(m, d, v)
  PROVE  Arrived(m1, d, argv, k, end1)
<1> DEFINE e == Load(m, d, TaskArgsSize + k - 1)
           l == Len(argv[k])
           n == Len(argv)
<1>1. argv[k] \in Seq(Nat) /\ l \in Nat /\ DOMAIN argv[k] = 1 .. l /\ n \in Nat /\ k \in 1 .. n
  BY LoaderAssumption
<1>2. /\ e \in Nat /\ FirstString(n) <= e /\ e + l < end
      /\ \A j \in 1 .. l : Load(m, d, e + j - 1) = argv[k][j]
      /\ Load(m, d, e + l) = Nul
  BY <1>1 DEF Arrived
<1> HIDE DEF e, l
<1>3. TaskArgsSize + k - 1 \in 0 .. end - 1
  BY <1>1, <1>2 DEF FirstString, TaskArgsSize
<1>4. Load(m1, d, TaskArgsSize + k - 1) = e
  BY <1>3 DEF e
<1>5. ASSUME NEW v \in e .. e + l
      PROVE  Load(m1, d, v) = Load(m, d, v)
  <2>1. v \in 0 .. end - 1 /\ v >= FirstString(n)
    BY <1>1, <1>2 DEF FirstString, TaskArgsSize
  <2> QED
    BY <2>1
<1>6. \A j \in 1 .. l : Load(m1, d, e + j - 1) = argv[k][j]
  <2> TAKE j \in 1 .. l
  <2>1. e + j - 1 \in e .. e + l
    BY <1>1, <1>2
  <2> QED
    BY <1>2, <1>5, <2>1
<1>7. Load(m1, d, e + l) = Nul /\ e + l < end1
  BY <1>1, <1>2, <1>5
<1> QED
  BY <1>1, <1>2, <1>4, <1>6, <1>7 DEF Arrived, l

\* With the last copy main finds its arguments.
LEMMA FindsLemma ==
  ASSUME NEW m \in Contents, NEW d \in Areas, NEW argv \in Seq(Strings), NEW end \in Nat,
         Len(argv) > 0 => end <= AreaSize,
         \A k \in 1 .. Len(argv) : Arrived(m, d, argv, k, end)
  PROVE  /\ memory_copy_uvm_data(m, d, 0, TaskArgs(Len(argv))) \in Contents
         /\ Finds(memory_copy_uvm_data(m, d, 0, TaskArgs(Len(argv))), d, argv)
         /\ \A a \in Memory : memory_copy_uvm_data(m, d, 0, TaskArgs(Len(argv)))[a] # m[a] =>
              a \div MEM_PAGE_SIZE \in ToSet(d)
<1> DEFINE n == Len(argv)
           data == TaskArgs(n)
           m1 == memory_copy_uvm_data(m, d, 0, data)
<1>1. n \in Nat /\ DOMAIN argv = 1 .. n /\ AreaSize \in Nat /\ AreaSize >= 3
  BY ArgsAssumption, LoaderAssumption DEF AreaSize, TaskArgsSize
<1>2. data \in Seq(Int) /\ Len(data) = 3 /\ data[2] = n /\ data[3] = 3
  BY <1>1 DEF TaskArgs, Junk, TaskArgsSize
<1> HIDE DEF data, n
<1>3. /\ m1 \in Contents
      /\ \A v \in 0 .. AreaSize - 1 : v >= 3 => Load(m1, d, v) = Load(m, d, v)
      /\ \A i \in 1 .. 3 : Load(m1, d, i - 1) = data[i]
      /\ \A a \in Memory : m1[a] # m[a] => a \div MEM_PAGE_SIZE \in ToSet(d)
  <2>1. /\ m1 \in Contents
        /\ \A v \in 0 .. AreaSize - 1 : v < 0 \/ v >= 0 + Len(data) => Load(m1, d, v) = Load(m, d, v)
        /\ \A i \in 1 .. Len(data) : Load(m1, d, 0 + i - 1) = data[i]
        /\ \A a \in Memory : m1[a] # m[a] => a \div MEM_PAGE_SIZE \in ToSet(d)
    <3>1. 0 \in Nat /\ 0 + Len(data) <= AreaSize
      BY <1>1, <1>2
    <3> QED
      BY <1>2, <3>1, CopyLemma
  <2> HIDE DEF m1
  <2>2. \A i \in 1 .. 3 : 0 + i - 1 = i - 1
    OBVIOUS
  <2> QED
    BY <1>2, <2>1, <2>2
<1> HIDE DEF m1
<1>4. Load(m1, d, 1) = n /\ Load(m1, d, 2) = 3
  <2>1. Load(m1, d, 2 - 1) = data[2] /\ Load(m1, d, 3 - 1) = data[3]
    BY <1>3
  <2> QED
    BY <1>2, <2>1
<1>5. ASSUME NEW k \in 1 .. n
      PROVE  Arrived(m1, d, argv, k, end)
  <2>1. end <= AreaSize /\ Arrived(m, d, argv, k, end)
    BY <1>1, <1>5 DEF n
  <2>2. ASSUME NEW v \in 0 .. end - 1, v = TaskArgsSize + k - 1 \/ v >= FirstString(n)
        PROVE  Load(m1, d, v) = Load(m, d, v)
    <3>1. v \in 0 .. AreaSize - 1 /\ v >= 3
      BY <1>1, <2>1, <2>2 DEF TaskArgsSize, FirstString
    <3> QED
      BY <1>3, <3>1
  <2> QED
    BY <1>5, <2>1, <2>2, ArrivedKept DEF n
<1>6. Finds(m1, d, argv)
  <2> SUFFICES ASSUME NEW k \in 1 .. n
               PROVE  LET e == Load(m1, d, 3 + k - 1)
                      IN  /\ \A j \in DOMAIN argv[k] : Load(m1, d, e + j - 1) = argv[k][j]
                          /\ Load(m1, d, e + Len(argv[k])) = Nul
    BY <1>1, <1>4 DEF Finds, n
  <2> QED
    BY <1>5 DEF Arrived, TaskArgsSize
<1> QED
  BY <1>3, <1>6 DEF m1, data, n

\* Types, for any number of tasks in sys_execve: a step after which the task's call is c, and which reads nothing from the disk.
LEMMA TypeKept ==
  ASSUME LoaderTypeOK, NEW t \in Tasks, NEW c \in Calls, proc' = [proc EXCEPT ![t] = c],
         temp_pos' \in Int, image' \in Images, UNCHANGED <<volume, disk, buffer>>
  PROVE  LoaderTypeOK'
BY DEF LoaderTypeOK, Sectors

LEMMA PlaceType ==
  ASSUME LoaderTypeOK, NEW t \in Tasks,
         \/ opened(t) \/ header_read(t) \/ check_fails(t) \/ seek_phdr(t) \/ phdr_read(t)
         \/ page_read(t) \/ copy_task_args(t)
  PROVE  LoaderTypeOK'
<1>1. /\ temp_pos' \in Int /\ UNCHANGED <<volume, disk, buffer>>
  <2>1. temp_pos \in Int /\ proc[t].i \in Nat
    BY CallLemma DEF LoaderTypeOK, Calls
  <2> QED
    BY <2>1 DEF opened, header_read, check_fails, seek_phdr, phdr_read, page_read, copy_task_args, Advance
<1>2. image' \in Images
  <2>1. NoPages \in [{} -> Records \union {Unknown}] /\ {} \in SUBSET Int
    BY DEF NoPages
  <2>2. NoPages \in UNION {[D -> Records \union {Unknown}] : D \in SUBSET Int}
    BY <2>1
  <2>3. image \in Images
    BY DEF LoaderTypeOK
  <2> QED
    BY <2>2, <2>3 DEF opened, header_read, check_fails, seek_phdr, phdr_read, page_read, copy_task_args,
      Advance, Images
<1>3. \E at \in Places : proc' = [proc EXCEPT ![t] = [proc[t] EXCEPT !.at = at]]
  BY DEF opened, header_read, check_fails, seek_phdr, phdr_read, page_read, copy_task_args,
    Advance, Go, Places, Reading
<1> QED
  BY <1>1, <1>2, <1>3, CallLemma, TypeKept

LEMMA DiskType ==
  ASSUME LoaderTypeOK, NEW t \in Tasks, disk_command(t) \/ disk_sector(t)
  PROVE  LoaderTypeOK'
<1>1. Sectors \in Nat /\ Len(volume) = Sectors
  BY CurrentLemma
<1>2. CASE disk_command(t)
  <2>1. /\ proc' = [proc EXCEPT ![t] = [proc[t] EXCEPT !.at = "sectors"]] /\ "sectors" \in Places
        /\ disk' \in 0 .. Sectors /\ UNCHANGED <<volume, buffer, temp_pos, image>>
    BY <1>1, <1>2 DEF disk_command, Go, Places, Opening, LoaderTypeOK
  <2>2. proc' \in [Tasks -> Calls]
    <3>1. [proc[t] EXCEPT !.at = "sectors"] \in Calls
      BY <2>1, CallLemma
    <3> QED
      BY <2>1, <3>1 DEF LoaderTypeOK
  <2> QED
    BY <2>1, <2>2 DEF LoaderTypeOK, Sectors
<1>3. CASE disk_sector(t)
  <2> DEFINE c == [proc[t] EXCEPT !.filled = proc[t].filled + 1]
  <2>1. /\ proc' = [proc EXCEPT ![t] = c]
        /\ proc[t].filled < Sectors /\ disk < Sectors
        /\ buffer' = [buffer EXCEPT ![proc[t].filled] = volume[disk + 1]]
        /\ disk' = disk + 1 /\ UNCHANGED <<volume, temp_pos, image>>
    BY <1>3 DEF disk_sector
  <2>2. c \in Calls
    <3>1. proc[t] \in Calls /\ proc[t].filled + 1 \in Nat
      BY CallLemma
    <3> QED
      BY <3>1 DEF Calls
  <2> HIDE DEF c
  <2>3. proc' \in [Tasks -> Calls]
    BY <2>1, <2>2 DEF LoaderTypeOK
  <2>4. disk' \in 0 .. Sectors /\ volume[disk + 1] \in Records
    BY <1>1, <2>1 DEF LoaderTypeOK
  <2>5. buffer' \in [0 .. Sectors - 1 -> Records \union {Unknown}]
    BY <2>1, <2>4 DEF LoaderTypeOK
  <2> QED
    BY <2>1, <2>3, <2>4, <2>5 DEF LoaderTypeOK, Sectors
<1> QED
  BY <1>2, <1>3

LEMMA HeaderType ==
  ASSUME LoaderTypeOK, NEW t \in Tasks,
         \/ read_header(t) \/ read_phdr(t) \/ skip_phdr(t) \/ seek_segment(t) \/ segment_loaded(t)
  PROVE  LoaderTypeOK'
<1>1. /\ proc[t] \in Calls /\ proc[t].i + 1 \in Nat /\ image \in Images /\ temp_pos \in Int
      /\ proc[t].phdr.offset \in Int
  BY CallLemma DEF LoaderTypeOK, Calls, ProgramHeaders
<1>2. CASE read_header(t)
  <2> DEFINE h == IF Current.kind = "header" THEN Current ELSE NoHeader
             c == [proc[t] EXCEPT !.at = "header_read", !.header = h]
  <2>1. h \in Headers
    BY CurrentLemma, UserIsCall
  <2>2. c \in Calls
    BY <1>1, <2>1 DEF Calls, Places, Reading
  <2>3. proc' = [proc EXCEPT ![t] = c] /\ UNCHANGED <<volume, disk, buffer, temp_pos, image>>
    BY <1>2 DEF read_header
  <2> QED
    BY <1>1, <2>2, <2>3, TypeKept
<1>3. CASE read_phdr(t)
  <2> DEFINE h == IF Current.kind = "phdr" THEN Current ELSE NoSegment
             c == [proc[t] EXCEPT !.at = "phdr_read", !.phdr = h]
  <2>1. h \in ProgramHeaders
    BY CurrentLemma, UserIsCall
  <2>2. c \in Calls
    BY <1>1, <2>1 DEF Calls, Places, Reading
  <2>3. proc' = [proc EXCEPT ![t] = c] /\ UNCHANGED <<volume, disk, buffer, temp_pos, image>>
    BY <1>3 DEF read_phdr
  <2> QED
    BY <1>1, <2>2, <2>3, TypeKept
<1>4. CASE skip_phdr(t) \/ segment_loaded(t)
  <2> DEFINE c == [proc[t] EXCEPT !.at = "checks", !.i = proc[t].i + 1]
  <2>1. c \in Calls
    BY <1>1 DEF Calls, Places, Reading
  <2>2. proc' = [proc EXCEPT ![t] = c] /\ UNCHANGED <<volume, disk, buffer, temp_pos, image>>
    BY <1>4 DEF skip_phdr, segment_loaded
  <2> QED
    BY <1>1, <2>1, <2>2, TypeKept
<1>5. CASE seek_segment(t)
  <2> DEFINE c == [proc[t] EXCEPT !.at = "pages", !.done = 0]
  <2>1. c \in Calls
    BY <1>1 DEF Calls, Places, Reading
  <2>2. proc' = [proc EXCEPT ![t] = c] /\ temp_pos' \in Int /\ UNCHANGED <<volume, disk, buffer, image>>
    BY <1>1, <1>5 DEF seek_segment
  <2> QED
    BY <1>1, <2>1, <2>2, TypeKept
<1> QED
  BY <1>2, <1>3, <1>4, <1>5

LEMMA PageType ==
  ASSUME LoaderTypeOK, NEW t \in Tasks, read_page(t)
  PROVE  LoaderTypeOK'
<1> DEFINE page == proc[t].phdr.vaddr + proc[t].done
           loaded == [x \in DOMAIN image[t] \union {page} |-> IF x = page THEN Current ELSE image[t][x]]
           c == [proc[t] EXCEPT !.at = "page_read", !.done = proc[t].done + 1]
<1>1. /\ proc' = [proc EXCEPT ![t] = c] /\ image' = [image EXCEPT ![t] = loaded]
      /\ UNCHANGED <<volume, disk, buffer, temp_pos>>
  BY DEF read_page
<1>2. c \in Calls
  <2>1. proc[t] \in Calls /\ proc[t].done + 1 \in Nat
    BY CallLemma
  <2> QED
    BY <2>1 DEF Calls, Places, Reading
<1>3. page \in Int /\ image \in Images /\ temp_pos \in Int
  BY CallLemma DEF LoaderTypeOK, Calls, ProgramHeaders
<1> HIDE DEF c, page
<1>4. loaded \in UNION {[D -> Records \union {Unknown}] : D \in SUBSET Int}
  <2>1. image[t] \in [DOMAIN image[t] -> Records \union {Unknown}] /\ DOMAIN image[t] \in SUBSET Int
    <3>1. image[t] \in UNION {[D -> Records \union {Unknown}] : D \in SUBSET Int}
      BY <1>3 DEF Images
    <3> QED
      BY <3>1
  <2>2. loaded \in [DOMAIN image[t] \union {page} -> Records \union {Unknown}]
    BY <2>1, CurrentLemma
  <2> HIDE DEF loaded
  <2>3. DOMAIN image[t] \union {page} \in SUBSET Int
    BY <1>3, <2>1
  <2> QED
    BY <2>2, <2>3
<1> HIDE DEF loaded
<1>5. image' \in Images
  BY <1>1, <1>3, <1>4 DEF Images
<1> QED
  BY <1>1, <1>2, <1>3, <1>5, TypeKept

LEMMA CallType ==
  ASSUME LoaderTypeOK, NEW t \in Tasks,
         sys_open(t) \/ alloc_stack(t) \/ copy_argument(t) \/ switch_program(t)
  PROVE  LoaderTypeOK'
<1>1. /\ proc[t] \in Calls /\ proc[t].i + 1 \in Nat /\ image \in Images /\ temp_pos \in Int
      /\ proc[t].i \in Nat /\ proc[t].dest \in Nat /\ proc[t].argv \in Seq(Strings)
  BY CallLemma DEF LoaderTypeOK, Calls
<1>2. CASE sys_open(t)
  <2>1. [User EXCEPT !.at = "command"] \in Calls
    BY UserIsCall DEF Calls, Places, Opening
  <2> QED
    BY <1>1, <1>2, <2>1, TypeKept DEF sys_open
<1>3. CASE alloc_stack(t)
  <2>1. PICK area \in [1 .. ArgPages -> Pages], argv \in SeqOf(Strings, ArgMax) :
          proc' = [proc EXCEPT ![t] = [User EXCEPT !.at = "arguments", !.area = area,
                                         !.argv = argv, !.dest = FirstString(Len(argv))]]
    BY <1>3 DEF alloc_stack
  <2>2. area \in Seq(Pages) /\ argv \in Seq(Strings) /\ FirstString(Len(argv)) \in Nat
    BY LoaderAssumption DEF SeqOf, FirstString, TaskArgsSize
  <2> DEFINE c == [User EXCEPT !.at = "arguments", !.area = area, !.argv = argv,
                               !.dest = FirstString(Len(argv))]
  <2>3. c \in Calls
    BY <2>2, UserIsCall DEF Calls, Places
  <2> QED
    BY <1>1, <1>3, <2>1, <2>3, TypeKept DEF alloc_stack
<1>4. CASE copy_argument(t)
  <2> DEFINE size == Len(proc[t].argv[proc[t].i + 1]) + 1
             c == [proc[t] EXCEPT !.i = proc[t].i + 1, !.dest = proc[t].dest + size]
             stopped == [proc[t] EXCEPT !.at = "halted"]
  <2>1. proc[t].argv[proc[t].i + 1] \in Seq(Nat)
    <3>1. proc[t].i < Len(proc[t].argv)
      BY <1>4 DEF copy_argument
    <3> QED
      BY <1>1, <3>1, LoaderAssumption
  <2>2. size \in Nat
    BY <2>1
  <2>3. proc' = [proc EXCEPT ![t] = c] \/ proc' = [proc EXCEPT ![t] = stopped]
    BY <1>4 DEF copy_argument, Go
  <2> HIDE DEF size
  <2>4. proc[t].dest + size \in Nat
    BY <1>1, <2>2
  <2>5. c \in Calls /\ stopped \in Calls
    BY <1>1, <2>4 DEF Calls, Places
  <2>6. UNCHANGED <<volume, disk, buffer, temp_pos, image>>
    BY <1>4 DEF copy_argument
  <2> QED
    BY <1>1, <2>3, <2>5, <2>6, TypeKept
<1>5. CASE switch_program(t)
  <2>1. NoPages \in [{} -> Records \union {Unknown}] /\ {} \in SUBSET Int
    BY DEF NoPages
  <2>2. NoPages \in UNION {[D -> Records \union {Unknown}] : D \in SUBSET Int}
    BY <2>1
  <2>3. image' \in Images
    BY <1>1, <1>5, <2>2 DEF switch_program, Images
  <2> QED
    BY <1>1, <1>5, <2>3, UserIsCall, TypeKept DEF switch_program
<1> QED
  BY <1>2, <1>3, <1>4, <1>5

LEMMA StepType ==
  ASSUME LoaderTypeOK, NEW t \in Tasks, sys_open(t) \/ Continue(t)
  PROVE  LoaderTypeOK'
BY PlaceType, DiskType, HeaderType, PageType, CallType
DEF Continue, read_disk, load_elf_file, load_phdr, copy_args

LEMMA InitType == LoaderInit => LoaderTypeOK
<1> SUFFICES ASSUME LoaderInit PROVE LoaderTypeOK
  OBVIOUS
<1>1. volume \in Seq(Records) /\ Sectors \in Nat
  BY LoaderAssumption DEF LoaderInit, Sectors
<1>2. NoPages \in UNION {[D -> Records \union {Unknown}] : D \in SUBSET Int}
  <2>1. NoPages \in [{} -> Records \union {Unknown}] /\ {} \in SUBSET Int
    BY DEF NoPages
  <2> QED
    BY <2>1
<1> QED
  BY <1>1, <1>2, UserIsCall DEF LoaderInit, LoaderTypeOK, Images

\* The arguments a task has copied so far are in its area below dest, if its table is in
\* one piece.
CopiedSoFar(t) ==
  /\ proc[t].at \in {"arguments", "copied"} => proc[t].area \in Areas
  /\ proc[t].at = "arguments" =>
       /\ proc[t].i <= Len(proc[t].argv) /\ FirstString(Len(proc[t].argv)) <= proc[t].dest
       /\ proc[t].i > 0 => proc[t].dest <= AreaSize
       /\ TableInOnePiece(proc[t].area, Len(proc[t].argv)) =>
            \A k \in 1 .. proc[t].i : Arrived(memory, proc[t].area, proc[t].argv, k, proc[t].dest)

\* No two tasks have a page of their areas in common.
AreasApart ==
  \A t, u \in Tasks : t # u => ToSet(proc[t].area) \intersect ToSet(proc[u].area) = {}

ArgsInv ==
  /\ LoaderTypeOK /\ memory \in Contents /\ AreasApart
  /\ \A t \in Tasks : CopiedSoFar(t)

\* What a step of task t does to memory and to its own call.
Arrives(t) ==
  /\ memory' \in Contents /\ CopiedSoFar(t)'
  /\ \A u \in Tasks : u # t =>
       proc'[u] = proc[u] /\ ToSet(proc'[t].area) \intersect ToSet(proc[u].area) = {}
  /\ TableInOnePiece(proc[t].area, Len(proc[t].argv)) =>
       /\ ~At(t, "copied") /\ At(t, "copied")' => Finds(memory', proc[t].area, proc[t].argv)
       /\ \A a \in Memory : memory'[a] # memory[a] => a \div MEM_PAGE_SIZE \in ToSet(proc[t].area)

\* A task's step that leaves its area as it is, or has none any more.
LEMMA SameArea ==
  ASSUME ArgsInv, NEW t \in Tasks, NEW c, proc' = [proc EXCEPT ![t] = c],
         c.area = proc[t].area \/ c.area = <<>>
  PROVE  \A u \in Tasks : u # t =>
           proc'[u] = proc[u] /\ ToSet(proc'[t].area) \intersect ToSet(proc[u].area) = {}
<1>1. proc'[t] = c /\ \A u \in Tasks : u # t => proc'[u] = proc[u]
  BY DEF ArgsInv, LoaderTypeOK
<1>2. ToSet(<<>>) = {}
  BY DEF ToSet
<1> QED
  BY <1>1, <1>2 DEF ArgsInv, AreasApart

\* The steps of sys_execve outside of copy_args.
LEMMA OtherArgs ==
  ASSUME ArgsInv, NEW t \in Tasks, sys_open(t) \/ Continue(t),
         ~alloc_stack(t), ~copy_args(t), ~switch_program(t)
  PROVE  Arrives(t)
<1>1. proc \in [Tasks -> Calls] /\ proc[t] \in Calls
  BY DEF ArgsInv, LoaderTypeOK
<1>2. memory' = memory /\ \E c : /\ proc' = [proc EXCEPT ![t] = c]
                                 /\ c.area = proc[t].area \/ c.area = <<>>
                                 /\ c.at \notin {"arguments", "copied"}
  <2>1. CASE sys_open(t)
    <3> DEFINE c == [User EXCEPT !.at = "command"]
    <3>1. c.area = <<>> /\ c.at = "command"
      BY DEF User
    <3> QED
      BY <2>1, <3>1 DEF sys_open
  <2>2. CASE disk_command(t) \/ opened(t) \/ header_read(t) \/ seek_phdr(t) \/ phdr_read(t) \/ page_read(t)
               \/ check_fails(t)
    <3>1. PICK at \in Places : at \notin {"arguments", "copied"}
                               /\ proc' = [proc EXCEPT ![t] = [proc[t] EXCEPT !.at = at]]
      BY <2>2 DEF disk_command, opened, header_read, seek_phdr, phdr_read, page_read, check_fails,
        Advance, Go, Places, Reading, Opening
    <3>2. [proc[t] EXCEPT !.at = at].area = proc[t].area /\ [proc[t] EXCEPT !.at = at].at = at
      BY <1>1 DEF Calls
    <3>3. memory' = memory
      BY <2>2 DEF disk_command, opened, header_read, seek_phdr, phdr_read, page_read, check_fails, Advance
    <3> QED
      BY <3>1, <3>2, <3>3
  <2>3. CASE disk_sector(t)
    <3> DEFINE c == [proc[t] EXCEPT !.filled = proc[t].filled + 1]
    <3>1. c.area = proc[t].area /\ c.at = "sectors"
      BY <1>1, <2>3 DEF disk_sector, At, Calls
    <3> QED
      BY <2>3, <3>1 DEF disk_sector
  <2>4. CASE read_header(t)
    <3> DEFINE c == [proc[t] EXCEPT !.at = "header_read",
                                    !.header = IF Current.kind = "header" THEN Current ELSE NoHeader]
    <3>1. c.area = proc[t].area /\ c.at = "header_read"
      BY <1>1 DEF Calls
    <3> QED
      BY <2>4, <3>1 DEF read_header
  <2>5. CASE read_phdr(t)
    <3> DEFINE c == [proc[t] EXCEPT !.at = "phdr_read",
                                    !.phdr = IF Current.kind = "phdr" THEN Current ELSE NoSegment]
    <3>1. c.area = proc[t].area /\ c.at = "phdr_read"
      BY <1>1 DEF Calls
    <3> QED
      BY <2>5, <3>1 DEF read_phdr
  <2>6. CASE skip_phdr(t) \/ segment_loaded(t)
    <3> DEFINE c == [proc[t] EXCEPT !.at = "checks", !.i = proc[t].i + 1]
    <3>1. c.area = proc[t].area /\ c.at = "checks"
      BY <1>1 DEF Calls
    <3> QED
      BY <2>6, <3>1 DEF skip_phdr, segment_loaded
  <2>7. CASE seek_segment(t)
    <3> DEFINE c == [proc[t] EXCEPT !.at = "pages", !.done = 0]
    <3>1. c.area = proc[t].area /\ c.at = "pages"
      BY <1>1 DEF Calls
    <3> QED
      BY <2>7, <3>1 DEF seek_segment
  <2>8. CASE read_page(t)
    <3> DEFINE c == [proc[t] EXCEPT !.at = "page_read", !.done = proc[t].done + 1]
    <3>1. c.area = proc[t].area /\ c.at = "page_read"
      BY <1>1 DEF Calls
    <3> QED
      BY <2>8, <3>1 DEF read_page
  <2> QED
    BY <2>1, <2>2, <2>3, <2>4, <2>5, <2>6, <2>7, <2>8 DEF Continue, read_disk, load_elf_file, load_phdr
<1>3. \A u \in Tasks : u # t =>
        proc'[u] = proc[u] /\ ToSet(proc'[t].area) \intersect ToSet(proc[u].area) = {}
  BY <1>2, SameArea
<1>4. proc'[t].at \notin {"arguments", "copied"}
  BY <1>1, <1>2
<1> QED
  BY <1>2, <1>3, <1>4 DEF ArgsInv, Arrives, CopiedSoFar, At

LEMMA StackArgs ==
  ASSUME ArgsInv, NEW t \in Tasks, alloc_stack(t)
  PROVE  Arrives(t)
<1>1. proc \in [Tasks -> Calls] /\ proc[t] \in Calls /\ memory' = memory /\ memory \in Contents
  BY DEF ArgsInv, LoaderTypeOK, alloc_stack
<1>2. PICK area \in [1 .. ArgPages -> Pages \ UNION {ToSet(proc[u].area) : u \in Tasks}],
           argv \in SeqOf(Strings, ArgMax) :
        /\ IsInjective(area)
        /\ proc' = [proc EXCEPT ![t] = [User EXCEPT !.at = "arguments", !.area = area,
                                          !.argv = argv, !.dest = FirstString(Len(argv))]]
  BY DEF alloc_stack
<1>3. argv \in Seq(Strings) /\ Len(argv) \in Nat /\ FirstString(Len(argv)) \in Nat
  BY LoaderAssumption DEF SeqOf, FirstString, TaskArgsSize
<1>4. /\ proc'[t].at = "arguments" /\ proc'[t].area = area /\ proc'[t].argv = argv
      /\ proc'[t].dest = FirstString(Len(argv)) /\ proc'[t].i = 0
      /\ \A u \in Tasks : u # t => proc'[u] = proc[u]
  BY <1>1, <1>2 DEF User
<1>5. area \in Areas
  BY <1>2 DEF Areas
<1>6. CopiedSoFar(t)'
  <2>1. 1 .. 0 = {} /\ ~(0 > 0)
    OBVIOUS
  <2> QED
    BY <1>1, <1>3, <1>4, <1>5, <2>1 DEF CopiedSoFar
<1>7. ~At(t, "copied")'
  BY <1>4 DEF At
<1>8. ASSUME NEW u \in Tasks, u # t
      PROVE  ToSet(area) \intersect ToSet(proc[u].area) = {}
  <2>1. \A p \in ToSet(area) : p \notin UNION {ToSet(proc[w].area) : w \in Tasks}
    BY <1>2, LoaderAssumption DEF ToSet
  <2> QED
    BY <2>1
<1> QED
  BY <1>1, <1>4, <1>6, <1>7, <1>8 DEF Arrives

LEMMA ArgumentArgs ==
  ASSUME ArgsInv, NEW t \in Tasks, copy_argument(t)
  PROVE  Arrives(t)
<1> DEFINE d == proc[t].area
           argv == proc[t].argv
           n == Len(argv)
           i == proc[t].i
           dest == proc[t].dest
           string == argv[i + 1]
           size == Len(string) + 1
<1>1. /\ proc \in [Tasks -> Calls] /\ proc[t] \in Calls /\ t \in Tasks
      /\ proc[t].at = "arguments" /\ i < n
      /\ IF Mapped(d, dest, size)
         THEN /\ memory' = CopyArgument(memory, d, i, dest, string)
              /\ proc' = [proc EXCEPT ![t].i = i + 1, ![t].dest = dest + size]
         ELSE Go(t, "halted") /\ UNCHANGED memory
  BY DEF ArgsInv, LoaderTypeOK, copy_argument, At
<1>2. /\ argv \in Seq(Strings) /\ n \in Nat /\ i \in Nat /\ dest \in Nat /\ i + 1 \in 1 .. n
      /\ i \in 0 .. n - 1
  BY <1>1 DEF Calls
<1>3. string \in Seq(Nat) /\ Len(string) \in Nat /\ size \in Nat /\ size > 0
  <2>1. string \in Strings
    BY <1>2
  <2>2. string \in Seq(Nat)
    BY <2>1, LoaderAssumption
  <2> HIDE DEF string
  <2> QED
    BY <2>2
<1>4. /\ memory \in Contents /\ d \in Areas /\ FirstString(n) <= dest
      /\ TableInOnePiece(d, n) => \A k \in 1 .. i : Arrived(memory, d, argv, k, dest)
  BY <1>1 DEF ArgsInv, CopiedSoFar
<1>5. CASE ~Mapped(d, dest, size)
  <2> DEFINE c == [proc[t] EXCEPT !.at = "halted"]
  <2>1. /\ proc' = [proc EXCEPT ![t] = c] /\ c.area = proc[t].area /\ c.at = "halted" /\ memory' = memory
    BY <1>1, <1>5 DEF Go, Calls
  <2> HIDE DEF c
  <2>2. proc'[t].at = "halted"
    BY <1>1, <2>1
  <2>3. \A u \in Tasks : u # t =>
          proc'[u] = proc[u] /\ ToSet(proc'[t].area) \intersect ToSet(proc[u].area) = {}
    BY <2>1, SameArea
  <2> QED
    BY <1>4, <2>1, <2>2, <2>3 DEF CopiedSoFar, Arrives, At
<1>6. CASE Mapped(d, dest, size)
  <2> DEFINE m1 == CopyArgument(memory, d, i, dest, string)
             end == dest + size
  <2>1. /\ memory' = m1
        /\ proc'[t].at = "arguments" /\ proc'[t].i = i + 1 /\ proc'[t].dest = end
        /\ proc'[t].area = d /\ proc'[t].argv = argv
    BY <1>1, <1>6 DEF Calls
  <2>7. \A u \in Tasks : u # t =>
          proc'[u] = proc[u] /\ ToSet(proc'[t].area) \intersect ToSet(proc[u].area) = {}
    <3> DEFINE c == [proc[t] EXCEPT !.i = i + 1, !.dest = end]
    <3>1. proc' = [proc EXCEPT ![t] = c] /\ c.area = proc[t].area
      BY <1>1, <1>6 DEF Calls
    <3> HIDE DEF c
    <3> QED
      BY <3>1, SameArea
  <2>2. m1 \in Contents
    BY <1>2, <1>3, <1>4, <1>6, ArgumentTyped
  <2>3. end <= AreaSize /\ end \in Nat /\ dest <= end /\ FirstString(n) <= end
    <3>1. end <= AreaSize
      BY <1>2, <1>3, <1>4, <1>6, MappedLemma
    <3> HIDE DEF size
    <3> QED
      BY <1>2, <1>3, <1>4, <3>1 DEF FirstString, TaskArgsSize
  <2>4. ASSUME TableInOnePiece(d, n)
        PROVE  /\ \A k \in 1 .. i + 1 : Arrived(m1, d, argv, k, end)
               /\ \A a \in Memory : m1[a] # memory[a] => a \div MEM_PAGE_SIZE \in ToSet(d)
    <3>1. /\ Load(m1, d, TaskArgsSize + i) = dest
          /\ \A j \in DOMAIN string : Load(m1, d, dest + j - 1) = string[j]
          /\ Load(m1, d, dest + Len(string)) = Nul
          /\ \A v \in 0 .. dest - 1 : v # TaskArgsSize + i => Load(m1, d, v) = Load(memory, d, v)
          /\ \A a \in Memory : m1[a] # memory[a] => a \div MEM_PAGE_SIZE \in ToSet(d)
      <4>1. Mapped(d, dest, Len(string) + 1)
        BY <1>6
      <4> HIDE DEF d, n, i, dest, string
      <4> QED
        BY <1>2, <1>3, <1>4, <2>4, <4>1, ArgumentLemma
    <3> HIDE DEF m1, d, argv, i, dest
    <3>2. ASSUME NEW k \in 1 .. i + 1
          PROVE  Arrived(m1, d, argv, k, end)
      <4>1. CASE k = i + 1
        <5>1. TaskArgsSize + k - 1 = TaskArgsSize + i /\ argv[k] = string
          BY <1>2, <4>1 DEF TaskArgsSize
        <5>2. Load(m1, d, TaskArgsSize + k - 1) = dest /\ dest + Len(string) < end
          BY <1>2, <1>3, <3>1, <5>1
        <5> QED
          BY <1>2, <1>4, <3>1, <5>1, <5>2 DEF Arrived
      <4>2. CASE k # i + 1
        <5>1. k \in 1 .. i /\ k \in 1 .. n
          BY <1>2, <3>2, <4>2
        <5>2. Arrived(memory, d, argv, k, dest)
          BY <1>4, <2>4, <5>1
        <5>3. ASSUME NEW v \in 0 .. dest - 1, v = TaskArgsSize + k - 1 \/ v >= FirstString(n)
              PROVE  Load(m1, d, v) = Load(memory, d, v)
          <6>1. v # TaskArgsSize + i
            BY <1>2, <5>1, <5>3 DEF FirstString, TaskArgsSize
          <6> QED
            BY <3>1, <6>1
        <5> HIDE DEF end
        <5> QED
          BY <1>2, <2>3, <5>1, <5>2, <5>3, ArrivedKept
      <4> QED
        BY <4>1, <4>2
    <3> QED
      BY <3>1, <3>2
  <2> HIDE DEF m1, end
  <2>6. CopiedSoFar(t)'
    <3>1. i + 1 <= n
      BY <1>2
    <3> QED
      BY <1>4, <2>1, <2>2, <2>3, <2>4, <3>1 DEF CopiedSoFar
  <2> QED
    BY <2>1, <2>2, <2>4, <2>6, <2>7 DEF Arrives, At
<1> QED
  BY <1>5, <1>6

LEMMA TaskArgsArgs ==
  ASSUME ArgsInv, NEW t \in Tasks, copy_task_args(t)
  PROVE  Arrives(t)
<1> DEFINE d == proc[t].area
           argv == proc[t].argv
           n == Len(argv)
           m1 == memory_copy_uvm_data(memory, d, 0, TaskArgs(n))
<1>1. /\ proc \in [Tasks -> Calls] /\ proc[t] \in Calls /\ t \in Tasks
      /\ proc[t].at = "arguments" /\ proc[t].i = n /\ memory' = m1
      /\ proc'[t].at = "copied" /\ proc'[t].area = d
  BY DEF ArgsInv, LoaderTypeOK, copy_task_args, At, Go, Calls
<1>2. argv \in Seq(Strings) /\ n \in Nat /\ proc[t].dest \in Nat
  BY <1>1 DEF Calls
<1>3. /\ memory \in Contents /\ d \in Areas
      /\ n > 0 => proc[t].dest <= AreaSize
      /\ TableInOnePiece(d, n) => \A k \in 1 .. n : Arrived(memory, d, argv, k, proc[t].dest)
  BY <1>1 DEF ArgsInv, CopiedSoFar
<1>4. m1 \in Contents
  <2>1. 0 \in Nat /\ 0 + Len(TaskArgs(n)) <= AreaSize /\ TaskArgs(n) \in Seq(Int)
    BY <1>2, LoaderAssumption DEF TaskArgs, Junk, TaskArgsSize, AreaSize
  <2> QED
    BY <1>3, <2>1, CopyLemma
<1>5. ASSUME TableInOnePiece(d, n)
      PROVE  Finds(m1, d, argv)
             /\ \A a \in Memory : m1[a] # memory[a] => a \div MEM_PAGE_SIZE \in ToSet(d)
  BY <1>2, <1>3, <1>5, FindsLemma
<1>6. \A u \in Tasks : u # t =>
          proc'[u] = proc[u] /\ ToSet(proc'[t].area) \intersect ToSet(proc[u].area) = {}
  <2> DEFINE c == [proc[t] EXCEPT !.at = "copied"]
  <2>1. proc' = [proc EXCEPT ![t] = c] /\ c.area = proc[t].area
    BY <1>1 DEF copy_task_args, Go, Calls
  <2> HIDE DEF c
  <2> QED
    BY <2>1, SameArea
<1> HIDE DEF m1
<1> QED
  BY <1>1, <1>3, <1>4, <1>5, <1>6 DEF CopiedSoFar, Arrives

LEMMA SwitchArgs ==
  ASSUME ArgsInv, NEW t \in Tasks, switch_program(t)
  PROVE  Arrives(t)
<1>1. proc \in [Tasks -> Calls] /\ memory \in Contents
  BY DEF LoaderTypeOK, ArgsInv
<1>2. memory' = [a \in DOMAIN memory |->
                  IF a \div MEM_PAGE_SIZE \in ToSet(proc[t].area) THEN Junk ELSE memory[a]]
  BY DEF switch_program
<1>3. proc' = [proc EXCEPT ![t] = User] /\ User.at = "user" /\ User.area = <<>>
  BY DEF switch_program, User
<1>4. memory' \in Contents
  BY <1>1, <1>2 DEF Contents, Junk
<1>5. \A u \in Tasks : u # t =>
        proc'[u] = proc[u] /\ ToSet(proc'[t].area) \intersect ToSet(proc[u].area) = {}
  BY <1>3, SameArea
<1>6. \A a \in Memory : memory'[a] # memory[a] => a \div MEM_PAGE_SIZE \in ToSet(proc[t].area)
  BY <1>1, <1>2 DEF Contents
<1>7. proc'[t].at = "user"
  BY <1>1, <1>3
<1> QED
  BY <1>4, <1>5, <1>6, <1>7 DEF Arrives, CopiedSoFar, At

LEMMA StepArgs ==
  ASSUME ArgsInv, NEW t \in Tasks, sys_open(t) \/ Continue(t)
  PROVE  Arrives(t)
BY OtherArgs, StackArgs, ArgumentArgs, TaskArgsArgs, SwitchArgs DEF copy_args

\* Every task's table of pointers is in one piece.
Tables == \A t \in Tasks : TableInOnePiece(proc[t].area, Len(proc[t].argv))

\* Another task's arguments stay where they are: they are in pages of its own.
LEMMA OthersKept ==
  ASSUME ArgsInv, NEW t \in Tasks, NEW u \in Tasks, u # t, Arrives(t),
         TableInOnePiece(proc[t].area, Len(proc[t].argv))
  PROVE  CopiedSoFar(u)'
<1> DEFINE d == proc[u].area
           argv == proc[u].argv
           dest == proc[u].dest
<1>1. proc[u] \in Calls /\ proc'[u] = proc[u] /\ CopiedSoFar(u)
  BY DEF ArgsInv, LoaderTypeOK, Arrives
<1>2. argv \in Seq(Strings) /\ proc[u].i \in Nat /\ dest \in Nat
  BY <1>1 DEF Calls
<1>3. CASE proc[u].at # "arguments"
  BY <1>1, <1>3 DEF CopiedSoFar
<1>4. CASE proc[u].at = "arguments"
  <2>1. d \in Areas /\ proc[u].i <= Len(argv) /\ (proc[u].i > 0 => dest <= AreaSize)
    BY <1>1, <1>4 DEF CopiedSoFar
  <2>2. /\ ToSet(proc[t].area) \intersect ToSet(d) = {}
        /\ \A a \in Memory : memory'[a] # memory[a] => a \div MEM_PAGE_SIZE \in ToSet(proc[t].area)
    BY DEF ArgsInv, AreasApart, Arrives
  <2>3. ASSUME TableInOnePiece(d, Len(argv)), NEW k \in 1 .. proc[u].i
        PROVE  Arrived(memory', d, argv, k, dest)
    <3>1. /\ Arrived(memory, d, argv, k, dest) /\ dest <= AreaSize /\ k \in 1 .. Len(argv)
          /\ AreaSize \in Nat
      BY <1>1, <1>2, <1>4, <2>1, <2>3, ArgsAssumption, LoaderAssumption DEF CopiedSoFar, AreaSize
    <3>2. ASSUME NEW v \in 0 .. dest - 1
          PROVE  Load(memory', d, v) = Load(memory, d, v)
      <4>1. v \in 0 .. AreaSize - 1
        BY <1>2, <3>1
      <4>2. memory_get_paddr(d, v) \in Memory /\ memory_get_paddr(d, v) \div MEM_PAGE_SIZE \in ToSet(d)
        BY <2>1, <4>1, PaddrLemma
      <4> QED
        BY <2>2, <4>2 DEF Load
    <3> HIDE DEF d, argv, dest
    <3> QED
      BY <1>2, <3>1, <3>2, ArrivedKept
  <2> QED
    BY <1>1, <1>4, <2>3 DEF CopiedSoFar
<1> QED
  BY <1>3, <1>4

LEMMA NextArgs ==
  ASSUME ArgsInv, [LoaderNext]_vars, Tables \/ \E t \in Tasks : Tasks = {t}
  PROVE  ArgsInv'
<1>1. CASE UNCHANGED vars
  BY <1>1 DEF vars, ArgsInv, LoaderTypeOK, AreasApart, CopiedSoFar, Sectors
<1>2. ASSUME NEW t \in Tasks, sys_open(t) \/ Continue(t)
      PROVE  ArgsInv'
  <2>1. LoaderTypeOK' /\ Arrives(t)
    BY <1>2, StepType, StepArgs DEF ArgsInv
  <2>2. memory' \in Contents /\ CopiedSoFar(t)'
    BY <2>1 DEF Arrives
  <2>3. ASSUME NEW u \in Tasks, u # t
        PROVE  CopiedSoFar(u)'
    <3>1. TableInOnePiece(proc[t].area, Len(proc[t].argv))
      BY <2>3 DEF Tables
    <3> QED
      BY <2>1, <2>3, <3>1, OthersKept
  <2>4. ASSUME NEW u \in Tasks, NEW w \in Tasks, u # w
        PROVE  ToSet(proc'[u].area) \intersect ToSet(proc'[w].area) = {}
    BY <2>1, <2>4 DEF ArgsInv, AreasApart, Arrives
  <2> QED
    BY <2>1, <2>2, <2>3, <2>4 DEF ArgsInv, AreasApart
<1> QED
  BY <1>1, <1>2 DEF LoaderNext

LEMMA InitArgs == LoaderInit => ArgsInv
<1> SUFFICES ASSUME LoaderInit PROVE ArgsInv
  OBVIOUS
<1>1. memory \in Contents
  BY DEF LoaderInit, Contents, Memory, Blank, Junk
<1>2. \A t \in Tasks : proc[t].at = "user" /\ proc[t].area = <<>>
  BY DEF LoaderInit, User
<1>3. ToSet(<<>>) = {}
  BY DEF ToSet
<1> QED
  BY <1>1, <1>2, <1>3, InitType DEF ArgsInv, AreasApart, CopiedSoFar

\* What a step of ArgsArrive says.
ArgsStep ==
  Tables => /\ \A t \in Tasks : ~At(t, "copied") /\ At(t, "copied")' =>
                 Finds(memory', proc[t].area, proc[t].argv)
            /\ \A a \in DOMAIN memory : memory'[a] # memory[a] =>
                 \E t \in Tasks : a \div MEM_PAGE_SIZE \in ToSet(proc[t].area)

LEMMA ArgsStepLemma == ArgsInv /\ [LoaderNext]_vars => [ArgsStep]_vars
<1> SUFFICES ASSUME ArgsInv, LoaderNext, Tables
             PROVE  ArgsStep
  BY DEF ArgsStep
<1>1. PICK t \in Tasks : sys_open(t) \/ Continue(t)
  BY DEF LoaderNext
<1>2. Arrives(t) /\ TableInOnePiece(proc[t].area, Len(proc[t].argv))
  BY <1>1, StepArgs DEF Tables
<1>3. \A u \in Tasks : ~At(u, "copied") /\ At(u, "copied")' => u = t
  BY <1>2 DEF Arrives, At
<1>4. DOMAIN memory = Memory
  BY DEF ArgsInv, Contents
<1> QED
  BY <1>2, <1>3, <1>4 DEF Arrives, ArgsStep

\* What a caller passes to execve is what main finds: argc and every string through its
\* pointer, wherever the pages of the area lie, however the strings cross their borders and
\* whoever else is in copy_args; and copying writes to no other page.  Provided that no
\* table of pointers ever crosses the border of pages that are not adjacent.
THEOREM ArgumentsArrive == LoaderSpec /\ []Tables => ArgsArrive
<1>1. ArgsInv /\ [LoaderNext]_vars /\ Tables => ArgsInv'
  BY NextArgs
<1>2. LoaderSpec /\ []Tables => []ArgsInv
  BY <1>1, InitArgs, PTL DEF LoaderSpec
<1>3. LoaderSpec /\ []Tables => [][ArgsStep]_vars
  BY <1>2, ArgsStepLemma, PTL DEF LoaderSpec
<1> QED
  BY <1>3, PTL DEF ArgsArrive, ArgsStep, Tables

\* With one task in sys_execve the same holds of every call whose own table is in one
\* piece, whatever an earlier one did.
THEOREM OneCallersArgumentsArrive ==
  ASSUME NEW task \in Tasks, Tasks = {task}
  PROVE  LoaderSpec => ArgsArrive
<1>1. ArgsInv /\ [LoaderNext]_vars => ArgsInv'
  BY NextArgs
<1>2. LoaderSpec => []ArgsInv
  BY <1>1, InitArgs, PTL DEF LoaderSpec
<1>3. LoaderSpec => [][ArgsStep]_vars
  BY <1>2, ArgsStepLemma, PTL DEF LoaderSpec
<1> QED
  BY <1>3, PTL DEF ArgsArrive, ArgsStep, Tables

\* A task's arguments are at most ArgMax, and it has an area for them.
ArgsBounded ==
  \A t \in Tasks : proc[t].argv = <<>> \/ (proc[t].area \in Areas /\ Len(proc[t].argv) <= ArgMax)

LEMMA ArgsBoundedStep ==
  ASSUME LoaderTypeOK, ArgsBounded, [LoaderNext]_vars
  PROVE  ArgsBounded'
<1>1. CASE UNCHANGED vars
  BY <1>1 DEF vars, ArgsBounded
<1>2. ASSUME NEW t \in Tasks, sys_open(t) \/ Continue(t)
      PROVE  ArgsBounded'
  <2>1. proc \in [Tasks -> Calls] /\ proc[t] \in Calls
    BY DEF LoaderTypeOK
  <2>2. \E c : /\ proc' = [proc EXCEPT ![t] = c]
               /\ \/ c.argv = <<>> \/ (c.argv = proc[t].argv /\ c.area = proc[t].area)
                  \/ (c.area \in Areas /\ Len(c.argv) <= ArgMax)
    <3>1. CASE sys_open(t)
      <4> DEFINE c == [User EXCEPT !.at = "command"]
      <4>1. c.argv = <<>> /\ proc' = [proc EXCEPT ![t] = c]
        BY <3>1 DEF User, sys_open
      <4> QED
        BY <4>1
    <3>2. CASE \/ disk_command(t) \/ opened(t) \/ header_read(t) \/ seek_phdr(t) \/ phdr_read(t)
               \/ page_read(t) \/ check_fails(t) \/ copy_task_args(t)
      <4>1. PICK at \in Places : proc' = [proc EXCEPT ![t] = [proc[t] EXCEPT !.at = at]]
        BY <3>2 DEF disk_command, opened, header_read, seek_phdr, phdr_read, page_read, check_fails,
          copy_task_args, Advance, Go, Places, Reading, Opening
      <4>2. [proc[t] EXCEPT !.at = at].area = proc[t].area /\ [proc[t] EXCEPT !.at = at].argv = proc[t].argv
        BY <2>1 DEF Calls
      <4> QED
        BY <4>1, <4>2
    <3>3. CASE disk_sector(t) \/ read_header(t) \/ read_phdr(t) \/ skip_phdr(t) \/ segment_loaded(t)
               \/ seek_segment(t) \/ read_page(t) \/ copy_argument(t)
      <4>1. /\ proc' = [proc EXCEPT ![t] = proc'[t]]
            /\ proc'[t].argv = proc[t].argv /\ proc'[t].area = proc[t].area
        BY <2>1, <3>3 DEF disk_sector, read_header, read_phdr, skip_phdr, segment_loaded, seek_segment,
          read_page, copy_argument, Go, Calls
      <4> QED
        BY <4>1
    <3>4. CASE alloc_stack(t)
      <4>1. PICK area \in [1 .. ArgPages -> Pages \ UNION {ToSet(proc[u].area) : u \in Tasks}],
                 argv \in SeqOf(Strings, ArgMax) :
              /\ IsInjective(area)
              /\ proc' = [proc EXCEPT ![t] = [User EXCEPT !.at = "arguments", !.area = area,
                                                !.argv = argv, !.dest = FirstString(Len(argv))]]
        BY <3>4 DEF alloc_stack
      <4> DEFINE c == [User EXCEPT !.at = "arguments", !.area = area, !.argv = argv,
                                   !.dest = FirstString(Len(argv))]
      <4>2. c.area = area /\ c.argv = argv /\ area \in Areas /\ proc' = [proc EXCEPT ![t] = c]
        BY <4>1 DEF User, Areas
      <4>3. Len(argv) <= ArgMax
        BY LoaderAssumption DEF SeqOf
      <4> QED
        BY <4>2, <4>3
    <3>5. CASE switch_program(t)
      <4>1. proc' = [proc EXCEPT ![t] = User] /\ User.argv = <<>>
        BY <3>5 DEF switch_program, User
      <4> QED
        BY <4>1
    <3> QED
      BY <1>2, <3>1, <3>2, <3>3, <3>4, <3>5
      DEF Continue, read_disk, load_elf_file, load_phdr, copy_args
  <2> QED
    BY <2>1, <2>2 DEF ArgsBounded
<1> QED
  BY <1>1, <1>2 DEF LoaderNext

\* A table that ends on the area's first page is in one piece.
LEMMA ShortTable ==
  ASSUME NEW d \in Areas, NEW n \in Nat, TaskArgsSize + n <= MEM_PAGE_SIZE
  PROVE  TableInOnePiece(d, n)
<1> SUFFICES ASSUME NEW i \in 0 .. n - 1
             PROVE  TableEntry(d, i) = memory_get_paddr(d, TaskArgsSize + i)
  BY DEF TableInOnePiece
<1>1. MEM_PAGE_SIZE \in Nat /\ MEM_PAGE_SIZE # 0 /\ AreaSize >= TaskArgsSize /\ AreaSize \in Nat
      /\ ArgPages \in Nat /\ AreaSize = ArgPages * MEM_PAGE_SIZE
  BY ArgsAssumption, LoaderAssumption DEF AreaSize
<1>2. AreaSize >= MEM_PAGE_SIZE
  <2>1. ArgPages # 0
    BY <1>1 DEF TaskArgsSize
  <2>2. \A k \in Nat, m \in Nat : k # 0 => k * m >= m
    OBVIOUS
  <2> QED
    BY <1>1, <2>1, <2>2
<1>3. TaskArgsSize + i \in 0 .. MEM_PAGE_SIZE - 1 /\ TaskArgsSize \in 0 .. MEM_PAGE_SIZE - 1
  BY <1>1 DEF TaskArgsSize
<1>4. ASSUME NEW v \in 0 .. MEM_PAGE_SIZE - 1
      PROVE  memory_get_paddr(d, v) = d[1] * MEM_PAGE_SIZE + v /\ d[1] \in Nat
  <2>1. v \in 0 .. AreaSize - 1 /\ v \div MEM_PAGE_SIZE = 0 /\ v % MEM_PAGE_SIZE = v
    BY <1>1, <1>2
  <2>2. /\ memory_get_paddr(d, v) = d[v \div MEM_PAGE_SIZE + 1] * MEM_PAGE_SIZE + (v % MEM_PAGE_SIZE)
        /\ d[v \div MEM_PAGE_SIZE + 1] \in Pages
    BY <2>1, PaddrLemma
  <2>3. 0 + 1 = 1
    OBVIOUS
  <2> QED
    BY <2>1, <2>2, <2>3, ArgsAssumption
<1>5. d[1] * MEM_PAGE_SIZE \in Nat
  BY <1>1, <1>3, <1>4
<1>6. /\ memory_get_paddr(d, TaskArgsSize) = d[1] * MEM_PAGE_SIZE + TaskArgsSize
      /\ memory_get_paddr(d, TaskArgsSize + i) = d[1] * MEM_PAGE_SIZE + (TaskArgsSize + i)
  BY <1>3, <1>4
<1> QED
  BY <1>5, <1>6 DEF TableEntry, TaskArgsSize

\* If no caller passes more arguments than there is room for pointers on the first page
\* of an area, any number of tasks may be in sys_execve and all find what was passed.
THEOREM ShortTablesArrive ==
  ASSUME TaskArgsSize + ArgMax <= MEM_PAGE_SIZE
  PROVE  LoaderSpec => ArgsArrive
<1>1. LoaderInit => ArgsBounded
  BY DEF LoaderInit, ArgsBounded, User
<1>2. LoaderTypeOK /\ ArgsBounded => Tables
  <2> SUFFICES ASSUME LoaderTypeOK, ArgsBounded, NEW t \in Tasks
               PROVE  TableInOnePiece(proc[t].area, Len(proc[t].argv))
    BY DEF Tables
  <2>1. CASE proc[t].argv = <<>>
    <3>1. 0 .. 0 - 1 = {} /\ Len(<<>>) = 0
      OBVIOUS
    <3> QED
      BY <2>1, <3>1 DEF TableInOnePiece
  <2>2. CASE proc[t].argv # <<>>
    <3>1. proc[t].area \in Areas /\ Len(proc[t].argv) <= ArgMax
      BY <2>2 DEF ArgsBounded
    <3>2. Len(proc[t].argv) \in Nat
      BY DEF LoaderTypeOK, Calls
    <3>3. TaskArgsSize + Len(proc[t].argv) <= MEM_PAGE_SIZE
      BY <3>1, <3>2, ArgsAssumption, LoaderAssumption DEF TaskArgsSize
    <3> QED
      BY <3>1, <3>2, <3>3, ShortTable
  <2> QED
    BY <2>1, <2>2
<1>3. LoaderTypeOK /\ [LoaderNext]_vars => LoaderTypeOK'
  <2>1. LoaderTypeOK /\ UNCHANGED vars => LoaderTypeOK'
    BY DEF LoaderTypeOK, vars, Sectors
  <2> QED
    BY <2>1, StepType DEF LoaderNext
<1>4. LoaderTypeOK /\ ArgsBounded /\ [LoaderNext]_vars => ArgsBounded'
  BY ArgsBoundedStep
<1>5. LoaderSpec => []Tables
  BY <1>1, <1>2, <1>3, <1>4, InitType, PTL DEF LoaderSpec
<1> QED
  BY <1>5, ArgumentsArrive, PTL

=============================================================================

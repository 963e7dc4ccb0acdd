------------------------------ MODULE UserImage -------------------------------
(***************************************************************************)
(* The image of a program in memory: the areas (VMAs) of each process,     *)
(* taken from one pool and never given back, the segments that exec loads, *)
(* the page tables under them, and what fork, a page fault and the reaping *)
(* of a zombie do to both.                                                 *)
(*                                                                         *)
(* Sources: sys/proc_mngr.c (VMA pool, fetch_free_pcb, clear_pcb),         *)
(* sys/elf.c, sys/process.c (fork_process, sys_execvpe,                    *)
(* clean_task_for_exec), sys/pagefault.c, sys/virmem.c.                    *)
(*                                                                         *)
(* Programs do not write here: writes, write bits and the TLB are in       *)
(* AddressSpace.  Which process runs next is free; Tasks says which.       *)
(* Limit: the segments of a binary lie on different pages.                 *)
(***************************************************************************)
EXTENDS PageTables

CONSTANTS
  Procs,         \* PCBs
  Shell,         \* the PCB that start() makes
  NumVma,        \* NUM_VMA: 5000
  Binaries,      \* sequences of segments [vaddr, file, memsz, type]
  HeapGap,       \* pages from the last segment to the heap: 10
  USTACK, USTACK_SIZE,
  Touched,       \* bound: addresses that programs use
  FramesPerCall  \* bound: no call takes more frames

ASSUME ShellAssumption == Shell \in Procs
ASSUME VmaAssumption == NumVma \in Nat
ASSUME BinariesAssumption == \A b \in Binaries : Len(b) \in Nat /\ DOMAIN b = 1 .. Len(b)

NULL == 0
NoBinary == <<>>
Junk == -1  \* a byte read through an address that nobody set

VARIABLES
  status,         \* "free", "alive", "zombie", or "lost": in no list
  pml,            \* regs.cr3 of each PCB
  vma,            \* vma_arr
  free_vma_head,
  vma_head,       \* task_mm->vma_head of each PCB
  mem,            \* frames (PageTables)
  held,           \* frames that the kernel holds without a user entry for them
  bin             \* what was last loaded

vars == <<status, pml, vma, free_vma_head, vma_head, mem, held, bin>>

Page(a) == a \div PAGE_SIZE

-----------------------------------------------------------------------------
(* Areas.  A call works on a record s: the pool, the frames, the area that  *)
(* was got last, the list of the process and whether the process is dead.  *)

Start(head, m) ==
  [vma |-> vma, free |-> free_vma_head, got |-> NULL, head |-> head, mem |-> m, dead |-> FALSE]

\* The areas of the list that begins at h, in order (behind its end is NULL).
Chain(areas, h) ==
  LET nth[n \in 0 .. NumVma] ==
        IF n = 0 THEN h ELSE IF nth[n - 1] = NULL THEN NULL ELSE areas[nth[n - 1]].next
  IN  [n \in 1 .. Cardinality({k \in 1 .. NumVma : nth[k - 1] # NULL}) |-> nth[n - 1]]

\* Mutant: the head of the pool stays.
fetch_free_vma_stays(s, start, end, type) ==
  IF s.free = NULL THEN [s EXCEPT !.got = NULL]
  ELSE [s EXCEPT !.got = s.free,
                 !.vma[s.free] = [start |-> start, end |-> end, type |-> type, next |-> NULL]]

\* fetch_free_vma, and get_free_vma with the copy that fork makes into it.
fetch_free_vma(s, start, end, type) ==
  IF s.free = NULL THEN [s EXCEPT !.got = NULL]
  ELSE [s EXCEPT !.got = s.free, !.free = s.vma[s.free].next,
                 !.vma[s.free] = [start |-> start, end |-> end, type |-> type, next |-> NULL]]

\* The area got last goes to the end of the list.
append(s) ==
  IF s.head = NULL THEN [s EXCEPT !.head = s.got]
  ELSE [s EXCEPT !.vma[Last(Chain(s.vma, s.head))].next = s.got]

\* The first area of the list that holds a, its end address included.
check_vma(s, a) ==
  LET hits == SelectSeq(Chain(s.vma, s.head), LAMBDA v : s.vma[v].start <= a /\ a <= s.vma[v].end)
  IN  IF hits = <<>> THEN NULL ELSE Head(hits)

-----------------------------------------------------------------------------
(* elf_read. *)

\* kmalloc and set_mapping: page v gets a frame full of the byte fill.
map_filled(m, top, v, fill) ==
  set_mapping([Fetch(m) EXCEPT !.content[m.handed + 1] = [o \in 0 .. PAGE_SIZE - 1 |-> fill]],
              top, v, m.handed + 1)

\* The loop over the addresses of a segment takes steps of a page from its
\* first byte, so it misses the last page of some that are not aligned.
Visited(seg) ==
  [k \in 1 .. (seg.memsz + PAGE_SIZE - 1) \div PAGE_SIZE |-> Page(seg.vaddr + (k - 1) * PAGE_SIZE)]

map_segment(m, top, seg) == FoldLeft(LAMBDA n, v : map_filled(n, top, v, 0), m, Visited(seg))

\* Mutant: the bytes behind the file's are left alone.
byte_of_file(seg, i, old) == IF i < Len(seg.file) THEN seg.file[i + 1] ELSE old

\* The byte i of a segment: from the file, then zeros (bss).
byte_of(seg, i, old) == IF i < Len(seg.file) THEN seg.file[i + 1] ELSE 0

\* memcopy and memset, as far as the pages are mapped.
copy_segment(m, top, seg) ==
  FoldLeft(LAMBDA n, i :
             LET a == seg.vaddr + i
                 f == get_pte_entry(n, top, Page(a))
             IN  IF f = 0 THEN n
                 ELSE [n EXCEPT !.content[f][a % PAGE_SIZE] = byte_of(seg, i, @)],
           m, [k \in 1 .. seg.memsz |-> k - 1])

\* A fault on address a of a page that is not mapped, in page_fault_handler.
\* elf_read passes fetch_free_vma four of its six arguments, so p_filesz and
\* tarfs_base of a segment are undefined: the page is taken for bss and stays
\* zero, or is filled from an address which holds junk, or which is itself not
\* mapped, and then the task is killed.  An area of the heap gets no page.
Fates == {"zero", "junk", "killed"}
page_fault(s, top, a, fate) ==
  LET v == check_vma(s, a) IN
  CASE v = NULL -> [s EXCEPT !.dead = TRUE]
    [] v # NULL /\ s.vma[v].type = "STACK" -> [s EXCEPT !.mem = map_filled(@, top, Page(a), 0)]
    [] v # NULL /\ s.vma[v].type = "HEAP" -> s
    [] OTHER -> [s EXCEPT !.mem = map_filled(@, top, Page(a), IF fate = "junk" THEN Junk ELSE 0),
                          !.dead = fate = "killed"]

\* One PT_LOAD header.  Copying may fault on the last page.
load_segment(s, top, seg, fate) ==
  LET mapped == append([fetch_free_vma(s, seg.vaddr, seg.vaddr + seg.memsz, seg.type) EXCEPT
                          !.mem = map_segment(@, top, seg)])
      last == Page(seg.vaddr + seg.memsz - 1)
      ready == IF get_pte_entry(mapped.mem, top, last) # 0 THEN mapped
               ELSE page_fault(mapped, top, last * PAGE_SIZE, fate)
  IN  IF s.dead THEN s ELSE [ready EXCEPT !.mem = copy_segment(@, top, seg)]

load_segments(s, top, b, fate) == FoldLeft(LAMBDA t, seg : load_segment(t, top, seg, fate), s, b)

\* Behind the last byte of every segment.
image_end(b) ==
  FoldLeft(LAMBDA m, seg : IF seg.vaddr + seg.memsz > m THEN seg.vaddr + seg.memsz ELSE m, 0, b)

\* The segments, then the empty heap HeapGap pages behind the last byte.  With
\* no area in the list there is no last one to link it to.
elf_read(s, top, b, fate) ==
  LET loaded == load_segments(s, top, b, fate)
      heap == (Page(image_end(b) - 1) + HeapGap) * PAGE_SIZE
  IN  IF loaded.dead \/ loaded.head = NULL THEN [loaded EXCEPT !.dead = TRUE]
      ELSE append(fetch_free_vma(loaded, heap, heap, "HEAP"))

-----------------------------------------------------------------------------
Room == mem.handed + FramesPerCall <= NumFrames

\* What a call leaves in the variables it worked on.
Leaves(s, p) ==
  /\ vma' = s.vma /\ free_vma_head' = s.free /\ mem' = s.mem
  /\ vma_head' = [vma_head EXCEPT ![p] = s.head]

\* sys_execvpe of p, after the binary was found: a stack frame, the old image
\* away (the first exec of the machine has none), the new one loaded, and the
\* area of the stack.  A task killed on the way leaves the stack frame behind.
Exec(p, b, fate) ==
  LET stack == mem.handed + 1
      cleared == IF bin[p] = NoBinary THEN Fetch(mem) ELSE clear_mapping(Fetch(mem), pml[p])
      read == elf_read(Start(NULL, cleared), pml[p], b, fate)
      area == append(fetch_free_vma(read, USTACK - USTACK_SIZE, USTACK, "STACK"))
  IN
  /\ status[p] = "alive" /\ Room
  /\ IF read.dead
     THEN /\ Leaves(read, p)
          /\ status' = [status EXCEPT ![p] = "zombie"]
          /\ held' = held \cup {stack}
     ELSE /\ Leaves([area EXCEPT !.mem = set_mapping(@, pml[p], Page(USTACK) - 1, stack)], p)
          /\ UNCHANGED <<status, held>>
  /\ bin' = [bin EXCEPT ![p] = b]
  /\ UNCHANGED pml

\* Mutant: the count of a shared page stays.
share_uncounted(m, from, to, v) ==
  LET f == get_pte_entry(m, from, v) IN
  IF f = 0 THEN m ELSE set_mapping(m, to, v, f)

\* fork: page v, if mapped, is entered in the child with one more reference.
share(m, from, to, v) ==
  LET f == get_pte_entry(m, from, v) IN
  IF f = 0 THEN m ELSE [set_mapping(m, to, v, f) EXCEPT !.ref_count[f] = @ + 1]

\* The pages of an area, from ScaleDown(start) to ScaleUp(end).
PagesOf(a) ==
  LET first == Page(a.start) IN
  [k \in 1 .. Page(a.end + PAGE_SIZE - 1) - first |-> first + k - 1]

share_area(m, from, to, a) == FoldLeft(LAMBDA n, v : share(n, from, to, v), m, PagesOf(a))

\* One area of the parent.  With the pool empty the copy goes to address 0, a
\* fault that kills the parent.
copy_area(s, from, to, a) ==
  LET got == fetch_free_vma(s, a.start, a.end, a.type) IN
  IF s.dead THEN s
  ELSE IF got.got = NULL THEN [s EXCEPT !.dead = TRUE]
  ELSE [append(got) EXCEPT !.mem = share_area(@, from, to, a)]

\* Mutant: the loop ends at the last area.
copy_areas_but_last(s, from, to, areas) ==
  FoldLeft(LAMBDA t, v : copy_area(t, from, to, vma[v]), s, SubSeq(areas, 1, Len(areas) - 1))

copy_areas(s, from, to, areas) == FoldLeft(LAMBDA t, v : copy_area(t, from, to, vma[v]), s, areas)

\* fork_process.  fetch_free_pcb takes a page for mm_struct and one for the top
\* table.  When the parent is killed the child's PCB is in no list.
Fork(p, c) ==
  LET top == mem.handed + 2
      m == create_new_pml_table(Fetch(Fetch(mem)), top)
      s == copy_areas(Start(NULL, m), pml[p], top, Chain(vma, vma_head[p]))
  IN
  /\ status[p] = "alive" /\ bin[p] # NoBinary
  /\ status[c] = "free" /\ Room
  /\ Leaves(s, c)
  /\ pml' = [pml EXCEPT ![c] = top]
  /\ held' = held \cup {mem.handed + 1, top}
  /\ bin' = [bin EXCEPT ![c] = bin[p]]
  /\ status' = IF s.dead THEN [status EXCEPT ![p] = "zombie", ![c] = "lost"]
               ELSE [status EXCEPT ![c] = "alive"]

\* The program touches an address whose page is not mapped.
Touch(p, a, fate) ==
  LET s == page_fault(Start(vma_head[p], mem), pml[p], a, fate) IN
  /\ status[p] = "alive" /\ bin[p] # NoBinary
  /\ get_pte_entry(mem, pml[p], Page(a)) = 0 /\ Room
  /\ Leaves(s, p)
  /\ status' = IF s.dead THEN [status EXCEPT ![p] = "zombie"] ELSE status
  /\ UNCHANGED <<pml, held, bin>>

\* sys_exit.
Exit(p) ==
  /\ status[p] = "alive" /\ bin[p] # NoBinary
  /\ status' = [status EXCEPT ![p] = "zombie"]
  /\ UNCHANGED <<pml, vma, free_vma_head, vma_head, mem, held, bin>>

\* clear_pcb: the list is dropped and the tables cleared; the areas, the
\* mm_struct and the top table are not given back.
Reap(p) ==
  /\ status[p] = "zombie"
  /\ status' = [status EXCEPT ![p] = "free"]
  /\ vma_head' = [vma_head EXCEPT ![p] = NULL]
  /\ mem' = clear_mapping(mem, pml[p])
  /\ bin' = [bin EXCEPT ![p] = NoBinary]
  /\ UNCHANGED <<pml, vma, free_vma_head, held>>

-----------------------------------------------------------------------------
\* initialise_vma, and the shell's PCB from fetch_free_pcb, before its exec.
Init ==
  /\ status = [p \in Procs |-> IF p = Shell THEN "alive" ELSE "free"]
  /\ mem = create_new_pml_table(Fetch(Fetch(FreshMemory)), KernelTable + 2)
  /\ held = {KernelTable, KernelTable + 1, KernelTable + 2}
  /\ pml = [p \in Procs |-> IF p = Shell THEN KernelTable + 2 ELSE NULL]
  /\ vma = [v \in 1 .. NumVma |->
              [start |-> 0, end |-> 0, type |-> "TEXT", next |-> IF v = NumVma THEN NULL ELSE v + 1]]
  /\ free_vma_head = IF NumVma = 0 THEN NULL ELSE 1
  /\ vma_head = [p \in Procs |-> NULL]
  /\ bin = [p \in Procs |-> NoBinary]

Next ==
  \E p \in Procs :
    \/ \E b \in Binaries, fate \in Fates : Exec(p, b, fate)
    \/ \E c \in Procs : Fork(p, c)
    \/ \E a \in Touched, fate \in Fates : Touch(p, a, fate)
    \/ Exit(p)
    \/ Reap(p)

Spec == Init /\ [][Next]_vars

-----------------------------------------------------------------------------
(* Properties. *)

Tops == {pml[p] : p \in Procs} \ {NULL}
UserTables == UNION {TablesBelow(mem, top) : top \in Tops}

\* Type invariant.
TypeOK ==
  /\ status \in [Procs -> {"free", "alive", "zombie", "lost"}]
  /\ pml \in [Procs -> {NULL} \cup Frames]
  /\ free_vma_head \in 0 .. NumVma
  /\ vma_head \in [Procs -> 0 .. NumVma]
  /\ \A v \in 1 .. NumVma : vma[v].next \in 0 .. NumVma /\ vma[v].start <= vma[v].end
  /\ mem.handed \in Frames /\ held \subseteq 1 .. mem.handed
  /\ \A f \in Frames : mem.ref_count[f] \in Nat /\ (f > mem.handed => mem.ref_count[f] = 0)
  /\ bin \in [Procs -> Binaries \cup {NoBinary}]

\* No area is in the lists of two processes, or in a list and in the pool, and
\* every list ends, though areas are dropped, never given back, and a fork may
\* stop half-way: a fault or a fork must not find another process' memory.
VmasPrivate ==
  LET heads == [p \in Procs \cup {0} |-> IF p = 0 THEN free_vma_head ELSE vma_head[p]]
      areas(p) == ToSet(Chain(vma, heads[p]))
      ends(p) == heads[p] = NULL \/ vma[Last(Chain(vma, heads[p]))].next = NULL
  IN  \A p, q \in Procs \cup {0} : ends(p) /\ (p # q => areas(p) \cap areas(q) = {})

\* Every frame is counted as often as an entry of some table names it or the
\* kernel holds it, a table is named once and is no program's page, and every
\* top table keeps the kernel's entry: over half-done forks and execs too.
TablesExact ==
  LET names(f) == Cardinality({ei \in (UserTables \cup Tops) \X (0 .. Fan - 1) :
                                 mem.table[ei[1]][ei[2]] = f /\ ~(ei[1] \in Tops /\ ei[2] = KernelEntry)})
      pages == UNION {PagesBelow(mem, top) : top \in Tops}
  IN  /\ \A f \in Frames : mem.ref_count[f] = names(f) + (IF f \in held THEN 1 ELSE 0)
      /\ \A f \in UserTables : mem.ref_count[f] = 1
      /\ UserTables \cap pages = {}
      /\ \A top \in Tops : mem.table[top][KernelEntry] = KernelTable

\* A process that runs finds every byte of the segments of its binary where the
\* file says, bss zero, whoever loaded the image and however often it was
\* forked; a segment whose last page elf_read forgot to map included.
ImageReadsRight ==
  \A p \in Procs : status[p] = "alive" =>
    \A k \in 1 .. Len(bin[p]) : \A i \in 0 .. bin[p][k].memsz - 1 :
      LET seg == bin[p][k]
          a == seg.vaddr + i
          f == get_pte_entry(mem, pml[p], Page(a))
      IN  /\ f # 0
          /\ mem.content[f][a % PAGE_SIZE] = (seg.file \o [n \in 1 .. seg.memsz |-> 0])[i + 1]

\* A fork that does not meet the end of the pool, then or before, gives the
\* child every page of the parent, in the same frame, and takes none from the
\* parent, with one exception, which is the code's: a page that begins where an
\* area ends.  check_vma counts that address as inside and the fault maps the
\* page, but the loop of fork stops before it, and the child will find it empty.
ChildInheritsPages ==
  [][\A p, c \in Procs : Fork(p, c) /\ status'[c] = "alive" /\ free_vma_head # NULL =>
       \A v \in 0 .. (Fan - 1) * Fan ^ 3 - 1 :
         LET f == get_pte_entry(mem, pml[p], v)
             behind == \E k \in ToSet(Chain(vma, vma_head[p])) : vma[k].end = v * PAGE_SIZE
         IN  /\ get_pte_entry(mem', pml[p], v) = f
             /\ get_pte_entry(mem', pml'[c], v) = f \/ (behind /\ get_pte_entry(mem', pml'[c], v) = 0)]_vars

=============================================================================

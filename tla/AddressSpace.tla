---------------------------- MODULE AddressSpace -----------------------------
(***************************************************************************)
(* The memory of user processes: page-table entries with their write bit,  *)
(* reference counts of frames, copy-on-write fork, exec, the page-fault    *)
(* handler (copy-on-write and growing stack), the release of memory when a *)
(* zombie is reaped, and the TLB of the one processor.                     *)
(*                                                                         *)
(* Sources: sys/process.c (fork_process, sys_execvpe), sys/elf.c,          *)
(* sys/pagefault.c, sys/virmem.c, sys/page.c, sys/proc_mngr.c.             *)
(*                                                                         *)
(* The four-level tables are a function from pages to entries.  free_page  *)
(* links a freed frame where page_alloc does not find it before the list   *)
(* of fresh frames is used up (module PageAlloc), so frames are handed out *)
(* in order, each once.  Which process runs next is free here; Tasks says  *)
(* which.                                                                  *)
(***************************************************************************)
EXTENDS Integers, FiniteSets

CONSTANTS
  Procs, VPages, Image, Values,  \* as in PrivateMemory
  StackTop,                      \* the stack page that exec maps
  NumFrames                      \* bound: frames handed out

ASSUME ProcsAssumption == IsFiniteSet(Procs)
ASSUME VPagesAssumption == VPages \subseteq Nat /\ IsFiniteSet(VPages)
ASSUME ImageAssumption == Image \subseteq VPages /\ StackTop \in VPages \ Image
ASSUME ValuesAssumption == {0, 1} \subseteq Values
\* There is memory for the first process.
ASSUME NumFramesAssumption == NumFrames \in Nat /\ 1 + Cardinality(Image) <= NumFrames

Frames == 1..NumFrames

\* A page-table entry: frame 0 is "not present".  The COW bit is always the
\* opposite of the write bit on present entries and nobody reads it.
Entry == [frame : 0..NumFrames, w : BOOLEAN]
Absent == [frame |-> 0, w |-> FALSE]

VARIABLES
  status,       \* "free", "alive" or "zombie"
  pte,          \* pte[p][v]: the page table under cr3 of p
  ref_count,    \* of each frame
  content,      \* of each frame
  handed,       \* frames handed out so far: 1..handed
  RunningTask,
  tlb,          \* translations the processor has cached for RunningTask
  access        \* what the processor did last: a load, a store, or kernel code

vars == <<status, pte, ref_count, content, handed, RunningTask, tlb, access>>

EmptyTable == [v \in VPages |-> Absent]
Present(p, v) == pte[p][v].frame # 0
FramesOf(p) == {pte[p][v].frame : v \in VPages} \ {0}

-----------------------------------------------------------------------------
(* Running reads and writes its pages. *)

\* The processor's view of v: the cached translation, else the table's.
Translation(v) == IF v \in DOMAIN tlb THEN tlb[v] ELSE pte[RunningTask][v]
Cached(v, e) == [u \in DOMAIN tlb \cup {v} |-> IF u = v THEN e ELSE tlb[u]]
EmptyTlb == [v \in {} |-> Absent]
Accesses(k, v, x) == access' = [kind |-> k, by |-> RunningTask, page |-> v, value |-> x]
InKernel == access' = [kind |-> "kernel"]

Read(v) ==
  /\ status[RunningTask] = "alive"
  /\ Translation(v).frame # 0
  /\ tlb' = Cached(v, Translation(v))
  /\ Accesses("load", v, content[Translation(v).frame])
  /\ UNCHANGED <<status, pte, ref_count, content, handed, RunningTask>>

Write(v, x) ==
  /\ status[RunningTask] = "alive"
  /\ Translation(v).frame # 0 /\ Translation(v).w
  /\ content' = [content EXCEPT ![Translation(v).frame] = x]
  /\ tlb' = Cached(v, Translation(v))
  /\ Accesses("store", v, x)
  /\ UNCHANGED <<status, pte, ref_count, handed, RunningTask>>

-----------------------------------------------------------------------------
(* page_fault_handler. *)

\* The copy-on-write branch copies unless the count says that nobody else maps
\* the frame.
SoleOwner(f) == ref_count[f] = 1

\* Mutant: the new page stays as page_alloc gave it.
copy_nothing(f) == [content EXCEPT ![handed + 1] = 0]

\* memcopy of the faulting page to the new one.
copy_page(f) == [content EXCEPT ![handed + 1] = content[f]]

\* Mutant: the share of the old frame stays.
keep_old_share(f) == [ref_count EXCEPT ![handed + 1] = 1]

\* The new frame has one owner and the old one has lost one.
move_share(f) == [ref_count EXCEPT ![handed + 1] = 1, ![f] = @ - 1]

\* Error code 7, a write to a present page that is not writable: the last
\* owner takes the frame, any other owner gets a copy.
CowFault(v) ==
  LET f == pte[RunningTask][v].frame IN
  /\ status[RunningTask] = "alive"
  /\ Translation(v).frame # 0 /\ ~Translation(v).w /\ Present(RunningTask, v)
  /\ \/ /\ SoleOwner(f)
        /\ pte' = [pte EXCEPT ![RunningTask][v].w = TRUE]
        /\ UNCHANGED <<ref_count, content, handed>>
     \/ /\ ref_count[f] > 1 /\ handed < NumFrames
        /\ handed' = handed + 1
        /\ content' = copy_page(f)
        /\ pte' = [pte EXCEPT ![RunningTask][v] = [frame |-> handed + 1, w |-> TRUE]]
        /\ ref_count' = move_share(f)
  /\ tlb' = EmptyTlb
  /\ UNCHANGED <<status, RunningTask>>

\* An access to a stack page that is not present: a zeroed frame is mapped.
StackFault(v) ==
  /\ status[RunningTask] = "alive"
  /\ Translation(v).frame = 0
  /\ v \notin Image
  /\ handed < NumFrames
  /\ handed' = handed + 1
  /\ content' = [content EXCEPT ![handed + 1] = 0]
  /\ ref_count' = [ref_count EXCEPT ![handed + 1] = 1]
  /\ pte' = [pte EXCEPT ![RunningTask][v] = [frame |-> handed + 1, w |-> TRUE]]
  /\ UNCHANGED <<status, RunningTask, tlb>>

-----------------------------------------------------------------------------
(* Processes come and go. *)

\* Mutant: fork leaves the processor's cached translations of the parent.
ForkWithoutFlush(c) ==
  LET shared == [v \in VPages |-> [pte[RunningTask][v] EXCEPT !.w = FALSE]] IN
  /\ status[RunningTask] = "alive" /\ status[c] = "free"
  /\ status' = [status EXCEPT ![c] = "alive"]
  /\ pte' = [pte EXCEPT ![RunningTask] = shared, ![c] = shared]
  /\ ref_count' = [f \in Frames |->
                     IF f \in FramesOf(RunningTask) THEN ref_count[f] + 1 ELSE ref_count[f]]
  /\ UNCHANGED <<content, handed, RunningTask, tlb>>

\* fork_process: every present page of the VMAs loses its write bit in the
\* parent and is entered, with one more reference, in the child; then the TLB
\* is flushed.
Fork(c) ==
  LET shared == [v \in VPages |-> [pte[RunningTask][v] EXCEPT !.w = FALSE]] IN
  /\ status[RunningTask] = "alive" /\ status[c] = "free"
  /\ status' = [status EXCEPT ![c] = "alive"]
  /\ pte' = [pte EXCEPT ![RunningTask] = shared, ![c] = shared]
  /\ ref_count' = [f \in Frames |->
                     IF f \in FramesOf(RunningTask) THEN ref_count[f] + 1 ELSE ref_count[f]]
  /\ tlb' = EmptyTlb
  /\ UNCHANGED <<content, handed, RunningTask>>

\* Mutant: every page is given back twice.
clear_mapping_twice(p) ==
  [ref |-> [f \in Frames |-> IF f \in FramesOf(p) THEN ref_count[f] - 2 ELSE ref_count[f]],
   mem |-> content]

\* clear_mapping: free_page on every present page; the last reference clears
\* the frame.
clear_mapping(p) ==
  [ref |-> [f \in Frames |-> IF f \notin FramesOf(p) THEN ref_count[f]
                             ELSE IF ref_count[f] > 1 THEN ref_count[f] - 1 ELSE 0],
   mem |-> [f \in Frames |-> IF f \in FramesOf(p) /\ ref_count[f] <= 1 THEN 0 ELSE content[f]]]

\* sys_execvpe: a stack frame is taken, the old memory is released, and the
\* pages of the binary are mapped and filled under the new cr3.
Exec ==
  LET n == Cardinality(Image)
      stack == handed + 1
      cleared == clear_mapping(RunningTask)
      new == (handed + 1)..(handed + 1 + n)
  IN
  /\ status[RunningTask] = "alive"
  /\ handed + 1 + n <= NumFrames
  /\ handed' = handed + 1 + n
  /\ \E place \in [Image -> new \ {stack}] :
       /\ \A u, v \in Image : u < v => place[u] < place[v]
       /\ pte' = [pte EXCEPT ![RunningTask] =
                    [v \in VPages |->
                       IF v \in Image THEN [frame |-> place[v], w |-> TRUE]
                       ELSE IF v = StackTop THEN [frame |-> stack, w |-> TRUE]
                       ELSE Absent]]
  /\ ref_count' = [f \in Frames |-> IF f \in new THEN 1 ELSE cleared.ref[f]]
  /\ content' = [f \in Frames |-> IF f = stack THEN 0 ELSE IF f \in new THEN 1
                                  ELSE cleared.mem[f]]
  /\ tlb' = EmptyTlb
  /\ UNCHANGED <<status, RunningTask>>

\* sys_exit: the memory stays until the zombie is reaped.  schedule() loads
\* another cr3, which empties the TLB; with no other process it is Idle's.
Exit ==
  /\ status[RunningTask] = "alive"
  /\ status' = [status EXCEPT ![RunningTask] = "zombie"]
  /\ tlb' = EmptyTlb
  /\ UNCHANGED <<pte, ref_count, content, handed, RunningTask>>

\* contextswitch to another process.
Switch(p) ==
  /\ status[p] = "alive" /\ p # RunningTask
  /\ RunningTask' = p
  /\ tlb' = EmptyTlb
  /\ UNCHANGED <<status, pte, ref_count, content, handed>>

\* clear_pcb: the running parent releases the memory of a zombie.
Reap(c) ==
  /\ status[RunningTask] = "alive" /\ status[c] = "zombie"
  /\ status' = [status EXCEPT ![c] = "free"]
  /\ pte' = [pte EXCEPT ![c] = EmptyTable]
  /\ ref_count' = clear_mapping(c).ref
  /\ content' = clear_mapping(c).mem
  /\ UNCHANGED <<handed, RunningTask, tlb>>

-----------------------------------------------------------------------------
\* The shell after its exec in start().
Init ==
  /\ RunningTask \in Procs
  /\ status = [p \in Procs |-> IF p = RunningTask THEN "alive" ELSE "free"]
  /\ handed = 1 + Cardinality(Image)
  /\ \E place \in [Image -> 2..handed] :
       /\ \A u, v \in Image : u < v => place[u] < place[v]
       /\ pte = [p \in Procs |->
                   IF p # RunningTask THEN EmptyTable
                   ELSE [v \in VPages |->
                           IF v \in Image THEN [frame |-> place[v], w |-> TRUE]
                           ELSE IF v = StackTop THEN [frame |-> 1, w |-> TRUE]
                           ELSE Absent]]
  /\ ref_count = [f \in Frames |-> IF f <= handed THEN 1 ELSE 0]
  /\ content = [f \in Frames |-> IF f > 1 /\ f <= handed THEN 1 ELSE 0]
  /\ tlb = EmptyTlb
  /\ access = [kind |-> "kernel"]

Next ==
  \/ \E v \in VPages : Read(v) \/ \E x \in Values : Write(v, x)
  \/ \E v \in VPages : InKernel /\ (CowFault(v) \/ StackFault(v))
  \/ \E c \in Procs : InKernel /\ (Fork(c) \/ Reap(c) \/ Switch(c))
  \/ InKernel /\ (Exec \/ Exit)

Spec == Init /\ [][Next]_vars

-----------------------------------------------------------------------------
(* Properties. *)

\* Type invariant.
TypeOK ==
  /\ status \in [Procs -> {"free", "alive", "zombie"}]
  /\ pte \in [Procs -> [VPages -> Entry]]
  /\ ref_count \in [Frames -> 0..Cardinality(Procs)]
  /\ content \in [Frames -> Values]
  /\ handed \in 0..NumFrames
  /\ RunningTask \in Procs
  /\ DOMAIN tlb \subseteq VPages /\ \A v \in DOMAIN tlb : tlb[v] \in Entry

\* The reference count of a frame is the number of entries that map it, over
\* forks, copies, execs and reaps in any order.  Too low and a frame is cleared
\* or made writable under another process; too high and it is never released.
RefCountExact ==
  \A f \in Frames :
    ref_count[f] = Cardinality({pv \in Procs \X VPages : pte[pv[1]][pv[2]].frame = f})

\* A frame that some process may write is mapped nowhere else; the processor's
\* cached translations count (fork must flush them).
WritableIsExclusive ==
  \A p, q \in Procs, u, v \in VPages :
    /\ pte[p][u].w /\ pte[q][v].frame = pte[p][u].frame => p = q /\ u = v
    /\ v \in DOMAIN tlb /\ tlb[v].w => tlb[v] = pte[RunningTask][v]

(***************************************************************************)
(* Every process has a private memory: the frames, entries, counts and     *)
(* copies together implement PrivateMemory.  A stack page that is not      *)
(* present yet stands for a page of zeros.                                 *)
(***************************************************************************)
MemoryOf(p) ==
  IF status[p] = "free" THEN [v \in {} |-> 0]
  ELSE [v \in VPages |-> IF Present(p, v) THEN content[pte[p][v].frame] ELSE 0]

Private == INSTANCE PrivateMemory WITH mem <- [p \in Procs |-> MemoryOf(p)]

ImplementsPrivateMemory == Private!MemSpec

=============================================================================

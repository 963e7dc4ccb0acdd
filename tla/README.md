# Nascent-OS in TLA+

Nascent-OS is a small 64-bit teaching kernel: preemptive processes with
copy-on-write fork, a terminal, a read-only file system that is a tar archive
linked into the kernel, a shell and a small libc.  This directory models the
parts of it that keep state and are changed by several actors, checks them with
TLC on small instances and proves the central invariants with TLAPS for every
size.  Paths below are relative to `src/`.

## 1. The system

One processor.  System calls, page faults and interrupts enter the kernel with
interrupts disabled (`sys/syscall.s`, `sys/timer.s`, interrupt gates in
`sys/idt.c`), and the kernel is left either by returning to user mode or through
`schedule()`.  So the unit of interleaving is *one kernel entry up to its next
`schedule()` or its return*; what is read before a `schedule()` and used after
it is where the concurrency of this kernel is.

| Part | Source | State | Operations |
|---|---|---|---|
| process table, scheduler | `sys/proc_mngr.c`, `sys/process.c`, `sys/pit.c` | `pcb_arr`; the free list and the task list, both threaded through `next`; `RunningTask` | `schedule`, `fork_process`, `sys_execvpe`, `sys_exit`, `kill`, `wait_for_child`, `sleep`, `yield`, `init_process`, `idle_process`, `timer_int` |
| terminal | `sys/terminal.c`, `sys/keyboard_intr.c` | `term_buff`, its two positions, `terminal_line_count` | `terminal_handler`, `dec_term`, `read_buffer`, `schedule_terminal_task`, `wake_up_task` |
| user memory | `sys/process.c`, `sys/pagefault.c`, `sys/virmem.c`, `sys/elf.c` | page tables, `ref_count` of pages, VMAs, TLB | copy-on-write fork, exec, page fault, release |
| page allocator | `sys/page.c`, `sys/virmem.c` | `pages`, `free_page_head`, `free_page_end` | `page_alloc`, `kmalloc`, `fetch_free_page`, `free_page` |
| files | `sys/tarfs.c`, `sys/strings.c` | `fd_array` of each PCB; the archive | `open_s`, `open_dir`, `read_s`, `read_dir`, `close_s`, `close_dir`, path names, `cwd` |
| VMAs, ELF loader | `sys/proc_mngr.c`, `sys/elf.c`, `sys/pagefault.c` | `vma_arr`, `free_vma_head`, the list of each process | `get_free_vma`, `fetch_free_vma`, `check_vma`, `elf_read` |
| boot | `sys/main.c`, `sys/gdt.c`, `sys/idt.c`, `sys/pic.c` | – | builds the state in which the modules start |
| console | `sys/kprintf.c` | `array_pointer`, video memory | `print_to_console`, `print_key`, `print_time`, number conversion |
| libc | `libc/` | the free list of `malloc` | `malloc`, `free`, `printf`, wrappers of system calls |
| shell | `bin/sbush/sbush.c` | place in the script, words of the line | `main`, `command_handler`, `run_command` |
| AHCI, PCI, `sys/task.c` | | | not called by the kernel that is built |

How the parts meet: `fork_process` takes a PCB, VMAs and pages, copies
`fd_array` and shares the memory; `sys_execvpe` replaces memory and descriptors;
`sys_exit` only marks, and `wait_for_child` releases memory and descriptors
later, in the parent's time; the timer interrupt schedules; the keyboard
interrupt writes the ring and wakes a reader; a read of descriptor 0 goes to the
terminal and may give up the processor.

What is hard here:

* **two lists, one field.**  A PCB is on the free list or the task list through
  the same `next`, several operations leave old links behind, and `kill` turns a
  listed task into a zombie without unlinking it;
* **wake-ups.**  A parent that waits and a child that exits, a reader that waits
  and a line that arrives, a sleeper and the timer: each must meet in every order;
* **two parent fields.**  The wake-up goes by `parent_task`, the scan by `ppid`,
  and only one of them changes when a parent dies;
* **reference counts** changed by forks, faults, execs and reaps of several
  processes, under a TLB that may remember a write permission;
* **limits:** PCBs, pages, descriptors, the ring of characters, all at their end;
* **resources that are never given back:** freed pages and VMAs, and calls that
  stop half-way when they run out;
* **two cursors for one line:** a key moves the write position of the ring and
  the cursor of the screen, which wrap and scroll at different places;
* **shells that multiply:** a child whose exec fails goes on as a shell, and the
  wait of a shell takes any child.

`PROJECT.json` lists every part under `components` and every such danger, at its
line, under `hazards`.

## 2. The modules

| Module | What it is |
|---|---|
| `Tasks` | processes: PCB lists, scheduler, life of a process, sleep, waiting for a line, interrupts |
| `MCTasks` | the list, terminal and liveness properties of `Tasks`; what comments of the code say of it |
| `TasksProofs` | TLAPS proofs about `Tasks`: types, acyclic links, the two lists, waiting for a child and for a line |
| `PrivateMemory` | abstract: every process has a memory of its own |
| `AddressSpace`, `MCAddressSpace` | page tables, counts, copy-on-write and the TLB; implements `PrivateMemory` |
| `AddressSpaceProofs` | TLAPS proofs about `AddressSpace`, that refinement included |
| `PageAlloc` | the page allocator |
| `Heap` | `malloc` and `free` of a program, composed with `PageAlloc` |
| `HeapProofs` | TLAPS proofs about `PageAlloc` and `Heap` |
| `PageTables` | the four-level tables as operators on frames |
| `UserImage`, `MCUserImage` | VMAs, `elf_read`, fork, faults and reaping over `PageTables` |
| `UserImageProofs` | TLAPS proofs about the VMAs of `UserImage` |
| `LineQueue` | abstract: a queue of typed lines |
| `Terminal` | the ring of characters; implements `LineQueue` |
| `Console` | the screen: cursor, scrolling, status row, number conversion |
| `TerminalScreen`, `MCTerminalScreen` | composes `Terminal` and `Console`: keys and their echo |
| `TerminalProofs` | TLAPS proofs about the ring, its refinement of `LineQueue`, the screen and the conversion of numbers |
| `FileView` | abstract: what a descriptor delivers |
| `FileTable`, `MCFileTable` | `fd_array` and the archive; implements `FileView` |
| `FileTableProofs` | TLAPS proofs about `FileTable`, that refinement included |
| `PathNames`, `MCPathNames` | `cwd`, and the look-up of paths against a walk over the tree |
| `Shell`, `MCShell` | shells, their commands and the splitting of lines |
| `ShellProofs` | TLAPS proofs about `Shell` |
| `ProofFacts` | lemmas on numbers, finite sets and counting that the proofs share |

Definitions have the name of the function or variable that they translate; the
line ranges are in `PROJECT.json` under `map`.  A definition whose comment begins
with "Mutant" is a plausible slip in the definition that follows it; replacing
the one by the other makes a property fail, which shows that the property says
something about that code.

### Tasks

State: the fields of `pcb_arr` as functions from PCB numbers (`task_state`,
`pid`, `ppid`, `parent_task`, `next`, `sleep_sec`, `task_mm`), the list heads,
`RunningTask`, `terminal_line_count`, `timer_count`.  `cont[t]` stands for the
saved kernel stack: where `t` goes on when it gets the processor again (in user
mode, before the second scan of `wait_for_child`, at the top of the loop of
`schedule_terminal_task`, in Init, in Idle before or after `hlt`).

`schedule` is `fetch_ready_task` followed by `add_to_task_list`, with their
particulars: the head of the list keeps its `next` when it is taken, Idle as the
fallback is neither marked nor unlinked, a zombie is not put back, appending to
an empty list leaves `next` alone.  `Exit` is also every fatal fault (`sys_exit`
is what the fault handler calls), `ForkNoPcb` is the fault of a fork without a
free PCB.  `Kill` is `sys_exit` on another PCB.  `Tick` counts, and at the end of
a slice serves the sleepers and schedules.  An exec of something that is not an
ELF file returns -1 and changes nothing.

### AddressSpace, PrivateMemory

State: `pte` (a function from pages to frame and write bit under each `cr3`),
`ref_count`, `content` of frames, `tlb` of the processor, `status` of processes.
`Fork` takes the write bit from every page, counts and flushes; `CowFault` is the
error-code-7 branch of `page_fault_handler`; `StackFault` maps a zeroed page;
`Exec` takes the stack page, releases the old memory and maps the binary;
`Reap` is `clear_pcb`.  `Read` and `Write` are the processor's: they go through
the TLB first, so a missing flush would be seen, and `access` records what they
read or wrote, which `PrivateMemory` compares with the process's own memory.  The write of the processor on
a page that is not writable is the fault.

The tables are flat here and a binary is a set of whole pages; `UserImage` has
the four levels, the areas and the loading of segments.

### PageTables, UserImage

`PageTables` takes memory as a record of frames, each with its entries (as a
table), its bytes (as a page) and its count, and gives `get_pte_entry`,
`set_mapping`, `create_dir_table` and `clear_mapping` as operators on it.  Frames
are handed out in order, each once (`NeverRecycled` of `PageAlloc`).

`UserImage` adds the pool of VMAs with its links, the list of each process and
the calls that use them.  A call is one action that threads a record through the
steps of the code (`fetch_free_vma`, `append`, `set_mapping`, the copying of
bytes), so that what is left when it stops half-way is what the code leaves.
A binary is a sequence of segments (`BinariesAssumption`).
Three things are followed closely:

* `elf_read` steps over a segment by pages from its first byte, so the last page
  of a segment that is not aligned may be missing when its bytes are copied.  The
  copy then faults in the kernel, and the fault handler takes the branch meant
  for lazy loading.  `fetch_free_vma` has no prototype and `elf_read` passes four
  of its six arguments, so `p_filesz` and `tarfs_base`, which that branch uses,
  are undefined: the page stays zero, is filled with junk, or the task is killed
  with the page mapped (`Fates`).
* The pool runs dry: exec goes on without the area, or faults when its list is
  empty; fork writes through NULL, which kills the parent and leaves the child's
  PCB in no list, with its tables and references (status `lost`).
* `check_vma` takes the end of an area as inside, so that a touch of the first
  byte behind the stack maps a page there, and one of the empty heap area maps
  nothing (the fault repeats; no state changes).

`held` are the frames that the kernel holds with no user entry for them: its own
table, `mm_struct`s and top tables (never given back), and the stack frame of an
exec that was killed.  Programs do not write in this module.

### PageAlloc

The array `pages` with the list through it.  The point of the module is that the
list holds two kinds of pointer: `create_page_list` links by physical address,
`add_to_free_pages` by kernel virtual address, and `page_alloc` adds `KERNBASE`
to whatever it finds.  `free_page_end` never moves: freed pages are linked where
`page_alloc` never finds them, and when the fresh ones are used up every
allocation faults (`AllocFaults`) although freed pages exist.

### Heap

The allocator of K&R as `libc/malloc.c` has it: a circular list in the order of
addresses that both `malloc` and `free` enter at `freeptr`.  Addresses are counted
in headers.  `sbrk` gives one page whatever it is asked for, and `morecore` takes
it for at least 1024 headers, four pages; since blocks are cut from the end, even
the first one lies outside the page.  The rest of the claim stays in the list of
free pages.  The other tasks of the system (`Others`, the actions of `PageAlloc`)
and the next `sbrk` of the program are given those pages, and `page_alloc`,
`kmalloc` and `free_page` clear what they give out or take back, headers of the
program included (`Zeroed`); an `sbrk` inside an earlier claim is `Overlapping`.
`Intact` says that this has not happened to a page with a header: the module
follows the program so far and no further, and its two properties are stated
under it.  A program gets to a second claim with intact headers when its blocks
leave the pages that were taken without one, for instance when it holds the
whole first claim as one block.

### Terminal, LineQueue

The ring, byte for byte, with its positions as the code computes them (including
`dec_term` and the increment without remainder), `CellAt` giving any character
outside the array.  The code does not check what the user types, so the module
names four limits (`length`, `room`, `lastcell`, `erase`); `Limits` says which of
them the user keeps to.  `lastcell` is there because the increment without
remainder (`past_newline`) sends the read position out of the ring after a
newline in its last cell.  A newline is never one of the printable characters
(`CharsAssumption`: `keyboard_intr` sends it only for Enter).

### Console, TerminalScreen

`Console` has `print_to_console` with its particulars: it scrolls only before the
first character of a buffer, a newline or return swallows the character behind
it, the scrolling loop copies one cell of the status row.  `write_to_console`
prints one character at a time; `printf` of libc also writes the zero byte behind
its text.  The status row is two cells, the time and the last key.  `num`,
`pointer`, `reverse` and `convert_num_to_char` occur in `sys/kprintf.c` and
`libc/printf.c` with the same text; the operators stand for both, with the width
of an int as a constant.

`TerminalScreen` lets every key go to the ring and to the screen, in the order of
`keyboard_intr`, between output of programs and of the kernel.  One more limit
(`Quiet`) keeps to what the code gives meaning to: nothing is printed while a line
is being typed.  A message of the kernel may be of any length and have newlines
anywhere (the listing of `tarfs.c:444`, the message without a newline of
`tarfs.c:264`).  Since `print_to_console` scrolls only before the first character,
one that does not end in the row where it begins (`~Fits`) runs over the status
row when it begins near the end of the screen; the next output scrolls once and
leaves what stands there.  `TextsAssumption` says of the characters that only Enter
gives a return and that none is one of the two marks of the status row.

### FileTable, FileView

`fd_array` of each process, with descriptors as the code fills them: `open_s`
sets pointer and size and not the counter, `close_s` resets counter and size and
not the pointer, `read_s` advances by the size asked for, past the end.  The
archive is a constant sequence of names and sizes; `is_sub_string` is prefix
comparison on names.  `FileView` says what a caller relies on: consecutive
pieces of a file up to its end, every entry of a directory once and nothing
below it, descriptors private to a process and copied by fork.

Assumptions about the archive, evaluated by TLC: distinct names; no data for a
directory (`DirSizeAssumption`); directories
before their content and contiguous (`FindOrderAssumption`; the Makefile feeds
`find` to `tar --no-recursion`); no name that extends a *file's* name
(`NoExtensionAssumption`: `read_dir` would leave such an entry out).

### PathNames

`cwd` of every process, and `path_sanitize` with `remove_d` on characters as the
code has it: it counts dots, drops a name by scanning backwards from the third
character before the end, skips the slash behind the dots.  The four calls that
use a path are operators (`new_cwd`, `open_s_finds`, `open_dir_finds`,
`exec_finds`, `load_elf_finds`) that give the header found; `Walk` is the
reference.  The zero blocks behind the archive read as a header with an empty
name, which `file_exists` finds for the root.  Two bounds keep to what the code
gives meaning to: names have no dots (`NamesAssumption`) and paths do not climb
above the root (`Inside`).

### Shell

Every process of the module is a shell, a program or a zombie; a step is a stretch
of user code up to its next system call.  `run_command` forks, the parent waits
unless the command ends in `&`, the child calls `execvp`; when that fails the -1
travels back through `run_command` and `command_handler` to the loop of `main`, in
the child, which is a second shell with the same place in the input.  `waitpid`
ignores the pid it is given.  The variable `c` of `main` is read uninitialised
when the shell reads from the terminal; the compiler of the build takes it as
different from 1, and the model does too.  A lone `&` leaves NULL as the name of
the command, on which the kernel faults.

`exit` is `sys_exit` as the shells meet it: it wakes the PCB in `parent_task` if
that sleeps in wait, and gives to Init only the children that are not READY.  A
shell is READY unless it sleeps; a program, or a shell that reads from the
terminal, may be in either state, which is a free choice (`MayBlock`).  A READY
orphan keeps the pid of the dead shell and becomes a child of the next process on
that PCB, and nobody's `parent_task` changes.  `waitpid` is `wait_for_child`: a
scan, a sleep and a second scan, after which it returns with a child or, if a
stranger woke it, without one.  `haunted` remembers the PCBs that some process
still named in `parent_task` when they were given out; what an earlier owner left
behind can reach only those.

## 3. The runs

Expected to pass:

| Run | Checks | Instance |
|---|---|---|
| `tasks_nokill` | `TypeOK`, `ListsSound`, `NoLostChildExit`, `NoLostLine`, `LinksAcyclic` | 5 PCBs (Init, Idle, the shell and two more), sleep 0 and 1, two unread lines |
| `tasks_kill` | `NoLostChildExit`, `LinksAcyclic` | 4 PCBs, `kill` of every PCB |
| `tasks_live` | `ReadyRuns`, `SleeperWakes` | 4 PCBs, sleep 1 and 2, fairness |
| `memory` | `TypeOK`, `RefCountExact`, `WritableIsExclusive`, `ImplementsPrivateMemory` | 3 processes, 3 pages (one of the binary, two of the stack), 4 frames |
| `heap` | `TypeOK`, `HeadIsUnused`, `NeverRecycled`, `BlocksTile`, `FreeListSorted` | 7 pages (2 in use from the start) of 4 headers, up to 3 references, claims of at least 8 headers, requests of 3, 6 and 9 headers |
| `screen` | `TypeOK`, `CountMatchesRing`, `ImplementsLineQueue`, `EchoShowsLine`, `StatusApart`, `TextMovesUpWhole`, `NumbersReadBack` | ring of 5, reader's buffer of 3, two characters, all limits kept, 2 rows of 2 cells, a kernel message that ends in its row and one that goes on, ints of 8 bits |
| `files` | `TypeOK`, `FreeFdsAreClean`, `ImplementsFileView` | 2 processes, 5 descriptors, archive `d/ d/e/ d/e/x d/f` |
| `paths` | `TypeOK`, `PathsMeanWalks` | 3 processes, 3 directories and 2 files, every path of up to 4 names |
| `shell` | `TypeOK`, `WordsAreWords`, `LinesRunAtMost`, `OneWaitPerForeground`, `ScriptEnds` | 8 processes, 2 typed lines of 9 kinds, 4 scripts, fairness |
| `image` | `TypeOK`, `VmasPrivate`, `TablesExact`, `ImageReadsRight`, `ChildInheritsPages` | 3 processes, 40 frames, 8 VMAs, tables of 4 entries, pages of 2 bytes, one aligned and one unaligned binary |

What they show:

* `ListsSound`: without `kill` every PCB is in exactly one place (free list, task
  list, zombie, running), Idle excepted; no PCB is lost and none is given out
  while in use.
* `LinksAcyclic`: every loop of the kernel over a list ends, even after `kill`
  has brought a PCB onto both lists.
* `NoLostChildExit`, `NoLostLine`: nobody sleeps beside what he waits for.
  `NoLostLine` allows for a reader that takes the line of another who was woken
  for it; `schedule_terminal_task` loops for that reason.
* `ReadyRuns`, `SleeperWakes`: nobody starves in the round robin; positive sleeps
  end.
* `RefCountExact`, `WritableIsExclusive`, `ImplementsPrivateMemory`: no process
  sees a write of another, and no frame is released while mapped or kept when
  not.
* `HeadIsUnused`, `NeverRecycled`: the allocator is safe because it never gives a
  freed page out again; `AddressSpace` relies on that (frames are numbered in the
  order in which they are handed out).
* `CountMatchesRing`, `ImplementsLineQueue`: for a user within the limits, the
  ring is a queue of whole lines however often it turns.
* `FreeFdsAreClean`, `ImplementsFileView`: three ways to free a descriptor all
  leave what `get_free_fd` relies on; files and listings are delivered right.
* `PathsMeanWalks`: from every working directory that cd, fork and exec lead to,
  every path leads where its names say, and the second look-up of an exec, done
  when the old memory is gone, finds what the first one found.
* `BlocksTile`, `FreeListSorted`: whatever the order of `malloc` and `free`, blocks
  never overlap, nothing that was claimed is lost, and the list stays in order
  with neighbours joined, so that both loops end.  Both hold until a page with a
  header is given out and cleared (`Intact`), which the code does not prevent.
* `EchoShowsLine`: what stands before the cursor is the line that Enter delivers,
  across scrolling, wrapping of the ring and control-h.  `StatusApart`: the
  status row is never moved into the text, and text runs into the status row in one
  way only, through a kernel message that does not end in its row; no key, no
  output of a program, however long, and no other message does it.
  `TextMovesUpWhole`: the text scrolls whole, whatever is printed.
* `NumbersReadBack`: digits mean the number, for every int but the least in base
  10 and every int not negative in base 16 (the code drops a bit of the others).
* `WordsAreWords`: `split_and_count` gives the words of a line, against a reference
  definition, for every line of up to 5 characters.
* `LinesRunAtMost`: because a failed exec leaves a second shell behind, a script
  line may run more than once, but each unknown command before it at most doubles
  that number.  `OneWaitPerForeground`: waits balance foreground commands, so
  zombies do not pile up, except on a PCB that a process of an earlier owner still
  had for its `parent_task`.  `ScriptEnds`: nobody waits for somebody who waits back.
* `VmasPrivate`, `TablesExact`: VMAs have one owner and every count is the number
  of entries that name the frame, also after forks and execs that stopped
  half-way.  `ImageReadsRight`: a process that runs reads what its binary says,
  however it was loaded.  `ChildInheritsPages`: until the pool is dry, fork gives the
  child every page of the parent but the one behind the end of an area, which
  `check_vma` lets a fault map and the loop of fork does not reach.

Expected to be violated (each is a finding in `PROJECT.json`):

| Run | What TLC finds |
|---|---|
| `tasks_wakeparent` | re-parenting changes `ppid` and not `parent_task`, so when a child that Init adopted (while the child slept) exits, Init is not woken and sleeps beside its zombie |
| `shell_wait` | the wait for a foreground command is ended by a background command, and the shell goes on while the foreground command runs |

Other departures from the comments are visible in the actions without a run:
`sys_exit` re-parents only children that are not READY; Idle takes its turn in
the round robin and is not marked RUNNING when it is the fallback; `wait` may
return 0 when the wake-up came from a child whose `ppid` no longer names the
caller; a killed and reaped task is on the free list and the task list at once;
freed pages are never found again; `sleep(0)` never ends; a line longer than the reader's buffer is cut and
its rest is read as the next line.

### Bounds, and why they are enough

* `NUM_PCB` = 5 gives the shell two other processes: enough for siblings, for a
  grandchild, for orphans, for a PCB that is reused and for running out of PCBs.
  4 with `kill`, where any PCB, the kernel's own included, may be killed.
* `SLICE` is 18 in the code; 0 or 1 keeps the only distinction (counting or
  acting).  Init starts with any count.
* `SleepFloor`: `sleep_sec` counts down for ever after `sleep(0)`; all negative
  values behave alike, so -1 stands for them.
* `MaxLines`: unread lines; 2 lets two lines meet one or two readers.
* `KillPids` is restricted to PCBs that have been used.
* `KernelTasksIntact` (state constraint of `tasks_kill`): exploration stops where
  Init or Idle has been put on the free list; a process built on the PCB of one
  of them is outside what the model gives meaning to.  States that violate the
  constraint are still checked.
* `NumFrames` = 4: the shell's two pages and two more, so an exec, or two copies
  after forks, or a grown stack page and its copy.  Three processes can share
  every frame.  Since `RefCountExact` is checked in every state, longer histories
  only repeat these with other frame numbers.
* `MaxRef`, `NumPages`: one to three owners of a page, allocation to the end and
  beyond.
* `Limits`, `ReadSize`, `BUFF_SIZE`: lines of length 0 up to the buffer, several
  lines in the ring, positions that pass its end any number of times.
* `OpenEntries` (a directory and a file), `CloseFds` (one descriptor), `MAX_FDS`
  = 5, that is two besides the standard three: reuse of a descriptor and running
  out of them; a read of 2 from a file of 3 runs past its end.
* `MaxNames` = 4 with a tree of depth 3 and names of one and two characters: one
  and two `..` in a row, at the beginning, in the middle and at the end.

* `Requests`: blocks that leave a rest of a claim or, two together, fill one, and
  one that takes a claim of its own whole; 7 pages let two claims exist apart
  with intact headers, and others take pages between, before and inside them.
* `Rows`, `Cols`: two rows of two cells make a line of up to two characters
  cross a row and scroll; the status row is the third.  `Width` = 8: every number
  of every sign is converted.
* `Pids` = 8, `MaxTyped` = 2: two lines from one or two shells, one of them a
  script with up to two unknown commands; PCBs never run out.  A shell out of PCBs
  is in `Tasks` (`ForkNoPcb`).
* `NumFrames` = 40 with `FramesPerCall` = 13 (what the largest call takes) allows
  for an exec, two forks and execs of the children, with faults between; 8 VMAs
  make fork stop half-way, exec stop half-way and exec find nothing at all.
  `Touched`: addresses in the stack, behind it, at the end of a segment, in the
  heap area, and nowhere.

Symmetry is used for interchangeable PCBs in `AddressSpace` and `FileTable`,
where no action compares them.  Deadlock checking is off for
`AddressSpace` and `UserImage` (all processes may have exited, and the kernel is
then in Idle, which those modules leave out; or frames are used up) and for
`Shell`, whose shells may all wait at the prompt or be gone.

### Fairness

`Tasks`: weak fairness of `KernelStep` (code after a `schedule()` that runs with
interrupts off and never waits) and strong fairness of `Tick`.  Strong, because
Tick is disabled while the kernel runs and processes may keep entering it; the
interrupt controller holds a pending timer interrupt until interrupts are
enabled, so it is not lost.  Nothing is assumed of user programs or the keyboard.

`Shell`: weak fairness of the steps of every process, which the round robin gives
(`ReadyRuns`), programs being assumed to end.  Nothing is assumed of Init, which
may sleep beside a zombie (`tasks_wakeparent`), or of the user.

## 4. The proofs

Proved by TLAPS, for every value of the constants that satisfies the named
assumptions of the module:

| Theorem | Statement | Under |
|---|---|---|
| `TasksProofs!TypeCorrect` | `Spec => []TypeOK` | |
| `TasksProofs!ListWalksEnd` | `Spec => []LinksAcyclic` | |
| `TasksProofs!ChildExitIsNotLost` | `Spec => []NoLostChildExit` | |
| `TasksProofs!EveryPcbInOnePlace` | `Spec => []ListsSound` | no process calls `kill` |
| `TasksProofs!LinesReachReaders` | `Spec => []NoLostLine` | no process calls `kill` |
| `HeapProofs!TypeCorrect` | `Spec => []TypeOK` | |
| `HeapProofs!NoPageGivenTwice` | `Spec => []HeadIsUnused` | |
| `HeapProofs!FreedPagesStayLost` | `Spec => NeverRecycled` | |
| `HeapProofs!HeapUsesPages` | `HeapSpec => Spec` | |
| `HeapProofs!MallocTiles` | `HeapSpec => []BlocksTile` | |
| `HeapProofs!FreeListWhole` | `HeapSpec => []FreeListSorted` | |
| `AddressSpaceProofs!TypeCorrect` | `Spec => []TypeOK` | |
| `AddressSpaceProofs!CountsAreExact` | `Spec => []RefCountExact` | |
| `AddressSpaceProofs!WritableFramesAreExclusive` | `Spec => []WritableIsExclusive` | |
| `AddressSpaceProofs!MemoryIsPrivate` | `Spec => ImplementsPrivateMemory` | |
| `FileTableProofs!TypeCorrect` | `Spec => []TypeOK` | |
| `FileTableProofs!NoStaleDescriptor` | `Spec => []FreeFdsAreClean` | |
| `FileTableProofs!CallsKeepPromise` | `Spec => ImplementsFileView` | |
| `ShellProofs!TypeCorrect` | `Spec => []TypeOK` | |
| `ShellProofs!ForegroundIsCollected` | `Spec => []OneWaitPerForeground` | |
| `ShellProofs!SplittingIsExact` | `Spec => []WordsAreWords` | |
| `ShellProofs!LinesBounded` | `Spec => []LinesRunAtMost` | |
| `TerminalProofs!TypeCorrect` | `Spec => []TypeOK` | |
| `TerminalProofs!CountIsExact` | `Spec => []CountMatchesRing` | the user keeps to all limits |
| `TerminalProofs!RingIsLineQueue` | `Spec => ImplementsLineQueue` | the user keeps to all limits |
| `TerminalProofs!ScreenKeepsTerminal` | `ScreenSpec => Spec` | |
| `TerminalProofs!StatusStaysApart` | `ScreenSpec => StatusApart` | `LineFits` |
| `TerminalProofs!EchoIsLine` | `ScreenSpec => []EchoShowsLine` | `LineFits` |
| `TerminalProofs!TextOnlyMovesUp` | `ScreenSpec => TextMovesUpWhole` | `LineFits` |
| `TerminalProofs!NumbersAreRight` | `ScreenSpec => []NumbersReadBack` | |
| `UserImageProofs!AreasArePrivate` | `Spec => []VmasPrivate` | |

The conditions are those of the runs: `tasks_nokill` has no `kill` and `screen`
keeps all limits.  `LineFits` is that and that the longest line a user may type
fits above the last row (99 characters and 23 rows of 80 in the code; 2 and 2 in
the run): a longer one is scrolled away while it is typed.  Without the conditions
the statements are false (section 3, and the limits of `Terminal`).  The assumptions on constants are finite sets of
processes, pages and PCBs, memory for the first process, the archive as the build
makes it, and the like; TLC evaluates each of them on a run.

The arguments:

* **ListWalksEnd.**  Acyclicity is stated as "from every non-empty set of PCBs
  some link leads out", which needs no reachability and so no induction over the
  length of lists.  Appending `t` sets `next[t]` to NULL, so no cycle can run
  through `t`; unlinking only shortens paths; clearing a link removes one.  With
  a lemma of that form for `Append`, `Unlink`, `add_to_task_list`,
  `fetch_ready_task` and `schedule`, acyclicity together with the type invariant
  is inductive, and each action is a composition of these.  It does not need the
  two lists to be disjoint, which is why it survives `kill`.
* **ChildExitIsNotLost.**  `NoLostChildExit` alone is not inductive: an exit
  wakes `parent_task`, and one must know that the scan by `ppid` and the wake-up
  by `parent_task` name the same PCB.  `ParentInv` adds `UsedPcbs` (a PCB that
  was never used is RUNNING and has no memory; a used one has its own number as
  `pid`; the running task, Init and Idle are used) and `ParentFields` (where
  `parent_task` is set, `ppid` is the pid of that task or of Init).  `Rescheduled` is
  the only thing the proof uses of the scheduler: it exchanges READY and RUNNING
  and nothing else.
* **EveryPcbInOnePlace.**  First what `Reach` is: the recursion that defines it
  has a solution, NUM_PCB rounds are enough on acyclic links, and so it is the
  least set that holds the head and is closed under `next`.  From that follows
  what appending, unlinking and taking the head do to the set on a list.  The
  invariant `ListInv` strengthens `ListsSound` in three places that look like
  slips in the code and are not: a head that is taken keeps its `next`, which is
  sound because it runs and is not on the list; Idle as the fallback may run while
  still on the list, but only as its last element; and `add_to_task_list` on an
  empty list leaves a stale `next`, which could graft the old list back on.
  `InitPhase` shows that the list is empty there only when Init is put back, at
  its one and only turn, and that its stale link then leads to the task being
  fetched.
* **LinesReachReaders.**  `LineInv`: while somebody waits, the lines are no more
  than the readers on their way.  It needs where tasks continue (who is READY at
  the loop of `schedule_terminal_task` was a reader, and stays one until it runs
  or takes a line) and, from the list theorem, that `fork` never reuses the PCB of
  such a reader.
* **NoPageGivenTwice, FreedPagesStayLost.**  `ChainInv`: a head that can be
  followed starts a run of unreferenced pages linked in order up to
  `free_page_end`, and the link of `free_page_end`, the only one in that run that
  `free_page` writes, is never one that can be followed.
* **MallocTiles, FreeListWhole.**  `HeapInv` says of the list what can be kept
  without walking it (`Ring`): each block in it leads to the next one above, with
  a gap between, or from the highest back to `base`; the free blocks are those in
  it, all blocks lie apart and together cover what was claimed.  `HeapInv` has this
  while the headers are intact, and what makes that inductive: `sbrk` gives pages in
  ascending order, and a page that others are given or give back is neither fresh
  afterwards nor a page of `sbrk`, so that a step that clears a header ends
  `Intact`.  One lemma for each thing that `malloc`
  and `free` do to a list (take a block whole, cut its end off, put a block back
  alone, joined to the one below, above or both) keeps `Ring`.  That the walks of
  the code find what they look for, from wherever `freeptr` stands, follows from
  the rank of a block: the walk of `n` steps meets the `n` blocks behind its start
  in order, once each.
* **CountsAreExact, WritableFramesAreExclusive.**  A count is the cardinality of
  the set of entries that name the frame.  `TableInv` has what makes the counting
  come out: a table holds a frame at most once (so fork, which counts each page of
  the parent once, is right), a PCB without a process has an empty table, tables
  hold only frames that were handed out (so the next frame is nobody's), and the
  TLB agrees with the table of the running process.  `CowFault` looks at the count
  to decide whether it may just set the write bit: with an exact count of 1 no
  other entry names the frame, which is `Exclusive` after the step.
* **MemoryIsPrivate.**  Step by step: with `TlbAgrees` a read or write goes where
  the table says, with `Exclusive` a write changes one page of one process in the
  abstract memory; a fault, a switch and an exit change none; fork copies the
  abstract memory of the parent because all its entries name the same frames.
* **NoStaleDescriptor, CallsKeepPromise.**  `GoodFd`, descriptor by descriptor: a
  free one has no count and no size; the pointer of an open file has advanced as
  far as its count (both may have run past the end); what a directory listed last
  is itself or directly in it.  The listing needs what the order of `find` gives:
  the first later entry whose name extends the directory's and goes one level
  deep is the next child, and none is passed over.
* **ForegroundIsCollected.**  `FamilyInv` keeps the two pointers that fork sets side
  by side: `sys_exit` wakes by `parent_task`, wait collects by `parent`.  On a PCB
  that is not haunted they agree for all its children, so a shell there has one
  child more than background commands while it waits, and one that was woken finds
  a zombie in its second scan.
* **SplittingIsExact.**  The fold of `split_and_count` is unfolded: by `Scanned`,
  after `k` characters every word begun but the last is stored, in order, and the
  last one is the current word, whole if a blank came after it.
* **LinesBounded.**  A product over the lines still to come cannot be kept by
  looking at one line; what is kept is a count.  A shell that will come to line
  `i` has a *chance* at it for every set of unknown commands on its way, the ones
  at which it will be the child whose exec fails.  `ChancesCounted`: the starts of
  a line and the chances left at it are together at most the number of scripts
  started times the number of such sets.  A fork at another line shares the
  chances of the parent between the two (an injection gives each chance of the
  child back to the parent with the line added), a start of the line uses one up,
  and a child comes to later lines only if its own line is an unknown command,
  which needs to know what it holds (`LineInHand`).
* **CountIsExact, RingIsLineQueue.**  `RingInv`: positions in range, no newline in
  the last cell (where the increment without remainder would leave the ring), the
  count exact, no line longer than a read.  The unread part is the sequence of
  cells from the read to the write position; a key appends to it or takes its last
  character, a read takes its first line.  How these act on the sequence of lines
  is proved on sequences alone (`AppendChar`, `AppendNewline`, `FirstLineTaken`),
  the remainders once (`RingArithmetic`).
* **StatusStaysApart, EchoIsLine, TextOnlyMovesUp.**  The folds of
  `print_to_console` and `write_to_console` are unfolded, and one invariant is kept
  along them: `Sane` (nothing of the status row in the text), `Inside` (the cursor in
  the text or behind its last cell), `TextKept` (what stood above a given cell, in
  the text, stands there still, some rows higher) and `Kept` (the status row is as
  it was, too).  Messages of any length keep `Sane` and `TextKept`; those that end in
  their row, keys and programs keep all four.  `ScreenInv` joins them to `RingInv`: the characters
  before the cursor are the partial line of the ring.  That a line is never
  scrolled away while it is typed is where `LineFits` is needed.
* **NumbersAreRight.**  Every digit at least halves the rest, so the loop ends
  within the width; read from the front, the value of the first `k` digits is what
  was left of the number when the others had been taken off.  That 2^(n+1) is
  twice 2^n, which the provers do not know, comes from counting subsets.
* **AreasArePrivate.**  `VmaInv`: areas are handed out in order and never come
  back, and one call makes the whole list of a process, so every list is a run of
  neighbours, runs of different processes lie apart and the pool is the run behind
  all.  Each call is followed through its folds over segments and areas with what
  its record then holds, the pool at its end and calls that die included.

Where a definition recurses (`Reach`, the fold of `split_and_count`, maxima of
sets) the proofs do not use the library's induction: they show that the recursion
has a solution, and take the least number for which a claim fails
(`ProofFacts!LeastElement`).

The inductive invariants hold in the runs too; each was checked by TLC before it
was proved.

Only model-checked:

* the liveness properties `ReadyRuns`, `SleeperWakes` and `ScriptEnds`, which are
  outside the prover's reach;
* `TypeOK` and `PathsMeanWalks` of `PathNames`: both rest on `path_sanitize`, which
  scans characters forwards and backwards over names glued together by a recursive
  library operator, and the type invariant already says that it arrives at a
  directory;
* `TablesExact`, `ImageReadsRight`, `ChildInheritsPages` and `TypeOK` of `UserImage`:
  they speak of trees of tables under nested folds, and the type invariant needs
  exact counts (no count below zero) and that `FramesPerCall` bounds every call,
  which depends on the binaries.  `AddressSpaceProofs` proves the counts on flat
  tables.

## 5. What is not modelled

* Segments that share a page, and the layout of ELF headers in the file.
* Supervisor writes that ignore a missing write bit (`CR0.WP` is 0), and the
  pages of `sbrk`, which live in the shared kernel mapping.  Both cross the
  privacy that `ImplementsPrivateMemory` states for the accesses of processes.
* The arguments that exec copies to the new stack.
* The arithmetic of the tar headers, lengths of buffers, descriptors outside
  `fd_array` given to `close`.
* What `malloc` does once a page with one of its headers was cleared or claimed
  again, and two programs in one heap (a fork after `malloc`): the code gives no
  correct outcome that could be stated.
* The zero byte that `read_buffer` writes in the reader's buffer, one place behind
  the end of the line (`terminal.c:58`); `Terminal` has the characters of the line.
* Names with dots: the archive has some (`test1/abc.txt`), `remove_d` counts their
  dots like those of `..`, and `PathNames` leaves them out.
* Environment variables of the shell, the wrappers of system calls, the programs
  in `bin/` other than the shell: no state, or clients of the calls modelled here.
* Boot, except for the state that it leaves.
* AHCI, PCI, `sys/task.c`: not called.

## 6. Plan

What is left of the model: a composition of `Terminal` and `AddressSpace` for a
line that is copied into a page shared after fork; the walk over the archive in
`get_next_tar_header`.

Proofs, in this order:

1. `UserImage`: `TablesExact`, with a lemma on `set_mapping` and `clear_mapping`
   that a table is named once, then the type invariant from it.
2. `PathNames`: `TypeOK`, then `PathsMeanWalks`, through a lemma on
   `path_sanitize` of the form that `SplitFindsWords` has.
3. `Tasks`: as an action property, that `schedule` never gives the processor to a
   task that sleeps, waits or is suspended.

## 7. Running it

    tlc -workers 2 -config MCTasks_nokill.cfg MCTasks
    tlapm TasksProofs.tla

The configurations are named after the module that they check; `PROJECT.json`
lists them with the result to expect.

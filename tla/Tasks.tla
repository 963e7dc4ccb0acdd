-------------------------------- MODULE Tasks --------------------------------
(***************************************************************************)
(* Processes of the kernel: the PCB array with its two intrusive lists     *)
(* (free_pcb_head and overall_task_list share the field next), the round-  *)
(* robin scheduler, fork / exec / exit / kill / wait, sleeping, waiting    *)
(* for a terminal line, the Init and Idle tasks and the timer interrupt.   *)
(*                                                                         *)
(* Sources: sys/proc_mngr.c, sys/process.c, sys/pit.c, sys/syscalls.c,     *)
(* sys/terminal.c (the line counter only), sys/main.c (the state after     *)
(* boot), sys/pagefault.c (the fatal branch).                              *)
(*                                                                         *)
(* Grain of atomicity.  System calls, faults and interrupts run with IF=0  *)
(* (sys/syscall.s, interrupt gates), so the kernel is left only through    *)
(* schedule(): one action is one kernel entry up to its next schedule()    *)
(* or its return to user mode.  cont[t] says where t continues when it is  *)
(* given the processor again.                                              *)
(***************************************************************************)
EXTENDS Integers, FiniteSetsExt

CONSTANTS
  NUM_PCB,    \* length of pcb_arr (1000 in include/sys/process.h)
  SLICE,      \* timer interrupts that only count between two that act (18)
  SleepSecs,  \* arguments given to sleep()
  KillPids,   \* arguments given to kill(); {} leaves kill out
  MaxLines    \* bound: typed lines nobody has read yet

ASSUME NUM_PCBAssumption == NUM_PCB \in Nat /\ NUM_PCB >= 3
ASSUME SLICEAssumption == SLICE \in Nat
ASSUME SleepSecsAssumption == SleepSecs \subseteq Nat
ASSUME KillPidsAssumption == KillPids \subseteq 0..(NUM_PCB - 1)
ASSUME MaxLinesAssumption == MaxLines \in Nat

PCBs == 0..(NUM_PCB - 1)

\* A pointer to a Task is its index in pcb_arr; NULL is no index.
NULL == -1

\* main.c creates the tasks in this order, so the three pointers never change.
INIT_TASK == 0
IDLE_TASK == 1
SHELL == 2

TASK_STATES == {"RUNNING", "READY", "SLEEP", "WAIT", "ZOMBIE", "SUSPENDED"}

(***************************************************************************)
(* Where a task continues:                                                 *)
(*   user   in user mode (interrupts enabled)                              *)
(*   wait2  in wait_for_child, before its second scan                      *)
(*   term   in schedule_terminal_task, at the top of its loop              *)
(*   init   in init_process (kernel mode, before its first scan)           *)
(*   hlt    in idle_process, halted with interrupts enabled                *)
(*   woken  in idle_process, between hlt and cli                           *)
(***************************************************************************)
Conts == {"user", "wait2", "term", "init", "hlt", "woken"}

\* Bound: sleep_sec counts down from 0 for ever after sleep(0); the negative
\* values are all alike (none is the 0 that wakes), so one stands for them.
SleepFloor == -1

VARIABLES
  task_state, pid, ppid, parent_task, next, sleep_sec,  \* fields of pcb_arr
  task_mm,             \* "null": PCB never used; "empty": no VMA; "mapped"
  cont,                \* where each task continues
  free_pcb_head, overall_task_list, RunningTask,
  terminal_line_count, timer_count

lists == <<next, free_pcb_head, overall_task_list>>
family == <<pid, ppid, parent_task>>
vars == <<task_state, family, lists, sleep_sec, task_mm, cont, RunningTask,
          terminal_line_count, timer_count>>

-----------------------------------------------------------------------------
(* Walking a list: the PCBs reached from h along nx. *)

Reach(h, nx) ==
  LET R[k \in 0..NUM_PCB] ==
        IF k = 0 THEN {h}
        ELSE LET S == R[k - 1] IN S \cup {nx[p] : p \in S \ {NULL}}
      All == R[NUM_PCB]
  IN  {p \in PCBs : p \in All}

\* The member of S that a walk meets first (a singleton, or {} if S is {}).
FirstOf(S, nx) == {t \in S : S \subseteq Reach(t, nx)}

\* Mutant: the new tail keeps its old successor.
AppendKeepingNext(nx, h, t) ==
  [p \in PCBs |-> IF p \in Reach(h, nx) /\ nx[p] = NULL THEN t ELSE nx[p]]

\* temp->next = task; task->next = NULL, at the end of the list that starts at h.
Append(nx, h, t) ==
  [p \in PCBs |-> IF p = t THEN NULL
                  ELSE IF p \in Reach(h, nx) /\ nx[p] = NULL THEN t
                  ELSE nx[p]]

\* prev->next = next_task->next; next_task->next = NULL, for a t that is not h.
Unlink(nx, h, t) ==
  [p \in PCBs |-> IF p = t THEN NULL
                  ELSE IF p \in Reach(h, nx) /\ nx[p] = t THEN nx[t]
                  ELSE nx[p]]

-----------------------------------------------------------------------------
(* The scheduler. *)

\* Mutant: a zombie is put back on the task list.
add_zombie_too(st, nx, list, t) ==
  [st |-> [st EXCEPT ![t] = IF @ = "RUNNING" THEN "READY" ELSE @],
   nx |-> IF list = NULL THEN nx ELSE Append(nx, list, t),
   list |-> IF list = NULL THEN t ELSE list]

\* Mutant: the task goes to the front of the list.
add_at_front(st, nx, list, t) ==
  IF st[t] = "ZOMBIE" THEN [st |-> st, nx |-> nx, list |-> list]
  ELSE [st |-> [st EXCEPT ![t] = IF @ = "RUNNING" THEN "READY" ELSE @],
        nx |-> IF t \in Reach(list, nx) THEN nx ELSE [nx EXCEPT ![t] = list],
        list |-> IF t \in Reach(list, nx) THEN list ELSE t]

\* The empty-list branch leaves task->next as it is.
add_to_task_list(st, nx, list, t) ==
  IF st[t] = "ZOMBIE" THEN [st |-> st, nx |-> nx, list |-> list]
  ELSE [st |-> [st EXCEPT ![t] = IF @ = "RUNNING" THEN "READY" ELSE @],
        nx |-> IF list = NULL THEN nx ELSE Append(nx, list, t),
        list |-> IF list = NULL THEN t ELSE list]

\* The task fetched and what the fetch leaves behind.  The head keeps its next
\* when it is taken; Idle, the fallback, keeps its state and its place.
fetch_ready_task(st, nx, list) ==
  LET ready == {t \in Reach(list, nx) : st[t] = "READY"} IN
  IF ready = {}
  THEN {[task |-> IDLE_TASK, st |-> st, nx |-> nx, list |-> list]}
  ELSE {[task |-> t,
         st   |-> [st EXCEPT ![t] = "RUNNING"],
         nx   |-> IF t = list THEN nx ELSE Unlink(nx, list, t),
         list |-> IF t = list THEN nx[t] ELSE list] : t \in FirstOf(ready, nx)}

\* schedule(), entered with the given states, links and head of the task list.
schedule(st, nx, list) ==
  \E f \in fetch_ready_task(st, nx, list) :
    LET a == add_to_task_list(f.st, f.nx, f.list, RunningTask) IN
    /\ task_state' = a.st
    /\ next' = a.nx
    /\ overall_task_list' = a.list
    /\ RunningTask' = f.task

\* The kernel entry that Running makes now leaves it to continue at c.
ContinueAt(c) == cont' = [cont EXCEPT ![RunningTask] = c]

\* Running executes in user mode, with pages under it.
InUser == cont[RunningTask] = "user" /\ task_mm[RunningTask] = "mapped"

-----------------------------------------------------------------------------
(* Fork and exec. *)

\* fork_process with a free PCB: Running goes on, the child waits its turn.
Fork ==
  /\ InUser
  /\ free_pcb_head # NULL
  /\ LET child == free_pcb_head
         a == add_to_task_list([task_state EXCEPT ![child] = "READY"],
                               [next EXCEPT ![child] = NULL],
                               overall_task_list, child)
     IN  /\ task_state' = a.st
         /\ next' = a.nx
         /\ overall_task_list' = a.list
         /\ free_pcb_head' = next[child]
         /\ pid' = [pid EXCEPT ![child] = child]
         /\ ppid' = [ppid EXCEPT ![child] = pid'[RunningTask]]
         /\ parent_task' = [parent_task EXCEPT ![child] = RunningTask]
         /\ task_mm' = [task_mm EXCEPT ![child] = "mapped"]
         /\ cont' = [cont EXCEPT ![child] = "user"]
  /\ UNCHANGED <<sleep_sec, RunningTask, terminal_line_count, timer_count>>

\* A successful execvpe: clean_task_for_exec, then back to user mode.
Exec ==
  /\ InUser
  /\ next' = [next EXCEPT ![RunningTask] = NULL]
  /\ sleep_sec' = [sleep_sec EXCEPT ![RunningTask] = 0]
  /\ UNCHANGED <<task_state, family, free_pcb_head, overall_task_list, task_mm,
                 cont, RunningTask, terminal_line_count, timer_count>>

-----------------------------------------------------------------------------
(* Exit and kill. *)

\* Mutant: sys_exit forgets the waiting parent.
leave_parent_asleep(t) == [task_state EXCEPT ![t] = "ZOMBIE"]

\* sys_exit: t becomes a zombie, then its parent is made ready if it waits.
zombie_and_wake_parent(t) ==
  LET parent == parent_task[t]
      st == [task_state EXCEPT ![t] = "ZOMBIE"]
  IN  [p \in PCBs |-> IF p = parent /\ st[p] = "SUSPENDED" THEN "READY" ELSE st[p]]

\* sys_exit: the children that are not READY get Init for a parent by number;
\* parent_task stays.
reparent_children(st, t) ==
  [p \in PCBs |-> IF ppid[p] = pid[t] /\ st[p] # "READY"
                  THEN pid[INIT_TASK] ELSE ppid[p]]

sys_exit(t) ==
  /\ ppid' = reparent_children(zombie_and_wake_parent(t), t)
  /\ schedule(zombie_and_wake_parent(t), next, overall_task_list)
  /\ UNCHANGED <<pid, parent_task, free_pcb_head, sleep_sec, task_mm>>

(***************************************************************************)
(* exit(), and every fatal fault: a user access outside the VMAs, and the  *)
(* kernel's own access when a task whose memory was cleared under it (kill *)
(* followed by wait) runs on or has its line copied to its buffer.         *)
(***************************************************************************)
Exit ==
  /\ \/ cont[RunningTask] = "user"
     \/ /\ cont[RunningTask] = "term" /\ task_mm[RunningTask] = "empty"
        /\ terminal_line_count # 0
  /\ sys_exit(RunningTask)
  /\ ContinueAt("user")
  /\ UNCHANGED <<terminal_line_count, timer_count>>

\* fork_process without a free PCB writes through NULL: the fault kills Running.
ForkNoPcb ==
  /\ InUser
  /\ free_pcb_head = NULL
  /\ sys_exit(RunningTask)
  /\ UNCHANGED <<cont, terminal_line_count, timer_count>>

\* kill(t): sys_exit on another PCB, which keeps its place on the task list.
\* Bound: only PCBs that have been used (the code checks nothing).
Kill(t) ==
  /\ InUser
  /\ t # RunningTask
  /\ task_mm[t] # "null"
  /\ sys_exit(t)
  /\ UNCHANGED <<cont, terminal_line_count, timer_count>>

-----------------------------------------------------------------------------
(* Wait. *)

ZombieChildren ==
  {c \in PCBs : task_state[c] = "ZOMBIE" /\ ppid[c] = pid[RunningTask]}

\* clear_pcb(c) on everything but the links and the state.
clear_pcb(c) ==
  /\ ppid' = [ppid EXCEPT ![c] = -1]
  /\ parent_task' = [parent_task EXCEPT ![c] = NULL]
  /\ sleep_sec' = [sleep_sec EXCEPT ![c] = 0]
  /\ task_mm' = [task_mm EXCEPT ![c] = "empty"]

append_in_free_list(nx, c) ==
  [nx |-> IF free_pcb_head = NULL THEN [nx EXCEPT ![c] = NULL]
          ELSE Append(nx, free_pcb_head, c),
   head |-> IF free_pcb_head = NULL THEN c ELSE free_pcb_head]

\* A scan that finds a zombie child: the lowest PCB is cleared and freed, and
\* the system call gives up the processor before it returns.
ReapAndSchedule ==
  /\ ZombieChildren # {}
  /\ LET c == Min(ZombieChildren)
         a == append_in_free_list([next EXCEPT ![c] = NULL], c)
     IN  /\ clear_pcb(c)
         /\ free_pcb_head' = a.head
         /\ schedule([task_state EXCEPT ![c] = "READY"], a.nx, overall_task_list)
  /\ ContinueAt("user")
  /\ UNCHANGED <<pid, terminal_line_count, timer_count>>

\* A first scan that finds none.
Suspend ==
  /\ ZombieChildren = {}
  /\ schedule([task_state EXCEPT ![RunningTask] = "SUSPENDED"], next, overall_task_list)
  /\ UNCHANGED <<family, free_pcb_head, sleep_sec, task_mm, terminal_line_count, timer_count>>

\* Mutant: the caller is suspended without a first scan.
WaitWithoutScan ==
  /\ InUser
  /\ schedule([task_state EXCEPT ![RunningTask] = "SUSPENDED"], next, overall_task_list)
  /\ ContinueAt("wait2")
  /\ UNCHANGED <<family, free_pcb_head, sleep_sec, task_mm, terminal_line_count, timer_count>>

Wait ==
  /\ InUser
  /\ \/ ReapAndSchedule
     \/ Suspend /\ ContinueAt("wait2")

\* The second scan; without a zombie child wait returns 0.
WaitResume ==
  /\ cont[RunningTask] = "wait2"
  /\ \/ ReapAndSchedule
     \/ /\ ZombieChildren = {}
        /\ schedule(task_state, next, overall_task_list)
        /\ ContinueAt("user")
        /\ UNCHANGED <<family, free_pcb_head, sleep_sec, task_mm,
                       terminal_line_count, timer_count>>

\* init_process enters wait_for_child before it has any child.
InitRun ==
  /\ cont[RunningTask] = "init"
  /\ Suspend
  /\ UNCHANGED cont

-----------------------------------------------------------------------------
(* Sleep, yield, the terminal and Idle. *)

Sleep(n) ==
  /\ InUser
  /\ sleep_sec' = [sleep_sec EXCEPT ![RunningTask] = n]
  /\ schedule([task_state EXCEPT ![RunningTask] = "SLEEP"], next, overall_task_list)
  /\ UNCHANGED <<family, free_pcb_head, task_mm, cont, terminal_line_count, timer_count>>

Yield ==
  /\ InUser
  /\ schedule(task_state, next, overall_task_list)
  /\ UNCHANGED <<family, free_pcb_head, sleep_sec, task_mm, cont,
                 terminal_line_count, timer_count>>

\* read_buffer takes a line: no schedule().
TakeLine ==
  /\ terminal_line_count # 0
  /\ terminal_line_count' = terminal_line_count - 1
  /\ ContinueAt("user")
  /\ UNCHANGED <<task_state, family, lists, sleep_sec, task_mm, RunningTask, timer_count>>

WaitForLine ==
  /\ terminal_line_count = 0
  /\ schedule([task_state EXCEPT ![RunningTask] = "WAIT"], next, overall_task_list)
  /\ ContinueAt("term")
  /\ UNCHANGED <<family, free_pcb_head, sleep_sec, task_mm, terminal_line_count, timer_count>>

ReadTerm == InUser /\ (TakeLine \/ WaitForLine)

\* Mutant: the woken reader does not look at the counter again.
TermResumeUnchecked ==
  /\ cont[RunningTask] = "term"
  /\ terminal_line_count' = terminal_line_count - 1
  /\ ContinueAt("user")
  /\ UNCHANGED <<task_state, family, lists, sleep_sec, task_mm, RunningTask, timer_count>>

TermResume ==
  /\ cont[RunningTask] = "term"
  /\ \/ task_mm[RunningTask] = "mapped" /\ TakeLine
     \/ WaitForLine

\* cli; schedule(); and around the loop to sti; hlt.
IdleSchedule ==
  /\ cont[RunningTask] = "woken"
  /\ schedule(task_state, next, overall_task_list)
  /\ ContinueAt("hlt")
  /\ UNCHANGED <<family, free_pcb_head, sleep_sec, task_mm, terminal_line_count, timer_count>>

-----------------------------------------------------------------------------
(* Interrupts: taken only where IF = 1; any of them ends a hlt. *)

Interrupt ==
  /\ cont[RunningTask] \in {"user", "hlt", "woken"}
  /\ cont' = [cont EXCEPT ![RunningTask] = IF @ = "hlt" THEN "woken" ELSE @]
  /\ UNCHANGED <<family, free_pcb_head, task_mm>>

Sleepers == {t \in Reach(overall_task_list, next) : task_state[t] = "SLEEP"}

\* Mutant: a sleeper is woken when one second is left.
due_one_early(t) == t \in Sleepers /\ sleep_sec[t] = 2

\* The sleepers whose count reaches zero in this second.
due(t) == t \in Sleepers /\ sleep_sec[t] = 1

\* timer_int: between slices it counts; at the end of one it serves the
\* sleepers on the task list, starts again from 0 and schedules.
Tick ==
  /\ Interrupt
  /\ UNCHANGED terminal_line_count
  /\ \/ /\ timer_count # SLICE
        /\ timer_count' = timer_count + 1
        /\ UNCHANGED <<task_state, next, overall_task_list, sleep_sec, RunningTask>>
     \/ /\ timer_count = SLICE
        /\ timer_count' = 0
        /\ sleep_sec' = [t \in PCBs |-> IF t \in Sleepers /\ sleep_sec[t] # SleepFloor
                                        THEN sleep_sec[t] - 1 ELSE sleep_sec[t]]
        /\ schedule([t \in PCBs |-> IF due(t) THEN "READY" ELSE task_state[t]],
                    next, overall_task_list)

\* Mutant: nobody is woken.
wake_nobody(st) == st

\* The first task of the list that waits for input is made ready.
wake_up_task(st) ==
  LET waiting == {t \in Reach(overall_task_list, next) : st[t] = "WAIT"} IN
  [t \in PCBs |-> IF t \in FirstOf(waiting, next) THEN "READY" ELSE st[t]]

\* Enter: terminal_handler('\n').
KeyEnter ==
  /\ Interrupt
  /\ terminal_line_count < MaxLines
  /\ terminal_line_count' = terminal_line_count + 1
  /\ task_state' = wake_up_task(task_state)
  /\ UNCHANGED <<next, overall_task_list, RunningTask, sleep_sec, timer_count>>

\* Any other key: nothing here but the end of a hlt.
KeyOther ==
  /\ Interrupt
  /\ UNCHANGED <<task_state, next, overall_task_list, RunningTask, sleep_sec,
                 terminal_line_count, timer_count>>

-----------------------------------------------------------------------------
\* After start(): Init and Idle are on the task list and the shell runs; the
\* PCBs never used are zero except for their links.
Init ==
  /\ task_state = [p \in PCBs |-> IF p \in {INIT_TASK, IDLE_TASK} THEN "READY" ELSE "RUNNING"]
  /\ pid = [p \in PCBs |-> IF p <= SHELL THEN p ELSE 0]
  /\ ppid = [p \in PCBs |-> IF p <= SHELL THEN -1 ELSE 0]
  /\ parent_task = [p \in PCBs |-> NULL]
  /\ next = [p \in PCBs |-> IF p \in {IDLE_TASK, SHELL, NUM_PCB - 1} THEN NULL ELSE p + 1]
  /\ sleep_sec = [p \in PCBs |-> 0]
  /\ task_mm = [p \in PCBs |-> CASE p < SHELL -> "empty" [] p = SHELL -> "mapped"
                                 [] p > SHELL -> "null"]
  /\ cont = [p \in PCBs |-> CASE p = INIT_TASK -> "init" [] p = IDLE_TASK -> "hlt"
                              [] OTHER -> "user"]
  /\ free_pcb_head = IF NUM_PCB = 3 THEN NULL ELSE 3
  /\ overall_task_list = INIT_TASK
  /\ RunningTask = SHELL
  /\ terminal_line_count = 0
  /\ timer_count \in 0..SLICE

KernelStep == WaitResume \/ InitRun \/ TermResume \/ IdleSchedule

Next ==
  \/ Fork \/ ForkNoPcb \/ Exec \/ Exit \/ Wait \/ ReadTerm \/ Yield
  \/ \E n \in SleepSecs : Sleep(n)
  \/ \E t \in KillPids : Kill(t)
  \/ WaitResume \/ InitRun \/ TermResume \/ IdleSchedule
  \/ Tick \/ KeyEnter \/ KeyOther

Spec == Init /\ [][Next]_vars

(***************************************************************************)
(* The processor never stops inside the kernel, and a pending timer        *)
(* interrupt is delivered at the first moment IF is 1: while tasks make    *)
(* system calls Tick is enabled again and again, not continuously.         *)
(***************************************************************************)
Fairness == WF_vars(KernelStep) /\ SF_vars(Tick)

FairSpec == Spec /\ Fairness

-----------------------------------------------------------------------------
(* Properties. *)

\* Type invariant: every field holds a value its C type and its use allow.
TypeOK ==
  /\ task_state \in [PCBs -> TASK_STATES]
  /\ pid \in [PCBs -> PCBs]
  /\ ppid \in [PCBs -> PCBs \cup {-1}]
  /\ parent_task \in [PCBs -> PCBs \cup {NULL}]
  /\ next \in [PCBs -> PCBs \cup {NULL}]
  /\ sleep_sec \in [PCBs -> {SleepFloor} \cup Nat]
  /\ task_mm \in [PCBs -> {"null", "empty", "mapped"}]
  /\ cont \in [PCBs -> Conts]
  /\ free_pcb_head \in PCBs \cup {NULL}
  /\ overall_task_list \in PCBs \cup {NULL}
  /\ RunningTask \in PCBs
  /\ terminal_line_count \in 0..MaxLines
  /\ timer_count \in 0..SLICE

(***************************************************************************)
(* No exit is lost: a parent that sleeps in wait_for_child has no zombie   *)
(* child that it could collect.  The scan of wait_for_child goes by ppid   *)
(* and the wake-up of sys_exit by parent_task, and a task may exit before  *)
(* or after its parent waits; the claim is for children whose two parent   *)
(* fields agree.                                                           *)
(***************************************************************************)
NoLostChildExit ==
  \A p, c \in PCBs :
    task_state[p] = "SUSPENDED" /\ task_state[c] = "ZOMBIE" /\ parent_task[c] = p
      => ppid[c] # pid[p]

(***************************************************************************)
(* Every loop of the kernel over a list ends: the links have no cycle,     *)
(* because from every set of PCBs some link leads out.  The two lists      *)
(* share the field next, fetch_ready_task and add_to_task_list leave stale *)
(* links behind, and kill leaves a PCB on both lists.                      *)
(***************************************************************************)
LinksAcyclic == \A S \in SUBSET PCBs : S # {} => \E p \in S : next[p] \notin S

=============================================================================

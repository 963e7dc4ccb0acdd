------------------------------- MODULE MCTasks -------------------------------
(***************************************************************************)
(* Model checking of Tasks: the properties of the two lists and of the     *)
(* terminal wake-up, liveness, and what the comments of the repository say *)
(* of the process code.                                                    *)
(***************************************************************************)
EXTENDS Tasks

OnTaskList == Reach(overall_task_list, next)
OnFreeList == Reach(free_pcb_head, next)
Zombies == {t \in PCBs : task_state[t] = "ZOMBIE"}

\* Bound of the runs with kill (a state constraint): states are explored until
\* the free list holds Init or Idle, both of which no process may be built on.
KernelTasksIntact == {INIT_TASK, IDLE_TASK} \cap OnFreeList = {}

(***************************************************************************)
(* Without kill, every PCB is in exactly one place: on the free list, on   *)
(* the task list, a zombie, or running; only Idle may run and be listed    *)
(* too (fetch_ready_task hands it out as the fallback without unlinking    *)
(* it).  A PCB in no place is lost for ever, one in two is given out while *)
(* it is in use.                                                           *)
(***************************************************************************)
ListsSound ==
  /\ OnTaskList \cap OnFreeList = {}
  /\ Zombies \cap (OnTaskList \cup OnFreeList) = {}
  /\ RunningTask \notin OnFreeList \cup Zombies
  /\ RunningTask \in OnTaskList => RunningTask = IDLE_TASK
  /\ PCBs = OnTaskList \cup OnFreeList \cup Zombies \cup {RunningTask}

(***************************************************************************)
(* Without kill, no typed line is lost between terminal_handler and the    *)
(* readers: while a task sleeps in schedule_terminal_task, the lines not   *)
(* yet read are no more than the readers already woken for them (another   *)
(* reader may have taken a line before the woken one ran).                 *)
(***************************************************************************)
NoLostLine ==
  (\E t \in PCBs : task_state[t] = "WAIT") =>
    terminal_line_count <=
      Cardinality({t \in PCBs : cont[t] = "term" /\ task_state[t] \in {"READY", "RUNNING"}})

-----------------------------------------------------------------------------
\* Round robin starves nobody: a task that is ready on the task list runs.
ReadyRuns ==
  \A t \in PCBs : (t \in OnTaskList /\ task_state[t] = "READY") ~> (RunningTask = t)

\* sleep(n) with n > 0 ends: timer_int finds every sleeper on the task list.
SleeperWakes ==
  \A t \in PCBs : (task_state[t] = "SLEEP" /\ sleep_sec[t] > 0) ~> (task_state[t] # "SLEEP")

-----------------------------------------------------------------------------
(* What the repository says, and the code does not do. *)

\* sys_exit, sys/process.c:324: the task that becomes a zombie wakes its parent
\* if that was waiting, Init for a child that it adopted included.
WaitingParentIsWoken ==
  [][\A p, c \in PCBs :
       /\ task_state[c] # "ZOMBIE" /\ task_state'[c] = "ZOMBIE"
       /\ task_state[p] = "SUSPENDED" /\ ppid[c] = pid[p]
       => task_state'[p] # "SUSPENDED"]_vars

=============================================================================

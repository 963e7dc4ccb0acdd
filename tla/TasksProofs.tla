----------------------------- MODULE TasksProofs -----------------------------
(***************************************************************************)
(* Proofs about Tasks, for every number of PCBs, every slice length and    *)
(* every set of arguments of sleep and kill.                               *)
(***************************************************************************)
EXTENDS MCTasks, ProofFacts, TLAPS, WellFoundedInduction

States == [PCBs -> TASK_STATES]
Links == [PCBs -> PCBs \cup {NULL}]
Pointers == PCBs \cup {NULL}

\* LinksAcyclic as a predicate of any links.
Acyclic(nx) == \A S \in SUBSET PCBs : S # {} => \E p \in S : nx[p] \notin S

USE DEF Pointers

\* The three fixed tasks are PCBs and NULL is none.
LEMMA FixedTasks ==
  /\ INIT_TASK \in PCBs /\ IDLE_TASK \in PCBs /\ SHELL \in PCBs
  /\ NULL \notin PCBs
  /\ \A p \in PCBs : p \in Nat
BY NUM_PCBAssumption DEF PCBs, INIT_TASK, IDLE_TASK, SHELL, NULL

-----------------------------------------------------------------------------
(* The list operations keep the links in range and free of cycles. *)

LEMMA ReachType == \A h, nx : Reach(h, nx) \subseteq PCBs
BY DEF Reach

LEMMA FirstOfType == \A S, nx : FirstOf(S, nx) \subseteq S
BY DEF FirstOf

LEMMA AppendLinks ==
  ASSUME NEW nx \in Links, NEW h \in Pointers, NEW t \in PCBs
  PROVE  Append(nx, h, t) \in Links
BY DEF Append, Links

\* Appending t cuts what hung behind it, so no cycle can close through t.
LEMMA AppendAcyclic ==
  ASSUME NEW nx \in Links, NEW h \in Pointers, NEW t \in PCBs, Acyclic(nx)
  PROVE  Acyclic(Append(nx, h, t))
<1> SUFFICES ASSUME NEW S \in SUBSET PCBs, S # {}
             PROVE  \E p \in S : Append(nx, h, t)[p] \notin S
  BY DEF Acyclic
<1>1. PICK p \in S : nx[p] \notin S
  BY DEF Acyclic
<1>2. CASE t \in S
  <2>1. Append(nx, h, t)[t] = NULL
    BY DEF Append
  <2> QED BY <1>2, <2>1, FixedTasks
<1>3. CASE t \notin S
  <2>1. Append(nx, h, t)[p] \in {nx[p], t}
    BY <1>1, <1>3 DEF Append
  <2> QED BY <1>1, <1>3, <2>1
<1> QED BY <1>2, <1>3

LEMMA UnlinkLinks ==
  ASSUME NEW nx \in Links, NEW h \in Pointers, NEW t \in PCBs
  PROVE  Unlink(nx, h, t) \in Links
BY DEF Unlink, Links

\* Unlinking t only shortens paths.
LEMMA UnlinkAcyclic ==
  ASSUME NEW nx \in Links, NEW h \in Pointers, NEW t \in PCBs, Acyclic(nx)
  PROVE  Acyclic(Unlink(nx, h, t))
<1> SUFFICES ASSUME NEW S \in SUBSET PCBs, S # {}
             PROVE  \E p \in S : Unlink(nx, h, t)[p] \notin S
  BY DEF Acyclic
<1>1. CASE t \in S
  <2>1. Unlink(nx, h, t)[t] = NULL
    BY DEF Unlink
  <2> QED BY <1>1, <2>1, FixedTasks
<1>2. CASE t \notin S
  <2>1. PICK p \in S \cup {t} : nx[p] \notin S \cup {t}
    BY DEF Acyclic
  <2>2. CASE p # t
    <3>1. p \in PCBs /\ nx[p] # t
      BY <2>1, <2>2
    <3>2. Unlink(nx, h, t)[p] = nx[p]
      BY <3>1, <2>2 DEF Unlink
    <3> QED BY <2>1, <2>2, <3>2
  <2>3. CASE p = t
    <3>1. PICK q \in S : nx[q] \notin S
      BY DEF Acyclic
    <3>2. Unlink(nx, h, t)[q] \in {nx[q], nx[t]}
      BY <1>2, <3>1 DEF Unlink
    <3> QED BY <2>1, <2>3, <3>1, <3>2
  <2> QED BY <2>2, <2>3
<1> QED BY <1>1, <1>2

\* Cutting one link.
LEMMA CutAcyclic ==
  ASSUME NEW nx \in Links, NEW t \in PCBs, Acyclic(nx)
  PROVE  Acyclic([nx EXCEPT ![t] = NULL])
<1> SUFFICES ASSUME NEW S \in SUBSET PCBs, S # {}
             PROVE  \E p \in S : [nx EXCEPT ![t] = NULL][p] \notin S
  BY DEF Acyclic
<1>1. PICK p \in S : nx[p] \notin S
  BY DEF Acyclic
<1>2. [nx EXCEPT ![t] = NULL][p] \in {nx[p], NULL}
  BY DEF Links
<1> QED BY <1>1, <1>2, FixedTasks

-----------------------------------------------------------------------------
(* The scheduler. *)

\* What st2 may differ in from st1 after add_to_task_list or schedule(): only
\* READY and RUNNING are exchanged, and only at r or at a task that was ready.
Rescheduled(st1, st2, r) ==
  \A p \in PCBs : \/ st2[p] = st1[p]
                  \/ /\ st1[p] \in {"READY", "RUNNING"} /\ st2[p] \in {"READY", "RUNNING"}
                     /\ p = r \/ st1[p] = "READY"

LEMMA AddToTaskList ==
  ASSUME NEW st \in States, NEW nx \in Links, NEW list \in Pointers, NEW t \in PCBs
  PROVE  LET a == add_to_task_list(st, nx, list, t) IN
         /\ a.st \in States /\ a.nx \in Links /\ a.list \in Pointers
         /\ Rescheduled(st, a.st, t)
         /\ Acyclic(nx) => Acyclic(a.nx)
<1> DEFINE a == add_to_task_list(st, nx, list, t)
<1>1. CASE st[t] = "ZOMBIE"
  BY <1>1 DEF add_to_task_list, Rescheduled
<1>2. CASE st[t] # "ZOMBIE"
  <2>1. /\ a.st = [st EXCEPT ![t] = IF @ = "RUNNING" THEN "READY" ELSE @]
        /\ a.nx \in {nx, Append(nx, list, t)}
        /\ a.list \in {list, t}
    BY <1>2 DEF add_to_task_list
  <2>2. a.st \in States /\ Rescheduled(st, a.st, t)
    BY <2>1 DEF States, TASK_STATES, Rescheduled
  <2>3. a.nx \in Links /\ (Acyclic(nx) => Acyclic(a.nx))
    <3>1. CASE a.nx = nx
      BY <3>1
    <3>2. CASE a.nx = Append(nx, list, t)
      <4> HIDE DEF a
      <4> QED BY <3>2, AppendLinks, AppendAcyclic
    <3> QED BY <2>1, <3>1, <3>2
  <2> QED BY <2>1, <2>2, <2>3
<1> QED BY <1>1, <1>2

LEMMA FetchReadyTask ==
  ASSUME NEW st \in States, NEW nx \in Links, NEW list \in Pointers,
         NEW f \in fetch_ready_task(st, nx, list)
  PROVE  /\ f.st \in States /\ f.nx \in Links /\ f.list \in Pointers
         /\ f.task \in PCBs
         /\ f.task = IDLE_TASK \/ st[f.task] = "READY"
         /\ \A p \in PCBs : f.st[p] = st[p] \/ (st[p] = "READY" /\ f.st[p] = "RUNNING")
         /\ Acyclic(nx) => Acyclic(f.nx)
<1> DEFINE ready == {t \in Reach(list, nx) : st[t] = "READY"}
<1>1. CASE ready = {}
  <2>1. f = [task |-> IDLE_TASK, st |-> st, nx |-> nx, list |-> list]
    BY <1>1 DEF fetch_ready_task
  <2> QED BY <2>1, FixedTasks
<1>2. CASE ready # {}
  <2>1. PICK t \in FirstOf(ready, nx) :
          f = [task |-> t,
               st   |-> [st EXCEPT ![t] = "RUNNING"],
               nx   |-> IF t = list THEN nx ELSE Unlink(nx, list, t),
               list |-> IF t = list THEN nx[t] ELSE list]
    BY <1>2 DEF fetch_ready_task
  <2>2. t \in PCBs /\ st[t] = "READY"
    BY FirstOfType, ReachType
  <2>3. /\ f.st = [st EXCEPT ![t] = "RUNNING"] /\ f.task = t
        /\ f.nx \in {nx, Unlink(nx, list, t)}
        /\ f.list \in {nx[t], list}
    BY <2>1
  <2>4. f.st \in States /\ \A p \in PCBs : f.st[p] = st[p] \/ (st[p] = "READY" /\ f.st[p] = "RUNNING")
    BY <2>2, <2>3 DEF States, TASK_STATES
  <2>5. f.list \in Pointers
    BY <2>2, <2>3 DEF Links
  <2>6. f.nx \in Links /\ (Acyclic(nx) => Acyclic(f.nx))
    BY <2>2, <2>3, UnlinkLinks, UnlinkAcyclic
  <2> QED BY <2>2, <2>3, <2>4, <2>5, <2>6
<1> QED BY <1>1, <1>2

LEMMA Schedule ==
  ASSUME NEW st \in States, NEW nx \in Links, NEW list \in Pointers,
         RunningTask \in PCBs, schedule(st, nx, list)
  PROVE  /\ task_state' \in States /\ next' \in Links /\ overall_task_list' \in Pointers
         /\ RunningTask' \in PCBs
         /\ RunningTask' = IDLE_TASK \/ st[RunningTask'] = "READY"
         /\ Rescheduled(st, task_state', RunningTask)
         /\ Acyclic(nx) => Acyclic(next')
<1>1. PICK f \in fetch_ready_task(st, nx, list) :
        LET a == add_to_task_list(f.st, f.nx, f.list, RunningTask) IN
          /\ task_state' = a.st /\ next' = a.nx /\ overall_task_list' = a.list
          /\ RunningTask' = f.task
  BY DEF schedule
<1> DEFINE a == add_to_task_list(f.st, f.nx, f.list, RunningTask)
<1>2. task_state' = a.st /\ next' = a.nx /\ overall_task_list' = a.list /\ RunningTask' = f.task
  BY <1>1
<1>3. /\ f.st \in States /\ f.nx \in Links /\ f.list \in Pointers /\ f.task \in PCBs
      /\ f.task = IDLE_TASK \/ st[f.task] = "READY"
      /\ \A p \in PCBs : f.st[p] = st[p] \/ (st[p] = "READY" /\ f.st[p] = "RUNNING")
      /\ Acyclic(nx) => Acyclic(f.nx)
  BY FetchReadyTask
<1>4. /\ a.st \in States /\ a.nx \in Links /\ a.list \in Pointers
      /\ Rescheduled(f.st, a.st, RunningTask)
      /\ Acyclic(f.nx) => Acyclic(a.nx)
  BY <1>3, AddToTaskList
<1>5. Rescheduled(st, a.st, RunningTask)
  BY <1>3, <1>4 DEF Rescheduled
<1> HIDE DEF a
<1> QED BY <1>2, <1>3, <1>4, <1>5

-----------------------------------------------------------------------------
(* Least and greatest PCBs. *)

LEMMA LeastNat ==
  ASSUME NEW T \in SUBSET Nat, T # {}
  PROVE  \E x \in T : \A y \in T : x <= y
<1>1. PICK x \in T : \A y \in T : ~(<<y, x>> \in OpToRel(<, Nat))
  BY WFMin, NatLessThanWellFounded
<1>2. \A y \in T : ~(y < x)
  BY <1>1 DEF OpToRel
<1> QED BY <1>2

LEMMA MinPcb ==
  ASSUME NEW S \in SUBSET PCBs, S # {}
  PROVE  Min(S) \in S
<1>1. S \in SUBSET Nat
  BY FixedTasks
<1>2. \E x \in S : \A y \in S : x <= y
  BY <1>1, LeastNat
<1> QED BY <1>2 DEF Min

LEMMA MaxPcb ==
  ASSUME NEW S \in SUBSET PCBs, S # {}
  PROVE  \E x \in S : \A y \in S : y <= x
<1> DEFINE T == {NUM_PCB - p : p \in S}
<1>1. T \in SUBSET Nat /\ T # {}
  BY NUM_PCBAssumption DEF PCBs
<1>2. PICK m \in T : \A y \in T : m <= y
  <2> HIDE DEF T
  <2> QED BY <1>1, LeastNat
<1>3. PICK x \in S : m = NUM_PCB - x
  BY <1>2
<1>4. \A y \in S : NUM_PCB - x <= NUM_PCB - y
  BY <1>2, <1>3
<1> QED BY <1>3, <1>4, NUM_PCBAssumption DEF PCBs

-----------------------------------------------------------------------------
(* Type correctness. *)

\* The state sys_exit hands to schedule().
LEMMA ZombieStates ==
  ASSUME TypeOK, NEW t \in PCBs
  PROVE  zombie_and_wake_parent(t) \in States
BY DEF TypeOK, States, TASK_STATES, zombie_and_wake_parent

LEMMA SysExitType ==
  ASSUME TypeOK, NEW t \in PCBs, sys_exit(t), cont' \in [PCBs -> Conts],
         UNCHANGED <<terminal_line_count, timer_count>>
  PROVE  TypeOK'
<1>1. /\ task_state' \in States /\ next' \in Links /\ overall_task_list' \in Pointers
      /\ RunningTask' \in PCBs
  BY ZombieStates, Schedule DEF sys_exit, TypeOK, Links
<1>2. ppid' \in [PCBs -> PCBs \cup {-1}]
  BY FixedTasks DEF sys_exit, reparent_children, TypeOK
<1> QED BY <1>1, <1>2 DEF sys_exit, TypeOK, States, Links

\* What append_in_free_list leaves.
LEMMA AppendInFreeList ==
  ASSUME NEW nx \in Links, NEW c \in PCBs, free_pcb_head \in Pointers
  PROVE  LET a == append_in_free_list(nx, c) IN
         /\ a.nx \in Links /\ a.head \in Pointers
         /\ Acyclic(nx) => Acyclic(a.nx)
<1>1. CASE free_pcb_head = NULL
  <2>1. [nx EXCEPT ![c] = NULL] \in Links
    BY DEF Links
  <2> QED BY <1>1, <2>1, CutAcyclic DEF append_in_free_list
<1>2. CASE free_pcb_head # NULL
  BY <1>2, AppendLinks, AppendAcyclic DEF append_in_free_list
<1> QED BY <1>1, <1>2

LEMMA ReapSchedules ==
  ASSUME TypeOK, ReapAndSchedule
  PROVE  \E c \in ZombieChildren :
           /\ clear_pcb(c)
           /\ free_pcb_head' \in Pointers
           /\ task_state' \in States /\ next' \in Links
           /\ overall_task_list' \in Pointers /\ RunningTask' \in PCBs
           /\ \/ RunningTask' = IDLE_TASK
              \/ [task_state EXCEPT ![c] = "READY"][RunningTask'] = "READY"
           /\ Rescheduled([task_state EXCEPT ![c] = "READY"], task_state', RunningTask)
           /\ Acyclic(next) => Acyclic(next')
<1> DEFINE c == Min(ZombieChildren)
           cut == [next EXCEPT ![c] = NULL]
           a == append_in_free_list(cut, c)
           st == [task_state EXCEPT ![c] = "READY"]
<1>1. c \in ZombieChildren /\ c \in PCBs
  BY MinPcb DEF ReapAndSchedule, ZombieChildren
<1>2. /\ clear_pcb(c) /\ free_pcb_head' = a.head
      /\ schedule(st, a.nx, overall_task_list)
  BY DEF ReapAndSchedule
<1> HIDE DEF c
<1>3. cut \in Links /\ (Acyclic(next) => Acyclic(cut))
  BY <1>1, CutAcyclic DEF TypeOK, Links
<1> HIDE DEF cut
<1>4. a.nx \in Links /\ a.head \in Pointers /\ (Acyclic(cut) => Acyclic(a.nx))
  BY <1>1, <1>3, AppendInFreeList DEF TypeOK
<1>5. st \in States
  BY <1>1 DEF TypeOK, States, TASK_STATES
<1> HIDE DEF a, st
<1>6. /\ task_state' \in States /\ next' \in Links
      /\ overall_task_list' \in Pointers /\ RunningTask' \in PCBs
      /\ RunningTask' = IDLE_TASK \/ st[RunningTask'] = "READY"
      /\ Rescheduled(st, task_state', RunningTask)
      /\ Acyclic(a.nx) => Acyclic(next')
  BY <1>2, <1>4, <1>5, Schedule DEF TypeOK
<1> QED BY <1>1, <1>2, <1>3, <1>4, <1>6 DEF st

\* A step that schedules, starting from typed states and the current lists.
LEMMA ScheduleNow ==
  ASSUME TypeOK, NEW st \in States, schedule(st, next, overall_task_list)
  PROVE  /\ task_state' \in States /\ next' \in Links /\ overall_task_list' \in Pointers
         /\ RunningTask' \in PCBs
         /\ RunningTask' = IDLE_TASK \/ st[RunningTask'] = "READY"
         /\ Rescheduled(st, task_state', RunningTask)
         /\ Acyclic(next) => Acyclic(next')
BY Schedule DEF TypeOK, Links

\* What fork_process does to the lists.
LEMMA ForkSchedules ==
  ASSUME TypeOK, Fork
  PROVE  /\ free_pcb_head \in PCBs
         /\ task_state' \in States /\ next' \in Links /\ overall_task_list' \in Pointers
         /\ Rescheduled([task_state EXCEPT ![free_pcb_head] = "READY"], task_state', free_pcb_head)
         /\ Acyclic(next) => Acyclic(next')
<1> DEFINE child == free_pcb_head
           st == [task_state EXCEPT ![child] = "READY"]
           cut == [next EXCEPT ![child] = NULL]
           a == add_to_task_list(st, cut, overall_task_list, child)
<1>1. child \in PCBs
  BY DEF Fork, TypeOK
<1>2. st \in States
  BY <1>1 DEF TypeOK, States, TASK_STATES
<1>3. cut \in Links /\ (Acyclic(next) => Acyclic(cut))
  BY <1>1, CutAcyclic DEF TypeOK, Links
<1>4. task_state' = a.st /\ next' = a.nx /\ overall_task_list' = a.list
  BY DEF Fork
<1> HIDE DEF st, cut
<1>5. /\ a.st \in States /\ a.nx \in Links /\ a.list \in Pointers
      /\ Rescheduled(st, a.st, child)
      /\ Acyclic(cut) => Acyclic(a.nx)
  BY <1>1, <1>2, <1>3, AddToTaskList DEF TypeOK
<1> HIDE DEF a
<1> QED BY <1>1, <1>3, <1>4, <1>5 DEF st

\* Every step keeps the types.
LEMMA TypeStep == TypeOK /\ [Next]_vars => TypeOK'
<1> SUFFICES ASSUME TypeOK, [Next]_vars PROVE TypeOK'
  OBVIOUS
<1>st. task_state \in States /\ RunningTask \in PCBs
  BY DEF TypeOK, States
<1>cont. \A c \in Conts : ContinueAt(c) => cont' \in [PCBs -> Conts]
  BY DEF ContinueAt, TypeOK
<1>names. {"user", "wait2", "term", "hlt", "woken"} \subseteq Conts
  BY DEF Conts
<1>1. CASE Fork
  <2>1. /\ pid' \in [PCBs -> PCBs] /\ cont' \in [PCBs -> Conts]
        /\ parent_task' \in [PCBs -> PCBs \cup {NULL}]
        /\ task_mm' \in [PCBs -> {"null", "empty", "mapped"}]
        /\ free_pcb_head' \in PCBs \cup {NULL}
    BY <1>1, <1>names, ForkSchedules DEF Fork, TypeOK
  <2>2. ppid' \in [PCBs -> PCBs \cup {-1}]
    BY <1>1, <2>1, ForkSchedules DEF Fork, TypeOK
  <2> QED BY <1>1, <2>1, <2>2, ForkSchedules DEF Fork, TypeOK, States, Links
<1>2. CASE Exec
  BY <1>2 DEF Exec, family, TypeOK
<1>3. CASE Exit
  <2>1. cont' \in [PCBs -> Conts]
    BY <1>3, <1>cont, <1>names DEF Exit
  <2> QED BY <1>3, <1>st, <2>1, SysExitType DEF Exit
<1>4. CASE ForkNoPcb
  <2>1. cont' \in [PCBs -> Conts]
    BY <1>4 DEF ForkNoPcb, TypeOK
  <2> QED BY <1>4, <1>st, <2>1, SysExitType DEF ForkNoPcb
<1>5. ASSUME NEW t \in KillPids, Kill(t) PROVE TypeOK'
  <2>1. cont' \in [PCBs -> Conts] /\ t \in PCBs
    BY <1>5, KillPidsAssumption DEF Kill, TypeOK, PCBs
  <2> QED BY <1>5, <2>1, SysExitType DEF Kill
<1>reap. ASSUME ReapAndSchedule PROVE TypeOK'
  <2>1. PICK c \in ZombieChildren :
          /\ clear_pcb(c) /\ free_pcb_head' \in Pointers
          /\ task_state' \in States /\ next' \in Links
          /\ overall_task_list' \in Pointers /\ RunningTask' \in PCBs
    BY <1>reap, ReapSchedules
  <2>2. c \in PCBs
    BY DEF ZombieChildren
  <2>3. cont' \in [PCBs -> Conts]
    BY <1>reap, <1>cont, <1>names DEF ReapAndSchedule
  <2>4. /\ ppid' \in [PCBs -> PCBs \cup {-1}] /\ parent_task' \in [PCBs -> PCBs \cup {NULL}]
        /\ sleep_sec' \in [PCBs -> {SleepFloor} \cup Nat]
        /\ task_mm' \in [PCBs -> {"null", "empty", "mapped"}]
    BY <2>1, <2>2 DEF clear_pcb, TypeOK
  <2> QED BY <1>reap, <2>1, <2>3, <2>4 DEF ReapAndSchedule, TypeOK, States, Links
\* Every other action that schedules does so from states st it has only retouched.
<1>sched. ASSUME NEW st \in States, schedule(st, next, overall_task_list),
                 cont' \in [PCBs -> Conts], sleep_sec' \in [PCBs -> {SleepFloor} \cup Nat],
                 timer_count' \in 0..SLICE,
                 UNCHANGED <<family, free_pcb_head, task_mm, terminal_line_count>>
          PROVE  TypeOK'
  BY <1>sched, ScheduleNow DEF TypeOK, family, States, Links
<1>susp. \A s \in TASK_STATES : [task_state EXCEPT ![RunningTask] = s] \in States
  BY <1>st DEF States
<1>states. {"SUSPENDED", "SLEEP", "WAIT", "READY"} \subseteq TASK_STATES
  BY DEF TASK_STATES
<1>6. ASSUME Suspend, cont' \in [PCBs -> Conts] PROVE TypeOK'
  BY <1>6, <1>sched, <1>susp, <1>states DEF Suspend, TypeOK
<1>7. CASE Wait
  BY <1>7, <1>reap, <1>6, <1>cont, <1>names DEF Wait
<1>8. CASE WaitResume
  <2>1. CASE ReapAndSchedule
    BY <2>1, <1>reap
  <2>2. CASE ~ReapAndSchedule
    <3>1. cont' \in [PCBs -> Conts]
      BY <1>8, <2>2, <1>cont, <1>names DEF WaitResume
    <3> QED BY <1>8, <2>2, <3>1, <1>st, <1>sched DEF WaitResume, TypeOK
  <2> QED BY <2>1, <2>2
<1>9. CASE InitRun
  BY <1>9, <1>6 DEF InitRun, TypeOK
<1>10. ASSUME NEW n \in SleepSecs, Sleep(n) PROVE TypeOK'
  <2>1. sleep_sec' \in [PCBs -> {SleepFloor} \cup Nat]
    BY <1>10, SleepSecsAssumption DEF Sleep, TypeOK
  <2> QED BY <1>10, <2>1, <1>sched, <1>susp, <1>states DEF Sleep, TypeOK
<1>11. CASE Yield
  BY <1>11, <1>st, <1>sched DEF Yield, TypeOK
<1>take. ASSUME TakeLine PROVE TypeOK'
  <2>1. cont' \in [PCBs -> Conts]
    BY <1>take, <1>cont, <1>names DEF TakeLine
  <2>2. terminal_line_count' \in 0..MaxLines
    BY <1>take, MaxLinesAssumption DEF TakeLine, TypeOK
  <2> QED BY <1>take, <2>1, <2>2 DEF TakeLine, TypeOK, family, lists
<1>line. ASSUME WaitForLine PROVE TypeOK'
  <2>1. cont' \in [PCBs -> Conts]
    BY <1>line, <1>cont, <1>names DEF WaitForLine
  <2> QED BY <1>line, <2>1, <1>sched, <1>susp, <1>states DEF WaitForLine, TypeOK
<1>12. CASE ReadTerm
  BY <1>12, <1>take, <1>line DEF ReadTerm
<1>13. CASE TermResume
  BY <1>13, <1>take, <1>line DEF TermResume
<1>14. CASE IdleSchedule
  <2>1. cont' \in [PCBs -> Conts]
    BY <1>14, <1>cont, <1>names DEF IdleSchedule
  <2> QED BY <1>14, <2>1, <1>st, <1>sched DEF IdleSchedule, TypeOK
<1>int. ASSUME Interrupt PROVE cont' \in [PCBs -> Conts]
  BY <1>int, <1>names DEF Interrupt, TypeOK
<1>15. CASE Tick
  <2>1. CASE timer_count # SLICE
    <3>1. timer_count' \in 0..SLICE
      BY <1>15, <2>1, SLICEAssumption DEF Tick, TypeOK
    <3> QED BY <1>15, <2>1, <3>1, <1>int DEF Tick, Interrupt, TypeOK, family
  <2>2. CASE timer_count = SLICE
    <3> DEFINE st == [t \in PCBs |-> IF due(t) THEN "READY" ELSE task_state[t]]
    <3>1. st \in States
      BY <1>st, <1>states DEF States
    <3>2. sleep_sec' \in [PCBs -> {SleepFloor} \cup Nat]
      BY <1>15, <2>2 DEF Tick, TypeOK, SleepFloor
    <3>3. timer_count' \in 0..SLICE
      BY <1>15, <2>2, SLICEAssumption DEF Tick
    <3>4. schedule(st, next, overall_task_list)
      BY <1>15, <2>2 DEF Tick
    <3> HIDE DEF st
    <3> QED BY <1>15, <3>1, <3>2, <3>3, <3>4, <1>int, <1>sched DEF Tick, Interrupt
  <2> QED BY <2>1, <2>2
<1>16. CASE KeyEnter
  <2>1. task_state' \in [PCBs -> TASK_STATES]
    BY <1>16, <1>states DEF KeyEnter, wake_up_task, TypeOK
  <2>2. terminal_line_count' \in 0..MaxLines
    BY <1>16, MaxLinesAssumption DEF KeyEnter, TypeOK
  <2> QED BY <1>16, <2>1, <2>2, <1>int DEF KeyEnter, Interrupt, TypeOK, family
<1>17. CASE KeyOther
  BY <1>17, <1>int DEF KeyOther, Interrupt, TypeOK, family
<1>18. CASE UNCHANGED vars
  BY <1>18 DEF vars, family, lists, TypeOK
<1> QED
  BY <1>1, <1>2, <1>3, <1>4, <1>5, <1>7, <1>8, <1>9, <1>10, <1>11, <1>12, <1>13,
     <1>14, <1>15, <1>16, <1>17, <1>18 DEF Next

LEMMA TypeInit == Init => TypeOK
BY FixedTasks, NUM_PCBAssumption, SLICEAssumption, MaxLinesAssumption
   DEF Init, TypeOK, PCBs, NULL, TASK_STATES, Conts, SleepFloor, INIT_TASK, IDLE_TASK, SHELL

(***************************************************************************)
(* Type correctness: no handler, in any interleaving with the interrupts,  *)
(* writes a value outside the type of a field of pcb_arr, of the two list  *)
(* heads, of RunningTask or of the counters (so no list walk starts at or  *)
(* reaches an address that is neither a PCB nor NULL).                     *)
(***************************************************************************)
THEOREM TypeCorrect == Spec => []TypeOK
BY TypeInit, TypeStep, PTL DEF Spec

-----------------------------------------------------------------------------
(* Every walk along the links ends. *)

LEMMA AcyclicInit == Init => LinksAcyclic
<1> SUFFICES ASSUME Init, NEW S \in SUBSET PCBs, S # {}
             PROVE  \E p \in S : next[p] \notin S
  BY DEF LinksAcyclic
<1>1. PICK x \in S : \A y \in S : y <= x
  BY MaxPcb
<1>2. next[x] \in {NULL, x + 1}
  BY DEF Init
<1>3. x \in PCBs /\ NULL \notin S /\ x + 1 \notin S
  BY <1>1, FixedTasks
<1> QED BY <1>2, <1>3

LEMMA AcyclicStep == TypeOK /\ LinksAcyclic /\ [Next]_vars => LinksAcyclic'
<1> SUFFICES ASSUME TypeOK, Acyclic(next), [Next]_vars PROVE Acyclic(next')
  BY DEF LinksAcyclic, Acyclic
<1>st. task_state \in States /\ next \in Links /\ RunningTask \in PCBs
  BY DEF TypeOK, States, Links
<1>sched. ASSUME NEW st \in States, schedule(st, next, overall_task_list)
          PROVE  Acyclic(next')
  BY <1>sched, ScheduleNow
<1>exit. ASSUME NEW t \in PCBs, sys_exit(t) PROVE Acyclic(next')
  BY <1>exit, <1>sched, ZombieStates DEF sys_exit
<1>same. ASSUME UNCHANGED next PROVE Acyclic(next')
  BY <1>same
<1>susp. \A s \in {"SUSPENDED", "SLEEP", "WAIT"} :
           [task_state EXCEPT ![RunningTask] = s] \in States
  BY <1>st DEF States, TASK_STATES
<1>reap. ASSUME ReapAndSchedule PROVE Acyclic(next')
  BY <1>reap, ReapSchedules
<1>1. CASE Fork
  BY <1>1, ForkSchedules
<1>2. CASE Exec
  BY <1>2, <1>st, CutAcyclic DEF Exec
<1>3. CASE Exit \/ ForkNoPcb
  BY <1>3, <1>st, <1>exit DEF Exit, ForkNoPcb
<1>4. ASSUME NEW t \in KillPids, Kill(t) PROVE Acyclic(next')
  BY <1>4, <1>exit, KillPidsAssumption DEF Kill, PCBs
<1>5. CASE Wait \/ InitRun
  BY <1>5, <1>reap, <1>sched, <1>susp DEF Wait, InitRun, Suspend
<1>6. CASE WaitResume
  BY <1>6, <1>reap, <1>sched, <1>st DEF WaitResume
<1>7. ASSUME NEW n \in SleepSecs, Sleep(n) PROVE Acyclic(next')
  BY <1>7, <1>sched, <1>susp DEF Sleep
<1>8. CASE Yield \/ IdleSchedule
  BY <1>8, <1>sched, <1>st DEF Yield, IdleSchedule
<1>9. CASE ReadTerm \/ TermResume
  BY <1>9, <1>sched, <1>susp, <1>same DEF ReadTerm, TermResume, TakeLine, WaitForLine, lists
<1>10. CASE Tick
  <2>1. CASE timer_count # SLICE
    BY <1>10, <2>1, <1>same DEF Tick
  <2>2. CASE timer_count = SLICE
    <3>1. [t \in PCBs |-> IF due(t) THEN "READY" ELSE task_state[t]] \in States
      BY <1>st DEF States, TASK_STATES
    <3> QED BY <1>10, <2>2, <3>1, <1>sched DEF Tick
  <2> QED BY <2>1, <2>2
<1>11. CASE KeyEnter \/ KeyOther \/ UNCHANGED vars
  BY <1>11, <1>same DEF KeyEnter, KeyOther, vars, lists
<1> QED BY <1>1, <1>2, <1>3, <1>4, <1>5, <1>6, <1>7, <1>8, <1>9, <1>10, <1>11 DEF Next

(***************************************************************************)
(* No sequence of forks, execs, exits, kills, waits, reads and interrupts  *)
(* closes a cycle in the links, so every while (temp->next != NULL) loop   *)
(* of the kernel ends, even after kill has put one PCB on both lists and   *)
(* with the stale links fetch_ready_task leaves: each operation that adds  *)
(* a link to a PCB cuts the link that leaves it.                           *)
(***************************************************************************)
THEOREM ListWalksEnd == Spec => []LinksAcyclic
<1>1. Init => TypeOK /\ LinksAcyclic
  BY TypeInit, AcyclicInit
<1>2. TypeOK /\ LinksAcyclic /\ [Next]_vars => (TypeOK /\ LinksAcyclic)'
  BY TypeStep, AcyclicStep
<1> QED BY <1>1, <1>2, PTL DEF Spec

-----------------------------------------------------------------------------
(***************************************************************************)
(* No exit is lost.  NoLostChildExit is not inductive: it needs that a PCB *)
(* in use carries its index as pid (one that was never used carries 0, the *)
(* pid of Init) and that ppid, when it leaves parent_task behind, has gone *)
(* to Init.                                                                *)
(***************************************************************************)

UsedPcbs ==
  /\ \A p \in PCBs : IF task_mm[p] = "null" THEN task_state[p] = "RUNNING" ELSE pid[p] = p
  /\ \A p \in {RunningTask, INIT_TASK, IDLE_TASK} : task_mm[p] # "null"

ParentFields ==
  \A c \in PCBs : parent_task[c] = NULL \/ ppid[c] \in {parent_task[c], INIT_TASK}

ParentInv == UsedPcbs /\ ParentFields /\ NoLostChildExit

LEMMA ParentInit == Init => ParentInv
BY FixedTasks DEF Init, ParentInv, UsedPcbs, ParentFields, NoLostChildExit,
                  INIT_TASK, IDLE_TASK, SHELL, PCBs

\* schedule() from st keeps UsedPcbs if st touches no PCB that was never used.
LEMMA UsedAfterSchedule ==
  ASSUME TypeOK, UsedPcbs, NEW st \in States,
         \A p \in PCBs : task_mm[p] = "null" => st[p] = "RUNNING",
         RunningTask' \in PCBs,
         RunningTask' = IDLE_TASK \/ st[RunningTask'] = "READY",
         Rescheduled(st, task_state', RunningTask), pid' = pid,
         task_mm' \in [PCBs -> {"null", "empty", "mapped"}],
         \A p \in PCBs : task_mm'[p] = "null" <=> task_mm[p] = "null"
  PROVE  UsedPcbs'
<1>1. \A p \in PCBs : task_mm'[p] = "null" => task_state'[p] = "RUNNING"
  BY DEF UsedPcbs, Rescheduled
<1>2. \A p \in PCBs : task_mm'[p] # "null" => pid'[p] = p
  BY DEF UsedPcbs
<1>3. task_mm'[RunningTask'] # "null"
  BY FixedTasks DEF UsedPcbs
<1>4. task_mm'[INIT_TASK] # "null" /\ task_mm'[IDLE_TASK] # "null"
  BY FixedTasks DEF UsedPcbs
<1> QED BY <1>1, <1>2, <1>3, <1>4 DEF UsedPcbs, INIT_TASK, IDLE_TASK

LEMMA ParentStep == TypeOK /\ ParentInv /\ [Next]_vars => ParentInv'
<1> SUFFICES ASSUME TypeOK, ParentInv, [Next]_vars PROVE ParentInv'
  OBVIOUS
<1>inv. UsedPcbs /\ ParentFields /\ NoLostChildExit
  BY DEF ParentInv
<1>st. task_state \in States /\ RunningTask \in PCBs /\ task_mm[RunningTask] # "null"
  BY <1>inv DEF TypeOK, States, UsedPcbs
<1>fixed. pid[INIT_TASK] = INIT_TASK
  BY <1>inv, FixedTasks DEF UsedPcbs
\* Steps that only reschedule: st makes no zombie, and suspends nobody but a
\* Running that has no zombie child.
<1>sched. ASSUME NEW st \in States, schedule(st, next, overall_task_list),
                 UNCHANGED <<family, task_mm>>,
                 \A p \in PCBs : /\ st[p] = "ZOMBIE" => task_state[p] = "ZOMBIE"
                                 /\ st[p] = "SUSPENDED" =>
                                      \/ task_state[p] = "SUSPENDED"
                                      \/ p = RunningTask /\ ZombieChildren = {}
                                 /\ task_state[p] = "RUNNING" /\ p # RunningTask => st[p] = "RUNNING"
          PROVE  ParentInv'
  <2>1. /\ RunningTask' \in PCBs
        /\ RunningTask' = IDLE_TASK \/ st[RunningTask'] = "READY"
        /\ Rescheduled(st, task_state', RunningTask)
    BY <1>sched, ScheduleNow
  <2>2. UsedPcbs'
    <3>1. \A p \in PCBs : task_mm[p] = "null" => st[p] = "RUNNING"
      BY <1>sched, <1>inv, <1>st DEF UsedPcbs
    <3>2. pid' = pid /\ task_mm' = task_mm /\ task_mm \in [PCBs -> {"null", "empty", "mapped"}]
      BY <1>sched DEF family, TypeOK
    <3> QED BY <1>sched, <1>inv, <2>1, <3>1, <3>2, UsedAfterSchedule
  <2>3. ParentFields'
    BY <1>sched, <1>inv DEF ParentFields, family
  <2>4. NoLostChildExit'
    <3> SUFFICES ASSUME NEW p \in PCBs, NEW c \in PCBs,
                        task_state'[p] = "SUSPENDED", task_state'[c] = "ZOMBIE", parent_task'[c] = p
                 PROVE  ppid'[c] # pid'[p]
      BY DEF NoLostChildExit
    <3>1. st[p] = "SUSPENDED" /\ st[c] = "ZOMBIE"
      BY <2>1 DEF Rescheduled
    <3>2. ppid[c] # pid[p]
      BY <1>sched, <1>inv, <3>1 DEF NoLostChildExit, ZombieChildren, family
    <3> QED BY <1>sched, <3>2 DEF family
  <2> QED BY <2>2, <2>3, <2>4 DEF ParentInv
<1>quiet. ASSUME UNCHANGED <<family, task_mm, RunningTask>>,
                 \A p \in PCBs : task_state'[p] = task_state[p] \/ (task_state[p] = "WAIT" /\ task_state'[p] = "READY")
          PROVE  ParentInv'
  BY <1>quiet, <1>inv DEF ParentInv, UsedPcbs, ParentFields, NoLostChildExit, family
<1>exit. ASSUME NEW t \in PCBs, task_mm[t] # "null", sys_exit(t) PROVE ParentInv'
  <2> DEFINE st == zombie_and_wake_parent(t)
  <2>1. st \in States /\ schedule(st, next, overall_task_list)
    BY <1>exit, ZombieStates DEF sys_exit
  <2>2. /\ RunningTask' \in PCBs
        /\ RunningTask' = IDLE_TASK \/ st[RunningTask'] = "READY"
        /\ Rescheduled(st, task_state', RunningTask)
    <3> HIDE DEF st
    <3> QED BY <2>1, ScheduleNow
  <2>3. \A p \in PCBs :
          /\ st[p] = "ZOMBIE" => task_state[p] = "ZOMBIE" \/ p = t
          /\ st[p] = "SUSPENDED" => task_state[p] = "SUSPENDED" /\ p # t /\ p # parent_task[t]
          /\ task_state[p] = "RUNNING" /\ p # t => st[p] = "RUNNING"
    BY DEF zombie_and_wake_parent, TypeOK
  <2>4. /\ pid' = pid /\ parent_task' = parent_task /\ task_mm' = task_mm
        /\ \A p \in PCBs : ppid'[p] = ppid[p] \/ (ppid[p] = pid[t] /\ ppid'[p] = INIT_TASK)
    BY <1>exit, <1>fixed DEF sys_exit, reparent_children
  <2> HIDE DEF st
  <2>5. UsedPcbs'
    <3>1. \A p \in PCBs : task_mm[p] = "null" => st[p] = "RUNNING"
      BY <1>inv, <1>exit, <2>3 DEF UsedPcbs
    <3>2. task_mm' \in [PCBs -> {"null", "empty", "mapped"}]
      BY <2>4 DEF TypeOK
    <3> QED BY <1>inv, <2>1, <2>2, <2>4, <3>1, <3>2, UsedAfterSchedule
  <2>6. ParentFields'
    BY <1>inv, <2>4 DEF ParentFields
  <2>7. NoLostChildExit'
    <3> SUFFICES ASSUME NEW p \in PCBs, NEW c \in PCBs,
                        task_state'[p] = "SUSPENDED", task_state'[c] = "ZOMBIE", parent_task'[c] = p
                 PROVE  ppid'[c] # pid'[p]
      BY DEF NoLostChildExit
    <3>1. /\ task_state[p] = "SUSPENDED" /\ p # parent_task[t]
          /\ task_state[c] = "ZOMBIE" \/ c = t
      BY <2>2, <2>3 DEF Rescheduled
    <3>2. task_state[c] = "ZOMBIE" /\ parent_task[c] = p
      BY <3>1, <2>4
    <3>3. ppid[c] # pid[p]
      BY <1>inv, <3>1, <3>2 DEF NoLostChildExit
    <3>4. pid[p] = p
      BY <1>inv, <3>1 DEF UsedPcbs
    <3>5. ppid[c] = INIT_TASK
      BY <1>inv, <3>2, <3>3, <3>4, FixedTasks DEF ParentFields
    <3>6. ppid'[c] = INIT_TASK
      BY <2>4, <3>5
    <3> QED BY <2>4, <3>3, <3>5, <3>6
  <2> QED BY <2>5, <2>6, <2>7 DEF ParentInv
<1>susp. \A s \in {"SUSPENDED", "SLEEP", "WAIT"} :
           [task_state EXCEPT ![RunningTask] = s] \in States
  BY <1>st DEF States, TASK_STATES
<1>reap. ASSUME ReapAndSchedule PROVE ParentInv'
  <2>1. PICK c \in ZombieChildren :
          /\ clear_pcb(c) /\ RunningTask' \in PCBs
          /\ \/ RunningTask' = IDLE_TASK
             \/ [task_state EXCEPT ![c] = "READY"][RunningTask'] = "READY"
          /\ Rescheduled([task_state EXCEPT ![c] = "READY"], task_state', RunningTask)
    BY <1>reap, ReapSchedules
  <2>2. c \in PCBs /\ task_state[c] = "ZOMBIE" /\ task_mm[c] # "null" /\ pid' = pid
    BY <1>reap, <1>inv DEF ZombieChildren, UsedPcbs, ReapAndSchedule
  <2> DEFINE st == [task_state EXCEPT ![c] = "READY"]
  <2>3. /\ st \in States /\ st[c] = "READY"
        /\ \A p \in PCBs \ {c} : st[p] = task_state[p]
    BY <2>2 DEF TypeOK, States, TASK_STATES
  <2>4. RunningTask' = IDLE_TASK \/ st[RunningTask'] = "READY"
    BY <2>1
  <2>5. Rescheduled(st, task_state', RunningTask)
    BY <2>1
  <2> HIDE DEF st
  <2>6. /\ task_mm' \in [PCBs -> {"null", "empty", "mapped"}]
        /\ \A p \in PCBs : task_mm'[p] = "null" <=> task_mm[p] = "null"
    BY <2>1, <2>2 DEF clear_pcb, TypeOK
  <2>7. UsedPcbs'
    <3>1. \A p \in PCBs : task_mm[p] = "null" => st[p] = "RUNNING"
      BY <1>inv, <2>2, <2>3 DEF UsedPcbs
    <3> QED BY <1>inv, <2>1, <2>2, <2>3, <2>4, <2>5, <2>6, <3>1, UsedAfterSchedule
  <2>8. /\ parent_task'[c] = NULL
        /\ \A p \in PCBs \ {c} : parent_task'[p] = parent_task[p] /\ ppid'[p] = ppid[p]
    BY <2>1, <2>2 DEF clear_pcb, TypeOK
  <2>9. ParentFields'
    BY <1>inv, <2>8 DEF ParentFields
  <2>10. NoLostChildExit'
    <3>1. \A p \in PCBs : task_state'[p] \in {"SUSPENDED", "ZOMBIE"} =>
                            p # c /\ task_state[p] = task_state'[p]
      BY <2>3, <2>5 DEF Rescheduled
    <3> QED BY <1>inv, <2>2, <2>8, <3>1 DEF NoLostChildExit
  <2> QED BY <2>7, <2>9, <2>10 DEF ParentInv
<1>suspend. ASSUME Suspend PROVE ParentInv'
  <2> DEFINE st == [task_state EXCEPT ![RunningTask] = "SUSPENDED"]
  <2>1. /\ st \in States /\ st[RunningTask] = "SUSPENDED"
        /\ \A p \in PCBs \ {RunningTask} : st[p] = task_state[p]
    BY <1>susp, <1>st DEF States
  <2>2. schedule(st, next, overall_task_list)
    BY <1>suspend DEF Suspend
  <2> HIDE DEF st
  <2> QED BY <1>suspend, <1>sched, <2>1, <2>2 DEF Suspend
<1>retouch. ASSUME NEW s \in {"SLEEP", "WAIT"}, UNCHANGED <<family, task_mm>>,
                   schedule([task_state EXCEPT ![RunningTask] = s], next, overall_task_list)
            PROVE  ParentInv'
  <2> DEFINE st == [task_state EXCEPT ![RunningTask] = s]
  <2>1. /\ st \in States /\ st[RunningTask] = s
        /\ \A p \in PCBs \ {RunningTask} : st[p] = task_state[p]
    BY <1>susp, <1>st DEF States
  <2>2. schedule(st, next, overall_task_list)
    BY <1>retouch
  <2> HIDE DEF st
  <2> QED BY <1>retouch, <1>sched, <2>1, <2>2
<1>plain. ASSUME schedule(task_state, next, overall_task_list), UNCHANGED <<family, task_mm>>
          PROVE  ParentInv'
  BY <1>plain, <1>sched, <1>st
<1>1. CASE Fork
  <2> DEFINE child == free_pcb_head
             st == [task_state EXCEPT ![child] = "READY"]
  <2>1. child \in PCBs /\ Rescheduled(st, task_state', child)
    BY <1>1, ForkSchedules
  <2>2. /\ st[child] = "READY"
        /\ \A p \in PCBs \ {child} : st[p] = task_state[p]
    BY <2>1, <1>st DEF States
  <2>3. /\ pid'[child] = child /\ ppid'[child] = RunningTask
        /\ parent_task'[child] = RunningTask /\ task_mm'[child] = "mapped"
        /\ \A p \in PCBs \ {child} :
             /\ pid'[p] = pid[p] /\ ppid'[p] = ppid[p]
             /\ parent_task'[p] = parent_task[p] /\ task_mm'[p] = task_mm[p]
        /\ RunningTask' = RunningTask
    <3>1. pid' = [pid EXCEPT ![child] = child]
      BY <1>1 DEF Fork
    <3>2. pid'[RunningTask] = RunningTask
      BY <3>1, <2>1, <1>inv, <1>st DEF UsedPcbs, TypeOK
    <3> QED BY <1>1, <2>1, <3>1, <3>2 DEF Fork, TypeOK
  <2> HIDE DEF st, child
  <2>4. \A p \in PCBs : task_state'[p] \in {"SUSPENDED", "ZOMBIE"} =>
                           p # child /\ task_state[p] = task_state'[p]
    BY <2>1, <2>2 DEF Rescheduled
  <2>5. UsedPcbs'
    <3>1. \A p \in PCBs : task_mm'[p] = "null" => task_state'[p] = "RUNNING"
      BY <1>inv, <2>1, <2>2, <2>3 DEF UsedPcbs, Rescheduled
    <3>2. \A p \in PCBs : task_mm'[p] # "null" => pid'[p] = p
      BY <1>inv, <2>3 DEF UsedPcbs
    <3>3. \A p \in {RunningTask, INIT_TASK, IDLE_TASK} : task_mm'[p] # "null"
      BY <1>inv, <1>st, <2>3, FixedTasks DEF UsedPcbs
    <3> QED BY <2>3, <3>1, <3>2, <3>3 DEF UsedPcbs, INIT_TASK, IDLE_TASK
  <2>6. ParentFields'
    BY <1>inv, <2>3 DEF ParentFields, INIT_TASK
  <2>7. NoLostChildExit'
    BY <1>inv, <2>3, <2>4 DEF NoLostChildExit
  <2> QED BY <2>5, <2>6, <2>7 DEF ParentInv
<1>2. CASE Exec
  BY <1>2, <1>quiet DEF Exec
<1>3. CASE Exit \/ ForkNoPcb
  BY <1>3, <1>st, <1>exit DEF Exit, ForkNoPcb
<1>4. ASSUME NEW t \in KillPids, Kill(t) PROVE ParentInv'
  BY <1>4, <1>exit, KillPidsAssumption DEF Kill, PCBs
<1>5. CASE Wait \/ InitRun
  BY <1>5, <1>reap, <1>suspend DEF Wait, InitRun
<1>6. CASE WaitResume
  BY <1>6, <1>reap, <1>plain DEF WaitResume
<1>7. ASSUME NEW n \in SleepSecs, Sleep(n) PROVE ParentInv'
  BY <1>7, <1>retouch DEF Sleep
<1>8. CASE Yield \/ IdleSchedule
  BY <1>8, <1>plain DEF Yield, IdleSchedule
<1>9. CASE ReadTerm \/ TermResume
  <2>1. CASE TakeLine
    BY <2>1, <1>quiet DEF TakeLine
  <2>2. CASE WaitForLine
    BY <2>2, <1>retouch DEF WaitForLine
  <2> QED BY <1>9, <2>1, <2>2 DEF ReadTerm, TermResume
<1>10. CASE Tick
  <2>1. CASE timer_count # SLICE
    BY <1>10, <2>1, <1>quiet DEF Tick, Interrupt
  <2>2. CASE timer_count = SLICE
    <3> DEFINE st == [t \in PCBs |-> IF due(t) THEN "READY" ELSE task_state[t]]
    <3>1. /\ st \in States
          /\ \A p \in PCBs : st[p] = task_state[p] \/ (st[p] = "READY" /\ task_state[p] = "SLEEP")
      BY <1>st DEF States, TASK_STATES, due, Sleepers
    <3>2. schedule(st, next, overall_task_list)
      BY <1>10, <2>2 DEF Tick
    <3> HIDE DEF st
    <3> QED BY <1>10, <3>1, <3>2, <1>sched DEF Tick, Interrupt
  <2> QED BY <2>1, <2>2
<1>11. CASE KeyEnter
  <2>1. \A p \in PCBs : task_state'[p] = task_state[p] \/ (task_state[p] = "WAIT" /\ task_state'[p] = "READY")
    BY <1>11, FirstOfType DEF KeyEnter, wake_up_task
  <2> QED BY <1>11, <2>1, <1>quiet DEF KeyEnter, Interrupt
<1>12. CASE KeyOther
  BY <1>12, <1>quiet DEF KeyOther, Interrupt
<1>13. CASE UNCHANGED vars
  BY <1>13, <1>quiet DEF vars
<1> QED BY <1>1, <1>2, <1>3, <1>4, <1>5, <1>6, <1>7, <1>8, <1>9, <1>10, <1>11, <1>12, <1>13 DEF Next

(***************************************************************************)
(* No exit is lost, for any number of processes, kill included: a parent   *)
(* asleep in wait_for_child has no zombie whose parent_task and ppid both  *)
(* name it.  The scan before SUSPENDED, the wake-up in sys_exit and IF=0   *)
(* around both close the window.                                           *)
(***************************************************************************)
THEOREM ChildExitIsNotLost == Spec => []NoLostChildExit
<1>1. Init => TypeOK /\ ParentInv
  BY TypeInit, ParentInit
<1>2. TypeOK /\ ParentInv /\ [Next]_vars => (TypeOK /\ ParentInv)'
  BY TypeStep, ParentStep
<1>3. ParentInv => NoLostChildExit
  BY DEF ParentInv
<1> QED BY <1>1, <1>2, <1>3, PTL DEF Spec

-----------------------------------------------------------------------------
(***************************************************************************)
(* The two lists, when no process calls kill: no PCB is lost or in two     *)
(* places, and no typed line is left unread beside a reader that sleeps.   *)
(***************************************************************************)

(* What Reach computes: the recursion of its definition has a solution, by *)
(* extending one for fewer steps, and NUM_PCB steps are enough.            *)

\* The sets that Reach goes through.
Steps(h, nx, n, g) ==
  g = [k \in 0..n |-> IF k = 0 THEN {h} ELSE LET S == g[k - 1] IN S \cup {nx[p] : p \in S \ {NULL}}]

LEMMA StepsExist == \A n \in Nat : \A h, nx : \E g : Steps(h, nx, n, g)
<1> DEFINE Bad == {n \in Nat : \E h, nx : \A g : ~Steps(h, nx, n, g)}
<1> SUFFICES ASSUME Bad # {} PROVE FALSE
  OBVIOUS
<1>1. PICK n \in Bad : \A m \in Bad : n <= m
  BY LeastElement
<1>2. n \in Nat
  BY <1>1
<1>3. PICK h, nx : \A g : ~Steps(h, nx, n, g)
  BY <1>1
<1>4. CASE n = 0
  <2> DEFINE g == [k \in 0..0 |-> {h}]
  <2>1. Steps(h, nx, 0, g)
    BY DEF Steps
  <2> QED BY <1>3, <1>4, <2>1
<1>5. CASE n # 0
  <2>1. n - 1 \in Nat /\ n - 1 \notin Bad
    BY <1>1, <1>2, <1>5
  <2>2. PICK g : Steps(h, nx, n - 1, g)
    BY <2>1
  <2> DEFINE e == [k \in 0..n |-> IF k = n THEN LET S == g[n - 1] IN S \cup {nx[p] : p \in S \ {NULL}} ELSE g[k]]
  <2>3. \A k \in 0..(n - 1) : e[k] = IF k = 0 THEN {h} ELSE LET S == g[k - 1] IN S \cup {nx[p] : p \in S \ {NULL}}
    <3>1. \A k \in 0..(n - 1) : g[k] = IF k = 0 THEN {h} ELSE LET S == g[k - 1] IN S \cup {nx[p] : p \in S \ {NULL}}
      BY <2>2 DEF Steps
    <3>2. \A k \in 0..(n - 1) : e[k] = g[k]
      BY <1>2, <1>5
    <3> HIDE DEF e
    <3> QED BY <3>1, <3>2
  <2>4. \A k \in 0..(n - 1) : e[k] = g[k] /\ k \in 0..n
    BY <1>2, <1>5
  <2>5. \A k \in 0..n : e[k] = IF k = 0 THEN {h} ELSE LET S == e[k - 1] IN S \cup {nx[p] : p \in S \ {NULL}}
    <3> SUFFICES ASSUME NEW k \in 0..n
        PROVE e[k] = IF k = 0 THEN {h} ELSE LET S == e[k - 1] IN S \cup {nx[p] : p \in S \ {NULL}}
      OBVIOUS
    <3>1. k = n \/ k \in 0..(n - 1)
      BY <1>2
    <3>2. k # 0 => k - 1 \in 0..(n - 1)
      BY <1>2
    <3>3. k # 0 => e[k - 1] = g[k - 1]
      BY <2>4, <3>2
    <3>4. CASE k = n
      BY <1>5, <3>3, <3>4
    <3>5. CASE k \in 0..(n - 1)
      BY <2>3, <3>3, <3>5
    <3> QED BY <3>1, <3>4, <3>5
  <2>6. Steps(h, nx, n, e)
    BY <2>5 DEF Steps
  <2> QED BY <1>3, <2>6
<1> QED BY <1>4, <1>5

LEMMA ReachSteps ==
  ASSUME NEW h, NEW nx
  PROVE  \E g : Steps(h, nx, NUM_PCB, g) /\ Reach(h, nx) = {p \in PCBs : p \in g[NUM_PCB]}
<1> DEFINE g == CHOOSE g : Steps(h, nx, NUM_PCB, g)
<1>1. Steps(h, nx, NUM_PCB, g)
  BY StepsExist, NUM_PCBAssumption
<1>2. Reach(h, nx) = {p \in PCBs : p \in g[NUM_PCB]}
  BY DEF Reach, Steps
<1> QED BY <1>1, <1>2

\* There are one more pointers than PCBs.
LEMMA PointersFinite == IsFiniteSet(Pointers) /\ Cardinality(Pointers) = NUM_PCB + 1
<1>1. Pointers = (-1)..(NUM_PCB - 1) /\ -1 \in Int /\ NUM_PCB - 1 \in Int /\ ~(-1 > NUM_PCB - 1)
  BY NUM_PCBAssumption DEF PCBs, NULL, Pointers
<1>2. NUM_PCB - 1 - (-1) + 1 = NUM_PCB + 1
  BY NUM_PCBAssumption
<1> QED BY <1>1, <1>2, FS_Interval

\* Whatever contains the head and the links of its members contains the steps.
LEMMA StepsInside ==
  ASSUME NEW nx \in Links, NEW h \in Pointers, NEW g, Steps(h, nx, NUM_PCB, g),
         NEW C \in SUBSET PCBs, h \in C \cup {NULL}, \A p \in C : nx[p] \in C \cup {NULL}
  PROVE  \A k \in 0..NUM_PCB : g[k] \subseteq C \cup {NULL}
<1> DEFINE Bad == {k \in 0..NUM_PCB : ~(g[k] \subseteq C \cup {NULL})}
<1> SUFFICES ASSUME Bad # {} PROVE FALSE
  OBVIOUS
<1>1. PICK k \in Bad : \A m \in Bad : k <= m
  <2>1. Bad \in SUBSET Nat
    OBVIOUS
  <2> HIDE DEF Bad
  <2> QED BY <2>1, LeastElement
<1>2. k \in 0..NUM_PCB /\ k \in Nat
  BY <1>1
<1>3. g[k] = IF k = 0 THEN {h} ELSE LET S == g[k - 1] IN S \cup {nx[p] : p \in S \ {NULL}}
  BY <1>2 DEF Steps
<1>4. CASE k = 0
  BY <1>1, <1>3, <1>4
<1>5. CASE k # 0
  <2>1. k - 1 \in 0..NUM_PCB /\ k - 1 < k
    BY <1>2, <1>5, NUM_PCBAssumption
  <2>2. g[k - 1] \subseteq C \cup {NULL}
    BY <1>1, <1>2, <2>1
  <2>3. g[k] \subseteq C \cup {NULL}
    BY <1>3, <1>5, <2>2
  <2> QED BY <1>1, <2>3
<1> QED BY <1>4, <1>5

\* The steps contain the head, and NUM_PCB of them are enough: as long as some
\* link leads out, each adds a pointer, and there are NUM_PCB + 1 pointers.
LEMMA StepsClosed ==
  ASSUME NEW nx \in Links, NEW h \in Pointers, NEW g, Steps(h, nx, NUM_PCB, g)
  PROVE  h \in g[NUM_PCB] /\ \A p \in g[NUM_PCB] \ {NULL} : nx[p] \in g[NUM_PCB]
<1> DEFINE Closed(k) == \A p \in g[k] \ {NULL} : nx[p] \in g[k]
           Good(k) == h \in g[k] /\ (Closed(k) \/ Cardinality(g[k]) >= k + 1)
           Bad == {k \in 0..NUM_PCB : ~Good(k)}
<1>0. NUM_PCB \in Nat /\ NUM_PCB \in 0..NUM_PCB
  BY NUM_PCBAssumption
<1>1. \A k \in 0..NUM_PCB : g[k] \subseteq Pointers
  <2>1. \A p \in PCBs : nx[p] \in PCBs \cup {NULL}
    BY DEF Links
  <2>2. \A k \in 0..NUM_PCB : g[k] \subseteq PCBs \cup {NULL}
    BY <2>1, StepsInside DEF Pointers
  <2> QED BY <2>2 DEF Pointers
<1>2. \A k \in 0..NUM_PCB : IsFiniteSet(g[k]) /\ Cardinality(g[k]) \in Nat
  BY <1>1, PointersFinite, FS_Subset, FS_CardinalityType
<1>3. ASSUME Bad # {} PROVE FALSE
  <2>1. PICK k \in Bad : \A m \in Bad : k <= m
    <3>1. Bad \in SUBSET Nat
      OBVIOUS
    <3> HIDE DEF Bad
    <3> QED BY <1>3, <3>1, LeastElement
  <2>2. k \in 0..NUM_PCB /\ k \in Nat /\ ~Good(k)
    BY <2>1
  <2>3. g[k] = IF k = 0 THEN {h} ELSE LET S == g[k - 1] IN S \cup {nx[p] : p \in S \ {NULL}}
    BY <2>2 DEF Steps
  <2>4. CASE k = 0
    <3>1. g[k] = {h} /\ Cardinality(g[k]) = 1
      BY <2>3, <2>4, FS_Singleton
    <3> QED BY <2>2, <2>4, <3>1
  <2>5. CASE k # 0
    <3>1. k - 1 \in 0..NUM_PCB /\ k - 1 < k
      BY <2>2, <2>5, <1>0
    <3>2. Good(k - 1)
      BY <2>1, <2>2, <3>1
    <3>3. g[k] = g[k - 1] \cup {nx[p] : p \in g[k - 1] \ {NULL}}
      BY <2>3, <2>5
    <3>4. CASE Closed(k - 1)
      <4>1. g[k] = g[k - 1]
        BY <3>3, <3>4
      <4> QED BY <2>2, <3>2, <3>4, <4>1
    <3>5. CASE ~Closed(k - 1)
      <4>1. PICK p \in g[k - 1] \ {NULL} : nx[p] \notin g[k - 1]
        BY <3>5
      <4>2. g[k - 1] \cup {nx[p]} \in SUBSET g[k]
        BY <3>3, <4>1
      <4>3. Cardinality(g[k - 1] \cup {nx[p]}) = Cardinality(g[k - 1]) + 1
        <5>1. IsFiniteSet(g[k - 1]) /\ nx[p] \notin g[k - 1]
          BY <1>2, <3>1, <4>1
        <5> QED BY <5>1, FS_AddElement
      <4>4. Cardinality(g[k - 1] \cup {nx[p]}) <= Cardinality(g[k])
        BY <1>2, <2>2, <4>2, FS_Subset
      <4>5. Cardinality(g[k - 1]) >= k
        BY <2>2, <3>2, <3>5
      <4>6. Cardinality(g[k]) >= k + 1
        BY <1>2, <2>2, <3>1, <4>3, <4>4, <4>5
      <4> QED BY <2>2, <3>2, <3>3, <4>6
    <3> QED BY <3>4, <3>5
  <2> QED BY <2>4, <2>5
<1>4. Good(NUM_PCB)
  BY <1>0, <1>3
<1>5. ASSUME Cardinality(g[NUM_PCB]) >= NUM_PCB + 1 PROVE Closed(NUM_PCB)
  <2>1. g[NUM_PCB] \in SUBSET Pointers
    BY <1>0, <1>1
  <2>2. Cardinality(g[NUM_PCB]) <= NUM_PCB + 1 /\ Cardinality(g[NUM_PCB]) \in Nat
    BY <1>0, <1>2, <2>1, PointersFinite, FS_Subset
  <2>3. Cardinality(Pointers) = Cardinality(g[NUM_PCB])
    BY <1>0, <1>5, <2>2, PointersFinite
  <2>4. g[NUM_PCB] = Pointers
    BY <2>1, <2>3, PointersFinite, FS_Subset
  <2> QED BY <2>4 DEF Links, Pointers
<1> QED BY <1>4, <1>5

(***************************************************************************)
(* Reach is the least set that holds the head and, with every PCB, its     *)
(* successor.                                                              *)
(***************************************************************************)
LEMMA ReachIsClosed ==
  ASSUME NEW nx \in Links, NEW h \in Pointers
  PROVE  /\ h # NULL => h \in Reach(h, nx)
         /\ \A p \in Reach(h, nx) : p \in PCBs /\ (nx[p] # NULL => nx[p] \in Reach(h, nx))
<1>1. PICK g : Steps(h, nx, NUM_PCB, g) /\ Reach(h, nx) = {p \in PCBs : p \in g[NUM_PCB]}
  BY ReachSteps
<1>2. h \in g[NUM_PCB] /\ \A p \in g[NUM_PCB] \ {NULL} : nx[p] \in g[NUM_PCB]
  BY <1>1, StepsClosed
<1>3. \A p \in PCBs : nx[p] \in Pointers
  BY DEF Links, Pointers
<1> QED BY <1>1, <1>2, <1>3, FixedTasks DEF Pointers

LEMMA ReachIsLeast ==
  ASSUME NEW nx \in Links, NEW h \in Pointers,
         NEW C \in SUBSET PCBs, h \in C \cup {NULL}, \A p \in C : nx[p] \in C \cup {NULL}
  PROVE  Reach(h, nx) \subseteq C
<1>1. PICK g : Steps(h, nx, NUM_PCB, g) /\ Reach(h, nx) = {p \in PCBs : p \in g[NUM_PCB]}
  BY ReachSteps
<1>2. g[NUM_PCB] \subseteq C \cup {NULL}
  BY <1>1, StepsInside, NUM_PCBAssumption, SMTT(60)
<1> QED BY <1>1, <1>2, FixedTasks

-----------------------------------------------------------------------------
(* Walks along links that have no cycle. *)

LEMMA ReachNull == ASSUME NEW nx \in Links PROVE Reach(NULL, nx) = {}
<1>1. NULL \in Pointers /\ {} \in SUBSET PCBs
  BY DEF Pointers
<1> QED BY <1>1, ReachIsLeast, ZenonT(60)

\* What is reached from something reached is reached.
LEMMA ReachTransitive ==
  ASSUME NEW nx \in Links, NEW h \in Pointers, NEW p \in Reach(h, nx)
  PROVE  Reach(p, nx) \subseteq Reach(h, nx)
<1>1. Reach(h, nx) \in SUBSET PCBs /\ p \in Pointers
  BY ReachType DEF Pointers
<1>2. \A q \in Reach(h, nx) : nx[q] \in Reach(h, nx) \cup {NULL}
  BY ReachIsClosed
<1> QED BY <1>1, <1>2, ReachIsLeast

\* A walk meets its head and then what a walk from the successor meets.
LEMMA ReachFrom ==
  ASSUME NEW nx \in Links, NEW h \in PCBs
  PROVE  /\ Reach(h, nx) = {h} \cup Reach(nx[h], nx)
         /\ nx[h] = NULL \/ (nx[h] \in PCBs /\ nx[h] \in Reach(h, nx))
<1>1. h \in Pointers /\ nx[h] \in Pointers /\ h # NULL /\ (nx[h] = NULL \/ nx[h] \in PCBs)
  BY FixedTasks DEF Links, Pointers
<1>2. h \in Reach(h, nx) /\ (nx[h] = NULL \/ nx[h] \in Reach(h, nx))
  BY <1>1, ReachIsClosed
<1>3. Reach(nx[h], nx) \subseteq Reach(h, nx)
  BY <1>1, <1>2, ReachNull, ReachTransitive
<1> DEFINE C == {h} \cup Reach(nx[h], nx)
<1>4. C \in SUBSET PCBs /\ h \in C
  BY ReachType
<1>5. \A q \in C : nx[q] \in C \cup {NULL}
  BY <1>1, ReachIsClosed
<1>6. Reach(h, nx) \subseteq C
  <2> HIDE DEF C
  <2> QED BY <1>1, <1>4, <1>5, ReachIsLeast
<1> QED BY <1>1, <1>2, <1>3, <1>6

\* Nothing comes after itself.
LEMMA NotBehindItself ==
  ASSUME NEW nx \in Links, Acyclic(nx), NEW h \in PCBs
  PROVE  h \notin Reach(nx[h], nx)
<1> DEFINE S == {p \in PCBs : h \in Reach(nx[p], nx)}
<1> SUFFICES ASSUME h \in S PROVE FALSE
  OBVIOUS
<1>1. ASSUME NEW p \in S PROVE nx[p] \in S
  <2>1. p \in PCBs /\ h \in Reach(nx[p], nx)
    BY <1>1
  <2>2. nx[p] \in PCBs
    BY <2>1, ReachFrom, ReachNull
  <2>3. h = nx[p] \/ h \in Reach(nx[nx[p]], nx)
    BY <2>1, <2>2, ReachFrom
  <2> QED BY <2>2, <2>3
<1>2. S \in SUBSET PCBs /\ S # {}
  OBVIOUS
<1> HIDE DEF S
<1> QED BY <1>1, <1>2 DEF Acyclic

\* Two PCBs that reach each other are one.
LEMMA ReachAntisymmetric ==
  ASSUME NEW nx \in Links, Acyclic(nx), NEW p \in PCBs, NEW q \in PCBs,
         p \in Reach(q, nx), q \in Reach(p, nx)
  PROVE  p = q
<1> SUFFICES ASSUME p # q PROVE FALSE
  OBVIOUS
<1>1. p \in Reach(nx[q], nx) /\ nx[q] \in Pointers
  BY ReachFrom DEF Links, Pointers
<1>2. q \in Reach(nx[q], nx)
  BY <1>1, ReachTransitive
<1> QED BY <1>2, NotBehindItself

\* Every list ends, in one PCB: every walk along it comes there.
LEMMA ListEnds ==
  ASSUME NEW nx \in Links, Acyclic(nx), NEW h \in PCBs
  PROVE  \E e \in Reach(h, nx) : /\ nx[e] = NULL
                                 /\ \A p \in Reach(h, nx) : nx[p] = NULL => p = e
<1>1. Reach(h, nx) \in SUBSET PCBs /\ h \in Reach(h, nx)
  BY ReachType, ReachFrom
<1>2. PICK e \in Reach(h, nx) : nx[e] \notin Reach(h, nx)
  BY <1>1 DEF Acyclic
<1>3. h \in Pointers /\ nx[e] = NULL
  BY <1>2, ReachIsClosed DEF Pointers
<1>4. ASSUME NEW p \in Reach(h, nx), nx[p] = NULL PROVE p = e
  <2> DEFINE C == {x \in PCBs : e \in Reach(x, nx)}
  <2>1. \A x \in C : nx[x] \in C \cup {NULL}
    <3> SUFFICES ASSUME NEW x \in C, nx[x] # NULL PROVE nx[x] \in C
      OBVIOUS
    <3>1. x \in PCBs /\ nx[x] \in PCBs
      BY ReachFrom
    <3>2. e \in Reach(nx[x], nx)
      BY <1>3, <3>1, ReachFrom
    <3> QED BY <3>1, <3>2
  <2>2. h \in C /\ C \in SUBSET PCBs
    BY <1>2
  <2>3. p \in C
    <3> HIDE DEF C
    <3> QED BY <1>3, <2>1, <2>2, ReachIsLeast
  <2>4. e \in {p} \cup Reach(NULL, nx)
    BY <1>4, <2>3, ReachFrom
  <2> QED BY <2>4, ReachNull
<1> QED BY <1>3, <1>4

\* A walk does not see the links of PCBs that it does not meet.
LEMMA ReachLocal ==
  ASSUME NEW nx \in Links, NEW ny \in Links, NEW h \in Pointers,
         \A p \in Reach(h, nx) : ny[p] = nx[p]
  PROVE  Reach(h, ny) = Reach(h, nx)
<1> DEFINE A == Reach(h, nx)
           B == Reach(h, ny)
<1>1. A \in SUBSET PCBs /\ B \in SUBSET PCBs
  BY ReachType
<1>2. h \in A \cup {NULL} /\ h \in B \cup {NULL}
  BY ReachIsClosed
<1>3. \A p \in A : nx[p] \in A \cup {NULL}
  BY ReachIsClosed
<1>4. \A p \in B : ny[p] \in B \cup {NULL}
  BY ReachIsClosed
<1> DEFINE C == A \cap B
<1>5. B \subseteq A
  BY <1>1, <1>2, <1>3, ReachIsLeast
<1>6. C \in SUBSET PCBs /\ h \in C \cup {NULL} /\ \A p \in C : nx[p] \in C \cup {NULL}
  BY <1>1, <1>2, <1>3, <1>4
<1>7. A \subseteq C
  <2> HIDE DEF C
  <2> QED BY <1>6, ReachIsLeast
<1> QED BY <1>5, <1>7

\* A set of listed PCBs has a first.
LEMMA FirstExists ==
  ASSUME NEW nx \in Links, Acyclic(nx), NEW h \in Pointers,
         NEW S \in SUBSET Reach(h, nx), S # {}
  PROVE  FirstOf(S, nx) # {}
<1> DEFINE U == {x \in Reach(h, nx) : S \subseteq Reach(x, nx)}
<1>1. h \in PCBs /\ U \in SUBSET PCBs
  BY ReachNull, ReachType DEF Pointers
<1>2. h \in U
  BY <1>1, ReachFrom
<1>3. PICK x \in U : nx[x] \notin U
  <2> HIDE DEF U
  <2> QED BY <1>1, <1>2 DEF Acyclic
<1>4. ASSUME x \notin S PROVE FALSE
  <2>1. x \in PCBs /\ S \subseteq Reach(nx[x], nx)
    BY <1>1, <1>3, <1>4, ReachFrom
  <2>2. nx[x] \in Reach(h, nx)
    BY <1>3, <2>1, ReachNull, ReachIsClosed
  <2> QED BY <1>3, <2>1, <2>2
<1> QED BY <1>3, <1>4 DEF FirstOf

-----------------------------------------------------------------------------
(* What the list operations do to the sets of listed PCBs. *)

\* A PCB that is not on the list goes to its end.
LEMMA AppendAdds ==
  ASSUME NEW nx \in Links, Acyclic(nx), NEW h \in PCBs, NEW t \in PCBs, t \notin Reach(h, nx)
  PROVE  Reach(h, Append(nx, h, t)) = Reach(h, nx) \cup {t}
<1> DEFINE A == Reach(h, nx)
           ny == Append(nx, h, t)
           B == Reach(h, ny)
<1>1. ny \in Links /\ h \in Pointers /\ h # NULL /\ A \in SUBSET PCBs /\ B \in SUBSET PCBs
  BY AppendLinks, ReachType, FixedTasks DEF Pointers
<1>2. h \in A /\ (\A p \in A : nx[p] \in A \cup {NULL}) /\ h \in B /\ \A p \in B : ny[p] \in B \cup {NULL}
  BY <1>1, ReachIsClosed
<1>3. \A p \in PCBs : ny[p] = IF p = t THEN NULL ELSE IF p \in A /\ nx[p] = NULL THEN t ELSE nx[p]
  BY DEF Append
<1> HIDE DEF ny
<1>4. B \subseteq A \cup {t}
  <2> DEFINE C == A \cup {t}
  <2>1. C \in SUBSET PCBs /\ h \in C /\ \A p \in C : ny[p] \in C \cup {NULL}
    BY <1>1, <1>2, <1>3
  <2> HIDE DEF C
  <2>2. B \subseteq C
    BY <1>1, <2>1, ReachIsLeast
  <2> QED BY <2>2 DEF C
<1>5. A \subseteq B
  <2> DEFINE C == A \cap B
  <2>1. C \in SUBSET PCBs /\ h \in C /\ \A p \in C : nx[p] \in C \cup {NULL}
    BY <1>1, <1>2, <1>3
  <2> HIDE DEF C
  <2>2. A \subseteq C
    BY <1>1, <2>1, ReachIsLeast
  <2> QED BY <2>2 DEF C
<1>6. PICK e \in A : nx[e] = NULL
  BY ListEnds
<1>7. e \in B /\ ny[e] = t /\ t # NULL
  BY <1>1, <1>3, <1>5, <1>6, FixedTasks
<1>8. t \in B
  BY <1>2, <1>7
<1> QED BY <1>4, <1>5, <1>8 DEF ny

\* Appending the last PCB of a list again changes nothing.
LEMMA AppendLast ==
  ASSUME NEW nx \in Links, Acyclic(nx), NEW h \in PCBs, NEW t \in Reach(h, nx), nx[t] = NULL
  PROVE  Append(nx, h, t) = nx
<1>1. \A p \in Reach(h, nx) : nx[p] = NULL => p = t
  BY ListEnds
<1>2. \A p \in PCBs : Append(nx, h, t)[p] = nx[p]
  BY <1>1 DEF Append
<1> QED BY <1>2, AppendLinks, ReachType DEF Links, Append

\* A PCB behind the head leaves the list.
LEMMA UnlinkRemoves ==
  ASSUME NEW nx \in Links, Acyclic(nx), NEW h \in PCBs, NEW t \in Reach(h, nx), t # h
  PROVE  Reach(h, Unlink(nx, h, t)) = Reach(h, nx) \ {t}
<1> DEFINE A == Reach(h, nx)
           ny == Unlink(nx, h, t)
           B == Reach(h, ny)
<1>0. t \in PCBs
  BY ReachType
<1>1. ny \in Links /\ h \in Pointers /\ h # NULL /\ A \in SUBSET PCBs /\ B \in SUBSET PCBs
  BY <1>0, UnlinkLinks, ReachType, FixedTasks DEF Pointers
<1>2. h \in A /\ (\A p \in A : nx[p] \in A \cup {NULL}) /\ h \in B /\ \A p \in B : ny[p] \in B \cup {NULL}
  BY <1>1, ReachIsClosed
<1>3. \A p \in PCBs : ny[p] = IF p = t THEN NULL ELSE IF p \in A /\ nx[p] = t THEN nx[t] ELSE nx[p]
  BY DEF Unlink
<1>4. nx[t] # t
  <2>1. {t} \in SUBSET PCBs /\ {t} # {}
    BY <1>0
  <2> QED BY <2>1 DEF Acyclic
<1> HIDE DEF ny
<1>5. B \subseteq A \ {t}
  <2> DEFINE C == A \ {t}
  <2>1. C \in SUBSET PCBs /\ h \in C /\ \A p \in C : ny[p] \in C \cup {NULL}
    BY <1>1, <1>2, <1>3, <1>4
  <2> HIDE DEF C
  <2>2. B \subseteq C
    BY <1>1, <2>1, ReachIsLeast
  <2> QED BY <2>2 DEF C
<1>6. A \ {t} \subseteq B
  <2> DEFINE C == {x \in A : (x # t => x \in B) /\ (x = t => nx[t] \in B \cup {NULL})}
  <2>1. C \in SUBSET PCBs /\ h \in C
    BY <1>1, <1>2
  <2>2. ASSUME NEW x \in C, nx[x] # NULL PROVE nx[x] \in C
    <3>1. nx[x] \in A /\ x \in PCBs
      BY <1>1, <1>2, <2>2
    <3>2. CASE x = t
      BY <1>4, <2>2, <3>1, <3>2
    <3>3. CASE x # t /\ nx[x] # t
      <4>1. x \in B /\ ny[x] = nx[x]
        BY <1>3, <3>1, <3>3
      <4> QED BY <1>2, <2>2, <3>1, <3>3, <4>1
    <3>4. CASE x # t /\ nx[x] = t
      <4>1. x \in B /\ x \in A /\ ny[x] = nx[t]
        BY <1>3, <3>1, <3>4
      <4> QED BY <1>2, <3>1, <3>4, <4>1
    <3> QED BY <3>2, <3>3, <3>4
  <2>3. \A x \in C : nx[x] \in C \cup {NULL}
    BY <2>2
  <2>4. A \subseteq C
    <3> HIDE DEF C
    <3> QED BY <1>1, <2>1, <2>3, ReachIsLeast
  <2> QED BY <2>4
<1> QED BY <1>5, <1>6 DEF ny

-----------------------------------------------------------------------------
(***************************************************************************)
(* The inductive invariant, first for any states st, links nx, heads list  *)
(* and fh and running task r, so that it can be said of the moment when    *)
(* schedule() is entered.  Placed is ListsSound with three facts more:     *)
(* Idle, if it runs and is listed, is the last of the list (appending it   *)
(* again would cut off what follows); Init and Idle are neither free nor   *)
(* zombies.                                                                *)
(***************************************************************************)
Zombie(st) == {t \in PCBs : st[t] = "ZOMBIE"}

Placed(st, nx, list, fh, r) ==
  LET T == Reach(list, nx)
      F == Reach(fh, nx)
  IN  /\ T \cap F = {} /\ Zombie(st) \cap (T \cup F) = {} /\ r \notin F
      /\ PCBs = T \cup F \cup Zombie(st) \cup {r}
      /\ r \in T => r = IDLE_TASK /\ nx[IDLE_TASK] = NULL
      /\ {INIT_TASK, IDLE_TASK} \cap (F \cup Zombie(st)) = {}

\* Idle can always be chosen by fetch_ready_task.
IdleReady(st, r) ==
  /\ st[IDLE_TASK] \in {"READY", "RUNNING"}
  /\ r # IDLE_TASK => st[IDLE_TASK] = "READY"

(***************************************************************************)
(* Init is first on the list, then runs once, then sleeps for ever.  The   *)
(* list is empty when a task is put back on it only if that task is Init;  *)
(* its stale link, which is not cleared then, leads to the task fetched.   *)
(***************************************************************************)
InitPhase(st, nx, list, r) ==
  \/ r = INIT_TASK /\ nx[INIT_TASK] = list
  \/ r # INIT_TASK /\ r # IDLE_TASK /\ st[INIT_TASK] = "READY" /\ list = INIT_TASK
  \/ r # INIT_TASK /\ st[INIT_TASK] = "SUSPENDED"

\* Where the tasks continue; a task whose parent is Init would wake it.
Continuations ==
  /\ \A p \in PCBs : cont[p] \in {"hlt", "woken"} <=> p = IDLE_TASK
  /\ \A p \in PCBs : cont[p] = "init" <=> p = INIT_TASK
  /\ \A p \in PCBs : parent_task[p] # INIT_TASK

ListInv ==
  /\ Placed(task_state, next, overall_task_list, free_pcb_head, RunningTask)
  /\ task_state[RunningTask] # "ZOMBIE"
  /\ IdleReady(task_state, RunningTask)
  /\ InitPhase(task_state, next, overall_task_list, RunningTask)
  /\ Continuations

Inv == TypeOK /\ LinksAcyclic /\ ListInv

\* What holds when schedule() is entered.
Entering(st, nx, list, fh, r) ==
  /\ st \in States /\ nx \in Links /\ list \in Pointers /\ fh \in Pointers /\ r \in PCBs
  /\ Acyclic(nx)
  /\ Placed(st, nx, list, fh, r)
  /\ IdleReady(st, r)
  /\ InitPhase(st, nx, list, r)
  /\ r = INIT_TASK => st[INIT_TASK] = "SUSPENDED"

LEMMA InitIsNotIdle == INIT_TASK # IDLE_TASK /\ INIT_TASK \in PCBs /\ IDLE_TASK \in PCBs
BY FixedTasks DEF INIT_TASK, IDLE_TASK

\* What fetch_ready_task takes and leaves: Idle as the fallback only when Idle
\* has just been running, otherwise a ready task, which leaves the list.
LEMMA FetchPlaces ==
  ASSUME NEW st, NEW nx, NEW list, NEW fh, NEW r, Entering(st, nx, list, fh, r),
         NEW f \in fetch_ready_task(st, nx, list)
  PROVE  /\ f.nx \in Links /\ Acyclic(f.nx) /\ f.list \in Pointers
         /\ Reach(fh, f.nx) = Reach(fh, nx)
         /\ \/ /\ f.task = IDLE_TASK /\ r = IDLE_TASK
               /\ f.st = st /\ f.nx = nx /\ f.list = list
            \/ /\ f.task \in Reach(list, nx) /\ st[f.task] = "READY"
               /\ f.st = [st EXCEPT ![f.task] = "RUNNING"]
               /\ Reach(f.list, f.nx) = Reach(list, nx) \ {f.task}
               /\ f.task = list => f.nx = nx /\ f.list = nx[list]
               /\ f.task # list => f.list = list
               /\ f.task # IDLE_TASK /\ nx[IDLE_TASK] = NULL => f.nx[IDLE_TASK] = NULL
               /\ list = INIT_TASK /\ st[INIT_TASK] = "READY" => f.task = INIT_TASK
<1>0. /\ st \in States /\ nx \in Links /\ list \in Pointers /\ fh \in Pointers /\ r \in PCBs
      /\ Acyclic(nx) /\ Placed(st, nx, list, fh, r) /\ IdleReady(st, r)
  BY DEF Entering
<1> DEFINE T == Reach(list, nx)
           F == Reach(fh, nx)
           ready == {t \in T : st[t] = "READY"}
<1>1. T \in SUBSET PCBs /\ F \in SUBSET PCBs /\ T \cap F = {}
  BY <1>0, ReachType DEF Placed
<1>2. f.nx \in Links /\ Acyclic(f.nx) /\ f.list \in Pointers
  BY <1>0, FetchReadyTask
<1>3. CASE ready = {}
  <2>1. f = [task |-> IDLE_TASK, st |-> st, nx |-> nx, list |-> list]
    BY <1>3 DEF fetch_ready_task
  <2>2. r = IDLE_TASK
    <3> SUFFICES ASSUME r # IDLE_TASK PROVE FALSE
      OBVIOUS
    <3>1. IDLE_TASK \in T /\ st[IDLE_TASK] = "READY"
      BY <1>0, InitIsNotIdle DEF Placed, IdleReady, Zombie
    <3> QED BY <1>3, <3>1
  <2> QED BY <1>2, <2>1, <2>2
<1>4. CASE ready # {}
  <2>1. PICK t \in FirstOf(ready, nx) :
          f = [task |-> t,
               st   |-> [st EXCEPT ![t] = "RUNNING"],
               nx   |-> IF t = list THEN nx ELSE Unlink(nx, list, t),
               list |-> IF t = list THEN nx[t] ELSE list]
    BY <1>4 DEF fetch_ready_task
  <2>2. t \in T /\ st[t] = "READY" /\ ready \subseteq Reach(t, nx) /\ t \in PCBs
    BY <1>1 DEF FirstOf
  <2>3. list \in PCBs
    BY <1>0, <2>2, ReachNull DEF Pointers
  <2>4. f.task = t /\ f.st = [st EXCEPT ![t] = "RUNNING"]
        /\ f.nx = (IF t = list THEN nx ELSE Unlink(nx, list, t))
        /\ f.list = IF t = list THEN nx[t] ELSE list
    BY <2>1
  <2>5. \A p \in PCBs : p \notin T => f.nx[p] = nx[p]
    BY <2>2, <2>4 DEF Unlink
  <2>6. Reach(fh, f.nx) = F
    BY <1>0, <1>1, <1>2, <2>5, ReachLocal
  <2>7. Reach(f.list, f.nx) = T \ {t}
    <3>1. CASE t = list
      BY <1>0, <2>3, <2>4, <3>1, ReachFrom, NotBehindItself
    <3>2. CASE t # list
      BY <1>0, <2>2, <2>3, <2>4, <3>2, UnlinkRemoves
    <3> QED BY <3>1, <3>2
  <2>8. t # IDLE_TASK /\ nx[IDLE_TASK] = NULL => f.nx[IDLE_TASK] = NULL
    BY <2>2, <2>4, FixedTasks DEF Unlink
  <2>9. ASSUME list = INIT_TASK, st[INIT_TASK] = "READY" PROVE t = INIT_TASK
    <3>1. INIT_TASK \in ready
      BY <1>0, <2>3, <2>9, ReachFrom
    <3> QED BY <1>0, <2>2, <2>3, <2>9, <3>1, ReachAntisymmetric
  <2> QED BY <1>2, <2>2, <2>4, <2>6, <2>7, <2>8, <2>9
<1> QED BY <1>3, <1>4

\* What add_to_task_list does with the task that ran.
LEMMA AddPlaces ==
  ASSUME NEW st, NEW nx, NEW list, NEW fh, NEW r, Entering(st, nx, list, fh, r),
         NEW f \in fetch_ready_task(st, nx, list)
  PROVE  LET a == add_to_task_list(f.st, f.nx, f.list, r) IN
         /\ Placed(a.st, a.nx, a.list, fh, f.task)
         /\ Reach(fh, a.nx) = Reach(fh, nx)
         /\ a.st[f.task] # "ZOMBIE"
         /\ IdleReady(a.st, f.task)
         /\ InitPhase(a.st, a.nx, a.list, f.task)
<1> DEFINE T == Reach(list, nx)
           F == Reach(fh, nx)
           t == f.task
           a == add_to_task_list(f.st, f.nx, f.list, r)
           Fallback == /\ t = IDLE_TASK /\ r = IDLE_TASK
                       /\ f.st = st /\ f.nx = nx /\ f.list = list
           Fetched == /\ t \in T /\ st[t] = "READY"
                      /\ f.st = [st EXCEPT ![t] = "RUNNING"]
                      /\ Reach(f.list, f.nx) = T \ {t}
                      /\ t = list => f.nx = nx /\ f.list = nx[list]
                      /\ t # list => f.list = list
                      /\ t # IDLE_TASK /\ nx[IDLE_TASK] = NULL => f.nx[IDLE_TASK] = NULL
                      /\ list = INIT_TASK /\ st[INIT_TASK] = "READY" => t = INIT_TASK
<1>1. /\ st \in States /\ nx \in Links /\ list \in Pointers /\ fh \in Pointers /\ r \in PCBs
      /\ Acyclic(nx) /\ IdleReady(st, r) /\ InitPhase(st, nx, list, r)
      /\ r = INIT_TASK => st[INIT_TASK] = "SUSPENDED"
  BY DEF Entering
<1>2. /\ T \cap F = {} /\ Zombie(st) \cap (T \cup F) = {} /\ r \notin F
      /\ PCBs = T \cup F \cup Zombie(st) \cup {r}
      /\ r \in T => r = IDLE_TASK /\ nx[IDLE_TASK] = NULL
      /\ {INIT_TASK, IDLE_TASK} \cap (F \cup Zombie(st)) = {}
  BY DEF Entering, Placed
<1>3. /\ f.nx \in Links /\ Acyclic(f.nx) /\ f.list \in Pointers /\ Reach(fh, f.nx) = F
      /\ Fallback \/ Fetched
  BY FetchPlaces
<1>4. t \in PCBs /\ T \in SUBSET PCBs /\ F \in SUBSET PCBs
  BY <1>3, InitIsNotIdle, ReachType
<1>5. f.st \in States /\ Zombie(f.st) = Zombie(st) /\ t \notin Zombie(st)
  <2>1. CASE Fallback
    BY <1>1, <1>2, <2>1
  <2>2. CASE Fetched
    BY <1>1, <1>4, <2>2 DEF States, Zombie, TASK_STATES
  <2> QED BY <1>3, <2>1, <2>2
<1>6. /\ a.st \in States /\ Zombie(a.st) = Zombie(st)
      /\ \A p \in PCBs : a.st[p] = IF p = r /\ f.st[p] = "RUNNING" THEN "READY" ELSE f.st[p]
  <2>1. a.st = IF f.st[r] = "ZOMBIE" THEN f.st ELSE [f.st EXCEPT ![r] = IF @ = "RUNNING" THEN "READY" ELSE @]
    BY DEF add_to_task_list
  <2> HIDE DEF a
  <2>2. a.st \in States
    BY <1>1, <1>5, <2>1 DEF States, TASK_STATES
  <2>3. \A p \in PCBs : a.st[p] = IF p = r /\ f.st[p] = "RUNNING" THEN "READY" ELSE f.st[p]
    BY <1>1, <1>5, <2>1 DEF States
  <2>4. Zombie(a.st) = Zombie(f.st)
    BY <2>3 DEF Zombie
  <2> QED BY <1>5, <2>2, <2>3, <2>4
<1>7. a.st[t] # "ZOMBIE"
  BY <1>4, <1>5, <1>6 DEF Zombie
<1>8. IdleReady(a.st, t)
  <2>1. CASE Fallback
    BY <1>1, <1>6, <2>1, InitIsNotIdle DEF IdleReady
  <2>2. CASE Fetched
    <3>1. f.st[IDLE_TASK] = IF t = IDLE_TASK THEN "RUNNING" ELSE st[IDLE_TASK]
      BY <1>1, <2>2, InitIsNotIdle DEF States
    <3> QED BY <1>1, <1>6, <3>1, InitIsNotIdle DEF IdleReady
  <2> QED BY <1>3, <2>1, <2>2
\* The list is empty only if Init goes back on it.
<1>9. ASSUME f.list = NULL PROVE r = INIT_TASK /\ Fetched /\ T = {IDLE_TASK} /\ t = IDLE_TASK /\ t = list
  <2>1. Reach(f.list, f.nx) = {}
    BY <1>3, <1>9, ReachNull
  <2>2. r # INIT_TASK => INIT_TASK \in T
    BY <1>2, InitIsNotIdle
  <2>3. r # IDLE_TASK => IDLE_TASK \in T
    BY <1>2, InitIsNotIdle
  <2>4. Fetched
    <3>1. ASSUME Fallback PROVE FALSE
      BY <2>1, <2>2, <3>1, InitIsNotIdle
    <3> QED BY <1>3, <3>1
  <2>5. T \subseteq {t}
    BY <2>1, <2>4
  <2>6. r = INIT_TASK
    <3> SUFFICES ASSUME r # INIT_TASK PROVE FALSE
      OBVIOUS
    <3>1. t = INIT_TASK /\ st[INIT_TASK] = "READY"
      BY <2>2, <2>4, <2>5
    <3>2. r # IDLE_TASK
      BY <1>1, <3>1 DEF InitPhase
    <3> QED BY <2>3, <2>5, <3>1, <3>2, InitIsNotIdle
  <2>7. T = {IDLE_TASK} /\ t = IDLE_TASK
    BY <2>3, <2>4, <2>5, <2>6, InitIsNotIdle
  <2>8. t = list
    <3>1. list # NULL
      BY <1>1, <2>4, ReachNull
    <3> QED BY <1>9, <2>4, <3>1
  <2> QED BY <2>4, <2>6, <2>7, <2>8
<1>10. CASE f.st[r] = "ZOMBIE"
  <2>1. a.nx = f.nx /\ a.list = f.list
    BY <1>10 DEF add_to_task_list
  <2>2. r \in Zombie(st) /\ r # IDLE_TASK /\ r # INIT_TASK
    BY <1>1, <1>2, <1>5, <1>10 DEF Zombie
  <2>3. Fetched
    BY <1>3, <2>2
  <2>4. Placed(a.st, a.nx, a.list, fh, t) /\ Reach(fh, a.nx) = F
    <3>1. Reach(a.list, a.nx) = T \ {t} /\ Reach(fh, a.nx) = F
      BY <1>3, <2>1, <2>3
    <3>2. t \in T
      BY <2>3
    <3> HIDE DEF a, T, F, t
    <3> QED BY <1>2, <1>6, <2>2, <3>1, <3>2 DEF Placed
  <2>5. InitPhase(a.st, a.nx, a.list, t)
    <3>1. CASE st[INIT_TASK] = "SUSPENDED"
      BY <1>1, <1>6, <2>2, <2>3, <3>1, InitIsNotIdle DEF InitPhase, States
    <3>2. CASE st[INIT_TASK] = "READY" /\ list = INIT_TASK
      BY <2>1, <2>3, <3>2 DEF InitPhase
    <3> QED BY <1>1, <2>2, <3>1, <3>2 DEF InitPhase
  <2> QED BY <1>7, <1>8, <2>4, <2>5
<1>11. CASE f.st[r] # "ZOMBIE" /\ f.list = NULL
  <2>1. a.nx = f.nx /\ a.list = r
    BY <1>11 DEF add_to_task_list
  <2>2. r = INIT_TASK /\ Fetched /\ T = {IDLE_TASK} /\ t = IDLE_TASK /\ t = list
    BY <1>9, <1>11
  <2>3. f.nx = nx /\ nx[IDLE_TASK] = NULL /\ nx[INIT_TASK] = IDLE_TASK
    BY <1>1, <1>11, <2>2 DEF InitPhase
  <2>4. Reach(a.list, a.nx) = {INIT_TASK, IDLE_TASK}
    BY <1>1, <2>1, <2>2, <2>3, ReachFrom, InitIsNotIdle
  <2>5. Placed(a.st, a.nx, a.list, fh, t) /\ Reach(fh, a.nx) = F
    <3>1. Reach(fh, a.nx) = F
      BY <1>3, <2>1
    <3> HIDE DEF a, F, t
    <3> QED BY <1>2, <1>6, <2>1, <2>2, <2>3, <2>4, <3>1 DEF Placed
  <2>6. InitPhase(a.st, a.nx, a.list, t)
    BY <1>1, <1>6, <2>2, InitIsNotIdle DEF InitPhase, States
  <2> QED BY <1>7, <1>8, <2>5, <2>6
<1>12. CASE f.st[r] # "ZOMBIE" /\ f.list # NULL
  <2>1. a.nx = Append(f.nx, f.list, r) /\ a.list = f.list /\ f.list \in PCBs
    BY <1>3, <1>12 DEF add_to_task_list, Pointers
  <2> DEFINE L == Reach(f.list, f.nx)
  <2>2. L \in SUBSET PCBs /\ L = (IF Fallback THEN T ELSE T \ {t})
    BY <1>3, ReachType
  <2>3. Reach(fh, a.nx) = F
    <3>1. \A p \in F : p \notin L /\ p # r
      BY <1>2, <2>2
    <3>2. \A p \in F : a.nx[p] = f.nx[p]
      BY <1>4, <2>1, <3>1 DEF Append
    <3>3. a.nx \in Links
      BY <1>1, <1>3, <2>1, AppendLinks
    <3> QED BY <1>1, <1>3, <3>2, <3>3, ReachLocal
  <2>4. /\ Reach(a.list, a.nx) = L \cup {r}
        /\ a.nx[r] = NULL
        /\ r \in L => t = IDLE_TASK \/ t \notin L
    <3>1. CASE r \notin L
      BY <1>1, <1>3, <2>1, <3>1, AppendAdds DEF Append
    <3>2. CASE r \in L
      <4>1. r = IDLE_TASK /\ nx[IDLE_TASK] = NULL
        BY <1>2, <2>2, <3>2
      <4>2. f.nx[r] = NULL
        BY <1>3, <2>2, <3>2, <4>1
      <4>3. a.nx = f.nx
        BY <1>3, <2>1, <3>2, <4>2, AppendLast
      <4> QED BY <2>1, <2>2, <3>2, <4>2, <4>3
    <3> QED BY <3>1, <3>2
  <2>5. t \in L \cup {r} => t = IDLE_TASK /\ r = IDLE_TASK
    BY <1>2, <1>3, <2>2
  <2>6. Placed(a.st, a.nx, a.list, fh, t)
    <3>1. L \cup {r, t} = T \cup {r}
      BY <1>3, <2>2
    <3> HIDE DEF a, F, T, t, L
    <3>2. r \notin Zombie(st)
      BY <1>5, <1>12, <1>1 DEF Zombie
    <3> QED BY <1>2, <1>6, <2>3, <2>4, <2>5, <3>1, <3>2 DEF Placed
  <2>7. InitPhase(a.st, a.nx, a.list, t)
    <3>1. CASE st[INIT_TASK] = "SUSPENDED"
      <4>1. t # INIT_TASK /\ a.st[INIT_TASK] = "SUSPENDED"
        BY <1>1, <1>3, <1>6, <3>1, InitIsNotIdle DEF States
      <4> QED BY <4>1 DEF InitPhase
    <3>2. CASE r # INIT_TASK /\ r # IDLE_TASK /\ st[INIT_TASK] = "READY" /\ list = INIT_TASK
      <4>1. Fetched /\ t = INIT_TASK /\ f.nx = nx /\ f.list = nx[INIT_TASK]
        BY <1>3, <3>2
      <4>2. INIT_TASK \notin L
        BY <1>1, <4>1, NotBehindItself, InitIsNotIdle
      <4>3. a.nx[INIT_TASK] = nx[INIT_TASK]
        BY <2>1, <3>2, <4>1, <4>2, InitIsNotIdle DEF Append
      <4> QED BY <2>1, <4>1, <4>3 DEF InitPhase
    <3> QED BY <1>1, <3>1, <3>2 DEF InitPhase
  <2> QED BY <1>7, <1>8, <2>3, <2>6, <2>7
<1> QED BY <1>10, <1>11, <1>12

LEMMA SchedulePlaces ==
  ASSUME NEW st, NEW nx, NEW list, NEW fh, Entering(st, nx, list, fh, RunningTask),
         schedule(st, nx, list)
  PROVE  /\ Placed(task_state', next', overall_task_list', fh, RunningTask')
         /\ Reach(fh, next') = Reach(fh, nx)
         /\ task_state'[RunningTask'] # "ZOMBIE"
         /\ IdleReady(task_state', RunningTask')
         /\ InitPhase(task_state', next', overall_task_list', RunningTask')
<1>1. PICK f \in fetch_ready_task(st, nx, list) :
        LET a == add_to_task_list(f.st, f.nx, f.list, RunningTask) IN
        task_state' = a.st /\ next' = a.nx /\ overall_task_list' = a.list /\ RunningTask' = f.task
  BY DEF schedule
<1> QED BY <1>1, AddPlaces

-----------------------------------------------------------------------------
(* The invariant holds initially. *)

LEMMA PlacedInit == Init => ListInv
<1> SUFFICES ASSUME Init PROVE ListInv
  OBVIOUS
<1>0. /\ next = [p \in PCBs |-> IF p \in {IDLE_TASK, SHELL, NUM_PCB - 1} THEN NULL ELSE p + 1]
      /\ RunningTask = SHELL /\ overall_task_list = INIT_TASK
      /\ free_pcb_head = IF NUM_PCB = 3 THEN NULL ELSE 3
  BY DEF Init
<1>1. next \in Links /\ free_pcb_head \in Pointers /\ INIT_TASK \in PCBs /\ IDLE_TASK \in PCBs /\ SHELL \in PCBs
  BY <1>0, NUM_PCBAssumption, FixedTasks DEF Links, Pointers, PCBs
<1>2. next[INIT_TASK] = IDLE_TASK /\ next[IDLE_TASK] = NULL
  BY <1>0, <1>1, NUM_PCBAssumption DEF INIT_TASK, IDLE_TASK, SHELL
<1>3. Reach(overall_task_list, next) = {INIT_TASK, IDLE_TASK}
  BY <1>0, <1>1, <1>2, ReachFrom, ReachNull
\* The free list holds the PCBs above the shell: upwards, or one is missed.
<1>4. Reach(free_pcb_head, next) = {p \in PCBs : p > SHELL}
  <2> DEFINE C == {p \in PCBs : p > SHELL}
             F == Reach(free_pcb_head, next)
  <2>1. F \subseteq C
    <3>1. C \in SUBSET PCBs /\ free_pcb_head \in C \cup {NULL}
      BY <1>0, NUM_PCBAssumption DEF PCBs, SHELL
    <3>2. \A p \in C : next[p] \in C \cup {NULL}
      BY <1>0, <1>1, NUM_PCBAssumption DEF PCBs, SHELL, IDLE_TASK, Links
    <3> HIDE DEF C
    <3> QED BY <1>1, <3>1, <3>2, ReachIsLeast
  <2>2. ASSUME C \ F # {} PROVE FALSE
    <3>1. C \ F \in SUBSET Nat
      BY FixedTasks
    <3>2. PICK p \in C \ F : \A q \in C \ F : p <= q
      BY <2>2, <3>1, LeastElement
    <3>3. p \in PCBs /\ p \in Nat /\ p > 2 /\ p <= NUM_PCB - 1
      BY <3>2, FixedTasks, NUM_PCBAssumption DEF SHELL, PCBs
    <3>4. CASE p = 3
      BY <1>0, <1>1, <3>2, <3>3, <3>4, ReachFrom, NUM_PCBAssumption
    <3>5. CASE p # 3
      <4>1. p - 1 \in C /\ p - 1 < p
        BY <3>3, <3>5, NUM_PCBAssumption DEF SHELL, PCBs
      <4>2. p - 1 \in F
        BY <3>2, <3>3, <4>1
      <4>3. next[p - 1] = p /\ p # NULL
        BY <1>0, <3>3, <3>5, <4>1, NUM_PCBAssumption DEF PCBs, IDLE_TASK, SHELL, NULL
      <4>4. p \in F
        BY <1>1, <4>2, <4>3, ReachIsClosed
      <4> QED BY <3>2, <4>4
    <3> QED BY <3>4, <3>5
  <2> QED BY <2>1, <2>2
<1>5. Zombie(task_state) = {} /\ task_state[RunningTask] # "ZOMBIE" /\ IdleReady(task_state, RunningTask)
      /\ task_state[INIT_TASK] = "READY"
  BY <1>0, <1>1 DEF Init, Zombie, IdleReady, INIT_TASK, IDLE_TASK, SHELL
<1>6. INIT_TASK = 0 /\ IDLE_TASK = 1 /\ SHELL = 2
  BY DEF INIT_TASK, IDLE_TASK, SHELL
<1>7. \A p \in PCBs : p \in {INIT_TASK, IDLE_TASK, SHELL} \/ p > SHELL
  BY <1>6, NUM_PCBAssumption DEF PCBs
<1>8. Placed(task_state, next, overall_task_list, free_pcb_head, RunningTask)
  <2> DEFINE T == Reach(overall_task_list, next)
             F == Reach(free_pcb_head, next)
  <2>1. T = {INIT_TASK, IDLE_TASK} /\ F = {p \in PCBs : p > SHELL}
    BY <1>3, <1>4
  <2>2. INIT_TASK \notin F /\ IDLE_TASK \notin F /\ SHELL \notin F /\ SHELL \notin T
    <3>1. ~(0 > 2) /\ ~(1 > 2) /\ ~(2 > 2) /\ 2 # 0 /\ 2 # 1
      OBVIOUS
    <3> QED BY <1>6, <2>1, <3>1
  <2>3. PCBs = T \cup F \cup {SHELL}
    BY <1>1, <1>7, <2>1
  <2> HIDE DEF T, F
  <2>4. T \cap F = {} /\ RunningTask \notin F /\ RunningTask \notin T
    BY <1>0, <2>1, <2>2
  <2>5. PCBs = T \cup F \cup Zombie(task_state) \cup {RunningTask}
    BY <1>0, <1>5, <2>3
  <2>6. Zombie(task_state) \cap (T \cup F) = {}
    BY <1>5
  <2>7. {INIT_TASK, IDLE_TASK} \cap (F \cup Zombie(task_state)) = {}
    BY <1>5, <2>2
  <2> QED BY <2>4, <2>5, <2>6, <2>7 DEF Placed, T, F
<1>9. InitPhase(task_state, next, overall_task_list, RunningTask)
  BY <1>0, <1>5, <1>6 DEF InitPhase
<1>10. Continuations
  BY <1>6, FixedTasks DEF Init, Continuations, NULL
<1> QED BY <1>5, <1>8, <1>9, <1>10 DEF ListInv

-----------------------------------------------------------------------------
(* Every step keeps the invariant: the states in which schedule() is entered. *)

\* Only states have changed: the running task may have become a zombie.
LEMMA EnterWithStates ==
  ASSUME Inv, NEW st \in States, IdleReady(st, RunningTask),
         \A p \in PCBs : p # RunningTask => (st[p] = "ZOMBIE" <=> task_state[p] = "ZOMBIE"),
         st[RunningTask] = "ZOMBIE" => RunningTask \notin {INIT_TASK, IDLE_TASK},
         st[INIT_TASK] = IF RunningTask = INIT_TASK THEN "SUSPENDED" ELSE task_state[INIT_TASK]
  PROVE  Entering(st, next, overall_task_list, free_pcb_head, RunningTask)
<1> DEFINE T == Reach(overall_task_list, next)
           F == Reach(free_pcb_head, next)
<1>1. /\ next \in Links /\ overall_task_list \in Pointers /\ free_pcb_head \in Pointers
      /\ RunningTask \in PCBs /\ Acyclic(next) /\ task_state[RunningTask] # "ZOMBIE"
  BY DEF Inv, ListInv, TypeOK, Links, Pointers, LinksAcyclic, Acyclic
<1>2. /\ T \cap F = {} /\ Zombie(task_state) \cap (T \cup F) = {} /\ RunningTask \notin F
      /\ PCBs = T \cup F \cup Zombie(task_state) \cup {RunningTask}
      /\ RunningTask \in T => RunningTask = IDLE_TASK /\ next[IDLE_TASK] = NULL
      /\ {INIT_TASK, IDLE_TASK} \cap (F \cup Zombie(task_state)) = {}
  BY DEF Inv, ListInv, Placed
<1> HIDE DEF T, F
<1>3. Zombie(st) \ {RunningTask} = Zombie(task_state)
  BY <1>1 DEF Zombie
<1>4. RunningTask \in Zombie(st) => RunningTask \notin {INIT_TASK, IDLE_TASK}
  BY DEF Zombie
<1>5. Zombie(st) \cap (T \cup F) = {}
  BY <1>2, <1>3, <1>4
<1>6. PCBs = T \cup F \cup Zombie(st) \cup {RunningTask}
  BY <1>1, <1>2, <1>3 DEF Zombie
<1>7. {INIT_TASK, IDLE_TASK} \cap (F \cup Zombie(st)) = {}
  BY <1>2, <1>3, <1>4
<1>8. Placed(st, next, overall_task_list, free_pcb_head, RunningTask)
  BY <1>2, <1>5, <1>6, <1>7 DEF Placed, T, F
<1>9. InitPhase(st, next, overall_task_list, RunningTask)
  BY DEF Inv, ListInv, InitPhase
<1> QED BY <1>1, <1>8, <1>9 DEF Entering

\* A zombie has been cleared and put at the end of the free list.
LEMMA EnterWithReaped ==
  ASSUME Inv, NEW c \in Zombie(task_state), RunningTask # INIT_TASK
  PROVE  LET a == append_in_free_list([next EXCEPT ![c] = NULL], c) IN
         /\ Entering([task_state EXCEPT ![c] = "READY"], a.nx, overall_task_list, a.head, RunningTask)
         /\ Reach(a.head, a.nx) = Reach(free_pcb_head, next) \cup {c}
<1> DEFINE T == Reach(overall_task_list, next)
           F == Reach(free_pcb_head, next)
           nx == [next EXCEPT ![c] = NULL]
           st == [task_state EXCEPT ![c] = "READY"]
           a == append_in_free_list(nx, c)
<1>1. /\ next \in Links /\ overall_task_list \in Pointers /\ free_pcb_head \in Pointers
      /\ RunningTask \in PCBs /\ Acyclic(next) /\ task_state[RunningTask] # "ZOMBIE"
      /\ task_state \in States /\ c \in PCBs /\ task_state[c] = "ZOMBIE"
  BY DEF Inv, ListInv, TypeOK, Links, Pointers, LinksAcyclic, Acyclic, States, Zombie
<1>2. /\ T \cap F = {} /\ Zombie(task_state) \cap (T \cup F) = {} /\ RunningTask \notin F
      /\ PCBs = T \cup F \cup Zombie(task_state) \cup {RunningTask}
      /\ RunningTask \in T => RunningTask = IDLE_TASK /\ next[IDLE_TASK] = NULL
      /\ {INIT_TASK, IDLE_TASK} \cap (F \cup Zombie(task_state)) = {}
  BY DEF Inv, ListInv, Placed
<1>3. /\ c \notin T /\ c \notin F /\ c # RunningTask /\ c # INIT_TASK /\ c # IDLE_TASK
      /\ T \in SUBSET PCBs /\ F \in SUBSET PCBs
  BY <1>1, <1>2, ReachType
<1>4. nx \in Links /\ Acyclic(nx) /\ \A p \in PCBs : nx[p] = IF p = c THEN NULL ELSE next[p]
  BY <1>1, CutAcyclic DEF Links
<1>5. a.nx \in Links /\ Acyclic(a.nx) /\ a.head \in Pointers
  BY <1>1, <1>4, AppendInFreeList
<1> HIDE DEF nx
<1>6. Reach(overall_task_list, nx) = T /\ Reach(free_pcb_head, nx) = F
  BY <1>1, <1>3, <1>4, ReachLocal
<1>7. Reach(a.head, a.nx) = F \cup {c} /\ \A p \in PCBs : p \notin F \cup {c} => a.nx[p] = next[p]
  <2>1. CASE free_pcb_head = NULL
    <3>1. a.head = c /\ a.nx = [nx EXCEPT ![c] = NULL]
      BY <2>1 DEF append_in_free_list
    <3>2. a.nx = nx
      BY <1>1, <1>4, <3>1 DEF Links
    <3>3. Reach(c, nx) = {c}
      BY <1>1, <1>4, ReachFrom, ReachNull
    <3>4. F = {}
      BY <1>1, <2>1, ReachNull
    <3> QED BY <1>4, <3>1, <3>2, <3>3, <3>4
  <2>2. CASE free_pcb_head # NULL
    <3>1. a.head = free_pcb_head /\ a.nx = Append(nx, free_pcb_head, c) /\ free_pcb_head \in PCBs
      BY <1>1, <2>2 DEF append_in_free_list, Pointers
    <3>2. Reach(a.head, a.nx) = F \cup {c}
      BY <1>1, <1>3, <1>4, <1>6, <3>1, AppendAdds
    <3>3. \A p \in PCBs : p \notin F \cup {c} => a.nx[p] = next[p]
      BY <1>4, <1>6, <3>1 DEF Append
    <3> QED BY <3>2, <3>3
  <2> QED BY <2>1, <2>2
<1>8. Reach(overall_task_list, a.nx) = T
  <2>1. \A p \in T : a.nx[p] = next[p]
    BY <1>2, <1>3, <1>7
  <2> QED BY <1>1, <1>5, <2>1, ReachLocal
<1>9. st \in States /\ Zombie(st) = Zombie(task_state) \ {c} /\ \A p \in PCBs : p # c => st[p] = task_state[p]
  BY <1>1 DEF States, Zombie, TASK_STATES
<1>10. a.nx[IDLE_TASK] = next[IDLE_TASK]
  BY <1>2, <1>3, <1>7, InitIsNotIdle
<1> HIDE DEF T, F, st, a
<1>11. Placed(st, a.nx, overall_task_list, a.head, RunningTask)
  BY <1>2, <1>3, <1>7, <1>8, <1>9, <1>10 DEF Placed
<1>12. IdleReady(st, RunningTask)
  BY <1>3, <1>9, InitIsNotIdle DEF Inv, ListInv, IdleReady
<1>13. InitPhase(st, a.nx, overall_task_list, RunningTask)
  BY <1>3, <1>9, InitIsNotIdle DEF Inv, ListInv, InitPhase
<1>14. Entering(st, a.nx, overall_task_list, a.head, RunningTask)
  BY <1>1, <1>5, <1>9, <1>11, <1>12, <1>13 DEF Entering
<1> QED BY <1>7, <1>14 DEF st, a, nx, F

-----------------------------------------------------------------------------
(* One step at a time. *)

\* The part of ListInv that schedule() establishes.
Places ==
  /\ Placed(task_state, next, overall_task_list, free_pcb_head, RunningTask)
  /\ task_state[RunningTask] # "ZOMBIE"
  /\ IdleReady(task_state, RunningTask)
  /\ InitPhase(task_state, next, overall_task_list, RunningTask)

\* Where a process in a system call, and where Idle, may continue.
ProcessConts == {"user", "wait2", "term"}
IdleConts == {"hlt", "woken"}

\* A step that enters schedule() with other states and nothing else changed.
LEMMA PlacesWithStates ==
  ASSUME Inv, NEW st \in States, IdleReady(st, RunningTask),
         \A p \in PCBs : p # RunningTask => (st[p] = "ZOMBIE" <=> task_state[p] = "ZOMBIE"),
         st[RunningTask] = "ZOMBIE" => RunningTask \notin {INIT_TASK, IDLE_TASK},
         st[INIT_TASK] = IF RunningTask = INIT_TASK THEN "SUSPENDED" ELSE task_state[INIT_TASK],
         schedule(st, next, overall_task_list), free_pcb_head' = free_pcb_head
  PROVE  Places' /\ Entering(st, next, overall_task_list, free_pcb_head, RunningTask)
<1>1. Entering(st, next, overall_task_list, free_pcb_head, RunningTask)
  BY EnterWithStates
<1> QED BY <1>1, SchedulePlaces DEF Places

\* The usual case: the running process gives up the processor in state s.
LEMMA PlacesWithRunning ==
  ASSUME Inv, RunningTask \notin {INIT_TASK, IDLE_TASK}, NEW s \in TASK_STATES,
         schedule([task_state EXCEPT ![RunningTask] = s], next, overall_task_list),
         free_pcb_head' = free_pcb_head
  PROVE  /\ Places'
         /\ Entering([task_state EXCEPT ![RunningTask] = s], next, overall_task_list, free_pcb_head, RunningTask)
<1> DEFINE st == [task_state EXCEPT ![RunningTask] = s]
<1>1. st \in States /\ \A p \in PCBs : p # RunningTask => st[p] = task_state[p]
  BY DEF Inv, TypeOK, States
<1>2. IdleReady(st, RunningTask) /\ st[INIT_TASK] = task_state[INIT_TASK]
  BY <1>1, InitIsNotIdle DEF Inv, ListInv, IdleReady
<1> HIDE DEF st
<1>3. schedule(st, next, overall_task_list)
  BY DEF st
<1>4. Places' /\ Entering(st, next, overall_task_list, free_pcb_head, RunningTask)
  BY <1>1, <1>2, <1>3, PlacesWithStates
<1> QED BY <1>4 DEF st

\* The running task changes nothing before it calls schedule().
LEMMA PlacesAsTheyAre ==
  ASSUME Inv, RunningTask # INIT_TASK, schedule(task_state, next, overall_task_list),
         free_pcb_head' = free_pcb_head
  PROVE  Places' /\ Entering(task_state, next, overall_task_list, free_pcb_head, RunningTask)
<1>1. task_state \in States /\ IdleReady(task_state, RunningTask) /\ task_state[RunningTask] # "ZOMBIE"
  BY DEF Inv, TypeOK, States, ListInv
<1> QED BY <1>1, PlacesWithStates

LEMMA PlacesAfterExit ==
  ASSUME Inv, RunningTask \notin {INIT_TASK, IDLE_TASK}, sys_exit(RunningTask)
  PROVE  /\ Places'
         /\ Entering(zombie_and_wake_parent(RunningTask), next, overall_task_list, free_pcb_head, RunningTask)
<1> DEFINE st == zombie_and_wake_parent(RunningTask)
<1>1. RunningTask \in PCBs /\ task_state \in States /\ parent_task[RunningTask] # INIT_TASK
  BY DEF Inv, TypeOK, States, ListInv, Continuations
<1>2. /\ st \in States
      /\ \A p \in PCBs : \/ st[p] = task_state[p]
                         \/ p = RunningTask /\ st[p] = "ZOMBIE"
                         \/ p = parent_task[RunningTask] /\ task_state[p] = "SUSPENDED" /\ st[p] = "READY"
  BY <1>1 DEF zombie_and_wake_parent, States, TASK_STATES
<1> HIDE DEF st
<1>3. task_state[IDLE_TASK] = "READY"
  BY InitIsNotIdle DEF Inv, ListInv, IdleReady
<1>4. IdleReady(st, RunningTask)
  BY <1>2, <1>3, InitIsNotIdle DEF IdleReady
<1>5. st[INIT_TASK] = task_state[INIT_TASK]
  BY <1>1, <1>2, InitIsNotIdle
<1>6. \A p \in PCBs : p # RunningTask => (st[p] = "ZOMBIE" <=> task_state[p] = "ZOMBIE")
  BY <1>2
<1>7. schedule(st, next, overall_task_list) /\ free_pcb_head' = free_pcb_head
  BY DEF sys_exit, st
<1>8. Places' /\ Entering(st, next, overall_task_list, free_pcb_head, RunningTask)
  BY <1>2, <1>4, <1>5, <1>6, <1>7, PlacesWithStates
<1> QED BY <1>8 DEF st

LEMMA PlacesAfterReap ==
  ASSUME Inv, RunningTask # INIT_TASK, ReapAndSchedule
  PROVE  /\ Places'
         /\ \E c \in ZombieChildren :
              LET a == append_in_free_list([next EXCEPT ![c] = NULL], c) IN
              /\ clear_pcb(c) /\ free_pcb_head' = a.head
              /\ schedule([task_state EXCEPT ![c] = "READY"], a.nx, overall_task_list)
              /\ Entering([task_state EXCEPT ![c] = "READY"], a.nx, overall_task_list, a.head, RunningTask)
              /\ Reach(a.head, a.nx) = Reach(free_pcb_head, next) \cup {c}
<1> DEFINE c == Min(ZombieChildren)
           a == append_in_free_list([next EXCEPT ![c] = NULL], c)
<1>1. c \in ZombieChildren
  BY MinPcb DEF ReapAndSchedule, ZombieChildren
<1>2. c \in Zombie(task_state)
  BY <1>1 DEF ZombieChildren, Zombie
<1>3. clear_pcb(c) /\ free_pcb_head' = a.head /\ schedule([task_state EXCEPT ![c] = "READY"], a.nx, overall_task_list)
  BY DEF ReapAndSchedule
<1> HIDE DEF c
<1>4. Entering([task_state EXCEPT ![c] = "READY"], a.nx, overall_task_list, a.head, RunningTask)
      /\ Reach(a.head, a.nx) = Reach(free_pcb_head, next) \cup {c}
  BY <1>2, EnterWithReaped
<1> HIDE DEF a
<1>5. Places'
  BY <1>3, <1>4, SchedulePlaces DEF Places
<1> QED BY <1>1, <1>3, <1>4, <1>5 DEF a

\* States in which somebody was made ready, and nothing else: no schedule().
LEMMA PlacesWithoutSchedule ==
  ASSUME Inv, RunningTask' = RunningTask, overall_task_list' = overall_task_list,
         free_pcb_head' = free_pcb_head, next' = next,
         \A p \in PCBs : \/ task_state'[p] = task_state[p]
                         \/ task_state[p] = "WAIT" /\ task_state'[p] = "READY"
  PROVE  Places'
<1>1. Zombie(task_state') = Zombie(task_state)
  BY DEF Zombie
<1>2. Placed(task_state', next, overall_task_list, free_pcb_head, RunningTask)
  BY <1>1 DEF Inv, ListInv, Placed
<1>3. RunningTask \in PCBs
  BY DEF Inv, TypeOK
<1>4. IdleReady(task_state', RunningTask)
  BY InitIsNotIdle DEF Inv, ListInv, IdleReady
<1>5. InitPhase(task_state', next, overall_task_list, RunningTask)
  BY InitIsNotIdle DEF Inv, ListInv, InitPhase
<1> QED BY <1>2, <1>3, <1>4, <1>5 DEF Places, Inv, ListInv

\* fork_process: the child leaves the free list and ends the task list.
LEMMA PlacesAfterFork ==
  ASSUME Inv, RunningTask \notin {INIT_TASK, IDLE_TASK}, Fork
  PROVE  /\ Places' /\ free_pcb_head \notin {INIT_TASK, IDLE_TASK}
         /\ free_pcb_head \in Reach(free_pcb_head, next)
         /\ Reach(free_pcb_head', next') \subseteq Reach(free_pcb_head, next)
         /\ task_state' = [task_state EXCEPT ![free_pcb_head] = "READY"]
<1> DEFINE T == Reach(overall_task_list, next)
           F == Reach(free_pcb_head, next)
           child == free_pcb_head
           st == [task_state EXCEPT ![child] = "READY"]
           nx == [next EXCEPT ![child] = NULL]
           a == add_to_task_list(st, nx, overall_task_list, child)
<1>1. /\ next \in Links /\ overall_task_list \in Pointers /\ child \in PCBs
      /\ RunningTask \in PCBs /\ Acyclic(next) /\ task_state[RunningTask] # "ZOMBIE"
      /\ task_state \in States
  BY DEF Inv, ListInv, TypeOK, Links, Pointers, LinksAcyclic, Acyclic, States, Fork
<1>2. /\ T \cap F = {} /\ Zombie(task_state) \cap (T \cup F) = {} /\ RunningTask \notin F
      /\ PCBs = T \cup F \cup Zombie(task_state) \cup {RunningTask}
      /\ RunningTask \in T => RunningTask = IDLE_TASK /\ next[IDLE_TASK] = NULL
      /\ {INIT_TASK, IDLE_TASK} \cap (F \cup Zombie(task_state)) = {}
  BY DEF Inv, ListInv, Placed
<1>3. /\ child \in F /\ child \notin T /\ child # RunningTask /\ child # INIT_TASK /\ child # IDLE_TASK
      /\ T \in SUBSET PCBs /\ F \in SUBSET PCBs
  BY <1>1, <1>2, ReachType, ReachFrom
<1>4. /\ task_state' = a.st /\ next' = a.nx /\ overall_task_list' = a.list
      /\ free_pcb_head' = next[child] /\ RunningTask' = RunningTask
  BY DEF Fork
<1>5. nx \in Links /\ Acyclic(nx) /\ \A p \in PCBs : nx[p] = IF p = child THEN NULL ELSE next[p]
  BY <1>1, CutAcyclic DEF Links
<1>6. st \in States /\ \A p \in PCBs : st[p] = IF p = child THEN "READY" ELSE task_state[p]
  BY <1>1 DEF States, TASK_STATES
<1>7. overall_task_list \in PCBs
  <2>1. IDLE_TASK \in T
    BY <1>2, InitIsNotIdle
  <2> QED BY <1>1, <2>1, ReachNull DEF Pointers
<1> HIDE DEF nx, st
<1>8. a.st = st /\ a.nx = Append(nx, overall_task_list, child) /\ a.list = overall_task_list
  <2>1. st[child] = "READY"
    BY <1>1, <1>6
  <2>2. [st EXCEPT ![child] = IF @ = "RUNNING" THEN "READY" ELSE @] = st
    BY <1>6, <2>1 DEF States
  <2> QED BY <1>7, <2>1, <2>2, FixedTasks DEF add_to_task_list
<1> HIDE DEF a
<1>9. Reach(overall_task_list, nx) = T
  BY <1>1, <1>3, <1>5, ReachLocal
<1>10. Reach(overall_task_list, next') = T \cup {child} /\ next' \in Links
  BY <1>1, <1>3, <1>4, <1>5, <1>7, <1>8, <1>9, AppendAdds, AppendLinks DEF Pointers
<1>11. \A p \in PCBs : p \notin T \cup {child} => next'[p] = next[p]
  BY <1>4, <1>5, <1>8, <1>9 DEF Append
<1>12. Reach(next[child], next) = F \ {child}
  BY <1>1, ReachFrom, NotBehindItself
<1>13. Reach(next[child], next') = F \ {child}
  <2>1. \A p \in Reach(next[child], next) : next'[p] = next[p]
    BY <1>2, <1>3, <1>11, <1>12
  <2>2. next[child] \in Pointers
    BY <1>1 DEF Links, Pointers
  <2> QED BY <1>1, <1>10, <1>12, <2>1, <2>2, ReachLocal
<1>14. Zombie(st) = Zombie(task_state)
  BY <1>2, <1>3, <1>6 DEF Zombie
<1> HIDE DEF T, F, child
<1>15. RunningTask \notin T /\ RunningTask # child
  BY <1>2, <1>3
<1>16. Placed(task_state', next', overall_task_list', free_pcb_head', RunningTask')
  <2>1. Reach(overall_task_list', next') = T \cup {child} /\ Reach(free_pcb_head', next') = F \ {child}
        /\ Zombie(task_state') = Zombie(task_state) /\ RunningTask' = RunningTask
    BY <1>4, <1>8, <1>10, <1>13, <1>14
  <2>2. child \notin Zombie(task_state)
    BY <1>2, <1>3
  <2> QED BY ONLY <2>1, <2>2, <1>2, <1>3, <1>15 DEF Placed
<1>17. IdleReady(task_state', RunningTask') /\ task_state'[RunningTask'] # "ZOMBIE"
  BY <1>1, <1>3, <1>4, <1>6, <1>8, <1>15, InitIsNotIdle DEF Inv, ListInv, IdleReady
<1>18. InitPhase(task_state', next', overall_task_list', RunningTask')
  BY <1>3, <1>4, <1>6, <1>8, InitIsNotIdle DEF Inv, ListInv, InitPhase
<1>19. Reach(free_pcb_head', next') \subseteq F /\ task_state' = st
  BY <1>4, <1>8, <1>13
<1> QED BY <1>3, <1>16, <1>17, <1>18, <1>19 DEF Places, child, F, st

\* clean_task_for_exec cuts the link of the running task, which is on no list.
LEMMA PlacesAfterExec ==
  ASSUME Inv, RunningTask \notin {INIT_TASK, IDLE_TASK}, Exec
  PROVE  Places' /\ Reach(free_pcb_head', next') = Reach(free_pcb_head, next)
<1> DEFINE T == Reach(overall_task_list, next)
           F == Reach(free_pcb_head, next)
<1>1. /\ next \in Links /\ overall_task_list \in Pointers /\ free_pcb_head \in Pointers
      /\ RunningTask \in PCBs
  BY DEF Inv, TypeOK, Links, Pointers
<1>2. /\ next' = [next EXCEPT ![RunningTask] = NULL]
      /\ UNCHANGED <<task_state, free_pcb_head, overall_task_list, RunningTask>>
  BY DEF Exec
<1>3. RunningTask \notin T /\ RunningTask \notin F
  BY DEF Inv, ListInv, Placed
<1>4. next' \in Links /\ \A p \in PCBs : p # RunningTask => next'[p] = next[p]
  BY <1>1, <1>2 DEF Links
<1>5. Reach(overall_task_list, next') = T /\ Reach(free_pcb_head, next') = F
  <2>1. T \subseteq PCBs /\ F \subseteq PCBs
    BY ReachType
  <2> QED BY <1>1, <1>3, <1>4, <2>1, ReachLocal
<1>6. next'[IDLE_TASK] = next[IDLE_TASK]
  BY <1>4, InitIsNotIdle
<1>7. Placed(task_state', next', overall_task_list', free_pcb_head', RunningTask')
  BY <1>2, <1>3, <1>5, <1>6 DEF Inv, ListInv, Placed
<1>8. InitPhase(task_state', next', overall_task_list', RunningTask')
  BY <1>2 DEF Inv, ListInv, InitPhase
<1> QED BY <1>2, <1>5, <1>7, <1>8 DEF Places, Inv, ListInv

\* The end of a slice: some sleepers are made ready.
LEMMA PlacesAfterTick ==
  ASSUME Inv, RunningTask # INIT_TASK, free_pcb_head' = free_pcb_head,
         schedule([t \in PCBs |-> IF due(t) THEN "READY" ELSE task_state[t]], next, overall_task_list)
  PROVE  /\ Places'
         /\ Entering([t \in PCBs |-> IF due(t) THEN "READY" ELSE task_state[t]],
                     next, overall_task_list, free_pcb_head, RunningTask)
<1> DEFINE st == [t \in PCBs |-> IF due(t) THEN "READY" ELSE task_state[t]]
<1>0. RunningTask \in PCBs /\ task_state \in States
  BY DEF Inv, TypeOK, States
<1>1. schedule(st, next, overall_task_list)
  OBVIOUS
<1>2. /\ st \in States
      /\ \A p \in PCBs : st[p] = task_state[p] \/ (task_state[p] = "SLEEP" /\ st[p] = "READY")
  BY <1>0 DEF States, TASK_STATES, due, Sleepers
<1> HIDE DEF st
<1>3. IdleReady(st, RunningTask)
  BY <1>2, InitIsNotIdle DEF Inv, ListInv, IdleReady
<1>4. st[INIT_TASK] = task_state[INIT_TASK]
  BY <1>2, InitIsNotIdle DEF Inv, ListInv, InitPhase
<1>5. st[RunningTask] # "ZOMBIE"
  BY <1>0, <1>2 DEF Inv, ListInv
<1>6. \A p \in PCBs : st[p] = "ZOMBIE" <=> task_state[p] = "ZOMBIE"
  BY <1>2
<1>7. Places' /\ Entering(st, next, overall_task_list, free_pcb_head, RunningTask)
  BY <1>1, <1>2, <1>3, <1>4, <1>5, <1>6, PlacesWithStates
<1> QED BY <1>7 DEF st

\* The running task continues elsewhere, in the same kind of place.
LEMMA ContinuationsKept ==
  ASSUME Inv, NEW c, cont' = [cont EXCEPT ![RunningTask] = c],
         \/ cont[RunningTask] \in ProcessConts /\ c \in ProcessConts
         \/ cont[RunningTask] \in IdleConts /\ c \in IdleConts,
         \A p \in PCBs : parent_task'[p] \in {parent_task[p], NULL}
  PROVE  Continuations'
<1>1. RunningTask \in PCBs /\ \A p \in PCBs : cont'[p] = IF p = RunningTask THEN c ELSE cont[p]
  BY DEF Inv, TypeOK
<1>2. /\ \A p \in PCBs : cont[p] \in {"hlt", "woken"} <=> p = IDLE_TASK
      /\ \A p \in PCBs : cont[p] = "init" <=> p = INIT_TASK
      /\ \A p \in PCBs : parent_task[p] # INIT_TASK
  BY DEF Inv, ListInv, Continuations
<1>3. \A p \in PCBs : parent_task'[p] # INIT_TASK
  BY <1>2, FixedTasks
<1>4. \A p \in PCBs : cont'[p] \in {"hlt", "woken"} <=> p = IDLE_TASK
  BY <1>1, <1>2 DEF ProcessConts, IdleConts
<1>5. \A p \in PCBs : cont'[p] = "init" <=> p = INIT_TASK
  BY <1>1, <1>2 DEF ProcessConts, IdleConts
<1> QED BY <1>3, <1>4, <1>5 DEF Continuations

LEMMA ContinuationsUnchanged ==
  ASSUME Inv, cont' = cont, parent_task' = parent_task
  PROVE  Continuations'
BY DEF Inv, ListInv, Continuations

\* A task that is in none of the kernel's own loops is a process.
LEMMA RunningIsProcess ==
  ASSUME Inv, cont[RunningTask] \in ProcessConts
  PROVE  RunningTask \notin {INIT_TASK, IDLE_TASK}
BY DEF Inv, ListInv, Continuations, TypeOK, ProcessConts

LEMMA ReapKeeps ==
  ASSUME Inv, cont[RunningTask] \in ProcessConts, ReapAndSchedule
  PROVE  Places' /\ Continuations'
<1>1. Places'
  BY RunningIsProcess, PlacesAfterReap
<1>2. \A p \in PCBs : parent_task'[p] \in {parent_task[p], NULL}
  BY DEF ReapAndSchedule, clear_pcb, Inv, TypeOK
<1>3. cont' = [cont EXCEPT ![RunningTask] = "user"]
  BY DEF ReapAndSchedule, ContinueAt
<1> QED BY <1>1, <1>2, <1>3, ContinuationsKept DEF ProcessConts

\* A process that gives up the processor in state s to continue at c.
LEMMA GivingUpKeeps ==
  ASSUME Inv, cont[RunningTask] \in ProcessConts, NEW s \in TASK_STATES, NEW c \in ProcessConts,
         schedule([task_state EXCEPT ![RunningTask] = s], next, overall_task_list),
         cont' = [cont EXCEPT ![RunningTask] = c],
         UNCHANGED <<parent_task, free_pcb_head>>
  PROVE  Places' /\ Continuations'
<1>1. Places'
  BY RunningIsProcess, PlacesWithRunning
<1> QED BY <1>1, ContinuationsKept

LEMMA ListStep == Inv /\ KillPids = {} /\ [Next]_vars => ListInv'
<1> SUFFICES ASSUME Inv, KillPids = {}, [Next]_vars PROVE Places' /\ Continuations'
  BY DEF Places, ListInv
<1>0. /\ RunningTask \in PCBs /\ task_state \in States /\ cont \in [PCBs -> Conts]
      /\ parent_task \in [PCBs -> PCBs \cup {NULL}]
  BY DEF Inv, TypeOK, States
<1>1. cont[RunningTask] = "user" => cont = [cont EXCEPT ![RunningTask] = "user"]
  BY <1>0
<1>2. InUser => cont[RunningTask] \in ProcessConts
  BY DEF InUser, ProcessConts
<1>3. {"SUSPENDED", "SLEEP", "WAIT"} \subseteq TASK_STATES /\ {"user", "wait2", "term"} = ProcessConts
  BY DEF TASK_STATES, ProcessConts
<1>4. CASE Fork
  <2>1. InUser /\ Places' /\ free_pcb_head \notin {INIT_TASK, IDLE_TASK} /\ RunningTask # INIT_TASK
    BY <1>2, <1>4, RunningIsProcess, PlacesAfterFork DEF Fork
  <2>2. /\ cont' = [cont EXCEPT ![free_pcb_head] = "user"]
        /\ parent_task' = [parent_task EXCEPT ![free_pcb_head] = RunningTask]
    BY <1>4 DEF Fork
  <2>3. Continuations'
    BY <1>0, <2>1, <2>2 DEF Inv, ListInv, Continuations
  <2> QED BY <2>1, <2>3
<1>5. CASE ForkNoPcb
  <2>1. Places'
    BY <1>2, <1>5, RunningIsProcess, PlacesAfterExit DEF ForkNoPcb
  <2> QED BY <1>5, <2>1, ContinuationsUnchanged DEF ForkNoPcb, sys_exit
<1>6. CASE Exec
  <2>1. Places'
    BY <1>2, <1>6, RunningIsProcess, PlacesAfterExec DEF Exec
  <2> QED BY <1>6, <2>1, ContinuationsUnchanged DEF Exec, family
<1>7. CASE Exit
  <2>1. cont[RunningTask] \in ProcessConts /\ sys_exit(RunningTask) /\ cont' = [cont EXCEPT ![RunningTask] = "user"]
    BY <1>7 DEF Exit, ContinueAt, ProcessConts
  <2>2. Places'
    BY <2>1, RunningIsProcess, PlacesAfterExit
  <2> QED BY <1>3, <2>1, <2>2, ContinuationsKept DEF sys_exit
<1>8. CASE Wait
  <2>1. CASE ReapAndSchedule
    BY <1>2, <1>8, <2>1, ReapKeeps DEF Wait
  <2>2. CASE Suspend /\ ContinueAt("wait2")
    BY <1>2, <1>3, <1>8, <2>2, GivingUpKeeps DEF Wait, Suspend, ContinueAt, family
  <2> QED BY <1>8, <2>1, <2>2 DEF Wait
\* A reader takes a line, or waits for one.
<1>9. ASSUME cont[RunningTask] \in ProcessConts, TakeLine PROVE Places' /\ Continuations'
  <2>1. Places'
    BY <1>9, PlacesWithoutSchedule DEF TakeLine, lists
  <2> QED BY <1>3, <1>9, <2>1, ContinuationsKept DEF TakeLine, ContinueAt, family
<1>10. ASSUME cont[RunningTask] \in ProcessConts, WaitForLine PROVE Places' /\ Continuations'
  BY <1>3, <1>10, GivingUpKeeps DEF WaitForLine, ContinueAt, family
<1>11. CASE ReadTerm
  BY <1>2, <1>9, <1>10, <1>11 DEF ReadTerm
<1>12. CASE Yield
  <2>1. Places'
    BY <1>2, <1>12, RunningIsProcess, PlacesAsTheyAre DEF Yield
  <2> QED BY <1>12, <2>1, ContinuationsUnchanged DEF Yield, family
<1>13. ASSUME NEW n \in SleepSecs, Sleep(n) PROVE Places' /\ Continuations'
  <2>1. Places'
    BY <1>2, <1>3, <1>13, RunningIsProcess, PlacesWithRunning DEF Sleep
  <2> QED BY <1>13, <2>1, ContinuationsUnchanged DEF Sleep, family
<1>14. CASE WaitResume
  <2>1. cont[RunningTask] \in ProcessConts
    BY <1>3, <1>14 DEF WaitResume
  <2>2. CASE ReapAndSchedule
    BY <2>1, <2>2, ReapKeeps
  <2>3. CASE /\ schedule(task_state, next, overall_task_list) /\ ContinueAt("user")
             /\ UNCHANGED <<family, free_pcb_head>>
    <3>1. Places'
      BY <2>1, <2>3, RunningIsProcess, PlacesAsTheyAre
    <3> QED BY <1>3, <2>1, <2>3, <3>1, ContinuationsKept DEF ContinueAt, family
  <2> QED BY <1>14, <2>2, <2>3 DEF WaitResume
\* Init, which is first scheduled with no child, is suspended.
<1>15. CASE InitRun
  <2> DEFINE st == [task_state EXCEPT ![RunningTask] = "SUSPENDED"]
  <2>1. RunningTask = INIT_TASK
    BY <1>0, <1>15 DEF InitRun, Inv, ListInv, Continuations
  <2>2. st \in States /\ \A p \in PCBs : st[p] = IF p = RunningTask THEN "SUSPENDED" ELSE task_state[p]
    BY <1>0, <1>3 DEF States
  <2>3. IdleReady(st, RunningTask)
    BY <2>1, <2>2, InitIsNotIdle DEF Inv, ListInv, IdleReady
  <2>4. schedule(st, next, overall_task_list) /\ free_pcb_head' = free_pcb_head
        /\ cont' = cont /\ parent_task' = parent_task
    BY <1>15 DEF InitRun, Suspend, family
  <2> HIDE DEF st
  <2>5. Places'
    BY <1>0, <2>1, <2>2, <2>3, <2>4, PlacesWithStates
  <2> QED BY <2>4, <2>5, ContinuationsUnchanged
<1>16. CASE TermResume
  <2>1. cont[RunningTask] \in ProcessConts
    BY <1>3, <1>16 DEF TermResume
  <2> QED BY <1>9, <1>10, <1>16, <2>1 DEF TermResume
<1>17. CASE IdleSchedule
  <2>1. cont[RunningTask] \in IdleConts /\ "hlt" \in IdleConts
    BY <1>17 DEF IdleSchedule, IdleConts
  <2>2. RunningTask # INIT_TASK
    BY <1>17, <1>0 DEF IdleSchedule, Inv, ListInv, Continuations
  <2>3. Places'
    BY <1>17, <2>2, PlacesAsTheyAre DEF IdleSchedule
  <2> QED BY <1>17, <2>1, <2>3, ContinuationsKept DEF IdleSchedule, ContinueAt, family
\* Interrupts do not come while Init runs.
<1>18. ASSUME Interrupt PROVE Continuations' /\ RunningTask # INIT_TASK /\ free_pcb_head' = free_pcb_head
  <2>1. RunningTask # INIT_TASK /\ UNCHANGED <<parent_task, free_pcb_head>>
    BY <1>0, <1>18 DEF Interrupt, family, Inv, ListInv, Continuations
  <2>2. cont' = [cont EXCEPT ![RunningTask] = IF cont[RunningTask] = "hlt" THEN "woken" ELSE cont[RunningTask]]
    BY <1>18 DEF Interrupt
  <2>3. CASE cont[RunningTask] = "user"
    BY <1>3, <2>1, <2>2, <2>3, ContinuationsKept
  <2>4. CASE cont[RunningTask] \in IdleConts
    <3>1. cont' = [cont EXCEPT ![RunningTask] = "woken"] /\ "woken" \in IdleConts
      BY <2>2, <2>4 DEF IdleConts
    <3> QED BY <2>1, <2>4, <3>1, ContinuationsKept
  <2> QED BY <1>18, <2>1, <2>3, <2>4 DEF Interrupt, IdleConts
<1>19. CASE Tick
  <2>0. Interrupt
    BY <1>19 DEF Tick
  <2>1. CASE timer_count # SLICE
    BY <1>18, <1>19, <2>0, <2>1, PlacesWithoutSchedule DEF Tick
  <2>2. CASE timer_count = SLICE
    <3>1. schedule([t \in PCBs |-> IF due(t) THEN "READY" ELSE task_state[t]], next, overall_task_list)
      BY <1>19, <2>2 DEF Tick
    <3>2. Places'
      BY <1>18, <2>0, <3>1, PlacesAfterTick
    <3> QED BY <1>18, <2>0, <3>2
  <2> QED BY <2>1, <2>2
<1>20. CASE KeyEnter
  <2>1. \A p \in PCBs : task_state'[p] = task_state[p] \/ (task_state[p] = "WAIT" /\ task_state'[p] = "READY")
    BY <1>20 DEF KeyEnter, wake_up_task, FirstOf
  <2> QED BY <1>18, <1>20, <2>1, PlacesWithoutSchedule DEF KeyEnter
<1>21. CASE KeyOther
  BY <1>18, <1>21, PlacesWithoutSchedule DEF KeyOther
<1>22. CASE UNCHANGED vars
  BY <1>22, PlacesWithoutSchedule, ContinuationsUnchanged DEF vars, lists, family
<1> QED
  BY <1>4, <1>5, <1>6, <1>7, <1>8, <1>11, <1>12, <1>13, <1>14, <1>15, <1>16, <1>17, <1>19,
     <1>20, <1>21, <1>22 DEF Next

\* Without kill every PCB is in exactly one place, whatever the processes do:
\* none is lost, and none is given to a new process while it is in use.
THEOREM EveryPcbInOnePlace == ASSUME KillPids = {} PROVE Spec => []ListsSound
<1>1. Init => Inv
  BY TypeInit, AcyclicInit, PlacedInit DEF Inv
<1>2. Inv /\ [Next]_vars => Inv'
  BY TypeStep, AcyclicStep, ListStep DEF Inv
<1>3. Inv => ListsSound
  BY DEF Inv, ListInv, Placed, ListsSound, OnTaskList, OnFreeList, Zombies, Zombie
<1> QED BY <1>1, <1>2, <1>3, PTL DEF Spec

-----------------------------------------------------------------------------
(***************************************************************************)
(* Lines and readers.  A task continues in schedule_terminal_task only     *)
(* while it is in use and its memory is mapped (otherwise the line it was  *)
(* woken for would be lost with it), and only there does a task wait.      *)
(***************************************************************************)
Readers(st, ct) == {t \in PCBs : ct[t] = "term" /\ st[t] \in {"READY", "RUNNING"}}

Lines(st, ct, mm, free, n) ==
  /\ \A p \in PCBs : st[p] = "WAIT" => ct[p] = "term"
  /\ \A p \in PCBs : ct[p] = "term" => /\ mm[p] = "mapped" /\ p \notin free
                                       /\ st[p] \in {"WAIT", "READY", "RUNNING"}
  /\ (\E p \in PCBs : st[p] = "WAIT") => n <= Cardinality(Readers(st, ct))

LineInv ==
  /\ Lines(task_state, cont, task_mm, Reach(free_pcb_head, next), terminal_line_count)
  /\ task_state[RunningTask] # "WAIT"

LEMMA ReadersFinite == \A st, ct : IsFiniteSet(Readers(st, ct))
<1>1. IsFiniteSet(PCBs)
  BY FS_Interval, NUM_PCBAssumption DEF PCBs
<1> QED BY <1>1, FS_Subset DEF Readers

\* Tasks that are not readers may do as they like, as long as they do not wait.
LEMMA LinesKept ==
  ASSUME NEW st, NEW ct, NEW mm, NEW free, NEW n, Lines(st, ct, mm, free, n),
         NEW st2, NEW ct2, NEW mm2, NEW free2,
         \A p \in PCBs : /\ ct2[p] = "term" <=> ct[p] = "term"
                         /\ ct[p] = "term" => /\ mm2[p] = mm[p] /\ (p \in free2 => p \in free)
                                              /\ \/ st2[p] = st[p]
                                                 \/ {st[p], st2[p]} \subseteq {"READY", "RUNNING"}
                         /\ st2[p] = "WAIT" => st[p] = "WAIT"
  PROVE  Lines(st2, ct2, mm2, free2, n)
<1>1. \A p \in PCBs : st2[p] = "WAIT" => ct2[p] = "term"
  BY DEF Lines
<1>2. \A p \in PCBs : ct2[p] = "term" => /\ mm2[p] = "mapped" /\ p \notin free2
                                         /\ st2[p] \in {"WAIT", "READY", "RUNNING"}
  BY DEF Lines
<1>3. Readers(st2, ct2) = Readers(st, ct)
  BY DEF Readers
<1>4. (\E p \in PCBs : st2[p] = "WAIT") => n <= Cardinality(Readers(st2, ct2))
  BY <1>3 DEF Lines
<1> QED BY <1>1, <1>2, <1>4 DEF Lines

\* schedule() exchanges READY and RUNNING, and nobody waits while it runs.
LEMMA LinesAfterSchedule ==
  ASSUME NEW st, NEW nx, NEW list, NEW fh, Entering(st, nx, list, fh, RunningTask),
         schedule(st, nx, list), free_pcb_head' = fh,
         NEW ct, NEW mm, NEW n, Lines(st, ct, mm, Reach(fh, nx), n)
  PROVE  /\ Lines(task_state', ct, mm, Reach(free_pcb_head', next'), n)
         /\ task_state'[RunningTask'] # "WAIT"
<1>1. st \in States /\ nx \in Links /\ list \in Pointers /\ RunningTask \in PCBs /\ IdleReady(st, RunningTask)
  BY DEF Entering
<1>2. /\ RunningTask' \in PCBs
      /\ RunningTask' = IDLE_TASK \/ st[RunningTask'] = "READY"
      /\ Rescheduled(st, task_state', RunningTask)
  BY <1>1, Schedule
<1>3. Reach(free_pcb_head', next') = Reach(fh, nx)
  BY SchedulePlaces
<1>4. \A p \in PCBs : \/ task_state'[p] = st[p]
                      \/ {st[p], task_state'[p]} \subseteq {"READY", "RUNNING"}
  BY <1>2 DEF Rescheduled
<1>5. Lines(task_state', ct, mm, Reach(free_pcb_head', next'), n)
  BY <1>3, <1>4, LinesKept
<1>6. task_state'[RunningTask'] # "WAIT"
  BY <1>1, <1>2, <1>4, InitIsNotIdle DEF IdleReady
<1> QED BY <1>5, <1>6

LEMMA LineInit == Init => LineInv
<1> SUFFICES ASSUME Init PROVE LineInv
  OBVIOUS
<1>1. \A p \in PCBs : task_state[p] # "WAIT" /\ cont[p] # "term"
  BY DEF Init
<1>2. RunningTask \in PCBs
  BY FixedTasks DEF Init
<1> QED BY <1>1, <1>2 DEF LineInv, Lines

\* A step that schedules with states st in which no reader has been touched
\* leaves the lines as they are.
LEMMA LinesWithStates ==
  ASSUME LineInv, NEW st, schedule(st, next, overall_task_list),
         Entering(st, next, overall_task_list, free_pcb_head, RunningTask),
         \A p \in PCBs : /\ cont[p] = "term" => st[p] = task_state[p]
                         /\ st[p] = "WAIT" => task_state[p] = "WAIT"
                         /\ cont'[p] = "term" <=> cont[p] = "term",
         UNCHANGED <<free_pcb_head, task_mm, terminal_line_count>>
  PROVE  LineInv'
<1>1. Lines(st, cont', task_mm, Reach(free_pcb_head, next), terminal_line_count)
  BY LinesKept DEF LineInv
<1> QED BY <1>1, LinesAfterSchedule DEF LineInv

\* The same for a process that is no reader and stays none.
LEMMA LinesWithRunning ==
  ASSUME Inv, LineInv, cont[RunningTask] \in {"user", "wait2"},
         NEW s \in TASK_STATES \ {"WAIT"}, NEW c, c # "term",
         schedule([task_state EXCEPT ![RunningTask] = s], next, overall_task_list),
         cont' = [cont EXCEPT ![RunningTask] = c],
         UNCHANGED <<free_pcb_head, task_mm, terminal_line_count>>
  PROVE  LineInv'
<1> DEFINE st == [task_state EXCEPT ![RunningTask] = s]
<1>1. RunningTask \notin {INIT_TASK, IDLE_TASK}
  BY RunningIsProcess DEF ProcessConts
<1>2. Entering(st, next, overall_task_list, free_pcb_head, RunningTask)
  BY <1>1, PlacesWithRunning
<1>3. \A p \in PCBs : /\ cont[p] = "term" => st[p] = task_state[p]
                      /\ st[p] = "WAIT" => task_state[p] = "WAIT"
                      /\ cont'[p] = "term" <=> cont[p] = "term"
  BY DEF Inv, TypeOK
<1>4. schedule(st, next, overall_task_list)
  OBVIOUS
<1> HIDE DEF st
<1> QED BY <1>2, <1>3, <1>4, LinesWithStates

LEMMA LinesAsTheyAre ==
  ASSUME Inv, LineInv, cont[RunningTask] \notin {"init", "term"}, NEW c, c # "term",
         schedule(task_state, next, overall_task_list),
         cont' = [cont EXCEPT ![RunningTask] = c],
         UNCHANGED <<free_pcb_head, task_mm, terminal_line_count>>
  PROVE  LineInv'
<1>1. RunningTask # INIT_TASK
  BY DEF Inv, ListInv, Continuations, TypeOK
<1>2. Entering(task_state, next, overall_task_list, free_pcb_head, RunningTask)
  BY <1>1, PlacesAsTheyAre
<1>3. \A p \in PCBs : cont'[p] = "term" <=> cont[p] = "term"
  BY DEF Inv, TypeOK
<1> QED BY <1>2, <1>3, LinesWithStates

\* sys_exit of a process that is no reader.
LEMMA LinesAfterExit ==
  ASSUME Inv, LineInv, cont[RunningTask] = "user", sys_exit(RunningTask),
         cont' = cont, UNCHANGED terminal_line_count
  PROVE  LineInv'
<1> DEFINE st == zombie_and_wake_parent(RunningTask)
<1>1. RunningTask \notin {INIT_TASK, IDLE_TASK}
  BY RunningIsProcess DEF ProcessConts
<1>2. Entering(st, next, overall_task_list, free_pcb_head, RunningTask)
  BY <1>1, PlacesAfterExit
<1>3. \A p \in PCBs : \/ st[p] = task_state[p]
                      \/ p = RunningTask /\ st[p] = "ZOMBIE"
                      \/ task_state[p] = "SUSPENDED" /\ st[p] = "READY"
  BY DEF zombie_and_wake_parent, Inv, TypeOK
<1>4. schedule(st, next, overall_task_list) /\ UNCHANGED <<free_pcb_head, task_mm>>
  BY DEF sys_exit
<1> HIDE DEF st
<1>5. \A p \in PCBs : /\ cont[p] = "term" => st[p] = task_state[p]
                      /\ st[p] = "WAIT" => task_state[p] = "WAIT"
  BY <1>3 DEF LineInv, Lines
<1> QED BY <1>2, <1>4, <1>5, LinesWithStates

\* A zombie is no reader, so clearing one loses no line.
LEMMA LinesAfterReap ==
  ASSUME Inv, LineInv, cont[RunningTask] \in {"user", "wait2"}, ReapAndSchedule
  PROVE  LineInv'
<1>1. RunningTask # INIT_TASK
  BY RunningIsProcess DEF ProcessConts
<1>2. PICK c \in ZombieChildren :
        LET a == append_in_free_list([next EXCEPT ![c] = NULL], c) IN
        /\ clear_pcb(c) /\ free_pcb_head' = a.head
        /\ schedule([task_state EXCEPT ![c] = "READY"], a.nx, overall_task_list)
        /\ Entering([task_state EXCEPT ![c] = "READY"], a.nx, overall_task_list, a.head, RunningTask)
        /\ Reach(a.head, a.nx) = Reach(free_pcb_head, next) \cup {c}
  BY <1>1, PlacesAfterReap
<1> DEFINE a == append_in_free_list([next EXCEPT ![c] = NULL], c)
           st == [task_state EXCEPT ![c] = "READY"]
<1>3. /\ clear_pcb(c) /\ free_pcb_head' = a.head
      /\ schedule(st, a.nx, overall_task_list)
      /\ Entering(st, a.nx, overall_task_list, a.head, RunningTask)
      /\ Reach(a.head, a.nx) = Reach(free_pcb_head, next) \cup {c}
  BY <1>2
<1> HIDE DEF a
<1>4. c \in PCBs /\ task_state[c] = "ZOMBIE" /\ cont[c] # "term"
  BY DEF ZombieChildren, LineInv, Lines
<1>5. \A p \in PCBs : cont'[p] = "term" <=> cont[p] = "term"
  BY DEF ReapAndSchedule, ContinueAt, Inv, TypeOK
<1>6. \A p \in PCBs : p # c => task_mm'[p] = task_mm[p] /\ st[p] = task_state[p]
  BY <1>3, <1>4 DEF clear_pcb, Inv, TypeOK
<1>7. st[c] = "READY"
  BY <1>4 DEF Inv, TypeOK
<1> HIDE DEF st
<1>8. Lines(st, cont', task_mm', Reach(a.head, a.nx), terminal_line_count)
  BY <1>3, <1>4, <1>5, <1>6, <1>7, LinesKept DEF LineInv
<1>9. terminal_line_count' = terminal_line_count
  BY DEF ReapAndSchedule
<1> QED BY <1>3, <1>8, <1>9, LinesAfterSchedule DEF LineInv

\* A line is taken: by a task that never waited, or by one woken for a line.
LEMMA LinesAfterTake ==
  ASSUME Inv, LineInv, cont[RunningTask] \in {"user", "term"}, TakeLine
  PROVE  LineInv'
<1> DEFINE A == Readers(task_state, cont)
           B == Readers(task_state, cont')
<1>1. /\ UNCHANGED <<task_state, next, free_pcb_head, task_mm, RunningTask>>
      /\ terminal_line_count' = terminal_line_count - 1
      /\ cont' = [cont EXCEPT ![RunningTask] = "user"]
      /\ RunningTask \in PCBs /\ terminal_line_count \in Nat /\ cont \in [PCBs -> Conts]
  BY MaxLinesAssumption DEF TakeLine, ContinueAt, lists, Inv, TypeOK
<1>2. \A p \in PCBs : cont'[p] = IF p = RunningTask THEN "user" ELSE cont[p]
  BY <1>1
<1>3. B = A \ {RunningTask}
  BY <1>2 DEF Readers
<1>4. RunningTask \notin A => B = A
  BY <1>3
<1>5. IsFiniteSet(A) /\ Cardinality(A) \in Nat
  BY ReadersFinite, Counting
<1> HIDE DEF A, B
<1>6. Cardinality(B) \in Nat /\ Cardinality(A) - 1 <= Cardinality(B)
  <2>1. CASE RunningTask \in A
    BY <1>3, <1>5, <2>1, Counting
  <2>2. CASE RunningTask \notin A
    BY <1>4, <1>5, <2>2
  <2> QED BY <2>1, <2>2
<1>7. \A p \in PCBs : task_state[p] = "WAIT" => p # RunningTask
  BY DEF LineInv
<1>8. (\E p \in PCBs : task_state[p] = "WAIT") => terminal_line_count - 1 <= Cardinality(B)
  <2>1. (\E p \in PCBs : task_state[p] = "WAIT") => terminal_line_count <= Cardinality(A)
    BY DEF LineInv, Lines, A
  <2> QED BY <1>1, <1>5, <1>6, <2>1
<1>9. Lines(task_state, cont', task_mm, Reach(free_pcb_head, next), terminal_line_count - 1)
  BY <1>2, <1>7, <1>8 DEF Lines, LineInv, B
<1> QED BY <1>1, <1>9 DEF LineInv

\* There is no line: the task waits, and nothing is owed to anybody.
LEMMA LinesAfterWait ==
  ASSUME Inv, LineInv, cont[RunningTask] \in {"user", "term"}, task_mm[RunningTask] = "mapped",
         WaitForLine
  PROVE  LineInv'
<1> DEFINE st == [task_state EXCEPT ![RunningTask] = "WAIT"]
<1>1. /\ RunningTask \notin {INIT_TASK, IDLE_TASK} /\ RunningTask \in PCBs
      /\ RunningTask \notin Reach(free_pcb_head, next)
  BY RunningIsProcess DEF ProcessConts, Inv, TypeOK, ListInv, Placed
<1>2. /\ schedule(st, next, overall_task_list) /\ cont' = [cont EXCEPT ![RunningTask] = "term"]
      /\ UNCHANGED <<free_pcb_head, task_mm, terminal_line_count>> /\ terminal_line_count = 0
  BY DEF WaitForLine, ContinueAt
<1>3. Entering(st, next, overall_task_list, free_pcb_head, RunningTask)
  BY <1>1, <1>2, PlacesWithRunning DEF TASK_STATES
<1>4. \A p \in PCBs : /\ cont'[p] = IF p = RunningTask THEN "term" ELSE cont[p]
                      /\ st[p] = IF p = RunningTask THEN "WAIT" ELSE task_state[p]
  BY <1>2 DEF Inv, TypeOK
<1> HIDE DEF st
<1>5. 0 <= Cardinality(Readers(st, cont'))
  BY ReadersFinite, Counting
<1>6. Lines(st, cont', task_mm, Reach(free_pcb_head, next), 0)
  BY <1>1, <1>4, <1>5 DEF LineInv, Lines
<1> QED BY <1>2, <1>3, <1>6, LinesAfterSchedule DEF LineInv

\* Enter wakes the first reader that waits, if one does.
LEMMA LinesAfterEnter ==
  ASSUME Inv, LineInv, KeyEnter
  PROVE  LineInv'
<1> DEFINE A == Readers(task_state, cont)
           B == Readers(task_state', cont')
           T == Reach(overall_task_list, next)
           waiting == {t \in T : task_state[t] = "WAIT"}
<1>1. /\ UNCHANGED <<next, free_pcb_head, task_mm, RunningTask>>
      /\ terminal_line_count' = terminal_line_count + 1
      /\ RunningTask \in PCBs /\ terminal_line_count \in Nat
      /\ next \in Links /\ overall_task_list \in Pointers /\ Acyclic(next)
  BY MaxLinesAssumption
  DEF KeyEnter, Interrupt, Inv, TypeOK, Links, Pointers, LinksAcyclic, Acyclic
<1>2. \A p \in PCBs : cont'[p] = "term" <=> cont[p] = "term"
  BY DEF KeyEnter, Interrupt, Inv, TypeOK
<1>3. \A p \in PCBs : task_state'[p] = IF p \in FirstOf(waiting, next) THEN "READY" ELSE task_state[p]
  BY DEF KeyEnter, wake_up_task
<1>4. \A p \in PCBs : \/ task_state'[p] = task_state[p]
                      \/ task_state[p] = "WAIT" /\ task_state'[p] = "READY"
  BY <1>3 DEF FirstOf
<1>5. IsFiniteSet(A) /\ IsFiniteSet(B) /\ Cardinality(A) \in Nat /\ Cardinality(B) \in Nat
  BY ReadersFinite, Counting
<1>6. ASSUME NEW w \in PCBs, task_state'[w] = "WAIT"
      PROVE  terminal_line_count + 1 <= Cardinality(B)
  <2>1. task_state[w] = "WAIT" /\ cont[w] = "term"
    BY <1>4, <1>6 DEF LineInv, Lines
  <2>2. w \in T
    <3>1. w \notin Reach(free_pcb_head, next) /\ w \notin Zombie(task_state) /\ w # RunningTask
      BY <2>1 DEF LineInv, Lines, Zombie
    <3> QED BY <3>1 DEF Inv, ListInv, Placed
  <2>3. PICK t : t \in FirstOf(waiting, next)
    <3>1. waiting \in SUBSET T /\ waiting # {}
      BY <2>1, <2>2
    <3> HIDE DEF waiting, T
    <3> QED BY <1>1, <3>1, FirstExists DEF T
  <2>4. t \in PCBs /\ task_state[t] = "WAIT" /\ cont[t] = "term" /\ task_state'[t] = "READY"
    <3>1. t \in PCBs /\ task_state[t] = "WAIT"
      BY <2>3, ReachType DEF FirstOf
    <3> QED BY <1>3, <2>3, <3>1 DEF LineInv, Lines
  <2>5. t \notin A /\ A \cup {t} \subseteq B
    BY <1>2, <1>4, <2>4 DEF Readers
  <2>6. terminal_line_count <= Cardinality(A)
    BY <2>1 DEF LineInv, Lines
  <2> HIDE DEF A, B
  <2>7. Cardinality(A \cup {t}) = Cardinality(A) + 1
    BY <1>5, <2>5, Counting
  <2>8. Cardinality(A \cup {t}) <= Cardinality(B)
    BY <1>5, <2>5, FS_Subset
  <2> QED BY <1>1, <1>5, <2>6, <2>7, <2>8
<1>7. Lines(task_state', cont', task_mm, Reach(free_pcb_head, next), terminal_line_count + 1)
  BY <1>2, <1>4, <1>6 DEF LineInv, Lines
<1>8. task_state'[RunningTask] # "WAIT"
  BY <1>1, <1>4 DEF LineInv
<1> QED BY <1>1, <1>7, <1>8 DEF LineInv

LEMMA LineStep == Inv /\ LineInv /\ KillPids = {} /\ [Next]_vars => LineInv'
<1> SUFFICES ASSUME Inv, LineInv, KillPids = {}, [Next]_vars PROVE LineInv'
  OBVIOUS
<1>0. RunningTask \in PCBs /\ cont \in [PCBs -> Conts] /\ task_state \in States
  BY DEF Inv, TypeOK, States
<1>1. cont[RunningTask] = "user" => cont = [cont EXCEPT ![RunningTask] = "user"]
  BY <1>0
<1>2. InUser => cont[RunningTask] = "user" /\ task_mm[RunningTask] = "mapped"
  BY DEF InUser
<1>3. {"SUSPENDED", "SLEEP"} \subseteq TASK_STATES \ {"WAIT"}
  BY DEF TASK_STATES
<1>4. CASE Fork
  <2>1. cont[RunningTask] = "user" /\ RunningTask \notin {INIT_TASK, IDLE_TASK}
    BY <1>2, <1>4, RunningIsProcess DEF Fork, ProcessConts
  <2>2. /\ free_pcb_head \in Reach(free_pcb_head, next)
        /\ Reach(free_pcb_head', next') \subseteq Reach(free_pcb_head, next)
        /\ task_state' = [task_state EXCEPT ![free_pcb_head] = "READY"]
    BY <1>4, <2>1, PlacesAfterFork
  <2>3. free_pcb_head \in PCBs /\ cont[free_pcb_head] # "term"
    BY <2>2, ReachType DEF LineInv, Lines
  <2>4. /\ cont' = [cont EXCEPT ![free_pcb_head] = "user"]
        /\ task_mm' = [task_mm EXCEPT ![free_pcb_head] = "mapped"]
        /\ UNCHANGED <<RunningTask, terminal_line_count>>
    BY <1>4 DEF Fork
  <2>5. \A p \in PCBs : /\ cont'[p] = "term" <=> cont[p] = "term"
                        /\ cont[p] = "term" => task_mm'[p] = task_mm[p] /\ task_state'[p] = task_state[p]
                        /\ task_state'[p] = "WAIT" => task_state[p] = "WAIT"
    BY <1>0, <2>2, <2>3, <2>4 DEF Inv, TypeOK, States
  <2>6. Lines(task_state', cont', task_mm', Reach(free_pcb_head', next'), terminal_line_count)
    <3>1. Lines(task_state, cont, task_mm, Reach(free_pcb_head, next), terminal_line_count)
      BY DEF LineInv
    <3>2. \A p \in PCBs : p \in Reach(free_pcb_head', next') => p \in Reach(free_pcb_head, next)
      BY <2>2
    <3> QED BY ONLY <2>5, <3>1, <3>2, LinesKept
  <2>7. task_state'[RunningTask] # "WAIT"
    BY <1>0, <2>5 DEF LineInv
  <2> QED BY <2>4, <2>6, <2>7 DEF LineInv
<1>5. CASE ForkNoPcb
  BY <1>2, <1>5, LinesAfterExit DEF ForkNoPcb
<1>6. CASE Exec
  <2>1. RunningTask \notin {INIT_TASK, IDLE_TASK}
    BY <1>2, <1>6, RunningIsProcess DEF Exec, ProcessConts
  <2>2. Reach(free_pcb_head', next') = Reach(free_pcb_head, next)
    BY <1>6, <2>1, PlacesAfterExec
  <2> QED BY <1>6, <2>2 DEF Exec, LineInv
\* A woken reader does not fault: its memory is mapped.
<1>7. CASE Exit
  <2>1. cont[RunningTask] = "user"
    BY <1>0, <1>7 DEF Exit, LineInv, Lines
  <2> QED BY <1>1, <1>7, <2>1, LinesAfterExit DEF Exit, ContinueAt
<1>8. CASE Wait
  <2>1. CASE ReapAndSchedule
    BY <1>2, <1>8, <2>1, LinesAfterReap DEF Wait
  <2>2. CASE Suspend /\ ContinueAt("wait2")
    BY <1>2, <1>3, <1>8, <2>2, LinesWithRunning DEF Wait, Suspend, ContinueAt
  <2> QED BY <1>8, <2>1, <2>2 DEF Wait
<1>9. CASE ReadTerm
  BY <1>2, <1>9, LinesAfterTake, LinesAfterWait DEF ReadTerm
<1>10. CASE Yield
  <2>1. cont[RunningTask] = "user"
    BY <1>2, <1>10 DEF Yield
  <2> QED BY <1>1, <1>10, <2>1, LinesAsTheyAre DEF Yield
<1>11. ASSUME NEW n \in SleepSecs, Sleep(n) PROVE LineInv'
  <2>1. cont[RunningTask] = "user"
    BY <1>2, <1>11 DEF Sleep
  <2> QED BY <1>1, <1>3, <1>11, <2>1, LinesWithRunning DEF Sleep
<1>12. CASE WaitResume
  <2>1. CASE ReapAndSchedule
    BY <1>12, <2>1, LinesAfterReap DEF WaitResume
  <2>2. CASE ~ReapAndSchedule
    BY <1>12, <2>2, LinesAsTheyAre DEF WaitResume, ContinueAt
  <2> QED BY <2>1, <2>2
<1>13. CASE InitRun
  <2> DEFINE st == [task_state EXCEPT ![RunningTask] = "SUSPENDED"]
  <2>1. RunningTask = INIT_TASK /\ cont[RunningTask] # "term"
    BY <1>0, <1>13 DEF InitRun, Inv, ListInv, Continuations
  <2>2. st \in States /\ \A p \in PCBs : st[p] = IF p = RunningTask THEN "SUSPENDED" ELSE task_state[p]
    BY <1>0, <1>3 DEF States
  <2>3. IdleReady(st, RunningTask)
    BY <2>1, <2>2, InitIsNotIdle DEF Inv, ListInv, IdleReady
  <2>4. /\ schedule(st, next, overall_task_list) /\ cont' = cont
        /\ UNCHANGED <<free_pcb_head, task_mm, terminal_line_count>>
    BY <1>13 DEF InitRun, Suspend
  <2> HIDE DEF st
  <2>5. Entering(st, next, overall_task_list, free_pcb_head, RunningTask)
    BY <1>0, <2>1, <2>2, <2>3, EnterWithStates
  <2> QED BY <2>1, <2>2, <2>4, <2>5, LinesWithStates
<1>14. CASE TermResume
  <2>1. cont[RunningTask] = "term" /\ task_mm[RunningTask] = "mapped"
    BY <1>0, <1>14 DEF TermResume, LineInv, Lines
  <2> QED BY <1>14, <2>1, LinesAfterTake, LinesAfterWait DEF TermResume
<1>15. CASE IdleSchedule
  BY <1>15, LinesAsTheyAre DEF IdleSchedule, ContinueAt
<1>16. ASSUME Interrupt
       PROVE  /\ \A p \in PCBs : cont'[p] = "term" <=> cont[p] = "term"
              /\ RunningTask # INIT_TASK /\ UNCHANGED <<free_pcb_head, task_mm>>
  BY <1>0, <1>16 DEF Interrupt, Inv, ListInv, Continuations
<1>17. ASSUME Interrupt, UNCHANGED <<task_state, next, RunningTask, terminal_line_count>> PROVE LineInv'
  <2>1. Lines(task_state, cont', task_mm, Reach(free_pcb_head, next), terminal_line_count)
    BY <1>16, <1>17, LinesKept DEF LineInv
  <2> QED BY <1>16, <1>17, <2>1 DEF LineInv
<1>18. CASE Tick
  <2>0. Interrupt
    BY <1>18 DEF Tick
  <2>1. CASE timer_count # SLICE
    BY <1>17, <1>18, <2>0, <2>1 DEF Tick
  <2>2. CASE timer_count = SLICE
    <3> DEFINE st == [t \in PCBs |-> IF due(t) THEN "READY" ELSE task_state[t]]
    <3>1. schedule(st, next, overall_task_list) /\ UNCHANGED terminal_line_count
      BY <1>18, <2>2 DEF Tick
    <3>2. Entering(st, next, overall_task_list, free_pcb_head, RunningTask)
      BY <1>16, <2>0, <3>1, PlacesAfterTick
    <3>3. \A p \in PCBs : st[p] = task_state[p] \/ (task_state[p] = "SLEEP" /\ st[p] = "READY")
      BY DEF due, Sleepers
    <3> HIDE DEF st
    <3>4. \A p \in PCBs : /\ cont[p] = "term" => st[p] = task_state[p]
                          /\ st[p] = "WAIT" => task_state[p] = "WAIT"
      BY <3>3 DEF LineInv, Lines
    <3> QED BY <1>16, <2>0, <3>1, <3>2, <3>4, LinesWithStates
  <2> QED BY <2>1, <2>2
<1>19. CASE KeyEnter
  BY <1>19, LinesAfterEnter
<1>20. CASE KeyOther
  BY <1>17, <1>20 DEF KeyOther
<1>21. CASE UNCHANGED vars
  BY <1>21 DEF vars, lists, family, LineInv
<1> QED
  BY <1>4, <1>5, <1>6, <1>7, <1>8, <1>9, <1>10, <1>11, <1>12, <1>13, <1>14, <1>15, <1>18,
     <1>19, <1>20, <1>21 DEF Next

\* Without kill no typed line is lost between terminal_handler and the readers:
\* while a task waits for input, a reader has been woken for every unread line.
THEOREM LinesReachReaders == ASSUME KillPids = {} PROVE Spec => []NoLostLine
<1>1. Init => Inv /\ LineInv
  BY TypeInit, AcyclicInit, PlacedInit, LineInit DEF Inv
<1>2. Inv /\ LineInv /\ [Next]_vars => (Inv /\ LineInv)'
  <2>1. Inv /\ [Next]_vars => Inv'
    BY TypeStep, AcyclicStep, ListStep DEF Inv
  <2> QED BY <2>1, LineStep
<1>3. LineInv => NoLostLine
  BY DEF LineInv, Lines, NoLostLine, Readers
<1> QED BY <1>1, <1>2, <1>3, PTL DEF Spec

=============================================================================

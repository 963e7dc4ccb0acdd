-------------------------------- MODULE Shell --------------------------------
(***************************************************************************)
(* The shell: one process reads lines from the terminal or from a script,  *)
(* splits them into words and starts a child for every command.  Sources:  *)
(* bin/sbush/sbush.c, libc/strings.c (split_and_count), libc/execvp.c,     *)
(* libc/waitpid.c, and of the kernel sys_exit and wait_for_child.          *)
(*                                                                         *)
(* Several shells can exist at once: a script is run by a shell of its own *)
(* and a child whose exec fails goes on in the loop of its parent.  Every  *)
(* step here is a stretch of user code up to its next system call, and the *)
(* steps of processes interleave freely; Tasks has the kernel's side of    *)
(* fork, exit and wait.  Of the commands built into the shell only exit    *)
(* matters here; cd, pwd, export and getenv leave the loop as it is.       *)
(***************************************************************************)
EXTENDS Integers, FiniteSets, SequencesExt

CONSTANTS
  Pids,       \* PCBs for shells and commands
  Programs,   \* the words that name a binary in the archive
  Scripts,    \* the contents that the script file may have: sequences of lines
  TypedLines, \* the lines that the user types: sequences of characters
  MaxTyped,   \* bound: lines typed
  MaxLine     \* bound: length of the lines that WordsAreWords is about

\* The character that names the script as a command, and the word for exit.
RunScript == <<"s">>
ExitWord == <<"x">>
Builtins == {ExitWord, <<"c">>}

\* args[0] when the line is a lone ampersand.
NULL == <<"NULL">>

ASSUME PidsAssumption == Pids \subseteq Nat \ {0} /\ Pids # {} /\ IsFiniteSet(Pids)
ASSUME ProgramsAssumption == Programs \cap (Builtins \cup {RunScript, <<>>}) = {}
ASSUME LinesAssumption ==
  LET IsSequence(s) == Len(s) \in Nat /\ DOMAIN s = 1 .. Len(s)
  IN  /\ \A line \in TypedLines : IsSequence(line)
      /\ \A s \in Scripts : IsSequence(s) /\ \A i \in DOMAIN s : IsSequence(s[i])
ASSUME BoundsAssumption == MaxTyped \in Nat /\ MaxLine \in Nat

VARIABLES
  kind,     \* "none", "shell", "program" or "zombie"
  mode,     \* a shell's input: "terminal" (argc is 1) or "script" (argc is 2)
  pc,       \* "read", "run", "child" (forked, before its exec) or "wait"
  ptr1,     \* lines of the script that a shell has read
  words,    \* the words of the line in hand
  parent,   \* ppid: a PCB, or 0 for the init task
  parent_task, \* the PCB that forked the process; 0 if none
  scan,     \* in waitpid: before its "first" scan, "asleep", or before the "second"
  waited,   \* the child that the argument of waitpid names
  jobs,     \* background commands that a shell has started
  script,   \* content of the script file
  typed,    \* lines typed so far
  runs,     \* history: how often a shell was started with the script
  started,  \* history: how often each line of the script was started
  haunted   \* history: PCBs that a process of an earlier owner pointed to at fork

own == <<kind, mode, pc, ptr1, words, waited, jobs>>
family == <<parent, parent_task, scan, haunted>>
vars == <<own, family, script, typed, runs, started>>

Free == {p \in Pids : kind[p] = "none"}
Children(p) == {c \in Pids : parent[c] = p /\ kind[c] # "none"}

-----------------------------------------------------------------------------
(* split_and_count, one character at a time. *)

\* Mutant: a delimiter ends a word even when no word has begun.
split_step_blank(s, ch, delimiter) ==
  LET cut == ch = delimiter IN
  [words  |-> IF cut THEN Append(s.words, s.cur) ELSE s.words,
   cur    |-> IF cut THEN <<>> ELSE Append(s.cur, ch),
   found  |-> FALSE, letter |-> TRUE]

\* letter_flag skips what stands before the first word; found_flag remembers a
\* delimiter until a character of the next word comes.
split_step(s, ch, delimiter) ==
  LET letter == s.letter \/ ch # " "
      found == s.found \/ (ch = delimiter /\ letter)
      cut == found /\ ch # delimiter
  IN  [words  |-> IF cut THEN Append(s.words, s.cur) ELSE s.words,
       cur    |-> IF (cut \/ ~found) /\ letter
                  THEN Append(IF cut THEN <<>> ELSE s.cur, ch) ELSE s.cur,
       found  |-> found /\ ~cut,
       letter |-> letter]

split_and_count(line, delimiter) ==
  LET s == FoldLeft(LAMBDA acc, ch : split_step(acc, ch, delimiter),
                    [words |-> <<>>, cur |-> <<>>, found |-> FALSE, letter |-> FALSE], line)
  IN  Append(s.words, s.cur)

\* run_command: the last word begins with '&'; then it is no argument.
Background(ws) == Last(ws) # <<>> /\ Last(ws)[1] = "&"
\* args[0] of execvp; a lone '&' leaves NULL there.
Command(ws) == IF Background(ws) /\ Len(ws) = 1 THEN NULL ELSE ws[1]

-----------------------------------------------------------------------------
(* A shell reads a line. *)

\* gets: a line from the terminal; whichever shell asks first gets it.
ReadTyped(p, line) ==
  /\ kind[p] = "shell" /\ mode[p] = "terminal" /\ pc[p] = "read"
  /\ typed < MaxTyped
  /\ typed' = typed + 1
  /\ words' = [words EXCEPT ![p] = split_and_count(line, " ")]
  /\ pc' = [pc EXCEPT ![p] = IF line = <<>> THEN "read" ELSE "run"]
  /\ UNCHANGED <<family, kind, mode, ptr1, waited, jobs, script, runs, started>>

\* The next line of cmd_buff; t counts lines, and the first one ("#!...") is
\* read and passed over.  An empty line is passed over too.
ReadScript(p) ==
  /\ kind[p] = "shell" /\ mode[p] = "script" /\ pc[p] = "read"
  /\ ptr1[p] < Len(script)
  /\ LET line == script[ptr1[p] + 1] IN
     /\ ptr1' = [ptr1 EXCEPT ![p] = @ + 1]
     /\ words' = [words EXCEPT ![p] = split_and_count(line, " ")]
     /\ pc' = [pc EXCEPT ![p] = IF ptr1[p] = 0 \/ line = <<>> THEN "read" ELSE "run"]
  /\ UNCHANGED <<family, kind, mode, waited, jobs, script, typed, runs, started>>

\* The task states that sys_exit may find a child in.  A shell is READY unless
\* it sleeps in wait or at the terminal; a program may be in any state.
NotReady(c) == kind[c] = "zombie" \/ (kind[c] = "shell" /\ pc[c] = "wait" /\ scan[c] = "asleep")
MayBlock(c) == kind[c] = "program" \/ (kind[c] = "shell" /\ pc[c] = "read" /\ mode[c] = "terminal")

\* Mutant: the parent is not woken.
woken_not(p) == scan

\* The PCB in parent_task is made READY if it is SUSPENDED.
woken(p) ==
  [q \in Pids |-> IF q = parent_task[p] /\ kind[q] = "shell" /\ pc[q] = "wait" /\ scan[q] = "asleep"
                  THEN "second" ELSE scan[q]]

\* sys_exit: the parent is woken and the children that are not READY become
\* those of the init task.  The others keep the pid of the dead process, and
\* nobody's parent_task changes.
exit(p) ==
  /\ kind' = [kind EXCEPT ![p] = "zombie"]
  /\ scan' = woken(p)
  /\ \E blocked \in SUBSET {c \in Children(p) : MayBlock(c)} :
       parent' = [c \in Pids |-> IF parent[c] = p /\ (NotReady(c) \/ c \in blocked) THEN 0 ELSE parent[c]]
  /\ UNCHANGED <<parent_task, haunted>>

\* Mutant: the zero byte is copied and not looked at.
AtEnd_missed(p) == ptr1[p] > Len(script)

AtEnd(p) == ptr1[p] = Len(script)

\* The zero byte behind the script: main returns.
EndOfScript(p) ==
  /\ kind[p] = "shell" /\ mode[p] = "script" /\ pc[p] = "read"
  /\ AtEnd(p)
  /\ exit(p)
  /\ UNCHANGED <<mode, pc, ptr1, words, waited, jobs, script, typed, runs, started>>

-----------------------------------------------------------------------------
(* command_handler. *)

Builtin(p) ==
  /\ kind[p] = "shell" /\ pc[p] = "run"
  /\ \/ /\ words[p][1] = ExitWord
        /\ exit(p)
        /\ UNCHANGED pc
     \/ /\ words[p][1] \in Builtins \ {ExitWord}
        /\ pc' = [pc EXCEPT ![p] = "read"]
        /\ UNCHANGED <<kind, family>>
  /\ UNCHANGED <<mode, ptr1, words, waited, jobs, script, typed, runs, started>>

\* Mutant: the shell waits for a background command too.
after_fork_wait(ws) == "wait"

\* Where the parent goes after fork.
after_fork(ws) == IF Background(ws) THEN "read" ELSE "wait"

\* run_command: fork.  The child has a copy of everything.
run_command(p, c) ==
  /\ kind[p] = "shell" /\ pc[p] = "run"
  /\ words[p][1] \notin Builtins
  /\ Free # {} /\ c = Min(Free)
  /\ kind' = [kind EXCEPT ![c] = "shell"]
  /\ mode' = [mode EXCEPT ![c] = mode[p]]
  /\ ptr1' = [ptr1 EXCEPT ![c] = ptr1[p]]
  /\ words' = [words EXCEPT ![c] = words[p]]
  /\ parent' = [parent EXCEPT ![c] = p]
  /\ parent_task' = [parent_task EXCEPT ![c] = p]
  /\ scan' = [scan EXCEPT ![p] = "first", ![c] = "first"]
  /\ haunted' = IF \E o \in Pids : parent_task[o] = c THEN haunted \cup {c} ELSE haunted \ {c}
  /\ pc' = [pc EXCEPT ![c] = "child", ![p] = after_fork(words[p])]
  /\ waited' = [waited EXCEPT ![p] = IF Background(words[p]) THEN 0 ELSE c, ![c] = 0]
  /\ jobs' = [jobs EXCEPT ![p] = IF Background(words[p]) THEN @ + 1 ELSE @, ![c] = 0]
  /\ started' = IF mode[p] = "script" THEN [started EXCEPT ![ptr1[p]] = @ + 1] ELSE started
  /\ UNCHANGED <<script, typed, runs>>

\* Mutant: a child whose exec failed begins with the script again.
ptr_after_failed_exec_zero(p) == 0

\* Mutant: it passes over the next line.
ptr_after_failed_exec_next(p) == ptr1[p] + 1

\* A child whose exec failed keeps its place in the input.
ptr_after_failed_exec(p) == ptr1[p]

\* execvp in the child: a binary, the shell with the script as its argument, a
\* word that names nothing (then -1 comes back and the child goes on in the
\* loop of the shell), or NULL, which the kernel faults on.
execvp(p) ==
  LET cmd == Command(words[p]) IN
  /\ kind[p] = "shell" /\ pc[p] = "child"
  /\ \/ /\ cmd \in Programs
        /\ kind' = [kind EXCEPT ![p] = "program"]
        /\ UNCHANGED <<family, mode, pc, ptr1, runs>>
     \/ /\ cmd = RunScript
        /\ runs' = runs + 1
        /\ mode' = [mode EXCEPT ![p] = "script"]
        /\ ptr1' = [ptr1 EXCEPT ![p] = 0]
        /\ pc' = [pc EXCEPT ![p] = "read"]
        /\ UNCHANGED <<family, kind>>
     \/ /\ cmd \notin Programs \cup {RunScript, NULL}
        /\ ptr1' = [ptr1 EXCEPT ![p] = ptr_after_failed_exec(p)]
        /\ pc' = [pc EXCEPT ![p] = "read"]
        /\ UNCHANGED <<family, kind, mode, runs>>
     \/ /\ cmd = NULL
        /\ exit(p)
        /\ UNCHANGED <<mode, pc, ptr1, runs>>
  /\ UNCHANGED <<words, waited, jobs, script, typed, started>>

ProgramEnds(p) ==
  /\ kind[p] = "program"
  /\ exit(p)
  /\ UNCHANGED <<mode, pc, ptr1, words, waited, jobs, script, typed, runs, started>>

\* waitpid hands its argument to the kernel, which does not look at it: the
\* zombies that a scan of wait_for_child finds.
Collectable(p) == {c \in Children(p) : kind[c] = "zombie"}

\* What is left of a process that was collected: nothing.
Collect(c) ==
  /\ kind' = [kind EXCEPT ![c] = "none"]
  /\ parent' = [parent EXCEPT ![c] = 0]
  /\ parent_task' = [parent_task EXCEPT ![c] = 0]
  /\ jobs' = [jobs EXCEPT ![c] = 0]
  /\ ptr1' = [ptr1 EXCEPT ![c] = 0]
  /\ mode' = [mode EXCEPT ![c] = "terminal"]
  /\ UNCHANGED <<haunted, script, typed, runs, started>>

\* One scan, sleep, and a second scan, after which wait returns with a child or
\* without one.
waitpid(p) ==
  /\ kind[p] = "shell" /\ pc[p] = "wait"
  /\ \/ \E c \in Collectable(p) :
          /\ scan[p] # "asleep"
          /\ Collect(c)
          /\ scan' = [scan EXCEPT ![p] = "first", ![c] = "first"]
          /\ waited' = [waited EXCEPT ![p] = 0, ![c] = 0]
          /\ words' = [words EXCEPT ![p] = <<>>, ![c] = <<>>]
          /\ pc' = [pc EXCEPT ![p] = "read", ![c] = "read"]
     \/ /\ scan[p] = "first" /\ Collectable(p) = {}
        /\ scan' = [scan EXCEPT ![p] = "asleep"]
        /\ UNCHANGED <<own, parent, parent_task, haunted, script, typed, runs, started>>
     \/ /\ scan[p] = "second" /\ Collectable(p) = {}
        /\ scan' = [scan EXCEPT ![p] = "first"]
        /\ waited' = [waited EXCEPT ![p] = 0]
        /\ words' = [words EXCEPT ![p] = <<>>]
        /\ pc' = [pc EXCEPT ![p] = "read"]
        /\ UNCHANGED <<kind, mode, ptr1, jobs, parent, parent_task, haunted, script, typed, runs, started>>

\* The init task collects a process whose parent is gone.
InitCollects(c) ==
  /\ kind[c] = "zombie" /\ parent[c] = 0
  /\ Collect(c)
  /\ scan' = [scan EXCEPT ![c] = "first"]
  /\ waited' = [waited EXCEPT ![c] = 0]
  /\ words' = [words EXCEPT ![c] = <<>>]
  /\ pc' = [pc EXCEPT ![c] = "read"]

-----------------------------------------------------------------------------
Init ==
  /\ kind = [p \in Pids |-> IF p = Min(Pids) THEN "shell" ELSE "none"]
  /\ mode = [p \in Pids |-> "terminal"]
  /\ pc = [p \in Pids |-> "read"]
  /\ ptr1 = [p \in Pids |-> 0]
  /\ words = [p \in Pids |-> <<>>]
  /\ parent = [p \in Pids |-> 0]
  /\ parent_task = [p \in Pids |-> 0]
  /\ scan = [p \in Pids |-> "first"]
  /\ haunted = {}
  /\ waited = [p \in Pids |-> 0]
  /\ jobs = [p \in Pids |-> 0]
  /\ script \in Scripts
  /\ typed = 0
  /\ runs = 0
  /\ started = [i \in DOMAIN script |-> 0]

\* What a process does without a line from the user.
Step(p) ==
  \/ ReadScript(p)
  \/ EndOfScript(p)
  \/ Builtin(p)
  \/ \E c \in Pids : run_command(p, c)
  \/ execvp(p)
  \/ ProgramEnds(p)
  \/ waitpid(p)

Next ==
  \/ \E p \in Pids, line \in TypedLines : ReadTyped(p, line)
  \/ \E p \in Pids : Step(p) \/ InitCollects(p)

Spec == Init /\ [][Next]_vars

\* Every process goes on: the scheduler runs each ready task again (ReadyRuns
\* of Tasks), and the programs are assumed to end.  Nothing is assumed of the
\* init task, which may sleep beside a zombie (WaitingParentIsWoken of Tasks).
FairSpec == Spec /\ \A p \in Pids : WF_vars(Step(p))

-----------------------------------------------------------------------------
(* Properties. *)

\* Type invariant.
TypeOK ==
  /\ kind \in [Pids -> {"none", "shell", "program", "zombie"}]
  /\ mode \in [Pids -> {"terminal", "script"}]
  /\ pc \in [Pids -> {"read", "run", "child", "wait"}]
  /\ ptr1 \in [Pids -> 0 .. Len(script)]
  /\ parent \in [Pids -> Pids \cup {0}]
  /\ parent_task \in [Pids -> Pids \cup {0}]
  /\ scan \in [Pids -> {"first", "asleep", "second"}]
  /\ haunted \subseteq Pids
  /\ waited \in [Pids -> Pids \cup {0}]
  /\ jobs \in [Pids -> Nat]
  /\ typed \in 0 .. MaxTyped
  /\ \A p \in Pids : pc[p] \in {"run", "child"} => words[p] # <<>>

\* The maximal runs of characters other than the blank, in order: what the
\* words of a line are.
WordsOf(line) ==
  LET Blank(i) == i \notin DOMAIN line \/ line[i] = " "
      begins == {i \in DOMAIN line : ~Blank(i) /\ Blank(i - 1)}
      End(b) == Min({j \in b .. Len(line) : Blank(j + 1)})
  IN  [k \in 1 .. Cardinality(begins) |->
         LET b == CHOOSE b \in begins : Cardinality({a \in begins : a < b}) = k - 1
         IN  SubSeq(line, b, End(b))]

\* split_and_count finds exactly the words of every line of at most MaxLine
\* characters, wherever the blanks stand; a line of blanks alone counts as one
\* empty word, which is then run as a command.
WordsAreWords ==
  typed = 0 => \A line \in SeqOf({"a", "b", " "}, MaxLine) :
    split_and_count(line, " ") =
      IF WordsOf(line) = <<>> THEN << <<>> >> ELSE WordsOf(line)

\* Lines of the script before line i whose command does not exist.
UnknownBefore(i) ==
  {j \in 2 .. i - 1 :
     /\ script[j] # <<>>
     /\ Command(split_and_count(script[j], " ")) \notin Programs \cup Builtins \cup {RunScript, NULL}}

\* A child whose exec fails goes on with the script behind the line that failed
\* while its parent does so too (sbush.c: run_command returns the -1 of execvp
\* to main's loop in the child): no line is run more often than the shells
\* started with the script, times two for every unknown command before it.
LinesRunAtMost ==
  \A i \in DOMAIN script :
    started[i] > runs => started[i] <= runs * 2 ^ Cardinality(UnknownBefore(i))

\* Each foreground command costs one wait and each wait takes one child: at the
\* prompt a shell has exactly as many children as it started in the background,
\* so no zombie piles up behind foreground commands.  This is so unless, when
\* the shell got its PCB, the process of an earlier owner still had it for its
\* parent_task: sys_exit leaves such children with the pid of the dead, to be
\* inherited, or gives them to init and still wakes the new owner, whose wait
\* then returns without a child.
OneWaitPerForeground ==
  \A p \in Pids \ haunted : kind[p] = "shell" /\ pc[p] \in {"read", "run"} =>
    Cardinality(Children(p)) = jobs[p]

\* When the shell goes on after a foreground command, that command has ended
\* (sbush.c:53, "Wait for child only when it is not background process").
ForegroundDone ==
  [][\A p \in Pids : pc[p] = "wait" /\ pc'[p] = "read" /\ kind'[p] = "shell"
       => kind'[waited[p]] = "none"]_vars

\* A shell that runs the script comes to its end, whatever commands fail on the
\* way: each wait ends and nobody waits for a shell that waits back.
ScriptEnds ==
  \A p \in Pids : (kind[p] = "shell" /\ mode[p] = "script") ~> (kind[p] \in {"zombie", "none"})

=============================================================================

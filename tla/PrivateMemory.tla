---------------------------- MODULE PrivateMemory ----------------------------
(***************************************************************************)
(* What fork, exec and the page-fault handler promise together: every      *)
(* process has a memory of its own.  A write changes one page of one       *)
(* process; fork gives the child a copy of the parent's memory at that     *)
(* moment; exec replaces the memory of one process; nothing else changes   *)
(* any memory, and a load gives what the process has there.  Frames, page tables, reference counts and the TLB do not   *)
(* occur here.                                                             *)
(***************************************************************************)
EXTENDS Integers

CONSTANTS
  Procs,    \* PCBs that user processes run on
  VPages,   \* virtual pages covered by the VMAs of a process
  Image,    \* those of them that exec fills from the binary
  Values    \* contents of a page: 0 (zeroed), 1 (from the binary) or written

VARIABLES
  mem,      \* mem[p][v]; a process without memory has NoMemory
  access    \* the last step of a process: a load or store, or none (a kernel step)

NoMemory == [v \in {} |-> 0]
NewImage == [v \in VPages |-> IF v \in Image THEN 1 ELSE 0]

Accesses(k, p, v, x) == access' = [kind |-> k, by |-> p, page |-> v, value |-> x]
NoAccess == [kind |-> "kernel"]

MemInit(p) ==
  /\ mem = [q \in Procs |-> IF q = p THEN NewImage ELSE NoMemory]
  /\ access = NoAccess

MemRead(p, v) ==
  /\ mem[p] # NoMemory
  /\ Accesses("load", p, v, mem[p][v])
  /\ UNCHANGED mem

MemWrite(p, v, x) ==
  /\ mem[p] # NoMemory
  /\ Accesses("store", p, v, x)
  /\ mem' = [mem EXCEPT ![p][v] = x]

MemFork(p, c) == mem[c] = NoMemory /\ mem' = [mem EXCEPT ![c] = mem[p]]
MemExec(p) == mem[p] # NoMemory /\ mem' = [mem EXCEPT ![p] = NewImage]
MemDrop(p) == mem' = [mem EXCEPT ![p] = NoMemory]

MemNext ==
  \E p \in Procs :
    \/ \E v \in VPages : MemRead(p, v) \/ \E x \in Values : MemWrite(p, v, x)
    \/ /\ access' = NoAccess
       /\ \/ \E c \in Procs : MemFork(p, c)
          \/ MemExec(p) \/ MemDrop(p)
          \/ UNCHANGED mem

MemSpec == (\E p \in Procs : MemInit(p)) /\ [][MemNext]_<<mem, access>>

=============================================================================

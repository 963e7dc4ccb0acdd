------------------------------ MODULE FileView -------------------------------
(***************************************************************************)
(* What the file calls promise: a process has open descriptors, each a     *)
(* position in a file or the part of a directory not listed yet.  No       *)
(* process sees the calls of another, and a forked one starts with a copy  *)
(* of its parent's descriptors.                                            *)
(***************************************************************************)
EXTENDS Integers, FiniteSetsExt, Functions

CONSTANTS
  Procs, Fds, Entries, ReadSizes,
  Size,          \* bytes of each entry of the archive
  Children       \* entries directly below each entry

VARIABLES
  view,    \* view[p]: a function on the open descriptors of p
  answer   \* the last call and what it gave back

views == <<view, answer>>

Answers(call, p, d) == answer'.call = call /\ answer'.by = p /\ answer'.fd = d

Opens(p, d, i, left) ==
  /\ Answers("open", p, d)
  /\ d \notin DOMAIN view[p]
  /\ view' = [view EXCEPT ![p] =
                [e \in DOMAIN view[p] \cup {d} |->
                   IF e = d THEN [entry |-> i, pos |-> 0, left |-> left] ELSE view[p][e]]]

OpensNothing(p) == Answers("open", p, 0) /\ UNCHANGED view

\* The next bytes of the file, at most n: from where and how many.
Reads(p, d, n) ==
  /\ Answers("read", p, d)
  /\ LET here == view[p][d]
         got == IF d \in DOMAIN view[p] THEN Min({n, Size[here.entry] - here.pos}) ELSE 0
     IN  IF got = 0 THEN answer'.got = <<>> /\ UNCHANGED view
         ELSE /\ answer'.got = <<here.pos, got>>
              /\ view' = [view EXCEPT ![p][d].pos = here.pos + got]

\* The next child of the directory, in the order of the archive.
Lists(p, d) ==
  /\ Answers("list", p, d)
  /\ d \in DOMAIN view[p]
  /\ LET left == view[p][d].left IN
     IF left = {} THEN answer'.got = <<>> /\ UNCHANGED view
     ELSE /\ answer'.got = <<Min(left)>>
          /\ view' = [view EXCEPT ![p][d].left = left \ {Min(left)}]

Closes(p, d) ==
  /\ Answers("close", p, d)
  /\ view' = [view EXCEPT ![p] = Restrict(view[p], DOMAIN view[p] \ {d})]

Forks(p, c) == Answers("fork", p, 0) /\ view' = [view EXCEPT ![c] = view[p]]
Forgets(p) == Answers("gone", p, 0) /\ view' = [view EXCEPT ![p] = Restrict(view[p], {})]

ViewInit == view = [p \in Procs |-> [d \in {} |-> 0]]

ViewNext ==
  \E p \in Procs :
    \/ \E d \in Fds, i \in Entries : Opens(p, d, i, {}) \/ Opens(p, d, i, Children[i])
    \/ OpensNothing(p) \/ Forgets(p)
    \/ \E d \in Fds, n \in ReadSizes : Reads(p, d, n)
    \/ \E d \in Fds : Lists(p, d) \/ Closes(p, d)
    \/ \E c \in Procs : Forks(p, c)

ViewSpec == ViewInit /\ [][ViewNext]_views

=============================================================================

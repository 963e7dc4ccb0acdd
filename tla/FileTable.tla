------------------------------ MODULE FileTable ------------------------------
(***************************************************************************)
(* The file calls on the archive linked into the kernel (tarfs): the array *)
(* fd_array of every process, opening, reading and closing files and       *)
(* directories, and what fork, exec and the reaping of a process do to it. *)
(* Sources: sys/tarfs.c, sys/proc_mngr.c, sys/process.c, sys/strings.c.    *)
(*                                                                         *)
(* A call runs with IF=0 and never gives up the processor, so each is one  *)
(* step of any process.  Reading descriptor 0 is the terminal's (Tasks).   *)
(* Which path a name stands for is not modelled: calls are given entries.  *)
(***************************************************************************)
EXTENDS Integers, Sequences, SequencesExt, FiniteSetsExt

CONSTANTS
  Procs,
  MAX_FDS,     \* 10 in include/sys/process.h
  Tar,         \* the archive: names (sequences of pieces, a directory's ends
               \* with "/") and sizes, in the order of their headers
  ReadSizes,   \* the size argument of read()
  OpenEntries, \* bound: the entries that processes open
  CloseFds     \* bound: the descriptors that they close

Fds == 0..(MAX_FDS - 1)
Entries == 1..Len(Tar)
Name(i) == Tar[i].name
Size == [i \in Entries |-> Tar[i].size]
IsDir(i) == Last(Name(i)) = "/"
MaxSize == Max({Size[i] : i \in Entries})

ASSUME MAX_FDSAssumption == MAX_FDS \in Nat /\ MAX_FDS >= 3
ASSUME TarAssumption == Tar \in Seq([name : Seq(STRING), size : Nat]) /\ Tar # <<>>
ASSUME ReadSizesAssumption == ReadSizes \subseteq Nat \ {0} /\ ReadSizes # {} /\ IsFiniteSet(ReadSizes)
ASSUME BoundsAssumption == OpenEntries \subseteq Entries /\ CloseFds \subseteq Fds
\* tar stores no data for a directory.
ASSUME DirSizeAssumption == \A i \in Entries : IsDir(i) => Size[i] = 0
ASSUME NamesAssumption == \A i, j \in Entries : i # j => Name(i) # Name(j)

\* Longer[a]: the entries b for which is_sub_string says that their names begin
\* with the name of a.
Longer == [a \in Entries |-> {b \in Entries : IsStrictPrefix(Name(a), Name(b))}]
is_sub_string(a, b) == b \in Longer[a]

\* The entries that are in directory i itself.
Children ==
  [i \in Entries |-> {j \in Longer[i] : \A k \in Longer[i] : IsDir(k) => j \notin Longer[k]}]

(***************************************************************************)
(* How the build fills the archive (find, then tar without recursion): a   *)
(* directory comes before what it holds and its content is contiguous.     *)
(* Second, an assumption on the names: none is another file's name with    *)
(* something added; read_dir leaves such an entry out.                     *)
(***************************************************************************)
ASSUME FindOrderAssumption ==
  \A i, j \in Entries : IsDir(i) /\ is_sub_string(i, j) =>
    i < j /\ \A k \in i + 1 .. j : is_sub_string(i, k)
ASSUME NoExtensionAssumption ==
  \A i, j \in Entries : is_sub_string(i, j) => IsDir(i)

\* A descriptor.  file_ptr is an entry with "header" or "data" and the bytes
\* that it has advanced; entry 0 is NULL.
FD == [alloted : 0..1, file_sz : 0..MaxSize, num_bytes_read : 0..(MaxSize + Max(ReadSizes)),
       entry : 0..Len(Tar), at : {"header", "data"}, advanced : 0..(MaxSize + Max(ReadSizes)),
       last_matched_header : 0..Len(Tar)]

Cleared(a) == [alloted |-> a, file_sz |-> 0, num_bytes_read |-> 0, entry |-> 0, at |-> "header",
               advanced |-> 0, last_matched_header |-> 0]

\* The first three descriptors are taken, the others free.
Fresh == [d \in Fds |-> Cleared(IF d < 3 THEN 1 ELSE 0)]

VARIABLES
  alive,      \* processes that run
  fd_array,
  ret         \* the last call and what it returned

vars == <<alive, fd_array, ret>>

Answer(c, p, d, g) == [call |-> c, by |-> p, fd |-> d, got |-> g]

-----------------------------------------------------------------------------
FreeFds(p) == {d \in Fds : fd_array[p][d].alloted = 0}

\* get_free_fd: the lowest free descriptor; counters are as close left them.
get_free_fd(p, d, i, where) ==
  [fd_array[p][d] EXCEPT !.alloted = 1, !.entry = i, !.at = where, !.advanced = 0,
                         !.last_matched_header = i]

\* open_s on a name that is in the archive.
open_s(p, i) ==
  /\ FreeFds(p) # {}
  /\ LET d == Min(FreeFds(p)) IN
     /\ fd_array' = [fd_array EXCEPT ![p][d] =
                       [get_free_fd(p, d, i, "data") EXCEPT !.file_sz = Size[i]]]
     /\ ret' = Answer("open", p, d, <<>>)
  /\ UNCHANGED alive

open_dir(p, i) ==
  /\ IsDir(i)
  /\ FreeFds(p) # {}
  /\ LET d == Min(FreeFds(p)) IN
     /\ fd_array' = [fd_array EXCEPT ![p][d] = get_free_fd(p, d, i, "header")]
     /\ ret' = Answer("open", p, d, <<>>)
  /\ UNCHANGED alive

\* Either of them when every descriptor is taken: the answer is 0.
OutOfFds(p) ==
  /\ FreeFds(p) = {}
  /\ ret' = Answer("open", p, 0, <<>>)
  /\ UNCHANGED <<alive, fd_array>>

\* read_s: the pointer and the count advance by n, past the end if it is near.
read_s(p, d, n) ==
  LET f == fd_array[p][d] IN
  /\ d # 0
  /\ IF f.alloted = 1 /\ f.num_bytes_read < f.file_sz
     THEN /\ fd_array' = [fd_array EXCEPT ![p][d].advanced = @ + n, ![p][d].num_bytes_read = @ + n]
          /\ ret' = Answer("read", p, d, <<f.advanced, Min({n, f.file_sz - f.num_bytes_read})>>)
     ELSE ret' = Answer("read", p, d, <<>>) /\ UNCHANGED fd_array
  /\ UNCHANGED alive

\* Mutant: only what is below the entry listed last is left out when that is
\* the directory itself.
matches_below(dir, last) ==
  {j \in last..Len(Tar) : is_sub_string(dir, j) /\ j # last}

\* The entries that the loop of read_dir stops at.
matches(dir, last) ==
  {j \in last..Len(Tar) : /\ is_sub_string(dir, j) /\ j # last
                          /\ dir = last \/ ~is_sub_string(last, j)}

file_des_validator(p, d) == d \in Fds /\ fd_array[p][d].alloted = 1

\* read_dir on a descriptor that open_dir gave.
read_dir(p, d) ==
  LET f == fd_array[p][d]
      found == matches(f.entry, f.last_matched_header)
  IN
  /\ file_des_validator(p, d) /\ f.entry # 0 /\ f.at = "header"
  /\ IF found = {} THEN ret' = Answer("list", p, d, <<>>) /\ UNCHANGED fd_array
     ELSE /\ fd_array' = [fd_array EXCEPT ![p][d].last_matched_header = Min(found)]
          /\ ret' = Answer("list", p, d, <<Min(found)>>)
  /\ UNCHANGED alive

\* Mutant: the count of the closed file stays.
close_keeping_count(p, d) ==
  /\ fd_array' = [fd_array EXCEPT ![p][d].alloted = 0, ![p][d].file_sz = 0]
  /\ ret' = Answer("close", p, d, <<>>)
  /\ UNCHANGED alive

\* Mutant: alloted counts the opens.
close_decrementing(p, d) ==
  /\ fd_array' = [fd_array EXCEPT ![p][d].alloted = @ - 1, ![p][d].file_sz = 0,
                                  ![p][d].num_bytes_read = 0]
  /\ ret' = Answer("close", p, d, <<>>)
  /\ UNCHANGED alive

\* close_s and close_dir; neither looks whether d is open.
close_s(p, d) ==
  /\ fd_array' = [fd_array EXCEPT ![p][d].alloted = 0, ![p][d].file_sz = 0,
                                  ![p][d].num_bytes_read = 0]
  /\ ret' = Answer("close", p, d, <<>>)
  /\ UNCHANGED alive

-----------------------------------------------------------------------------
(* The life of a process. *)

Fork(p, c) ==
  /\ c \notin alive
  /\ alive' = alive \cup {c}
  /\ fd_array' = [fd_array EXCEPT ![c] = fd_array[p]]
  /\ ret' = Answer("fork", p, 0, <<>>)

\* clean_task_for_exec.
Exec(p) ==
  /\ fd_array' = [fd_array EXCEPT ![p] = Fresh]
  /\ ret' = Answer("gone", p, 0, <<>>)
  /\ UNCHANGED alive

\* c has exited and its parent p reaps it: clear_pcb makes the array zero.
Reap(p, c) ==
  /\ c \in alive /\ c # p
  /\ alive' = alive \ {c}
  /\ fd_array' = [fd_array EXCEPT ![c] = [d \in Fds |-> Cleared(0)]]
  /\ ret' = Answer("gone", c, 0, <<>>)

\* The shell runs; the PCBs never used are zero.
Init ==
  /\ \E p \in Procs :
       /\ alive = {p}
       /\ fd_array = [q \in Procs |-> IF q = p THEN Fresh ELSE [d \in Fds |-> Cleared(0)]]
       /\ ret = Answer("gone", p, 0, <<>>)

Next ==
  \E p \in alive :
    \/ \E i \in OpenEntries : open_s(p, i) \/ open_dir(p, i)
    \/ OutOfFds(p)
    \/ \E d \in Fds, n \in ReadSizes : read_s(p, d, n)
    \/ \E d \in Fds : read_dir(p, d)
    \/ \E d \in CloseFds : close_s(p, d)
    \/ \E c \in Procs : Fork(p, c) \/ Reap(p, c)
    \/ Exec(p)

Spec == Init /\ [][Next]_vars

-----------------------------------------------------------------------------
(* Properties. *)

\* Type invariant: counters and pointer run past the end by less than one read.
TypeOK ==
  /\ alive \subseteq Procs
  /\ fd_array \in [Procs -> [Fds -> FD]]

\* get_free_fd and open_dir set neither counter nor size: a free descriptor has
\* them zero, whatever way it became free, so that no file is read from the
\* middle and no directory has a length.
FreeFdsAreClean ==
  \A p \in Procs, d \in Fds :
    fd_array[p][d].alloted = 0 =>
      fd_array[p][d].num_bytes_read = 0 /\ fd_array[p][d].file_sz = 0

(***************************************************************************)
(* The calls keep the promise of FileView: reads deliver a file's bytes in *)
(* order and once, although pointer and counter run past its end; listings *)
(* name every entry of a directory once and nothing below; descriptors are *)
(* private to a process and copied by fork.                                *)
(***************************************************************************)
IsOpen(p, d) == fd_array[p][d].alloted = 1 /\ fd_array[p][d].entry # 0
ViewOf(f) ==
  [entry |-> f.entry,
   pos   |-> Min({f.num_bytes_read, f.file_sz}),
   left  |-> IF f.at = "data" THEN {}
             ELSE {j \in Children[f.entry] : j > f.last_matched_header}]

View == INSTANCE FileView WITH
  view <- [p \in Procs |-> [d \in {e \in Fds : IsOpen(p, e)} |-> ViewOf(fd_array[p][d])]],
  answer <- ret

ImplementsFileView == View!ViewSpec

=============================================================================

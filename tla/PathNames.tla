------------------------------ MODULE PathNames ------------------------------
(***************************************************************************)
(* Path names: the working directory of every process, cd, and the look-up *)
(* of a path by open, opendir and exec.  Sources: sys/tarfs.c              *)
(* (path_sanitize, remove_d, set_cwd, file_exists and the beginnings of    *)
(* open_s, open_dir, validate_binary), sys/process.c, sys/strings.c.       *)
(*                                                                         *)
(* A string is a sequence of characters, because remove_d works on         *)
(* characters: it counts dots and looks for slashes backwards.  The        *)
(* buffers of 100 bytes (75 for cwd) are taken to be long enough.          *)
(***************************************************************************)
EXTENDS Integers, Sequences, SequencesExt, FiniteSetsExt

CONSTANTS
  Procs,
  Shell,       \* the process with a pid below 3
  Names,       \* names that paths are made of, as sequences of characters
  MaxNames,    \* bound: names in one path
  Dirs, Files  \* what the archive holds: sequences of names

ASSUME NamesAssumption == \A n \in Names : n # <<>> /\ ToSet(n) \cap {"/", "."} = {}
ASSUME TreeAssumption == Dirs \cap Files = {} /\ Shell \in Procs

Up == <<".", ".">>

\* The arguments of the calls: names with slashes between them, one in front
\* (abs) and one behind (slash) if wanted.
Paths == {path \in [abs : BOOLEAN, slash : BOOLEAN, names : BoundedSeq(Names \cup {Up}, MaxNames)] :
            path.names = <<>> => ~path.slash}

Slashed(names) == FlattenSeq([i \in DOMAIN names |-> names[i] \o <<"/">>])
Joined(names) == IF names = <<>> THEN <<>> ELSE Front(Slashed(names))
Text(path) == (IF path.abs THEN <<"/">> ELSE <<>>) \o
              (IF path.slash THEN Slashed(path.names) ELSE Joined(path.names))

\* Names in the headers of the archive: those of directories end with a slash.
\* The zeros behind the last header read as a header without a name.
Headers == {Joined(f) : f \in Files} \cup {Slashed(d) : d \in Dirs} \cup {<<>>}

VARIABLES
  alive,     \* processes that run
  cwd        \* of every PCB

vars == <<alive, cwd>>

Root == <<"/">>
NotFound == <<"none">>

-----------------------------------------------------------------------------
\* What is left of out when its last name is dropped: the second dot has not
\* been written, so the name ends two before the end.  (Without a slash there
\* the code reads on below its buffer; Inside keeps the callers from that.)
drop_last(out) ==
  LET slashes == {k \in 1..(Len(out) - 2) : out[k] = "/"}
  IN  SubSeq(out, 1, IF slashes = {} THEN 0 ELSE Max(slashes))

\* Mutant: the slash behind the dots is copied.
remove_d_keeping_slash(buff) ==
  LET Char(s, k) ==
        LET dots == s.dots + IF buff[k] = "." THEN 1 ELSE 0 IN
        IF dots = 2 /\ k # 3 THEN [out |-> drop_last(s.out), dots |-> 0]
        ELSE [out |-> Append(s.out, buff[k]), dots |-> dots]
  IN  FoldLeftDomain(Char, [out |-> <<>>, dots |-> 0], buff).out

(***************************************************************************)
(* remove_d: characters are copied until two dots have been counted, not   *)
(* in the third place; then a name is dropped, the slash behind the dots   *)
(* is skipped and the character after it is copied as it is.               *)
(***************************************************************************)
remove_d(buff) ==
  LET Char(s, k) ==
        LET dots == s.dots + IF buff[k] = "." THEN 1 ELSE 0 IN
        CASE s.mode = "skip" -> [s EXCEPT !.mode = "take"]
          [] s.mode = "take" -> [out |-> Append(s.out, buff[k]), mode |-> "copy",
                                 dots |-> IF buff[k] = "." THEN 1 ELSE 0]
          [] s.mode = "copy" /\ dots = 2 /\ k # 3 ->
               [out |-> drop_last(s.out), mode |-> "skip", dots |-> 0]
          [] OTHER -> [s EXCEPT !.out = Append(@, buff[k]), !.dots = dots]
  IN  FoldLeftDomain(Char, [out |-> <<>>, mode |-> "copy", dots |-> 0], buff).out

WithSlash(s) == IF Last(s) # "/" THEN Append(s, "/") ELSE s

path_sanitize(dir, text) ==
  remove_d(IF text # <<>> /\ text[1] = "/" THEN text ELSE WithSlash(dir) \o text)

file_exists(name) == name \in Headers

-----------------------------------------------------------------------------
(* Where the calls arrive: the header found, or the new directory. *)

\* open_s: an exact match.
open_s_finds(dir, text) ==
  LET d_path == Tail(path_sanitize(dir, text))
  IN  IF file_exists(d_path) THEN d_path ELSE NotFound

\* open_dir: "/" itself has an answer of its own, and the name must be a
\* directory's (typeflag 5, which the header without a name is not).
open_dir_finds(dir, text) ==
  LET d_path == Tail(WithSlash(path_sanitize(dir, text)))
  IN  IF text = Root THEN <<>>
      ELSE IF d_path # <<>> /\ file_exists(d_path) THEN d_path ELSE NotFound

\* validate_binary, with files taken to be ELF; neither a directory nor the
\* header without a name has the data of one behind it.
exec_finds(dir, text) ==
  LET name == Tail(path_sanitize(dir, text))
  IN  IF name \in {Joined(f) : f \in Files} THEN name ELSE NotFound

\* load_elf1: the first header with the name, whatever it is.
load_elf1(name) == IF file_exists(name) THEN name ELSE NotFound

\* load_elf, the second look-up of an exec, when the old memory is gone.
load_elf_finds(dir, text) == load_elf1(Tail(path_sanitize(dir, text)))

\* set_cwd: the root or a name that exists, else "invalid path".
new_cwd(dir, text) ==
  LET buff == WithSlash(path_sanitize(dir, text))
  IN  IF buff = Root \/ file_exists(Tail(buff)) THEN buff ELSE dir

\* Bound: no path climbs above the root on its way.
Depth(names) == FoldLeft(LAMBDA n, name : n + (IF name = Up THEN -1 ELSE 1), 0, names)
Level(text) == Cardinality({k \in DOMAIN text : text[k] = "/"}) - 1
Inside(dir, path) ==
  \A k \in 1..Len(path.names) :
    (IF path.abs THEN 0 ELSE Level(dir)) + Depth(SubSeq(path.names, 1, k)) >= 0

-----------------------------------------------------------------------------
set_cwd(p, path) ==
  /\ Inside(cwd[p], path)
  /\ cwd' = [cwd EXCEPT ![p] = new_cwd(@, Text(path))]
  /\ UNCHANGED alive

\* sys_execvpe: the directory of the shell goes to the root, whether the file
\* is found then or not; any other process keeps its directory.
sys_execvpe(p) ==
  /\ cwd' = [cwd EXCEPT ![p] = IF p = Shell THEN Root ELSE @]
  /\ UNCHANGED alive

\* Mutant: the child keeps the blank that fetch_free_pcb puts there.
fork_leaving_blank(p, c) ==
  /\ c \notin alive
  /\ alive' = alive \cup {c}
  /\ cwd' = [cwd EXCEPT ![c] = <<" ">>]

fork_process(p, c) ==
  /\ c \notin alive
  /\ alive' = alive \cup {c}
  /\ cwd' = [cwd EXCEPT ![c] = cwd[p]]

\* clear_pcb leaves cwd as it is.
Reap(p, c) ==
  /\ c \in alive \ {p, Shell}
  /\ alive' = alive \ {c}
  /\ UNCHANGED cwd

\* The exec in start() has set the shell's directory.
Init ==
  /\ alive = {Shell}
  /\ cwd = [p \in Procs |-> IF p = Shell THEN Root ELSE <<>>]

Next ==
  \E p \in alive :
    \/ \E path \in Paths : set_cwd(p, path)
    \/ sys_execvpe(p)
    \/ \E c \in Procs : fork_process(p, c) \/ Reap(p, c)

Spec == Init /\ [][Next]_vars

-----------------------------------------------------------------------------
(* Properties. *)

\* How the name of a node is written as a working directory.
Place(node) == <<"/">> \o Slashed(node)

\* Type invariant: the working directory of a process is the root or the name
\* of a directory of the archive, slashes in front and behind.
TypeOK ==
  /\ alive \subseteq Procs
  /\ \A p \in alive : \E d \in Dirs \cup {<<>>} : cwd[p] = Place(d)

\* The reference: a path is walked name by name, from the directory of the
\* process or from the root, and ".." goes one up.
Walk(from, path) ==
  FoldLeft(LAMBDA at, name : IF name = Up THEN Front(at) ELSE Append(at, name),
           IF path.abs THEN <<>> ELSE from, path.names)

(***************************************************************************)
(* Paths mean what they say: wherever a process has come by cd, fork and   *)
(* exec, counting dots and scanning for slashes leads cd, open, opendir    *)
(* and exec to the node that the walk leads to, and nowhere if that is no  *)
(* node.  A path that ends with a slash or with ".." names no file; a       *)
(* directory may be opened as a file, and the root is listed under the     *)
(* name "/" only.  The second look-up of an exec finds what the first did. *)
(***************************************************************************)
PathsMeanWalks ==
  \A p \in alive : \A here \in {d \in Dirs \cup {<<>>} : cwd[p] = Place(d)}, path \in Paths :
    Inside(cwd[p], path) =>
      LET to == Walk(here, path)
          text == Text(path)
          file == to \in Files /\ ~path.slash /\ Last(path.names) # Up
      IN
      /\ new_cwd(cwd[p], text) = IF to \in Dirs \cup {<<>>} THEN Place(to) ELSE cwd[p]
      /\ to \notin Dirs \cup {<<>>} =>
           open_s_finds(cwd[p], text) = IF file THEN Joined(to) ELSE NotFound
      /\ to # <<>> => open_dir_finds(cwd[p], text) = IF to \in Dirs THEN Slashed(to) ELSE NotFound
      /\ exec_finds(cwd[p], text) = IF file THEN Joined(to) ELSE NotFound
      /\ file => load_elf_finds(cwd[p], text) = exec_finds(cwd[p], text)

=============================================================================

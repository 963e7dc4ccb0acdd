----------------------------- MODULE MCFileTable -----------------------------
(* Model checking of FileTable on a small archive. *)
EXTENDS FileTable, TLC

CONSTANTS p1, p2

\* PCBs are interchangeable: no action orders them.
PcbSymmetry == Permutations(Procs)

\* d/  d/e/  d/e/x  d/f
MCTar == << [name |-> <<"d", "/">>, size |-> 0],
            [name |-> <<"d", "/", "e", "/">>, size |-> 0],
            [name |-> <<"d", "/", "e", "/", "x">>, size |-> 1],
            [name |-> <<"d", "/", "f">>, size |-> 3] >>

=============================================================================

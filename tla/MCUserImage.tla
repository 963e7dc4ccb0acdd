----------------------------- MODULE MCUserImage ------------------------------
(***************************************************************************)
(* Pages of two bytes, tables of four entries.  The first binary has a     *)
(* text and a data segment with bss under different last-level tables; the *)
(* second begins inside a page and its bss ends in one that elf_read does  *)
(* not map.                                                                *)
(***************************************************************************)
EXTENDS UserImage

MCBinaries == {
  << [vaddr |-> 0, file |-> <<1, 2, 3>>, memsz |-> 3, type |-> "TEXT"],
     [vaddr |-> 8, file |-> <<4>>, memsz |-> 2, type |-> "DATA"] >>,
  << [vaddr |-> 1, file |-> <<5, 6>>, memsz |-> 4, type |-> "TEXT"] >> }

\* Below the stack's first page, its end, the end of the data, the heap, nothing.
MCTouched == {252, 256, 10, 24, 60}
=============================================================================

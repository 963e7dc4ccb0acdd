----------------------------- MODULE PageTables ------------------------------
(***************************************************************************)
(* The four levels of page tables, as operators on physical memory.        *)
(* Sources: sys/virmem.c (get_pte_entry, set_mapping, create_dir_table,    *)
(* clear_mapping, fetch_free_page), sys/page.c (page_alloc, free_page),    *)
(* sys/proc_mngr.c (create_new_pml_table).                                 *)
(*                                                                         *)
(* Memory is a record: table[f] and content[f] are the two ways to look at *)
(* frame f, ref_count[f] its count and handed the number of frames given   *)
(* out so far, in order and each once (module PageAlloc).  An entry is the *)
(* frame that it names, 0 when it is not present; write bits are in        *)
(* AddressSpace.                                                           *)
(***************************************************************************)
EXTENDS Integers, FiniteSets, SequencesExt

CONSTANTS
  Fan,        \* entries of a table: 512
  PAGE_SIZE,  \* bytes of a page: 4096
  NumFrames   \* bound: frames handed out

ASSUME FanAssumption == Fan \in Nat /\ Fan >= 2
ASSUME PageSizeAssumption == PAGE_SIZE \in Nat \ {0}
ASSUME FramesAssumption == NumFrames \in Nat

Frames == 1 .. NumFrames
NoEntries == [i \in 0 .. Fan - 1 |-> 0]
Zeros == [o \in 0 .. PAGE_SIZE - 1 |-> 0]

\* The tables of the kernel hang from the last entry of every top table.
KernelTable == 1
KernelEntry == Fan - 1

FreshMemory ==
  [table |-> [f \in Frames |-> NoEntries], content |-> [f \in Frames |-> Zeros],
   ref_count |-> [f \in Frames |-> IF f = KernelTable THEN 1 ELSE 0], handed |-> KernelTable]

\* Mutant: the list of free pages keeps its head.
Fetch_stays(m) == [m EXCEPT !.ref_count[m.handed + 1] = 1]

\* page_alloc, kmalloc, fetch_free_page: the frame given out is m.handed + 1.
Fetch(m) == [m EXCEPT !.handed = @ + 1, !.ref_count[m.handed + 1] = 1]

\* create_new_pml_table, on a frame just fetched.
create_new_pml_table(m, f) == [m EXCEPT !.table[f][KernelEntry] = KernelTable]

-----------------------------------------------------------------------------
\* The index of page v at a level, 3 for the top table down to 0.
Index(v, level) == (v \div Fan ^ level) % Fan

\* One step of the walk; an entry that is not present ends it.
Below(m, f, v, level) == IF f = 0 THEN 0 ELSE m.table[f][Index(v, level)]

\* The frame that page v is mapped to, 0 if it is not mapped.
get_pte_entry(m, pml, v) == Below(m, Below(m, Below(m, Below(m, pml, v, 3), v, 2), v, 1), v, 0)

\* The table below entry i of f, made when the entry is not present.
create_dir_table(m, f, i) ==
  IF m.table[f][i] # 0 THEN m ELSE [Fetch(m) EXCEPT !.table[f][i] = m.handed + 1]

set_mapping(m, pml, v, frame) ==
  LET m1 == create_dir_table(m, pml, Index(v, 3))
      pdpte == m1.table[pml][Index(v, 3)]
      m2 == create_dir_table(m1, pdpte, Index(v, 2))
      pde == m2.table[pdpte][Index(v, 2)]
      m3 == create_dir_table(m2, pde, Index(v, 1))
      pte == m3.table[pde][Index(v, 1)]
  IN  [m3 EXCEPT !.table[pte][Index(v, 0)] = frame]

-----------------------------------------------------------------------------
Present(m, tables) == UNION {{m.table[f][i] : i \in 0 .. Fan - 1} : f \in tables} \ {0}

\* The entries of the top table that belong to the process.
UserEntries == 0 .. Fan - 2

\* The tables and the pages below a top table, without the kernel's.
Pdptes(m, pml) == {m.table[pml][i] : i \in UserEntries} \ {0}
Pdes(m, pml) == Present(m, Pdptes(m, pml))
Ptes(m, pml) == Present(m, Pdes(m, pml))
PagesBelow(m, pml) == Present(m, Ptes(m, pml))
TablesBelow(m, pml) == Pdptes(m, pml) \cup Pdes(m, pml) \cup Ptes(m, pml)

\* What clear_mapping gives back.
Released(m, pml) == TablesBelow(m, pml) \cup PagesBelow(m, pml)

\* clear_mapping: free_page on everything below, entries of the tables cleared.
\* The last reference clears a frame.
clear_mapping(m, pml) ==
  LET gone == Released(m, pml)
      last == {f \in gone : m.ref_count[f] <= 1}
  IN  [m EXCEPT
        !.ref_count = [f \in Frames |-> IF f \in last THEN 0 ELSE IF f \in gone THEN @[f] - 1 ELSE @[f]],
        !.content = [f \in Frames |-> IF f \in last THEN Zeros ELSE @[f]],
        !.table = [f \in Frames |->
                     IF f = pml THEN [i \in 0 .. Fan - 1 |-> IF i \in UserEntries THEN 0 ELSE @[f][i]]
                     ELSE IF f \in TablesBelow(m, pml) THEN NoEntries ELSE @[f]]]

=============================================================================

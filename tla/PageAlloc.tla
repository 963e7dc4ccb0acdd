------------------------------ MODULE PageAlloc ------------------------------
(***************************************************************************)
(* The allocator of physical pages: the array pages, one struct per frame, *)
(* with the list of free pages threaded through it, and the two kinds of   *)
(* pointer that get into that list.  Sources: sys/page.c (page_alloc,      *)
(* kmalloc, free_page, add_to_free_pages), sys/virmem.c (create_page_list, *)
(* fetch_free_page).                                                       *)
(*                                                                         *)
(* create_page_list runs before paging and links the structs by physical   *)
(* address.  free_page finds its struct with get_page_from_PA, which gives *)
(* a kernel virtual address, and links that.  page_alloc adds KERNBASE to  *)
(* whatever it finds at the head: right for a physical pointer, while a    *)
(* virtual one wraps to an address that nothing maps.                      *)
(***************************************************************************)
EXTENDS Integers

CONSTANTS
  NumPages,   \* length of pages
  FirstFree,  \* frames below hold the kernel and the array itself
  MaxRef      \* bound: references to one frame

ASSUME PagesAssumption == NumPages \in Nat /\ FirstFree \in 1..(NumPages - 1)
ASSUME MaxRefAssumption == MaxRef \in Nat \ {0}

Pages == 0..(NumPages - 1)
LastFree == NumPages - 1

Phys(i) == <<"phys", i>>
Virt(i) == <<"virt", i>>
NULL == <<"null", 0>>
\* What the head becomes when it is loaded through NULL: bytes of frame 0.
Wild == <<"wild", 0>>

Pointers == {"phys", "virt"} \X Pages \cup {NULL, Wild}

VARIABLES
  next, ref_count,    \* fields of pages[i]
  free_page_head      \* free_page_end is Phys(LastFree) for ever

vars == <<next, ref_count, free_page_head>>

free_page_end == LastFree

\* The walk from the head meets page i over links that page_alloc can follow.
Fresh(i) == free_page_head[1] = "phys" /\ free_page_head[2] <= i /\ i <= LastFree

-----------------------------------------------------------------------------
\* Mutant: the head moves on by address instead of along the link.
alloc_next_by_address(i) == Phys((i + 1) % NumPages)

\* free_page_head = tmp->next.
alloc_next(i) == next[i]

\* page_alloc, kmalloc and fetch_free_page on a head they can follow.  The
\* message about the last page does not stop them.
Alloc ==
  /\ free_page_head[1] = "phys"
  /\ LET i == free_page_head[2] IN
     /\ ref_count' = [ref_count EXCEPT ![i] = 1]
     /\ free_page_head' = alloc_next(i)
  /\ UNCHANGED next

\* The same on any other head: the kernel faults and the fault kills the
\* running task.  Through NULL the head is overwritten before the fault.
AllocFaults ==
  /\ free_page_head[1] # "phys"
  /\ free_page_head' = IF free_page_head = NULL THEN Wild ELSE free_page_head
  /\ UNCHANGED <<next, ref_count>>

\* fork_process: one more reference to a page in use.
Share(i) ==
  /\ i >= FirstFree
  /\ ref_count[i] \in 1..(MaxRef - 1)
  /\ ref_count' = [ref_count EXCEPT ![i] = @ + 1]
  /\ UNCHANGED <<next, free_page_head>>

\* Mutant: the end of the list advances to the freed page by its number, so
\* that the freed page becomes the successor of a page that is still fresh.
add_after_head(i) ==
  IF free_page_head[1] = "phys"
  THEN [next EXCEPT ![free_page_head[2]] = Phys(i), ![i] = next[free_page_head[2]]]
  ELSE next

\* free_page_end->next = p; p->next = NULL.  The end itself stays.
add_to_free_pages(i) == [next EXCEPT ![free_page_end] = Virt(i), ![i] = NULL]

\* Mutant: a reference that is not there is given back.
FreeTwice(i) ==
  /\ i >= FirstFree
  /\ ref_count' = [ref_count EXCEPT ![i] = @ - 1]
  /\ next' = IF ref_count[i] > 1 THEN next ELSE add_to_free_pages(i)
  /\ UNCHANGED free_page_head

\* free_page on a page in use.
Free(i) ==
  /\ i >= FirstFree
  /\ ref_count[i] > 0
  /\ ref_count' = [ref_count EXCEPT ![i] = @ - 1]
  /\ next' = IF ref_count[i] > 1 THEN next ELSE add_to_free_pages(i)
  /\ UNCHANGED free_page_head

\* create_page_list.  Pages are numbered in the order of the list; the frames
\* that it marks as reserved (ref_count 1, never listed) are left out.
Init ==
  /\ next = [i \in Pages |-> IF i >= FirstFree /\ i < LastFree THEN Phys(i + 1) ELSE NULL]
  /\ ref_count = [i \in Pages |-> IF i < FirstFree THEN 1 ELSE 0]
  /\ free_page_head = Phys(FirstFree)

Next ==
  \/ Alloc \/ AllocFaults
  \/ \E i \in Pages : Share(i) \/ Free(i)

Spec == Init /\ [][Next]_vars

-----------------------------------------------------------------------------
(* Properties. *)

\* Type invariant: links and head are pointers of one of the kinds above and no
\* count is negative.
TypeOK ==
  /\ next \in [Pages -> Pointers]
  /\ ref_count \in [Pages -> Nat]
  /\ free_page_head \in Pointers

\* No page is given out while somebody holds it, whatever was freed before: the
\* page at the head has no references.
HeadIsUnused == free_page_head[1] = "phys" => ref_count[free_page_head[2]] = 0

\* A page once used is never given out again: pages leave the list of fresh
\* pages one by one and a freed page does not come back (what AddressSpace
\* assumes of the allocator).
NeverRecycled ==
  [][\A i \in Pages : ~Fresh(i) => ~Fresh(i)']_vars

=============================================================================

-------------------------------- MODULE Heap ---------------------------------
(***************************************************************************)
(* malloc and free of a program over the pages that the kernel gives out.  *)
(* Sources: libc/malloc.c, sys/syscalls.c (SYS_sbrk), and through          *)
(* PageAlloc sys/page.c.                                                   *)
(*                                                                         *)
(* Addresses are counted in headers (16 bytes).  The blocks that are not   *)
(* in use form a circular list in the order of their addresses, with the   *)
(* empty block base below all of them.  A header that free has joined to   *)
(* its neighbour is memory again; nothing reads it as a header.            *)
(*                                                                         *)
(* sbrk returns one page whatever it is asked for, while morecore takes    *)
(* the page for the beginning of at least 1024 headers, four pages.  The   *)
(* other pages of such a claim stay in the list of free pages: page_alloc  *)
(* and kmalloc hand them out to other tasks, or to the next sbrk of the    *)
(* same program, and clear them first, with the headers that lie there.    *)
(* From then on (~Intact) malloc and free work on whatever the new owner   *)
(* writes, and the module does not follow the program any further.         *)
(***************************************************************************)
EXTENDS PageAlloc, FiniteSets, FiniteSetsExt

CONSTANTS
  PageUnits,   \* headers in a page: 256
  LeastUnits,  \* what morecore asks for at least: 1024
  Requests     \* the arguments of malloc, in bytes

ASSUME UnitsAssumption == PageUnits \in Nat \ {0} /\ LeastUnits \in Nat \ {0}
ASSUME RequestsAssumption == Requests \subseteq Nat

HeaderSize == 16
base == 0
None == -1

VARIABLES
  hdr,      \* headers of the blocks, in use or not: address to [ptr, size]
  freeptr,  \* None before the first malloc
  live,     \* the blocks that the program holds
  chunks    \* what morecore claimed: pairs of a page and a number of headers

heapvars == <<hdr, freeptr, live, chunks>>
allvars == <<vars, heapvars>>

UnitsOf(page) == page * PageUnits .. page * PageUnits + PageUnits - 1
Claim(c) == c[1] * PageUnits .. c[1] * PageUnits + c[2] - 1
Claimed == UNION {Claim(c) : c \in chunks}

\* memset over a page that is given out or freed.
Zeroed(h, page) ==
  [a \in DOMAIN h |-> IF a \in UnitsOf(page) THEN [ptr |-> None, size |-> 0] ELSE h[a]]

\* Limit: every header lies in a page of sbrk or in one that nobody has been
\* given, and no sbrk returned a page of an earlier claim.
Intact ==
  /\ \A a \in DOMAIN hdr \ {base} : \E k \in Pages :
       a \in UnitsOf(k) /\ (Fresh(k) \/ \E c \in chunks : c[1] = k)
  /\ \A c, d \in chunks : c # d => Claim(c) \cap Claim(d) = {}

-----------------------------------------------------------------------------
(* The list. *)

\* The block reached after k links from p.
Walk(h, p) ==
  LET w[k \in 0 .. Cardinality(DOMAIN h)] == IF k = 0 THEN p ELSE h[w[k - 1]].ptr
  IN  w

\* The loop of free stops here: bp lies between p and its successor, or beyond
\* the ends of the list.
between(h, p, bp) ==
  \/ bp > p /\ bp < h[p].ptr
  \/ p >= h[p].ptr /\ (bp > p \/ bp < h[p].ptr)

\* Mutant: the block above is not joined.
join_upper_never(h, p, bp) == [h EXCEPT ![bp].ptr = h[p].ptr]

join_upper(h, p, bp) ==
  LET q == h[p].ptr IN
  IF bp + h[bp].size = q
  THEN [a \in DOMAIN h \ {q} |->
          IF a = bp THEN [ptr |-> h[q].ptr, size |-> h[bp].size + h[q].size] ELSE h[a]]
  ELSE [h EXCEPT ![bp].ptr = q]

join_lower(h, p, bp) ==
  IF p + h[p].size = bp
  THEN [a \in DOMAIN h \ {bp} |->
          IF a = p THEN [ptr |-> h[bp].ptr, size |-> h[p].size + h[bp].size] ELSE h[a]]
  ELSE [h EXCEPT ![p].ptr = bp]

\* free, from the block where freeptr stands.
freed(h, start, bp) ==
  LET w == Walk(h, start)
      p == w[Min({k \in DOMAIN w : between(h, w[k], bp)})]
  IN  [hdr |-> join_lower(join_upper(h, p, bp), p, bp), freeptr |-> p]

-----------------------------------------------------------------------------
(* malloc. *)

nunits(nbytes) == ((nbytes + HeaderSize - 1) \div HeaderSize) + 1

\* The first malloc of a program makes base the whole list.
Listed == IF freeptr = None
          THEN [hdr |-> [a \in {base} |-> [ptr |-> base, size |-> 0]], freeptr |-> base]
          ELSE [hdr |-> hdr, freeptr |-> freeptr]

\* Positions behind freeptr of the blocks that are large enough, one turn of
\* the list; freeptr itself comes last.
Enough(s, n) ==
  LET w == Walk(s.hdr, s.freeptr)
      turn == Min({k \in DOMAIN w \ {0} : w[k] = s.freeptr})
  IN  {k \in 1 .. turn : s.hdr[w[k]].size >= n}

\* Mutant: the block keeps its size when its tail is given out.
cut_size_kept(size, n) == size

cut_size(size, n) == size - n

\* The first of these: given out whole, or its tail is.
Take(s, n) ==
  LET w == Walk(s.hdr, s.freeptr)
      k == Min(Enough(s, n))
      p == w[k]
      prevptr == w[k - 1]
      rest == cut_size(s.hdr[p].size, n)
      q == p + s.hdr[p].size - n   \* the result, behind what is left of p
  IN  /\ freeptr' = prevptr
      /\ hdr' = IF s.hdr[p].size = n
                THEN [s.hdr EXCEPT ![prevptr].ptr = s.hdr[p].ptr, ![p].ptr = base]
                ELSE [a \in DOMAIN s.hdr \cup {q} |->
                        IF a = q THEN [ptr |-> base, size |-> n]
                        ELSE IF a = p THEN [s.hdr[p] EXCEPT !.size = rest] ELSE s.hdr[a]]
      /\ live' = live \cup {IF s.hdr[p].size = n THEN p ELSE q}

\* The page at the head lies behind every claim.
Apart == \A u \in Claimed : u < free_page_head[2] * PageUnits

num_u(n) == IF n < LeastUnits THEN LeastUnits ELSE n

\* morecore: the page becomes a block of num_u headers, which is freed.
morecore(s, n, page) ==
  LET up == page * PageUnits
      z == Zeroed(s.hdr, page)
      h == [a \in DOMAIN z \cup {up} |-> IF a = up THEN [ptr |-> base, size |-> num_u(n)] ELSE z[a]]
  IN  freed(h, s.freeptr, up)

\* malloc with a block that is large enough.
Served(n) ==
  /\ Enough(Listed, n) # {}
  /\ Take(Listed, n)
  /\ UNCHANGED <<vars, chunks>>

\* malloc with none: sbrk, and the search goes on in what morecore added.
Grown(n) ==
  /\ Enough(Listed, n) = {}
  /\ free_page_head[1] = "phys" /\ Apart
  /\ LET page == free_page_head[2] IN
     /\ Take(morecore(Listed, n, page), n)
     /\ chunks' = chunks \cup {<<page, num_u(n)>>}
  /\ Alloc

\* The same when the page of sbrk lies in an earlier claim: it is cleared and
\* claimed again.  What malloc makes of the list then is not followed.
Overlapping(n) ==
  /\ Enough(Listed, n) = {}
  /\ free_page_head[1] = "phys" /\ ~Apart
  /\ LET page == free_page_head[2] IN
     /\ hdr' = Zeroed(Listed.hdr, page)
     /\ chunks' = chunks \cup {<<page, num_u(n)>>}
  /\ freeptr' = Listed.freeptr
  /\ Alloc
  /\ UNCHANGED live

malloc(nbytes) ==
  /\ Intact
  /\ Served(nunits(nbytes)) \/ Grown(nunits(nbytes)) \/ Overlapping(nunits(nbytes))

free(bp) ==
  /\ bp \in live /\ Intact
  /\ LET f == freed(hdr, freeptr, bp) IN hdr' = f.hdr /\ freeptr' = f.freeptr
  /\ live' = live \ {bp}
  /\ UNCHANGED <<vars, chunks>>

\* Everything else that takes, shares and frees pages, clearing those that it
\* is given and those that it gives back for good.  Nothing gives back the
\* pages of sbrk, which no VMA covers.
Others ==
  /\ \/ Alloc /\ hdr' = Zeroed(hdr, free_page_head[2])
     \/ AllocFaults /\ UNCHANGED hdr
     \/ \E i \in Pages \ {c[1] : c \in chunks} :
          \/ Share(i) /\ UNCHANGED hdr
          \/ Free(i) /\ hdr' = IF ref_count[i] > 1 THEN hdr ELSE Zeroed(hdr, i)
  /\ UNCHANGED <<freeptr, live, chunks>>

HeapInit ==
  /\ Init
  /\ hdr = <<>> /\ freeptr = None /\ live = {} /\ chunks = {}

HeapNext ==
  \/ \E nbytes \in Requests : malloc(nbytes)
  \/ \E bp \in live : free(bp)
  \/ Others

HeapSpec == HeapInit /\ [][HeapNext]_allvars

-----------------------------------------------------------------------------
(* Properties. *)

Idle == DOMAIN hdr \ (live \cup {base})
Units(bp) == bp .. bp + hdr[bp].size - 1

\* The blocks in use and the free ones never overlap and between them make up
\* everything that morecore claimed: no sequence of malloc and free gives a unit
\* out twice or loses one, as long as no page with a header was given out.
BlocksTile ==
  freeptr # None /\ Intact =>
    /\ \A a, b \in Idle \cup live : a # b => Units(a) \cap Units(b) = {}
    /\ UNION {Units(bp) : bp \in Idle \cup live} = Claimed

\* The list that both loops walk: from base up through exactly the free blocks
\* and back, so that the loops end; neighbours have been joined.  Again as long
\* as no page with a header was given out.
FreeListSorted ==
  freeptr # None /\ Intact =>
    LET w == Walk(hdr, base)
        n == Cardinality(Idle)
    IN  /\ {w[k] : k \in 0 .. n} = Idle \cup {base}
        /\ hdr[w[n]].ptr = base
        /\ \A k \in 1 .. n : w[k - 1] < w[k] /\ w[k - 1] + hdr[w[k - 1]].size < w[k]
        /\ freeptr \in Idle \cup {base}

=============================================================================

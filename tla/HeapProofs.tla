----------------------------- MODULE HeapProofs ------------------------------
(***************************************************************************)
(* Proofs about PageAlloc and about the heap of a program over it, for     *)
(* every number of pages, every size of pages and chunks and every         *)
(* sequence of requests.                                                   *)
(***************************************************************************)
EXTENDS Heap, ProofFacts, TLAPS

-----------------------------------------------------------------------------
(* The page allocator. *)

(***************************************************************************)
(* The inductive invariant: a head that can be followed starts a run of    *)
(* pages without references, linked in order up to free_page_end; and the  *)
(* link of free_page_end, the only one that add_to_free_pages writes in    *)
(* that run, is never one that can be followed.                            *)
(***************************************************************************)
ChainInv ==
  /\ next[LastFree][1] # "phys"
  /\ free_page_head[1] = "phys" =>
       \A j \in free_page_head[2]..LastFree :
         /\ ref_count[j] = 0
         /\ j < LastFree => next[j] = Phys(j + 1)

Inv == TypeOK /\ ChainInv

LEMMA Ranges ==
  /\ LastFree \in Pages /\ FirstFree \in Pages /\ FirstFree \in Nat /\ LastFree \in Nat
  /\ \A i \in Pages : i \in Nat /\ i <= LastFree /\ i \in i..LastFree
BY PagesAssumption DEF Pages, LastFree

\* Pointers by their kind.
LEMMA PointerKinds ==
  /\ \A q \in Pointers : q[1] = "phys" => q = Phys(q[2]) /\ q[2] \in Pages
  /\ \A i \in Pages : Phys(i) \in Pointers /\ Virt(i) \in Pointers
  /\ NULL \in Pointers /\ Wild \in Pointers
  /\ \A i : Virt(i)[1] = "virt" /\ Phys(i)[1] = "phys" /\ Phys(i)[2] = i
  /\ NULL[1] = "null" /\ Wild[1] = "wild"
BY DEF Pointers, Phys, Virt, NULL, Wild

LEMMA InvInit == Init => Inv
<1> SUFFICES ASSUME Init PROVE Inv
  OBVIOUS
<1>1. TypeOK
  <2>1. \A i \in Pages : i < LastFree => i + 1 \in Pages
    BY PagesAssumption DEF Pages, LastFree
  <2>2. next \in [Pages -> Pointers]
    BY <2>1, PointerKinds DEF Init
  <2> QED BY <2>2, PointerKinds, Ranges DEF Init, TypeOK
<1>2. next[LastFree][1] # "phys"
  BY Ranges, PointerKinds DEF Init
<1>3. \A j \in FirstFree..LastFree :
        ref_count[j] = 0 /\ (j < LastFree => next[j] = Phys(j + 1))
  BY PagesAssumption DEF Init, Pages, LastFree
<1> QED BY <1>1, <1>2, <1>3, PointerKinds DEF Init, Inv, ChainInv

LEMMA InvStep == Inv /\ [Next]_vars => Inv'
<1> SUFFICES ASSUME Inv, [Next]_vars PROVE Inv'
  OBVIOUS
<1>t. TypeOK /\ ChainInv
  BY DEF Inv
<1>1. CASE Alloc
  <2> DEFINE h == free_page_head[2]
  <2>1. /\ free_page_head[1] = "phys" /\ h \in Pages
        /\ ref_count' = [ref_count EXCEPT ![h] = 1]
        /\ free_page_head' = next[h] /\ next' = next
    BY <1>1, <1>t, PointerKinds DEF Alloc, alloc_next, TypeOK
  <2>2. TypeOK'
    BY <2>1, <1>t DEF TypeOK
  <2> HIDE DEF h
  <2>3. \A j \in h..LastFree : ref_count[j] = 0 /\ (j < LastFree => next[j] = Phys(j + 1))
    BY <2>1, <1>t DEF ChainInv, h
  <2>4. CASE h = LastFree
    BY <2>1, <2>2, <2>4, <1>t DEF Inv, ChainInv
  <2>5. CASE h # LastFree
    <3>1. h < LastFree /\ free_page_head' = Phys(h + 1)
      BY <2>1, <2>3, <2>5, Ranges
    <3>2. \A j \in (h + 1)..LastFree : j \in h..LastFree /\ j # h /\ j \in Pages
      BY <2>1, Ranges, PagesAssumption DEF Pages, LastFree
    <3>3. \A j \in (h + 1)..LastFree :
            ref_count'[j] = 0 /\ (j < LastFree => next'[j] = Phys(j + 1))
      BY <2>1, <2>3, <3>2, <1>t DEF TypeOK
    <3> QED BY <2>1, <2>2, <3>1, <3>3, <1>t, PointerKinds DEF Inv, ChainInv
  <2> QED BY <2>4, <2>5
<1>2. CASE AllocFaults
  BY <1>2, <1>t, PointerKinds DEF AllocFaults, Inv, ChainInv, TypeOK
<1>used. ASSUME NEW i \in Pages, ref_count[i] > 0, free_page_head[1] = "phys",
                NEW j \in free_page_head[2]..LastFree
         PROVE  i # j /\ j \in Pages
  <2>1. free_page_head[2] \in Pages
    BY <1>used, <1>t, PointerKinds DEF TypeOK
  <2>2. ref_count[j] = 0
    BY <1>used, <1>t DEF ChainInv
  <2> QED BY <1>used, <2>1, <2>2, PagesAssumption DEF Pages, LastFree
<1>3. ASSUME NEW i \in Pages, Share(i) PROVE Inv'
  <2>1. /\ ref_count[i] > 0 /\ ref_count' = [ref_count EXCEPT ![i] = @ + 1]
        /\ next' = next /\ free_page_head' = free_page_head
    BY <1>3, MaxRefAssumption DEF Share
  <2>2. TypeOK'
    BY <2>1, <1>t DEF TypeOK
  <2>3. ChainInv'
    BY <2>1, <1>t, <1>used DEF ChainInv, TypeOK
  <2> QED BY <2>2, <2>3 DEF Inv
<1>4. ASSUME NEW i \in Pages, Free(i) PROVE Inv'
  <2>1. /\ ref_count[i] > 0 /\ ref_count' = [ref_count EXCEPT ![i] = @ - 1]
        /\ next' \in {next, [next EXCEPT ![LastFree] = Virt(i), ![i] = NULL]}
        /\ free_page_head' = free_page_head
    BY <1>4 DEF Free, add_to_free_pages, free_page_end
  <2>2. TypeOK'
    BY <2>1, <1>t, PointerKinds DEF TypeOK
  <2>3. next'[LastFree][1] # "phys"
    <3>1. CASE next' = next
      BY <3>1, <1>t DEF ChainInv
    <3>2. CASE next' = [next EXCEPT ![LastFree] = Virt(i), ![i] = NULL]
      <4>1. next'[LastFree] \in {Virt(i), NULL}
        BY <3>2, <1>t, Ranges DEF TypeOK
      <4> QED BY <4>1, PointerKinds
    <3> QED BY <2>1, <3>1, <3>2
  <2>4. ASSUME free_page_head[1] = "phys", NEW j \in free_page_head[2]..LastFree
        PROVE  ref_count'[j] = 0 /\ (j < LastFree => next'[j] = Phys(j + 1))
    <3>1. i # j /\ j \in Pages
      BY <2>1, <2>4, <1>used
    <3>2. ref_count'[j] = ref_count[j]
      BY <2>1, <3>1, <1>t DEF TypeOK
    <3>3. j < LastFree => next'[j] = next[j]
      BY <2>1, <3>1, <1>t, Ranges DEF TypeOK
    <3> QED BY <2>4, <3>2, <3>3, <1>t DEF ChainInv
  <2> QED BY <2>1, <2>2, <2>3, <2>4 DEF Inv, ChainInv
<1>5. CASE UNCHANGED vars
  BY <1>5, <1>t DEF vars, Inv, ChainInv, TypeOK
<1> QED BY <1>1, <1>2, <1>3, <1>4, <1>5 DEF Next

(***************************************************************************)
(* Whatever mixture of physical and virtual pointers free_page leaves in   *)
(* the list, every link and the head are one of the four kinds of pointer  *)
(* that page_alloc can meet, and no ref_count falls below zero.            *)
(***************************************************************************)
THEOREM TypeCorrect == Spec => []TypeOK
<1>1. Inv => TypeOK
  BY DEF Inv
<1> QED BY <1>1, InvInit, InvStep, PTL DEF Spec

(***************************************************************************)
(* The allocator never gives out a page that somebody holds, for any       *)
(* number of pages and any order of allocations, shares and frees.         *)
(***************************************************************************)
THEOREM NoPageGivenTwice == Spec => []HeadIsUnused
<1>1. Inv => HeadIsUnused
  BY Ranges, PointerKinds DEF Inv, ChainInv, TypeOK, HeadIsUnused
<1> QED BY <1>1, InvInit, InvStep, PTL DEF Spec

(***************************************************************************)
(* Pages leave the list of fresh pages and never come back: free_page      *)
(* returns no page to the allocator that page_alloc could give out again.  *)
(***************************************************************************)
THEOREM FreedPagesStayLost == Spec => NeverRecycled
<1>1. Inv /\ [Next]_vars => [\A i \in Pages : ~Fresh(i) => ~Fresh(i)']_vars
  <2> SUFFICES ASSUME Inv, Next, NEW i \in Pages, Fresh(i)' PROVE Fresh(i)
    OBVIOUS
  <2>t. TypeOK /\ ChainInv
    BY DEF Inv
  <2>1. CASE Alloc
    <3> DEFINE h == free_page_head[2]
    <3>1. free_page_head[1] = "phys" /\ h \in Pages /\ free_page_head' = next[h]
      BY <2>1, <2>t, PointerKinds DEF Alloc, alloc_next, TypeOK
    <3>2. free_page_head'[1] = "phys" /\ free_page_head'[2] <= i /\ i <= LastFree
      BY DEF Fresh
    <3>3. h # LastFree
      BY <3>1, <3>2, <2>t DEF ChainInv
    <3> HIDE DEF h
    <3>4. h < LastFree /\ h \in Nat /\ h \in h..LastFree
      BY <3>1, <3>3, Ranges
    <3>5. next[h] = Phys(h + 1)
      BY <3>1, <3>4, <2>t DEF ChainInv, h
    <3>6. free_page_head'[2] = h + 1
      BY <3>1, <3>5, PointerKinds
    <3>7. h <= i
      <4>1. h + 1 <= i /\ i \in Nat
        BY <3>2, <3>6, Ranges
      <4> QED BY <4>1, <3>4
    <3> QED BY <3>1, <3>2, <3>7 DEF Fresh, h
  <2>2. CASE AllocFaults
    BY <2>2, PointerKinds DEF AllocFaults, Fresh
  <2>3. CASE \E j \in Pages : Share(j) \/ Free(j)
    BY <2>3 DEF Share, Free, Fresh
  <2> QED BY <2>1, <2>2, <2>3 DEF Next
<1> QED BY <1>1, InvInit, InvStep, PTL DEF Spec, NeverRecycled

-----------------------------------------------------------------------------
(* The list of a heap. *)

Covered(h) == {u \in Nat : \E a \in DOMAIN h : a <= u /\ u < a + h[a].size}

(***************************************************************************)
(* Blocks do not overlap and cover C; only base is empty.                  *)
(***************************************************************************)
Blocks(h, C) ==
  /\ DOMAIN h \in SUBSET Nat /\ IsFiniteSet(DOMAIN h)
  /\ h \in [DOMAIN h -> [ptr : Nat, size : Nat]]
  /\ base \in DOMAIN h /\ h[base].size = 0
  /\ \A a \in DOMAIN h \ {base} : h[a].size >= 1
  /\ \A a, b \in DOMAIN h : a < b => a + h[a].size <= b
  /\ Covered(h) = C

(***************************************************************************)
(* The blocks L form the list: each leads to the next one above it, with a *)
(* gap between, and the last one back to base.  No walk is needed to say   *)
(* so, which makes the statement easy to preserve.                         *)
(***************************************************************************)
Ring(h, L) ==
  /\ L \subseteq DOMAIN h /\ base \in L
  /\ \A a \in L :
       /\ h[a].ptr \in L
       /\ \/ a + h[a].size < h[a].ptr /\ \A b \in L : b <= a \/ h[a].ptr <= b
          \/ h[a].ptr = base /\ \A b \in L : b <= a

\* The walk that a program of n steps makes.
Follows(h, p, n, w) == w = [k \in 0 .. n |-> IF k = 0 THEN p ELSE h[w[k - 1]].ptr]

LEMMA WalksExist == \A n \in Nat : \A h, p : \E w : Follows(h, p, n, w)
<1> DEFINE Bad == {n \in Nat : \E h, p : \A w : ~Follows(h, p, n, w)}
<1> SUFFICES ASSUME Bad # {} PROVE FALSE
  OBVIOUS
<1>1. PICK n \in Bad : \A m \in Bad : n <= m
  BY LeastElement
<1>2. n \in Nat
  BY <1>1
<1>3. PICK h, p : \A w : ~Follows(h, p, n, w)
  BY <1>1
<1>4. CASE n = 0
  <2> DEFINE w == [k \in 0 .. 0 |-> p]
  <2>1. Follows(h, p, 0, w)
    BY DEF Follows
  <2> QED BY <1>3, <1>4, <2>1
<1>5. CASE n # 0
  <2>1. n - 1 \in Nat /\ n - 1 \notin Bad
    BY <1>1, <1>2, <1>5
  <2>2. PICK w : Follows(h, p, n - 1, w)
    BY <2>1
  <2> DEFINE e == [k \in 0 .. n |-> IF k = n THEN h[w[n - 1]].ptr ELSE w[k]]
  <2>3. \A k \in 0 .. n - 1 : w[k] = IF k = 0 THEN p ELSE h[w[k - 1]].ptr
    BY <2>2 DEF Follows
  <2>4. \A k \in 0 .. n - 1 : e[k] = w[k] /\ k \in 0 .. n
    BY <1>2, <1>5
  <2>5. e[n] = h[w[n - 1]].ptr
    BY <1>2
  <2> HIDE DEF e
  <2>6. \A k \in 0 .. n : e[k] = IF k = 0 THEN p ELSE h[e[k - 1]].ptr
    <3> SUFFICES ASSUME NEW k \in 0 .. n PROVE e[k] = IF k = 0 THEN p ELSE h[e[k - 1]].ptr
      OBVIOUS
    <3>1. k = n \/ k \in 0 .. n - 1
      BY <1>2
    <3>2. k # 0 => k - 1 \in 0 .. n - 1
      BY <1>2
    <3>3. k # 0 => e[k - 1] = w[k - 1]
      BY <2>4, <3>2
    <3>4. CASE k = n
      BY <1>5, <2>5, <3>3, <3>4
    <3>5. CASE k \in 0 .. n - 1
      BY <2>3, <2>4, <3>3, <3>5
    <3> QED BY <3>1, <3>4, <3>5
  <2>7. Follows(h, p, n, e)
    BY <2>6 DEF Follows, e
  <2> QED BY <1>3, <2>7
<1> QED BY <1>4, <1>5

LEMMA WalkSteps ==
  ASSUME NEW h, NEW p, Cardinality(DOMAIN h) \in Nat
  PROVE  /\ DOMAIN Walk(h, p) = 0 .. Cardinality(DOMAIN h)
         /\ Walk(h, p)[0] = p
         /\ \A k \in 1 .. Cardinality(DOMAIN h) : Walk(h, p)[k] = h[Walk(h, p)[k - 1]].ptr
<1> DEFINE n == Cardinality(DOMAIN h)
<1>1. Walk(h, p) = CHOOSE w : Follows(h, p, n, w)
  BY DEF Walk, Follows
<1>2. Follows(h, p, n, Walk(h, p))
  BY <1>1, WalksExist
<1> HIDE DEF n
<1> QED BY <1>2 DEF Follows, n

\* How many blocks of the list lie below x.
Below(L, x) == Cardinality({a \in L : a < x})

LEMMA NextRank ==
  ASSUME NEW h, NEW L, NEW C, Blocks(h, C), Ring(h, L), NEW a \in L
  PROVE  /\ IsFiniteSet(L) /\ L \in SUBSET Nat /\ Cardinality(L) \in Nat
         /\ Cardinality(L) <= Cardinality(DOMAIN h) /\ Cardinality(DOMAIN h) \in Nat
         /\ Below(L, a) \in 0 .. Cardinality(L) - 1
         /\ h[a].ptr \in L
         /\ Below(L, h[a].ptr) = IF Below(L, a) + 1 < Cardinality(L) THEN Below(L, a) + 1 ELSE 0
         /\ Below(L, a) + 1 = Cardinality(L) => h[a].ptr = base
<1>1. IsFiniteSet(L) /\ L \in SUBSET Nat /\ Cardinality(L) \in Nat
      /\ Cardinality(L) <= Cardinality(DOMAIN h) /\ Cardinality(DOMAIN h) \in Nat
  BY FS_Subset, FS_CardinalityType DEF Blocks, Ring
<1>2. Below(L, a) \in 0 .. Cardinality(L) - 1 /\ \A x \in L : Below(L, x) \in 0 .. Cardinality(L) - 1
  BY <1>1, Ranks DEF Below
<1>3. h[a].ptr \in L /\ h[a].size \in Nat
  BY DEF Ring, Blocks
<1>4. \A x : IsFiniteSet({b \in L : b < x})
  BY <1>1, FS_Subset
<1>5. Cardinality({b \in L : b < a} \cup {a}) = Below(L, a) + 1
  <2>1. a \notin {b \in L : b < a}
    BY <1>1
  <2> QED BY <1>4, <2>1, FS_AddElement DEF Below
<1>6. CASE a + h[a].size < h[a].ptr /\ \A b \in L : b <= a \/ h[a].ptr <= b
  <2>0. \A b \in L : b < h[a].ptr <=> b < a \/ b = a
    <3> TAKE b \in L
    <3>1. b \in Nat /\ a \in Nat /\ h[a].ptr \in Nat
      BY <1>1, <1>3
    <3> QED BY <1>3, <1>6, <3>1
  <2>1. {b \in L : b < h[a].ptr} = {b \in L : b < a} \cup {a}
    BY <2>0
  <2>2. Below(L, h[a].ptr) = Below(L, a) + 1
    BY <1>5, <2>1 DEF Below
  <2>3. Below(L, h[a].ptr) <= Cardinality(L) - 1
    BY <1>2, <1>3
  <2> QED BY <1>1, <1>2, <1>3, <2>2, <2>3
<1>7. CASE h[a].ptr = base /\ \A b \in L : b <= a
  <2>0. \A b \in L : b < a \/ b = a
    <3> TAKE b \in L
    <3>1. b \in Nat /\ a \in Nat /\ b <= a
      BY <1>1, <1>7
    <3> QED BY <3>1
  <2>1. {b \in L : b < a} \cup {a} = L
    BY <2>0
  <2>2. Below(L, a) + 1 = Cardinality(L)
    BY <1>5, <2>1
  <2>a. \A b \in L : b \in Nat /\ ~(b < base)
    BY <1>1 DEF base
  <2>3. {b \in L : b < base} = {}
    BY <2>a
  <2>4. Below(L, base) = 0
    BY <2>3, FS_EmptySet DEF Below
  <2> QED BY <1>1, <1>2, <1>3, <1>7, <2>2, <2>4
<1> QED BY <1>6, <1>7 DEF Ring

\* A walk from p passes the list in order and begins again.
LEMMA WalkInOrder ==
  ASSUME NEW h, NEW L, NEW C, Blocks(h, C), Ring(h, L), NEW p \in L
  PROVE  \A k \in 0 .. Cardinality(L) :
           /\ k \in DOMAIN Walk(h, p) /\ Walk(h, p)[k] \in L
           /\ Below(L, Walk(h, p)[k]) =
                IF Below(L, p) + k < Cardinality(L) THEN Below(L, p) + k ELSE Below(L, p) + k - Cardinality(L)
<1> DEFINE w == Walk(h, p)
           n == Cardinality(L)
           m == Cardinality(DOMAIN h)
           r == Below(L, p)
           Right(k) == /\ k \in DOMAIN w /\ w[k] \in L
                       /\ Below(L, w[k]) = IF r + k < n THEN r + k ELSE r + k - n
           Bad == {k \in 0 .. n : ~Right(k)}
<1>1. n \in Nat /\ m \in Nat /\ n <= m /\ r \in 0 .. n - 1 /\ r \in Nat
  BY NextRank
<1>2. DOMAIN w = 0 .. m /\ w[0] = p /\ \A k \in 1 .. m : w[k] = h[w[k - 1]].ptr
  BY <1>1, WalkSteps
<1> HIDE DEF w, n, m, r
<1> SUFFICES ASSUME Bad # {} PROVE FALSE
  BY DEF w, n, r
<1>3. PICK k \in Bad : \A j \in Bad : k <= j
  <2>1. Bad \in SUBSET Nat
    BY <1>1
  <2> HIDE DEF Bad
  <2> QED BY <2>1, LeastElement
<1>4. k \in 0 .. n /\ k \in Nat /\ ~Right(k) /\ k \in DOMAIN w
  BY <1>1, <1>2, <1>3
<1>5. CASE k = 0
  <2>1. r + 0 < n /\ Below(L, w[k]) = r + 0
    BY <1>1, <1>2, <1>5 DEF r
  <2> QED BY <1>2, <1>4, <1>5, <2>1
<1>6. CASE k # 0
  <2>1. k - 1 \in 0 .. n /\ k - 1 < k /\ k \in 1 .. m
    BY <1>1, <1>4, <1>6
  <2>2. Right(k - 1)
    BY <1>3, <1>4, <2>1
  <2> DEFINE a == w[k - 1]
  <2>3. a \in L /\ w[k] = h[a].ptr
    BY <1>2, <2>1, <2>2
  <2>4. /\ h[a].ptr \in L
        /\ Below(L, a) \in 0 .. n - 1
        /\ Below(L, h[a].ptr) = IF Below(L, a) + 1 < n THEN Below(L, a) + 1 ELSE 0
    BY <2>3, NextRank DEF n
  <2>5. Below(L, a) = IF r + (k - 1) < n THEN r + (k - 1) ELSE r + (k - 1) - n
    BY <2>2
  <2> HIDE DEF a
  <2>6. Below(L, w[k]) = IF r + k < n THEN r + k ELSE r + k - n
    BY <1>1, <1>4, <2>3, <2>4, <2>5
  <2> QED BY <1>4, <2>3, <2>4, <2>6
<1> QED BY <1>5, <1>6

\* One turn visits every block of the list, comes back to p for the first time
\* after as many steps as the list has blocks, and does not leave the list.
Visits(h, L, p, w, n) ==
  /\ n \in Nat /\ n >= 1 /\ 0 .. n \subseteq DOMAIN w /\ DOMAIN w \in SUBSET Nat
  /\ w[0] = p /\ w[n] = p
  /\ \A k \in 0 .. n : w[k] \in L
  /\ \A k \in 1 .. n : w[k] = h[w[k - 1]].ptr
  /\ \A k \in 1 .. n - 1 : w[k] # p
  /\ \A x \in L : \E k \in 1 .. n : w[k] = x

LEMMA WalkVisits ==
  ASSUME NEW h, NEW L, NEW C, Blocks(h, C), Ring(h, L), NEW p \in L
  PROVE  Visits(h, L, p, Walk(h, p), Cardinality(L))
<1> DEFINE w == Walk(h, p)
           n == Cardinality(L)
           r == Below(L, p)
           At(k) == IF r + k < n THEN r + k ELSE r + k - n
<1>1. n \in Nat /\ r \in 0 .. n - 1 /\ r \in Nat /\ Cardinality(DOMAIN h) \in Nat /\ n <= Cardinality(DOMAIN h)
      /\ IsFiniteSet(L) /\ L \in SUBSET Nat
  BY NextRank
<1>2. /\ DOMAIN w = 0 .. Cardinality(DOMAIN h) /\ w[0] = p
      /\ \A k \in 1 .. Cardinality(DOMAIN h) : w[k] = h[w[k - 1]].ptr
  BY <1>1, WalkSteps
<1>3. \A k \in 0 .. n : w[k] \in L /\ Below(L, w[k]) = At(k)
  BY WalkInOrder
<1>4. \A x, y \in L : Below(L, x) = Below(L, y) => x = y
  BY <1>1, Ranks DEF Below
<1>5. \A x \in L : Below(L, x) \in 0 .. n - 1
  BY NextRank
<1> HIDE DEF w, n
<1>6. w[n] = p
  <2>1. n \in 0 .. n /\ At(n) = r
    <3> HIDE DEF r
    <3> QED BY <1>1
  <2> QED BY <1>3, <1>4, <2>1
<1>7. ASSUME NEW k \in 1 .. n - 1 PROVE w[k] # p
  <2>1. k \in 0 .. n /\ At(k) # r
    <3> HIDE DEF r
    <3> QED BY <1>1
  <2> QED BY <1>3, <2>1
<1>8. ASSUME NEW x \in L PROVE \E k \in 1 .. n : w[k] = x
  <2> DEFINE b == Below(L, x)
             k == IF b > r THEN b - r ELSE b - r + n
  <2>1. b \in 0 .. n - 1
    BY <1>5
  <2>2. k \in 1 .. n /\ k \in 0 .. n /\ At(k) = b
    <3> HIDE DEF r, b
    <3> QED BY <1>1, <2>1
  <2>3. w[k] = x
    BY <1>3, <1>4, <2>2
  <2> QED BY <2>2, <2>3
<1>9. n >= 1 /\ 0 .. n \subseteq DOMAIN w /\ DOMAIN w \in SUBSET Nat /\ \A k \in 1 .. n : k \in 1 .. Cardinality(DOMAIN h)
  BY <1>1, <1>2
<1> QED BY <1>1, <1>2, <1>3, <1>6, <1>7, <1>8, <1>9 DEF w, n, Visits

\* The loop of free finds the block of the list below bp.
LEMMA PlaceOfFree ==
  ASSUME NEW h, NEW L, NEW C, Blocks(h, C), Ring(h, L), NEW start \in L, NEW bp \in DOMAIN h \ L
  PROVE  \E p \in L : /\ p < bp /\ \A b \in L : b <= p \/ bp < b
                      /\ freed(h, start, bp) =
                           [hdr |-> join_lower(join_upper(h, p, bp), p, bp), freeptr |-> p]
<1> DEFINE w == Walk(h, start)
           K == {k \in DOMAIN w : between(h, w[k], bp)}
           p == w[Min(K)]
           n == Cardinality(L)
<1>1. /\ n \in Nat /\ 0 .. n \subseteq DOMAIN w /\ DOMAIN w \in SUBSET Nat
      /\ \A k \in 0 .. n : w[k] \in L
      /\ \A x \in L : \E k \in 1 .. n : w[k] = x
  <2>1. Visits(h, L, start, w, n)
    BY WalkVisits
  <2> HIDE DEF w, n
  <2> QED BY <2>1 DEF Visits
<1>2. L \in SUBSET Nat /\ bp \in Nat /\ base \in L /\ bp # base /\ IsFiniteSet(L)
  BY FS_Subset DEF Blocks, Ring
<1>3. PICK x \in L : x < bp /\ \A b \in L : b <= x \/ bp < b
  <2> DEFINE B == {b \in L : b < bp}
  <2>1. B \in SUBSET Nat /\ IsFiniteSet(B)
    BY <1>2, FS_Subset
  <2>2. base \in B
    BY <1>2 DEF base
  <2>3. Max(B) \in B /\ \A y \in B : y <= Max(B)
    BY <2>1, <2>2, MaxOfSet
  <2>4. \A b \in L : b \in Nat /\ b # bp
    BY <1>2
  <2>5. \A b \in L : b <= Max(B) \/ bp < b
    BY <1>2, <2>3, <2>4
  <2> QED BY <2>3, <2>5
<1>4. h[x].ptr \in L /\ h[x].ptr \in Nat /\ x \in Nat /\ h[x].ptr # bp /\ h[x].size \in Nat
  BY <1>2 DEF Ring, Blocks
<1>5. between(h, x, bp)
  <2>1. CASE x + h[x].size < h[x].ptr /\ \A b \in L : b <= x \/ h[x].ptr <= b
    <3>1. h[x].ptr <= x \/ bp < h[x].ptr
      BY <1>3, <1>4
    <3> QED BY <1>2, <1>3, <1>4, <2>1, <3>1 DEF between
  <2>2. CASE h[x].ptr = base
    BY <1>2, <1>3, <1>4, <2>2 DEF between, base
  <2> QED BY <2>1, <2>2 DEF Ring
<1>6. PICK j \in 1 .. n : w[j] = x
  BY <1>1
<1> HIDE DEF w, n
<1>7. j \in K /\ K \in SUBSET Nat
  BY <1>1, <1>5, <1>6
<1>8. Min(K) \in K /\ Min(K) <= j
  BY <1>7, MinOfSet
<1>9. p \in L /\ between(h, p, bp)
  <2>1. Min(K) \in 0 .. n
    BY <1>1, <1>8
  <2> QED BY <1>1, <1>8, <2>1
<1>10. freed(h, start, bp) = [hdr |-> join_lower(join_upper(h, p, bp), p, bp), freeptr |-> p]
  BY DEF freed, w
<1> HIDE DEF p
<1>11. p \in Nat /\ h[p].ptr \in L /\ h[p].ptr \in Nat /\ h[p].size \in Nat
  BY <1>2, <1>9 DEF Ring, Blocks
<1>12. p < bp /\ \A b \in L : b <= p \/ bp < b
  <2>1. CASE p + h[p].size < h[p].ptr /\ \A b \in L : b <= p \/ h[p].ptr <= b
    <3>1. p < bp /\ bp < h[p].ptr
      BY <1>2, <1>9, <1>11, <2>1 DEF between
    <3>2. \A b \in L : b \in Nat
      BY <1>2
    <3> QED BY <1>2, <1>11, <2>1, <3>1, <3>2
  <2>2. CASE h[p].ptr = base /\ \A b \in L : b <= p
    <3>1. p < bp
      BY <1>2, <1>9, <1>11, <2>2 DEF between, base
    <3> QED BY <2>2, <3>1
  <2> QED BY <1>9, <2>1, <2>2 DEF Ring
<1> QED BY <1>9, <1>10, <1>12

\* What changes of headers keep the blocks in order.
LEMMA RelinkBlocks ==
  ASSUME NEW h, NEW g, NEW C, Blocks(h, C), DOMAIN g = DOMAIN h,
         g \in [DOMAIN h -> [ptr : Nat, size : Nat]], \A b \in DOMAIN h : g[b].size = h[b].size
  PROVE  Blocks(g, C)
<1>1. Covered(g) = Covered(h)
  BY DEF Covered
<1> QED BY <1>1 DEF Blocks

LEMMA MergeBlocks ==
  ASSUME NEW h, NEW C, Blocks(h, C), NEW lo \in DOMAIN h, NEW hi \in DOMAIN h,
         hi # base, lo + h[lo].size = hi, lo # base, NEW x \in Nat
  PROVE  LET g == [a \in DOMAIN h \ {hi} |->
                     IF a = lo THEN [ptr |-> x, size |-> h[lo].size + h[hi].size] ELSE h[a]]
         IN  Blocks(g, C) /\ lo \in DOMAIN g
<1> DEFINE D == DOMAIN h
           g == [a \in D \ {hi} |-> IF a = lo THEN [ptr |-> x, size |-> h[lo].size + h[hi].size] ELSE h[a]]
<1>1. D \in SUBSET Nat /\ IsFiniteSet(D) /\ h \in [D -> [ptr : Nat, size : Nat]] /\ base \in D
      /\ h[base].size = 0 /\ Covered(h) = C
  BY DEF Blocks
<1>2. \A a \in D : a \in Nat /\ h[a].size \in Nat /\ h[a] \in [ptr : Nat, size : Nat]
  BY <1>1
<1>3. \A a \in D \ {base} : h[a].size >= 1
  BY DEF Blocks
<1>4. \A a, b \in D : a < b => a + h[a].size <= b
  BY DEF Blocks
<1>5. lo \in Nat /\ hi \in Nat /\ h[lo].size >= 1 /\ h[hi].size >= 1 /\ lo # hi /\ lo < hi
  BY <1>2, <1>3
<1>6. DOMAIN g = D \ {hi} /\ g[lo].size = h[lo].size + h[hi].size /\ lo \in DOMAIN g
  BY <1>5
<1>7. \A a \in D \ {hi} : a # lo => g[a] = h[a]
  OBVIOUS
<1>8. g \in [D \ {hi} -> [ptr : Nat, size : Nat]]
  BY <1>2, <1>5
<1>9. IsFiniteSet(D \ {hi})
  BY <1>1, FS_Subset
<1>10. base \in D \ {hi} /\ g[base].size = 0
  BY <1>1, <1>7
<1> HIDE DEF g
<1>11. \A a \in (D \ {hi}) \ {base} : g[a].size >= 1
  <2> TAKE a \in (D \ {hi}) \ {base}
  <2>1. CASE a = lo
    BY <1>2, <1>5, <1>6, <2>1
  <2>2. CASE a # lo
    BY <1>3, <1>7, <2>2
  <2> QED BY <2>1, <2>2
<1>12. ASSUME NEW a \in D \ {hi}, NEW b \in D \ {hi}, a < b PROVE a + g[a].size <= b
  <2>0. a \in Nat /\ b \in Nat
    BY <1>2
  <2>1. CASE a = lo
    <3>1. hi <= b
      BY <1>4, <1>12, <2>1
    <3>2. hi < b
      BY <1>5, <2>0, <3>1
    <3>3. hi + h[hi].size <= b
      BY <1>4, <3>2
    <3> QED BY <1>2, <1>6, <2>0, <2>1, <3>3
  <2>2. CASE a # lo
    BY <1>4, <1>7, <1>12, <2>2
  <2> QED BY <2>1, <2>2
<1>13. Covered(g) = C
  <2>1. ASSUME NEW u \in Nat
        PROVE  (\E a \in D : a <= u /\ u < a + h[a].size) <=> \E a \in D \ {hi} : a <= u /\ u < a + g[a].size
    <3>1. ASSUME NEW a \in D, a <= u /\ u < a + h[a].size PROVE \E c \in D \ {hi} : c <= u /\ u < c + g[c].size
      <4>1. CASE a \in {lo, hi}
        <5>1. lo <= u /\ u < lo + g[lo].size
          BY <1>2, <1>5, <1>6, <3>1, <4>1
        <5> QED BY <1>6, <5>1
      <4>2. CASE a \notin {lo, hi}
        BY <1>7, <3>1, <4>2
      <4> QED BY <4>1, <4>2
    <3>2. ASSUME NEW a \in D \ {hi}, a <= u /\ u < a + g[a].size PROVE \E c \in D : c <= u /\ u < c + h[c].size
      <4>1. CASE a = lo
        <5>1. u < hi \/ (hi <= u /\ u < hi + h[hi].size)
          BY <1>2, <1>5, <1>6, <3>2, <4>1
        <5> QED BY <3>2, <4>1, <5>1
      <4>2. CASE a # lo
        BY <1>7, <3>2, <4>2
      <4> QED BY <4>1, <4>2
    <3> QED BY <3>1, <3>2
  <2>2. Covered(g) = Covered(h)
    BY <1>6, <2>1 DEF Covered
  <2> QED BY <1>1, <2>2
<1>14. Blocks(g, C)
  BY <1>1, <1>6, <1>8, <1>9, <1>10, <1>11, <1>12, <1>13 DEF Blocks
<1> QED BY <1>6, <1>14 DEF g

\* Between the two joins bp stands behind p and leads on, but p does not yet
\* lead to it.
Half(g, M, p, bp) ==
  /\ M \subseteq DOMAIN g /\ base \in M /\ p \in M /\ bp \in DOMAIN g \ M
  /\ p < bp /\ \A b \in M : b <= p \/ bp < b
  /\ g[bp].ptr \in M
  /\ \/ bp + g[bp].size < g[bp].ptr /\ \A b \in M : b <= p \/ g[bp].ptr <= b
     \/ g[bp].ptr = base /\ \A b \in M : b <= p
  /\ \A a \in M \ {p} :
       /\ g[a].ptr \in M
       /\ \/ a + g[a].size < g[a].ptr /\ \A b \in M : b <= a \/ g[a].ptr <= b
          \/ g[a].ptr = base /\ \A b \in M : b <= a

LEMMA JoinUpper ==
  ASSUME NEW h, NEW L, NEW C, Blocks(h, C), Ring(h, L), NEW p \in L, NEW bp \in DOMAIN h \ L,
         p < bp, \A b \in L : b <= p \/ bp < b
  PROVE  LET g == join_upper(h, p, bp)
         IN  \E M : /\ Blocks(g, C) /\ Half(g, M, p, bp)
                    /\ DOMAIN g \ M = DOMAIN h \ L
                    /\ g[bp].size >= h[bp].size
<1> DEFINE g == join_upper(h, p, bp)
           q == h[p].ptr
<1>1. /\ L \subseteq DOMAIN h /\ base \in L /\ q \in L
      /\ \A a \in DOMAIN h : a \in Nat /\ h[a].size \in Nat /\ h[a].ptr \in Nat
  BY DEF Blocks, Ring
<1>2. \A a \in L :
       /\ h[a].ptr \in L
       /\ \/ a + h[a].size < h[a].ptr /\ \A b \in L : b <= a \/ h[a].ptr <= b
          \/ h[a].ptr = base /\ \A b \in L : b <= a
  BY DEF Ring
<1>3. bp \in Nat /\ p \in Nat /\ q \in Nat /\ q # bp /\ bp # base /\ h[bp].size \in Nat /\ h[bp].size >= 1
      /\ h[q].size \in Nat /\ h[q].ptr \in Nat /\ bp > 0
  BY <1>1 DEF Blocks, base
<1>4. bp + h[bp].size <= q \/ (q = base /\ \A b \in L : b <= p)
  <2>1. CASE p + h[p].size < q /\ \A b \in L : b <= p \/ q <= b
    <3>1. bp < q
      BY <1>1, <1>3, <2>1
    <3> QED BY <1>1, <3>1 DEF Blocks
  <2> QED BY <1>2, <2>1
<1>5. CASE bp + h[bp].size = q
  <2> DEFINE M == L \ {q}
  <2>1. q # base /\ p < q /\ \A b \in L : b <= p \/ q <= b
    <3>1. q # base
      BY <1>3, <1>5 DEF base
    <3>2. p + h[p].size < q /\ \A b \in L : b <= p \/ q <= b
      BY <1>2, <3>1
    <3>3. h[p].size \in Nat
      BY <1>1
    <3> HIDE DEF q
    <3> QED BY <1>3, <3>1, <3>2, <3>3
  <2>2. g = [a \in DOMAIN h \ {q} |->
               IF a = bp THEN [ptr |-> h[q].ptr, size |-> h[bp].size + h[q].size] ELSE h[a]]
    BY <1>5 DEF join_upper
  <2> HIDE DEF q
  <2>3. Blocks(g, C)
    BY <1>1, <1>3, <1>5, <2>1, <2>2, MergeBlocks
  <2>4. /\ DOMAIN g = DOMAIN h \ {q} /\ bp \in DOMAIN g
        /\ g[bp].ptr = h[q].ptr /\ g[bp].size = h[bp].size + h[q].size
        /\ \A a \in DOMAIN g : a # bp => g[a] = h[a]
    BY <1>3, <2>2
  <2>5. DOMAIN g \ M = DOMAIN h \ L /\ M \subseteq DOMAIN g /\ base \in M /\ p \in M /\ bp \in DOMAIN g \ M
    <3>1. q \in DOMAIN h /\ p # q
      BY <1>1, <1>3, <2>1
    <3> QED BY <1>1, <1>3, <2>1, <2>4, <3>1
  <2>6. \A b \in M : b \in Nat /\ (b <= p \/ q < b)
    <3> TAKE b \in M
    <3>1. b \in Nat /\ (b <= p \/ q <= b) /\ b # q
      BY <1>1, <2>1
    <3> QED BY <1>3, <3>1
  <2>7. h[q].ptr \in M /\ (\/ q + h[q].size < h[q].ptr /\ \A b \in L : b <= q \/ h[q].ptr <= b
                           \/ h[q].ptr = base /\ \A b \in L : b <= q)
    <3>1. \/ q + h[q].size < h[q].ptr /\ \A b \in L : b <= q \/ h[q].ptr <= b
          \/ h[q].ptr = base /\ \A b \in L : b <= q
      BY <1>1, <1>2
    <3>2. h[q].ptr # q
      BY <1>3, <2>1, <3>1
    <3> QED BY <1>1, <1>2, <3>1, <3>2
  <2>8. \/ bp + g[bp].size < g[bp].ptr /\ \A b \in M : b <= p \/ g[bp].ptr <= b
        \/ g[bp].ptr = base /\ \A b \in M : b <= p
    <3>1. CASE q + h[q].size < h[q].ptr /\ \A b \in L : b <= q \/ h[q].ptr <= b
      <4>1. \A b \in M : b <= p \/ g[bp].ptr <= b
        BY <1>3, <2>4, <2>6, <3>1
      <4>2. bp + g[bp].size < g[bp].ptr
        BY <1>3, <1>5, <2>4, <3>1
      <4> QED BY <4>1, <4>2
    <3>2. CASE h[q].ptr = base /\ \A b \in L : b <= q
      BY <1>3, <2>4, <2>6, <3>2
    <3> QED BY <2>7, <3>1, <3>2
  <2>9. ASSUME NEW a \in M \ {p}
        PROVE  /\ g[a].ptr \in M
               /\ \/ a + g[a].size < g[a].ptr /\ \A b \in M : b <= a \/ g[a].ptr <= b
                  \/ g[a].ptr = base /\ \A b \in M : b <= a
    <3>1. g[a] = h[a] /\ a \in L /\ a \in Nat /\ h[a].size \in Nat
      BY <1>1, <2>4, <2>5
    <3>2. h[a].ptr # q
      <4> SUFFICES ASSUME h[a].ptr = q PROVE FALSE
        OBVIOUS
      <4>1. a + h[a].size < q /\ (p <= a \/ q <= p)
        BY <1>2, <2>1, <3>1
      <4>2. a <= p \/ q <= a
        BY <2>1, <3>1
      <4> QED BY <1>3, <2>1, <3>1, <4>1, <4>2
    <3> QED BY <1>2, <3>1, <3>2
  <2>10. \A b \in M : b <= p \/ bp < b
    OBVIOUS
  <2>11. Half(g, M, p, bp)
    BY <2>4, <2>5, <2>7, <2>8, <2>9, <2>10 DEF Half
  <2>12. g[bp].size >= h[bp].size
    BY <1>3, <2>4
  <2> QED BY <2>3, <2>5, <2>11, <2>12
<1>6. CASE bp + h[bp].size # q
  <2>1. g = [h EXCEPT ![bp].ptr = q] /\ bp \in DOMAIN h
    BY <1>6 DEF join_upper
  <2> HIDE DEF g, q
  <2>2. /\ Blocks(g, C) /\ DOMAIN g = DOMAIN h
        /\ \A b \in DOMAIN h : g[b].size = h[b].size
        /\ \A b \in DOMAIN h : g[b].ptr = IF b = bp THEN q ELSE h[b].ptr
    <3>1. h \in [DOMAIN h -> [ptr : Nat, size : Nat]]
      BY DEF Blocks
    <3>2. /\ g \in [DOMAIN h -> [ptr : Nat, size : Nat]] /\ DOMAIN g = DOMAIN h
          /\ \A b \in DOMAIN h : g[b].size = h[b].size
          /\ \A b \in DOMAIN h : g[b].ptr = IF b = bp THEN q ELSE h[b].ptr
      BY <1>3, <2>1, <3>1
    <3> QED BY <3>2, RelinkBlocks
  <2>3. \/ bp + g[bp].size < g[bp].ptr /\ \A b \in L : b <= p \/ g[bp].ptr <= b
        \/ g[bp].ptr = base /\ \A b \in L : b <= p
    <3>1. g[bp].ptr = q /\ g[bp].size = h[bp].size
      BY <2>2
    <3>2. CASE p + h[p].size < q /\ \A b \in L : b <= p \/ q <= b
      <4>1. bp + h[bp].size < q \/ (q = base /\ \A b \in L : b <= p)
        BY <1>3, <1>4, <1>6
      <4> QED BY <3>1, <3>2, <4>1
    <3> QED BY <1>2, <3>1, <3>2 DEF q
  <2>4. \A a \in L \ {p} :
         /\ g[a].ptr \in L
         /\ \/ a + g[a].size < g[a].ptr /\ \A b \in L : b <= a \/ g[a].ptr <= b
            \/ g[a].ptr = base /\ \A b \in L : b <= a
    <3> TAKE a \in L \ {p}
    <3>1. g[a].ptr = h[a].ptr /\ g[a].size = h[a].size
      BY <1>1, <2>2
    <3> QED BY <1>2, <3>1
  <2>5. Half(g, L, p, bp)
    BY <1>1, <2>2, <2>3, <2>4 DEF Half
  <2>6. g[bp].size >= h[bp].size
    BY <1>3, <2>2
  <2> QED BY <2>2, <2>5, <2>6 DEF g
<1> QED BY <1>5, <1>6

LEMMA JoinLower ==
  ASSUME NEW g, NEW M, NEW C, NEW p, NEW bp, Blocks(g, C), Half(g, M, p, bp)
  PROVE  LET f == join_lower(g, p, bp)
         IN  \E N : /\ Blocks(f, C) /\ Ring(f, N) /\ p \in N
                    /\ DOMAIN f \ N = (DOMAIN g \ M) \ {bp}
                    /\ \E x \in N : f[x].size >= g[bp].size
<1> DEFINE f == join_lower(g, p, bp)
           q == g[bp].ptr
<1>1. /\ M \subseteq DOMAIN g /\ base \in M /\ p \in M /\ bp \in DOMAIN g \ M
      /\ p < bp /\ (\A b \in M : b <= p \/ bp < b) /\ q \in M
  BY DEF Half
<1>2. \/ bp + g[bp].size < q /\ \A b \in M : b <= p \/ q <= b
      \/ q = base /\ \A b \in M : b <= p
  BY DEF Half
<1>3. \A a \in M \ {p} :
       /\ g[a].ptr \in M
       /\ \/ a + g[a].size < g[a].ptr /\ \A b \in M : b <= a \/ g[a].ptr <= b
          \/ g[a].ptr = base /\ \A b \in M : b <= a
  BY DEF Half
<1>4. \A a \in DOMAIN g : a \in Nat /\ g[a].size \in Nat /\ g[a].ptr \in Nat
  BY DEF Blocks
<1>5. p \in Nat /\ bp \in Nat /\ q \in Nat /\ bp # base /\ g[base].size = 0 /\ p \in DOMAIN g
      /\ p + g[p].size <= bp /\ g[p].size \in Nat /\ g[bp].size \in Nat /\ g[bp].size >= 1 /\ bp > 0
  BY <1>1, <1>4 DEF Blocks, base
<1>6. CASE p + g[p].size = bp
  <2>1. f = [a \in DOMAIN g \ {bp} |->
               IF a = p THEN [ptr |-> q, size |-> g[p].size + g[bp].size] ELSE g[a]]
    BY <1>6 DEF join_lower
  <2>2. p # base
    BY <1>5, <1>6 DEF base
  <2>3. Blocks(f, C)
    BY <1>1, <1>5, <1>6, <2>1, <2>2, MergeBlocks
  <2>4. /\ DOMAIN f = DOMAIN g \ {bp} /\ f[p].ptr = q /\ f[p].size = g[p].size + g[bp].size
        /\ \A a \in M \ {p} : f[a] = g[a]
    BY <1>1, <1>5, <2>1
  <2> HIDE DEF f
  <2>5. \A a \in M :
         /\ f[a].ptr \in M
         /\ \/ a + f[a].size < f[a].ptr /\ \A b \in M : b <= a \/ f[a].ptr <= b
            \/ f[a].ptr = base /\ \A b \in M : b <= a
    <3> TAKE a \in M
    <3>1. CASE a = p
      <4>1. p + f[p].size = bp + g[bp].size
        BY <1>5, <1>6, <2>4
      <4> QED BY <1>1, <1>2, <2>4, <3>1, <4>1
    <3>2. CASE a # p
      <4>1. f[a] = g[a]
        BY <2>4, <3>2
      <4> QED BY <1>3, <3>2, <4>1
    <3> QED BY <3>1, <3>2
  <2>6. Ring(f, M)
    BY <1>1, <2>4, <2>5 DEF Ring
  <2>7. DOMAIN f \ M = (DOMAIN g \ M) \ {bp}
    BY <2>4
  <2>8. f[p].size >= g[bp].size
    BY <1>5, <2>4
  <2> QED BY <1>1, <2>3, <2>6, <2>7, <2>8 DEF f
<1>7. CASE p + g[p].size # bp
  <2> DEFINE N == M \cup {bp}
  <2>1. f = [g EXCEPT ![p].ptr = bp]
    BY <1>7 DEF join_lower
  <2> HIDE DEF f
  <2>2. /\ Blocks(f, C) /\ DOMAIN f = DOMAIN g
        /\ \A b \in DOMAIN g : f[b].size = g[b].size
        /\ \A b \in DOMAIN g : f[b].ptr = IF b = p THEN bp ELSE g[b].ptr
    <3>1. g \in [DOMAIN g -> [ptr : Nat, size : Nat]]
      BY DEF Blocks
    <3>2. /\ f \in [DOMAIN g -> [ptr : Nat, size : Nat]] /\ DOMAIN f = DOMAIN g
          /\ \A b \in DOMAIN g : f[b].size = g[b].size
          /\ \A b \in DOMAIN g : f[b].ptr = IF b = p THEN bp ELSE g[b].ptr
      BY <1>5, <2>1, <3>1
    <3> QED BY <3>2, RelinkBlocks
  <2>3. ASSUME NEW a \in N
        PROVE  /\ f[a].ptr \in N
               /\ \/ a + f[a].size < f[a].ptr /\ \A b \in N : b <= a \/ f[a].ptr <= b
                  \/ f[a].ptr = base /\ \A b \in N : b <= a
    <3>0. \A b \in N : b \in Nat
      BY <1>1, <1>4
    <3>1. CASE a = p
      <4>1. f[a].ptr = bp /\ a + f[a].size < bp
        BY <1>5, <1>7, <2>2, <3>1
      <4>2. \A b \in N : b <= a \/ bp <= b
        BY <1>1, <3>0, <3>1
      <4> QED BY <4>1, <4>2
    <3>2. CASE a = bp
      <4>1. f[a].ptr = q /\ f[a].size = g[bp].size /\ q \in N
        BY <1>1, <2>2, <3>2
      <4>2. CASE bp + g[bp].size < q /\ \A b \in M : b <= p \/ q <= b
        <5>1. \A b \in N : b <= bp \/ q <= b
          BY <1>1, <1>5, <3>0, <4>2
        <5> QED BY <3>2, <4>1, <4>2, <5>1
      <4>3. CASE q = base /\ \A b \in M : b <= p
        <5>1. \A b \in N : b <= bp
          BY <1>1, <1>5, <3>0, <4>3
        <5> QED BY <3>2, <4>1, <4>3, <5>1
      <4> QED BY <1>2, <4>2, <4>3
    <3>3. CASE a \in M \ {p}
      <4>1. f[a].ptr = g[a].ptr /\ f[a].size = g[a].size /\ g[a].ptr \in N /\ a \in Nat
            /\ g[a].ptr \in Nat /\ g[a].size \in Nat
        BY <1>1, <1>3, <1>4, <2>2, <3>3
      <4>2. CASE a + g[a].size < g[a].ptr /\ \A b \in M : b <= a \/ g[a].ptr <= b
        <5>1. bp <= a \/ g[a].ptr <= bp
          <6>1. p <= a \/ g[a].ptr <= p
            BY <1>1, <4>2
          <6>2. a <= p \/ bp < a
            BY <1>1, <3>3
          <6> QED BY <1>1, <1>5, <3>3, <4>1, <6>1, <6>2
        <5> QED BY <4>1, <4>2, <5>1
      <4>3. CASE g[a].ptr = base /\ \A b \in M : b <= a
        <5>1. bp <= a
          BY <1>1, <1>5, <3>3, <4>1, <4>3
        <5> QED BY <4>1, <4>3, <5>1
      <4> QED BY <1>3, <3>3, <4>2, <4>3
    <3> QED BY <3>1, <3>2, <3>3
  <2>4. Ring(f, N)
    BY <1>1, <2>2, <2>3 DEF Ring
  <2>5. DOMAIN f \ N = (DOMAIN g \ M) \ {bp} /\ bp \in N /\ p \in N
    BY <1>1, <2>2
  <2>6. f[bp].size >= g[bp].size
    BY <1>1, <1>5, <2>2
  <2> QED BY <2>2, <2>4, <2>5, <2>6 DEF f
<1> QED BY <1>6, <1>7

-----------------------------------------------------------------------------
(* malloc and free. *)

\* The heap h with freeptr fp, of which the program holds the blocks V.
Sound(h, fp, V, C) ==
  Blocks(h, C) /\ V \subseteq DOMAIN h /\ Ring(h, DOMAIN h \ V) /\ fp \in DOMAIN h \ V

LEMMA FreedKeeps ==
  ASSUME NEW h, NEW fp, NEW V, NEW C, Sound(h, fp, V, C), NEW bp \in V
  PROVE  LET f == freed(h, fp, bp)
         IN  /\ Sound(f.hdr, f.freeptr, V \ {bp}, C)
             /\ \E x \in DOMAIN f.hdr \ (V \ {bp}) : f.hdr[x].size >= h[bp].size
<1> DEFINE L == DOMAIN h \ V
           W == V \ {bp}
<1>1. Blocks(h, C) /\ Ring(h, L) /\ fp \in L /\ bp \in DOMAIN h \ L /\ DOMAIN h \ L = V
  BY DEF Sound
<1> HIDE DEF L
<1>2. PICK p \in L : /\ p < bp /\ \A b \in L : b <= p \/ bp < b
                     /\ freed(h, fp, bp) =
                          [hdr |-> join_lower(join_upper(h, p, bp), p, bp), freeptr |-> p]
  BY <1>1, PlaceOfFree
<1> DEFINE g == join_upper(h, p, bp)
           f == join_lower(g, p, bp)
<1>3. PICK M : /\ Blocks(g, C) /\ Half(g, M, p, bp)
               /\ DOMAIN g \ M = DOMAIN h \ L /\ g[bp].size >= h[bp].size
  BY <1>1, <1>2, JoinUpper
<1> HIDE DEF g
<1>4. PICK N : /\ Blocks(f, C) /\ Ring(f, N) /\ p \in N
               /\ DOMAIN f \ N = (DOMAIN g \ M) \ {bp}
               /\ \E x \in N : f[x].size >= g[bp].size
  BY <1>3, JoinLower
<1>5. freed(h, fp, bp).hdr = f /\ freed(h, fp, bp).freeptr = p
  BY <1>2 DEF g
<1> HIDE DEF f
<1>6. N \subseteq DOMAIN f /\ DOMAIN f \ N = W
  BY <1>1, <1>3, <1>4 DEF Ring
<1>7. N = DOMAIN f \ W /\ W \subseteq DOMAIN f
  BY <1>6
<1>8. Sound(f, p, W, C)
  BY <1>4, <1>7 DEF Sound
<1>9. \E x \in DOMAIN f \ W : f[x].size >= h[bp].size
  <2>1. PICK x \in N : f[x].size >= g[bp].size
    BY <1>4
  <2>2. f[x].size \in Nat /\ g[bp].size \in Nat /\ h[bp].size \in Nat
    <3>1. x \in DOMAIN f /\ bp \in DOMAIN g /\ bp \in DOMAIN h
      BY <1>1, <1>3, <1>6 DEF Half
    <3> QED BY <1>1, <1>3, <1>4, <3>1 DEF Blocks
  <2>3. f[x].size >= h[bp].size
    BY <1>3, <2>1, <2>2
  <2> QED BY <1>7, <2>1, <2>3
<1> QED BY <1>5, <1>8, <1>9

\* What Enough finds: a block of the list that is large enough, and the one
\* that leads to it.
LEMMA EnoughFinds ==
  ASSUME NEW s, NEW V, NEW C, Sound(s.hdr, s.freeptr, V, C), NEW n \in Nat
  PROVE  LET h == s.hdr
             w == Walk(h, s.freeptr)
             k == Min(Enough(s, n))
         IN  /\ (\E x \in DOMAIN h \ V : h[x].size >= n) => Enough(s, n) # {}
             /\ Enough(s, n) # {} => /\ w[k] \in DOMAIN h \ V /\ w[k - 1] \in DOMAIN h \ V
                                     /\ h[w[k - 1]].ptr = w[k] /\ h[w[k]].size >= n
<1> DEFINE h == s.hdr
           p == s.freeptr
           L == DOMAIN h \ V
           w == Walk(h, p)
           c == Cardinality(L)
           T == {k \in DOMAIN w \ {0} : w[k] = p}
           E == Enough(s, n)
<1>1. Blocks(h, C) /\ Ring(h, L) /\ p \in L
  BY DEF Sound
<1> HIDE DEF h, p, L
<1>2. /\ c \in Nat /\ c >= 1 /\ 0 .. c \subseteq DOMAIN w /\ DOMAIN w \in SUBSET Nat
      /\ w[0] = p /\ w[c] = p
      /\ \A k \in 0 .. c : w[k] \in L
      /\ \A k \in 1 .. c : w[k] = h[w[k - 1]].ptr
      /\ \A k \in 1 .. c - 1 : w[k] # p
      /\ \A x \in L : \E k \in 1 .. c : w[k] = x
  <2>1. Visits(h, L, p, w, c)
    BY <1>1, WalkVisits
  <2> HIDE DEF w, c
  <2> QED BY <2>1 DEF Visits
<1> HIDE DEF w, c
<1>3. Min(T) = c
  <2>1. T \in SUBSET Int /\ c \in T
    BY <1>2
  <2>2. \A k \in T : c <= k
    <3> TAKE k \in T
    <3>1. k \in Nat /\ k # 0 /\ w[k] = p
      BY <1>2
    <3> QED BY <1>2, <3>1
  <2> HIDE DEF T
  <2> QED BY <2>1, <2>2, MinIs
<1>4. E = {k \in 1 .. c : h[w[k]].size >= n}
  BY <1>3 DEF Enough, h, p, w
<1> HIDE DEF E
<1>5. (\E x \in L : h[x].size >= n) => E # {}
  BY <1>2, <1>4
<1>6. ASSUME E # {}
      PROVE  /\ w[Min(E)] \in L /\ w[Min(E) - 1] \in L
             /\ h[w[Min(E) - 1]].ptr = w[Min(E)] /\ h[w[Min(E)]].size >= n
  <2>1. E \in SUBSET Nat
    BY <1>4
  <2>2. Min(E) \in E
    BY <1>6, <2>1, MinOfSet
  <2>3. Min(E) \in 1 .. c /\ h[w[Min(E)]].size >= n
    BY <1>4, <2>2
  <2>4. Min(E) \in 0 .. c /\ Min(E) - 1 \in 0 .. c
    BY <1>2, <2>3
  <2> QED BY <1>2, <2>3, <2>4
<1> QED BY <1>5, <1>6 DEF h, p, L, w, E

\* A block leaves the list whole.
LEMMA TakeWhole ==
  ASSUME NEW h, NEW V, NEW C, Blocks(h, C), V \subseteq DOMAIN h, Ring(h, DOMAIN h \ V),
         NEW p \in DOMAIN h \ V, NEW prev \in DOMAIN h \ V, h[prev].ptr = p, h[p].size >= 1
  PROVE  Sound([h EXCEPT ![prev].ptr = h[p].ptr, ![p].ptr = base], prev, V \cup {p}, C)
<1> DEFINE g == [h EXCEPT ![prev].ptr = h[p].ptr, ![p].ptr = base]
           L == DOMAIN h \ V
           M == L \ {p}
           q == h[p].ptr
<1>1. /\ h \in [DOMAIN h -> [ptr : Nat, size : Nat]]
      /\ \A a \in DOMAIN h : a \in Nat /\ h[a].size \in Nat /\ h[a].ptr \in Nat
      /\ h[base].size = 0 /\ base \in Nat
  BY DEF Blocks, base
<1>2. \A a \in L :
       /\ h[a].ptr \in L
       /\ \/ a + h[a].size < h[a].ptr /\ \A b \in L : b <= a \/ h[a].ptr <= b
          \/ h[a].ptr = base /\ \A b \in L : b <= a
  BY DEF Ring
<1>3. p # base /\ p \in Nat /\ prev \in Nat /\ h[prev].size \in Nat /\ base \in L
  BY <1>1 DEF Ring
<1> HIDE DEF L
<1>4. p \in L /\ prev \in L /\ q \in L /\ L \subseteq DOMAIN h /\ q \in Nat
  BY <1>1, <1>2 DEF L
<1>5. prev + h[prev].size < p /\ \A b \in L : b <= prev \/ p <= b
  BY <1>2, <1>3, <1>4
<1>6. prev # p
  BY <1>3, <1>5
<1>7. /\ g \in [DOMAIN h -> [ptr : Nat, size : Nat]] /\ DOMAIN g = DOMAIN h
      /\ \A b \in DOMAIN h : g[b].size = h[b].size
      /\ \A b \in DOMAIN h : g[b].ptr = IF b = p THEN base ELSE IF b = prev THEN q ELSE h[b].ptr
  BY <1>1, <1>4, <1>6
<1> HIDE DEF g
<1>8. Blocks(g, C)
  BY <1>7, RelinkBlocks
<1>9. ASSUME NEW a \in M
      PROVE  /\ g[a].ptr \in M
             /\ \/ a + g[a].size < g[a].ptr /\ \A b \in M : b <= a \/ g[a].ptr <= b
                \/ g[a].ptr = base /\ \A b \in M : b <= a
  <2>0. \A b \in M : b \in Nat /\ b \in L /\ b # p
    BY <1>1, <1>4
  <2>1. CASE a = prev
    <3>1. g[a].ptr = q /\ g[a].size = h[prev].size
      BY <1>4, <1>6, <1>7, <2>1
    <3>2. CASE p + h[p].size < q /\ \A b \in L : b <= p \/ q <= b
      <4>1. q # p /\ prev + h[prev].size < q
        BY <1>1, <1>3, <1>4, <1>5, <3>2
      <4>2. \A b \in M : b <= prev \/ q <= b
        BY <1>3, <1>5, <2>0, <3>2
      <4> QED BY <1>4, <2>1, <3>1, <4>1, <4>2
    <3>3. CASE q = base /\ \A b \in L : b <= p
      <4>1. \A b \in M : b <= prev
        BY <1>3, <1>5, <2>0, <3>3
      <4> QED BY <1>3, <1>4, <2>1, <3>1, <3>3, <4>1
    <3> QED BY <1>2, <1>4, <3>2, <3>3
  <2>2. CASE a # prev
    <3>1. g[a].ptr = h[a].ptr /\ g[a].size = h[a].size /\ h[a].size \in Nat /\ a \in L /\ a \in Nat
      BY <1>1, <1>4, <1>7, <2>0, <2>2
    <3>2. h[a].ptr # p
      <4> SUFFICES ASSUME h[a].ptr = p PROVE FALSE
        OBVIOUS
      <4>1. a + h[a].size < p /\ (prev <= a \/ p <= prev)
        BY <1>2, <1>3, <1>4, <3>1
      <4>2. a <= prev \/ p <= a
        BY <1>5, <3>1
      <4> QED BY <1>3, <1>5, <2>2, <3>1, <4>1, <4>2
    <3> QED BY <1>2, <2>0, <3>1, <3>2
  <2> QED BY <2>1, <2>2
<1>10. M = DOMAIN g \ (V \cup {p}) /\ V \cup {p} \subseteq DOMAIN g
  BY <1>4, <1>7 DEF L
<1> HIDE DEF M
<1>11. Ring(g, M)
  <2>1. M \subseteq DOMAIN g /\ base \in M
    BY <1>3, <1>4, <1>7 DEF M
  <2> QED BY <1>9, <2>1 DEF Ring
<1>12. prev \in M
  BY <1>4, <1>6 DEF M
<1>13. Sound(g, prev, V \cup {p}, C)
  BY <1>8, <1>10, <1>11, <1>12 DEF Sound
<1> QED BY <1>13 DEF g

\* The tail of a block is given out.
LEMMA TakeTail ==
  ASSUME NEW h, NEW V, NEW C, Blocks(h, C), V \subseteq DOMAIN h, Ring(h, DOMAIN h \ V),
         NEW p \in DOMAIN h \ V, NEW prev \in DOMAIN h \ V, NEW n \in Nat, n >= 1, h[p].size > n
  PROVE  LET q == p + h[p].size - n
         IN  Sound([a \in DOMAIN h \cup {q} |->
                      IF a = q THEN [ptr |-> base, size |-> n]
                      ELSE IF a = p THEN [h[p] EXCEPT !.size = cut_size(h[p].size, n)] ELSE h[a]],
                   prev, V \cup {q}, C)
<1> DEFINE D == DOMAIN h
           q == p + h[p].size - n
           L == D \ V
           g == [a \in D \cup {q} |->
                   IF a = q THEN [ptr |-> base, size |-> n]
                   ELSE IF a = p THEN [h[p] EXCEPT !.size = cut_size(h[p].size, n)] ELSE h[a]]
<1>1. /\ h \in [D -> [ptr : Nat, size : Nat]] /\ D \in SUBSET Nat /\ IsFiniteSet(D)
      /\ \A a \in D : a \in Nat /\ h[a].size \in Nat /\ h[a].ptr \in Nat /\ h[a] \in [ptr : Nat, size : Nat]
      /\ h[base].size = 0 /\ base \in D /\ base \in Nat
  BY DEF Blocks, base
<1>2. p \in Nat /\ q \in Nat /\ p < q /\ q + n = p + h[p].size /\ h[p].size \in Nat /\ p # base
  BY <1>1
<1> HIDE DEF q
<1>3. \A a, b \in D : a < b => a + h[a].size <= b
  BY DEF Blocks
<1>4. q \notin D
  <2> SUFFICES ASSUME q \in D PROVE FALSE
    OBVIOUS
  <2>1. p + h[p].size <= q
    BY <1>2, <1>3
  <2> QED BY <1>2, <2>1
<1>5. cut_size(h[p].size, n) = h[p].size - n /\ h[p].size - n \in Nat /\ h[p].size - n >= 1
  BY <1>2 DEF cut_size
<1>6. /\ DOMAIN g = D \cup {q} /\ g[q] = [ptr |-> base, size |-> n]
      /\ g[p] = [h[p] EXCEPT !.size = h[p].size - n]
      /\ \A a \in D : a # p => g[a] = h[a]
  BY <1>4, <1>5
<1> HIDE DEF g
<1>7. g[p] \in [ptr : Nat, size : Nat] /\ g[p].ptr = h[p].ptr /\ g[p].size = h[p].size - n
  BY <1>1, <1>5, <1>6
<1>8. g[q] \in [ptr : Nat, size : Nat] /\ g[q].size = n
  BY <1>1, <1>6
<1>9. g \in [D \cup {q} -> [ptr : Nat, size : Nat]]
  <2>1. \A a \in D \cup {q} : g[a] \in [ptr : Nat, size : Nat]
    BY <1>1, <1>6, <1>7, <1>8
  <2>2. g = [a \in D \cup {q} |-> g[a]]
    BY <1>6 DEF g
  <2> QED BY <2>1, <2>2
<1>10. IsFiniteSet(D \cup {q}) /\ D \cup {q} \in SUBSET Nat
  BY <1>1, <1>2, FS_AddElement
<1>11. g[base].size = 0 /\ \A a \in (D \cup {q}) \ {base} : g[a].size >= 1
  <2>1. \A a \in D \ {base} : h[a].size >= 1
    BY DEF Blocks
  <2> QED BY <1>1, <1>2, <1>5, <1>6, <1>7, <1>8, <2>1
<1>12. ASSUME NEW a \in D \cup {q}, NEW b \in D \cup {q}, a < b PROVE a + g[a].size <= b
  <2>0. a \in Nat /\ b \in Nat
    BY <1>1, <1>2
  <2>1. CASE a = q
    <3>1. b \in D /\ p < b
      BY <1>2, <1>12, <2>0, <2>1
    <3>2. p + h[p].size <= b
      BY <1>3, <3>1
    <3> QED BY <1>2, <1>8, <2>0, <2>1, <3>2
  <2>2. CASE a = p
    <3>1. p + g[p].size = q
      BY <1>2, <1>7
    <3>2. CASE b = q
      BY <1>2, <2>2, <3>1, <3>2
    <3>3. CASE b # q
      <4>1. p + h[p].size <= b
        BY <1>3, <1>12, <2>2, <3>3
      <4> QED BY <1>2, <2>0, <2>2, <3>1, <4>1
    <3> QED BY <3>2, <3>3
  <2>3. CASE a \notin {p, q}
    <3>1. a \in D /\ g[a] = h[a] /\ h[a].size \in Nat
      BY <1>1, <1>6, <2>3
    <3>2. CASE b = q
      <4>1. a < p
        <5> SUFFICES ASSUME p < a PROVE FALSE
          BY <1>2, <2>0, <2>3
        <5>1. p + h[p].size <= a
          BY <1>3, <3>1
        <5> QED BY <1>2, <1>12, <2>0, <3>2, <5>1
      <4>2. a + h[a].size <= p
        BY <1>3, <3>1, <4>1
      <4> QED BY <1>2, <2>0, <3>1, <3>2, <4>2
    <3>3. CASE b # q
      BY <1>3, <1>12, <3>1, <3>3
    <3> QED BY <3>2, <3>3
  <2> QED BY <2>1, <2>2, <2>3
<1>13. Covered(g) = C
  <2>1. ASSUME NEW u \in Nat
        PROVE  (\E a \in D : a <= u /\ u < a + h[a].size) <=> \E a \in D \cup {q} : a <= u /\ u < a + g[a].size
    <3>1. ASSUME NEW a \in D, a <= u /\ u < a + h[a].size PROVE \E c \in D \cup {q} : c <= u /\ u < c + g[c].size
      <4>1. CASE a = p
        <5>1. u < p + g[p].size \/ (q <= u /\ u < q + g[q].size)
          BY <1>2, <1>7, <1>8, <3>1, <4>1
        <5> QED BY <3>1, <4>1, <5>1
      <4>2. CASE a # p
        BY <1>6, <3>1, <4>2
      <4> QED BY <4>1, <4>2
    <3>2. ASSUME NEW a \in D \cup {q}, a <= u /\ u < a + g[a].size PROVE \E c \in D : c <= u /\ u < c + h[c].size
      <4>1. CASE a \in {p, q}
        <5>1. p <= u /\ u < p + h[p].size
          BY <1>2, <1>7, <1>8, <3>2, <4>1
        <5> QED BY <5>1
      <4>2. CASE a \notin {p, q}
        BY <1>6, <3>2, <4>2
      <4> QED BY <4>1, <4>2
    <3> QED BY <3>1, <3>2
  <2>2. Covered(g) = Covered(h)
    BY <1>6, <2>1 DEF Covered
  <2> QED BY <2>2 DEF Blocks
<1>14. Blocks(g, C)
  BY <1>1, <1>6, <1>9, <1>10, <1>11, <1>12, <1>13 DEF Blocks
<1>15. DOMAIN g \ (V \cup {q}) = L /\ V \cup {q} \subseteq DOMAIN g /\ p \in L /\ prev \in L /\ L \subseteq D
  BY <1>4, <1>6
<1>16. Ring(g, L)
  <2>1. \A a \in L :
       /\ h[a].ptr \in L
       /\ \/ a + h[a].size < h[a].ptr /\ \A b \in L : b <= a \/ h[a].ptr <= b
          \/ h[a].ptr = base /\ \A b \in L : b <= a
    BY DEF Ring
  <2>2. L \subseteq DOMAIN g /\ base \in L
    BY <1>6 DEF Ring
  <2> HIDE DEF L
  <2>3. ASSUME NEW a \in L
        PROVE  /\ g[a].ptr \in L
               /\ \/ a + g[a].size < g[a].ptr /\ \A b \in L : b <= a \/ g[a].ptr <= b
                  \/ g[a].ptr = base /\ \A b \in L : b <= a
    <3>1. CASE a = p
      <4>1. p + h[p].size < h[p].ptr => p + g[p].size < g[p].ptr
        BY <1>1, <1>2, <1>7
      <4> QED BY <1>7, <2>1, <3>1, <4>1
    <3>2. CASE a # p
      <4>1. g[a] = h[a]
        BY <1>6, <1>15, <3>2
      <4> QED BY <2>1, <4>1
    <3> QED BY <3>1, <3>2
  <2> QED BY <2>2, <2>3 DEF Ring
<1>17. Sound(g, prev, V \cup {q}, C)
  BY <1>14, <1>15, <1>16 DEF Sound
<1> QED BY <1>17 DEF g, q

LEMMA TakeKeeps ==
  ASSUME NEW s, NEW C, Sound(s.hdr, s.freeptr, live, C), NEW n \in Nat, n >= 1,
         Enough(s, n) # {}, Take(s, n)
  PROVE  Sound(hdr', freeptr', live', C)
<1> DEFINE h == s.hdr
           w == Walk(h, s.freeptr)
           k == Min(Enough(s, n))
           p == w[k]
           prev == w[k - 1]
           q == p + h[p].size - n
<1>1. /\ p \in DOMAIN h \ live /\ prev \in DOMAIN h \ live
      /\ h[prev].ptr = p /\ h[p].size >= n
  BY EnoughFinds
<1>2. /\ freeptr' = prev
      /\ h[p].size = n => /\ hdr' = [h EXCEPT ![prev].ptr = h[p].ptr, ![p].ptr = base]
                          /\ live' = live \cup {p}
      /\ h[p].size # n =>
           /\ hdr' = [a \in DOMAIN h \cup {q} |->
                        IF a = q THEN [ptr |-> base, size |-> n]
                        ELSE IF a = p THEN [h[p] EXCEPT !.size = cut_size(h[p].size, n)] ELSE h[a]]
           /\ live' = live \cup {q}
  BY DEF Take
<1>3. Blocks(h, C) /\ live \subseteq DOMAIN h /\ Ring(h, DOMAIN h \ live)
  BY DEF Sound
<1> HIDE DEF h, w, k, p, prev
<1>4. h[p].size \in Nat
  BY <1>1, <1>3 DEF Blocks
<1>5. CASE h[p].size = n
  <2>1. h[p].size >= 1
    BY <1>5
  <2>2. Sound([h EXCEPT ![prev].ptr = h[p].ptr, ![p].ptr = base], prev, live \cup {p}, C)
    BY <1>1, <1>3, <2>1, TakeWhole
  <2>3. hdr' = [h EXCEPT ![prev].ptr = h[p].ptr, ![p].ptr = base] /\ live' = live \cup {p} /\ freeptr' = prev
    BY <1>2, <1>5
  <2> QED BY ONLY <2>2, <2>3
<1>6. CASE h[p].size # n
  <2>1. h[p].size > n
    BY <1>1, <1>4, <1>6
  <2> DEFINE g == [a \in DOMAIN h \cup {q} |->
                     IF a = q THEN [ptr |-> base, size |-> n]
                     ELSE IF a = p THEN [h[p] EXCEPT !.size = cut_size(h[p].size, n)] ELSE h[a]]
  <2>2. Sound(g, prev, live \cup {q}, C)
    BY <1>1, <1>3, <2>1, TakeTail
  <2>3. hdr' = g /\ live' = live \cup {q} /\ freeptr' = prev
    BY <1>2, <1>6
  <2> HIDE DEF g, q
  <2> QED BY <2>2, <2>3
<1> QED BY <1>5, <1>6

\* A block above all others.
LEMMA AddBlock ==
  ASSUME NEW h, NEW fp, NEW V, NEW C, Sound(h, fp, V, C), NEW up \in Nat, up >= 1,
         \A u \in C : u < up, NEW z \in Nat, z >= 1
  PROVE  LET g == [a \in DOMAIN h \cup {up} |-> IF a = up THEN [ptr |-> base, size |-> z] ELSE h[a]]
         IN  Sound(g, fp, V \cup {up}, C \cup (up .. up + z - 1)) /\ up \notin V /\ g[up].size = z
<1> DEFINE D == DOMAIN h
           g == [a \in D \cup {up} |-> IF a = up THEN [ptr |-> base, size |-> z] ELSE h[a]]
           L == D \ V
<1>1. /\ h \in [D -> [ptr : Nat, size : Nat]] /\ D \in SUBSET Nat /\ IsFiniteSet(D)
      /\ \A a \in D : a \in Nat /\ h[a].size \in Nat /\ h[a].ptr \in Nat /\ h[a] \in [ptr : Nat, size : Nat]
      /\ h[base].size = 0 /\ base \in D /\ base \in Nat /\ up # base
      /\ \A a \in D \ {base} : h[a].size >= 1
      /\ \A a, b \in D : a < b => a + h[a].size <= b
      /\ Covered(h) = C
  BY DEF Sound, Blocks, base
<1>2. ASSUME NEW a \in D PROVE a + h[a].size <= up /\ a # up
  <2>1. CASE a = base
    BY <1>1, <2>1 DEF base
  <2>2. CASE a # base
    <3>1. a \in Nat /\ h[a].size \in Nat /\ h[a].size >= 1
      BY <1>1, <2>2
    <3>2. a + h[a].size - 1 \in C
      <4>1. a + h[a].size - 1 \in Nat /\ a <= a + h[a].size - 1 /\ a + h[a].size - 1 < a + h[a].size
        BY <3>1
      <4>2. a + h[a].size - 1 \in Covered(h)
        BY <4>1 DEF Covered
      <4> QED BY <1>1, <4>2
    <3>3. a + h[a].size - 1 < up
      BY <3>2
    <3> QED BY <3>1, <3>3
  <2> QED BY <2>1, <2>2
<1>3. /\ DOMAIN g = D \cup {up} /\ g[up].size = z /\ g[up] \in [ptr : Nat, size : Nat]
      /\ \A a \in D : g[a] = h[a]
  BY <1>1, <1>2
<1>4. g \in [D \cup {up} -> [ptr : Nat, size : Nat]]
  BY <1>1, <1>2
<1> HIDE DEF g
<1>5. IsFiniteSet(D \cup {up}) /\ D \cup {up} \in SUBSET Nat
  BY <1>1, FS_AddElement
<1>6. g[base].size = 0 /\ \A a \in (D \cup {up}) \ {base} : g[a].size >= 1
  BY <1>1, <1>3
<1>7. ASSUME NEW a \in D \cup {up}, NEW b \in D \cup {up}, a < b PROVE a + g[a].size <= b
  <2>1. a # up
    <3> SUFFICES ASSUME a = up PROVE FALSE
      OBVIOUS
    <3>1. b \in D
      BY <1>7
    <3>2. b + h[b].size <= up /\ b \in Nat /\ h[b].size \in Nat
      BY <1>1, <1>2, <3>1
    <3> QED BY <1>7, <3>2
  <2>2. a \in D /\ g[a] = h[a]
    BY <1>3, <2>1
  <2>3. CASE b = up
    BY <1>2, <2>2, <2>3
  <2>4. CASE b # up
    BY <1>1, <1>7, <2>2, <2>4
  <2> QED BY <2>3, <2>4
<1>8. Covered(g) = C \cup (up .. up + z - 1)
  <2>1. ASSUME NEW u \in Nat
        PROVE  (\E a \in D \cup {up} : a <= u /\ u < a + g[a].size) <=> u \in C \/ u \in up .. up + z - 1
    <3>1. u \in C <=> \E a \in D : a <= u /\ u < a + h[a].size
      BY <1>1 DEF Covered
    <3>2. u \in up .. up + z - 1 <=> up <= u /\ u < up + g[up].size
      BY <1>3
    <3> QED BY <1>3, <3>1, <3>2
  <2>2. C \subseteq Nat /\ up .. up + z - 1 \subseteq Nat
    BY <1>1 DEF Covered
  <2> QED BY <1>3, <2>1, <2>2 DEF Covered
<1>9. Blocks(g, C \cup (up .. up + z - 1))
  BY <1>1, <1>3, <1>4, <1>5, <1>6, <1>7, <1>8 DEF Blocks
<1>10. V \subseteq D /\ up \notin D /\ fp \in L
  BY <1>2 DEF Sound
<1>11. DOMAIN g \ (V \cup {up}) = L /\ V \cup {up} \subseteq DOMAIN g /\ up \notin V
  BY <1>3, <1>10
<1>12. Ring(g, L)
  <2>1. Ring(h, L)
    BY DEF Sound
  <2>2. L \subseteq D
    OBVIOUS
  <2> HIDE DEF L
  <2> QED BY <1>3, <2>1, <2>2 DEF Ring
<1>13. Sound(g, fp, V \cup {up}, C \cup (up .. up + z - 1))
  BY <1>9, <1>10, <1>11, <1>12 DEF Sound
<1> QED BY <1>3, <1>11, <1>13 DEF g

-----------------------------------------------------------------------------
(* The inductive invariant of the composition. *)

HeadAbove == free_page_head[1] = "phys" => free_page_head[2] >= FirstFree

\* The pages of sbrk lie below the head: they have been given out.
ChunksBelow == free_page_head[1] = "phys" => \A c \in chunks : c[1] < free_page_head[2]

(***************************************************************************)
(* While the headers are intact the blocks are sound.  That this is        *)
(* inductive needs the pages: a page with a header that is given out or    *)
(* freed is neither fresh afterwards nor a page of sbrk, so the headers    *)
(* are not intact after the step that clears it.                           *)
(***************************************************************************)
HeapInv ==
  /\ Inv /\ HeadAbove
  /\ chunks \in SUBSET (Nat \X Nat)
  /\ ChunksBelow
  /\ freeptr = None => live = {} /\ chunks = {}
  /\ freeptr # None /\ Intact => Sound(hdr, freeptr, live, Claimed)

LEMMA HeadStep ==
  ASSUME Inv, HeadAbove, [Next]_vars, free_page_head'[1] = "phys"
  PROVE  /\ free_page_head[1] = "phys"
         /\ free_page_head[2] \in Nat /\ free_page_head'[2] \in Nat
         /\ free_page_head[2] >= FirstFree /\ free_page_head'[2] >= FirstFree
         /\ free_page_head'[2] >= free_page_head[2]
         /\ Alloc => free_page_head'[2] > free_page_head[2]
<1>t. TypeOK /\ ChainInv
  BY DEF Inv
<1>1. CASE Alloc
  <2> DEFINE i == free_page_head[2]
  <2>1. free_page_head[1] = "phys" /\ i \in Pages /\ free_page_head' = next[i] /\ i >= FirstFree
    BY <1>1, <1>t, PointerKinds DEF Alloc, alloc_next, TypeOK, HeadAbove
  <2>2. i # LastFree
    BY <2>1, <1>t DEF ChainInv
  <2> HIDE DEF i
  <2>3. i < LastFree /\ i \in Nat /\ i \in i .. LastFree
    BY <2>1, <2>2, Ranges
  <2>4. next[i] = Phys(i + 1)
    BY <2>1, <2>3, <1>t DEF ChainInv, i
  <2>5. free_page_head'[2] = i + 1
    BY <2>1, <2>4, PointerKinds
  <2>6. i + 1 \in Nat /\ i + 1 >= FirstFree /\ i + 1 > i
    BY <2>1, <2>3, Ranges
  <2> QED BY <2>1, <2>3, <2>5, <2>6 DEF i
<1>2. CASE AllocFaults
  BY <1>2, PointerKinds DEF AllocFaults
<1>3. CASE free_page_head' = free_page_head /\ ~Alloc
  <2>1. free_page_head[1] = "phys" /\ free_page_head[2] \in Pages /\ free_page_head[2] >= FirstFree
    BY <1>3, <1>t, PointerKinds DEF TypeOK, HeadAbove
  <2>2. free_page_head[2] \in Nat
    BY <2>1, Ranges
  <2> QED BY <1>3, <2>1, <2>2
<1>5. UNCHANGED vars => free_page_head' = free_page_head
  BY DEF vars
<1>6. (\E j \in Pages : Share(j) \/ Free(j)) => free_page_head' = free_page_head
  BY DEF Share, Free
<1> QED BY <1>1, <1>2, <1>3, <1>5, <1>6 DEF Next

LEMMA HeapInvInit == HeapInit => HeapInv
<1> SUFFICES ASSUME HeapInit PROVE HeapInv
  OBVIOUS
<1>1. Inv
  BY InvInit DEF HeapInit
<1>2. HeadAbove
  BY PointerKinds, Ranges DEF HeapInit, Init, HeadAbove
<1> QED BY <1>1, <1>2 DEF HeapInit, HeapInv, ChunksBelow

LEMMA SameClaims == ASSUME chunks' = chunks PROVE Claimed' = Claimed
BY DEF Claimed, Claim

LEMMA UnitsApart ==
  ASSUME NEW j \in Nat, NEW k \in Nat, j < k
  PROVE  j * PageUnits + PageUnits <= k * PageUnits /\ UnitsOf(j) \cap UnitsOf(k) = {}
<1>1. PageUnits \in Nat /\ j * PageUnits \in Nat /\ k * PageUnits \in Nat
  BY UnitsAssumption
<1>2. (k - j - 1) * PageUnits \in Nat
  <2>1. k - j - 1 \in Nat
    OBVIOUS
  <2> QED BY <1>1, <2>1
<1>3. k * PageUnits = j * PageUnits + PageUnits + (k - j - 1) * PageUnits
  BY <1>1
<1> DEFINE x == j * PageUnits
           y == k * PageUnits
           d == (k - j - 1) * PageUnits
<1>4. x \in Nat /\ y \in Nat /\ d \in Nat /\ y = x + PageUnits + d
  BY <1>1, <1>2, <1>3
<1>5. UnitsOf(j) = x .. x + PageUnits - 1 /\ UnitsOf(k) = y .. y + PageUnits - 1
  BY DEF UnitsOf
<1> HIDE DEF x, y, d
<1>6. x + PageUnits <= y
  BY <1>1, <1>4
<1>7. UnitsOf(j) \cap UnitsOf(k) = {}
  BY <1>1, <1>4, <1>5, <1>6
<1> QED BY <1>6, <1>7 DEF x, y

\* A header other than base in a page shows that the page is fresh or of sbrk.
LEMMA HeaderPage ==
  ASSUME Intact, NEW a \in DOMAIN hdr, a # base, NEW k \in Pages, a \in UnitsOf(k)
  PROVE  Fresh(k) \/ \E c \in chunks : c[1] = k
<1>1. PICK j \in Pages : a \in UnitsOf(j) /\ (Fresh(j) \/ \E c \in chunks : c[1] = j)
  BY DEF Intact
<1>2. j \in Nat /\ k \in Nat
  BY Ranges
<1>3. j = k
  <2>1. ~(j < k) /\ ~(k < j)
    BY <1>1, <1>2, UnitsApart
  <2> QED BY <1>2, <2>1
<1> QED BY <1>1, <1>3

LEMMA BaseBelow == \A k \in Nat : k >= 1 => base \notin UnitsOf(k)
<1> SUFFICES ASSUME NEW k \in Nat, k >= 1 PROVE base \notin UnitsOf(k)
  OBVIOUS
<1>1. k * PageUnits \in Nat /\ k * PageUnits >= 1
  BY UnitsAssumption
<1> QED BY <1>1 DEF UnitsOf, base

\* Clearing a page without a header changes nothing.
LEMMA ZeroedSame ==
  ASSUME NEW h, h = [a \in DOMAIN h |-> h[a]], NEW k, \A a \in DOMAIN h : a \notin UnitsOf(k)
  PROVE  Zeroed(h, k) = h
BY DEF Zeroed

\* Whoever else takes or frees pages: if the headers are intact afterwards, they
\* were so before, and the step cleared none of them.
LEMMA OthersKeep ==
  ASSUME HeapInv, Others, Intact'
  PROVE  Intact /\ (freeptr # None => hdr' = hdr)
<1>t. Inv /\ HeadAbove /\ TypeOK /\ ChainInv /\ ChunksBelow
  BY DEF HeapInv, Inv
<1>n. [Next]_vars
  BY DEF Others, Next
<1>d. DOMAIN hdr' = DOMAIN hdr
  BY DEF Others, Zeroed
<1>c. UNCHANGED <<freeptr, live, chunks>>
  BY DEF Others
<1>f. \A k \in Pages : Fresh(k)' => Fresh(k)
  <2> SUFFICES ASSUME NEW k \in Pages, Fresh(k)' PROVE Fresh(k)
    OBVIOUS
  <2>1. free_page_head'[1] = "phys" /\ free_page_head'[2] <= k /\ k <= LastFree
    BY DEF Fresh
  <2>2. /\ free_page_head[1] = "phys"
        /\ free_page_head[2] \in Nat /\ free_page_head'[2] \in Nat
        /\ free_page_head'[2] >= free_page_head[2]
    BY <1>t, <1>n, <2>1, HeadStep
  <2>3. k \in Nat
    BY Ranges
  <2>4. free_page_head[2] <= k
    BY <2>1, <2>2, <2>3
  <2> QED BY <2>1, <2>2, <2>4 DEF Fresh
<1>1. Intact
  <2>1. \A a \in DOMAIN hdr \ {base} : \E k \in Pages :
          a \in UnitsOf(k) /\ (Fresh(k) \/ \E c \in chunks : c[1] = k)
    BY <1>d, <1>c, <1>f DEF Intact, UnitsOf
  <2>2. \A c, d \in chunks : c # d => Claim(c) \cap Claim(d) = {}
    BY <1>c DEF Intact, Claim
  <2> QED BY <2>1, <2>2 DEF Intact
<1>2. ASSUME freeptr # None PROVE hdr' = hdr
  <2>0. hdr = [a \in DOMAIN hdr |-> hdr[a]]
    BY <1>1, <1>2 DEF HeapInv, Sound, Blocks
  <2>1. CASE Alloc /\ hdr' = Zeroed(hdr, free_page_head[2])
    <3>0. PICK k : k = free_page_head[2]
      OBVIOUS
    <3>1. free_page_head[1] = "phys" /\ k \in Pages /\ k >= FirstFree
      BY <1>t, <2>1, <3>0, PointerKinds DEF Alloc, TypeOK, HeadAbove
    <3>2. k \in Nat /\ k >= 1
      BY <3>1, Ranges, PagesAssumption
    <3>3. ~Fresh(k)'
      <4> SUFFICES ASSUME Fresh(k)' PROVE FALSE
        OBVIOUS
      <4>1. free_page_head'[1] = "phys" /\ free_page_head'[2] <= k
        BY DEF Fresh
      <4>2. free_page_head'[2] > k /\ free_page_head'[2] \in Nat
        BY <1>t, <1>n, <2>1, <3>0, <4>1, HeadStep
      <4> QED BY <3>2, <4>1, <4>2
    <3>4. \A c \in chunks : c[1] # k
      <4>1. \A c \in chunks : c[1] < k /\ c[1] \in Nat
        BY <1>t, <3>0, <3>1 DEF ChunksBelow, HeapInv
      <4> QED BY <3>2, <4>1
    <3>5. ASSUME NEW a \in DOMAIN hdr, a # base PROVE a \notin UnitsOf(k)
      <4> SUFFICES ASSUME a \in UnitsOf(k) PROVE FALSE
        OBVIOUS
      <4>1. PICK j \in Pages : a \in UnitsOf(j) /\ (Fresh(j)' \/ \E c \in chunks : c[1] = j)
        BY <1>c, <1>d, <3>5 DEF Intact, UnitsOf
      <4>2. j \in Nat /\ j # k
        BY <3>3, <3>4, <4>1, Ranges
      <4>3. j < k \/ k < j
        BY <3>2, <4>2
      <4> QED BY <3>2, <4>1, <4>2, <4>3, UnitsApart
    <3>6. \A a \in DOMAIN hdr : a \notin UnitsOf(k)
      BY <3>2, <3>5, BaseBelow
    <3> QED BY <2>0, <2>1, <3>0, <3>6, ZeroedSame
  <2>2. ASSUME NEW i \in Pages, \A c \in chunks : c[1] # i, Free(i), hdr' = Zeroed(hdr, i)
        PROVE  hdr' = hdr
    <3>1. i \in Nat /\ i >= 1 /\ ref_count[i] > 0
      BY <2>2, Ranges, PagesAssumption DEF Free
    <3>2. ~Fresh(i)
      <4> SUFFICES ASSUME Fresh(i) PROVE FALSE
        OBVIOUS
      <4>1. free_page_head[1] = "phys" /\ free_page_head[2] <= i /\ i <= LastFree
        BY DEF Fresh
      <4>2. free_page_head[2] \in Nat
        BY <1>t, <4>1, PointerKinds, Ranges DEF TypeOK
      <4>3. i \in free_page_head[2] .. LastFree
        BY <3>1, <4>1, <4>2, Ranges
      <4>4. ref_count[i] = 0
        BY <1>t, <4>1, <4>3 DEF ChainInv
      <4> QED BY <3>1, <4>4
    <3>3. \A a \in DOMAIN hdr : a # base => a \notin UnitsOf(i)
      BY <1>1, <2>2, <3>2, HeaderPage
    <3>4. \A a \in DOMAIN hdr : a \notin UnitsOf(i)
      BY <3>1, <3>3, BaseBelow
    <3> QED BY <2>0, <2>2, <3>4, ZeroedSame
  <2> QED BY <2>1, <2>2 DEF Others
<1> QED BY <1>1, <1>2

\* The list that malloc works on, made by the first call if need be.
LEMMA ListedSound == ASSUME HeapInv, Intact PROVE Sound(Listed.hdr, Listed.freeptr, live, Claimed)
<1>1. CASE freeptr # None
  BY <1>1 DEF HeapInv, Listed
<1>2. CASE freeptr = None
  <2> DEFINE h == [a \in {base} |-> [ptr |-> base, size |-> 0]]
  <2>1. Listed.hdr = h /\ Listed.freeptr = base /\ live = {} /\ chunks = {}
    BY <1>2 DEF Listed, HeapInv
  <2>2. Claimed = {}
    BY <2>1 DEF Claimed
  <2>3. DOMAIN h = {base} /\ h[base].size = 0 /\ h[base].ptr = base /\ base \in Nat
        /\ h \in [{base} -> [ptr : Nat, size : Nat]]
    BY DEF base
  <2> HIDE DEF h
  <2>4. IsFiniteSet({base}) /\ {base} \in SUBSET Nat
    BY <2>3, FS_Singleton
  <2>5. Covered(h) = {}
    BY <2>3 DEF Covered
  <2>6. Blocks(h, {})
    BY <2>3, <2>4, <2>5 DEF Blocks
  <2>7. Ring(h, {base})
    BY <2>3 DEF Ring
  <2> QED BY <2>1, <2>2, <2>3, <2>6, <2>7 DEF Sound
<1> QED BY <1>1, <1>2

\* What malloc takes keeps the program's heap as it must be.
LEMMA TakenHeap ==
  ASSUME NEW s, NEW C, Sound(s.hdr, s.freeptr, live, C), NEW n \in Nat, n >= 1,
         Enough(s, n) # {}, Take(s, n), Claimed' = C
  PROVE  freeptr' # None /\ Sound(hdr', freeptr', live', Claimed')
<1>1. Sound(hdr', freeptr', live', C)
  BY TakeKeeps
<1>2. freeptr' \in Nat
  BY <1>1 DEF Sound, Blocks
<1> QED BY <1>1, <1>2 DEF None

\* morecore: the page lies above everything claimed before, its block joins the
\* list, and it is large enough for the request.
LEMMA MoreKeeps ==
  ASSUME NEW s, NEW C, Sound(s.hdr, s.freeptr, live, C), NEW n \in Nat, n >= 1,
         NEW page \in Nat, page >= 1, \A u \in C : u < page * PageUnits
  PROVE  LET m == morecore(s, n, page)
             up == page * PageUnits
         IN  /\ Sound(m.hdr, m.freeptr, live, C \cup (up .. up + num_u(n) - 1))
             /\ Enough(m, n) # {}
<1>0. Zeroed(s.hdr, page) = s.hdr
  <2> DEFINE h == s.hdr
  <2>1. Blocks(h, C)
    BY DEF Sound
  <2> HIDE DEF h
  <2>2. h = [a \in DOMAIN h |-> h[a]]
    BY <2>1 DEF Blocks
  <2>3. ASSUME NEW a \in DOMAIN h PROVE a \notin UnitsOf(page)
    <3>1. CASE a = base
      BY <3>1, BaseBelow
    <3>2. CASE a # base
      <4>1. a \in Nat /\ h[a].size \in Nat /\ h[a].size >= 1
        BY <2>1, <3>2 DEF Blocks
      <4>2. a \in Covered(h)
        BY <4>1 DEF Covered
      <4>3. a < page * PageUnits
        BY <2>1, <4>2 DEF Blocks
      <4>4. page * PageUnits \in Nat
        BY UnitsAssumption
      <4> QED BY <4>1, <4>3, <4>4 DEF UnitsOf
    <3> QED BY <3>1, <3>2
  <2>4. Zeroed(h, page) = h
    BY <2>2, <2>3, ZeroedSame
  <2> QED BY <2>4 DEF h
<1> DEFINE up == page * PageUnits
           z == num_u(n)
           D == C \cup (up .. up + z - 1)
           g == [a \in DOMAIN s.hdr \cup {up} |-> IF a = up THEN [ptr |-> base, size |-> z] ELSE s.hdr[a]]
           m == freed(g, s.freeptr, up)
<1>1. up \in Nat /\ up >= 1
  BY UnitsAssumption
<1>2. z \in Nat /\ z >= 1 /\ z >= n
  BY UnitsAssumption DEF num_u
<1>3. m = morecore(s, n, page)
  BY <1>0 DEF morecore
<1>4. \A u \in C : u < up
  OBVIOUS
<1> HIDE DEF up, z
<1>5. Sound(g, s.freeptr, live \cup {up}, D) /\ up \notin live /\ g[up].size = z
  <2> DEFINE h == s.hdr
             fp == s.freeptr
             g2 == [a \in DOMAIN h \cup {up} |-> IF a = up THEN [ptr |-> base, size |-> z] ELSE h[a]]
  <2>1. Sound(h, fp, live, C)
    OBVIOUS
  <2> HIDE DEF h, fp
  <2>2. Sound(g2, fp, live \cup {up}, C \cup (up .. up + z - 1)) /\ up \notin live /\ g2[up].size = z
    BY <1>1, <1>2, <1>4, <2>1, AddBlock
  <2>3. g = g2
    BY DEF h
  <2> HIDE DEF g, g2
  <2> QED BY <2>2, <2>3 DEF fp
<1> HIDE DEF g, D
<1>6. /\ Sound(m.hdr, m.freeptr, (live \cup {up}) \ {up}, D)
      /\ \E x \in DOMAIN m.hdr \ ((live \cup {up}) \ {up}) : m.hdr[x].size >= z
  BY <1>5, FreedKeeps
<1>7. (live \cup {up}) \ {up} = live
  BY <1>5
<1> HIDE DEF m
<1>8. Sound(m.hdr, m.freeptr, live, D) /\ \E x \in DOMAIN m.hdr \ live : m.hdr[x].size >= z
  BY <1>6, <1>7
<1>9. \A x \in DOMAIN m.hdr \ live : m.hdr[x].size \in Nat
  BY <1>8 DEF Sound, Blocks
<1>10. \E x \in DOMAIN m.hdr \ live : m.hdr[x].size >= n
  BY <1>2, <1>8, <1>9
<1>11. Enough(m, n) # {}
  BY <1>8, <1>10, EnoughFinds
<1> QED BY <1>3, <1>8, <1>11 DEF D, up, z

LEMMA UnitsOfRequest == \A nbytes \in Requests : nunits(nbytes) \in Nat /\ nunits(nbytes) >= 1
BY RequestsAssumption DEF nunits, HeaderSize

LEMMA HeapStep == HeapInv /\ [HeapNext]_allvars => HeapInv'
<1> SUFFICES ASSUME HeapInv, [HeapNext]_allvars PROVE HeapInv'
  OBVIOUS
<1>t. Inv /\ HeadAbove /\ chunks \in SUBSET (Nat \X Nat)
  BY DEF HeapInv
<1>p. ASSUME [Next]_vars PROVE Inv' /\ HeadAbove'
  BY <1>t, <1>p, InvStep, HeadStep DEF HeadAbove
<1>b. ASSUME [Next]_vars,
             chunks' = chunks \/ (Alloc /\ \E z \in Nat : chunks' = chunks \cup {<<free_page_head[2], z>>})
      PROVE  ChunksBelow'
  <2> SUFFICES ASSUME free_page_head'[1] = "phys", NEW c \in chunks' PROVE c[1] < free_page_head'[2]
    BY DEF ChunksBelow
  <2>1. /\ free_page_head[1] = "phys"
        /\ free_page_head[2] \in Nat /\ free_page_head'[2] \in Nat
        /\ free_page_head'[2] >= free_page_head[2]
        /\ Alloc => free_page_head'[2] > free_page_head[2]
    BY <1>t, <1>b, HeadStep
  <2>2. CASE c \in chunks
    <3>1. c[1] < free_page_head[2] /\ c[1] \in Nat
      BY <1>t, <2>1, <2>2 DEF HeapInv, ChunksBelow
    <3> QED BY <2>1, <3>1
  <2>3. CASE c \notin chunks
    <3>1. Alloc /\ c[1] = free_page_head[2]
      BY <1>b, <2>3
    <3> QED BY <2>1, <3>1
  <2> QED BY <2>2, <2>3
<1>1. ASSUME NEW nbytes \in Requests, malloc(nbytes) PROVE HeapInv'
  <2> DEFINE n == nunits(nbytes)
  <2>1. n \in Nat /\ n >= 1
    BY UnitsOfRequest
  <2>0. Intact
    BY <1>1 DEF malloc
  <2>2. Sound(Listed.hdr, Listed.freeptr, live, Claimed)
    BY <2>0, ListedSound
  <2>3. CASE Enough(Listed, n) # {} /\ Take(Listed, n) /\ UNCHANGED <<vars, chunks>>
    <3>0. ChunksBelow'
      BY <1>b, <2>3
    <3>1. Claimed' = Claimed
      BY <2>3, SameClaims
    <3>2. freeptr' # None /\ Sound(hdr', freeptr', live', Claimed')
      BY <2>1, <2>2, <2>3, <3>1, TakenHeap
    <3>3. Inv' /\ HeadAbove'
      BY <1>p, <2>3
    <3> QED BY <1>t, <2>3, <3>0, <3>2, <3>3 DEF HeapInv
  <2>4. CASE /\ free_page_head[1] = "phys" /\ Apart
             /\ Take(morecore(Listed, n, free_page_head[2]), n)
             /\ chunks' = chunks \cup {<<free_page_head[2], num_u(n)>>}
             /\ Alloc
    <3> DEFINE page == free_page_head[2]
               up == page * PageUnits
               m == morecore(Listed, n, page)
    <3>1. page \in Nat /\ page >= 1
      <4>1. page \in Pages /\ page >= FirstFree
        BY <1>t, <2>4, PointerKinds DEF Inv, TypeOK, HeadAbove
      <4>2. FirstFree >= 1 /\ FirstFree \in Nat
        BY PagesAssumption
      <4>3. page \in Nat
        BY <4>1, Ranges
      <4> HIDE DEF page
      <4> QED BY <4>1, <4>2, <4>3
    <3>2. \A u \in Claimed : u < up
      BY <2>4 DEF Apart
    <3>3. /\ Sound(m.hdr, m.freeptr, live, Claimed \cup (up .. up + num_u(n) - 1))
          /\ Enough(m, n) # {}
      BY <2>1, <2>2, <3>1, <3>2, MoreKeeps
    <3>4. num_u(n) \in Nat
      BY <2>1, UnitsAssumption DEF num_u
    <3>5. Claimed' = Claimed \cup (up .. up + num_u(n) - 1)
      <4>1. chunks' = chunks \cup {<<page, num_u(n)>>}
        BY <2>4
      <4> HIDE DEF n
      <4> DEFINE R(c) == c[1] * PageUnits .. c[1] * PageUnits + c[2] - 1
      <4>2. Claimed' = UNION {R(c) : c \in chunks'} /\ Claimed = UNION {R(c) : c \in chunks}
        BY DEF Claimed, Claim
      <4>3. R(<<page, num_u(n)>>) = up .. up + num_u(n) - 1
        OBVIOUS
      <4> HIDE DEF R, page, up
      <4> QED BY ONLY <4>1, <4>2, <4>3
    <3> HIDE DEF m, up
    <3>6. freeptr' # None /\ Sound(hdr', freeptr', live', Claimed')
      <4>1. Take(m, n)
        BY <2>4 DEF m
      <4> QED BY <2>1, <3>3, <3>5, <4>1, TakenHeap
    <3>7. Inv' /\ HeadAbove'
      BY <1>p, <2>4 DEF Next
    <3>8. chunks' \in SUBSET (Nat \X Nat)
      BY <1>t, <2>4, <3>1, <3>4
    <3>9. ChunksBelow'
      BY <1>b, <2>4, <3>4 DEF Next
    <3> QED BY <3>6, <3>7, <3>8, <3>9 DEF HeapInv
  <2>5. CASE Overlapping(n)
    <3> DEFINE page == free_page_head[2]
               z == num_u(n)
    <3>1. /\ free_page_head[1] = "phys" /\ ~Apart /\ Alloc
          /\ chunks' = chunks \cup {<<page, z>>} /\ freeptr' = Listed.freeptr
      BY <2>5 DEF Overlapping
    <3>2. page \in Nat
      BY <1>t, <3>1, PointerKinds, Ranges DEF Inv, TypeOK
    <3>3. z \in Nat /\ z >= 1
      BY <2>1, UnitsAssumption DEF num_u
    <3>4. freeptr' # None
      BY <3>1 DEF Listed, None, base
    <3>5. Inv' /\ HeadAbove'
      BY <1>p, <3>1 DEF Next
    <3>6. ChunksBelow'
      BY <1>b, <3>1, <3>3 DEF Next
    <3>7. chunks' \in SUBSET (Nat \X Nat)
      BY <1>t, <3>1, <3>2, <3>3
    <3>8. PICK u \in Claimed : ~(u < page * PageUnits)
      BY <3>1 DEF Apart
    <3>9. PICK c \in chunks : u \in Claim(c)
      BY <3>8 DEF Claimed
    <3>10. c[1] \in Nat /\ c[2] \in Nat /\ c[1] < page
      BY <1>t, <3>1, <3>9 DEF HeapInv, ChunksBelow
    <3>11. ~Intact'
      <4> DEFINE x == c[1] * PageUnits
                 y == page * PageUnits
                 d == <<page, z>>
      <4>1. x \in Nat /\ y \in Nat
        BY <3>2, <3>10, UnitsAssumption
      <4>2. x <= y
        <5>1. x + PageUnits <= y
          BY <3>2, <3>10, UnitsApart
        <5> HIDE DEF x, y
        <5> QED BY <4>1, <5>1, UnitsAssumption
      <4>3. Claim(c) = x .. x + c[2] - 1 /\ Claim(d) = y .. y + z - 1 /\ d[1] = page
        BY DEF Claim
      <4>4. c # d
        BY <3>2, <3>10, <4>3
      <4>5. c \in chunks' /\ d \in chunks'
        BY <3>1, <3>9
      <4> HIDE DEF x, y, d, z, page
      <4>6. u \in x .. x + c[2] - 1 /\ ~(u < y)
        BY <3>8, <3>9, <4>3 DEF y
      <4>7. y \in Claim(c) /\ y \in Claim(d)
        BY <3>3, <3>10, <4>1, <4>2, <4>3, <4>6
      <4> QED BY <4>4, <4>5, <4>7 DEF Intact, Claim
    <3> QED BY <3>4, <3>5, <3>6, <3>7, <3>11 DEF HeapInv
  <2> QED BY <1>1, <2>3, <2>4, <2>5 DEF malloc, Served, Grown
<1>2. ASSUME NEW bp \in live, free(bp) PROVE HeapInv'
  <2> DEFINE f == freed(hdr, freeptr, bp)
  <2>0. Intact
    BY <1>2 DEF free
  <2>1. freeptr # None /\ Sound(hdr, freeptr, live, Claimed)
    BY <2>0 DEF HeapInv
  <2>2. Sound(f.hdr, f.freeptr, live \ {bp}, Claimed)
    BY <2>1, FreedKeeps
  <2>3. hdr' = f.hdr /\ freeptr' = f.freeptr /\ live' = live \ {bp} /\ UNCHANGED <<vars, chunks>>
    BY <1>2 DEF free
  <2> HIDE DEF f
  <2>4. f.freeptr \in Nat
    BY <2>2 DEF Sound, Blocks
  <2>5. Inv' /\ HeadAbove'
    BY <1>p, <2>3
  <2>6. Claimed' = Claimed
    BY <2>3, SameClaims
  <2>7. ChunksBelow'
    BY <1>b, <2>3
  <2> QED BY <1>t, <2>2, <2>3, <2>4, <2>5, <2>6, <2>7 DEF HeapInv, None
<1>4. CASE Others
  <2>1. [Next]_vars /\ UNCHANGED <<freeptr, live, chunks>>
    BY <1>4 DEF Others, Next
  <2>2. Inv' /\ HeadAbove' /\ ChunksBelow' /\ Claimed' = Claimed
    BY <1>p, <1>b, <2>1, SameClaims
  <2>3. Intact' /\ freeptr # None => Intact /\ hdr' = hdr
    BY <1>4, OthersKeep
  <2> QED BY <1>t, <2>1, <2>2, <2>3 DEF HeapInv
<1>5. CASE UNCHANGED allvars
  <2>1. UNCHANGED <<vars, hdr, freeptr, live, chunks>>
    BY <1>5 DEF allvars, heapvars
  <2>2. Inv' /\ HeadAbove' /\ ChunksBelow' /\ Claimed' = Claimed
    BY <1>p, <1>b, <2>1, SameClaims
  <2>3. Intact' => Intact
    BY <2>1 DEF Intact, Fresh, UnitsOf, Claim, vars
  <2> QED BY <1>t, <2>1, <2>2, <2>3 DEF HeapInv
<1> QED BY <1>1, <1>2, <1>4, <1>5 DEF HeapNext

-----------------------------------------------------------------------------
(***************************************************************************)
(* malloc.c: for pages of any size, any number of them and any requests,   *)
(* the blocks in use and the free ones never overlap and make up exactly   *)
(* what morecore claimed.  No sequence of malloc and free, with the free   *)
(* blocks cut and joined in any order, gives a unit out twice or loses     *)
(* one, up to the moment when page_alloc gives out a page of a claim with  *)
(* a header in it (Intact).                                                *)
(***************************************************************************)
THEOREM MallocTiles == HeapSpec => []BlocksTile
<1>1. HeapInv => BlocksTile
  <2> SUFFICES ASSUME HeapInv, freeptr # None, Intact
      PROVE  /\ \A a, b \in Idle \cup live : a # b => Units(a) \cap Units(b) = {}
             /\ UNION {Units(bp) : bp \in Idle \cup live} = Claimed
    BY DEF BlocksTile
  <2>1. Blocks(hdr, Claimed) /\ live \subseteq DOMAIN hdr /\ base \notin live
    BY DEF HeapInv, Sound, Ring
  <2>2. \A a \in DOMAIN hdr : a \in Nat /\ hdr[a].size \in Nat
    BY <2>1 DEF Blocks
  <2>3. Idle \cup live = DOMAIN hdr \ {base} /\ base \in DOMAIN hdr /\ hdr[base].size = 0
    BY <2>1 DEF Idle, Blocks
  <2>4. \A a, b \in DOMAIN hdr : a < b => a + hdr[a].size <= b
    BY <2>1 DEF Blocks
  <2>5. ASSUME NEW a \in Idle \cup live, NEW b \in Idle \cup live, a # b PROVE Units(a) \cap Units(b) = {}
    <3>1. a \in DOMAIN hdr /\ b \in DOMAIN hdr /\ a \in Nat /\ b \in Nat /\ hdr[a].size \in Nat /\ hdr[b].size \in Nat
      BY <2>2, <2>3
    <3>2. a + hdr[a].size <= b \/ b + hdr[b].size <= a
      BY <2>4, <2>5, <3>1
    <3> QED BY <3>1, <3>2 DEF Units
  <2>6. ASSUME NEW u PROVE u \in Claimed <=> \E bp \in Idle \cup live : u \in Units(bp)
    <3>1. u \in Claimed <=> u \in Nat /\ \E a \in DOMAIN hdr : a <= u /\ u < a + hdr[a].size
      BY <2>1 DEF Blocks, Covered
    <3>2. \A a \in DOMAIN hdr : u \in Units(a) <=> u \in Nat /\ a <= u /\ u < a + hdr[a].size
      BY <2>2 DEF Units
    <3>3. u \notin Units(base)
      BY <2>3 DEF Units, base
    <3> QED BY <2>3, <3>1, <3>2, <3>3
  <2> QED BY <2>5, <2>6
<1> QED BY <1>1, HeapInvInit, HeapStep, PTL DEF HeapSpec

(***************************************************************************)
(* malloc.c: the free list leads from base up through exactly the free     *)
(* blocks and back, neighbours are joined, and freeptr stands in it, up to *)
(* the same moment.  The loops of malloc and free therefore end after one  *)
(* turn.                                                                   *)
(***************************************************************************)
THEOREM FreeListWhole == HeapSpec => []FreeListSorted
<1>1. HeapInv => FreeListSorted
  <2> DEFINE w == Walk(hdr, base)
             n == Cardinality(Idle)
             L == DOMAIN hdr \ live
             N == Cardinality(L)
  <2> SUFFICES ASSUME HeapInv, freeptr # None, Intact
      PROVE  /\ {w[k] : k \in 0 .. n} = Idle \cup {base}
             /\ hdr[w[n]].ptr = base
             /\ \A k \in 1 .. n : w[k - 1] < w[k] /\ w[k - 1] + hdr[w[k - 1]].size < w[k]
             /\ freeptr \in Idle \cup {base}
    BY DEF FreeListSorted
  <2>1. Blocks(hdr, Claimed) /\ Ring(hdr, L) /\ freeptr \in L /\ base \in L
    BY DEF HeapInv, Sound, Ring
  <2>2. L = Idle \cup {base} /\ base \notin Idle
    BY <2>1 DEF Idle
  <2>3. IsFiniteSet(Idle)
    <3>1. IsFiniteSet(DOMAIN hdr)
      BY <2>1 DEF Blocks
    <3> QED BY <3>1, FS_Subset DEF Idle
  <2>4. n \in Nat /\ N = n + 1
    BY <2>2, <2>3, FS_AddElement, FS_CardinalityType
  <2> HIDE DEF L
  <2>5. /\ w[0] = base /\ w[N] = base
        /\ \A k \in 0 .. N : w[k] \in L
        /\ \A k \in 1 .. N : w[k] = hdr[w[k - 1]].ptr
        /\ \A k \in 1 .. N - 1 : w[k] # base
        /\ \A x \in L : \E k \in 1 .. N : w[k] = x
    <3>1. Visits(hdr, L, base, w, N)
      BY <2>1, WalkVisits
    <3> HIDE DEF w, N
    <3> QED BY <3>1 DEF Visits
  <2>6. \A a \in L : a \in Nat /\ hdr[a].size \in Nat
    BY <2>1 DEF Blocks, L
  <2>7. \A a \in L : hdr[a].ptr = base \/ a + hdr[a].size < hdr[a].ptr
    BY <2>1 DEF Ring
  <2> HIDE DEF w, n, N
  <2>8. {w[k] : k \in 0 .. n} = L
    <3>1. \A k \in 0 .. n : w[k] \in L
      BY <2>4, <2>5
    <3>2. ASSUME NEW x \in L PROVE \E k \in 0 .. n : w[k] = x
      <4>1. PICK k \in 1 .. N : w[k] = x
        BY <2>5
      <4>2. CASE k = N
        BY <2>4, <2>5, <4>1, <4>2
      <4>3. CASE k # N
        BY <2>4, <4>1, <4>3
      <4> QED BY <4>2, <4>3
    <3> QED BY <3>1, <3>2
  <2>9. hdr[w[n]].ptr = base
    <3>1. N \in 1 .. N /\ N - 1 = n
      BY <2>4
    <3> QED BY <2>5, <3>1
  <2>10. ASSUME NEW k \in 1 .. n PROVE w[k - 1] < w[k] /\ w[k - 1] + hdr[w[k - 1]].size < w[k]
    <3>1. k \in 1 .. N /\ k \in 1 .. N - 1 /\ k - 1 \in 0 .. N /\ k \in 0 .. N
      BY <2>4
    <3>2. w[k] = hdr[w[k - 1]].ptr /\ w[k] # base /\ w[k - 1] \in L /\ w[k] \in L
      BY <2>5, <3>1
    <3>3. w[k - 1] + hdr[w[k - 1]].size < w[k]
      BY <2>7, <3>2
    <3> QED BY <2>6, <3>2, <3>3
  <2> QED BY <2>1, <2>2, <2>8, <2>9, <2>10
<1> QED BY <1>1, HeapInvInit, HeapStep, PTL DEF HeapSpec

(***************************************************************************)
(* SYS_sbrk and morecore use the allocator as its other callers do: a      *)
(* program's heap adds nothing to what may happen to the list of pages, so *)
(* that the theorems above hold of the composition too.                    *)
(***************************************************************************)
THEOREM HeapUsesPages == HeapSpec => Spec
<1>1. HeapInit => Init
  BY DEF HeapInit
<1>2. [HeapNext]_allvars => [Next]_vars
  BY DEF HeapNext, malloc, Served, Grown, Overlapping, free, Others, Next, allvars
<1> QED BY <1>1, <1>2, PTL DEF HeapSpec, Spec

=============================================================================

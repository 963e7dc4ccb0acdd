------------------------- MODULE AddressSpaceProofs --------------------------
(***************************************************************************)
(* Proofs about AddressSpace, for any number of processes, pages and       *)
(* frames: reference counts are exact, a writable frame is mapped once,    *)
(* and every process has a private memory.                                 *)
(***************************************************************************)
EXTENDS AddressSpace, ProofFacts, TLAPS

\* The entries that map frame f.
Mapped(f) == {pv \in Procs \X VPages : pte[pv[1]][pv[2]].frame = f}

Types ==
  /\ status \in [Procs -> {"free", "alive", "zombie"}]
  /\ pte \in [Procs -> [VPages -> Entry]]
  /\ ref_count \in [Frames -> Nat]
  /\ content \in [Frames -> Values]
  /\ handed \in 0..NumFrames
  /\ RunningTask \in Procs

(***************************************************************************)
(* The inductive invariant.  Tables hold frames that were handed out, a    *)
(* table holds a frame once, and a PCB without a process has no entries    *)
(* (so fork adds exactly one entry per frame and reaping takes one away).  *)
(* The TLB agrees with the table of the running process and holds present  *)
(* entries only.                                                           *)
(***************************************************************************)
TablesHandedOut ==
  \A p \in Procs, v \in VPages :
    pte[p][v].frame <= handed /\ (pte[p][v].w => pte[p][v].frame # 0)

OncePerTable ==
  \A p \in Procs, u, v \in VPages :
    pte[p][u].frame = pte[p][v].frame /\ pte[p][u].frame # 0 => u = v

FreeIsEmpty == \A p \in Procs : status[p] = "free" => pte[p] = EmptyTable

TlbAgrees ==
  /\ DOMAIN tlb \subseteq VPages
  /\ \A v \in DOMAIN tlb : tlb[v] = pte[RunningTask][v] /\ tlb[v].frame # 0

Exclusive ==
  \A p, q \in Procs, u, v \in VPages :
    pte[p][u].w /\ pte[q][v].frame = pte[p][u].frame => p = q /\ u = v

TableInv == Types /\ TablesHandedOut /\ OncePerTable /\ FreeIsEmpty /\ TlbAgrees /\ Exclusive

Inv == TableInv /\ RefCountExact

-----------------------------------------------------------------------------
(* Counting. *)

\* Mapped is a finite set of pairs, and RefCountExact counts it.
LEMMA MappedPairs ==
  ASSUME NEW f
  PROVE  /\ IsFiniteSet(Mapped(f))
         /\ \A p \in Procs, v \in VPages : <<p, v>> \in Mapped(f) <=> pte[p][v].frame = f
         /\ \A x \in Mapped(f) : \E p \in Procs, v \in VPages : x = <<p, v>>
<1>1. IsFiniteSet(Procs \X VPages)
  BY ProcsAssumption, VPagesAssumption, FS_Product
<1>2. Mapped(f) \subseteq Procs \X VPages
  BY DEF Mapped
<1>3. IsFiniteSet(Mapped(f))
  BY <1>1, <1>2, FS_Subset
<1> QED BY <1>2, <1>3 DEF Mapped

(***************************************************************************)
(* The table that exec and start() build: the pages of the binary go to    *)
(* the frames behind the stack's, in order, and use each of them once.     *)
(***************************************************************************)
ImageEnd(h) == h + 1 + Cardinality(Image)

LEMMA ImageCount == IsFiniteSet(Image) /\ Cardinality(Image) \in Nat
BY ImageAssumption, VPagesAssumption, FS_Subset, FS_CardinalityType

\* t maps the image at place and the stack, behind the h frames handed out.
MapsImage(t, place, h) ==
  /\ place \in [Image -> (h + 2)..ImageEnd(h)]
  /\ \A u, v \in Image : u < v => place[u] < place[v]
  /\ t = [v \in VPages |-> IF v \in Image THEN [frame |-> place[v], w |-> TRUE]
                          ELSE IF v = StackTop THEN [frame |-> h + 1, w |-> TRUE]
                          ELSE Absent]

\* Its entries are new frames and each of them occurs once.
ImageMapped(t, h) ==
  /\ \A v \in VPages :
       /\ t[v] \in [frame : 0..ImageEnd(h), w : BOOLEAN]
       /\ t[v].w => t[v].frame # 0
       /\ t[v].frame # 0 => t[v].frame > h
       /\ v \in Image => t[v].frame > h + 1
       /\ v \notin Image => t[v].frame \in {0, h + 1}
  /\ \A u, v \in VPages : t[u].frame = t[v].frame /\ t[u].frame # 0 => u = v
  /\ \A f \in (h + 1)..ImageEnd(h) : \E v \in VPages : t[v].frame = f

LEMMA ImageTable ==
  ASSUME NEW h \in Nat, NEW place, NEW t, MapsImage(t, place, h)
  PROVE  ImageMapped(t, h)
<1> USE DEF MapsImage
<1> DEFINE n == Cardinality(Image)
           S == (h + 2)..(h + 1 + n)
<1>1. n \in Nat /\ IsFiniteSet(Image)
  BY ImageCount
<1>2. \A u, v \in Image : place[u] = place[v] => u = v
  <2>1. \A u \in Image : u \in Nat /\ place[u] \in Nat
    BY ImageAssumption, VPagesAssumption, <1>1 DEF ImageEnd
  <2> QED BY <2>1
<1>3. IsFiniteSet(S) /\ Cardinality(S) = n
  <2> HIDE DEF n
  <2>1. \A a, b \in Int : IsFiniteSet(a..b) /\ Cardinality(a..b) = IF a > b THEN 0 ELSE b - a + 1
    BY FS_Interval
  <2> QED BY <1>1, <2>1
<1>4. place \in Injection(Image, S)
  BY <1>2 DEF Injection, IsInjective, ImageEnd
<1>5. place \in Surjection(Image, S)
  BY <1>1, <1>3, <1>4, FS_Injection
<1>6. \A f \in S : \E v \in Image : place[v] = f
  BY <1>5 DEF Surjection
<1> HIDE DEF n, S
<1>7. \A v \in Image : t[v] = [frame |-> place[v], w |-> TRUE] /\ v \in VPages
  BY ImageAssumption
<1>8. t[StackTop] = [frame |-> h + 1, w |-> TRUE] /\ StackTop \in VPages /\ StackTop \notin Image
  BY ImageAssumption
<1>9. \A v \in VPages : v \notin Image /\ v # StackTop => t[v] = [frame |-> 0, w |-> FALSE]
  BY DEF Absent
<1>10. \A v \in Image : place[v] \in Nat /\ place[v] > h + 1 /\ place[v] <= ImageEnd(h)
  BY <1>1 DEF ImageEnd, n
<1>11. ImageEnd(h) \in Nat /\ ImageEnd(h) >= h + 1
  BY <1>1 DEF ImageEnd, n
<1>12. \A v \in VPages :
         /\ t[v] \in [frame : 0..ImageEnd(h), w : BOOLEAN]
         /\ t[v].w => t[v].frame # 0
         /\ t[v].frame # 0 => t[v].frame > h
         /\ v \in Image => t[v].frame > h + 1
         /\ v \notin Image => t[v].frame \in {0, h + 1}
  <2> TAKE v \in VPages
  <2>1. CASE v \in Image
    <3>1. t[v] = [frame |-> place[v], w |-> TRUE]
      BY <2>1, <1>7
    <3>2. t[v].frame = place[v] /\ t[v] \in [frame : 0..ImageEnd(h), w : BOOLEAN]
      BY <2>1, <3>1, <1>10, <1>11
    <3> QED BY <2>1, <3>2, <1>10, <1>11
  <2>2. CASE v = StackTop
    <3>1. t[v].frame = h + 1 /\ t[v] \in [frame : 0..ImageEnd(h), w : BOOLEAN]
      BY <2>2, <1>8, <1>11
    <3> QED BY <2>2, <3>1, <1>8, <1>11
  <2>3. CASE v \notin Image /\ v # StackTop
    <3>1. t[v] = [frame |-> 0, w |-> FALSE]
      BY <2>3, <1>9
    <3>2. t[v] \in [frame : 0..ImageEnd(h), w : BOOLEAN]
      <4>1. 0 \in 0..ImageEnd(h)
        BY <1>11
      <4> QED BY ONLY <3>1, <4>1
    <3>3. t[v].frame = 0 /\ ~t[v].w
      BY <3>1
    <3> QED BY <2>3, <3>2, <3>3, <1>11
  <2> QED BY <2>1, <2>2, <2>3
<1>13. ASSUME NEW u \in VPages, NEW v \in VPages, t[u].frame = t[v].frame, t[u].frame # 0
       PROVE  u = v
  BY <1>13, <1>2, <1>7, <1>8, <1>9, <1>10
<1>14. ASSUME NEW f \in (h + 1)..ImageEnd(h) PROVE \E v \in VPages : t[v].frame = f
  <2>1. f = h + 1 \/ f \in S
    BY <1>1 DEF ImageEnd, S, n
  <2> QED BY <2>1, <1>6, <1>7, <1>8
<1> QED BY <1>12, <1>13, <1>14 DEF ImageMapped

-----------------------------------------------------------------------------
(* The initial state. *)

\* Entries and tables by their parts.
LEMMA Entries ==
  /\ \A e \in Entry : e.frame \in 0..NumFrames /\ e.frame \in Nat /\ e.w \in BOOLEAN
  /\ \A f \in 0..NumFrames, b \in BOOLEAN : [frame |-> f, w |-> b] \in Entry
  /\ Absent \in Entry /\ Absent.frame = 0 /\ ~Absent.w
  /\ \A v \in VPages : EmptyTable[v] = Absent
  /\ EmptyTable \in [VPages -> Entry]
<1>1. \A e \in Entry : e.frame \in 0..NumFrames /\ e.frame \in Nat /\ e.w \in BOOLEAN
  BY NumFramesAssumption DEF Entry
<1>2. \A f \in 0..NumFrames, b \in BOOLEAN : [frame |-> f, w |-> b] \in Entry
  BY DEF Entry
<1>3. 0 \in 0..NumFrames
  BY NumFramesAssumption
<1>4. Absent \in Entry
  BY <1>2, <1>3 DEF Absent
<1>5. Absent.frame = 0 /\ ~Absent.w
  BY DEF Absent
<1>6. \A v \in VPages : EmptyTable[v] = Absent
  BY DEF EmptyTable
<1>7. EmptyTable \in [VPages -> Entry]
  BY <1>4 DEF EmptyTable
<1> QED BY <1>1, <1>2, <1>4, <1>5, <1>6, <1>7

\* RefCountExact with the name for the set it counts.
LEMMA RefCounts == RefCountExact <=> \A f \in Frames : ref_count[f] = Cardinality(Mapped(f))
BY DEF RefCountExact, Mapped

LEMMA RefCountsPrime ==
  RefCountExact' <=> \A f \in Frames : ref_count'[f] = Cardinality(Mapped(f)')
BY DEF RefCountExact, Mapped

LEMMA InvInit == Init => Inv
<1> SUFFICES ASSUME Init PROVE Inv
  OBVIOUS
<1> DEFINE R == RunningTask
           t == pte[RunningTask]
<1>1. PICK place \in [Image -> 2..handed] :
        /\ \A u, v \in Image : u < v => place[u] < place[v]
        /\ pte = [p \in Procs |->
                    IF p # RunningTask THEN EmptyTable
                    ELSE [v \in VPages |->
                            IF v \in Image THEN [frame |-> place[v], w |-> TRUE]
                            ELSE IF v = StackTop THEN [frame |-> 1, w |-> TRUE]
                            ELSE Absent]]
  BY DEF Init
<1>2. R \in Procs /\ handed = ImageEnd(0) /\ ImageEnd(0) \in 1..NumFrames
  BY ImageCount, NumFramesAssumption DEF Init, ImageEnd
<1>3. t = [v \in VPages |-> IF v \in Image THEN [frame |-> place[v], w |-> TRUE]
                           ELSE IF v = StackTop THEN [frame |-> 1, w |-> TRUE]
                           ELSE Absent]
  BY <1>1, <1>2
<1>4. \A p \in Procs : p # R => pte[p] = EmptyTable
  BY <1>1
<1> HIDE DEF t
<1>5. /\ \A v \in VPages :
            /\ t[v] \in [frame : 0..ImageEnd(0), w : BOOLEAN]
            /\ t[v].w => t[v].frame # 0
      /\ \A u, v \in VPages : t[u].frame = t[v].frame /\ t[u].frame # 0 => u = v
      /\ \A f \in 1..ImageEnd(0) : \E v \in VPages : t[v].frame = f
  <2>1. 0 \in Nat /\ 0 + 2 = 2 /\ 0 + 1 = 1
    OBVIOUS
  <2>2. place \in [Image -> (0 + 2)..ImageEnd(0)]
    BY <1>1, <1>2, <2>1
  <2>3. MapsImage(t, place, 0)
    BY <1>1, <1>3, <2>1, <2>2 DEF MapsImage
  <2> QED BY <2>1, <2>3, ImageTable DEF ImageMapped
<1>6. \A v \in VPages : t[v] \in Entry /\ t[v].frame <= handed /\ (t[v].w => t[v].frame # 0)
  BY <1>2, <1>5, NumFramesAssumption DEF Entry
<1>7. \A p \in Procs, v \in VPages : pte[p][v] = IF p = R THEN t[v] ELSE Absent
  BY <1>4, Entries DEF t
<1>8. pte \in [Procs -> [VPages -> Entry]]
  <2>1. t \in [VPages -> Entry]
    BY <1>3, <1>6
  <2> QED BY <1>1, <1>4, <2>1, Entries DEF t
<1>9. Types
  <2>1. \A f \in Frames : f \in Nat
    BY NumFramesAssumption DEF Frames
  <2>2. ref_count \in [Frames -> Nat] /\ content \in [Frames -> Values]
    BY ValuesAssumption DEF Init
  <2>3. status \in [Procs -> {"free", "alive", "zombie"}]
    BY DEF Init
  <2> QED BY <1>2, <1>8, <2>2, <2>3, NumFramesAssumption DEF Types
<1>10. TablesHandedOut
  BY <1>2, <1>6, <1>7, Entries DEF TablesHandedOut
<1>11. OncePerTable
  BY <1>5, <1>7, Entries DEF OncePerTable
<1>12. FreeIsEmpty
  BY <1>2, <1>4 DEF FreeIsEmpty, Init
<1>13. TlbAgrees
  BY DEF TlbAgrees, Init, EmptyTlb
<1>14. Exclusive
  <2> SUFFICES ASSUME NEW p \in Procs, NEW q \in Procs, NEW u \in VPages, NEW v \in VPages,
                      pte[p][u].w, pte[q][v].frame = pte[p][u].frame
               PROVE  p = q /\ u = v
    BY DEF Exclusive
  <2>1. p = R /\ t[u].w /\ t[u].frame # 0
    BY <1>5, <1>7, Entries
  <2>2. q = R /\ t[v].frame = t[u].frame
    BY <2>1, <1>7, Entries
  <2> QED BY <2>1, <2>2, <1>5
<1>15. RefCountExact
  <2> SUFFICES ASSUME NEW f \in Frames PROVE ref_count[f] = Cardinality(Mapped(f))
    BY RefCounts
  <2>1. f \in Nat /\ f # 0
    BY NumFramesAssumption DEF Frames
  <2>2. CASE f <= handed
    <3>1. PICK v \in VPages : t[v].frame = f
      BY <1>2, <1>5, <2>1, <2>2
    <3>2. Mapped(f) = {<<R, v>>}
      BY <1>2, <1>5, <1>7, <2>1, <3>1, Entries, MappedPairs
    <3>3. ref_count[f] = 1
      BY <2>2 DEF Init
    <3> QED BY <3>2, <3>3, FS_Singleton
  <2>3. CASE ~(f <= handed)
    <3>1. \A p \in Procs, v \in VPages : pte[p][v].frame # f
      BY <1>2, <1>6, <1>7, <2>1, <2>3, Entries
    <3>2. Mapped(f) = {}
      BY <3>1, MappedPairs
    <3>3. ref_count[f] = 0
      BY <2>3 DEF Init
    <3> QED BY <3>2, <3>3, FS_EmptySet
  <2> QED BY <2>2, <2>3
<1> QED BY <1>9, <1>10, <1>11, <1>12, <1>13, <1>14, <1>15 DEF Inv, TableInv

-----------------------------------------------------------------------------
(* What the steps preserve. *)

\* What the processor sees of a page is what the table says.
LEMMA TranslationIsTable ==
  ASSUME Inv, NEW v \in VPages
  PROVE  /\ Translation(v) = pte[RunningTask][v]
         /\ Translation(v) \in Entry
         /\ Translation(v).frame = 0 => v \notin DOMAIN tlb
BY DEF Inv, TableInv, Types, TlbAgrees, Translation

\* Frames of a table by its entries.
LEMMA FramesOfTable ==
  ASSUME NEW p, NEW f \in Frames
  PROVE  f \in FramesOf(p) <=> \E v \in VPages : pte[p][v].frame = f
BY NumFramesAssumption DEF FramesOf, Frames

\* Steps that leave the tables and the counts alone.
LEMMA TablesKept ==
  ASSUME Inv, UNCHANGED <<pte, ref_count, handed>>
  PROVE  /\ TablesHandedOut' /\ OncePerTable' /\ Exclusive' /\ RefCountExact'
         /\ status' = status => FreeIsEmpty'
BY DEF Inv, TableInv, TablesHandedOut, OncePerTable, Exclusive, RefCountExact, FreeIsEmpty

\* A load or store caches the translation it used.
LEMMA CachingAgrees ==
  ASSUME Inv, NEW v \in VPages, Translation(v).frame # 0, tlb' = Cached(v, Translation(v)),
         UNCHANGED <<pte, RunningTask>>
  PROVE  TlbAgrees'
BY TranslationIsTable DEF Inv, TableInv, TlbAgrees, Cached

\* An empty TLB agrees with any table.
LEMMA FlushedAgrees == ASSUME tlb' = EmptyTlb PROVE TlbAgrees'
BY DEF TlbAgrees, EmptyTlb

\* The frame after those handed out is in range and mapped by nobody.
LEMMA NextFrame ==
  ASSUME Inv, handed < NumFrames
  PROVE  /\ handed + 1 \in Frames /\ handed + 1 \in 0..NumFrames /\ handed \in Nat
         /\ \A p \in Procs, v \in VPages : pte[p][v].frame # handed + 1
<1>1. handed \in Nat /\ handed + 1 \in 0..NumFrames /\ handed + 1 \in Frames
  BY NumFramesAssumption DEF Inv, TableInv, Types, Frames
<1>2. \A p \in Procs, v \in VPages : pte[p][v].frame \in Nat /\ pte[p][v].frame <= handed
  BY Entries DEF Inv, TableInv, Types, TablesHandedOut
<1> QED BY <1>1, <1>2

\* The page-fault handler maps a new frame, writable, at page v of the running
\* process, and the frame there before (if any) loses one entry.
LEMMA MapsNewFrame ==
  ASSUME Inv, NEW v \in VPages, handed < NumFrames, handed' = handed + 1,
         UNCHANGED <<status, RunningTask>>, status[RunningTask] = "alive",
         pte' = [pte EXCEPT ![RunningTask][v] = [frame |-> handed + 1, w |-> TRUE]]
  PROVE  /\ pte' \in [Procs -> [VPages -> Entry]]
         /\ \A p \in Procs, u \in VPages :
              pte'[p][u] = IF p = RunningTask /\ u = v THEN [frame |-> handed + 1, w |-> TRUE]
                           ELSE pte[p][u]
         /\ TablesHandedOut' /\ OncePerTable' /\ FreeIsEmpty' /\ Exclusive'
         /\ \A f \in Frames :
              Mapped(f)' = IF f = handed + 1 THEN {<<RunningTask, v>>}
                           ELSE Mapped(f) \ {<<RunningTask, v>>}
<1> DEFINE R == RunningTask
           e == [frame |-> handed + 1, w |-> TRUE]
<1>1. R \in Procs /\ pte \in [Procs -> [VPages -> Entry]] /\ e \in Entry
  BY NextFrame, Entries DEF Inv, TableInv, Types
<1>2. pte' \in [Procs -> [VPages -> Entry]]
  BY <1>1
<1>3. \A p \in Procs, u \in VPages : pte'[p][u] = IF p = R /\ u = v THEN e ELSE pte[p][u]
  BY <1>1
<1>4. e.frame = handed + 1 /\ e.w
  OBVIOUS
<1> HIDE DEF e
<1>5. \A p \in Procs, u \in VPages :
        /\ pte[p][u].frame \in Nat /\ pte[p][u].frame <= handed /\ pte[p][u].frame # handed + 1
        /\ (pte[p][u].w => pte[p][u].frame # 0)
  BY <1>1, NextFrame, Entries DEF Inv, TableInv, TablesHandedOut
<1>6. TablesHandedOut'
  <2> SUFFICES ASSUME NEW p \in Procs, NEW u \in VPages
               PROVE  pte'[p][u].frame <= handed' /\ (pte'[p][u].w => pte'[p][u].frame # 0)
    BY DEF TablesHandedOut
  <2>1. handed \in Nat
    BY NextFrame
  <2> QED BY <2>1, <1>3, <1>4, <1>5
<1>7. OncePerTable'
  BY <1>1, <1>3, <1>4, <1>5 DEF Inv, TableInv, OncePerTable
<1>8. Exclusive'
  BY <1>1, <1>3, <1>4, <1>5 DEF Inv, TableInv, Exclusive
<1>9. FreeIsEmpty'
  BY <1>1 DEF Inv, TableInv, FreeIsEmpty
<1>10. ASSUME NEW f \in Frames
       PROVE  Mapped(f)' = IF f = handed + 1 THEN {<<R, v>>} ELSE Mapped(f) \ {<<R, v>>}
  <2>1. Mapped(f)' = {pv \in Procs \X VPages : pte'[pv[1]][pv[2]].frame = f}
    BY DEF Mapped
  <2>2. Mapped(f) = {pv \in Procs \X VPages : pte[pv[1]][pv[2]].frame = f}
    BY DEF Mapped
  <2> QED BY <2>1, <2>2, <1>1, <1>3, <1>4, <1>5
<1> QED BY <1>2, <1>3, <1>6, <1>7, <1>8, <1>9, <1>10 DEF e

LEMMA AccessStep ==
  ASSUME Inv, NEW v \in VPages, Read(v) \/ \E x \in Values : Write(v, x)
  PROVE  Inv'
<1>1. /\ UNCHANGED <<status, pte, ref_count, handed, RunningTask>>
      /\ Translation(v).frame # 0 /\ tlb' = Cached(v, Translation(v))
  BY DEF Read, Write
<1>2. content' \in [Frames -> Values]
  BY DEF Read, Write, Inv, TableInv, Types
<1>3. Types'
  BY <1>1, <1>2 DEF Inv, TableInv, Types
<1> QED BY <1>1, <1>3, TablesKept, CachingAgrees DEF Inv, TableInv

LEMMA CowFaultStep ==
  ASSUME Inv, NEW v \in VPages, CowFault(v)
  PROVE  Inv'
<1> DEFINE R == RunningTask
           f == pte[R][v].frame
<1>1. /\ R \in Procs /\ pte \in [Procs -> [VPages -> Entry]] /\ pte[R][v] \in Entry
      /\ ref_count \in [Frames -> Nat]
  BY DEF Inv, TableInv, Types
<1>2. f \in Frames /\ f # 0 /\ f \in Nat /\ status[R] = "alive"
  BY <1>1, Entries, NumFramesAssumption DEF CowFault, Present, Frames
<1>3. <<R, v>> \in Mapped(f) /\ IsFiniteSet(Mapped(f)) /\ ref_count[f] = Cardinality(Mapped(f))
  BY <1>1, <1>2, MappedPairs, RefCounts DEF Inv
<1>4. status' = status /\ RunningTask' = RunningTask /\ TlbAgrees'
  BY FlushedAgrees DEF CowFault
<1>5. CASE /\ SoleOwner(f)
           /\ pte' = [pte EXCEPT ![RunningTask][v].w = TRUE]
           /\ UNCHANGED <<ref_count, content, handed>>
  <2>1. ASSUME NEW p \in Procs, NEW u \in VPages, pte[p][u].frame = f
        PROVE  p = R /\ u = v
    <3>1. <<p, u>> \in Mapped(f)
      BY <2>1, MappedPairs
    <3>2. Cardinality(Mapped(f)) = 1
      BY <1>3, <1>5 DEF SoleOwner
    <3>3. <<p, u>> = <<R, v>>
      <4> HIDE DEF f, R
      <4>1. \A x, y \in Mapped(f) : x # y => Cardinality(Mapped(f)) >= 2
        BY <1>3, Counting
      <4> QED BY <1>3, <3>1, <3>2, <4>1
    <3> QED BY <3>3
  <2>2. \A p \in Procs, u \in VPages :
          /\ pte'[p][u].frame = pte[p][u].frame
          /\ pte'[p][u].w <=> (pte[p][u].w \/ (p = R /\ u = v))
    <3> SUFFICES ASSUME NEW p \in Procs, NEW u \in VPages
                 PROVE  /\ pte'[p][u].frame = pte[p][u].frame
                        /\ pte'[p][u].w <=> (pte[p][u].w \/ (p = R /\ u = v))
      OBVIOUS
    <3>1. CASE p = R /\ u = v
      <4>1. pte'[p][u] = [pte[R][v] EXCEPT !.w = TRUE]
        BY <1>1, <1>5, <3>1
      <4>2. pte'[p][u].frame = pte[R][v].frame /\ pte'[p][u].w
        BY <1>1, <4>1 DEF Entry
      <4> QED BY <3>1, <4>2
    <3>2. CASE ~(p = R /\ u = v)
      BY <1>1, <1>5, <3>2
    <3> QED BY <3>1, <3>2
  <2>3. pte' \in [Procs -> [VPages -> Entry]]
    <3>1. [pte[R][v] EXCEPT !.w = TRUE] \in Entry
      BY <1>1 DEF Entry
    <3> QED BY <1>1, <1>5, <3>1
  <2>4. Types'
    BY <1>4, <1>5, <2>3 DEF Inv, TableInv, Types
  <2>5. TablesHandedOut' /\ OncePerTable'
    BY <1>2, <1>5, <2>2 DEF Inv, TableInv, TablesHandedOut, OncePerTable
  <2>6. FreeIsEmpty'
    BY <1>1, <1>2, <1>4, <1>5 DEF Inv, TableInv, FreeIsEmpty
  <2>7. Exclusive'
    BY <1>1, <2>1, <2>2 DEF Inv, TableInv, Exclusive
  <2>8. RefCountExact'
    <3>1. \A g : Mapped(g)' = Mapped(g)
      BY <2>2 DEF Mapped
    <3> QED BY <1>5, <3>1, RefCounts, RefCountsPrime DEF Inv
  <2> QED BY <1>4, <2>4, <2>5, <2>6, <2>7, <2>8 DEF Inv, TableInv
<1>6. CASE /\ ref_count[f] > 1 /\ handed < NumFrames
           /\ handed' = handed + 1
           /\ content' = copy_page(f)
           /\ pte' = [pte EXCEPT ![RunningTask][v] = [frame |-> handed + 1, w |-> TRUE]]
           /\ ref_count' = move_share(f)
  <2>1. handed + 1 \in Frames /\ handed + 1 \in 0..NumFrames /\ f # handed + 1
    BY <1>1, <1>6, NextFrame
  <2>2. /\ pte' \in [Procs -> [VPages -> Entry]]
        /\ TablesHandedOut' /\ OncePerTable' /\ FreeIsEmpty' /\ Exclusive'
        /\ \A g \in Frames : Mapped(g)' = IF g = handed + 1 THEN {<<R, v>>}
                                         ELSE Mapped(g) \ {<<R, v>>}
    BY <1>2, <1>4, <1>6, MapsNewFrame
  <2>3. \A g \in Frames : ref_count'[g] = IF g = handed + 1 THEN 1
                                         ELSE IF g = f THEN ref_count[f] - 1 ELSE ref_count[g]
    BY <1>1, <1>2, <1>6, <2>1 DEF move_share
  <2>4. ref_count' \in [Frames -> Nat] /\ content' \in [Frames -> Values]
    BY <1>1, <1>2, <1>6, <2>1 DEF move_share, copy_page, Inv, TableInv, Types
  <2>5. Types'
    BY <1>1, <1>4, <1>6, <2>1, <2>2, <2>4 DEF Inv, TableInv, Types
  <2>6. RefCountExact'
    <3> SUFFICES ASSUME NEW g \in Frames PROVE ref_count'[g] = Cardinality(Mapped(g)')
      BY RefCountsPrime
    <3>1. CASE g = handed + 1
      BY <2>2, <2>3, <3>1, FS_Singleton
    <3>2. CASE g = f
      BY <1>3, <2>1, <2>2, <2>3, <3>2, Counting
    <3>3. CASE g # f /\ g # handed + 1
      <4>1. <<R, v>> \notin Mapped(g)
        BY <1>1, <3>3, MappedPairs
      <4>2. Mapped(g)' = Mapped(g)
        BY <2>2, <3>3, <4>1
      <4> QED BY <2>3, <3>3, <4>2, RefCounts DEF Inv
    <3> QED BY <3>1, <3>2, <3>3
  <2> QED BY <1>4, <2>2, <2>5, <2>6 DEF Inv, TableInv
<1> QED BY <1>5, <1>6 DEF CowFault

LEMMA StackFaultStep ==
  ASSUME Inv, NEW v \in VPages, StackFault(v)
  PROVE  Inv'
<1> DEFINE R == RunningTask
<1>1. /\ status[R] = "alive" /\ handed < NumFrames /\ handed' = handed + 1
      /\ content' = [content EXCEPT ![handed + 1] = 0]
      /\ ref_count' = [ref_count EXCEPT ![handed + 1] = 1]
      /\ pte' = [pte EXCEPT ![RunningTask][v] = [frame |-> handed + 1, w |-> TRUE]]
      /\ UNCHANGED <<status, RunningTask, tlb>>
      /\ pte[R][v].frame = 0 /\ v \notin DOMAIN tlb /\ R \in Procs
  BY TranslationIsTable DEF StackFault, Inv, TableInv, Types
<1>2. /\ pte' \in [Procs -> [VPages -> Entry]]
      /\ \A p \in Procs, u \in VPages :
           pte'[p][u] = IF p = R /\ u = v THEN [frame |-> handed + 1, w |-> TRUE] ELSE pte[p][u]
      /\ TablesHandedOut' /\ OncePerTable' /\ FreeIsEmpty' /\ Exclusive'
      /\ \A g \in Frames : Mapped(g)' = IF g = handed + 1 THEN {<<R, v>>}
                                       ELSE Mapped(g) \ {<<R, v>>}
  BY <1>1, MapsNewFrame
<1>3. handed + 1 \in Frames /\ handed + 1 \in 0..NumFrames
  BY <1>1, NextFrame
<1>4. ref_count' \in [Frames -> Nat] /\ content' \in [Frames -> Values]
  BY <1>1, ValuesAssumption DEF Inv, TableInv, Types
<1>5. Types'
  BY <1>1, <1>2, <1>3, <1>4 DEF Inv, TableInv, Types
<1>6. TlbAgrees'
  BY <1>1, <1>2 DEF Inv, TableInv, TlbAgrees
<1>7. RefCountExact'
  <2> SUFFICES ASSUME NEW g \in Frames PROVE ref_count'[g] = Cardinality(Mapped(g)')
    BY RefCountsPrime
  <2>1. CASE g = handed + 1
    BY <1>1, <1>2, <1>3, <2>1, FS_Singleton DEF Inv, TableInv, Types
  <2>2. CASE g # handed + 1
    <3>1. <<R, v>> \notin Mapped(g)
      BY <1>1, MappedPairs, NumFramesAssumption DEF Frames
    <3>2. Mapped(g)' = Mapped(g)
      BY <1>2, <2>2, <3>1
    <3>3. ref_count'[g] = ref_count[g]
      BY <1>1, <2>2 DEF Inv, TableInv, Types
    <3> QED BY <3>2, <3>3, RefCounts DEF Inv
  <2> QED BY <2>1, <2>2
<1> QED BY <1>2, <1>5, <1>6, <1>7 DEF Inv, TableInv

LEMMA ForkStep ==
  ASSUME Inv, NEW c \in Procs, Fork(c)
  PROVE  Inv'
<1> DEFINE R == RunningTask
           shared == [v \in VPages |-> [pte[R][v] EXCEPT !.w = FALSE]]
<1>1. /\ R \in Procs /\ pte \in [Procs -> [VPages -> Entry]] /\ ref_count \in [Frames -> Nat]
      /\ status[R] = "alive" /\ status[c] = "free" /\ c # R /\ pte[c] = EmptyTable
  BY DEF Fork, Inv, TableInv, Types, FreeIsEmpty
<1>2. /\ status' = [status EXCEPT ![c] = "alive"]
      /\ pte' = [pte EXCEPT ![R] = shared, ![c] = shared]
      /\ ref_count' = [f \in Frames |-> IF f \in FramesOf(R) THEN ref_count[f] + 1 ELSE ref_count[f]]
      /\ UNCHANGED <<content, handed, RunningTask>> /\ TlbAgrees'
  BY FlushedAgrees DEF Fork
<1>3. \A v \in VPages : shared[v] \in Entry /\ shared[v].frame = pte[R][v].frame /\ ~shared[v].w
  <2> SUFFICES ASSUME NEW v \in VPages, NEW e \in Entry, e = pte[R][v]
               PROVE  shared[v] \in Entry /\ shared[v].frame = e.frame /\ ~shared[v].w
    BY <1>1
  <2>1. shared[v] = [e EXCEPT !.w = FALSE]
    OBVIOUS
  <2>2. shared[v] = [frame |-> e.frame, w |-> FALSE]
    BY <2>1 DEF Entry
  <2> HIDE DEF shared
  <2>3. shared[v].frame = e.frame /\ ~shared[v].w
    BY <2>2
  <2>4. shared[v] \in Entry
    BY <2>2, Entries
  <2> QED BY <2>3, <2>4
<1>4. shared \in [VPages -> Entry]
  BY <1>3
<1> HIDE DEF shared
<1>5. pte' \in [Procs -> [VPages -> Entry]]
  BY <1>1, <1>2, <1>4
<1>6. \A p \in Procs : pte'[p] = IF p = R \/ p = c THEN shared ELSE pte[p]
  BY <1>1, <1>2
<1>7. Types'
  <2>1. ref_count' \in [Frames -> Nat]
    BY <1>1, <1>2
  <2>2. status' \in [Procs -> {"free", "alive", "zombie"}]
    BY <1>2 DEF Inv, TableInv, Types
  <2> QED BY <1>2, <1>5, <2>1, <2>2 DEF Inv, TableInv, Types
<1>8. TablesHandedOut'
  BY <1>1, <1>2, <1>3, <1>6 DEF Inv, TableInv, TablesHandedOut
<1>9. OncePerTable'
  BY <1>1, <1>3, <1>6 DEF Inv, TableInv, OncePerTable
<1>10. FreeIsEmpty'
  BY <1>1, <1>2, <1>6 DEF Inv, TableInv, Types, FreeIsEmpty
<1>11. Exclusive'
  <2> SUFFICES ASSUME NEW p \in Procs, NEW q \in Procs, NEW u \in VPages, NEW v \in VPages,
                      pte'[p][u].w, pte'[q][v].frame = pte'[p][u].frame
               PROVE  p = q /\ u = v
    BY DEF Exclusive
  <2>1. p # R /\ p # c /\ pte[p][u].w /\ pte'[p][u].frame = pte[p][u].frame
    BY <1>3, <1>6
  <2>2. q # R /\ q # c
    BY <1>1, <1>3, <1>6, <2>1 DEF Inv, TableInv, Exclusive
  <2> QED BY <1>6, <2>1, <2>2 DEF Inv, TableInv, Exclusive
<1>12. RefCountExact'
  <2> SUFFICES ASSUME NEW f \in Frames PROVE ref_count'[f] = Cardinality(Mapped(f)')
    BY RefCountsPrime
  <2>1. f \in Nat /\ f # 0
    BY NumFramesAssumption DEF Frames
  <2>2. ref_count[f] = Cardinality(Mapped(f)) /\ IsFiniteSet(Mapped(f))
    BY RefCounts, MappedPairs DEF Inv
  <2>3. \A p \in Procs, v \in VPages :
          pte'[p][v].frame = IF p = c THEN pte[R][v].frame ELSE pte[p][v].frame
    BY <1>3, <1>6
  <2>4. \A v \in VPages : pte[c][v].frame = 0
    BY <1>1, Entries
  <2>5. CASE f \in FramesOf(R)
    <3>1. PICK v \in VPages : pte[R][v].frame = f
      BY <2>5, FramesOfTable
    <3>2. \A u \in VPages : pte[R][u].frame = f <=> u = v
      BY <1>1, <2>1, <3>1 DEF Inv, TableInv, OncePerTable
    <3>3. Mapped(f)' = Mapped(f) \cup {<<c, v>>}
      BY <2>1, <2>3, <2>4, <3>2 DEF Mapped
    <3>4. <<c, v>> \notin Mapped(f)
      BY <2>1, <2>4, MappedPairs
    <3> QED BY <1>2, <2>2, <2>5, <3>3, <3>4, Counting
  <2>6. CASE f \notin FramesOf(R)
    <3>1. \A v \in VPages : pte[R][v].frame # f
      BY <2>6, FramesOfTable
    <3>2. Mapped(f)' = Mapped(f)
      BY <2>1, <2>3, <2>4, <3>1 DEF Mapped
    <3> QED BY <1>2, <2>2, <2>6, <3>2
  <2> QED BY <2>5, <2>6
<1> QED BY <1>2, <1>7, <1>8, <1>9, <1>10, <1>11, <1>12 DEF Inv, TableInv

LEMMA ExitStep ==
  ASSUME Inv, Exit
  PROVE  Inv'
<1>1. /\ status' = [status EXCEPT ![RunningTask] = "zombie"]
      /\ UNCHANGED <<pte, ref_count, content, handed, RunningTask>> /\ TlbAgrees'
  BY FlushedAgrees DEF Exit
<1>2. Types'
  BY <1>1 DEF Inv, TableInv, Types
<1>3. FreeIsEmpty'
  BY <1>1 DEF Inv, TableInv, Types, FreeIsEmpty
<1> QED BY <1>1, <1>2, <1>3, TablesKept DEF Inv, TableInv

LEMMA SwitchStep ==
  ASSUME Inv, NEW p \in Procs, Switch(p)
  PROVE  Inv'
<1>1. /\ RunningTask' = p /\ UNCHANGED <<status, pte, ref_count, content, handed>> /\ TlbAgrees'
  BY FlushedAgrees DEF Switch
<1>2. Types'
  BY <1>1 DEF Inv, TableInv, Types
<1> QED BY <1>1, <1>2, TablesKept DEF Inv, TableInv

\* What clear_mapping leaves of the counts, frame by frame, and that it clears
\* no frame that another process maps.
LEMMA ClearMapping ==
  ASSUME Inv, NEW p \in Procs, NEW f \in Frames
  PROVE  /\ clear_mapping(p).ref[f] = Cardinality(Mapped(f) \ ({p} \X VPages))
         /\ clear_mapping(p).ref[f] \in Nat
         /\ clear_mapping(p).mem[f] \in Values
         /\ \A q \in Procs, v \in VPages :
              q # p /\ pte[q][v].frame = f => clear_mapping(p).mem[f] = content[f]
<1>1. f \in Nat /\ f # 0 /\ ref_count[f] \in Nat /\ content[f] \in Values
  BY NumFramesAssumption DEF Frames, Inv, TableInv, Types
<1>2. ref_count[f] = Cardinality(Mapped(f)) /\ IsFiniteSet(Mapped(f))
  BY RefCounts, MappedPairs DEF Inv
<1>3. /\ clear_mapping(p).ref[f] = IF f \notin FramesOf(p) THEN ref_count[f]
                                  ELSE IF ref_count[f] > 1 THEN ref_count[f] - 1 ELSE 0
      /\ clear_mapping(p).mem[f] = IF f \in FramesOf(p) /\ ref_count[f] <= 1 THEN 0 ELSE content[f]
  BY DEF clear_mapping
<1>4. clear_mapping(p).mem[f] \in Values /\ clear_mapping(p).ref[f] \in Nat
  BY <1>1, <1>3, ValuesAssumption
<1>5. CASE f \in FramesOf(p)
  <2>1. PICK v \in VPages : pte[p][v].frame = f
    BY <1>5, FramesOfTable
  <2>2. \A u \in VPages : pte[p][u].frame = f <=> u = v
    BY <1>1, <2>1 DEF Inv, TableInv, OncePerTable
  <2>3. Mapped(f) \ ({p} \X VPages) = Mapped(f) \ {<<p, v>>}
    BY <2>2 DEF Mapped
  <2>4. <<p, v>> \in Mapped(f)
    BY <2>1, MappedPairs
  <2>5. Cardinality(Mapped(f)) >= 1 /\ Cardinality(Mapped(f) \ {<<p, v>>}) = Cardinality(Mapped(f)) - 1
    BY <1>2, <2>4, Counting
  <2>6. clear_mapping(p).ref[f] = Cardinality(Mapped(f) \ ({p} \X VPages))
    <3>1. ref_count[f] >= 1 /\ Cardinality(Mapped(f) \ ({p} \X VPages)) = ref_count[f] - 1
      BY <1>2, <2>3, <2>5
    <3>2. clear_mapping(p).ref[f] = ref_count[f] - 1
      BY <1>1, <1>3, <1>5, <3>1
    <3> QED BY <3>1, <3>2
  <2>7. ASSUME NEW q \in Procs, NEW u \in VPages, q # p, pte[q][u].frame = f
        PROVE  clear_mapping(p).mem[f] = content[f]
    <3>1. <<q, u>> \in Mapped(f) /\ <<q, u>> # <<p, v>>
      BY <2>7, MappedPairs
    <3>2. ref_count[f] >= 2
      BY <1>2, <2>4, <3>1, Counting
    <3> QED BY <1>1, <1>3, <3>2
  <2> QED BY <1>4, <2>6, <2>7
<1>6. CASE f \notin FramesOf(p)
  <2>1. \A v \in VPages : pte[p][v].frame # f
    BY <1>6, FramesOfTable
  <2>2. Mapped(f) \ ({p} \X VPages) = Mapped(f)
    BY <2>1 DEF Mapped
  <2> QED BY <1>2, <1>3, <1>4, <1>6, <2>2
<1> QED BY <1>5, <1>6

LEMMA ReapStep ==
  ASSUME Inv, NEW c \in Procs, Reap(c)
  PROVE  Inv'
<1> DEFINE R == RunningTask
<1>1. /\ R \in Procs /\ c # R /\ status[R] = "alive" /\ pte \in [Procs -> [VPages -> Entry]]
      /\ status' = [status EXCEPT ![c] = "free"]
      /\ pte' = [pte EXCEPT ![c] = EmptyTable]
      /\ ref_count' = clear_mapping(c).ref /\ content' = clear_mapping(c).mem
      /\ UNCHANGED <<handed, RunningTask, tlb>>
  BY DEF Reap, Inv, TableInv, Types
<1>2. /\ pte' \in [Procs -> [VPages -> Entry]]
      /\ \A p \in Procs : pte'[p] = IF p = c THEN EmptyTable ELSE pte[p]
  BY <1>1, Entries
<1>3. \A p \in Procs, v \in VPages : pte'[p][v] = IF p = c THEN Absent ELSE pte[p][v]
  BY <1>2, Entries
<1>4. Types'
  <2>1. ref_count' \in [Frames -> Nat]
    <3>1. ref_count' = [f \in Frames |-> clear_mapping(c).ref[f]]
      BY <1>1 DEF clear_mapping
    <3> QED BY <3>1, ClearMapping
  <2>2. content' \in [Frames -> Values]
    <3>1. content' = [f \in Frames |-> clear_mapping(c).mem[f]]
      BY <1>1 DEF clear_mapping
    <3> QED BY <3>1, ClearMapping
  <2>3. status' \in [Procs -> {"free", "alive", "zombie"}]
    BY <1>1 DEF Inv, TableInv, Types
  <2> QED BY <1>1, <1>2, <2>1, <2>2, <2>3 DEF Inv, TableInv, Types
<1>5. TablesHandedOut'
  <2>1. handed \in Nat
    BY NumFramesAssumption DEF Inv, TableInv, Types
  <2> QED BY <1>1, <1>3, <2>1, Entries DEF Inv, TableInv, TablesHandedOut
<1>6. OncePerTable'
  BY <1>3, Entries DEF Inv, TableInv, OncePerTable
<1>7. FreeIsEmpty'
  BY <1>1, <1>2 DEF Inv, TableInv, Types, FreeIsEmpty
<1>8. TlbAgrees'
  BY <1>1, <1>3 DEF Inv, TableInv, TlbAgrees
<1>9. Exclusive'
  <2> SUFFICES ASSUME NEW p \in Procs, NEW q \in Procs, NEW u \in VPages, NEW v \in VPages,
                      pte'[p][u].w, pte'[q][v].frame = pte'[p][u].frame
               PROVE  p = q /\ u = v
    BY DEF Exclusive
  <2>1. p # c /\ pte[p][u].w /\ pte'[p][u] = pte[p][u] /\ pte[p][u].frame # 0
    BY <1>3, Entries DEF Inv, TableInv, TablesHandedOut
  <2>2. q # c /\ pte'[q][v] = pte[q][v]
    BY <1>3, <2>1, Entries
  <2> QED BY <2>1, <2>2 DEF Inv, TableInv, Exclusive
<1>10. RefCountExact'
  <2> SUFFICES ASSUME NEW f \in Frames PROVE ref_count'[f] = Cardinality(Mapped(f)')
    BY RefCountsPrime
  <2>1. f # 0
    BY NumFramesAssumption DEF Frames
  <2>2. Mapped(f)' = Mapped(f) \ ({c} \X VPages)
    BY <1>3, <2>1, Entries DEF Mapped
  <2> QED BY <1>1, <2>2, ClearMapping
<1> QED BY <1>4, <1>5, <1>6, <1>7, <1>8, <1>9, <1>10 DEF Inv, TableInv

\* The table that exec makes, and the frames it takes.
LEMMA ExecTable ==
  ASSUME Inv, Exec
  PROVE  /\ handed \in Nat /\ ImageEnd(handed) \in 0..NumFrames /\ handed' = ImageEnd(handed)
         /\ \A p \in Procs : p # RunningTask => pte'[p] = pte[p]
         /\ pte' \in [Procs -> [VPages -> Entry]]
         /\ \A v \in VPages :
              LET e == pte'[RunningTask][v] IN
              /\ e.frame \in Nat /\ e.frame <= ImageEnd(handed)
              /\ e.w => e.frame # 0
              /\ e.frame # 0 => e.frame > handed
              /\ v \in Image => e.frame > handed + 1
              /\ v \notin Image => e.frame \in {0, handed + 1}
         /\ \A u, v \in VPages :
              pte'[RunningTask][u].frame = pte'[RunningTask][v].frame
                /\ pte'[RunningTask][u].frame # 0 => u = v
         /\ \A f \in (handed + 1)..ImageEnd(handed) :
              \E v \in VPages : pte'[RunningTask][v].frame = f
<1> DEFINE R == RunningTask
           n == Cardinality(Image)
           t == pte'[R]
<1>1. /\ R \in Procs /\ pte \in [Procs -> [VPages -> Entry]] /\ n \in Nat
      /\ handed \in Nat /\ handed + 1 + n <= NumFrames
  BY ImageCount, NumFramesAssumption DEF Inv, TableInv, Types, Exec
<1>2. ImageEnd(handed) \in 0..NumFrames /\ handed' = ImageEnd(handed)
  BY <1>1, NumFramesAssumption DEF Exec, ImageEnd
<1>3. PICK place \in [Image -> ((handed + 1)..(handed + 1 + n)) \ {handed + 1}] :
        /\ \A u, v \in Image : u < v => place[u] < place[v]
        /\ pte' = [pte EXCEPT ![R] =
                     [v \in VPages |->
                        IF v \in Image THEN [frame |-> place[v], w |-> TRUE]
                        ELSE IF v = StackTop THEN [frame |-> handed + 1, w |-> TRUE]
                        ELSE Absent]]
  BY DEF Exec
<1>4. t = [v \in VPages |-> IF v \in Image THEN [frame |-> place[v], w |-> TRUE]
                           ELSE IF v = StackTop THEN [frame |-> handed + 1, w |-> TRUE]
                           ELSE Absent]
  BY <1>1, <1>3
<1>5. place \in [Image -> (handed + 2)..ImageEnd(handed)]
  <2>1. ((handed + 1)..(handed + 1 + n)) \ {handed + 1} \subseteq (handed + 2)..ImageEnd(handed)
    BY <1>1 DEF ImageEnd
  <2> QED BY <1>3, <2>1
<1>6. \A p \in Procs : p # R => pte'[p] = pte[p]
  BY <1>3
<1> HIDE DEF t, n
<1>7. /\ \A v \in VPages :
            /\ t[v] \in [frame : 0..ImageEnd(handed), w : BOOLEAN]
            /\ t[v].w => t[v].frame # 0
            /\ t[v].frame # 0 => t[v].frame > handed
            /\ v \in Image => t[v].frame > handed + 1
            /\ v \notin Image => t[v].frame \in {0, handed + 1}
      /\ \A u, v \in VPages : t[u].frame = t[v].frame /\ t[u].frame # 0 => u = v
      /\ \A f \in (handed + 1)..ImageEnd(handed) : \E v \in VPages : t[v].frame = f
  <2>1. MapsImage(t, place, handed)
    BY <1>3, <1>4, <1>5 DEF MapsImage
  <2>2. ImageMapped(t, handed)
    BY <1>1, <2>1, ImageTable
  <2> QED BY <2>2 DEF ImageMapped
<1>8. \A v \in VPages : t[v] \in Entry /\ t[v].frame \in Nat /\ t[v].frame <= ImageEnd(handed)
  BY <1>2, <1>7, NumFramesAssumption DEF Entry
<1>9. pte' \in [Procs -> [VPages -> Entry]]
  <2>1. t \in [VPages -> Entry]
    BY <1>4, <1>8
  <2>2. pte' = [pte EXCEPT ![R] = t]
    BY <1>3, <1>4
  <2> QED BY <1>1, <2>1, <2>2
<1> QED BY <1>1, <1>2, <1>6, <1>7, <1>8, <1>9 DEF t

\* What exec does to the counts and contents, frame by frame.
LEMMA ExecFrames ==
  ASSUME Inv, Exec, NEW f \in Frames
  PROVE  /\ ref_count'[f] = IF f \in (handed + 1)..ImageEnd(handed) THEN 1
                            ELSE clear_mapping(RunningTask).ref[f]
         /\ content'[f] = IF f = handed + 1 THEN 0
                          ELSE IF f \in (handed + 1)..ImageEnd(handed) THEN 1
                          ELSE clear_mapping(RunningTask).mem[f]
         /\ ref_count' = [g \in Frames |-> ref_count'[g]]
         /\ content' = [g \in Frames |-> content'[g]]
BY DEF Exec, ImageEnd

LEMMA ExecStep ==
  ASSUME Inv, Exec
  PROVE  Inv'
<1> DEFINE R == RunningTask
           n == ImageEnd(handed)
<1>1. /\ R \in Procs /\ status[R] = "alive" /\ UNCHANGED <<status, RunningTask>> /\ TlbAgrees'
  BY FlushedAgrees DEF Exec, Inv, TableInv, Types
<1>2. handed \in Nat /\ n \in 0..NumFrames /\ handed' = n /\ n \in Nat /\ n >= handed + 1
  BY ExecTable, ImageCount, NumFramesAssumption DEF ImageEnd
<1>3. /\ pte' \in [Procs -> [VPages -> Entry]]
      /\ \A p \in Procs : p # R => pte'[p] = pte[p]
      /\ \A v \in VPages :
           /\ pte'[R][v].frame \in Nat /\ pte'[R][v].frame <= n
           /\ pte'[R][v].w => pte'[R][v].frame # 0
           /\ pte'[R][v].frame # 0 => pte'[R][v].frame > handed
      /\ \A u, v \in VPages :
           pte'[R][u].frame = pte'[R][v].frame /\ pte'[R][u].frame # 0 => u = v
      /\ \A f \in (handed + 1)..n : \E v \in VPages : pte'[R][v].frame = f
  BY ExecTable
<1> HIDE DEF n
<1>4. \A p \in Procs, v \in VPages :
        pte[p][v].frame \in Nat /\ pte[p][v].frame <= handed /\ (pte[p][v].w => pte[p][v].frame # 0)
  BY Entries DEF Inv, TableInv, Types, TablesHandedOut
<1>5. Types'
  <2>1. ASSUME NEW f \in Frames PROVE ref_count'[f] \in Nat /\ content'[f] \in Values
    <3>1. 0 \in Values /\ 1 \in Values
      BY ValuesAssumption
    <3>2. clear_mapping(R).ref[f] \in Nat /\ clear_mapping(R).mem[f] \in Values
      BY <1>1, ClearMapping
    <3>3. ref_count'[f] \in {1, clear_mapping(R).ref[f]} /\ content'[f] \in {0, 1, clear_mapping(R).mem[f]}
      BY ExecFrames
    <3> QED BY <3>1, <3>2, <3>3
  <2>2. ref_count' = [f \in Frames |-> ref_count'[f]] /\ content' = [f \in Frames |-> content'[f]]
    BY DEF Exec
  <2>3. ref_count' \in [Frames -> Nat] /\ content' \in [Frames -> Values]
    BY <2>1, <2>2
  <2> QED BY <1>1, <1>2, <1>3, <2>3 DEF Inv, TableInv, Types
<1>6. TablesHandedOut'
  <2> SUFFICES ASSUME NEW p \in Procs, NEW v \in VPages
               PROVE  pte'[p][v].frame <= handed' /\ (pte'[p][v].w => pte'[p][v].frame # 0)
    BY DEF TablesHandedOut
  <2> QED BY <1>2, <1>3, <1>4
<1>7. OncePerTable'
  BY <1>1, <1>3 DEF Inv, TableInv, OncePerTable
<1>8. FreeIsEmpty'
  BY <1>1, <1>3 DEF Inv, TableInv, FreeIsEmpty
<1>9. Exclusive'
  <2> SUFFICES ASSUME NEW p \in Procs, NEW q \in Procs, NEW u \in VPages, NEW v \in VPages,
                      pte'[p][u].w, pte'[q][v].frame = pte'[p][u].frame
               PROVE  p = q /\ u = v
    BY DEF Exclusive
  <2>1. CASE p = R
    BY <1>1, <1>2, <1>3, <1>4, <2>1
  <2>2. CASE p # R
    <3>1. q # R
      BY <1>1, <1>2, <1>3, <1>4, <2>2
    <3> QED BY <1>3, <2>2, <3>1 DEF Inv, TableInv, Exclusive
  <2> QED BY <2>1, <2>2
<1>10. RefCountExact'
  <2> SUFFICES ASSUME NEW f \in Frames PROVE ref_count'[f] = Cardinality(Mapped(f)')
    BY RefCountsPrime
  <2>1. f # 0 /\ f \in Nat
    BY NumFramesAssumption DEF Frames
  <2>2. CASE f \in (handed + 1)..n
    <3>1. PICK v \in VPages : pte'[R][v].frame = f
      BY <1>3, <2>2
    <3>2. \A p \in Procs, u \in VPages : pte'[p][u].frame = f <=> p = R /\ u = v
      BY <1>2, <1>3, <1>4, <2>1, <2>2, <3>1
    <3>3. Mapped(f)' = {<<R, v>>}
      BY <1>1, <3>2 DEF Mapped
    <3>4. ref_count'[f] = 1
      BY <2>2, ExecFrames DEF n
    <3> QED BY <3>3, <3>4, FS_Singleton
  <2>3. CASE f \notin (handed + 1)..n
    <3>1. \A p \in Procs, u \in VPages : pte'[p][u].frame = f <=> p # R /\ pte[p][u].frame = f
      BY <1>2, <1>3, <1>4, <2>1, <2>3
    <3>2. Mapped(f)' = Mapped(f) \ ({R} \X VPages)
      BY <1>1, <3>1 DEF Mapped
    <3>3. ref_count'[f] = clear_mapping(R).ref[f]
      BY <2>3, ExecFrames DEF n
    <3> QED BY <1>1, <3>2, <3>3, ClearMapping
  <2> QED BY <2>2, <2>3
<1> QED BY <1>1, <1>5, <1>6, <1>7, <1>8, <1>9, <1>10 DEF Inv, TableInv

LEMMA InvStep == Inv /\ [Next]_vars => Inv'
<1> SUFFICES ASSUME Inv, [Next]_vars PROVE Inv'
  OBVIOUS
<1>1. ASSUME NEW v \in VPages, Read(v) \/ \E x \in Values : Write(v, x) PROVE Inv'
  BY <1>1, AccessStep
<1>2. ASSUME NEW v \in VPages, CowFault(v) \/ StackFault(v) PROVE Inv'
  BY <1>2, CowFaultStep, StackFaultStep
<1>3. ASSUME NEW c \in Procs, Fork(c) \/ Reap(c) \/ Switch(c) PROVE Inv'
  BY <1>3, ForkStep, ReapStep, SwitchStep
<1>4. CASE Exec \/ Exit
  BY <1>4, ExecStep, ExitStep
<1>5. CASE UNCHANGED vars
  <2>1. TlbAgrees' /\ Types'
    BY <1>5 DEF vars, Inv, TableInv, TlbAgrees, Types
  <2> QED BY <1>5, <2>1, TablesKept DEF vars, Inv, TableInv
<1> QED BY <1>1, <1>2, <1>3, <1>4, <1>5 DEF Next

LEMMA InvHolds == Spec => []Inv
BY InvInit, InvStep, PTL DEF Spec

-----------------------------------------------------------------------------
(* The theorems. *)

\* The reference count of every frame is the number of page-table entries that
\* map it, after any sequence of forks, copy-on-write faults, stack faults,
\* execs, exits and reaps (free_page and page_fault_handler rely on it).
THEOREM CountsAreExact == Spec => []RefCountExact
<1>1. Inv => RefCountExact
  BY DEF Inv
<1> QED BY <1>1, InvHolds, PTL

\* A frame that a process may write is mapped nowhere else, and a writable
\* translation in the TLB is the one of the table: fork removes both.
THEOREM WritableFramesAreExclusive == Spec => []WritableIsExclusive
<1>1. Inv => WritableIsExclusive
  BY DEF Inv, TableInv, Exclusive, TlbAgrees, WritableIsExclusive
<1> QED BY <1>1, InvHolds, PTL

\* Type correctness.  That no count exceeds the number of processes is not a
\* matter of types: it holds because the counts are exact and no table maps a
\* frame twice.
THEOREM TypeCorrect == Spec => []TypeOK
<1>1. Inv => TypeOK
  <2> SUFFICES ASSUME Inv PROVE TypeOK
    OBVIOUS
  <2>1. ASSUME NEW f \in Frames PROVE ref_count[f] \in 0..Cardinality(Procs)
    <3> DEFINE owner == [x \in Mapped(f) |-> x[1]]
    <3>1. f # 0 /\ ref_count[f] \in Nat /\ Cardinality(Procs) \in Nat
      BY NumFramesAssumption, ProcsAssumption, FS_CardinalityType DEF Frames, Inv, TableInv, Types
    <3>2. owner \in [Mapped(f) -> Procs]
      BY MappedPairs
    <3>3. \A x, y \in Mapped(f) : x[1] = y[1] => x = y
      BY <3>1, MappedPairs DEF Inv, TableInv, OncePerTable
    <3>4. owner \in Injection(Mapped(f), Procs)
      BY <3>2, <3>3 DEF Injection, IsInjective
    <3>5. Cardinality(Mapped(f)) <= Cardinality(Procs)
      BY <3>4, ProcsAssumption, FS_Injection
    <3> QED BY <3>1, <3>5, RefCounts DEF Inv
  <2>2. \A v \in DOMAIN tlb : tlb[v] \in Entry
    BY DEF Inv, TableInv, Types, TlbAgrees
  <2> QED BY <2>1, <2>2 DEF Inv, TableInv, Types, TlbAgrees, TypeOK
<1> QED BY <1>1, InvHolds, PTL

-----------------------------------------------------------------------------
(***************************************************************************)
(* The refinement: every step is one of PrivateMemory's, with the memory   *)
(* of a process read through its table.                                    *)
(***************************************************************************)
Memory == [p \in Procs |-> MemoryOf(p)]
ValueAt(p, v) == IF Present(p, v) THEN content[pte[p][v].frame] ELSE 0

LEMMA MemoryByPage ==
  ASSUME NEW p \in Procs
  PROVE  /\ Memory[p] = IF status[p] = "free" THEN [v \in {} |-> 0]
                        ELSE [v \in VPages |-> ValueAt(p, v)]
         /\ Memory[p] = [v \in {} |-> 0] <=> status[p] = "free"
<1>1. Memory[p] = IF status[p] = "free" THEN [v \in {} |-> 0] ELSE [v \in VPages |-> ValueAt(p, v)]
  BY DEF Memory, MemoryOf, ValueAt
<1>2. StackTop \in VPages
  BY ImageAssumption
<1>3. [v \in VPages |-> ValueAt(p, v)] # [v \in {} |-> 0]
  BY <1>2
<1> QED BY <1>1, <1>3

LEMMA MemoryByPagePrime ==
  ASSUME NEW p \in Procs
  PROVE  Memory'[p] = IF status'[p] = "free" THEN [v \in {} |-> 0]
                      ELSE [v \in VPages |-> ValueAt(p, v)']
BY DEF Memory, MemoryOf, ValueAt

\* A process whose pages keep their values keeps its memory.
LEMMA MemoryKept ==
  ASSUME NEW p \in Procs, status'[p] = "free" <=> status[p] = "free",
         \A v \in VPages : status[p] # "free" => ValueAt(p, v)' = ValueAt(p, v)
  PROVE  Memory'[p] = Memory[p]
<1>1. CASE status[p] = "free"
  BY <1>1, MemoryByPage, MemoryByPagePrime
<1>2. CASE status[p] # "free"
  <2>1. [v \in VPages |-> ValueAt(p, v)'] = [v \in VPages |-> ValueAt(p, v)]
    BY <1>2
  <2> QED BY <1>2, <2>1, MemoryByPage, MemoryByPagePrime
<1> QED BY <1>1, <1>2

LEMMA RefineInit == Init => \E p \in Procs : Private!MemInit(p)
<1> SUFFICES ASSUME Init PROVE Private!MemInit(RunningTask) /\ RunningTask \in Procs
  OBVIOUS
<1> DEFINE R == RunningTask
<1>1. R \in Procs /\ \A p \in Procs : status[p] = IF p = R THEN "alive" ELSE "free"
  BY DEF Init
<1>2. ASSUME NEW v \in VPages PROVE ValueAt(R, v) = IF v \in Image THEN 1 ELSE 0
  <2>1. PICK place \in [Image -> 2..handed] :
          pte[R] = [u \in VPages |-> IF u \in Image THEN [frame |-> place[u], w |-> TRUE]
                                    ELSE IF u = StackTop THEN [frame |-> 1, w |-> TRUE]
                                    ELSE Absent]
    BY <1>1 DEF Init
  <2>2. handed \in Nat /\ handed <= NumFrames /\ handed >= 1 /\ 1 \in Frames
    BY ImageCount, NumFramesAssumption DEF Init, Frames
  <2>3. CASE v \in Image
    <3>1. pte[R][v].frame = place[v] /\ place[v] \in 2..handed
      BY <2>1, <2>3
    <3>2. pte[R][v].frame \in Frames /\ pte[R][v].frame > 1 /\ pte[R][v].frame <= handed
      BY <2>2, <3>1, NumFramesAssumption DEF Frames
    <3>3. content[pte[R][v].frame] = 1 /\ pte[R][v].frame # 0
      BY <3>2, NumFramesAssumption DEF Init, Frames
    <3> QED BY <2>3, <3>3 DEF ValueAt, Present
  <2>4. CASE v = StackTop
    <3>1. pte[R][v].frame = 1 /\ v \notin Image
      BY <2>1, <2>4, ImageAssumption
    <3>2. content[1] = 0
      BY <2>2 DEF Init
    <3> QED BY <3>1, <3>2 DEF ValueAt, Present
  <2>5. CASE v \notin Image /\ v # StackTop
    <3>1. pte[R][v].frame = 0
      BY <2>1, <2>5, Entries
    <3> QED BY <2>5, <3>1 DEF ValueAt, Present
  <2> QED BY <2>3, <2>4, <2>5
<1>3. Memory[R] = [v \in VPages |-> IF v \in Image THEN 1 ELSE 0]
  BY <1>1, <1>2, MemoryByPage
<1>4. \A p \in Procs : p # R => Memory[p] = [v \in {} |-> 0]
  BY <1>1, MemoryByPage
<1>5. Memory = [p \in Procs |-> IF p = R THEN [v \in VPages |-> IF v \in Image THEN 1 ELSE 0]
                               ELSE [v \in {} |-> 0]]
  BY <1>3, <1>4 DEF Memory
<1>6. access = [kind |-> "kernel"]
  BY DEF Init
<1> QED BY <1>1, <1>5, <1>6 DEF Memory, Private!MemInit, Private!NewImage, Private!NoMemory, Private!NoAccess

\* A present entry names a frame that has been handed out.
LEMMA PresentFrame ==
  ASSUME Inv, NEW p \in Procs, NEW v \in VPages
  PROVE  /\ pte[p][v] \in Entry /\ pte[p][v].frame \in Nat /\ pte[p][v].frame <= handed
         /\ Present(p, v) => pte[p][v].frame \in Frames
         /\ Present(p, v) <=> pte[p][v].frame # 0
<1>1. pte[p][v] \in Entry /\ pte[p][v].frame <= handed
  BY DEF Inv, TableInv, Types, TablesHandedOut
<1> QED BY <1>1, Entries, NumFramesAssumption DEF Present, Frames

\* A kernel step under which no process sees a change.
LEMMA KernelStutters ==
  ASSUME InKernel, RunningTask \in Procs, \A p \in Procs : Memory'[p] = Memory[p]
  PROVE  Private!MemNext
<1>1. Memory' = Memory
  BY DEF Memory
<1> QED BY <1>1 DEF Memory, InKernel, Private!MemNext, Private!NoAccess

LEMMA RefineRead ==
  ASSUME Inv, NEW v \in VPages, Read(v)
  PROVE  Private!MemNext
<1> DEFINE R == RunningTask
<1>1. /\ R \in Procs /\ status[R] = "alive" /\ pte[R][v].frame # 0
      /\ UNCHANGED <<status, pte, content>>
      /\ access' = [kind |-> "load", by |-> R, page |-> v, value |-> content[pte[R][v].frame]]
  BY TranslationIsTable DEF Read, Accesses, Inv, TableInv, Types
<1>2. Memory' = Memory
  BY <1>1 DEF Memory, MemoryOf, Present
<1>3. Memory[R][v] = content[pte[R][v].frame] /\ Memory[R] # [u \in {} |-> 0]
  BY <1>1, MemoryByPage DEF ValueAt, Present
<1>4. Private!MemRead(R, v)
  BY <1>1, <1>2, <1>3 DEF Memory, Private!MemRead, Private!NoMemory, Private!Accesses
<1> QED BY <1>1, <1>4 DEF Private!MemNext

LEMMA RefineWrite ==
  ASSUME Inv, NEW v \in VPages, NEW x \in Values, Write(v, x)
  PROVE  Private!MemNext
<1>0. PICK R \in Procs : R = RunningTask
  BY DEF Inv, TableInv, Types
<1> DEFINE f == pte[R][v].frame
<1>1. /\ status[R] = "alive" /\ f # 0 /\ pte[R][v].w
      /\ UNCHANGED <<status, pte>> /\ content' = [content EXCEPT ![f] = x]
      /\ access' = [kind |-> "store", by |-> R, page |-> v, value |-> x]
      /\ content \in [Frames -> Values]
  BY <1>0, TranslationIsTable DEF Write, Accesses, Inv, TableInv, Types
<1>2. f \in Frames
  BY <1>1, PresentFrame
<1>3. \A p \in Procs, u \in VPages : pte[p][u].frame = f => p = R /\ u = v
  BY <1>1 DEF Inv, TableInv, Exclusive
<1>4. ASSUME NEW p \in Procs, NEW u \in VPages
      PROVE  ValueAt(p, u)' = IF p = R /\ u = v THEN x ELSE ValueAt(p, u)
  <2>1. Present(p, u) => pte[p][u].frame \in Frames
    BY PresentFrame
  <2>2. ValueAt(p, u)' = IF Present(p, u) THEN content'[pte[p][u].frame] ELSE 0
    BY <1>1 DEF ValueAt, Present
  <2>3. CASE p = R /\ u = v
    BY <1>1, <1>2, <2>2, <2>3 DEF Present
  <2>4. CASE ~(p = R /\ u = v)
    <3>1. pte[p][u].frame # f
      BY <1>3, <2>4
    <3>2. Present(p, u) => content'[pte[p][u].frame] = content[pte[p][u].frame]
      BY <1>1, <2>1, <3>1
    <3> QED BY <2>2, <2>4, <3>2 DEF ValueAt
  <2> QED BY <2>3, <2>4
<1>5. \A p \in Procs : p # R => Memory'[p] = Memory[p]
  BY <1>1, <1>4, MemoryKept
<1>6. /\ Memory[R] = [u \in VPages |-> ValueAt(R, u)]
      /\ Memory'[R] = [u \in VPages |-> ValueAt(R, u)']
      /\ Memory[R] # [u \in {} |-> 0]
  BY <1>1, MemoryByPage, MemoryByPagePrime
<1>7. Memory'[R] = [Memory[R] EXCEPT ![v] = x]
  BY <1>1, <1>4, <1>6
<1>8. Memory' = [Memory EXCEPT ![R][v] = x]
  BY <1>1, <1>5, <1>7 DEF Memory
<1>9. Private!MemWrite(R, v, x)
  BY <1>1, <1>6, <1>8 DEF Memory, Private!MemWrite, Private!NoMemory, Private!Accesses
<1> QED BY <1>1, <1>9 DEF Private!MemNext

\* Copying a page, or taking it over, changes no memory.
LEMMA RefineCowFault ==
  ASSUME Inv, NEW v \in VPages, CowFault(v), NEW p \in Procs
  PROVE  Memory'[p] = Memory[p]
<1> DEFINE R == RunningTask
           f == pte[R][v].frame
<1>1. /\ R \in Procs /\ status' = status /\ f # 0 /\ f \in Frames
      /\ content \in [Frames -> Values] /\ pte \in [Procs -> [VPages -> Entry]]
  BY PresentFrame DEF CowFault, Present, Inv, TableInv, Types
<1>2. ASSUME NEW u \in VPages PROVE ValueAt(p, u)' = ValueAt(p, u)
  <2>1. ValueAt(p, u)' = IF pte'[p][u].frame # 0 THEN content'[pte'[p][u].frame] ELSE 0
    BY DEF ValueAt, Present
  <2>2. CASE /\ pte' = [pte EXCEPT ![RunningTask][v].w = TRUE]
             /\ UNCHANGED content
    <3>1. pte'[p][u].frame = pte[p][u].frame
      BY <1>1, <2>2 DEF Entry
    <3> QED BY <2>1, <2>2, <3>1 DEF ValueAt, Present
  <2>3. CASE /\ handed < NumFrames /\ content' = copy_page(f)
             /\ pte' = [pte EXCEPT ![RunningTask][v] = [frame |-> handed + 1, w |-> TRUE]]
    <3>1. handed + 1 \in Frames /\ handed \in Nat
      BY <2>3, NextFrame
    <3>2. content'[handed + 1] = content[f]
          /\ \A g \in Frames : g # handed + 1 => content'[g] = content[g]
      BY <1>1, <2>3, <3>1 DEF copy_page
    <3>3. CASE p = R /\ u = v
      <4>1. pte'[p][u].frame = handed + 1
        BY <1>1, <2>3, <3>3
      <4> QED BY <1>1, <2>1, <3>1, <3>2, <3>3, <4>1 DEF ValueAt, Present
    <3>4. CASE ~(p = R /\ u = v)
      <4>1. pte'[p][u].frame = pte[p][u].frame
        BY <1>1, <2>3, <3>4
      <4>2. pte[p][u].frame # handed + 1
        BY <2>3, NextFrame
      <4>3. Present(p, u) => content'[pte[p][u].frame] = content[pte[p][u].frame]
        BY <3>2, <4>2, PresentFrame
      <4> QED BY <2>1, <4>1, <4>3 DEF ValueAt, Present
    <3> QED BY <3>3, <3>4
  <2> QED BY <2>2, <2>3 DEF CowFault
<1> QED BY <1>1, <1>2, MemoryKept

\* A new stack page reads as the zeros it stood for.
LEMMA RefineStackFault ==
  ASSUME Inv, NEW v \in VPages, StackFault(v), NEW p \in Procs
  PROVE  Memory'[p] = Memory[p]
<1> DEFINE R == RunningTask
<1>1. /\ R \in Procs /\ status' = status /\ pte[R][v].frame = 0
      /\ content \in [Frames -> Values] /\ pte \in [Procs -> [VPages -> Entry]]
      /\ handed < NumFrames
      /\ content' = [content EXCEPT ![handed + 1] = 0]
      /\ pte' = [pte EXCEPT ![R][v] = [frame |-> handed + 1, w |-> TRUE]]
  BY TranslationIsTable DEF StackFault, Inv, TableInv, Types
<1>2. handed + 1 \in Frames /\ handed \in Nat
  BY <1>1, NextFrame
<1>3. ASSUME NEW u \in VPages PROVE ValueAt(p, u)' = ValueAt(p, u)
  <2>1. ValueAt(p, u)' = IF pte'[p][u].frame # 0 THEN content'[pte'[p][u].frame] ELSE 0
    BY DEF ValueAt, Present
  <2>2. CASE p = R /\ u = v
    <3>1. pte'[p][u].frame = handed + 1 /\ content'[handed + 1] = 0
      BY <1>1, <1>2, <2>2
    <3> QED BY <1>1, <1>2, <2>1, <2>2, <3>1 DEF ValueAt, Present
  <2>3. CASE ~(p = R /\ u = v)
    <3>1. pte'[p][u].frame = pte[p][u].frame
      BY <1>1, <2>3
    <3>2. pte[p][u].frame # handed + 1
      BY <1>1, NextFrame
    <3>3. Present(p, u) => content'[pte[p][u].frame] = content[pte[p][u].frame]
      BY <1>1, <1>2, <3>2, PresentFrame
    <3> QED BY <2>1, <3>1, <3>3 DEF ValueAt, Present
  <2> QED BY <2>2, <2>3
<1> QED BY <1>1, <1>3, MemoryKept

LEMMA RefineFork ==
  ASSUME Inv, NEW c \in Procs, InKernel, Fork(c)
  PROVE  Private!MemNext
<1>0. PICK R \in Procs : R = RunningTask
  BY DEF Inv, TableInv, Types
<1> DEFINE shared == [v \in VPages |-> [pte[R][v] EXCEPT !.w = FALSE]]
<1>1. /\ pte \in [Procs -> [VPages -> Entry]] /\ status \in [Procs -> {"free", "alive", "zombie"}]
      /\ status[R] = "alive" /\ status[c] = "free" /\ c # R
      /\ status' = [status EXCEPT ![c] = "alive"] /\ content' = content
      /\ pte' = [pte EXCEPT ![R] = shared, ![c] = shared]
  BY <1>0 DEF Fork, Inv, TableInv, Types
<1>2. \A v \in VPages : shared[v].frame = pte[R][v].frame
  <2> SUFFICES ASSUME NEW v \in VPages, NEW e \in Entry, e = pte[R][v]
               PROVE  shared[v].frame = e.frame
    BY <1>1
  <2>1. shared[v] = [e EXCEPT !.w = FALSE]
    OBVIOUS
  <2> QED BY <2>1 DEF Entry
<1> HIDE DEF shared
<1>3. \A p \in Procs, v \in VPages :
        pte'[p][v].frame = IF p = c THEN pte[R][v].frame ELSE pte[p][v].frame
  BY <1>1, <1>2
<1>4. ASSUME NEW p \in Procs, p # c PROVE Memory'[p] = Memory[p]
  <2>1. \A v \in VPages : ValueAt(p, v)' = ValueAt(p, v)
    BY <1>1, <1>3, <1>4 DEF ValueAt, Present
  <2>2. status'[p] = status[p]
    BY <1>1, <1>4
  <2> QED BY <2>1, <2>2, MemoryKept
<1>5. Memory'[c] = Memory[R]
  <2>1. \A v \in VPages : ValueAt(c, v)' = ValueAt(R, v)
    BY <1>1, <1>3 DEF ValueAt, Present
  <2>2. status'[c] = "alive"
    BY <1>1
  <2>3. /\ Memory'[c] = [v \in VPages |-> ValueAt(c, v)']
        /\ Memory[R] = [v \in VPages |-> ValueAt(R, v)]
    BY <1>1, <2>2, MemoryByPage, MemoryByPagePrime
  <2> QED BY <2>1, <2>3
<1>6. Memory[c] = [v \in {} |-> 0]
  BY <1>1, MemoryByPage
<1>7. Memory' = [Memory EXCEPT ![c] = Memory[R]]
  BY <1>4, <1>5 DEF Memory
<1>8. Private!MemFork(R, c)
  BY <1>6, <1>7 DEF Memory, Private!MemFork, Private!NoMemory
<1> QED BY <1>8 DEF InKernel, Private!MemNext, Private!NoAccess

LEMMA RefineReap ==
  ASSUME Inv, NEW c \in Procs, InKernel, Reap(c)
  PROVE  Private!MemNext
<1>1. /\ pte \in [Procs -> [VPages -> Entry]] /\ status \in [Procs -> {"free", "alive", "zombie"}]
      /\ status' = [status EXCEPT ![c] = "free"] /\ content' = clear_mapping(c).mem
      /\ pte' = [pte EXCEPT ![c] = EmptyTable]
  BY DEF Reap, Inv, TableInv, Types
<1>2. ASSUME NEW p \in Procs, p # c PROVE Memory'[p] = Memory[p]
  <2>1. pte'[p] = pte[p] /\ status'[p] = status[p]
    BY <1>1, <1>2
  <2>2. ASSUME NEW v \in VPages PROVE ValueAt(p, v)' = ValueAt(p, v)
    <3>1. Present(p, v) => content'[pte[p][v].frame] = content[pte[p][v].frame]
      BY <1>1, <1>2, PresentFrame, ClearMapping
    <3> QED BY <2>1, <3>1 DEF ValueAt, Present
  <2> QED BY <2>1, <2>2, MemoryKept
<1>3. Memory'[c] = [v \in {} |-> 0]
  BY <1>1, MemoryByPagePrime
<1>4. Memory' = [Memory EXCEPT ![c] = [v \in {} |-> 0]]
  BY <1>2, <1>3 DEF Memory
<1>5. Private!MemDrop(c)
  BY <1>4 DEF Memory, Private!MemDrop, Private!NoMemory
<1> QED BY <1>5 DEF InKernel, Private!MemNext, Private!NoAccess

LEMMA RefineExec ==
  ASSUME Inv, InKernel, Exec
  PROVE  Private!MemNext
<1>0. PICK R \in Procs : R = RunningTask
  BY DEF Inv, TableInv, Types
<1>1. /\ status[R] = "alive" /\ status' = status
      /\ handed \in Nat /\ ImageEnd(handed) \in Nat /\ ImageEnd(handed) <= NumFrames
      /\ ImageEnd(handed) >= handed + 1
  <2>1. status[R] = "alive" /\ status' = status
    BY <1>0 DEF Exec
  <2>2. handed \in Nat /\ ImageEnd(handed) \in 0..NumFrames
    BY ExecTable
  <2> QED BY <2>1, <2>2, ImageCount, NumFramesAssumption DEF ImageEnd
<1>2. ASSUME NEW p \in Procs, p # R PROVE Memory'[p] = Memory[p]
  <2>1. pte'[p] = pte[p]
    BY <1>0, <1>2, ExecTable
  <2>2. ASSUME NEW v \in VPages PROVE ValueAt(p, v)' = ValueAt(p, v)
    <3>1. ASSUME Present(p, v) PROVE content'[pte[p][v].frame] = content[pte[p][v].frame]
      <4>1. pte[p][v].frame \in Frames /\ pte[p][v].frame \in Nat /\ pte[p][v].frame <= handed
        BY <3>1, PresentFrame
      <4>2. pte[p][v].frame \notin (handed + 1)..ImageEnd(handed) /\ pte[p][v].frame # handed + 1
        BY <1>1, <4>1
      <4>3. content'[pte[p][v].frame] = clear_mapping(R).mem[pte[p][v].frame]
        BY <1>0, <4>1, <4>2, ExecFrames
      <4> QED BY <1>2, <4>1, <4>3, ClearMapping
    <3> QED BY <2>1, <3>1 DEF ValueAt, Present
  <2> QED BY <1>1, <2>2, MemoryKept
<1>3. ASSUME NEW v \in VPages PROVE ValueAt(R, v)' = IF v \in Image THEN 1 ELSE 0
  <2> DEFINE g == pte'[R][v].frame
  <2>1. ValueAt(R, v)' = IF g # 0 THEN content'[g] ELSE 0
    BY DEF ValueAt, Present
  <2>2. /\ g \in Nat /\ g <= ImageEnd(handed)
        /\ v \in Image => g > handed + 1
        /\ v \notin Image => g \in {0, handed + 1}
    BY <1>0, ExecTable
  <2> HIDE DEF g
  <2>3. CASE v \in Image
    <3>1. g \in Frames /\ g # handed + 1 /\ g \in (handed + 1)..ImageEnd(handed) /\ g # 0
      BY <1>1, <2>2, <2>3, NumFramesAssumption DEF Frames
    <3>2. content'[g] = 1
      BY <3>1, ExecFrames
    <3> QED BY <2>1, <2>3, <3>1, <3>2
  <2>4. CASE v \notin Image
    <3>1. handed + 1 \in Frames
      BY <1>1, NumFramesAssumption DEF Frames
    <3>2. content'[handed + 1] = 0
      BY <3>1, ExecFrames
    <3> QED BY <2>1, <2>2, <2>4, <3>2
  <2> QED BY <2>3, <2>4
<1>4. Memory'[R] = [v \in VPages |-> IF v \in Image THEN 1 ELSE 0]
  <2>1. Memory'[R] = [v \in VPages |-> ValueAt(R, v)']
    BY <1>1, MemoryByPagePrime
  <2> QED BY <1>3, <2>1
<1>5. Memory[R] # [v \in {} |-> 0]
  BY <1>1, MemoryByPage
<1>6. Memory' = [Memory EXCEPT ![R] = [v \in VPages |-> IF v \in Image THEN 1 ELSE 0]]
  BY <1>2, <1>4 DEF Memory
<1>7. Private!MemExec(R)
  BY <1>5, <1>6 DEF Memory, Private!MemExec, Private!NewImage, Private!NoMemory
<1> QED BY <1>7 DEF InKernel, Private!MemNext, Private!NoAccess

\* Exiting and switching change no memory: a zombie keeps its own.
LEMMA RefineExitSwitch ==
  ASSUME Inv, NEW p \in Procs, Exit \/ \E q \in Procs : Switch(q)
  PROVE  Memory'[p] = Memory[p]
<1>1. /\ pte' = pte /\ content' = content
      /\ status'[p] = "free" <=> status[p] = "free"
  BY DEF Exit, Switch, Inv, TableInv, Types
<1>2. \A v \in VPages : ValueAt(p, v)' = ValueAt(p, v)
  BY <1>1 DEF ValueAt, Present
<1> QED BY <1>1, <1>2, MemoryKept

LEMMA RefineStep == Inv /\ [Next]_vars => [Private!MemNext]_<<Memory, access>>
<1> SUFFICES ASSUME Inv, [Next]_vars PROVE [Private!MemNext]_<<Memory, access>>
  OBVIOUS
<1>0. RunningTask \in Procs
  BY DEF Inv, TableInv, Types
<1>1. ASSUME NEW v \in VPages, Read(v) \/ \E x \in Values : Write(v, x) PROVE Private!MemNext
  BY <1>1, RefineRead, RefineWrite
<1>2. ASSUME NEW v \in VPages, InKernel, CowFault(v) \/ StackFault(v) PROVE Private!MemNext
  BY <1>0, <1>2, RefineCowFault, RefineStackFault, KernelStutters
<1>3. ASSUME NEW c \in Procs, InKernel, Fork(c) \/ Reap(c) \/ Switch(c) PROVE Private!MemNext
  BY <1>0, <1>3, RefineFork, RefineReap, RefineExitSwitch, KernelStutters
<1>4. ASSUME InKernel, Exec \/ Exit PROVE Private!MemNext
  BY <1>0, <1>4, RefineExec, RefineExitSwitch, KernelStutters
<1>5. CASE UNCHANGED vars
  BY <1>5 DEF vars, Memory, MemoryOf, Present
<1> QED BY <1>1, <1>2, <1>3, <1>4, <1>5 DEF Next

\* Frames, entries, counts, copies and the TLB together give every process a
\* memory of its own: no store, fork, fault, exec or reap of one process is
\* seen by another, and every load gives what the process itself has there.
THEOREM MemoryIsPrivate == Spec => ImplementsPrivateMemory
<1>1. Inv /\ [Next]_vars => [Private!MemNext]_<<[p \in Procs |-> MemoryOf(p)], access>>
  BY RefineStep DEF Memory
<1> QED BY <1>1, RefineInit, InvHolds, PTL DEF Spec, ImplementsPrivateMemory, Private!MemSpec

=============================================================================

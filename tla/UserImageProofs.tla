--------------------------- MODULE UserImageProofs ---------------------------
(***************************************************************************)
(* Proofs about the areas of UserImage, for every size of the pool, every  *)
(* set of processes and every binary.  Areas are handed out in order and   *)
(* never come back, and one call makes the whole list of a process: every  *)
(* list is a run of neighbours, and the pool is the run behind all others. *)
(***************************************************************************)
EXTENDS UserImage, ProofFacts, SequenceTheorems, TLAPS

\* The first area that was not handed out.
First(free) == IF free = NULL THEN NumVma + 1 ELSE free

\* The list that begins at h links neighbours and ends with e.
Run(areas, h, e) ==
  /\ \A v \in h .. e - 1 : areas[v].next = v + 1
  /\ areas[e].next = NULL

\* Areas are records with these four fields.
Areas(areas) ==
  /\ areas = [v \in 1 .. NumVma |-> areas[v]]
  /\ \A v \in 1 .. NumVma :
       areas[v] = [start |-> areas[v].start, end |-> areas[v].end, type |-> areas[v].type,
                   next |-> areas[v].next]

\* The pool is the run behind the areas handed out.
Pool(areas, free) ==
  /\ Areas(areas) /\ free \in 0 .. NumVma
  /\ \A v \in First(free) .. NumVma : areas[v].next = IF v = NumVma THEN NULL ELSE v + 1

-----------------------------------------------------------------------------
(* Walks along a run. *)

\* The walk of Chain, as far as n.
Walks(areas, h, n, g) ==
  g = [k \in 0 .. n |-> IF k = 0 THEN h ELSE IF g[k - 1] = NULL THEN NULL ELSE areas[g[k - 1]].next]

LEMMA WalksAlongRun ==
  ASSUME NEW areas, NEW h \in 1 .. NumVma, NEW e \in h .. NumVma, Run(areas, h, e),
         NEW g, g = [k \in 0 .. NumVma |-> IF h + k <= e THEN h + k ELSE NULL]
  PROVE  Walks(areas, h, NumVma, g)
<1>1. NumVma \in Nat /\ h \in Nat /\ e \in Nat /\ 1 <= h /\ h <= e /\ e <= NumVma
  BY VmaAssumption
<1>2. ASSUME NEW k \in 0 .. NumVma
      PROVE  g[k] = IF k = 0 THEN h ELSE IF g[k - 1] = NULL THEN NULL ELSE areas[g[k - 1]].next
  <2>1. CASE k = 0
    BY <1>1, <2>1
  <2>2. CASE k # 0
    <3>1. k - 1 \in 0 .. NumVma /\ g[k - 1] = (IF h + (k - 1) <= e THEN h + (k - 1) ELSE NULL)
      BY <1>1, <2>2
    <3>2. CASE h + k <= e
      <4>1. g[k - 1] = h + (k - 1) /\ h + (k - 1) \in h .. e - 1 /\ g[k] = h + k
        <5>1. k \in Nat /\ k >= 1 /\ h + (k - 1) <= e /\ h <= h + (k - 1) /\ h + (k - 1) <= e - 1
          BY <1>1, <2>2, <3>2
        <5> QED BY <1>1, <3>1, <3>2, <5>1
      <4>2. areas[h + (k - 1)].next = (h + (k - 1)) + 1 /\ h + (k - 1) # NULL
        <5>1. \A v \in h .. e - 1 : areas[v].next = v + 1
          BY DEF Run
        <5>2. PICK v \in h .. e - 1 : v = h + (k - 1)
          BY <4>1
        <5>3. areas[v].next = v + 1 /\ v # NULL
          BY <1>1, <5>1 DEF NULL
        <5> QED BY <5>2, <5>3
      <4> QED BY <1>1, <2>2, <4>1, <4>2, SMTT(60)
    <3>3. CASE h + k = e + 1
      <4>1. h + (k - 1) = e /\ g[k - 1] = e /\ e # NULL /\ g[k] = NULL
        BY <1>1, <2>2, <3>1, <3>3 DEF NULL
      <4> QED BY <2>2, <4>1 DEF Run
    <3>4. CASE h + k > e + 1
      <4>1. g[k - 1] = NULL /\ g[k] = NULL
        BY <1>1, <2>2, <3>1, <3>4
      <4> QED BY <2>2, <4>1
    <3> QED BY <1>1, <3>2, <3>3, <3>4
  <2> QED BY <2>1, <2>2
<1> QED BY <1>2 DEF Walks

\* There is only one walk.
LEMMA WalkUnique ==
  ASSUME NEW areas, NEW h, NEW f, NEW g, Walks(areas, h, NumVma, f), Walks(areas, h, NumVma, g)
  PROVE  f = g
<1> DEFINE Bad == {k \in 0 .. NumVma : f[k] # g[k]}
<1>1. /\ \A k \in 0 .. NumVma : f[k] = IF k = 0 THEN h ELSE IF f[k - 1] = NULL THEN NULL ELSE areas[f[k - 1]].next
      /\ \A k \in 0 .. NumVma : g[k] = IF k = 0 THEN h ELSE IF g[k - 1] = NULL THEN NULL ELSE areas[g[k - 1]].next
  BY DEF Walks
<1>2. Bad = {}
  <2> SUFFICES ASSUME Bad # {} PROVE FALSE
    OBVIOUS
  <2>1. Bad \subseteq Nat
    BY VmaAssumption
  <2>2. PICK k \in Bad : \A j \in Bad : k <= j
    BY <2>1, LeastElement
  <2>3. k \in 0 .. NumVma /\ f[k] # g[k] /\ k \in Nat
    BY <2>1, <2>2
  <2>4. CASE k = 0
    BY <1>1, <2>3, <2>4
  <2>5. CASE k # 0
    <3>1. k - 1 \in 0 .. NumVma /\ ~(k <= k - 1)
      BY <2>3, <2>5, VmaAssumption
    <3>2. f[k - 1] = g[k - 1]
      BY <2>2, <3>1
    <3> QED BY <1>1, <2>3, <2>5, <3>2
  <2> QED BY <2>4, <2>5
<1>3. \A k \in 0 .. NumVma : f[k] = g[k]
  BY <1>2
<1>4. f = [k \in 0 .. NumVma |-> f[k]] /\ g = [k \in 0 .. NumVma |-> g[k]]
  BY DEF Walks
<1> QED BY <1>3, <1>4

\* Chain with its walk named.
ChainOf(g) == [n \in 1 .. Cardinality({k \in 1 .. NumVma : g[k - 1] # NULL}) |-> g[n - 1]]

LEMMA ChainWalks ==
  ASSUME NEW areas, NEW h, NEW g, Walks(areas, h, NumVma, g)
  PROVE  Chain(areas, h) = ChainOf(g)
<1> DEFINE f == CHOOSE f : Walks(areas, h, NumVma, f)
<1>1. Walks(areas, h, NumVma, f)
  OBVIOUS
<1>2. Chain(areas, h) = ChainOf(f)
  BY DEF Chain, ChainOf, Walks
<1> HIDE DEF f
<1>3. f = g
  BY <1>1, WalkUnique
<1> QED BY <1>2, <1>3

LEMMA ChainOfRun ==
  ASSUME NEW areas, NEW h \in 1 .. NumVma, NEW e \in h .. NumVma, Run(areas, h, e)
  PROVE  Chain(areas, h) = [n \in 1 .. e - h + 1 |-> h + n - 1]
<1> DEFINE g == [k \in 0 .. NumVma |-> IF h + k <= e THEN h + k ELSE NULL]
<1>0. NumVma \in Nat /\ h \in Nat /\ e \in Nat /\ 1 <= h /\ h <= e /\ e <= NumVma
  BY VmaAssumption
<1>1. Walks(areas, h, NumVma, g)
  BY WalksAlongRun
<1>2. {k \in 1 .. NumVma : g[k - 1] # NULL} = 1 .. e - h + 1
  <2>1. \A k \in 1 .. NumVma : k - 1 \in 0 .. NumVma /\ (g[k - 1] # NULL <=> h + (k - 1) <= e)
    BY <1>0 DEF NULL
  <2> HIDE DEF g
  <2>2. \A k \in 1 .. NumVma : g[k - 1] # NULL <=> k \in 1 .. e - h + 1
    BY <1>0, <2>1
  <2>3. \A k \in 1 .. e - h + 1 : k \in 1 .. NumVma
    BY <1>0
  <2> QED BY <2>2, <2>3
<1>3. Cardinality(1 .. e - h + 1) = e - h + 1
  <2>1. e - h + 1 \in Nat /\ 1 \in Int /\ e - h + 1 \in Int /\ 1 <= e - h + 1
    BY <1>0
  <2>2. Cardinality(1 .. e - h + 1) = (e - h + 1) - 1 + 1
    BY <2>1, FS_Interval
  <2> QED BY <2>1, <2>2
<1>4. \A n \in 1 .. e - h + 1 : g[n - 1] = h + n - 1
  BY <1>0
<1> HIDE DEF g
<1>5. Chain(areas, h) = ChainOf(g)
  BY <1>1, ChainWalks
<1>6. ChainOf(g) = [n \in 1 .. e - h + 1 |-> g[n - 1]]
  BY <1>2, <1>3 DEF ChainOf
<1> QED BY <1>4, <1>5, <1>6

LEMMA EmptyChain == \A areas : Chain(areas, NULL) = <<>>
<1> TAKE areas
<1> DEFINE g == [k \in 0 .. NumVma |-> NULL]
<1>1. Walks(areas, NULL, NumVma, g)
  <2>1. \A k \in 0 .. NumVma : k = 0 \/ k - 1 \in 0 .. NumVma
    BY VmaAssumption
  <2> QED BY <2>1 DEF Walks
<1>2. {k \in 1 .. NumVma : g[k - 1] # NULL} = {}
  <2>1. \A k \in 1 .. NumVma : k - 1 \in 0 .. NumVma
    BY VmaAssumption
  <2> QED BY <2>1
<1>3. Cardinality({}) = 0
  BY FS_EmptySet
<1> HIDE DEF g
<1>4. Chain(areas, NULL) = ChainOf(g)
  BY <1>1, ChainWalks
<1>5. ChainOf(g) = [n \in 1 .. 0 |-> g[n - 1]]
  BY <1>2, <1>3 DEF ChainOf
<1>6. [n \in 1 .. 0 |-> g[n - 1]] = <<>>
  OBVIOUS
<1> QED BY <1>4, <1>5, <1>6

-----------------------------------------------------------------------------
(* One area more. *)

Linking(areas, e, x, b) == b = [areas EXCEPT ![e].next = x]
Filling(areas, f, start, end, type, b) ==
  b = [areas EXCEPT ![f] = [start |-> start, end |-> end, type |-> type, next |-> NULL]]

LEMMA Linked ==
  ASSUME NEW areas, Areas(areas), NEW e \in 1 .. NumVma, NEW x, NEW b, Linking(areas, e, x, b)
  PROVE  /\ Areas(b)
         /\ b[e].next = x
         /\ \A v \in 1 .. NumVma : v # e => b[v] = areas[v]
<1>1. /\ areas = [v \in 1 .. NumVma |-> areas[v]]
      /\ \A v \in 1 .. NumVma :
           areas[v] = [start |-> areas[v].start, end |-> areas[v].end, type |-> areas[v].type,
                       next |-> areas[v].next]
  BY DEF Areas
<1>2. b = [v \in 1 .. NumVma |-> IF v = e THEN [areas[e] EXCEPT !.next = x] ELSE areas[v]]
  BY <1>1 DEF Linking
<1>3. [areas[e] EXCEPT !.next = x] =
        [start |-> areas[e].start, end |-> areas[e].end, type |-> areas[e].type, next |-> x]
  BY <1>1
<1>4. /\ b[e] = [start |-> areas[e].start, end |-> areas[e].end, type |-> areas[e].type, next |-> x]
      /\ \A v \in 1 .. NumVma : v # e => b[v] = areas[v]
  BY <1>2, <1>3
<1>5. b = [v \in 1 .. NumVma |-> b[v]]
  BY <1>2
<1>6. \A v \in 1 .. NumVma :
        b[v] = [start |-> b[v].start, end |-> b[v].end, type |-> b[v].type, next |-> b[v].next]
  <2> TAKE v \in 1 .. NumVma
  <2>1. CASE v = e
    BY <1>4, <2>1
  <2>2. CASE v # e
    BY <1>1, <1>4, <2>2
  <2> QED BY <2>1, <2>2
<1>7. b[e].next = x
  BY <1>4
<1> QED BY <1>4, <1>5, <1>6, <1>7 DEF Areas

LEMMA Filled ==
  ASSUME NEW areas, Areas(areas), NEW f \in 1 .. NumVma, NEW start, NEW end, NEW type,
         NEW b, Filling(areas, f, start, end, type, b)
  PROVE  /\ Areas(b)
         /\ b[f].next = NULL
         /\ \A v \in 1 .. NumVma : v # f => b[v] = areas[v]
<1>1. /\ areas = [v \in 1 .. NumVma |-> areas[v]]
      /\ \A v \in 1 .. NumVma :
           areas[v] = [start |-> areas[v].start, end |-> areas[v].end, type |-> areas[v].type,
                       next |-> areas[v].next]
  BY DEF Areas
<1>2. b = [v \in 1 .. NumVma |->
             IF v = f THEN [start |-> start, end |-> end, type |-> type, next |-> NULL] ELSE areas[v]]
  BY <1>1 DEF Filling
<1>3. /\ b[f] = [start |-> start, end |-> end, type |-> type, next |-> NULL]
      /\ \A v \in 1 .. NumVma : v # f => b[v] = areas[v]
  BY <1>2
<1>4. b = [v \in 1 .. NumVma |-> b[v]]
  BY <1>2
<1>5. \A v \in 1 .. NumVma :
        b[v] = [start |-> b[v].start, end |-> b[v].end, type |-> b[v].type, next |-> b[v].next]
  <2> TAKE v \in 1 .. NumVma
  <2>1. CASE v = f
    BY <1>3, <2>1
  <2>2. CASE v # f
    BY <1>1, <1>3, <2>2
  <2> QED BY <2>1, <2>2
<1>6. b[f].next = NULL
  BY <1>3
<1> QED BY <1>3, <1>4, <1>5, <1>6 DEF Areas

\* A call in its middle: the areas below first were handed out before it and
\* stand as they stood; those since then are the list of the process.
IsCall(s) ==
  s = [vma |-> s.vma, free |-> s.free, got |-> s.got, head |-> s.head, mem |-> s.mem, dead |-> s.dead]
Listed(s, first) ==
  /\ Pool(s.vma, s.free)
  /\ first <= First(s.free)
  /\ \A v \in 1 .. NumVma : v < first => s.vma[v] = vma[v]
  /\ s.head = NULL \/ (s.head \in first .. First(s.free) - 1 /\ Run(s.vma, s.head, First(s.free) - 1))
Work(s, first) == IsCall(s) /\ Listed(s, first)

LEMMA FirstType ==
  ASSUME NEW free \in 0 .. NumVma
  PROVE  First(free) \in 1 .. NumVma + 1 /\ (free = NULL <=> First(free) = NumVma + 1) /\ NumVma \in Nat
BY VmaAssumption DEF First, NULL

\* The last area of the list.
LEMMA LastOfRun ==
  ASSUME NEW areas, NEW h \in 1 .. NumVma, NEW e \in h .. NumVma, Run(areas, h, e)
  PROVE  Last(Chain(areas, h)) = e /\ ToSet(Chain(areas, h)) = h .. e
<1> DEFINE c == [n \in 1 .. e - h + 1 |-> h + n - 1]
<1>0. NumVma \in Nat /\ h \in Nat /\ e \in Nat /\ 1 <= h /\ h <= e /\ e <= NumVma
  BY VmaAssumption
<1>1. Chain(areas, h) = c
  BY ChainOfRun
<1>2. Len(c) = e - h + 1 /\ DOMAIN c = 1 .. e - h + 1 /\ \A n \in 1 .. e - h + 1 : c[n] = h + n - 1
  BY <1>0
<1> HIDE DEF c
<1>3. e - h + 1 \in 1 .. e - h + 1 /\ h + (e - h + 1) - 1 = e
  BY <1>0
<1>4. Last(c) = e
  BY <1>0, <1>2, <1>3 DEF Last
<1>5. ToSet(c) = h .. e
  <2>1. \A n \in 1 .. e - h + 1 : h + n - 1 \in h .. e
    BY <1>0
  <2>2. \A v \in h .. e : v - h + 1 \in 1 .. e - h + 1 /\ h + (v - h + 1) - 1 = v
    BY <1>0
  <2>3. ToSet(c) = {c[n] : n \in 1 .. e - h + 1}
    BY <1>2 DEF ToSet
  <2>4. \A x : x \in ToSet(c) => x \in h .. e
    BY <1>2, <2>1, <2>3
  <2>5. ASSUME NEW v \in h .. e PROVE v \in ToSet(c)
    <3>1. c[v - h + 1] = v
      BY <1>2, <2>2
    <3> QED BY <2>2, <2>3, <3>1
  <2> QED BY <2>4, <2>5
<1> QED BY <1>1, <1>4, <1>5

\* An area is fetched and appended; what else the call does meanwhile is in x
\* and y.
LEMMA AreaAdded ==
  ASSUME NEW first \in 1 .. NumVma + 1, NEW s, Work(s, first), NEW start, NEW end, NEW type,
         NEW f, f = fetch_free_vma(s, start, end, type), NEW x, NEW y,
         NEW t, t = [vma |-> f.vma, free |-> f.free, got |-> f.got, head |-> f.head, mem |-> x, dead |-> y]
  PROVE  Work(append(t), first)
<1> DEFINE F == First(s.free)
           u == append(t)
<1>1. /\ IsCall(s) /\ Pool(s.vma, s.free) /\ first <= F
      /\ \A v \in 1 .. NumVma : v < first => s.vma[v] = vma[v]
      /\ s.head = NULL \/ (s.head \in first .. F - 1 /\ Run(s.vma, s.head, F - 1))
  BY DEF Work, Listed
<1>2. /\ Areas(s.vma) /\ s.free \in 0 .. NumVma
      /\ \A v \in F .. NumVma : s.vma[v].next = IF v = NumVma THEN NULL ELSE v + 1
  BY <1>1 DEF Pool
<1>3. F \in 1 .. NumVma + 1 /\ (s.free = NULL <=> F = NumVma + 1) /\ NumVma \in Nat
  BY <1>2, FirstType
<1>4. s.head # NULL => s.head \in 1 .. NumVma /\ F - 1 \in s.head .. NumVma
  BY <1>1, <1>3
<1>5. t.vma = f.vma /\ t.free = f.free /\ t.got = f.got /\ t.head = f.head
  OBVIOUS
<1>6. IsCall(u)
  BY DEF append, IsCall
<1>7. CASE s.free = NULL
  <2>1. f.vma = s.vma /\ f.free = NULL /\ f.got = NULL /\ f.head = s.head
    BY <1>1, <1>7 DEF fetch_free_vma, IsCall
  <2>2. CASE s.head = NULL
    <3>1. u.vma = s.vma /\ u.free = s.free /\ u.head = NULL
      BY <1>5, <1>7, <2>1, <2>2 DEF append
    <3> HIDE DEF u
    <3> QED BY <1>1, <1>6, <3>1 DEF Work, Listed, u
  <2>3. CASE s.head # NULL
    <3>1. Last(Chain(s.vma, s.head)) = F - 1
      BY <1>1, <1>4, <2>3, LastOfRun
    <3>2. u.vma = [s.vma EXCEPT ![F - 1].next = NULL] /\ u.free = s.free /\ u.head = s.head
      BY <1>5, <1>7, <2>1, <2>3, <3>1 DEF append
    <3>3. F - 1 \in 1 .. NumVma
      BY <1>3, <1>4, <2>3
    <3>4. /\ Areas(u.vma) /\ u.vma[F - 1].next = NULL
          /\ \A v \in 1 .. NumVma : v # F - 1 => u.vma[v] = s.vma[v]
      <4>1. Linking(s.vma, F - 1, NULL, u.vma)
        BY <3>2 DEF Linking
      <4> HIDE DEF u, F
      <4> QED BY <1>2, <3>3, <4>1, Linked
    <3> HIDE DEF u
    <3>5. Pool(u.vma, u.free)
      <4>1. F .. NumVma = {}
        BY <1>3, <1>7
      <4> QED BY <1>2, <3>2, <3>4, <4>1 DEF Pool
    <3>6. \A v \in 1 .. NumVma : v < first => u.vma[v] = vma[v]
      <4>1. \A v \in 1 .. NumVma : v < first => v # F - 1
        BY <1>1, <1>3, <2>3
      <4> QED BY <1>1, <3>4, <4>1
    <3>7. Run(u.vma, u.head, F - 1)
      <4>1. \A v \in s.head .. (F - 1) - 1 : v \in 1 .. NumVma /\ v # F - 1
        BY <1>3, <1>4, <2>3
      <4>2. \A v \in s.head .. (F - 1) - 1 : s.vma[v].next = v + 1
        BY <1>1, <2>3 DEF Run
      <4> QED BY <3>2, <3>4, <4>1, <4>2 DEF Run
    <3> QED BY <1>1, <1>6, <2>3, <3>2, <3>5, <3>6, <3>7 DEF Work, Listed, u
  <2> QED BY <2>2, <2>3
<1>8. CASE s.free # NULL
  <2> DEFINE z == [start |-> start, end |-> end, type |-> type, next |-> NULL]
             g == [s.vma EXCEPT ![F] = z]
  <2>1. F = s.free /\ F \in 1 .. NumVma
    BY <1>2, <1>3, <1>8 DEF First
  <2>2. f.vma = g /\ f.free = s.vma[F].next /\ f.got = F /\ f.head = s.head
    BY <1>1, <1>8, <2>1 DEF fetch_free_vma, IsCall
  <2>3. f.free = (IF F = NumVma THEN NULL ELSE F + 1) /\ f.free \in 0 .. NumVma /\ First(f.free) = F + 1
    <3>1. f.free = (IF F = NumVma THEN NULL ELSE F + 1)
      BY <1>2, <1>3, <2>1, <2>2
    <3> QED BY <1>3, <2>1, <3>1 DEF First, NULL
  <2>4. /\ Areas(g) /\ g[F].next = NULL
        /\ \A v \in 1 .. NumVma : v # F => g[v] = s.vma[v]
    <3>1. Filling(s.vma, F, start, end, type, g)
      BY DEF Filling
    <3> HIDE DEF g, F
    <3> QED BY <1>2, <2>1, <3>1, Filled
  <2> HIDE DEF g
  <2>5. CASE s.head = NULL
    <3>1. u.vma = g /\ u.free = f.free /\ u.head = F
      BY <1>5, <2>2, <2>5 DEF append
    <3> HIDE DEF u
    <3>2. Pool(u.vma, u.free)
      <4>1. \A v \in F + 1 .. NumVma : v \in F .. NumVma /\ v \in 1 .. NumVma /\ v # F
        BY <1>3, <2>1
      <4>2. \A v \in F + 1 .. NumVma : g[v].next = IF v = NumVma THEN NULL ELSE v + 1
        BY <1>2, <2>4, <4>1
      <4> QED BY <2>3, <2>4, <3>1, <4>2 DEF Pool
    <3>3. \A v \in 1 .. NumVma : v < first => u.vma[v] = vma[v]
      <4>1. \A v \in 1 .. NumVma : v < first => v # F
        BY <1>1, <1>3
      <4> QED BY <1>1, <2>4, <3>1, <4>1
    <3>4. /\ first <= First(u.free) /\ u.head \in first .. First(u.free) - 1
          /\ First(u.free) - 1 = F
      BY <1>1, <1>3, <2>1, <2>3, <3>1
    <3>5. Run(u.vma, u.head, F)
      <4>1. F .. F - 1 = {}
        BY <2>1
      <4> QED BY <2>4, <3>1, <4>1 DEF Run
    <3> QED BY <1>6, <3>2, <3>3, <3>4, <3>5 DEF Work, Listed, u
  <2>6. CASE s.head # NULL
    <3>0. s.head \in 1 .. NumVma /\ F - 1 \in s.head .. NumVma /\ F - 1 \in 1 .. NumVma /\ F - 1 # F
      BY <1>3, <1>4, <2>1, <2>6
    <3>1. Run(g, s.head, F - 1)
      <4>1. \A v \in s.head .. (F - 1) - 1 : v \in 1 .. NumVma /\ v # F
        BY <1>3, <3>0
      <4>2. \A v \in s.head .. (F - 1) - 1 : s.vma[v].next = v + 1
        BY <1>1, <2>6 DEF Run
      <4>3. s.vma[F - 1].next = NULL
        BY <1>1, <2>6 DEF Run
      <4> QED BY <2>4, <3>0, <4>1, <4>2, <4>3 DEF Run
    <3>2. Last(Chain(g, s.head)) = F - 1
      BY <3>0, <3>1, LastOfRun
    <3>3. u.vma = [g EXCEPT ![F - 1].next = F] /\ u.free = f.free /\ u.head = s.head
      BY <1>5, <2>2, <2>6, <3>2 DEF append
    <3>4. /\ Areas(u.vma) /\ u.vma[F - 1].next = F
          /\ \A v \in 1 .. NumVma : v # F - 1 => u.vma[v] = g[v]
      <4>1. Linking(g, F - 1, F, u.vma)
        BY <3>3 DEF Linking
      <4> HIDE DEF u, F
      <4> QED BY <2>4, <3>0, <4>1, Linked
    <3> HIDE DEF u
    <3>5. Pool(u.vma, u.free)
      <4>1. \A v \in F + 1 .. NumVma : v \in F .. NumVma /\ v \in 1 .. NumVma /\ v # F /\ v # F - 1
        BY <1>3, <2>1
      <4>2. \A v \in F + 1 .. NumVma : u.vma[v].next = IF v = NumVma THEN NULL ELSE v + 1
        BY <1>2, <2>4, <3>4, <4>1
      <4> QED BY <2>3, <3>3, <3>4, <4>2 DEF Pool
    <3>6. \A v \in 1 .. NumVma : v < first => u.vma[v] = vma[v]
      <4>1. \A v \in 1 .. NumVma : v < first => v # F /\ v # F - 1
        BY <1>1, <1>3, <2>6
      <4> QED BY <1>1, <2>4, <3>4, <4>1
    <3>7. /\ first <= First(u.free) /\ u.head \in first .. First(u.free) - 1
          /\ First(u.free) - 1 = F
      BY <1>1, <1>3, <2>1, <2>3, <2>6, <3>3
    <3>8. Run(u.vma, u.head, F)
      <4>1. ASSUME NEW v \in s.head .. F - 1 PROVE u.vma[v].next = v + 1
        <5>1. CASE v = F - 1
          BY <1>3, <3>4, <5>1
        <5>2. CASE v # F - 1
          <6>1. v \in s.head .. (F - 1) - 1 /\ v \in 1 .. NumVma
            BY <1>3, <3>0, <5>2
          <6> QED BY <3>1, <3>4, <5>2, <6>1 DEF Run
        <5> QED BY <5>1, <5>2
      <4>2. u.vma[F].next = NULL
        BY <2>1, <2>4, <3>0, <3>4
      <4> QED BY <3>3, <4>1, <4>2 DEF Run
    <3> QED BY <1>6, <3>5, <3>6, <3>7, <3>8 DEF Work, Listed, u
  <2> QED BY <2>5, <2>6
<1> QED BY <1>7, <1>8

\* What a call does to frames, and its end, leave the areas alone.
LEMMA ListsRest ==
  ASSUME NEW first, NEW s, Work(s, first), NEW t, IsCall(t),
         t.vma = s.vma, t.free = s.free, t.head = s.head
  PROVE  Work(t, first)
BY DEF Work, Listed

LEMMA FaultLeavesLists ==
  ASSUME NEW s, IsCall(s), NEW top, NEW a, NEW fate, NEW t, t = page_fault(s, top, a, fate)
  PROVE  IsCall(t) /\ t.vma = s.vma /\ t.free = s.free /\ t.head = s.head
<1> DEFINE v == check_vma(s, a)
<1>1. IsCall(s)
  OBVIOUS
<1> HIDE DEF v
<1>2. IsCall(t) /\ t.vma = s.vma /\ t.free = s.free /\ t.head = s.head
  <2>1. CASE v = NULL
    <3>1. t = [s EXCEPT !.dead = TRUE]
      BY <2>1 DEF page_fault, v
    <3> QED BY <1>1, <3>1 DEF IsCall
  <2>2. CASE v # NULL /\ s.vma[v].type = "STACK"
    <3> DEFINE x == map_filled(s.mem, top, Page(a), 0)
    <3>1. t = [s EXCEPT !.mem = x]
      BY <2>2 DEF page_fault, v
    <3> HIDE DEF x
    <3> QED BY <1>1, <3>1 DEF IsCall
  <2>3. CASE v # NULL /\ s.vma[v].type = "HEAP"
    <3>1. t = s
      BY <2>3 DEF page_fault, v
    <3> QED BY <1>1, <3>1
  <2>4. CASE v # NULL /\ s.vma[v].type # "STACK" /\ s.vma[v].type # "HEAP"
    <3> DEFINE x == map_filled(s.mem, top, Page(a), IF fate = "junk" THEN Junk ELSE 0)
               y == fate = "killed"
    <3>1. t = [s EXCEPT !.mem = x, !.dead = y]
      BY <2>4 DEF page_fault, v
    <3> HIDE DEF x, y
    <3> QED BY <1>1, <3>1 DEF IsCall
  <2> QED BY <2>1, <2>2, <2>3, <2>4
<1> QED BY <1>2

LEMMA FaultRests ==
  ASSUME NEW first, NEW s, Work(s, first), NEW top, NEW a, NEW fate
  PROVE  Work(page_fault(s, top, a, fate), first)
<1> DEFINE t == page_fault(s, top, a, fate)
<1>1. IsCall(s)
  BY DEF Work
<1>2. IsCall(t) /\ t.vma = s.vma /\ t.free = s.free /\ t.head = s.head
  BY <1>1, FaultLeavesLists
<1> HIDE DEF t
<1> QED BY <1>2, ListsRest DEF t

\* The area that a call fetches is a record of a call.
LEMMA FetchIsCall ==
  ASSUME NEW s, IsCall(s), NEW start, NEW end, NEW type
  PROVE  /\ IsCall(fetch_free_vma(s, start, end, type))
         /\ fetch_free_vma(s, start, end, type).dead = s.dead
<1> DEFINE z == [start |-> start, end |-> end, type |-> type, next |-> NULL]
           g == [s.vma EXCEPT ![s.free] = z]
           f == fetch_free_vma(s, start, end, type)
<1>1. CASE s.free = NULL
  <2>1. f = [s EXCEPT !.got = NULL]
    BY <1>1 DEF fetch_free_vma
  <2> HIDE DEF f
  <2> QED BY <2>1 DEF IsCall, f
<1>2. CASE s.free # NULL
  <2>1. f = [s EXCEPT !.got = s.free, !.free = s.vma[s.free].next, !.vma = g]
    BY <1>2 DEF fetch_free_vma
  <2> HIDE DEF f, g
  <2> QED BY <2>1 DEF IsCall, f
<1> QED BY <1>1, <1>2

LEMMA LoadKeeps ==
  ASSUME NEW first \in 1 .. NumVma + 1, NEW s, Work(s, first), NEW top, NEW seg, NEW fate
  PROVE  Work(load_segment(s, top, seg, fate), first)
<1> DEFINE f == fetch_free_vma(s, seg.vaddr, seg.vaddr + seg.memsz, seg.type)
           x == map_segment(f.mem, top, seg)
           t == [f EXCEPT !.mem = x]
           mapped == append(t)
           last == Page(seg.vaddr + seg.memsz - 1)
           ready == IF get_pte_entry(mapped.mem, top, last) # 0 THEN mapped
                    ELSE page_fault(mapped, top, last * PAGE_SIZE, fate)
           y == copy_segment(ready.mem, top, seg)
<1>1. load_segment(s, top, seg, fate) = IF s.dead THEN s ELSE [ready EXCEPT !.mem = y]
  BY DEF load_segment
<1>2. IsCall(f)
  BY FetchIsCall DEF Work
<1>3. t = [vma |-> f.vma, free |-> f.free, got |-> f.got, head |-> f.head, mem |-> x, dead |-> f.dead]
  <2> HIDE DEF f, x
  <2> QED BY <1>2 DEF IsCall
<1>4. Work(mapped, first)
  <2>1. f = fetch_free_vma(s, seg.vaddr, seg.vaddr + seg.memsz, seg.type)
    OBVIOUS
  <2> HIDE DEF f, x, t
  <2> QED BY <1>3, <2>1, AreaAdded
<1>5. Work(ready, first)
  <2> HIDE DEF mapped, last
  <2> QED BY <1>4, FaultRests
<1>6. Work([ready EXCEPT !.mem = y], first)
  <2> HIDE DEF ready, y
  <2> DEFINE u == [ready EXCEPT !.mem = y]
  <2>1. IsCall(ready)
    BY <1>5 DEF Work
  <2>2. IsCall(u) /\ u.vma = ready.vma /\ u.free = ready.free /\ u.head = ready.head
    BY <2>1 DEF IsCall
  <2> HIDE DEF u
  <2>3. Work(u, first)
    BY <1>5, <2>2, ListsRest
  <2> QED BY <2>3 DEF u
<1> HIDE DEF ready, y
<1> QED BY <1>1, <1>6

LEMMA CopyKeeps ==
  ASSUME NEW first \in 1 .. NumVma + 1, NEW s, Work(s, first), NEW from, NEW to, NEW a
  PROVE  Work(copy_area(s, from, to, a), first)
<1> DEFINE f == fetch_free_vma(s, a.start, a.end, a.type)
           u == append(f)
           y == share_area(u.mem, from, to, a)
<1>1. copy_area(s, from, to, a) =
        IF s.dead THEN s ELSE IF f.got = NULL THEN [s EXCEPT !.dead = TRUE] ELSE [u EXCEPT !.mem = y]
  BY DEF copy_area
<1>2. IsCall(s) /\ IsCall(f)
  BY FetchIsCall DEF Work
<1>3. f = [vma |-> f.vma, free |-> f.free, got |-> f.got, head |-> f.head, mem |-> f.mem, dead |-> f.dead]
  <2> HIDE DEF f
  <2> QED BY <1>2 DEF IsCall
<1>4. Work(u, first)
  <2>1. f = fetch_free_vma(s, a.start, a.end, a.type)
    OBVIOUS
  <2> HIDE DEF f
  <2> QED BY <1>3, <2>1, AreaAdded
<1>5. Work([u EXCEPT !.mem = y], first)
  <2> HIDE DEF u, y
  <2> DEFINE w == [u EXCEPT !.mem = y]
  <2>1. IsCall(u)
    BY <1>4 DEF Work
  <2>2. IsCall(w) /\ w.vma = u.vma /\ w.free = u.free /\ w.head = u.head
    BY <2>1 DEF IsCall
  <2> HIDE DEF w
  <2>3. Work(w, first)
    BY <1>4, <2>2, ListsRest
  <2> QED BY <2>3 DEF w
<1>6. Work([s EXCEPT !.dead = TRUE], first)
  <2> DEFINE w == [s EXCEPT !.dead = TRUE]
  <2>0. IsCall(s)
    BY <1>2
  <2>3. w = [s EXCEPT !.dead = TRUE]
    OBVIOUS
  <2> HIDE DEF w
  <2>1. IsCall(w) /\ w.vma = s.vma /\ w.free = s.free /\ w.head = s.head
    BY <2>0, <2>3 DEF IsCall
  <2>2. Work(w, first)
    BY <2>1, ListsRest
  <2> QED BY <2>2 DEF w
<1> HIDE DEF f, u, y
<1> QED BY <1>1, <1>5, <1>6

-----------------------------------------------------------------------------
(* The loops over the segments of a binary ("load") and over the areas of   *)
(* the parent ("copy"); q holds what stays the same in a loop.               *)

Turn(loop, q, s, k) ==
  IF loop = "load" THEN load_segment(s, q.top, q.b[k], q.fate)
  ELSE copy_area(s, q.from, q.to, vma[q.b[k]])

\* g gives the state of the loop for the positions s.
Loops(loop, q, start, n, g) ==
  g = [s \in SUBSET (1 .. n) |-> IF s = {} THEN start ELSE Turn(loop, q, g[s \ {Max(s)}], Max(s))]

LEMMA MaxOfPositions ==
  ASSUME NEW n \in Nat, NEW s \in SUBSET (1 .. n), s # {}
  PROVE  Max(s) \in s /\ \A y \in s : y <= Max(s)
<1>1. IsFiniteSet(1 .. n)
  BY FS_Interval
<1>2. IsFiniteSet(s)
  BY <1>1, FS_Subset
<1>3. s \in SUBSET Nat
  OBVIOUS
<1> QED BY <1>2, <1>3, MaxOfSet

LEMMA LoopsExist == \A n \in Nat : \A loop, q, start : \E g : Loops(loop, q, start, n, g)
<1> DEFINE Bad == {n \in Nat : \E loop, q, start : \A g : ~Loops(loop, q, start, n, g)}
<1> SUFFICES ASSUME Bad # {} PROVE FALSE
  OBVIOUS
<1>1. PICK n \in Bad : \A m \in Bad : n <= m
  BY LeastElement
<1>2. n \in Nat
  BY <1>1
<1>3. PICK loop, q, start : \A g : ~Loops(loop, q, start, n, g)
  BY <1>1
<1>4. CASE n = 0
  <2> DEFINE g == [s \in SUBSET (1 .. 0) |-> start]
  <2>1. \A s \in SUBSET (1 .. 0) : s = {}
    OBVIOUS
  <2>2. g = [s \in SUBSET (1 .. 0) |->
               IF s = {} THEN start ELSE Turn(loop, q, g[s \ {Max(s)}], Max(s))]
    BY <2>1
  <2> HIDE DEF g
  <2>3. Loops(loop, q, start, 0, g)
    BY <2>2 DEF Loops
  <2> QED BY <1>3, <1>4, <2>3
<1>5. CASE n # 0
  <2>1. n - 1 \in Nat /\ n - 1 \notin Bad
    BY <1>1, <1>2, <1>5
  <2>2. PICK g : Loops(loop, q, start, n - 1, g)
    BY <2>1
  <2> DEFINE e == [s \in SUBSET (1 .. n) |->
                     IF n \in s THEN Turn(loop, q, g[s \ {n}], n) ELSE g[s]]
  <2>3. \A s \in SUBSET (1 .. (n - 1)) :
          g[s] = IF s = {} THEN start ELSE Turn(loop, q, g[s \ {Max(s)}], Max(s))
    BY <2>2 DEF Loops
  <2>4. \A s \in SUBSET (1 .. (n - 1)) : s \in SUBSET (1 .. n) /\ n \notin s /\ e[s] = g[s]
    BY <1>2, <1>5
  <2>5. \A s \in SUBSET (1 .. n) : s \ {n} \in SUBSET (1 .. (n - 1))
    BY <1>2
  <2>6. ASSUME NEW s \in SUBSET (1 .. n)
        PROVE  e[s] = IF s = {} THEN start ELSE Turn(loop, q, e[s \ {Max(s)}], Max(s))
    <3>1. CASE n \in s
      <4>1. Max(s) \in s /\ \A y \in s : y <= Max(s)
        BY <1>2, <3>1, MaxOfPositions
      <4>2. Max(s) = n
        <5>1. Max(s) \in 1 .. n /\ n <= Max(s)
          BY <3>1, <4>1
        <5> QED BY <1>2, <5>1
      <4>3. e[s] = Turn(loop, q, g[s \ {n}], n)
        BY <3>1
      <4>4. e[s \ {n}] = g[s \ {n}]
        BY <2>4, <2>5
      <4> HIDE DEF e
      <4> QED BY <3>1, <4>2, <4>3, <4>4
    <3>2. CASE n \notin s
      <4>1. s \in SUBSET (1 .. (n - 1))
        BY <2>5, <3>2
      <4>2. s # {} => s \ {Max(s)} \in SUBSET (1 .. (n - 1))
        BY <4>1
      <4>3. e[s] = g[s] /\ (s # {} => e[s \ {Max(s)}] = g[s \ {Max(s)}])
        BY <2>4, <4>1, <4>2
      <4> HIDE DEF e
      <4> QED BY <2>3, <4>1, <4>3
    <3> QED BY <3>1, <3>2
  <2>7. e = [s \in SUBSET (1 .. n) |->
               IF s = {} THEN start ELSE Turn(loop, q, e[s \ {Max(s)}], Max(s))]
    BY <2>6
  <2> HIDE DEF e
  <2>8. Loops(loop, q, start, n, e)
    BY <2>7 DEF Loops
  <2> QED BY <1>3, <2>8
<1> QED BY <1>4, <1>5

\* The loop over one prefix after the other, a turn more each time.
Turns(loop, q, start, n, g) ==
  /\ g[1 .. 0] = start
  /\ \A k \in 1 .. n : g[1 .. k] = Turn(loop, q, g[1 .. (k - 1)], k)

LEMMA LoopSteps ==
  ASSUME NEW loop, NEW q, NEW start, NEW n \in Nat, NEW g, Loops(loop, q, start, n, g)
  PROVE  Turns(loop, q, start, n, g)
<1>1. \A s \in SUBSET (1 .. n) :
        g[s] = IF s = {} THEN start ELSE Turn(loop, q, g[s \ {Max(s)}], Max(s))
  BY DEF Loops
<1>2. 1 .. 0 = {} /\ 1 .. 0 \in SUBSET (1 .. n)
  OBVIOUS
<1>3. ASSUME NEW k \in 1 .. n PROVE g[1 .. k] = Turn(loop, q, g[1 .. (k - 1)], k)
  <2>1. 1 .. k \in SUBSET (1 .. n) /\ k \in Nat /\ k \in 1 .. k /\ 1 .. k # {} /\ 1 .. k \in SUBSET (1 .. k)
    OBVIOUS
  <2>2. Max(1 .. k) \in 1 .. k /\ \A y \in 1 .. k : y <= Max(1 .. k)
    BY <2>1, MaxOfPositions
  <2>3. Max(1 .. k) = k
    BY <2>1, <2>2
  <2>4. (1 .. k) \ {k} = 1 .. (k - 1)
    BY <2>1
  <2> QED BY <1>1, <2>1, <2>3, <2>4
<1>4. g[1 .. 0] = start
  BY <1>1, <1>2
<1> QED BY <1>3, <1>4 DEF Turns

\* A loop as its definition writes it.
LoadLoop(s, top, b, fate, n, g) ==
  g = [p \in SUBSET (1 .. n) |->
         IF p = {} THEN s ELSE load_segment(g[p \ {Max(p)}], top, b[Max(p)], fate)]
CopyLoop(s, from, to, b, n, g) ==
  g = [p \in SUBSET (1 .. n) |->
         IF p = {} THEN s ELSE copy_area(g[p \ {Max(p)}], from, to, vma[b[Max(p)]])]

LEMMA LoopKeeps ==
  ASSUME NEW first \in 1 .. NumVma + 1, NEW s, Work(s, first), NEW loop, NEW q, NEW n \in Nat,
         NEW g, Loops(loop, q, s, n, g)
  PROVE  Work(g[1 .. n], first)
<1> DEFINE Bad == {k \in 0 .. n : ~Work(g[1 .. k], first)}
<1>0. Turns(loop, q, s, n, g)
  BY LoopSteps
<1>1. /\ g[1 .. 0] = s
      /\ \A k \in 1 .. n : g[1 .. k] = Turn(loop, q, g[1 .. (k - 1)], k)
  BY <1>0 DEF Turns
<1>2. Bad = {}
  <2> SUFFICES ASSUME Bad # {} PROVE FALSE
    OBVIOUS
  <2>1. Bad \subseteq Nat
    OBVIOUS
  <2>2. PICK k \in Bad : \A j \in Bad : k <= j
    BY <2>1, LeastElement
  <2>3. k \in 0 .. n /\ ~Work(g[1 .. k], first)
    BY <2>2
  <2>4. CASE k = 0
    BY <1>1, <2>3, <2>4
  <2>5. CASE k # 0
    <3>1. k \in 1 .. n /\ k - 1 \in 0 .. n /\ ~(k <= k - 1)
      BY <2>3, <2>5
    <3> DEFINE t == g[1 .. (k - 1)]
    <3>2. Work(t, first)
      BY <2>2, <3>1
    <3>3. g[1 .. k] = Turn(loop, q, t, k)
      BY <1>1, <3>1
    <3> HIDE DEF t
    <3>4. Work(load_segment(t, q.top, q.b[k], q.fate), first)
      BY <3>2, LoadKeeps
    <3>5. Work(copy_area(t, q.from, q.to, vma[q.b[k]]), first)
      BY <3>2, CopyKeeps
    <3> QED BY <2>3, <3>3, <3>4, <3>5 DEF Turn
  <2> QED BY <2>4, <2>5
<1>3. n \in 0 .. n
  OBVIOUS
<1> QED BY <1>2, <1>3

LEMMA SegmentsKeep ==
  ASSUME NEW first \in 1 .. NumVma + 1, NEW s, Work(s, first), NEW top, NEW fate,
         NEW b, Len(b) \in Nat, DOMAIN b = 1 .. Len(b)
  PROVE  Work(load_segments(s, top, b, fate), first)
<1> DEFINE g == CHOOSE g : LoadLoop(s, top, b, fate, Len(b), g)
           q == [top |-> top, b |-> b, fate |-> fate]
<1>1. \A f : Loops("load", q, s, Len(b), f) <=> LoadLoop(s, top, b, fate, Len(b), f)
  BY DEF Loops, LoadLoop, Turn
<1>2. load_segments(s, top, b, fate) = g[1 .. Len(b)]
  BY DEF load_segments, FoldLeft, MapThenFoldSet, LoadLoop
<1>3. \E f : Loops("load", q, s, Len(b), f)
  <2> HIDE DEF q
  <2> QED BY LoopsExist
<1>4. LoadLoop(s, top, b, fate, Len(b), g)
  BY <1>1, <1>3
<1> HIDE DEF g
<1>5. Loops("load", q, s, Len(b), g)
  BY <1>1, <1>4
<1> HIDE DEF q
<1>6. Work(g[1 .. Len(b)], first)
  BY <1>5, LoopKeeps
<1> QED BY <1>2, <1>6

LEMMA AreasKeep ==
  ASSUME NEW first \in 1 .. NumVma + 1, NEW s, Work(s, first), NEW from, NEW to,
         NEW b, Len(b) \in Nat, DOMAIN b = 1 .. Len(b)
  PROVE  Work(copy_areas(s, from, to, b), first)
<1> DEFINE g == CHOOSE g : CopyLoop(s, from, to, b, Len(b), g)
           q == [from |-> from, to |-> to, b |-> b]
<1>1. \A f : Loops("copy", q, s, Len(b), f) <=> CopyLoop(s, from, to, b, Len(b), f)
  BY DEF Loops, CopyLoop, Turn
<1>2. copy_areas(s, from, to, b) = g[1 .. Len(b)]
  BY DEF copy_areas, FoldLeft, MapThenFoldSet, CopyLoop
<1>3. \E f : Loops("copy", q, s, Len(b), f)
  <2> HIDE DEF q
  <2> QED BY LoopsExist
<1>4. CopyLoop(s, from, to, b, Len(b), g)
  BY <1>1, <1>3
<1> HIDE DEF g
<1>5. Loops("copy", q, s, Len(b), g)
  BY <1>1, <1>4
<1> HIDE DEF q
<1>6. Work(g[1 .. Len(b)], first)
  BY <1>5, LoopKeeps
<1> QED BY <1>2, <1>6

LEMMA ElfKeeps ==
  ASSUME NEW first \in 1 .. NumVma + 1, NEW s, Work(s, first), NEW top, NEW fate,
         NEW b, Len(b) \in Nat, DOMAIN b = 1 .. Len(b)
  PROVE  Work(elf_read(s, top, b, fate), first)
<1> DEFINE loaded == load_segments(s, top, b, fate)
           heap == (Page(image_end(b) - 1) + HeapGap) * PAGE_SIZE
           f == fetch_free_vma(loaded, heap, heap, "HEAP")
<1>1. elf_read(s, top, b, fate) =
        IF loaded.dead \/ loaded.head = NULL THEN [loaded EXCEPT !.dead = TRUE] ELSE append(f)
  BY DEF elf_read
<1>2. Work(loaded, first)
  BY SegmentsKeep
<1>3. IsCall(loaded)
  BY <1>2 DEF Work
<1> HIDE DEF loaded, heap
<1>4. Work(append(f), first)
  <2>1. IsCall(f)
    BY <1>3, FetchIsCall
  <2>2. f = fetch_free_vma(loaded, heap, heap, "HEAP")
    OBVIOUS
  <2> HIDE DEF f
  <2>3. f = [vma |-> f.vma, free |-> f.free, got |-> f.got, head |-> f.head, mem |-> f.mem, dead |-> f.dead]
    BY <2>1 DEF IsCall
  <2> QED BY <1>2, <2>2, <2>3, AreaAdded
<1>5. Work([loaded EXCEPT !.dead = TRUE], first)
  <2> DEFINE w == [loaded EXCEPT !.dead = TRUE]
  <2>1. w = [loaded EXCEPT !.dead = TRUE]
    OBVIOUS
  <2> HIDE DEF w
  <2>2. IsCall(w) /\ w.vma = loaded.vma /\ w.free = loaded.free /\ w.head = loaded.head
    BY <1>3, <2>1 DEF IsCall
  <2>3. Work(w, first)
    BY <1>2, <2>2, ListsRest
  <2> QED BY <2>3 DEF w
<1> HIDE DEF f
<1> QED BY <1>1, <1>4, <1>5

-----------------------------------------------------------------------------
(* The invariant: the list of every process is a run below the pool, and    *)
(* the runs of two processes do not meet.                                    *)

Runs(areas, first, heads, last) ==
  /\ last \in [Procs -> 0 .. NumVma]
  /\ \A p \in Procs : heads[p] # NULL =>
       /\ heads[p] <= last[p] /\ last[p] < first
       /\ Run(areas, heads[p], last[p])
  /\ \A p, q \in Procs : p # q /\ heads[p] # NULL /\ heads[q] # NULL =>
       last[p] < heads[q] \/ last[q] < heads[p]

VmaInv ==
  /\ Pool(vma, free_vma_head)
  /\ vma_head \in [Procs -> 0 .. NumVma]
  /\ \E last : Runs(vma, First(free_vma_head), vma_head, last)

LEMMA StartWorks ==
  ASSUME VmaInv, NEW m
  PROVE  /\ First(free_vma_head) \in 1 .. NumVma + 1
         /\ Work(Start(NULL, m), First(free_vma_head))
<1> DEFINE s == Start(NULL, m)
<1>1. s.vma = vma /\ s.free = free_vma_head /\ s.head = NULL /\ IsCall(s)
  BY DEF Start, IsCall
<1>2. Pool(vma, free_vma_head) /\ free_vma_head \in 0 .. NumVma
  BY DEF VmaInv, Pool
<1>3. First(free_vma_head) \in 1 .. NumVma + 1
  BY <1>2, FirstType
<1>4. First(free_vma_head) <= First(free_vma_head)
  BY <1>3
<1> HIDE DEF s
<1>5. Work(s, First(free_vma_head))
  BY <1>1, <1>2, <1>4 DEF Work, Listed
<1> QED BY <1>3, <1>5 DEF s

LEMMA CallKeepsRuns ==
  ASSUME VmaInv, NEW p \in Procs, NEW s, Work(s, First(free_vma_head)), Leaves(s, p)
  PROVE  VmaInv'
<1> DEFINE F == First(free_vma_head)
           E == First(s.free)
<1>1. vma' = s.vma /\ free_vma_head' = s.free /\ vma_head' = [vma_head EXCEPT ![p] = s.head]
  BY DEF Leaves
<1>2. /\ Pool(s.vma, s.free) /\ F <= E
      /\ \A v \in 1 .. NumVma : v < F => s.vma[v] = vma[v]
      /\ s.head = NULL \/ (s.head \in F .. E - 1 /\ Run(s.vma, s.head, E - 1))
  BY DEF Work, Listed
<1>3. PICK last : Runs(vma, F, vma_head, last)
  BY DEF VmaInv
<1>4. F \in 1 .. NumVma + 1 /\ E \in 1 .. NumVma + 1 /\ NumVma \in Nat
  <2>1. free_vma_head \in 0 .. NumVma /\ s.free \in 0 .. NumVma
    BY <1>2 DEF VmaInv, Pool
  <2> QED BY <2>1, FirstType
<1>5. First(free_vma_head') = E
  BY <1>1 DEF First
<1> HIDE DEF F, E
<1>6. s.head \in 0 .. NumVma /\ E - 1 \in 0 .. NumVma
  BY <1>2, <1>4 DEF NULL
<1>7. vma_head \in [Procs -> 0 .. NumVma]
  BY DEF VmaInv
<1>8. /\ vma_head' \in [Procs -> 0 .. NumVma] /\ vma_head'[p] = s.head
      /\ \A q \in Procs : q # p => vma_head'[q] = vma_head[q]
  BY <1>1, <1>6, <1>7
<1> DEFINE l == [last EXCEPT ![p] = E - 1]
<1>9. /\ last \in [Procs -> 0 .. NumVma]
      /\ \A q \in Procs : vma_head[q] # NULL =>
           vma_head[q] <= last[q] /\ last[q] < F /\ Run(vma, vma_head[q], last[q])
      /\ \A q, r \in Procs : q # r /\ vma_head[q] # NULL /\ vma_head[r] # NULL =>
           last[q] < vma_head[r] \/ last[r] < vma_head[q]
  BY <1>3 DEF Runs
<1>10. l \in [Procs -> 0 .. NumVma] /\ l[p] = E - 1 /\ \A q \in Procs : q # p => l[q] = last[q]
  BY <1>6, <1>9
<1> HIDE DEF l
<1>11. ASSUME NEW q \in Procs, vma_head'[q] # NULL
       PROVE  vma_head'[q] <= l[q] /\ l[q] < E /\ Run(s.vma, vma_head'[q], l[q])
  <2>1. CASE q = p
    <3>1. s.head \in F .. E - 1 /\ Run(s.vma, s.head, E - 1)
      BY <1>2, <1>8, <1>11, <2>1
    <3> QED BY <1>4, <1>8, <1>10, <2>1, <3>1
  <2>2. CASE q # p
    <3> DEFINE h == vma_head[q]
               e == last[q]
    <3>1. h # NULL /\ h \in 0 .. NumVma /\ e \in 0 .. NumVma /\ h <= e /\ e < F /\ Run(vma, h, e)
      BY <1>7, <1>8, <1>9, <1>11, <2>2
    <3>2. vma_head'[q] = h /\ l[q] = e
      BY <1>8, <1>10, <2>2
    <3> HIDE DEF h, e
    <3>3. \A v \in h .. e : v \in 1 .. NumVma /\ v < F
      BY <1>4, <3>1 DEF NULL
    <3>4. e \in h .. e /\ \A v \in h .. e - 1 : v \in h .. e
      BY <3>1
    <3>5. Run(s.vma, h, e)
      BY <1>2, <3>1, <3>3, <3>4 DEF Run
    <3> QED BY <1>2, <1>4, <3>1, <3>2, <3>5
  <2> QED BY <2>1, <2>2
<1>12. ASSUME NEW q \in Procs, NEW r \in Procs, q # r, vma_head'[q] # NULL, vma_head'[r] # NULL
       PROVE  l[q] < vma_head'[r] \/ l[r] < vma_head'[q]
  <2>1. CASE q = p
    <3>1. vma_head'[q] \in F .. E - 1 /\ vma_head[r] # NULL /\ l[r] = last[r] /\ last[r] < F
      BY <1>2, <1>8, <1>9, <1>10, <1>12, <2>1
    <3>2. last[r] \in 0 .. NumVma
      BY <1>9
    <3> QED BY <1>4, <3>1, <3>2
  <2>2. CASE r = p
    <3>1. vma_head'[r] \in F .. E - 1 /\ vma_head[q] # NULL /\ l[q] = last[q] /\ last[q] < F
      BY <1>2, <1>8, <1>9, <1>10, <1>12, <2>2
    <3>2. last[q] \in 0 .. NumVma
      BY <1>9
    <3> QED BY <1>4, <3>1, <3>2
  <2>3. CASE q # p /\ r # p
    BY <1>8, <1>9, <1>10, <1>12, <2>3
  <2> QED BY <2>1, <2>2, <2>3
<1>13. Runs(s.vma, E, vma_head', l)
  BY <1>10, <1>11, <1>12 DEF Runs
<1>14. Pool(s.vma, s.free)
  BY <1>2
<1> QED BY <1>1, <1>5, <1>8, <1>13, <1>14 DEF VmaInv

LEMMA VmaStarts == Init => VmaInv
<1> SUFFICES ASSUME Init PROVE VmaInv
  OBVIOUS
<1>1. /\ vma = [v \in 1 .. NumVma |->
                  [start |-> 0, end |-> 0, type |-> "TEXT", next |-> IF v = NumVma THEN NULL ELSE v + 1]]
      /\ free_vma_head = (IF NumVma = 0 THEN NULL ELSE 1)
      /\ vma_head = [p \in Procs |-> NULL]
  BY DEF Init
<1>2. free_vma_head \in 0 .. NumVma /\ First(free_vma_head) = 1
  BY <1>1, VmaAssumption DEF First, NULL
<1>3. \A v \in 1 .. NumVma : vma[v].next = IF v = NumVma THEN NULL ELSE v + 1
  BY <1>1
<1>4. Areas(vma)
  BY <1>1 DEF Areas
<1>5. vma_head \in [Procs -> 0 .. NumVma]
  BY <1>1, VmaAssumption DEF NULL
<1>6. Runs(vma, First(free_vma_head), vma_head, [p \in Procs |-> 0])
  BY <1>1, VmaAssumption DEF Runs
<1>7. Pool(vma, free_vma_head)
  BY <1>2, <1>3, <1>4 DEF Pool
<1> QED BY <1>5, <1>6, <1>7 DEF VmaInv

LEMMA ExecKeepsRuns ==
  ASSUME VmaInv, NEW p \in Procs, NEW b \in Binaries, NEW fate, Exec(p, b, fate)
  PROVE  VmaInv'
<1> DEFINE F == First(free_vma_head)
           stack == mem.handed + 1
           cleared == IF bin[p] = NoBinary THEN Fetch(mem) ELSE clear_mapping(Fetch(mem), pml[p])
           read == elf_read(Start(NULL, cleared), pml[p], b, fate)
           f == fetch_free_vma(read, USTACK - USTACK_SIZE, USTACK, "STACK")
           area == append(f)
           x == set_mapping(area.mem, pml[p], Page(USTACK) - 1, stack)
<1>1. Leaves(read, p) \/ Leaves([area EXCEPT !.mem = x], p)
  BY DEF Exec
<1>2. F \in 1 .. NumVma + 1 /\ Work(Start(NULL, cleared), F)
  <2> HIDE DEF cleared
  <2> QED BY StartWorks
<1>3. Len(b) \in Nat /\ DOMAIN b = 1 .. Len(b)
  BY BinariesAssumption
<1>4. Work(read, F)
  <2> HIDE DEF cleared, F
  <2> QED BY <1>2, <1>3, ElfKeeps
<1>5. IsCall(read)
  BY <1>4 DEF Work
<1> HIDE DEF read, F
<1>6. Work(area, F)
  <2>1. IsCall(f)
    BY <1>5, FetchIsCall
  <2>2. f = fetch_free_vma(read, USTACK - USTACK_SIZE, USTACK, "STACK")
    OBVIOUS
  <2> HIDE DEF f
  <2>3. f = [vma |-> f.vma, free |-> f.free, got |-> f.got, head |-> f.head, mem |-> f.mem, dead |-> f.dead]
    BY <2>1 DEF IsCall
  <2> QED BY <1>2, <1>4, <2>2, <2>3, AreaAdded
<1> HIDE DEF area, x
<1> DEFINE w == [area EXCEPT !.mem = x]
<1>7. Work(w, F)
  <2>1. w = [area EXCEPT !.mem = x] /\ IsCall(area)
    BY <1>6 DEF Work
  <2> HIDE DEF w
  <2>2. IsCall(w) /\ w.vma = area.vma /\ w.free = area.free /\ w.head = area.head
    BY <2>1 DEF IsCall
  <2> QED BY <1>6, <2>2, ListsRest
<1> HIDE DEF w
<1>8. Leaves(read, p) \/ Leaves(w, p)
  BY <1>1 DEF w
<1>9. Work(read, First(free_vma_head)) /\ Work(w, First(free_vma_head))
  BY <1>4, <1>7 DEF F
<1> QED BY <1>8, <1>9, CallKeepsRuns

\* The list of a process as a sequence, whatever it is.
LEMMA ListKnown ==
  ASSUME VmaInv, NEW p \in Procs
  PROVE  LET c == Chain(vma, vma_head[p]) IN Len(c) \in Nat /\ DOMAIN c = 1 .. Len(c)
<1>1. PICK last : Runs(vma, First(free_vma_head), vma_head, last)
  BY DEF VmaInv
<1> DEFINE h == vma_head[p]
           e == last[p]
<1>2. CASE h = NULL
  BY <1>2, EmptyChain
<1>3. CASE h # NULL
  <2>1. h \in 0 .. NumVma /\ e \in 0 .. NumVma /\ h <= e /\ Run(vma, h, e)
    BY <1>1, <1>3 DEF Runs, VmaInv
  <2> HIDE DEF h, e
  <2>2. h \in 1 .. NumVma /\ e \in h .. NumVma /\ e - h + 1 \in Nat
    BY <1>3, <2>1, VmaAssumption DEF NULL
  <2>3. Chain(vma, h) = [n \in 1 .. e - h + 1 |-> h + n - 1]
    BY <2>1, <2>2, ChainOfRun
  <2>4. Len(Chain(vma, h)) = e - h + 1 /\ DOMAIN Chain(vma, h) = 1 .. e - h + 1
    BY <2>2, <2>3
  <2> QED BY <2>2, <2>4 DEF h
<1> QED BY <1>2, <1>3

LEMMA ForkKeepsRuns ==
  ASSUME VmaInv, NEW p \in Procs, NEW c \in Procs, Fork(p, c)
  PROVE  VmaInv'
<1> DEFINE top == mem.handed + 2
           m == create_new_pml_table(Fetch(Fetch(mem)), top)
           areas == Chain(vma, vma_head[p])
           s == copy_areas(Start(NULL, m), pml[p], top, areas)
<1>1. Leaves(s, c)
  BY DEF Fork
<1>2. Len(areas) \in Nat /\ DOMAIN areas = 1 .. Len(areas)
  BY ListKnown
<1> HIDE DEF m, areas, top
<1>3. First(free_vma_head) \in 1 .. NumVma + 1 /\ Work(Start(NULL, m), First(free_vma_head))
  BY StartWorks
<1>4. Work(s, First(free_vma_head))
  BY <1>2, <1>3, AreasKeep
<1> HIDE DEF s
<1> QED BY <1>1, <1>4, CallKeepsRuns

LEMMA TouchKeepsRuns ==
  ASSUME VmaInv, NEW p \in Procs, NEW a, NEW fate, Touch(p, a, fate)
  PROVE  vma' = vma /\ free_vma_head' = free_vma_head /\ vma_head' = vma_head
<1> DEFINE z == Start(vma_head[p], mem)
           s == page_fault(z, pml[p], a, fate)
<1>1. Leaves(s, p)
  BY DEF Touch
<1>2. IsCall(z) /\ z.vma = vma /\ z.free = free_vma_head /\ z.head = vma_head[p]
  BY DEF Start, IsCall
<1> HIDE DEF z
<1>3. s.vma = z.vma /\ s.free = z.free /\ s.head = z.head
  BY <1>2, FaultLeavesLists
<1> HIDE DEF s
<1>4. vma_head \in [Procs -> 0 .. NumVma]
  BY DEF VmaInv
<1>5. vma_head' = [vma_head EXCEPT ![p] = vma_head[p]]
  BY <1>1, <1>2, <1>3 DEF Leaves
<1> QED BY <1>1, <1>2, <1>3, <1>4, <1>5 DEF Leaves

LEMMA ReapKeepsRuns ==
  ASSUME VmaInv, NEW p \in Procs, Reap(p)
  PROVE  VmaInv'
<1>1. vma' = vma /\ free_vma_head' = free_vma_head /\ vma_head' = [vma_head EXCEPT ![p] = NULL]
  BY DEF Reap
<1>2. PICK last : Runs(vma, First(free_vma_head), vma_head, last)
  BY DEF VmaInv
<1>3. vma_head \in [Procs -> 0 .. NumVma] /\ NULL \in 0 .. NumVma
  BY VmaAssumption DEF VmaInv, NULL
<1>4. /\ vma_head' \in [Procs -> 0 .. NumVma]
      /\ \A q \in Procs : vma_head'[q] # NULL => vma_head'[q] = vma_head[q]
  BY <1>1, <1>3
<1>5. Runs(vma, First(free_vma_head), vma_head', last)
  BY <1>2, <1>4 DEF Runs
<1>6. Pool(vma, free_vma_head)
  BY DEF VmaInv
<1> QED BY <1>1, <1>4, <1>5, <1>6 DEF VmaInv

LEMMA VmaStep == VmaInv /\ [Next]_vars => VmaInv'
<1> SUFFICES ASSUME VmaInv, [Next]_vars PROVE VmaInv'
  OBVIOUS
<1>1. ASSUME vma' = vma, free_vma_head' = free_vma_head, vma_head' = vma_head PROVE VmaInv'
  BY <1>1 DEF VmaInv
<1>2. CASE UNCHANGED vars
  BY <1>1, <1>2 DEF vars
<1>3. ASSUME NEW p \in Procs, NEW b \in Binaries, NEW fate \in Fates, Exec(p, b, fate) PROVE VmaInv'
  BY <1>3, ExecKeepsRuns
<1>4. ASSUME NEW p \in Procs, NEW c \in Procs, Fork(p, c) PROVE VmaInv'
  BY <1>4, ForkKeepsRuns
<1>5. ASSUME NEW p \in Procs, NEW a \in Touched, NEW fate \in Fates, Touch(p, a, fate) PROVE VmaInv'
  BY <1>1, <1>5, TouchKeepsRuns
<1>6. ASSUME NEW p \in Procs, Exit(p) PROVE VmaInv'
  BY <1>1, <1>6 DEF Exit
<1>7. ASSUME NEW p \in Procs, Reap(p) PROVE VmaInv'
  BY <1>7, ReapKeepsRuns
<1> QED BY <1>2, <1>3, <1>4, <1>5, <1>6, <1>7 DEF Next

\* A list of the invariant: what the walk of fork or of the fault handler finds.
LEMMA ListIsRun ==
  ASSUME NEW areas, NEW h \in 0 .. NumVma, NEW e \in 0 .. NumVma,
         h # NULL => h <= e /\ Run(areas, h, e)
  PROVE  /\ h = NULL \/ areas[Last(Chain(areas, h))].next = NULL
         /\ ToSet(Chain(areas, h)) = IF h = NULL THEN {} ELSE h .. e
<1>1. CASE h = NULL
  <2>1. Chain(areas, h) = <<>>
    BY <1>1, EmptyChain
  <2>2. ToSet(<<>>) = {}
    BY DEF ToSet
  <2> QED BY <1>1, <2>1, <2>2
<1>2. CASE h # NULL
  <2>1. h \in 1 .. NumVma /\ e \in h .. NumVma
    BY <1>2, VmaAssumption DEF NULL
  <2>2. Last(Chain(areas, h)) = e /\ ToSet(Chain(areas, h)) = h .. e
    BY <1>2, <2>1, LastOfRun
  <2> QED BY <1>2, <2>2 DEF Run
<1> QED BY <1>1, <1>2

\* Whatever is loaded, forked, touched, killed half-way and reaped, for any pool
\* and also when it is empty: no area belongs to two processes or to a process
\* and the pool, and every list ends.
THEOREM AreasArePrivate == Spec => []VmasPrivate
<1>1. VmaInv => VmasPrivate
  <2> SUFFICES ASSUME VmaInv PROVE VmasPrivate
    OBVIOUS
  <2> DEFINE F == First(free_vma_head)
             heads == [p \in Procs \cup {0} |-> IF p = 0 THEN free_vma_head ELSE vma_head[p]]
  <2>1. PICK last : Runs(vma, F, vma_head, last)
    BY DEF VmaInv
  <2> DEFINE end == [p \in Procs \cup {0} |-> IF p = 0 THEN NumVma ELSE last[p]]
  <2>2. free_vma_head \in 0 .. NumVma /\ F \in 1 .. NumVma + 1 /\ NumVma \in Nat
        /\ (free_vma_head # NULL => free_vma_head = F)
    BY FirstType DEF VmaInv, Pool, First
  <2>3. free_vma_head # NULL => free_vma_head <= NumVma /\ Run(vma, free_vma_head, NumVma)
    <3> SUFFICES ASSUME free_vma_head # NULL
        PROVE  free_vma_head <= NumVma /\ Run(vma, free_vma_head, NumVma)
      OBVIOUS
    <3>1. \A v \in F .. NumVma : vma[v].next = IF v = NumVma THEN NULL ELSE v + 1
      BY DEF VmaInv, Pool
    <3> HIDE DEF F
    <3>2. NumVma \in F .. NumVma /\ \A v \in F .. NumVma - 1 : v \in F .. NumVma /\ v # NumVma
      BY <2>2
    <3> QED BY <2>2, <3>1, <3>2 DEF Run
  <2>4. ASSUME NEW p \in Procs \cup {0}
        PROVE  /\ heads[p] \in 0 .. NumVma /\ end[p] \in 0 .. NumVma
               /\ heads[p] # NULL => heads[p] <= end[p] /\ Run(vma, heads[p], end[p])
    <3>1. CASE p = 0
      <4>1. heads[p] = free_vma_head /\ end[p] = NumVma
        BY <3>1
      <4> HIDE DEF heads, end
      <4> QED BY <2>2, <2>3, <4>1
    <3>2. CASE p # 0
      <4>1. heads[p] = vma_head[p] /\ end[p] = last[p] /\ p \in Procs
        BY <3>2
      <4> HIDE DEF heads, end
      <4> QED BY <2>1, <4>1 DEF Runs, VmaInv
    <3> QED BY <3>1, <3>2
  <2>5. ASSUME NEW p \in Procs \cup {0}, NEW q \in Procs \cup {0}, p # q,
               heads[p] # NULL, heads[q] # NULL
        PROVE  end[p] < heads[q] \/ end[q] < heads[p]
    <3>1. \A r \in Procs \cup {0} : r # 0 => r \in Procs /\ heads[r] = vma_head[r] /\ end[r] = last[r]
      OBVIOUS
    <3>2. 0 \in Procs \cup {0} /\ heads[0] = free_vma_head /\ end[0] = NumVma
      OBVIOUS
    <3> HIDE DEF heads, end
    <3>3. \A r \in Procs : vma_head[r] # NULL => last[r] < F /\ last[r] \in 0 .. NumVma
      BY <2>1 DEF Runs
    <3>4. CASE p = 0
      BY <2>2, <2>5, <3>1, <3>2, <3>3, <3>4
    <3>5. CASE q = 0
      BY <2>2, <2>5, <3>1, <3>2, <3>3, <3>5
    <3>6. CASE p # 0 /\ q # 0
      <4>1. \A a, c \in Procs : a # c /\ vma_head[a] # NULL /\ vma_head[c] # NULL =>
              last[a] < vma_head[c] \/ last[c] < vma_head[a]
        BY <2>1 DEF Runs
      <4> QED BY <2>5, <3>1, <3>6, <4>1
    <3> QED BY <3>4, <3>5, <3>6
  <2> DEFINE areas(p) == ToSet(Chain(vma, heads[p]))
  <2> HIDE DEF heads, end
  <2>6. ASSUME NEW p \in Procs \cup {0}
        PROVE  /\ heads[p] = NULL \/ vma[Last(Chain(vma, heads[p]))].next = NULL
               /\ areas(p) = IF heads[p] = NULL THEN {} ELSE heads[p] .. end[p]
    BY <2>4, ListIsRun
  <2>7. ASSUME NEW p \in Procs \cup {0}, NEW q \in Procs \cup {0}, p # q
        PROVE  areas(p) \cap areas(q) = {}
    <3>1. CASE heads[p] = NULL \/ heads[q] = NULL
      BY <2>6, <3>1
    <3>2. CASE heads[p] # NULL /\ heads[q] # NULL
      <4>1. areas(p) = heads[p] .. end[p] /\ areas(q) = heads[q] .. end[q]
        BY <2>6, <3>2
      <4>2. end[p] < heads[q] \/ end[q] < heads[p]
        BY <2>5, <2>7, <3>2
      <4>3. heads[p] \in Int /\ heads[q] \in Int /\ end[p] \in Int /\ end[q] \in Int
        BY <2>4
      <4>4. (heads[p] .. end[p]) \cap (heads[q] .. end[q]) = {}
        BY <4>2, <4>3
      <4> QED BY <4>1, <4>4
    <3> QED BY <3>1, <3>2
  <2> HIDE DEF areas
  <2> QED BY <2>6, <2>7 DEF VmasPrivate, heads, areas
<1> QED BY <1>1, VmaStarts, VmaStep, PTL DEF Spec

=============================================================================

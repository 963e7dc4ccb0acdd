--------------------------- MODULE FileTableProofs ---------------------------
(***************************************************************************)
(* Proofs about FileTable, for every archive that the build can make, any  *)
(* number of descriptors and processes: descriptors are clean when they    *)
(* are given out, and the calls keep the promise of FileView.              *)
(***************************************************************************)
EXTENDS FileTable, SequenceTheorems, ProofFacts, TLAPS

(***************************************************************************)
(* The inductive invariant, descriptor by descriptor.  A free descriptor   *)
(* has no count and no size.  An open file knows the size of its entry,    *)
(* and its pointer has advanced as far as its count (both may run past the *)
(* end).  An open directory has no size, and what it listed last is the    *)
(* directory itself or something directly in it.                           *)
(***************************************************************************)
GoodFd(f) ==
  /\ f.alloted = 0 => f.num_bytes_read = 0 /\ f.file_sz = 0
  /\ f.alloted = 1 /\ f.entry = 0 => f.file_sz = 0
  /\ f.alloted = 1 /\ f.entry # 0 /\ f.at = "data" =>
       f.file_sz = Size[f.entry] /\ f.advanced = f.num_bytes_read
  /\ f.alloted = 1 /\ f.entry # 0 /\ f.at = "header" =>
       /\ IsDir(f.entry) /\ f.file_sz = 0 /\ f.num_bytes_read = 0
       /\ f.last_matched_header \in {f.entry} \cup Children[f.entry]

Inv == TypeOK /\ \A p \in Procs, d \in Fds : GoodFd(fd_array[p][d])

-----------------------------------------------------------------------------
(* The archive. *)

LEMMA ArchiveFacts ==
  /\ Len(Tar) \in Nat /\ Entries = 1..Len(Tar) /\ 1 \in Entries
  /\ \A i \in Entries : i \in Nat /\ i # 0 /\ i \in 0..Len(Tar)
  /\ \A i \in Entries : Size[i] \in Nat /\ Name(i) \in Seq(STRING)
<1>1. Len(Tar) \in Nat /\ Len(Tar) # 0 /\ \A i \in 1..Len(Tar) : Tar[i] \in [name : Seq(STRING), size : Nat]
  BY TarAssumption, EmptySeq, LenProperties, ElementOfSeq
<1> QED BY <1>1 DEF Entries, Size, Name

LEMMA Bounds ==
  /\ MaxSize \in Nat /\ \A i \in Entries : Size[i] <= MaxSize
  /\ Max(ReadSizes) \in Nat
  /\ \A n \in ReadSizes : n \in Nat /\ n > 0 /\ n <= Max(ReadSizes)
<1> DEFINE S == {Size[i] : i \in Entries}
<1>1. S \in SUBSET Nat /\ S # {}
  BY ArchiveFacts
<1>2. IsFiniteSet(S)
  <2>1. Size \in [Entries -> S]
    BY DEF Size
  <2>2. Size \in Surjection(Entries, S)
    BY <2>1 DEF Surjection
  <2>3. IsFiniteSet(Entries)
    <3>1. 1 \in Int /\ Len(Tar) \in Int
      BY ArchiveFacts
    <3> QED BY <3>1, FS_Interval DEF Entries
  <2> QED BY <2>2, <2>3, FS_Surjection
<1> HIDE DEF S
<1>3. Max(S) \in S /\ \A y \in S : y <= Max(S)
  BY <1>1, <1>2, MaxOfSet
<1>4. MaxSize = Max(S)
  BY DEF MaxSize, S
<1>5. MaxSize \in Nat /\ \A i \in Entries : Size[i] <= MaxSize
  BY <1>1, <1>3, <1>4 DEF S
<1>6. ReadSizes \in SUBSET Nat
  BY ReadSizesAssumption
<1>7. Max(ReadSizes) \in ReadSizes /\ \A y \in ReadSizes : y <= Max(ReadSizes)
  BY <1>6, ReadSizesAssumption, MaxOfSet
<1>8. \A n \in ReadSizes : n \in Nat /\ n > 0
  BY ReadSizesAssumption
<1> QED BY <1>5, <1>7, <1>8

LEMMA LowestFree ==
  ASSUME NEW p, FreeFds(p) # {}
  PROVE  Min(FreeFds(p)) \in Fds /\ fd_array[p][Min(FreeFds(p))].alloted = 0
<1>1. FreeFds(p) \in SUBSET Nat
  BY MAX_FDSAssumption DEF FreeFds, Fds
<1>2. Min(FreeFds(p)) \in FreeFds(p)
  BY <1>1, MinOfSet
<1> QED BY <1>2 DEF FreeFds

-----------------------------------------------------------------------------
(* Listing a directory. *)

LEMMA PrefixByElements ==
  ASSUME NEW s \in Seq(STRING), NEW t \in Seq(STRING)
  PROVE  IsPrefix(s, t) <=> Len(s) <= Len(t) /\ \A i \in 1..Len(s) : s[i] = t[i]
<1>1. Len(s) \in Nat /\ Len(t) \in Nat /\ SubSeq(s, 1, Len(s)) = s
  BY SubSeqFull, LenProperties
<1>2. ASSUME Len(s) <= Len(t)
      PROVE  /\ SubSeq(t, 1, Len(s)) \in Seq(STRING) /\ Len(SubSeq(t, 1, Len(s))) = Len(s)
             /\ \A i \in 1..Len(s) : SubSeq(t, 1, Len(s))[i] = t[i]
  <2>1. \A i \in 1..Len(s) : t[i] \in STRING
    BY <1>1, <1>2, ElementOfSeq
  <2>2. 1 \in Int /\ Len(s) \in Int /\ Len(s) - 1 + 1 = Len(s)
    BY <1>1
  <2>3. /\ SubSeq(t, 1, Len(s)) \in Seq(STRING)
        /\ Len(SubSeq(t, 1, Len(s))) = IF 1 <= Len(s) THEN Len(s) - 1 + 1 ELSE 0
        /\ \A i \in 1..(Len(s) - 1 + 1) : SubSeq(t, 1, Len(s))[i] = t[1 + i - 1]
    BY <2>1, <2>2, SubSeqProperties
  <2> QED BY <1>1, <2>2, <2>3
<1>3. CASE Len(s) <= Len(t)
  <2>1. SubSeq(t, 1, Len(s)) = s <=> \A i \in 1..Len(s) : s[i] = t[i]
    BY <1>1, <1>2, <1>3, SeqEqual
  <2> QED BY <1>1, <1>3, <2>1 DEF IsPrefix
<1> QED BY <1>3 DEF IsPrefix

\* What lies below something that lies below a directory lies below it.
LEMMA LongerTransitive ==
  ASSUME NEW a \in Entries, NEW b \in Longer[a], NEW c \in Longer[b]
  PROVE  b \in Entries /\ c \in Entries /\ c \in Longer[a]
<1>1. b \in Entries /\ IsStrictPrefix(Name(a), Name(b))
  BY DEF Longer
<1>2. c \in Entries /\ IsStrictPrefix(Name(b), Name(c))
  BY <1>1 DEF Longer
<1>3. Name(a) \in Seq(STRING) /\ Name(b) \in Seq(STRING) /\ Name(c) \in Seq(STRING)
  BY <1>1, <1>2, ArchiveFacts
<1>4. Len(Name(a)) \in Nat /\ Len(Name(b)) \in Nat /\ Len(Name(c)) \in Nat
  BY <1>3, LenProperties
<1>5. /\ Len(Name(a)) <= Len(Name(b)) /\ \A i \in 1..Len(Name(a)) : Name(a)[i] = Name(b)[i]
      /\ Len(Name(b)) <= Len(Name(c)) /\ \A i \in 1..Len(Name(b)) : Name(b)[i] = Name(c)[i]
      /\ Name(a) # Name(b)
  BY <1>1, <1>2, <1>3, PrefixByElements DEF IsStrictPrefix
<1>6. IsPrefix(Name(a), Name(c))
  <2>1. Len(Name(a)) <= Len(Name(c)) /\ \A i \in 1..Len(Name(a)) : Name(a)[i] = Name(c)[i]
    BY <1>4, <1>5
  <2> QED BY <1>3, <2>1, PrefixByElements
<1>7. Name(a) # Name(c)
  <2>1. ASSUME Name(a) = Name(c) PROVE FALSE
    <3>1. Len(Name(a)) = Len(Name(b))
      BY <1>4, <1>5, <2>1
    <3> QED BY <1>3, <1>5, <3>1, SeqEqual
  <2> QED BY <2>1
<1> QED BY <1>1, <1>2, <1>6, <1>7 DEF Longer, IsStrictPrefix

\* The order in which find lists a tree: a directory comes before what is
\* below it, and everything between it and something below it is below it.
LEMMA FindOrder ==
  ASSUME NEW i \in Entries, IsDir(i), NEW j \in Longer[i]
  PROVE  /\ j \in Entries /\ i < j
         /\ \A k \in Entries : i < k /\ k <= j => k \in Longer[i]
<1>1. j \in Entries
  BY DEF Longer
<1>2. i < j /\ \A k \in i + 1 .. j : k \in Longer[i]
  BY <1>1, FindOrderAssumption DEF is_sub_string
<1> QED BY <1>1, <1>2, ArchiveFacts

\* The entries of a directory that come after the one listed last.
Left(dir, last) == {j \in Children[dir] : j > last}

(***************************************************************************)
(* The loop of read_dir passes over what is below the entry it listed last *)
(* and stops at the first entry after it that is below the directory: that *)
(* is the next entry directly in the directory.                            *)
(***************************************************************************)
LEMMA ListsNextChild ==
  ASSUME NEW dir \in Entries, IsDir(dir), NEW last \in {dir} \cup Children[dir]
  PROVE  /\ last \in Entries
         /\ matches(dir, last) = {} <=> Left(dir, last) = {}
         /\ matches(dir, last) # {} =>
              LET m == Min(matches(dir, last)) IN
              /\ m = Min(Left(dir, last)) /\ m \in Children[dir] /\ m \in Entries
              /\ Left(dir, m) = Left(dir, last) \ {m}
<1> DEFINE found == matches(dir, last)
           left == Left(dir, last)
<1>1. Children[dir] = {j \in Longer[dir] : \A k \in Longer[dir] : IsDir(k) => j \notin Longer[k]}
  BY DEF Children
<1>2. Longer[dir] \subseteq Entries /\ Children[dir] \subseteq Entries
  BY <1>1 DEF Longer
<1>3. last \in Entries /\ last \in Nat /\ dir <= last
  BY <1>1, <1>2, ArchiveFacts, FindOrder
<1>4. \A j : j \in found <=> j \in Longer[dir] /\ j > last /\ (dir = last \/ j \notin Longer[last])
  <2>1. \A j \in Longer[dir] : j \in last..Len(Tar) /\ j # last <=> j > last
    BY <1>2, <1>3, ArchiveFacts
  <2> QED BY <2>1 DEF matches, is_sub_string
<1>5. left \subseteq found
  <2> SUFFICES ASSUME NEW j \in Children[dir], j > last, dir # last, j \in Longer[last] PROVE FALSE
    BY <1>1, <1>4 DEF Left
  <2>1. last \in Longer[dir]
    BY <1>1
  <2>2. j \in Entries /\ IsDir(last)
    BY <1>2, <1>3, NoExtensionAssumption DEF is_sub_string
  <2> QED BY <1>1, <2>1, <2>2
<1>6. found \in SUBSET Nat /\ left \in SUBSET Nat
  BY <1>2, <1>4, <1>5, ArchiveFacts
<1>7. ASSUME NEW m \in found, \A j \in found : m <= j PROVE m \in Children[dir]
  <2>1. m \in Longer[dir] /\ m > last /\ m \in Nat /\ m \in Entries /\ (dir = last \/ m \notin Longer[last])
    BY <1>2, <1>4, <1>6
  <2>2. SUFFICES ASSUME NEW k \in Longer[dir], IsDir(k), m \in Longer[k] PROVE FALSE
    BY <1>1, <2>1
  <2>3. k \in Entries /\ k \in Nat /\ k < m /\ dir < k /\ dir \in Nat
    BY <1>2, <2>2, ArchiveFacts, FindOrder
  <2>4. CASE k > last
    <3>1. k \notin found
      BY <1>7, <2>1, <2>3
    <3>2. dir # last /\ k \in Longer[last]
      BY <1>4, <2>4, <3>1
    <3>3. m \in Longer[last]
      BY <1>3, <2>2, <3>2, LongerTransitive
    <3> QED BY <2>1, <3>2, <3>3
  <2>5. CASE k = last
    BY <2>1, <2>2, <2>3, <2>5
  <2>6. CASE k < last
    <3>1. last \in Longer[k]
      BY <1>3, <2>1, <2>2, <2>3, <2>6, FindOrder
    <3>2. dir # last
      BY <2>3, <2>6, <1>3
    <3> QED BY <1>1, <2>2, <3>1, <3>2
  <2> QED BY <1>3, <2>3, <2>4, <2>5, <2>6
<1> HIDE DEF found, left
<1>8. ASSUME found # {} PROVE Min(found) \in left /\ Min(found) = Min(left) /\ Min(found) \in Nat
  <2>1. Min(found) \in found /\ \A j \in found : Min(found) <= j
    BY <1>6, <1>8, MinOfSet
  <2>2. Min(found) \in left /\ left # {}
    BY <1>4, <1>7, <2>1 DEF left, Left
  <2>3. Min(left) \in left /\ \A j \in left : Min(left) <= j
    BY <1>6, <2>2, MinOfSet
  <2>4. Min(left) \in Nat /\ Min(found) \in Nat /\ Min(left) <= Min(found) /\ Min(found) <= Min(left)
    BY <1>5, <1>6, <2>1, <2>2, <2>3
  <2> QED BY <2>2, <2>4
<1>9. ASSUME found # {} PROVE Left(dir, Min(found)) = left \ {Min(found)}
  <2>1. \A j \in left : Min(found) <= j /\ j \in Nat
    BY <1>5, <1>6, <1>9, MinOfSet
  <2>2. Min(found) \in Nat /\ Min(found) > last
    BY <1>8, <1>9 DEF left, Left
  <2>3. \A j \in Children[dir] : j \in Nat
    BY <1>2, ArchiveFacts
  <2> QED BY <1>3, <2>1, <2>2, <2>3 DEF left, Left
<1>10. ASSUME found # {} PROVE Min(found) \in Children[dir] /\ Min(found) \in Entries
  BY <1>2, <1>8, <1>10 DEF left, Left
<1> QED BY <1>3, <1>5, <1>8, <1>9, <1>10 DEF found, left

-----------------------------------------------------------------------------
(* Descriptors. *)

LEMMA FdFields ==
  ASSUME NEW f \in FD
  PROVE  /\ f.alloted \in 0..1 /\ f.file_sz \in 0..MaxSize /\ f.entry \in 0..Len(Tar)
         /\ f.num_bytes_read \in 0..(MaxSize + Max(ReadSizes))
         /\ f.advanced \in 0..(MaxSize + Max(ReadSizes))
         /\ f.at \in {"header", "data"} /\ f.last_matched_header \in 0..Len(Tar)
         /\ f.file_sz \in Nat /\ f.num_bytes_read \in Nat
         /\ f.entry # 0 => f.entry \in Entries
<1>1. /\ f.alloted \in 0..1 /\ f.file_sz \in 0..MaxSize /\ f.entry \in 0..Len(Tar)
      /\ f.num_bytes_read \in 0..(MaxSize + Max(ReadSizes))
      /\ f.advanced \in 0..(MaxSize + Max(ReadSizes))
      /\ f.at \in {"header", "data"} /\ f.last_matched_header \in 0..Len(Tar)
  BY DEF FD
<1> QED BY <1>1, Bounds, ArchiveFacts

LEMMA ClearedFd ==
  ASSUME NEW a \in 0..1
  PROVE  Cleared(a) \in FD /\ GoodFd(Cleared(a)) /\ Cleared(a).entry = 0 /\ Cleared(a).alloted = a
<1>1. 0 \in 0..MaxSize /\ 0 \in 0..(MaxSize + Max(ReadSizes)) /\ 0 \in 0..Len(Tar)
  BY Bounds, ArchiveFacts
<1> HIDE DEF MaxSize
<1>2. Cleared(a) \in FD
  BY <1>1 DEF Cleared, FD
<1> QED BY <1>2 DEF Cleared, GoodFd

\* The descriptor that open_s or open_dir fills in.
LEMMA OpenedFd ==
  ASSUME NEW f \in FD, GoodFd(f), f.alloted = 0, NEW i \in Entries, NEW where \in {"header", "data"},
         where = "header" => IsDir(i), NEW s, s = IF where = "data" THEN Size[i] ELSE f.file_sz,
         NEW g, g = [alloted |-> 1, file_sz |-> s, num_bytes_read |-> f.num_bytes_read,
                     entry |-> i, at |-> where, advanced |-> 0, last_matched_header |-> i]
  PROVE  /\ g \in FD /\ GoodFd(g)
         /\ g.num_bytes_read = 0 /\ (where = "header" => g.file_sz = 0)
<1>1. f.num_bytes_read = 0 /\ f.file_sz = 0
  BY DEF GoodFd
<1>2. s \in 0..MaxSize /\ 0 \in 0..(MaxSize + Max(ReadSizes)) /\ i \in 0..Len(Tar) /\ 1 \in 0..1
  BY <1>1, Bounds, ArchiveFacts
<1>3. g \in FD
  BY <1>1, <1>2 DEF FD
<1>4. i # 0
  BY ArchiveFacts
<1> QED BY <1>1, <1>3, <1>4 DEF GoodFd

\* The descriptor after a read of n bytes.
LEMMA ReadFd ==
  ASSUME NEW f \in FD, GoodFd(f), f.alloted = 1, f.num_bytes_read < f.file_sz, NEW n \in ReadSizes,
         NEW g, g = [f EXCEPT !.advanced = f.advanced + n, !.num_bytes_read = f.num_bytes_read + n]
  PROVE  /\ f.entry # 0 /\ f.at = "data" /\ f.advanced = f.num_bytes_read /\ f.file_sz = Size[f.entry]
         /\ g \in FD /\ GoodFd(g)
         /\ g.alloted = 1 /\ g.entry = f.entry /\ g.at = "data" /\ g.file_sz = f.file_sz
         /\ g.num_bytes_read = f.num_bytes_read + n
<1>1. /\ f.file_sz \in Nat /\ f.num_bytes_read \in Nat /\ f.at \in {"header", "data"}
      /\ f.file_sz \in 0..MaxSize
  BY FdFields
<1>2. f.entry # 0 /\ f.at = "data"
  BY <1>1 DEF GoodFd
<1>3. f.advanced = f.num_bytes_read /\ f.file_sz = Size[f.entry]
  BY <1>2 DEF GoodFd
<1>4. f.num_bytes_read + n \in 0..(MaxSize + Max(ReadSizes))
  BY <1>1, Bounds
<1>5. /\ g.alloted = 1 /\ g.entry = f.entry /\ g.at = "data" /\ g.file_sz = f.file_sz
      /\ g.num_bytes_read = f.num_bytes_read + n /\ g.advanced = f.advanced + n
  BY <1>2 DEF FD
<1>6. g \in FD
  BY <1>3, <1>4 DEF FD
<1>7. GoodFd(g)
  BY <1>2, <1>3, <1>5 DEF GoodFd
<1> QED BY <1>2, <1>3, <1>5, <1>6, <1>7

\* The descriptor after close_s.
LEMMA ClosedFd ==
  ASSUME NEW f \in FD,
         NEW g, g = [f EXCEPT !.alloted = 0, !.file_sz = 0, !.num_bytes_read = 0]
  PROVE  g \in FD /\ GoodFd(g) /\ g.alloted = 0
<1>1. 0 \in 0..MaxSize /\ 0 \in 0..(MaxSize + Max(ReadSizes)) /\ 0 \in 0..1
  BY Bounds
<1>2. g \in FD /\ g.alloted = 0 /\ g.file_sz = 0 /\ g.num_bytes_read = 0
  BY <1>1 DEF FD
<1> QED BY <1>2 DEF GoodFd

\* The descriptor after read_dir listed m.
LEMMA ListedFd ==
  ASSUME NEW f \in FD, GoodFd(f), f.alloted = 1, f.entry # 0, f.at = "header",
         NEW m \in Children[f.entry], m \in Entries,
         NEW g, g = [f EXCEPT !.last_matched_header = m]
  PROVE  /\ g \in FD /\ GoodFd(g) /\ g.alloted = 1 /\ g.entry = f.entry /\ g.at = "header"
         /\ g.num_bytes_read = f.num_bytes_read /\ g.file_sz = f.file_sz
         /\ g.last_matched_header = m
<1>1. m \in 0..Len(Tar)
  BY ArchiveFacts
<1>2. /\ g \in FD /\ g.alloted = 1 /\ g.entry = f.entry /\ g.at = "header"
      /\ g.num_bytes_read = f.num_bytes_read /\ g.file_sz = f.file_sz
      /\ g.last_matched_header = m
  BY <1>1 DEF FD
<1> QED BY <1>2 DEF GoodFd

-----------------------------------------------------------------------------
(* What each call does to the array: it replaces one descriptor by g, *)
(* or leaves the array alone.                                         *)

Replaced(p, d, g) == fd_array' = [fd_array EXCEPT ![p][d] = g]

LEMMA FdOf ==
  ASSUME Inv, NEW p \in Procs, NEW d \in Fds
  PROVE  fd_array[p][d] \in FD /\ GoodFd(fd_array[p][d])
BY DEF Inv, TypeOK

\* The record that get_free_fd and open_s make, field by field.
FilledIn(f, i, where) ==
  [f EXCEPT !.alloted = 1, !.entry = i, !.at = where, !.advanced = 0, !.last_matched_header = i]
Filled(s, n, i, where) ==
  [alloted |-> 1, file_sz |-> s, num_bytes_read |-> n, entry |-> i, at |-> where,
   advanced |-> 0, last_matched_header |-> i]

LEMMA FilledFd ==
  ASSUME NEW f \in FD, NEW i, NEW where, NEW s
  PROVE  /\ FilledIn(f, i, where) = Filled(f.file_sz, f.num_bytes_read, i, where)
         /\ [FilledIn(f, i, where) EXCEPT !.file_sz = s] = Filled(s, f.num_bytes_read, i, where)
<1> SUFFICES ASSUME NEW h, h = [f EXCEPT !.alloted = 1, !.entry = i, !.at = where, !.advanced = 0,
                                         !.last_matched_header = i]
             PROVE  /\ h = Filled(f.file_sz, f.num_bytes_read, i, where)
                    /\ [h EXCEPT !.file_sz = s] = Filled(s, f.num_bytes_read, i, where)
  BY DEF FilledIn
<1> DEFINE F(a, b, c, e, t, v, l) ==
      [alloted |-> a, file_sz |-> b, num_bytes_read |-> c,
       entry |-> e, at |-> t, advanced |-> v, last_matched_header |-> l]
<1>1. f = F(f.alloted, f.file_sz, f.num_bytes_read, f.entry, f.at, f.advanced, f.last_matched_header)
  BY DEF FD
<1>3. DOMAIN f = {"alloted", "file_sz", "num_bytes_read", "entry", "at", "advanced", "last_matched_header"}
  BY <1>1
<1>4. h = [x \in DOMAIN f |->
             IF x = "alloted" THEN 1 ELSE IF x \in {"entry", "last_matched_header"} THEN i
             ELSE IF x = "at" THEN where ELSE IF x = "advanced" THEN 0 ELSE f[x]]
  OBVIOUS
<1>2. h = F(1, f.file_sz, f.num_bytes_read, i, where, 0, i)
  BY <1>1, <1>3, <1>4
<1>5. [h EXCEPT !.file_sz = s] = F(1, s, f.num_bytes_read, i, where, 0, i)
  BY ONLY <1>2
<1> QED BY <1>2, <1>5 DEF Filled

LEMMA OpenStep ==
  ASSUME Inv, NEW p \in Procs, NEW i \in Entries, open_s(p, i) \/ open_dir(p, i)
  PROVE  \E d \in Fds, g \in FD :
           /\ fd_array[p][d].alloted = 0
           /\ Replaced(p, d, g) /\ GoodFd(g) /\ ret' = Answer("open", p, d, <<>>)
           /\ g.alloted = 1 /\ g.entry = i /\ g.num_bytes_read = 0 /\ g.last_matched_header = i
           /\ g.at \in {"data", "header"}
<1>1. FreeFds(p) # {}
  BY DEF open_s, open_dir
<1>2. PICK d \in Fds : d = Min(FreeFds(p)) /\ fd_array[p][d].alloted = 0
  BY <1>1, LowestFree
<1>3. PICK f \in FD : f = fd_array[p][d] /\ GoodFd(f) /\ f.alloted = 0
  BY <1>2, FdOf
<1> DEFINE h(where) == FilledIn(f, i, where)
           G(where, s) == Filled(s, f.num_bytes_read, i, where)
<1>4. \A where, s : h(where) = G(where, f.file_sz) /\ [h(where) EXCEPT !.file_sz = s] = G(where, s)
  BY FilledFd
<1>5. \A where : get_free_fd(p, d, i, where) = h(where)
  BY <1>3 DEF get_free_fd, FilledIn
<1>6. CASE open_s(p, i)
  <2>1. Replaced(p, d, [h("data") EXCEPT !.file_sz = Size[i]]) /\ ret' = Answer("open", p, d, <<>>)
    BY <1>2, <1>5, <1>6 DEF open_s, Replaced
  <2>2. PICK g : g = G("data", Size[i])
    OBVIOUS
  <2>3. g \in FD /\ GoodFd(g) /\ g.num_bytes_read = 0
    BY <1>3, <2>2, OpenedFd DEF Filled
  <2>4. Replaced(p, d, g)
    BY ONLY <1>4, <2>1, <2>2
  <2> QED BY <1>2, <2>1, <2>2, <2>3, <2>4 DEF Filled
<1>7. CASE open_dir(p, i)
  <2>1. Replaced(p, d, h("header")) /\ ret' = Answer("open", p, d, <<>>) /\ IsDir(i)
    BY <1>2, <1>5, <1>7 DEF open_dir, Replaced
  <2>2. PICK g : g = G("header", f.file_sz)
    OBVIOUS
  <2>3. g \in FD /\ GoodFd(g) /\ g.num_bytes_read = 0
    BY <1>3, <2>1, <2>2, OpenedFd DEF Filled
  <2>4. Replaced(p, d, g)
    BY ONLY <1>4, <2>1, <2>2
  <2> QED BY <1>2, <2>1, <2>2, <2>3, <2>4 DEF Filled
<1> QED BY <1>6, <1>7

LEMMA ReadStep ==
  ASSUME Inv, NEW p \in Procs, NEW d \in Fds, NEW n \in ReadSizes, read_s(p, d, n),
         NEW f, f = fd_array[p][d], f.alloted = 1, f.num_bytes_read < f.file_sz
  PROVE  \E g \in FD :
           /\ Replaced(p, d, g) /\ GoodFd(g)
           /\ ret' = Answer("read", p, d, <<f.num_bytes_read, Min({n, f.file_sz - f.num_bytes_read})>>)
           /\ f.entry # 0 /\ f.at = "data" /\ f.file_sz = Size[f.entry]
           /\ g.alloted = 1 /\ g.entry = f.entry /\ g.at = "data" /\ g.file_sz = f.file_sz
           /\ g.num_bytes_read = f.num_bytes_read + n
<1> DEFINE g == [f EXCEPT !.advanced = f.advanced + n, !.num_bytes_read = f.num_bytes_read + n]
<1>1. f \in FD /\ GoodFd(f)
  BY FdOf
<1>a. g = [f EXCEPT !.advanced = f.advanced + n, !.num_bytes_read = f.num_bytes_read + n]
  OBVIOUS
<1>b. f.alloted = 1 /\ f.num_bytes_read < f.file_sz /\ n \in ReadSizes
  OBVIOUS
<1> HIDE DEF g
<1>2. /\ f.entry # 0 /\ f.at = "data" /\ f.advanced = f.num_bytes_read /\ f.file_sz = Size[f.entry]
      /\ g \in FD /\ GoodFd(g)
      /\ g.alloted = 1 /\ g.entry = f.entry /\ g.at = "data" /\ g.file_sz = f.file_sz
      /\ g.num_bytes_read = f.num_bytes_read + n
  BY ONLY <1>1, <1>a, <1>b, ReadFd, ZenonT(60)
<1>3. /\ fd_array' = [fd_array EXCEPT ![p][d].advanced = @ + n, ![p][d].num_bytes_read = @ + n]
      /\ ret' = Answer("read", p, d, <<f.advanced, Min({n, f.file_sz - f.num_bytes_read})>>)
  BY DEF read_s
<1>4. fd_array \in [Procs -> [Fds -> FD]]
  BY DEF Inv, TypeOK
<1>5. Replaced(p, d, g)
  BY <1>3, <1>4, <1>a DEF Replaced, FD
<1> QED BY <1>2, <1>3, <1>5

LEMMA CloseStep ==
  ASSUME Inv, NEW p \in Procs, NEW d \in Fds, close_s(p, d)
  PROVE  \E g \in FD : Replaced(p, d, g) /\ GoodFd(g) /\ g.alloted = 0
<1> DEFINE f == fd_array[p][d]
           g == [f EXCEPT !.alloted = 0, !.file_sz = 0, !.num_bytes_read = 0]
<1>1. f \in FD
  BY FdOf
<1>2. g \in FD /\ GoodFd(g) /\ g.alloted = 0
  BY <1>1, ClosedFd
<1>3. fd_array \in [Procs -> [Fds -> FD]]
  BY DEF Inv, TypeOK
<1>4. Replaced(p, d, g)
  BY <1>3 DEF Replaced, FD, close_s
<1> QED BY <1>2, <1>4

LEMMA ListStep ==
  ASSUME Inv, NEW p \in Procs, NEW d \in Fds, read_dir(p, d), NEW f, f = fd_array[p][d]
  PROVE  /\ f.alloted = 1 /\ f.entry \in Entries /\ f.at = "header" /\ IsDir(f.entry)
         /\ f.last_matched_header \in {f.entry} \cup Children[f.entry]
         /\ \/ /\ matches(f.entry, f.last_matched_header) = {}
               /\ UNCHANGED fd_array /\ ret' = Answer("list", p, d, <<>>)
            \/ /\ matches(f.entry, f.last_matched_header) # {}
               /\ \E g \in FD :
                    /\ Replaced(p, d, g) /\ GoodFd(g)
                    /\ g.alloted = 1 /\ g.entry = f.entry /\ g.at = "header"
                    /\ g.num_bytes_read = f.num_bytes_read /\ g.file_sz = f.file_sz
                    /\ g.last_matched_header = Min(matches(f.entry, f.last_matched_header))
                    /\ ret' = Answer("list", p, d, <<g.last_matched_header>>)
<1> DEFINE found == matches(f.entry, f.last_matched_header)
           g == [f EXCEPT !.last_matched_header = Min(found)]
<1>1. f \in FD /\ GoodFd(f)
  BY FdOf
<1>2. f.alloted = 1 /\ f.entry # 0 /\ f.at = "header"
  BY DEF read_dir, file_des_validator
<1>3. f.entry \in Entries
  BY <1>1, <1>2, FdFields
<1>4. IsDir(f.entry) /\ f.last_matched_header \in {f.entry} \cup Children[f.entry]
  BY <1>1, <1>2 DEF GoodFd
<1>5. CASE found = {}
  BY <1>2, <1>3, <1>4, <1>5 DEF read_dir
<1>6. CASE found # {}
  <2>1. Min(found) \in Children[f.entry] /\ Min(found) \in Entries
    BY <1>3, <1>4, <1>6, ListsNextChild
  <2>2. /\ g \in FD /\ GoodFd(g) /\ g.alloted = 1 /\ g.entry = f.entry /\ g.at = "header"
        /\ g.num_bytes_read = f.num_bytes_read /\ g.file_sz = f.file_sz
        /\ g.last_matched_header = Min(found)
    BY <1>1, <1>2, <2>1, ListedFd
  <2>3. /\ fd_array' = [fd_array EXCEPT ![p][d].last_matched_header = Min(found)]
        /\ ret' = Answer("list", p, d, <<Min(found)>>)
    BY <1>6 DEF read_dir
  <2>4. fd_array \in [Procs -> [Fds -> FD]]
    BY DEF Inv, TypeOK
  <2>5. Replaced(p, d, g)
    BY <2>3, <2>4 DEF Replaced, FD
  <2> QED BY <1>2, <1>3, <1>4, <1>6, <2>2, <2>3, <2>5
<1> QED BY <1>5, <1>6

-----------------------------------------------------------------------------
(* The invariant. *)

LEMMA FreshFds ==
  /\ Fresh \in [Fds -> FD] /\ \A d \in Fds : GoodFd(Fresh[d]) /\ Fresh[d].entry = 0
  /\ [d \in Fds |-> Cleared(0)] \in [Fds -> FD]
  /\ \A d \in Fds : GoodFd([e \in Fds |-> Cleared(0)][d]) /\ [e \in Fds |-> Cleared(0)][d].entry = 0
<1>1. \A d \in Fds : (IF d < 3 THEN 1 ELSE 0) \in 0..1
  OBVIOUS
<1>2. 0 \in 0..1
  OBVIOUS
<1>3. \A a \in 0..1 : Cleared(a) \in FD /\ GoodFd(Cleared(a)) /\ Cleared(a).entry = 0
  BY ClearedFd
<1> QED BY <1>1, <1>2, <1>3 DEF Fresh

LEMMA InvInit == Init => Inv
BY FreshFds DEF Init, Inv, TypeOK

LEMMA OneFdChanges ==
  ASSUME Inv, NEW p \in Procs, NEW d \in Fds, NEW g \in FD, GoodFd(g), Replaced(p, d, g),
         alive' \subseteq Procs
  PROVE  Inv'
<1>1. fd_array \in [Procs -> [Fds -> FD]] /\ \A q \in Procs, e \in Fds : GoodFd(fd_array[q][e])
  BY DEF Inv, TypeOK
<1>2. /\ fd_array' \in [Procs -> [Fds -> FD]]
      /\ \A q \in Procs, e \in Fds : fd_array'[q][e] = IF q = p /\ e = d THEN g ELSE fd_array[q][e]
  BY <1>1 DEF Replaced
<1>3. \A q \in Procs, e \in Fds : GoodFd(fd_array'[q][e])
  BY <1>1, <1>2
<1> QED BY <1>2, <1>3 DEF Inv, TypeOK, GoodFd

LEMMA OneArrayChanges ==
  ASSUME Inv, NEW p \in Procs, NEW a \in [Fds -> FD], \A d \in Fds : GoodFd(a[d]),
         fd_array' = [fd_array EXCEPT ![p] = a], alive' \subseteq Procs
  PROVE  Inv'
<1>1. fd_array \in [Procs -> [Fds -> FD]] /\ \A q \in Procs, e \in Fds : GoodFd(fd_array[q][e])
  BY DEF Inv, TypeOK
<1>2. /\ fd_array' \in [Procs -> [Fds -> FD]]
      /\ \A q \in Procs : fd_array'[q] = IF q = p THEN a ELSE fd_array[q]
  BY <1>1
<1>3. \A q \in Procs, e \in Fds : GoodFd(fd_array'[q][e])
  BY <1>1, <1>2
<1> QED BY <1>2, <1>3 DEF Inv, TypeOK, GoodFd

LEMMA InvUnchanged ==
  ASSUME Inv, UNCHANGED <<alive, fd_array>>
  PROVE  Inv'
BY DEF Inv, TypeOK, GoodFd

LEMMA InvStep == Inv /\ [Next]_vars => Inv'
<1> SUFFICES ASSUME Inv, [Next]_vars PROVE Inv'
  OBVIOUS
<1>1. CASE UNCHANGED vars
  BY <1>1, InvUnchanged DEF vars
<1>2. alive \subseteq Procs /\ fd_array \in [Procs -> [Fds -> FD]]
  BY DEF Inv, TypeOK
<1>3. ASSUME NEW p \in alive, NEW i \in OpenEntries, open_s(p, i) \/ open_dir(p, i) PROVE Inv'
  <2>1. p \in Procs /\ i \in Entries /\ alive' \subseteq Procs
    BY <1>2, <1>3, BoundsAssumption DEF open_s, open_dir
  <2>2. PICK d \in Fds, g \in FD : Replaced(p, d, g) /\ GoodFd(g)
    BY <1>3, <2>1, OpenStep
  <2> QED BY <2>1, <2>2, OneFdChanges
<1>4. ASSUME NEW p \in alive, OutOfFds(p) PROVE Inv'
  BY <1>4, InvUnchanged DEF OutOfFds
<1>5. ASSUME NEW p \in alive, NEW d \in Fds, NEW n \in ReadSizes, read_s(p, d, n) PROVE Inv'
  <2>1. p \in Procs /\ alive' = alive
    BY <1>2, <1>5 DEF read_s
  <2>2. CASE fd_array[p][d].alloted = 1 /\ fd_array[p][d].num_bytes_read < fd_array[p][d].file_sz
    <3>1. PICK g \in FD : Replaced(p, d, g) /\ GoodFd(g)
      BY <1>5, <2>1, <2>2, ReadStep
    <3> QED BY <1>2, <2>1, <3>1, OneFdChanges
  <2>3. CASE ~(fd_array[p][d].alloted = 1 /\ fd_array[p][d].num_bytes_read < fd_array[p][d].file_sz)
    <3>1. UNCHANGED fd_array
      BY <1>5, <2>3 DEF read_s
    <3> QED BY <2>1, <3>1, InvUnchanged
  <2> QED BY <2>2, <2>3
<1>6. ASSUME NEW p \in alive, NEW d \in Fds, read_dir(p, d) PROVE Inv'
  <2>1. p \in Procs /\ alive' = alive
    BY <1>2, <1>6 DEF read_dir
  <2>2. UNCHANGED fd_array \/ \E g \in FD : Replaced(p, d, g) /\ GoodFd(g)
    BY <1>6, <2>1, ListStep
  <2> QED BY <1>2, <2>1, <2>2, InvUnchanged, OneFdChanges
<1>7. ASSUME NEW p \in alive, NEW d \in CloseFds, close_s(p, d) PROVE Inv'
  <2>1. p \in Procs /\ d \in Fds /\ alive' \subseteq Procs
    BY <1>2, <1>7, BoundsAssumption DEF close_s
  <2>2. PICK g \in FD : Replaced(p, d, g) /\ GoodFd(g)
    BY <1>7, <2>1, CloseStep
  <2> QED BY <2>1, <2>2, OneFdChanges
<1>8. ASSUME NEW p \in alive, NEW c \in Procs, Fork(p, c) PROVE Inv'
  <2>1. p \in Procs /\ alive' \subseteq Procs /\ fd_array' = [fd_array EXCEPT ![c] = fd_array[p]]
    BY <1>2, <1>8 DEF Fork
  <2>2. fd_array[p] \in [Fds -> FD] /\ \A d \in Fds : GoodFd(fd_array[p][d])
    BY <1>2, <2>1, FdOf
  <2> QED BY <2>1, <2>2, OneArrayChanges
<1>9. ASSUME NEW p \in alive, NEW c \in Procs, Reap(p, c) PROVE Inv'
  <2>1. alive' \subseteq Procs /\ fd_array' = [fd_array EXCEPT ![c] = [d \in Fds |-> Cleared(0)]]
    BY <1>2, <1>9 DEF Reap
  <2> QED BY <2>1, FreshFds, OneArrayChanges
<1>10. ASSUME NEW p \in alive, Exec(p) PROVE Inv'
  <2>1. p \in Procs /\ alive' \subseteq Procs /\ fd_array' = [fd_array EXCEPT ![p] = Fresh]
    BY <1>2, <1>10 DEF Exec
  <2> QED BY <2>1, FreshFds, OneArrayChanges
<1> QED BY <1>1, <1>3, <1>4, <1>5, <1>6, <1>7, <1>8, <1>9, <1>10 DEF Next

LEMMA Invariance == Spec => []Inv
BY InvInit, InvStep, PTL DEF Spec

\* The arrays hold descriptors: count and pointer of an open file never run
\* past its end by more than one read (read_s adds what was asked for).
THEOREM TypeCorrect == Spec => []TypeOK
<1>1. Inv => TypeOK
  BY DEF Inv
<1> QED BY Invariance, <1>1, PTL

\* get_free_fd gives out descriptors without clearing them; whatever sequence
\* of calls, forks, execs and exits went before, a free one has no count and
\* no size left.
THEOREM NoStaleDescriptor == Spec => []FreeFdsAreClean
<1>1. Inv => FreeFdsAreClean
  BY DEF Inv, GoodFd, FreeFdsAreClean
<1> QED BY Invariance, <1>1, PTL

-----------------------------------------------------------------------------
(* The promise of FileView. *)

OpenFds(p) == {e \in Fds : IsOpen(p, e)}
Seen == [p \in Procs |-> [d \in OpenFds(p) |-> ViewOf(fd_array[p][d])]]

\* A step that replaces a descriptor changes what its process sees there.
LEMMA SeenChanges ==
  ASSUME Inv, NEW p \in Procs, NEW d \in Fds, NEW g \in FD, Replaced(p, d, g)
  PROVE  /\ g.alloted = 1 /\ g.entry # 0 =>
              Seen' = [Seen EXCEPT ![p] =
                         [e \in DOMAIN Seen[p] \cup {d} |-> IF e = d THEN ViewOf(g) ELSE Seen[p][e]]]
         /\ ~(g.alloted = 1 /\ g.entry # 0) =>
              Seen' = [Seen EXCEPT ![p] = [e \in DOMAIN Seen[p] \ {d} |-> Seen[p][e]]]
<1>1. fd_array \in [Procs -> [Fds -> FD]]
  BY DEF Inv, TypeOK
<1>2. \A q \in Procs, e \in Fds : fd_array'[q][e] = IF q = p /\ e = d THEN g ELSE fd_array[q][e]
  BY <1>1 DEF Replaced
<1>3. \A q \in Procs, e \in Fds :
        /\ IsOpen(q, e)' = IF q = p /\ e = d THEN g.alloted = 1 /\ g.entry # 0 ELSE IsOpen(q, e)
        /\ ViewOf(fd_array[q][e])' = IF q = p /\ e = d THEN ViewOf(g) ELSE ViewOf(fd_array[q][e])
  BY <1>2, ZenonT(60) DEF IsOpen, ViewOf
<1>4. \A q \in Procs : q # p => OpenFds(q)' = OpenFds(q) /\ Seen'[q] = Seen[q]
  BY <1>3 DEF OpenFds, Seen
<1>5. ASSUME g.alloted = 1 /\ g.entry # 0
      PROVE  /\ OpenFds(p)' = OpenFds(p) \cup {d}
             /\ Seen'[p] = [e \in DOMAIN Seen[p] \cup {d} |-> IF e = d THEN ViewOf(g) ELSE Seen[p][e]]
  <2>1. OpenFds(p)' = OpenFds(p) \cup {d}
    BY <1>3, <1>5 DEF OpenFds
  <2>2. \A e \in OpenFds(p)' : ViewOf(fd_array[p][e])' = IF e = d THEN ViewOf(g) ELSE ViewOf(fd_array[p][e])
    BY <1>3 DEF OpenFds
  <2> QED BY <2>1, <2>2 DEF Seen
<1>6. ASSUME ~(g.alloted = 1 /\ g.entry # 0)
      PROVE  Seen'[p] = [e \in DOMAIN Seen[p] \ {d} |-> Seen[p][e]]
  <2>1. OpenFds(p)' = OpenFds(p) \ {d}
    BY <1>3, <1>6 DEF OpenFds
  <2>2. \A e \in OpenFds(p)' : ViewOf(fd_array[p][e])' = ViewOf(fd_array[p][e])
    BY <1>3, <2>1 DEF OpenFds
  <2> QED BY <2>1, <2>2 DEF Seen
<1>7. Seen' = [q \in Procs |-> Seen'[q]] /\ DOMAIN Seen = Procs
  BY DEF Seen
<1> HIDE DEF Seen
<1> QED BY <1>4, <1>5, <1>6, <1>7

LEMMA SeenFd ==
  ASSUME NEW p \in Procs, NEW d \in Fds
  PROVE  /\ d \in DOMAIN Seen[p] <=> fd_array[p][d].alloted = 1 /\ fd_array[p][d].entry # 0
         /\ d \in DOMAIN Seen[p] => Seen[p][d] = ViewOf(fd_array[p][d])
BY DEF Seen, OpenFds, IsOpen

LEMMA ViewMin == \A S : View!Min(S) = Min(S)
BY DEF View!Min, Min

LEMMA RefineInit == Init => View!ViewInit
<1> SUFFICES ASSUME Init PROVE View!ViewInit
  OBVIOUS
<1>1. \A p \in Procs, d \in Fds : fd_array[p][d].entry = 0
  BY FreshFds DEF Init
<1>2. \A p \in Procs : OpenFds(p) = {}
  BY <1>1 DEF OpenFds, IsOpen
<1> QED BY <1>2 DEF View!ViewInit, OpenFds

LEMMA RefineOpen ==
  ASSUME Inv, NEW p \in Procs, NEW i \in Entries, open_s(p, i) \/ open_dir(p, i)
  PROVE  View!ViewNext
<1>1. PICK d \in Fds, g \in FD :
        /\ fd_array[p][d].alloted = 0
        /\ Replaced(p, d, g) /\ GoodFd(g) /\ ret' = Answer("open", p, d, <<>>)
        /\ g.alloted = 1 /\ g.entry = i /\ g.num_bytes_read = 0 /\ g.last_matched_header = i
        /\ g.at \in {"data", "header"}
  BY OpenStep
<1>2. i # 0 /\ g.file_sz \in Nat /\ i \in Nat
  BY FdFields, ArchiveFacts
<1>3. \E left \in {{}, Children[i]} : ViewOf(g) = [entry |-> i, pos |-> 0, left |-> left]
  <2>1. Min({0, g.file_sz}) = 0
    BY <1>2, MinOfTwo
  <2>2. CASE g.at = "data"
    BY <1>1, <2>1, <2>2 DEF ViewOf
  <2>3. CASE g.at = "header"
    <3>1. IsDir(i)
      BY <1>1, <1>2, <2>3 DEF GoodFd
    <3>2. \A j \in Children[i] : j > i
      <4>1. \A j \in Children[i] : j \in Longer[i]
        BY DEF Children
      <4>2. \A j \in Longer[i] : i < j /\ j \in Nat
        BY <3>1, FindOrder, ArchiveFacts
      <4> QED BY <1>2, <4>1, <4>2
    <3>3. {j \in Children[i] : j > i} = Children[i]
      BY <3>2
    <3> QED BY <1>1, <2>1, <2>3, <3>3 DEF ViewOf
  <2> QED BY <1>1, <2>2, <2>3
<1>4. PICK left \in {{}, Children[i]} : ViewOf(g) = [entry |-> i, pos |-> 0, left |-> left]
  BY <1>3
<1>5. d \notin DOMAIN Seen[p]
  BY <1>1, SeenFd
<1>6. Seen' = [Seen EXCEPT ![p] = [e \in DOMAIN Seen[p] \cup {d} |->
                 IF e = d THEN [entry |-> i, pos |-> 0, left |-> left] ELSE Seen[p][e]]]
  <2>1. Seen' = [Seen EXCEPT ![p] =
                   [e \in DOMAIN Seen[p] \cup {d} |-> IF e = d THEN ViewOf(g) ELSE Seen[p][e]]]
    BY <1>1, <1>2, SeenChanges
  <2> QED BY ONLY <1>4, <2>1
<1>7. View!Opens(p, d, i, left)
  BY <1>1, <1>5, <1>6 DEF Seen, OpenFds, View!Opens, View!Answers, Answer
<1> QED BY <1>4, <1>7 DEF View!ViewNext

LEMMA RefineRead ==
  ASSUME Inv, NEW p \in Procs, NEW d \in Fds, NEW n \in ReadSizes, read_s(p, d, n)
  PROVE  View!ViewNext
<1>1. PICK f \in FD : f = fd_array[p][d] /\ GoodFd(f)
  BY FdOf
<1>2. f.num_bytes_read \in Nat /\ f.file_sz \in Nat /\ (f.entry # 0 => f.entry \in Entries)
      /\ f.at \in {"header", "data"} /\ f.alloted \in 0..1
  BY FdFields
<1>3. n \in Nat /\ n > 0
  BY Bounds
<1> DEFINE open == f.alloted = 1 /\ f.entry # 0
           got == IF open THEN Min({n, Size[f.entry] - Min({f.num_bytes_read, f.file_sz})}) ELSE 0
<1>4. open => Seen[p][d].entry = f.entry /\ Seen[p][d].pos = Min({f.num_bytes_read, f.file_sz})
  <2>1. open => Seen[p][d] = ViewOf(f)
    BY <1>1, SeenFd
  <2>2. ViewOf(f).entry = f.entry /\ ViewOf(f).pos = Min({f.num_bytes_read, f.file_sz})
    BY DEF ViewOf
  <2> QED BY <2>1, <2>2
<1>5. open => f.file_sz = Size[f.entry]
  BY <1>1, <1>2, DirSizeAssumption DEF GoodFd
<1>6. SUFFICES /\ View!Answers("read", p, d)
               /\ IF got = 0 THEN ret'.got = <<>> /\ Seen' = Seen
                  ELSE /\ ret'.got = <<Seen[p][d].pos, got>>
                       /\ Seen' = [Seen EXCEPT ![p][d].pos = Seen[p][d].pos + got]
  <2>1. got = IF d \in DOMAIN Seen[p] THEN Min({n, Size[Seen[p][d].entry] - Seen[p][d].pos}) ELSE 0
    BY <1>1, <1>4, SeenFd
  <2> HIDE DEF got
  <2>2. View!Reads(p, d, n)
    BY <1>6, <2>1, ViewMin DEF Seen, OpenFds, View!Reads
  <2> QED BY <2>2 DEF View!ViewNext
<1>7. CASE f.alloted = 1 /\ f.num_bytes_read < f.file_sz
  <2>1. PICK g \in FD :
          /\ Replaced(p, d, g) /\ GoodFd(g)
          /\ ret' = Answer("read", p, d, <<f.num_bytes_read, Min({n, f.file_sz - f.num_bytes_read})>>)
          /\ f.entry # 0 /\ f.at = "data" /\ f.file_sz = Size[f.entry]
          /\ g.alloted = 1 /\ g.entry = f.entry /\ g.at = "data" /\ g.file_sz = f.file_sz
          /\ g.num_bytes_read = f.num_bytes_read + n
    BY <1>1, <1>7, ReadStep
  <2>2. Min({f.num_bytes_read, f.file_sz}) = f.num_bytes_read
    BY <1>2, <1>7, MinOfTwo
  <2>3. got = Min({n, f.file_sz - f.num_bytes_read})
    BY <1>7, <2>1, <2>2
  <2>4. got = IF n <= f.file_sz - f.num_bytes_read THEN n ELSE f.file_sz - f.num_bytes_read
    BY <1>2, <1>3, <2>3, MinOfTwo
  <2>5. Min({f.num_bytes_read + n, f.file_sz}) =
           IF f.num_bytes_read + n <= f.file_sz THEN f.num_bytes_read + n ELSE f.file_sz
    BY <1>2, <1>3, MinOfTwo
  <2>6. got # 0 /\ Min({f.num_bytes_read + n, f.file_sz}) = f.num_bytes_read + got
    BY <1>2, <1>3, <1>7, <2>4, <2>5
  <2> HIDE DEF got
  <2>7. d \in DOMAIN Seen[p] /\ Seen[p][d] = ViewOf(f)
    BY <1>1, <1>7, <2>1, SeenFd
  <2>8. ViewOf(f) = [entry |-> f.entry, pos |-> f.num_bytes_read, left |-> {}]
    BY <2>1, <2>2 DEF ViewOf
  <2>9. ViewOf(g) = [entry |-> f.entry, pos |-> f.num_bytes_read + got, left |-> {}]
    BY <2>1, <2>6 DEF ViewOf
  <2>10. ViewOf(g) = [Seen[p][d] EXCEPT !.pos = Seen[p][d].pos + got] /\ Seen[p][d].pos = f.num_bytes_read
    BY <2>7, <2>8, <2>9
  <2>11. Seen' = [Seen EXCEPT ![p] =
            [e \in DOMAIN Seen[p] \cup {d} |-> IF e = d THEN ViewOf(g) ELSE Seen[p][e]]]
    BY <2>1, SeenChanges
  <2>12. Seen = [q \in Procs |-> [e \in DOMAIN Seen[q] |-> Seen[q][e]]]
    BY DEF Seen
  <2> HIDE DEF Seen
  <2>13. Seen' = [Seen EXCEPT ![p][d].pos = Seen[p][d].pos + got]
    <3>1. Seen'[p] = [Seen[p] EXCEPT ![d] = ViewOf(g)]
      BY <2>7, <2>11, <2>12
    <3>2. Seen' = [Seen EXCEPT ![p] = Seen'[p]]
      BY <2>11, <2>12
    <3> QED BY <2>10, <3>1, <3>2
  <2>14. ret'.got = <<Seen[p][d].pos, got>>
    BY <2>1, <2>3, <2>10 DEF Answer
  <2> QED BY <2>1, <2>6, <2>13, <2>14 DEF View!Answers, Answer
<1>8. CASE ~(f.alloted = 1 /\ f.num_bytes_read < f.file_sz)
  <2>1. ret' = Answer("read", p, d, <<>>) /\ UNCHANGED fd_array
    BY <1>1, <1>8 DEF read_s
  <2>2. ASSUME open PROVE got = 0
    <3>1. Min({f.num_bytes_read, f.file_sz}) = f.file_sz
      BY <1>2, <1>8, <2>2, MinOfTwo
    <3>2. Size[f.entry] - Min({f.num_bytes_read, f.file_sz}) = 0
      BY <1>2, <1>5, <2>2, <3>1
    <3>3. Min({n, 0}) = 0
      BY <1>3, MinOfTwo
    <3> QED BY <3>2, <3>3
  <2>3. Seen' = Seen
    BY <2>1 DEF Seen, OpenFds, IsOpen, ViewOf
  <2> QED BY <2>1, <2>2, <2>3 DEF View!Answers, Answer
<1> QED BY <1>7, <1>8

LEMMA RefineList ==
  ASSUME Inv, NEW p \in Procs, NEW d \in Fds, read_dir(p, d)
  PROVE  View!ViewNext
<1>1. PICK f \in FD : f = fd_array[p][d]
  BY FdOf
<1> DEFINE last == f.last_matched_header
           found == matches(f.entry, last)
<1>2. /\ f.alloted = 1 /\ f.entry \in Entries /\ f.at = "header" /\ IsDir(f.entry)
      /\ last \in {f.entry} \cup Children[f.entry]
      /\ \/ /\ found = {}
            /\ UNCHANGED fd_array /\ ret' = Answer("list", p, d, <<>>)
         \/ /\ found # {}
            /\ \E g \in FD :
                 /\ Replaced(p, d, g) /\ GoodFd(g)
                 /\ g.alloted = 1 /\ g.entry = f.entry /\ g.at = "header"
                 /\ g.num_bytes_read = f.num_bytes_read /\ g.file_sz = f.file_sz
                 /\ g.last_matched_header = Min(found)
                 /\ ret' = Answer("list", p, d, <<g.last_matched_header>>)
  BY <1>1, ListStep, SMTT(60)
<1>3. f.entry # 0
  BY <1>2, ArchiveFacts
<1>4. d \in DOMAIN Seen[p] /\ Seen[p][d] = ViewOf(f)
  BY <1>1, <1>2, <1>3, SeenFd
<1>5. ViewOf(f) = [entry |-> f.entry, pos |-> Min({f.num_bytes_read, f.file_sz}), left |-> Left(f.entry, last)]
  BY <1>2 DEF ViewOf, Left
<1>6. Seen[p][d].left = Left(f.entry, last)
  BY <1>4, <1>5
<1>7. SUFFICES /\ View!Answers("list", p, d)
               /\ LET left == Seen[p][d].left IN
                  IF left = {} THEN ret'.got = <<>> /\ Seen' = Seen
                  ELSE /\ ret'.got = <<Min(left)>>
                       /\ Seen' = [Seen EXCEPT ![p][d].left = left \ {Min(left)}]
  <2>1. View!Lists(p, d)
    BY <1>4, <1>7, ViewMin DEF Seen, OpenFds, View!Lists
  <2> QED BY <2>1 DEF View!ViewNext
<1>8. CASE found = {}
  <2>1. ret' = Answer("list", p, d, <<>>) /\ UNCHANGED fd_array
    BY <1>2, <1>8
  <2>2. Seen[p][d].left = {}
    BY <1>2, <1>6, <1>8, ListsNextChild
  <2>3. Seen' = Seen
    BY <2>1 DEF Seen, OpenFds, IsOpen, ViewOf
  <2> QED BY <2>1, <2>2, <2>3 DEF View!Answers, Answer
<1>9. CASE found # {}
  <2>1. PICK g \in FD :
          /\ Replaced(p, d, g) /\ GoodFd(g)
          /\ g.alloted = 1 /\ g.entry = f.entry /\ g.at = "header"
          /\ g.num_bytes_read = f.num_bytes_read /\ g.file_sz = f.file_sz
          /\ g.last_matched_header = Min(found)
          /\ ret' = Answer("list", p, d, <<g.last_matched_header>>)
    BY <1>2, <1>9
  <2>2. /\ Left(f.entry, last) # {} /\ Min(found) = Min(Left(f.entry, last))
        /\ Left(f.entry, Min(found)) = Left(f.entry, last) \ {Min(found)}
    BY <1>2, <1>9, ListsNextChild
  <2> DEFINE left == Seen[p][d].left
  <2>3. left # {} /\ Min(left) = Min(found)
    BY <1>6, <2>2
  <2>4. ViewOf(g) = [entry |-> f.entry, pos |-> Min({f.num_bytes_read, f.file_sz}),
                     left |-> Left(f.entry, Min(found))]
    BY <2>1 DEF ViewOf, Left
  <2>5. ViewOf(g) = [entry |-> f.entry, pos |-> Min({f.num_bytes_read, f.file_sz}),
                     left |-> left \ {Min(left)}]
    BY <1>6, <2>2, <2>3, <2>4
  <2>6. ViewOf(g) = [Seen[p][d] EXCEPT !.left = left \ {Min(left)}]
    <3> HIDE DEF left
    <3> QED BY ONLY <1>4, <1>5, <2>5
  <2>7. Seen' = [Seen EXCEPT ![p] =
            [e \in DOMAIN Seen[p] \cup {d} |-> IF e = d THEN ViewOf(g) ELSE Seen[p][e]]]
    BY <1>3, <2>1, SeenChanges
  <2>8. Seen = [q \in Procs |-> [e \in DOMAIN Seen[q] |-> Seen[q][e]]]
    BY DEF Seen
  <2> HIDE DEF Seen
  <2>9. Seen' = [Seen EXCEPT ![p][d].left = left \ {Min(left)}]
    <3>1. Seen'[p] = [Seen[p] EXCEPT ![d] = ViewOf(g)]
      BY <1>4, <2>7, <2>8
    <3>2. Seen' = [Seen EXCEPT ![p] = Seen'[p]]
      BY <2>7, <2>8
    <3> QED BY <2>6, <3>1, <3>2
  <2>10. ret'.got = <<Min(left)>>
    BY <2>1, <2>3 DEF Answer
  <2> QED BY <2>1, <2>3, <2>9, <2>10 DEF View!Answers, Answer
<1> QED BY <1>8, <1>9

LEMMA RefineClose ==
  ASSUME Inv, NEW p \in Procs, NEW d \in Fds, close_s(p, d)
  PROVE  View!ViewNext
<1>1. PICK g \in FD : Replaced(p, d, g) /\ g.alloted = 0
  BY CloseStep
<1>2. Seen' = [Seen EXCEPT ![p] = [e \in DOMAIN Seen[p] \ {d} |-> Seen[p][e]]]
  <2>1. ~(g.alloted = 1 /\ g.entry # 0)
    BY <1>1
  <2> HIDE DEF Seen
  <2> QED BY <1>1, <2>1, SeenChanges
<1>3. ret' = Answer("close", p, d, <<>>)
  BY DEF close_s
<1>4. View!Closes(p, d)
  BY <1>2, <1>3 DEF Seen, OpenFds, View!Closes, View!Answers, View!Restrict, Answer
<1> QED BY <1>4 DEF View!ViewNext

\* What becomes of the views when one array is replaced as a whole.
LEMMA SeenArray ==
  ASSUME Inv, NEW p \in Procs, NEW a \in [Fds -> FD], fd_array' = [fd_array EXCEPT ![p] = a]
  PROVE  Seen' = [Seen EXCEPT ![p] =
                    [d \in {e \in Fds : a[e].alloted = 1 /\ a[e].entry # 0} |-> ViewOf(a[d])]]
<1>1. fd_array \in [Procs -> [Fds -> FD]]
  BY DEF Inv, TypeOK
<1>2. \A q \in Procs : fd_array'[q] = IF q = p THEN a ELSE fd_array[q]
  BY <1>1
<1>3. \A q \in Procs : q # p => OpenFds(q)' = OpenFds(q) /\ Seen'[q] = Seen[q]
  BY <1>2 DEF OpenFds, Seen, IsOpen, ViewOf
<1>4. OpenFds(p)' = {e \in Fds : a[e].alloted = 1 /\ a[e].entry # 0}
  BY <1>2 DEF OpenFds, IsOpen
<1>5. Seen'[p] = [d \in {e \in Fds : a[e].alloted = 1 /\ a[e].entry # 0} |-> ViewOf(a[d])]
  BY <1>2, <1>4 DEF Seen, ViewOf
<1>6. Seen' = [q \in Procs |-> Seen'[q]] /\ DOMAIN Seen = Procs
  BY DEF Seen
<1> HIDE DEF Seen
<1> QED BY <1>3, <1>5, <1>6

LEMMA RefineFork ==
  ASSUME Inv, NEW p \in Procs, NEW c \in Procs, Fork(p, c)
  PROVE  View!ViewNext
<1>1. fd_array' = [fd_array EXCEPT ![c] = fd_array[p]] /\ ret' = Answer("fork", p, 0, <<>>)
  BY DEF Fork
<1>2. fd_array[p] \in [Fds -> FD]
  BY DEF Inv, TypeOK
<1>3. Seen' = [Seen EXCEPT ![c] =
        [d \in {e \in Fds : fd_array[p][e].alloted = 1 /\ fd_array[p][e].entry # 0} |-> ViewOf(fd_array[p][d])]]
  BY <1>1, <1>2, SeenArray
<1>4. Seen[p] = [d \in {e \in Fds : fd_array[p][e].alloted = 1 /\ fd_array[p][e].entry # 0} |->
                   ViewOf(fd_array[p][d])]
  BY DEF Seen, OpenFds, IsOpen
<1>5. Seen' = [Seen EXCEPT ![c] = Seen[p]]
  BY ONLY <1>3, <1>4
<1>6. View!Forks(p, c)
  BY <1>1, <1>5 DEF Seen, OpenFds, View!Forks, View!Answers, Answer
<1> QED BY <1>6 DEF View!ViewNext

\* exec and the reaping of a process leave it nothing open.
LEMMA RefineForget ==
  ASSUME Inv, NEW p \in Procs, NEW a \in [Fds -> FD], \A d \in Fds : a[d].entry = 0,
         fd_array' = [fd_array EXCEPT ![p] = a], ret' = Answer("gone", p, 0, <<>>)
  PROVE  View!ViewNext
<1>1. Seen' = [Seen EXCEPT ![p] =
         [d \in {e \in Fds : a[e].alloted = 1 /\ a[e].entry # 0} |-> ViewOf(a[d])]]
  BY SeenArray
<1>2. {e \in Fds : a[e].alloted = 1 /\ a[e].entry # 0} = {}
  OBVIOUS
<1>3. [d \in {e \in Fds : a[e].alloted = 1 /\ a[e].entry # 0} |-> ViewOf(a[d])] = [d \in {} |-> Seen[p][d]]
  BY <1>2
<1>4. Seen' = [Seen EXCEPT ![p] = [d \in {} |-> Seen[p][d]]]
  BY ONLY <1>1, <1>3
<1>5. View!Forgets(p)
  BY <1>4 DEF Seen, OpenFds, View!Forgets, View!Answers, View!Restrict, Answer
<1> QED BY <1>5 DEF View!ViewNext

LEMMA RefineStep == Inv /\ [Next]_vars => [View!ViewNext]_View!views
<1> SUFFICES ASSUME Inv, Next PROVE View!ViewNext
  <2>1. UNCHANGED vars => UNCHANGED View!views
    BY DEF vars, View!views, IsOpen, ViewOf
  <2> QED BY <2>1
<1>1. alive \subseteq Procs
  BY DEF Inv, TypeOK
<1>2. ASSUME NEW p \in alive, NEW i \in OpenEntries, open_s(p, i) \/ open_dir(p, i) PROVE View!ViewNext
  BY <1>1, <1>2, RefineOpen, BoundsAssumption
<1>3. ASSUME NEW p \in alive, OutOfFds(p) PROVE View!ViewNext
  <2>1. ret' = Answer("open", p, 0, <<>>) /\ UNCHANGED fd_array /\ p \in Procs
    BY <1>1, <1>3 DEF OutOfFds
  <2>2. View!OpensNothing(p)
    BY <2>1 DEF View!OpensNothing, View!Answers, Answer, IsOpen, ViewOf
  <2> QED BY <2>1, <2>2 DEF View!ViewNext
<1>4. ASSUME NEW p \in alive, NEW d \in Fds, NEW n \in ReadSizes, read_s(p, d, n) PROVE View!ViewNext
  BY <1>1, <1>4, RefineRead
<1>5. ASSUME NEW p \in alive, NEW d \in Fds, read_dir(p, d) PROVE View!ViewNext
  BY <1>1, <1>5, RefineList
<1>6. ASSUME NEW p \in alive, NEW d \in CloseFds, close_s(p, d) PROVE View!ViewNext
  BY <1>1, <1>6, RefineClose, BoundsAssumption
<1>7. ASSUME NEW p \in alive, NEW c \in Procs, Fork(p, c) PROVE View!ViewNext
  BY <1>1, <1>7, RefineFork
<1>8. ASSUME NEW p \in alive, NEW c \in Procs, Reap(p, c) PROVE View!ViewNext
  <2>1. fd_array' = [fd_array EXCEPT ![c] = [d \in Fds |-> Cleared(0)]] /\ ret' = Answer("gone", c, 0, <<>>)
    BY <1>8 DEF Reap
  <2> QED BY <2>1, FreshFds, RefineForget
<1>9. ASSUME NEW p \in alive, Exec(p) PROVE View!ViewNext
  <2>1. p \in Procs /\ fd_array' = [fd_array EXCEPT ![p] = Fresh] /\ ret' = Answer("gone", p, 0, <<>>)
    BY <1>1, <1>9 DEF Exec
  <2> QED BY <2>1, FreshFds, RefineForget
<1> QED BY <1>2, <1>3, <1>4, <1>5, <1>6, <1>7, <1>8, <1>9 DEF Next

\* The file calls keep the promise of FileView for every archive in the order
\* of find: read_s delivers the bytes of a file in order and once, read_dir
\* every entry of a directory once and nothing below, and no process disturbs
\* the descriptors of another.
THEOREM CallsKeepPromise == Spec => ImplementsFileView
<1>1. Inv /\ Inv' /\ [Next]_vars => [View!ViewNext]_View!views
  BY RefineStep
<1> QED BY RefineInit, <1>1, Invariance, PTL DEF Spec, ImplementsFileView, View!ViewSpec

=============================================================================

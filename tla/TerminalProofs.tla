--------------------------- MODULE TerminalProofs ----------------------------
(***************************************************************************)
(* Proofs about the terminal's ring and the screen: within its limits      *)
(* the ring is a queue of lines with an exact count; the line being        *)
(* typed stands on the screen, text leaves only upwards, the status row is *)
(* its own, and a number printed reads back; for every size of the ring,   *)
(* of a read and of the screen, and every set of characters.               *)
(***************************************************************************)
EXTENDS TerminalScreen, SequenceTheorems, ProofFacts, TLAPS

-----------------------------------------------------------------------------
(* Pieces of sequences. *)

LEMMA Piece ==
  ASSUME NEW S, NEW s \in Seq(S), NEW a \in Nat, NEW b \in Int, 1 <= a, b <= Len(s)
  PROVE  /\ SubSeq(s, a, b) \in Seq(S)
         /\ Len(SubSeq(s, a, b)) = IF a <= b THEN b - a + 1 ELSE 0
         /\ \A i \in 1 .. b - a + 1 : SubSeq(s, a, b)[i] = s[a + i - 1]
<1>1. \A i \in a .. b : s[i] \in S
  <2>1. \A i \in a .. b : i \in 1 .. Len(s)
    OBVIOUS
  <2> QED BY <2>1
<1> QED BY <1>1, SubSeqProperties

LEMMA PieceOfAppend ==
  ASSUME NEW S, NEW s \in Seq(S), NEW c \in S, NEW a \in Nat, NEW b \in Int, 1 <= a, b <= Len(s)
  PROVE  SubSeq(Append(s, c), a, b) = SubSeq(s, a, b)
<1> DEFINE t == Append(s, c)
           x == SubSeq(t, a, b)
           y == SubSeq(s, a, b)
<1>1. t \in Seq(S) /\ Len(t) = Len(s) + 1 /\ Len(s) \in Nat /\ \A i \in 1 .. Len(s) : t[i] = s[i]
  BY AppendProperties
<1>2. b <= Len(t)
  BY <1>1
<1> HIDE DEF t
<1>3. /\ x \in Seq(S) /\ Len(x) = (IF a <= b THEN b - a + 1 ELSE 0)
      /\ \A i \in 1 .. b - a + 1 : x[i] = t[a + i - 1]
  BY <1>1, <1>2, Piece
<1>4. /\ y \in Seq(S) /\ Len(y) = (IF a <= b THEN b - a + 1 ELSE 0)
      /\ \A i \in 1 .. b - a + 1 : y[i] = s[a + i - 1]
  BY Piece
<1> HIDE DEF x, y
<1>5. ASSUME NEW i \in 1 .. Len(x) PROVE x[i] = y[i]
  <2>1. i \in 1 .. b - a + 1 /\ a + i - 1 \in 1 .. Len(s)
    BY <1>1, <1>3
  <2> QED BY <1>1, <1>3, <1>4, <2>1
<1>6. x = y
  BY <1>3, <1>4, <1>5, SeqEqual
<1> QED BY <1>6 DEF x, y, t

LEMMA PieceUpToAppended ==
  ASSUME NEW S, NEW s \in Seq(S), NEW c \in S, NEW a \in 1 .. Len(s) + 1
  PROVE  SubSeq(Append(s, c), a, Len(s) + 1) = Append(SubSeq(s, a, Len(s)), c)
<1> DEFINE n == Len(s)
           t == Append(s, c)
           x == SubSeq(t, a, n + 1)
           y == SubSeq(s, a, n)
           z == Append(y, c)
<1>0. n \in Nat /\ a \in Nat /\ 1 <= a /\ a <= n + 1 /\ n <= Len(s)
  OBVIOUS
<1>1. t \in Seq(S) /\ Len(t) = n + 1 /\ (\A i \in 1 .. n : t[i] = s[i]) /\ t[n + 1] = c
  BY AppendProperties
<1> HIDE DEF t
<1>2. /\ x \in Seq(S) /\ Len(x) = (IF a <= n + 1 THEN (n + 1) - a + 1 ELSE 0)
      /\ \A i \in 1 .. (n + 1) - a + 1 : x[i] = t[a + i - 1]
  <2>1. n + 1 <= Len(t) /\ n + 1 \in Int
    BY <1>0, <1>1
  <2> HIDE DEF n
  <2> QED BY <1>0, <1>1, <2>1, Piece
<1>3. /\ y \in Seq(S) /\ Len(y) = (IF a <= n THEN n - a + 1 ELSE 0)
      /\ \A i \in 1 .. n - a + 1 : y[i] = s[a + i - 1]
  BY <1>0, Piece
<1> HIDE DEF n, x, y
<1>4. Len(x) = (n + 1) - a + 1 /\ Len(y) = n - a + 1 /\ Len(x) = Len(y) + 1
  BY <1>0, <1>2, <1>3
<1>5. z \in Seq(S) /\ Len(z) = Len(y) + 1 /\ (\A i \in 1 .. Len(y) : z[i] = y[i]) /\ z[Len(y) + 1] = c
  BY <1>3, AppendProperties
<1> HIDE DEF z
<1>6. ASSUME NEW i \in 1 .. Len(x) PROVE x[i] = z[i]
  <2>1. CASE i = Len(y) + 1
    <3>1. a + i - 1 = n + 1 /\ i \in 1 .. (n + 1) - a + 1
      BY <1>0, <1>4, <2>1
    <3>2. x[i] = t[n + 1]
      BY <1>2, <3>1
    <3> QED BY <1>1, <1>5, <2>1, <3>2
  <2>2. CASE i # Len(y) + 1
    <3>1. i \in 1 .. Len(y) /\ i \in 1 .. (n + 1) - a + 1 /\ i \in 1 .. n - a + 1
      BY <1>0, <1>4, <2>2
    <3>2. a + i - 1 \in 1 .. n
      BY <1>0, <3>1
    <3>3. x[i] = t[a + i - 1] /\ y[i] = s[a + i - 1] /\ z[i] = y[i]
      BY <1>2, <1>3, <1>5, <3>1
    <3> QED BY <1>1, <3>2, <3>3
  <2> QED BY <2>1, <2>2
<1>7. x = z
  BY <1>2, <1>4, <1>5, <1>6, SeqEqual
<1> QED BY <1>7 DEF x, y, z, t, n

LEMMA PieceOfSuffix ==
  ASSUME NEW S, NEW s \in Seq(S), NEW k \in 0 .. Len(s), NEW a \in Nat, NEW b \in Int,
         1 <= a, b <= Len(s) - k
  PROVE  SubSeq(SubSeq(s, k + 1, Len(s)), a, b) = SubSeq(s, k + a, k + b)
<1> DEFINE n == Len(s)
           t == SubSeq(s, k + 1, n)
           x == SubSeq(t, a, b)
           y == SubSeq(s, k + a, k + b)
<1>0. n \in Nat /\ k \in Nat /\ k <= n /\ k + 1 \in Nat /\ 1 <= k + 1 /\ n \in Int /\ n <= Len(s)
      /\ k + a \in Nat /\ 1 <= k + a /\ k + b \in Int /\ k + b <= Len(s)
  OBVIOUS
<1>1. /\ t \in Seq(S) /\ Len(t) = (IF k + 1 <= n THEN n - (k + 1) + 1 ELSE 0)
      /\ \A i \in 1 .. n - (k + 1) + 1 : t[i] = s[(k + 1) + i - 1]
  BY <1>0, Piece
<1>2. Len(t) = n - k
  BY <1>0, <1>1
<1>3. /\ y \in Seq(S) /\ Len(y) = (IF k + a <= k + b THEN (k + b) - (k + a) + 1 ELSE 0)
      /\ \A i \in 1 .. (k + b) - (k + a) + 1 : y[i] = s[(k + a) + i - 1]
  BY <1>0, Piece
<1> HIDE DEF t
<1>4. /\ x \in Seq(S) /\ Len(x) = (IF a <= b THEN b - a + 1 ELSE 0)
      /\ \A i \in 1 .. b - a + 1 : x[i] = t[a + i - 1]
  <2>1. b <= Len(t)
    BY <1>2
  <2> QED BY <1>1, <2>1, Piece
<1>5. b <= n - k
  OBVIOUS
<1> HIDE DEF x, y, n
<1>6. Len(x) = Len(y)
  BY <1>0, <1>3, <1>4
<1>7. ASSUME NEW i \in 1 .. Len(x) PROVE x[i] = y[i]
  <2>1. i \in 1 .. b - a + 1 /\ i \in 1 .. (k + b) - (k + a) + 1 /\ a + i - 1 \in 1 .. n - (k + 1) + 1
        /\ (k + 1) + (a + i - 1) - 1 = (k + a) + i - 1
    BY <1>0, <1>4, <1>5
  <2>2. x[i] = t[a + i - 1] /\ y[i] = s[(k + a) + i - 1]
    BY <1>3, <1>4, <2>1
  <2> DEFINE j == a + i - 1
  <2>3. t[j] = s[(k + 1) + j - 1]
    <3>1. j \in 1 .. n - (k + 1) + 1
      BY <2>1
    <3> HIDE DEF j
    <3> QED BY <1>1, <3>1
  <2> QED BY <2>1, <2>2, <2>3
<1>8. x = y
  BY <1>3, <1>4, <1>6, <1>7, SeqEqual
<1> QED BY <1>8 DEF x, y, t, n


-----------------------------------------------------------------------------
(* The lines of a sequence of characters: what Lines and PartialLine are for *)
(* the unread characters.                                                    *)

Ends(u) == {i \in 1 .. Len(u) : u[i] = NL}
EndsBefore(u, e) == {a \in Ends(u) : a < e}
LineAt(u, e) == SubSeq(u, Max({0} \cup EndsBefore(u, e)) + 1, e - 1)
EndNo(u, k) == CHOOSE e \in Ends(u) : Cardinality(EndsBefore(u, e)) = k - 1
LinesOf(u) == [k \in 1 .. Cardinality(Ends(u)) |-> LineAt(u, EndNo(u, k))]
Rest(u) == SubSeq(u, Max({0} \cup Ends(u)) + 1, Len(u))

LEMMA EndsFacts ==
  ASSUME NEW S, NEW u \in Seq(S)
  PROVE  /\ Len(u) \in Nat /\ IsFiniteSet(Ends(u)) /\ Cardinality(Ends(u)) \in Nat
         /\ \A e \in Ends(u) : e \in Nat /\ 1 <= e /\ e <= Len(u)
         /\ \A T \in SUBSET Ends(u) :
              /\ IsFiniteSet(T) /\ Cardinality(T) \in Nat /\ T \in SUBSET Nat
              /\ Max({0} \cup T) \in {0} \cup T
              /\ \A y \in T : y <= Max({0} \cup T)
<1>1. Len(u) \in Nat /\ \A e \in Ends(u) : e \in Nat /\ 1 <= e /\ e <= Len(u)
  BY DEF Ends
<1>2. IsFiniteSet(1 .. Len(u)) /\ Ends(u) \in SUBSET (1 .. Len(u))
  BY <1>1, FS_Interval DEF Ends
<1>3. IsFiniteSet(Ends(u))
  BY <1>2, FS_Subset
<1>4. ASSUME NEW T \in SUBSET Ends(u)
      PROVE  /\ IsFiniteSet(T) /\ Cardinality(T) \in Nat /\ T \in SUBSET Nat
             /\ Max({0} \cup T) \in {0} \cup T
             /\ \A y \in T : y <= Max({0} \cup T)
  <2>1. IsFiniteSet(T) /\ T \in SUBSET Nat
    BY <1>1, <1>3, FS_Subset
  <2>2. IsFiniteSet(T \cup {0}) /\ T \cup {0} = {0} \cup T
    BY <2>1, FS_AddElement
  <2>3. {0} \cup T \in SUBSET Nat /\ {0} \cup T # {} /\ IsFiniteSet({0} \cup T)
    BY <2>1, <2>2
  <2> QED BY <2>1, <2>3, MaxOfSet, FS_CardinalityType
<1> QED BY <1>1, <1>3, <1>4, FS_CardinalityType

\* The ends in their order.
LEMMA EndsInOrder ==
  ASSUME NEW S, NEW u \in Seq(S)
  PROVE  /\ \A e \in Ends(u) : Cardinality(EndsBefore(u, e)) \in 0 .. Cardinality(Ends(u)) - 1
         /\ \A k \in 1 .. Cardinality(Ends(u)) :
              EndNo(u, k) \in Ends(u) /\ Cardinality(EndsBefore(u, EndNo(u, k))) = k - 1
         /\ \A e \in Ends(u) : \A k \in Int : Cardinality(EndsBefore(u, e)) = k - 1 => EndNo(u, k) = e
<1> DEFINE E == Ends(u)
           m == Cardinality(E)
<1>1. E \in SUBSET Nat /\ IsFiniteSet(E) /\ m \in Nat
  BY EndsFacts
<1> HIDE DEF E
<1>2. /\ \A e \in E : Cardinality({a \in E : a < e}) \in 0 .. m - 1
      /\ \A d, e \in E : Cardinality({a \in E : a < d}) = Cardinality({a \in E : a < e}) => d = e
      /\ \A k \in 0 .. m - 1 : \E e \in E : Cardinality({a \in E : a < e}) = k
  BY <1>1, Ranks
<1>3. /\ \A e \in E : Cardinality(EndsBefore(u, e)) \in 0 .. m - 1
      /\ \A d, e \in E : Cardinality(EndsBefore(u, d)) = Cardinality(EndsBefore(u, e)) => d = e
      /\ \A k \in 0 .. m - 1 : \E e \in E : Cardinality(EndsBefore(u, e)) = k
  BY <1>2 DEF EndsBefore, E
<1>4. ASSUME NEW k \in Int, NEW e \in E, Cardinality(EndsBefore(u, e)) = k - 1
      PROVE  EndNo(u, k) \in E /\ Cardinality(EndsBefore(u, EndNo(u, k))) = k - 1 /\ EndNo(u, k) = e
  <2>1. EndNo(u, k) \in E /\ Cardinality(EndsBefore(u, EndNo(u, k))) = k - 1
    BY <1>4 DEF EndNo, E
  <2> QED BY <1>3, <1>4, <2>1
<1>5. ASSUME NEW k \in 1 .. m
      PROVE  EndNo(u, k) \in E /\ Cardinality(EndsBefore(u, EndNo(u, k))) = k - 1
  <2>1. k - 1 \in 0 .. m - 1 /\ k \in Int
    BY <1>1
  <2>2. PICK e \in E : Cardinality(EndsBefore(u, e)) = k - 1
    BY <1>3, <2>1
  <2> QED BY <1>4, <2>1, <2>2
<1> QED BY <1>3, <1>4, <1>5 DEF E

LEMMA LinesType ==
  ASSUME NEW S, NEW u \in Seq(S)
  PROVE  /\ \A e \in Ends(u) : LineAt(u, e) \in Seq(S)
         /\ LinesOf(u) \in Seq(Seq(S)) /\ Len(LinesOf(u)) = Cardinality(Ends(u))
         /\ Rest(u) \in Seq(S)
         /\ Len(Rest(u)) = Len(u) - Max({0} \cup Ends(u))
         /\ \A k \in 1 .. Cardinality(Ends(u)) : LinesOf(u)[k] = LineAt(u, EndNo(u, k))
<1>1. ASSUME NEW T \in SUBSET Ends(u), NEW b \in Int, b <= Len(u)
      PROVE  /\ Max({0} \cup T) \in Nat /\ Max({0} \cup T) + 1 \in Nat /\ 1 <= Max({0} \cup T) + 1 /\ Max({0} \cup T) <= Len(u)
             /\ SubSeq(u, Max({0} \cup T) + 1, b) \in Seq(S)
  <2>1. Max({0} \cup T) \in {0} \cup T /\ Len(u) \in Nat
    BY EndsFacts
  <2>2. Max({0} \cup T) \in Nat /\ Max({0} \cup T) <= Len(u)
    BY <2>1, EndsFacts
  <2> DEFINE x == Max({0} \cup T)
  <2> HIDE DEF x
  <2>3. x + 1 \in Nat /\ 1 <= x + 1
    BY <2>2 DEF x
  <2> QED BY <1>1, <2>2, <2>3, Piece DEF x
<1>2. ASSUME NEW e \in Ends(u) PROVE LineAt(u, e) \in Seq(S)
  <2>1. e - 1 \in Int /\ e - 1 <= Len(u) /\ EndsBefore(u, e) \in SUBSET Ends(u)
    BY EndsFacts DEF EndsBefore
  <2> QED BY <1>1, <2>1 DEF LineAt
<1>3. Rest(u) \in Seq(S) /\ Len(Rest(u)) = Len(u) - Max({0} \cup Ends(u))
  <2> DEFINE x == Max({0} \cup Ends(u))
  <2>1. Len(u) \in Int /\ Len(u) <= Len(u) /\ Ends(u) \in SUBSET Ends(u)
    BY EndsFacts
  <2>2. x + 1 \in Nat /\ 1 <= x + 1 /\ x <= Len(u) /\ x \in Nat
    BY <1>1, <2>1
  <2> HIDE DEF x
  <2>3. /\ SubSeq(u, x + 1, Len(u)) \in Seq(S)
        /\ Len(SubSeq(u, x + 1, Len(u))) = IF x + 1 <= Len(u) THEN Len(u) - (x + 1) + 1 ELSE 0
    BY <2>1, <2>2, Piece
  <2>4. Len(SubSeq(u, x + 1, Len(u))) = Len(u) - x
    BY <2>1, <2>2, <2>3
  <2> QED BY <2>3, <2>4 DEF Rest, x
<1>4. LinesOf(u) \in Seq(Seq(S)) /\ Len(LinesOf(u)) = Cardinality(Ends(u))
      /\ \A k \in 1 .. Cardinality(Ends(u)) : LinesOf(u)[k] = LineAt(u, EndNo(u, k))
  <2> DEFINE m == Cardinality(Ends(u))
  <2>1. m \in Nat
    BY EndsFacts
  <2>2. \A k \in 1 .. m : LineAt(u, EndNo(u, k)) \in Seq(S)
    BY <1>2, EndsInOrder
  <2>3. LinesOf(u) = [k \in 1 .. m |-> LineAt(u, EndNo(u, k))]
    BY DEF LinesOf
  <2> HIDE DEF m
  <2>4. LinesOf(u) \in [1 .. m -> Seq(S)]
    BY <2>2, <2>3
  <2>5. LinesOf(u) \in Seq(Seq(S)) /\ Len(LinesOf(u)) = m
    BY <2>1, <2>4
  <2> QED BY <2>3, <2>5 DEF m
<1> QED BY <1>2, <1>3, <1>4


\* A character that is no newline.
LEMMA AppendChar ==
  ASSUME NEW S, NEW u \in Seq(S), NEW c \in S, c # NL
  PROVE  /\ Ends(Append(u, c)) = Ends(u)
         /\ LinesOf(Append(u, c)) = LinesOf(u)
         /\ Rest(Append(u, c)) = Append(Rest(u), c)
<1> DEFINE v == Append(u, c)
<1>1. v \in Seq(S) /\ Len(v) = Len(u) + 1 /\ (\A i \in 1 .. Len(u) : v[i] = u[i]) /\ v[Len(u) + 1] = c
  BY AppendProperties
<1>2. Len(u) \in Nat /\ \A e \in Ends(u) : e \in Nat /\ 1 <= e /\ e <= Len(u)
  BY EndsFacts
<1> HIDE DEF v
<1>3. Ends(v) = Ends(u)
  <2>1. ASSUME NEW i \in 1 .. Len(v), v[i] = NL PROVE i \in 1 .. Len(u) /\ u[i] = NL
    <3>1. i # Len(u) + 1
      BY <1>1, <2>1
    <3>2. i \in 1 .. Len(u)
      BY <1>1, <1>2, <3>1
    <3> QED BY <1>1, <2>1, <3>2
  <2>2. ASSUME NEW i \in 1 .. Len(u), u[i] = NL PROVE i \in 1 .. Len(v) /\ v[i] = NL
    BY <1>1, <1>2, <2>2
  <2> QED BY <2>1, <2>2 DEF Ends
<1>4. \A e : EndsBefore(v, e) = EndsBefore(u, e)
  BY <1>3 DEF EndsBefore
<1>5. \A k : EndNo(v, k) = EndNo(u, k)
  BY <1>3, <1>4 DEF EndNo
<1>6. ASSUME NEW T \in SUBSET Ends(u)
      PROVE  Max({0} \cup T) \in Nat /\ Max({0} \cup T) <= Len(u)
  <2>1. Max({0} \cup T) \in {0} \cup T
    BY EndsFacts
  <2> QED BY <1>2, <2>1
<1>7. ASSUME NEW e \in Ends(u) PROVE LineAt(v, e) = LineAt(u, e)
  <2> DEFINE a == Max({0} \cup EndsBefore(u, e)) + 1
  <2>1. a \in Nat /\ 1 <= a
    <3>1. EndsBefore(u, e) \in SUBSET Ends(u)
      BY DEF EndsBefore
    <3>2. Max({0} \cup EndsBefore(u, e)) \in Nat
      BY <1>6, <3>1
    <3> QED BY <3>2
  <2>2. e - 1 \in Int /\ e - 1 <= Len(u)
    BY <1>2
  <2> HIDE DEF a
  <2>3. SubSeq(v, a, e - 1) = SubSeq(u, a, e - 1)
    BY <2>1, <2>2, PieceOfAppend DEF v
  <2> QED BY <1>4, <2>3 DEF LineAt, a
<1>8. LinesOf(v) = LinesOf(u)
  <2>1. \A k \in 1 .. Cardinality(Ends(u)) : EndNo(u, k) \in Ends(u)
    BY EndsInOrder
  <2>2. \A k \in 1 .. Cardinality(Ends(u)) : LineAt(v, EndNo(v, k)) = LineAt(u, EndNo(u, k))
    BY <1>5, <1>7, <2>1
  <2> QED BY <1>3, <2>2 DEF LinesOf
<1>9. Rest(v) = Append(Rest(u), c)
  <2> DEFINE a == Max({0} \cup Ends(u)) + 1
  <2>1. a \in 1 .. Len(u) + 1
    <3>1. Max({0} \cup Ends(u)) \in Nat /\ Max({0} \cup Ends(u)) <= Len(u)
      BY <1>6
    <3> QED BY <1>2, <3>1
  <2> HIDE DEF a
  <2>2. SubSeq(v, a, Len(u) + 1) = Append(SubSeq(u, a, Len(u)), c)
    BY <2>1, PieceUpToAppended DEF v
  <2> QED BY <1>1, <1>3, <2>2 DEF Rest, a
<1> QED BY <1>3, <1>8, <1>9 DEF v

\* A newline.
LEMMA AppendNewline ==
  ASSUME NEW S, NEW u \in Seq(S), NL \in S
  PROVE  /\ Ends(Append(u, NL)) = Ends(u) \cup {Len(u) + 1}
         /\ Cardinality(Ends(Append(u, NL))) = Cardinality(Ends(u)) + 1
         /\ LinesOf(Append(u, NL)) = Append(LinesOf(u), Rest(u))
         /\ Rest(Append(u, NL)) = <<>>
<1> DEFINE v == Append(u, NL)
           n == Len(u)
           m == Cardinality(Ends(u))
<1>1. v \in Seq(S) /\ Len(v) = n + 1 /\ (\A i \in 1 .. n : v[i] = u[i]) /\ v[n + 1] = NL
  BY AppendProperties
<1>2. n \in Nat /\ m \in Nat /\ IsFiniteSet(Ends(u)) /\ \A e \in Ends(u) : e \in Nat /\ 1 <= e /\ e <= n
  BY EndsFacts
<1> HIDE DEF v
<1>3. Ends(v) = Ends(u) \cup {n + 1}
  <2>1. ASSUME NEW i \in 1 .. Len(v), v[i] = NL, i # n + 1 PROVE i \in 1 .. n /\ u[i] = NL
    <3>1. i \in 1 .. n
      BY <1>1, <1>2, <2>1
    <3> QED BY <1>1, <2>1, <3>1
  <2>2. ASSUME NEW i \in 1 .. n, u[i] = NL PROVE i \in 1 .. Len(v) /\ v[i] = NL
    BY <1>1, <1>2, <2>2
  <2>3. n + 1 \in 1 .. Len(v)
    BY <1>1, <1>2
  <2> QED BY <1>1, <2>1, <2>2, <2>3 DEF Ends
<1>4. EndsBefore(v, n + 1) = Ends(u) /\ \A e \in Ends(u) : EndsBefore(v, e) = EndsBefore(u, e)
  <2>1. \A a \in Ends(u) : a < n + 1
    BY <1>2
  <2>2. \A e \in Ends(u) : ~(n + 1 < e)
    BY <1>2
  <2>3. ~(n + 1 < n + 1)
    BY <1>2
  <2> HIDE DEF n
  <2> QED BY <1>3, <2>1, <2>2, <2>3 DEF EndsBefore
<1>5. Cardinality(Ends(v)) = m + 1
  <2>1. n + 1 \notin Ends(u)
    BY <1>2
  <2> HIDE DEF n
  <2> QED BY <1>2, <1>3, <2>1, Counting
<1>6. ASSUME NEW T \in SUBSET Ends(u)
      PROVE  Max({0} \cup T) \in Nat /\ Max({0} \cup T) <= n
  <2>1. Max({0} \cup T) \in {0} \cup T
    BY EndsFacts
  <2> QED BY <1>2, <2>1
<1>7. ASSUME NEW e \in Ends(u) PROVE LineAt(v, e) = LineAt(u, e)
  <2> DEFINE a == Max({0} \cup EndsBefore(u, e)) + 1
  <2>1. a \in Nat /\ 1 <= a
    <3>1. EndsBefore(u, e) \in SUBSET Ends(u)
      BY DEF EndsBefore
    <3>2. Max({0} \cup EndsBefore(u, e)) \in Nat
      BY <1>6, <3>1
    <3> QED BY <3>2
  <2>2. e - 1 \in Int /\ e - 1 <= n
    BY <1>2
  <2> HIDE DEF a
  <2>3. SubSeq(v, a, e - 1) = SubSeq(u, a, e - 1)
    BY <2>1, <2>2, PieceOfAppend DEF v
  <2> QED BY <1>4, <2>3 DEF LineAt, a
<1>8. LineAt(v, n + 1) = Rest(u)
  <2> DEFINE a == Max({0} \cup Ends(u)) + 1
  <2>1. a \in Nat /\ 1 <= a
    <3>1. Max({0} \cup Ends(u)) \in Nat
      BY <1>6
    <3> QED BY <3>1
  <2>2. n \in Int /\ n <= Len(u) /\ (n + 1) - 1 = n
    BY <1>2
  <2> HIDE DEF a
  <2>3. SubSeq(v, a, n) = SubSeq(u, a, n)
    BY <2>1, <2>2, PieceOfAppend DEF v
  <2> QED BY <1>4, <2>2, <2>3 DEF LineAt, Rest, a
<1>9. EndNo(v, m + 1) = n + 1
  <2>1. n + 1 \in Ends(v) /\ Cardinality(EndsBefore(v, n + 1)) = (m + 1) - 1 /\ m + 1 \in Int
    BY <1>2, <1>3, <1>4
  <2> QED BY <1>1, <2>1, EndsInOrder
<1>10. ASSUME NEW k \in 1 .. m PROVE EndNo(v, k) = EndNo(u, k) /\ EndNo(u, k) \in Ends(u)
  <2>1. EndNo(u, k) \in Ends(u) /\ Cardinality(EndsBefore(u, EndNo(u, k))) = k - 1
    BY EndsInOrder
  <2>2. EndNo(u, k) \in Ends(v) /\ Cardinality(EndsBefore(v, EndNo(u, k))) = k - 1 /\ k \in Int
    BY <1>3, <1>4, <2>1
  <2> QED BY <1>1, <2>1, <2>2, EndsInOrder
<1>11. LinesOf(v) = Append(LinesOf(u), Rest(u))
  <2> DEFINE L == LinesOf(u)
             R == Append(L, Rest(u))
             V == LinesOf(v)
  <2>1. L \in Seq(Seq(S)) /\ Len(L) = m /\ Rest(u) \in Seq(S)
        /\ \A k \in 1 .. m : L[k] = LineAt(u, EndNo(u, k))
    BY LinesType
  <2>2. V \in Seq(Seq(S)) /\ Len(V) = m + 1 /\ \A k \in 1 .. m + 1 : V[k] = LineAt(v, EndNo(v, k))
    BY <1>1, <1>5, LinesType
  <2> HIDE DEF L, V, n, m
  <2>3. R \in Seq(Seq(S)) /\ Len(R) = m + 1 /\ (\A k \in 1 .. m : R[k] = L[k]) /\ R[m + 1] = Rest(u)
    BY <2>1, AppendProperties
  <2> HIDE DEF R
  <2>4. ASSUME NEW k \in 1 .. Len(V) PROVE V[k] = R[k]
    <3>1. CASE k = m + 1
      BY <1>8, <1>9, <2>2, <2>3, <3>1
    <3>2. CASE k # m + 1
      <4>1. k \in 1 .. m /\ k \in 1 .. m + 1
        BY <1>2, <2>2, <3>2
      <4> QED BY <1>7, <1>10, <2>1, <2>2, <2>3, <4>1
    <3> QED BY <3>1, <3>2
  <2>5. V = R
    BY <2>2, <2>3, <2>4, SeqEqual
  <2> QED BY <2>5 DEF V, R, L
<1>12. Rest(v) = <<>>
  <2>1. {0} \cup Ends(v) \in SUBSET Int /\ n + 1 \in {0} \cup Ends(v)
    BY <1>2, <1>3
  <2>2. \A y \in {0} \cup Ends(v) : y <= n + 1
    BY <1>2, <1>3
  <2>3. Max({0} \cup Ends(v)) = n + 1
    BY <2>1, <2>2, MaxIs
  <2>4. n + 1 < (n + 1) + 1 /\ n + 1 \in Int /\ (n + 1) + 1 \in Int
    BY <1>2
  <2> HIDE DEF n
  <2> QED BY <1>1, <2>3, <2>4, SubSeqEmpty DEF Rest
<1> QED BY <1>3, <1>5, <1>11, <1>12 DEF v


\* The first line is taken away.
LEMMA FirstLineTaken ==
  ASSUME NEW S, NEW u \in Seq(S), NEW k \in Ends(u), \A e \in Ends(u) : k <= e
  PROVE  LET v == SubSeq(u, k + 1, Len(u)) IN
         /\ v \in Seq(S) /\ Len(v) = Len(u) - k
         /\ \A i \in 1 .. Len(u) - k : v[i] = u[k + i]
         /\ Cardinality(Ends(v)) = Cardinality(Ends(u)) - 1
         /\ LinesOf(u) # <<>> /\ Head(LinesOf(u)) = SubSeq(u, 1, k - 1)
         /\ Tail(LinesOf(u)) = LinesOf(v)
         /\ Rest(v) = Rest(u)
<1> DEFINE n == Len(u)
           v == SubSeq(u, k + 1, n)
           m == Cardinality(Ends(u))
<1>1. n \in Nat /\ m \in Nat /\ IsFiniteSet(Ends(u)) /\ (\A e \in Ends(u) : e \in Nat /\ 1 <= e /\ e <= n)
      /\ k \in Nat /\ 1 <= k /\ k <= n
  BY EndsFacts
<1>2. v \in Seq(S) /\ Len(v) = n - k /\ \A i \in 1 .. n - k : v[i] = u[k + i]
  <2>1. k + 1 \in Nat /\ 1 <= k + 1 /\ n \in Int /\ n <= Len(u)
    BY <1>1
  <2>2. /\ v \in Seq(S) /\ Len(v) = (IF k + 1 <= n THEN n - (k + 1) + 1 ELSE 0)
        /\ \A i \in 1 .. n - (k + 1) + 1 : v[i] = u[(k + 1) + i - 1]
    BY <2>1, Piece
  <2> HIDE DEF v, n
  <2>3. Len(v) = n - k
    BY <1>1, <2>2
  <2>4. ASSUME NEW i \in 1 .. n - k PROVE v[i] = u[k + i]
    <3>1. i \in 1 .. n - (k + 1) + 1 /\ (k + 1) + i - 1 = k + i
      BY <1>1
    <3>2. v[i] = u[(k + 1) + i - 1]
      BY <2>2, <3>1
    <3> QED BY <3>1, <3>2
  <2> QED BY <2>2, <2>3, <2>4
<1> HIDE DEF v
<1>3. \A i \in Int : i \in Ends(v) <=> 1 <= i /\ k + i \in Ends(u)
  <2> TAKE i \in Int
  <2>1. i \in Ends(v) <=> i \in 1 .. n - k /\ v[i] = NL
    BY <1>2 DEF Ends
  <2>2. k + i \in Ends(u) <=> k + i \in 1 .. n /\ u[k + i] = NL
    BY DEF Ends
  <2> HIDE DEF n
  <2>3. 1 <= i => (i \in 1 .. n - k <=> k + i \in 1 .. n)
    BY <1>1
  <2>4. i \in 1 .. n - k => 1 <= i /\ v[i] = u[k + i]
    BY <1>2
  <2> QED BY <2>1, <2>2, <2>3, <2>4
<1>4. IsFiniteSet(Ends(v)) /\ Cardinality(Ends(v)) \in Nat /\ \A e \in Ends(v) : e \in Nat /\ 1 <= e /\ e <= n - k
  BY <1>2, EndsFacts
\* The ends of v and those of u behind k.
<1>5. ASSUME NEW e \in Nat, 1 <= e
      PROVE  EndsBefore(u, k + e) = {k} \cup {a + k : a \in EndsBefore(v, e)}
  <2>1. ASSUME NEW x \in EndsBefore(u, k + e) PROVE x \in {k} \cup {a + k : a \in EndsBefore(v, e)}
    <3>1. x \in Ends(u) /\ x < k + e /\ k <= x /\ x \in Nat
      BY <1>1 DEF EndsBefore
    <3>2. CASE x = k
      BY <3>2
    <3>3. CASE x # k
      <4> DEFINE a == x - k
      <4>1. a \in Int /\ 1 <= a /\ k + a = x /\ a + k = x /\ a < e
        BY <1>1, <3>1, <3>3
      <4> HIDE DEF a
      <4>2. a \in Ends(v)
        BY <1>3, <3>1, <4>1
      <4>3. a \in EndsBefore(v, e)
        BY <4>1, <4>2 DEF EndsBefore
      <4> QED BY <4>1, <4>3
    <3> QED BY <3>2, <3>3
  <2>2. k \in EndsBefore(u, k + e)
    <3>1. k < k + e
      BY <1>1, <1>5
    <3> QED BY <3>1 DEF EndsBefore
  <2>3. ASSUME NEW a \in EndsBefore(v, e) PROVE a + k \in EndsBefore(u, k + e)
    <3>1. a \in Ends(v) /\ a < e
      BY DEF EndsBefore
    <3>2. a \in Nat /\ 1 <= a
      BY <1>4, <3>1
    <3>3. a \in Int /\ k + a = a + k /\ a + k < k + e
      BY <1>1, <3>1, <3>2
    <3>4. a + k \in Ends(u)
      BY <1>3, <3>1, <3>3
    <3> QED BY <3>3, <3>4 DEF EndsBefore
  <2> QED BY <2>1, <2>2, <2>3
<1>6. Ends(u) = {k} \cup {a + k : a \in Ends(v)}
  <2>1. EndsBefore(u, k + (n + 1)) = Ends(u)
    <3>1. \A x \in Ends(u) : x < k + (n + 1)
      BY <1>1
    <3> QED BY <3>1 DEF EndsBefore
  <2>2. EndsBefore(v, n + 1) = Ends(v)
    <3>1. \A x \in Ends(v) : x < n + 1
      BY <1>1, <1>4
    <3> QED BY <3>1 DEF EndsBefore
  <2>3. n + 1 \in Nat /\ 1 <= n + 1
    BY <1>1
  <2> HIDE DEF n
  <2> QED BY <1>5, <2>1, <2>2, <2>3
<1>7. ASSUME NEW T \in SUBSET Ends(v)
      PROVE  /\ Cardinality({k} \cup {a + k : a \in T}) = Cardinality(T) + 1
             /\ Max({0} \cup ({k} \cup {a + k : a \in T})) = k + Max({0} \cup T)
             /\ Max({0} \cup T) \in Nat /\ Max({0} \cup T) <= n - k
  <2> DEFINE A == {a + k : a \in T}
             x == Max({0} \cup T)
  <2>0. T \in SUBSET Nat /\ IsFiniteSet(T) /\ x \in {0} \cup T /\ (\A y \in T : y <= x) /\ Cardinality(T) \in Nat
    BY <1>2, EndsFacts
  <2>1. IsFiniteSet(A) /\ Cardinality(A) = Cardinality(T)
    BY <1>1, <2>0, ShiftedSet
  <2>2. \A b \in A : b \in Nat /\ b # k
    BY <1>1, <1>4
  <2>3. Cardinality(A \cup {k}) = Cardinality(A) + 1 /\ A \cup {k} = {k} \cup A
    BY <2>1, <2>2, Counting
  <2>4. x \in Nat /\ x <= n - k
    <3>1. CASE x = 0
      BY <1>1, <3>1
    <3>2. CASE x \in T
      BY <1>4, <3>2
    <3> QED BY <2>0, <3>1, <3>2
  <2> HIDE DEF x
  <2>5. k + x \in {0} \cup ({k} \cup A)
    <3>1. CASE x = 0
      BY <1>1, <3>1
    <3>2. CASE x # 0
      <4>1. x \in T /\ x + k = k + x
        BY <1>1, <2>0, <2>4, <3>2
      <4> QED BY <4>1
    <3> QED BY <3>1, <3>2
  <2>6. \A y \in {0} \cup ({k} \cup A) : y <= k + x /\ y \in Int
    <3>1. ASSUME NEW a \in T PROVE a + k <= k + x /\ a + k \in Int
      <4>1. a <= x /\ a \in Nat
        BY <2>0
      <4> QED BY <1>1, <2>4, <4>1
    <3>2. 0 <= k + x /\ k <= k + x /\ k \in Int /\ 0 \in Int
      BY <1>1, <2>4
    <3> QED BY <3>1, <3>2
  <2> HIDE DEF A
  <2>7. {0} \cup ({k} \cup A) \in SUBSET Int
    BY <2>6
  <2>8. Max({0} \cup ({k} \cup A)) = k + x
    BY <2>5, <2>6, <2>7, MaxIs
  <2> QED BY <2>1, <2>3, <2>4, <2>8 DEF A, x
<1>8. Cardinality(Ends(v)) = m - 1
  <2>1. m = Cardinality(Ends(v)) + 1
    BY <1>6, <1>7
  <2> QED BY <1>1, <1>4, <2>1
<1>9. ASSUME NEW a \in Nat, 1 <= a, NEW b \in Int, b <= n - k
      PROVE  SubSeq(v, a, b) = SubSeq(u, k + a, k + b)
  <2>1. k \in 0 .. Len(u)
    BY <1>1
  <2> QED BY <1>9, <2>1, PieceOfSuffix DEF v
<1>10. Rest(v) = Rest(u)
  <2> DEFINE x == Max({0} \cup Ends(v))
  <2>1. x \in Nat /\ x <= n - k /\ Max({0} \cup Ends(u)) = k + x
    BY <1>6, <1>7
  <2> HIDE DEF x, n
  <2>2. x + 1 \in Nat /\ 1 <= x + 1 /\ n - k \in Int /\ n - k <= n - k /\ k + (x + 1) = (k + x) + 1 /\ k + (n - k) = n
    BY <1>1, <2>1
  <2>3. SubSeq(v, x + 1, n - k) = SubSeq(u, (k + x) + 1, n)
    BY <1>9, <2>2
  <2> QED BY <1>2, <2>1, <2>3 DEF Rest, x, n
<1>11. ASSUME NEW e \in Ends(v) PROVE LineAt(u, k + e) = LineAt(v, e)
  <2> DEFINE x == Max({0} \cup EndsBefore(v, e))
  <2>1. e \in Nat /\ 1 <= e /\ e <= n - k /\ EndsBefore(v, e) \in SUBSET Ends(v)
    BY <1>4 DEF EndsBefore
  <2>2. x \in Nat /\ Max({0} \cup EndsBefore(u, k + e)) = k + x
    BY <1>5, <1>7, <2>1
  <2> HIDE DEF x, n
  <2>3. x + 1 \in Nat /\ 1 <= x + 1 /\ e - 1 \in Int /\ e - 1 <= n - k
        /\ k + (x + 1) = (k + x) + 1 /\ k + (e - 1) = (k + e) - 1
    BY <1>1, <2>1, <2>2
  <2>4. SubSeq(v, x + 1, e - 1) = SubSeq(u, (k + x) + 1, (k + e) - 1)
    BY <1>9, <2>3
  <2> QED BY <2>2, <2>4 DEF LineAt, x
<1>12. LinesOf(u) \in Seq(Seq(S)) /\ Len(LinesOf(u)) = m /\ m >= 1
       /\ \A j \in 1 .. m : LinesOf(u)[j] = LineAt(u, EndNo(u, j))
  <2>1. m >= 1
    BY <1>1, Counting
  <2> QED BY <2>1, LinesType
<1>13. LinesOf(u) # <<>> /\ Head(LinesOf(u)) = SubSeq(u, 1, k - 1)
  <2>1. EndsBefore(u, k) = {}
    <3>1. \A e \in Ends(u) : ~(e < k)
      BY <1>1
    <3> QED BY <3>1 DEF EndsBefore
  <2>2. Cardinality(EndsBefore(u, k)) = 1 - 1 /\ 1 \in Int
    BY <2>1, FS_EmptySet
  <2>3. EndNo(u, 1) = k
    BY <2>2, EndsInOrder
  <2>4. Max({0} \cup {}) = 0
    <3>1. {0} \cup {} \in SUBSET Int /\ 0 \in {0} \cup {} /\ \A y \in {0} \cup {} : y <= 0
      OBVIOUS
    <3> QED BY <3>1, MaxIs
  <2>5. LineAt(u, k) = SubSeq(u, 1, k - 1)
    <3>1. Max({0} \cup EndsBefore(u, k)) + 1 = 1
      BY <2>1, <2>4
    <3> QED BY <3>1 DEF LineAt
  <2> HIDE DEF m
  <2>6. 1 \in 1 .. m
    BY <1>1, <1>12
  <2>7. LinesOf(u)[1] = SubSeq(u, 1, k - 1)
    BY <1>12, <2>3, <2>5, <2>6
  <2>8. LinesOf(u) # <<>>
    BY <1>1, <1>12
  <2>9. Head(LinesOf(u)) = LinesOf(u)[1]
    BY <1>12, <2>8
  <2> QED BY <2>7, <2>8, <2>9
<1>14. Tail(LinesOf(u)) = LinesOf(v)
  <2> DEFINE T == Tail(LinesOf(u))
             V == LinesOf(v)
  <2>1. V \in Seq(Seq(S)) /\ Len(V) = m - 1 /\ \A j \in 1 .. m - 1 : V[j] = LineAt(v, EndNo(v, j))
    BY <1>2, <1>8, LinesType
  <2>2. T \in Seq(Seq(S)) /\ Len(T) = m - 1 /\ \A j \in 1 .. m - 1 : T[j] = LinesOf(u)[j + 1]
    <3>1. Len(T) = Len(LinesOf(u)) - 1 /\ T \in Seq(Seq(S)) /\ \A j \in 1 .. Len(T) : T[j] = LinesOf(u)[j + 1]
      BY <1>12, <1>13, HeadTailProperties
    <3> QED BY <1>12, <3>1
  <2> HIDE DEF T, V
  <2>3. ASSUME NEW j \in 1 .. m - 1 PROVE T[j] = V[j]
    <3> DEFINE e == EndNo(v, j)
    <3>1. e \in Ends(v) /\ Cardinality(EndsBefore(v, e)) = j - 1
      BY <1>2, <1>8, EndsInOrder
    <3> HIDE DEF e
    <3>2. e \in Nat /\ 1 <= e /\ EndsBefore(v, e) \in SUBSET Ends(v)
      BY <1>4, <3>1 DEF EndsBefore
    <3>3. Cardinality(EndsBefore(u, k + e)) = (j + 1) - 1 /\ j + 1 \in Int /\ j + 1 \in 1 .. m
      <4>1. Cardinality(EndsBefore(u, k + e)) = (j - 1) + 1
        BY <1>5, <1>7, <3>1, <3>2
      <4> HIDE DEF m
      <4>2. (j - 1) + 1 = (j + 1) - 1 /\ j + 1 \in Int /\ j + 1 \in 1 .. m
        BY <1>1
      <4> QED BY <4>1, <4>2 DEF m
    <3>4. k + e \in Ends(u)
      BY <1>3, <3>1, <3>2
    <3>5. EndNo(u, j + 1) = k + e
      BY <3>3, <3>4, EndsInOrder
    <3>6. LinesOf(u)[j + 1] = LineAt(u, k + e)
      BY <1>12, <3>3, <3>5
    <3>7. V[j] = LineAt(v, e)
      BY <2>1 DEF e
    <3> QED BY <1>11, <2>2, <3>1, <3>6, <3>7
  <2>4. T = V
    <3>1. \A j \in 1 .. Len(T) : T[j] = V[j]
      BY <2>2, <2>3
    <3> QED BY <2>1, <2>2, <3>1, SeqEqual
  <2> QED BY <2>4 DEF T, V
<1> QED BY <1>2, <1>8, <1>10, <1>13, <1>14 DEF v


-----------------------------------------------------------------------------
(* The ring. *)

AllChars == Chars \cup {NL, NUL}

LEMMA Modulo ==
  ASSUME NEW x \in Int
  PROVE  /\ x % BUFF_SIZE \in 0 .. BUFF_SIZE - 1
         /\ 0 <= x /\ x < BUFF_SIZE => x % BUFF_SIZE = x
         /\ BUFF_SIZE <= x /\ x < BUFF_SIZE + BUFF_SIZE => x % BUFF_SIZE = x - BUFF_SIZE
         /\ 0 - BUFF_SIZE <= x /\ x < 0 => x % BUFF_SIZE = x + BUFF_SIZE
BY BUFF_SIZEAssumption

\* The type invariant holds whatever the user does.
LEMMA TypeInit == Init => TypeOK
BY DEF Init, TypeOK, Cells

LEMMA LineLengthType ==
  \A other : LineLength(other) \in 0 .. ReadSize - 1
<1> TAKE other
<1> DEFINE I == {i \in 0..(ReadSize - 1) : i = ReadSize - 1 \/ CellAt(After(i), other) = NL}
<1>1. I \in SUBSET Nat /\ ReadSize - 1 \in I
  BY ReadSizeAssumption
<1> HIDE DEF I
<1>2. Min(I) \in I
  BY <1>1, MinOfSet
<1> QED BY <1>2 DEF LineLength, I

LEMMA StoredType ==
  ASSUME NEW buff \in [Cells -> AllChars], NEW i, NEW c \in AllChars
  PROVE  Stored(buff, i, c) \in [Cells -> AllChars]
BY DEF Stored

LEMMA TypeStep == TypeOK /\ [Next]_vars => TypeOK'
<1> SUFFICES ASSUME TypeOK, [Next]_vars PROVE TypeOK'
  OBVIOUS
<1>1. /\ term_buff \in [Cells -> AllChars]
      /\ r_buff_ptr \in Nat /\ w_buff_ptr \in Int /\ terminal_line_count \in Nat
      /\ buffer \in Seq(AllChars)
  BY DEF TypeOK, AllChars
<1>2. NL \in AllChars /\ NUL \in AllChars /\ \A c \in Chars : c \in AllChars
  BY DEF AllChars
<1>3. \A w \in Int : wrapped(w) \in Int
  <2> TAKE w \in Int
  <2>1. w % BUFF_SIZE \in Int
    BY Modulo, BUFF_SIZEAssumption
  <2> QED BY <2>1 DEF wrapped
<1>4. ASSUME NEW c \in Chars, TypeChar(c) PROVE TypeOK'
  <2>1. term_buff' \in [Cells -> AllChars]
    BY <1>1, <1>2, <1>4, StoredType DEF TypeChar
  <2>2. w_buff_ptr' \in Int
    BY <1>1, <1>3, <1>4 DEF TypeChar
  <2> QED BY <1>1, <1>4, <2>1, <2>2 DEF TypeChar, TypeOK, AllChars
<1>5. CASE Enter
  <2>1. term_buff' \in [Cells -> AllChars]
    BY <1>1, <1>2, <1>5, StoredType DEF Enter
  <2>2. w_buff_ptr' \in Int
    <3>1. wrapped(w_buff_ptr) + 1 \in Int
      BY <1>1, <1>3
    <3> QED BY <1>3, <1>5, <3>1 DEF Enter
  <2>3. terminal_line_count' \in Nat
    BY <1>1, <1>5 DEF Enter
  <2> QED BY <1>1, <1>5, <2>1, <2>2, <2>3 DEF Enter, TypeOK, AllChars
<1>6. CASE Erase
  <2> DEFINE x == wrapped(w_buff_ptr) + 1
  <2>1. term_buff' = Stored(Stored(term_buff, x, NUL), x - 1, NUL) /\ w_buff_ptr' = x - 2
    BY <1>6 DEF Erase, dec_term
  <2>2. x - 2 \in Int
    BY <1>1, <1>3
  <2>3. term_buff' \in [Cells -> AllChars]
    BY <1>1, <1>2, <2>1, StoredType
  <2> QED BY <1>1, <1>6, <2>1, <2>2, <2>3 DEF Erase, TypeOK, AllChars
<1>7. ASSUME NEW other \in Chars \cup {NUL}, read_buffer(other) PROVE TypeOK'
  <2> DEFINE n == LineLength(other)
  <2>1. n \in Nat
    BY LineLengthType
  <2>2. /\ buffer' = copied(n, other) /\ r_buff_ptr' = past_newline(After(n))
        /\ terminal_line_count' = terminal_line_count - 1 /\ terminal_line_count # 0
        /\ term_buff' = term_buff /\ w_buff_ptr' = w_buff_ptr
    BY <1>7 DEF read_buffer
  <2> HIDE DEF n
  <2>3. \A i \in Nat : After(i) \in Nat
    <3> TAKE i \in Nat
    <3>1. r_buff_ptr + i \in Int
      BY <1>1
    <3>2. (r_buff_ptr + i) % BUFF_SIZE \in Nat
      BY <3>1, Modulo
    <3> QED BY <1>1, <3>2 DEF After
  <2>4. r_buff_ptr' \in Nat
    <3>1. After(n) \in Nat
      BY <2>1, <2>3
    <3> QED BY <2>2, <3>1 DEF past_newline
  <2>5. \A x : CellAt(x, other) \in AllChars
    BY <1>1 DEF CellAt, AllChars
  <2>6. buffer' \in Seq(AllChars)
    <3>1. copied(n, other) \in [1 .. n -> AllChars]
      BY <2>5 DEF copied
    <3> QED BY <2>1, <2>2, <3>1
  <2>7. terminal_line_count' \in Nat
    BY <1>1, <2>2
  <2> QED BY <1>1, <2>2, <2>4, <2>6, <2>7 DEF TypeOK, AllChars
<1>8. CASE UNCHANGED vars
  BY <1>8 DEF vars, TypeOK
<1> QED BY <1>4, <1>5, <1>6, <1>7, <1>8 DEF Next

\* Even without any limit on the user, the read position and the counter of
\* lines never become negative, and what a read hands out are characters.
THEOREM TypeCorrect == Spec => []TypeOK
BY TypeInit, TypeStep, PTL DEF Spec

-----------------------------------------------------------------------------
(* The unread characters as a sequence. *)

UnreadOf(buff, r, w) ==
  [i \in 1 .. (w - r) % BUFF_SIZE |-> buff[(r + i - 1) % BUFF_SIZE]]

\* Their number, and the cell that holds each.
LEMMA RingArithmetic ==
  ASSUME NEW r \in Cells, NEW w \in 0 .. BUFF_SIZE, NEW x \in Cells, x = w % BUFF_SIZE
  PROVE  /\ (w - r) % BUFF_SIZE = IF r <= x THEN x - r ELSE x - r + BUFF_SIZE
         /\ \A i \in 0 .. BUFF_SIZE - 1 :
              (r + i) % BUFF_SIZE = IF r + i < BUFF_SIZE THEN r + i ELSE r + i - BUFF_SIZE
         /\ x = IF w = BUFF_SIZE THEN 0 ELSE w
<1>1. BUFF_SIZE \in Nat /\ BUFF_SIZE >= 2 /\ r \in Nat /\ r < BUFF_SIZE /\ w \in Nat /\ w <= BUFF_SIZE
  BY BUFF_SIZEAssumption DEF Cells
<1>2. x = IF w = BUFF_SIZE THEN 0 ELSE w
  BY <1>1, Modulo
<1>3. \A i \in 0 .. BUFF_SIZE - 1 :
        (r + i) % BUFF_SIZE = IF r + i < BUFF_SIZE THEN r + i ELSE r + i - BUFF_SIZE
  BY <1>1, Modulo
<1>4. (w - r) % BUFF_SIZE = IF r <= x THEN x - r ELSE x - r + BUFF_SIZE
  <2>1. w - r \in Int
    BY <1>1
  <2>2. CASE w = BUFF_SIZE /\ r = 0
    <3>1. w - r = BUFF_SIZE
      BY <1>1, <2>2
    <3> QED BY <1>1, <1>2, <2>1, <2>2, <3>1, Modulo
  <2>3. CASE w = BUFF_SIZE /\ r # 0
    <3>1. 0 <= w - r /\ w - r < BUFF_SIZE /\ x = 0 /\ ~(r <= x) /\ w - r = x - r + BUFF_SIZE
      BY <1>1, <1>2, <2>3
    <3> QED BY <2>1, <3>1, Modulo
  <2>4. CASE w # BUFF_SIZE /\ r <= w
    <3>1. 0 <= w - r /\ w - r < BUFF_SIZE /\ x = w
      BY <1>1, <1>2, <2>4
    <3> QED BY <2>1, <2>4, <3>1, Modulo
  <2>5. CASE w # BUFF_SIZE /\ ~(r <= w)
    <3>1. w - r < 0 /\ 0 - BUFF_SIZE <= w - r /\ x = w
      BY <1>1, <1>2, <2>5
    <3> QED BY <2>1, <2>5, <3>1, Modulo
  <2> QED BY <2>2, <2>3, <2>4, <2>5
<1> QED BY <1>2, <1>3, <1>4


LEMMA UnreadType ==
  ASSUME NEW buff \in [Cells -> AllChars], NEW r \in Cells, NEW w \in 0 .. BUFF_SIZE
  PROVE  /\ UnreadOf(buff, r, w) \in Seq(AllChars)
         /\ Len(UnreadOf(buff, r, w)) = (w - r) % BUFF_SIZE
         /\ (w - r) % BUFF_SIZE \in 0 .. BUFF_SIZE - 1
         /\ \A i \in 1 .. (w - r) % BUFF_SIZE :
              UnreadOf(buff, r, w)[i] = buff[(r + i - 1) % BUFF_SIZE]
<1> DEFINE n == (w - r) % BUFF_SIZE
           u == UnreadOf(buff, r, w)
<1>1. n \in 0 .. BUFF_SIZE - 1
  BY Modulo, BUFF_SIZEAssumption DEF Cells
<1>2. u = [i \in 1 .. n |-> buff[(r + i - 1) % BUFF_SIZE]]
  BY DEF UnreadOf
<1> HIDE DEF n
<1>3. \A i \in 1 .. n : (r + i - 1) % BUFF_SIZE \in Cells
  <2> TAKE i \in 1 .. n
  <2>1. r + i - 1 \in Int
    BY <1>1, BUFF_SIZEAssumption DEF Cells
  <2> QED BY <2>1, Modulo DEF Cells
<1>4. u \in [1 .. n -> AllChars]
  BY <1>2, <1>3
<1> HIDE DEF u
<1>5. u \in Seq(AllChars) /\ Len(u) = n
  BY <1>1, <1>4, BUFF_SIZEAssumption
<1> QED BY <1>1, <1>2, <1>5 DEF n, u

\* A character is stored at the write position.
LEMMA CharacterStored ==
  ASSUME NEW buff \in [Cells -> AllChars], NEW r \in Cells, NEW w \in 0 .. BUFF_SIZE,
         NEW x \in Cells, x = w % BUFF_SIZE, NEW c \in AllChars,
         (w - r) % BUFF_SIZE < BUFF_SIZE - 1
  PROVE  UnreadOf(Stored(buff, x, c), r, x + 1) = Append(UnreadOf(buff, r, w), c)
<1> DEFINE n == (w - r) % BUFF_SIZE
           nn == ((x + 1) - r) % BUFF_SIZE
           u == UnreadOf(buff, r, w)
           b == Stored(buff, x, c)
           v == UnreadOf(b, r, x + 1)
           a == Append(u, c)
<1>0. BUFF_SIZE \in Nat /\ BUFF_SIZE >= 2 /\ r \in Nat /\ r < BUFF_SIZE /\ x \in Nat /\ x < BUFF_SIZE
      /\ x + 1 \in 0 .. BUFF_SIZE
  BY BUFF_SIZEAssumption DEF Cells
<1>1. n = (IF r <= x THEN x - r ELSE x - r + BUFF_SIZE) /\ n < BUFF_SIZE - 1
      /\ \A i \in 0 .. BUFF_SIZE - 1 :
           (r + i) % BUFF_SIZE = IF r + i < BUFF_SIZE THEN r + i ELSE r + i - BUFF_SIZE
  BY RingArithmetic
<1>2. nn = n + 1
  <2>1. (x + 1) - r \in Int
    BY <1>0
  <2>2. CASE r <= x
    <3>1. 0 <= (x + 1) - r /\ (x + 1) - r < BUFF_SIZE /\ (x + 1) - r = n + 1
      BY <1>0, <1>1, <2>2
    <3> QED BY <2>1, <3>1, Modulo
  <2>3. CASE ~(r <= x)
    <3>1. (x + 1) - r < 0 /\ 0 - BUFF_SIZE <= (x + 1) - r /\ (x + 1) - r + BUFF_SIZE = n + 1
      BY <1>0, <1>1, <2>3
    <3> QED BY <2>1, <3>1, Modulo
  <2> QED BY <2>2, <2>3
<1>3. u \in Seq(AllChars) /\ Len(u) = n /\ n \in Nat
      /\ \A i \in 1 .. n : u[i] = buff[(r + i - 1) % BUFF_SIZE]
  BY UnreadType
<1>4. b \in [Cells -> AllChars] /\ b[x] = c /\ \A j \in Cells : j # x => b[j] = buff[j]
  BY StoredType DEF Stored
<1> HIDE DEF b
<1>5. v \in Seq(AllChars) /\ Len(v) = n + 1 /\ \A i \in 1 .. n + 1 : v[i] = b[(r + i - 1) % BUFF_SIZE]
  <2>1. x + 1 \in 0 .. BUFF_SIZE
    BY <1>0
  <2>2. v \in Seq(AllChars) /\ Len(v) = nn /\ \A i \in 1 .. nn : v[i] = b[(r + i - 1) % BUFF_SIZE]
    BY <1>4, <2>1, UnreadType
  <2> HIDE DEF v, n, nn
  <2> QED BY <1>2, <2>2
<1> HIDE DEF n, nn, u, v
<1>6. a \in Seq(AllChars) /\ Len(a) = n + 1 /\ (\A i \in 1 .. n : a[i] = u[i]) /\ a[n + 1] = c
  BY <1>3, AppendProperties
<1> HIDE DEF a
<1>7. ASSUME NEW i \in 1 .. n + 1 PROVE v[i] = a[i]
  <2> DEFINE d == (r + i - 1) % BUFF_SIZE
  <2>1. i - 1 \in 0 .. BUFF_SIZE - 1 /\ r + (i - 1) = r + i - 1
    BY <1>0, <1>1, <1>3
  <2>2. d = IF r + i - 1 < BUFF_SIZE THEN r + i - 1 ELSE r + i - 1 - BUFF_SIZE
    <3> DEFINE j == i - 1
    <3>1. j \in 0 .. BUFF_SIZE - 1 /\ r + j = r + i - 1
      BY <2>1
    <3> HIDE DEF j
    <3>2. (r + j) % BUFF_SIZE = IF r + j < BUFF_SIZE THEN r + j ELSE r + j - BUFF_SIZE
      BY <1>1, <3>1
    <3> QED BY <3>1, <3>2
  <2>3. v[i] = b[d]
    BY <1>5
  <2>4. i <= n => u[i] = buff[d]
    BY <1>3
  <2> HIDE DEF d
  <2>5. CASE i = n + 1
    <3>1. d = x
      BY <1>0, <1>1, <1>3, <2>2, <2>5
    <3> QED BY <1>4, <1>6, <2>3, <2>5, <3>1
  <2>6. CASE i # n + 1
    <3>1. i \in 1 .. n /\ i <= n
      BY <1>3, <2>6
    <3>2. d # x /\ d \in Cells
      BY <1>0, <1>1, <2>2, <3>1 DEF Cells
    <3> QED BY <1>4, <1>6, <2>3, <2>4, <3>1, <3>2
  <2> QED BY <2>5, <2>6
<1>8. v = a
  BY <1>5, <1>6, <1>7, SeqEqual
<1> QED BY <1>8 DEF v, a, u, b

\* Control-h takes the last character away.
LEMMA CharacterErased ==
  ASSUME NEW buff \in [Cells -> AllChars], NEW r \in Cells, NEW w \in 1 .. BUFF_SIZE - 1,
         (w - r) % BUFF_SIZE < BUFF_SIZE - 1, 1 <= (w - r) % BUFF_SIZE
  PROVE  \E c \in AllChars :
           UnreadOf(buff, r, w) =
             Append(UnreadOf(Stored(Stored(buff, w + 1, NUL), w, NUL), r, w - 1), c)
<1> DEFINE n == (w - r) % BUFF_SIZE
           nn == ((w - 1) - r) % BUFF_SIZE
           u == UnreadOf(buff, r, w)
           b == Stored(Stored(buff, w + 1, NUL), w, NUL)
           v == UnreadOf(b, r, w - 1)
           c == u[n]
           a == Append(v, c)
<1>0. BUFF_SIZE \in Nat /\ BUFF_SIZE >= 2 /\ r \in Nat /\ r < BUFF_SIZE /\ w \in Nat /\ 1 <= w /\ w < BUFF_SIZE
      /\ w \in 0 .. BUFF_SIZE /\ w \in Cells /\ w - 1 \in 0 .. BUFF_SIZE /\ w = w % BUFF_SIZE
  <2>1. BUFF_SIZE \in Nat /\ BUFF_SIZE >= 2 /\ r \in Nat /\ r < BUFF_SIZE /\ w \in Nat /\ 1 <= w /\ w < BUFF_SIZE
    BY BUFF_SIZEAssumption DEF Cells
  <2>2. w \in Int /\ 0 <= w
    BY <2>1
  <2>3. w % BUFF_SIZE = w
    BY <2>1, <2>2, Modulo
  <2>4. w \in 0 .. BUFF_SIZE /\ w \in Cells /\ w - 1 \in 0 .. BUFF_SIZE
    BY ONLY <2>1 DEF Cells
  <2> QED BY <2>1, <2>3, <2>4
<1>1. n = (IF r <= w THEN w - r ELSE w - r + BUFF_SIZE) /\ n < BUFF_SIZE - 1 /\ 1 <= n
      /\ \A i \in 0 .. BUFF_SIZE - 1 :
           (r + i) % BUFF_SIZE = IF r + i < BUFF_SIZE THEN r + i ELSE r + i - BUFF_SIZE
  <2>1. w \in 0 .. BUFF_SIZE /\ w \in Cells /\ w = w % BUFF_SIZE
    BY <1>0
  <2>2. \A x \in Cells : x = w % BUFF_SIZE =>
          /\ (w - r) % BUFF_SIZE = IF r <= x THEN x - r ELSE x - r + BUFF_SIZE
          /\ \A i \in 0 .. BUFF_SIZE - 1 :
              (r + i) % BUFF_SIZE = IF r + i < BUFF_SIZE THEN r + i ELSE r + i - BUFF_SIZE
    BY <2>1, RingArithmetic
  <2>3. n < BUFF_SIZE - 1 /\ 1 <= n
    OBVIOUS
  <2> QED BY <2>1, <2>2, <2>3
<1>2. nn = n - 1
  <2>1. (w - 1) - r \in Int
    BY <1>0
  <2>2. CASE r <= w
    <3>1. 0 <= (w - 1) - r /\ (w - 1) - r < BUFF_SIZE /\ (w - 1) - r = n - 1
      BY <1>0, <1>1, <2>2
    <3> QED BY <2>1, <3>1, Modulo
  <2>3. CASE ~(r <= w)
    <3>1. (w - 1) - r < 0 /\ 0 - BUFF_SIZE <= (w - 1) - r /\ (w - 1) - r + BUFF_SIZE = n - 1
      BY <1>0, <1>1, <2>3
    <3> QED BY <2>1, <3>1, Modulo
  <2> QED BY <2>2, <2>3
<1>3. u \in Seq(AllChars) /\ Len(u) = n /\ n \in Nat
      /\ \A i \in 1 .. n : u[i] = buff[(r + i - 1) % BUFF_SIZE]
  <2>1. w \in 0 .. BUFF_SIZE
    BY <1>0
  <2>2. u \in Seq(AllChars) /\ Len(u) = n /\ n \in 0 .. BUFF_SIZE - 1
        /\ \A i \in 1 .. n : u[i] = buff[(r + i - 1) % BUFF_SIZE]
    BY <2>1, UnreadType
  <2> HIDE DEF u, n
  <2> QED BY <2>2
<1>4. b \in [Cells -> AllChars] /\ \A j \in Cells : j # w /\ j # w + 1 => b[j] = buff[j]
  <2>1. NUL \in AllChars
    BY DEF AllChars
  <2>2. Stored(buff, w + 1, NUL) \in [Cells -> AllChars]
    BY <2>1, StoredType
  <2>3. b \in [Cells -> AllChars]
    BY <2>1, <2>2, StoredType
  <2> QED BY <2>3 DEF Stored
<1> HIDE DEF b
<1>5. v \in Seq(AllChars) /\ Len(v) = n - 1 /\ \A i \in 1 .. n - 1 : v[i] = b[(r + i - 1) % BUFF_SIZE]
  <2>1. w - 1 \in 0 .. BUFF_SIZE
    BY <1>0
  <2>2. v \in Seq(AllChars) /\ Len(v) = nn /\ \A i \in 1 .. nn : v[i] = b[(r + i - 1) % BUFF_SIZE]
    BY <1>4, <2>1, UnreadType
  <2> HIDE DEF v, n, nn
  <2> QED BY <1>2, <2>2
<1> HIDE DEF n, nn, u, v
<1>6. c \in AllChars
  <2>1. n \in 1 .. Len(u)
    BY <1>1, <1>3
  <2> QED BY <1>3, <2>1
<1> HIDE DEF c
<1>7. a \in Seq(AllChars) /\ Len(a) = n /\ (\A i \in 1 .. n - 1 : a[i] = v[i]) /\ a[n] = c
  <2>1. a \in Seq(AllChars) /\ Len(a) = Len(v) + 1 /\ (\A i \in 1 .. Len(v) : a[i] = v[i]) /\ a[Len(v) + 1] = c
    BY <1>5, <1>6, AppendProperties
  <2>2. Len(v) + 1 = n
    BY <1>3, <1>5
  <2> QED BY <1>5, <2>1, <2>2
<1> HIDE DEF a
<1>8. ASSUME NEW i \in 1 .. n PROVE u[i] = a[i]
  <2> DEFINE d == (r + i - 1) % BUFF_SIZE
  <2>1. i - 1 \in 0 .. BUFF_SIZE - 1 /\ r + (i - 1) = r + i - 1
    BY <1>0, <1>1, <1>3
  <2>2. d = IF r + i - 1 < BUFF_SIZE THEN r + i - 1 ELSE r + i - 1 - BUFF_SIZE
    <3> DEFINE j == i - 1
    <3>1. j \in 0 .. BUFF_SIZE - 1 /\ r + j = r + i - 1
      BY <2>1
    <3> HIDE DEF j
    <3>2. (r + j) % BUFF_SIZE = IF r + j < BUFF_SIZE THEN r + j ELSE r + j - BUFF_SIZE
      BY <1>1, <3>1
    <3>3. d = (r + j) % BUFF_SIZE
      BY <3>1
    <3> HIDE DEF d
    <3>4. r \in Int /\ i \in Int /\ j \in Int /\ BUFF_SIZE \in Int
      BY <1>0, <3>1
    <3>5. CASE r + j < BUFF_SIZE
      BY ONLY <3>1, <3>2, <3>3, <3>4, <3>5
    <3>6. CASE ~(r + j < BUFF_SIZE)
      BY ONLY <3>1, <3>2, <3>3, <3>4, <3>6
    <3> QED BY ONLY <3>5, <3>6
  <2>3. u[i] = buff[d]
    BY <1>3
  <2>4. i \in 1 .. n - 1 => v[i] = b[d]
    BY <1>5
  <2> HIDE DEF d
  <2>5. CASE i = n
    BY <1>7, <2>5 DEF c
  <2>6. CASE i # n
    <3>1. i \in 1 .. n - 1
      BY <1>3, <2>6
    <3>2. d # w /\ d # w + 1 /\ d \in Cells
      BY <1>0, <1>1, <1>3, <2>2, <3>1 DEF Cells
    <3> QED BY <1>4, <1>7, <2>3, <2>4, <3>1, <3>2
  <2> QED BY <2>5, <2>6
<1>9. u = a
  BY <1>3, <1>7, <1>8, SeqEqual
<1> QED BY <1>6, <1>9 DEF v, a, u, b

\* A read moves the read position behind the k-th character.
LEMMA CharactersRead ==
  ASSUME NEW buff \in [Cells -> AllChars], NEW r \in Cells, NEW w \in 0 .. BUFF_SIZE,
         NEW k \in 1 .. (w - r) % BUFF_SIZE, NEW p \in Cells, p = (r + k - 1) % BUFF_SIZE,
         p # BUFF_SIZE - 1
  PROVE  /\ p + 1 \in Cells
         /\ UnreadOf(buff, p + 1, w) =
              SubSeq(UnreadOf(buff, r, w), k + 1, Len(UnreadOf(buff, r, w)))
<1> DEFINE n == (w - r) % BUFF_SIZE
           q == p + 1
           nn == (w - q) % BUFF_SIZE
           x == w % BUFF_SIZE
           u == UnreadOf(buff, r, w)
           v == UnreadOf(buff, q, w)
           a == SubSeq(u, k + 1, n)
<1>0. BUFF_SIZE \in Nat /\ BUFF_SIZE >= 2 /\ r \in Nat /\ r < BUFF_SIZE /\ w \in Nat /\ w <= BUFF_SIZE
      /\ p \in Nat /\ p < BUFF_SIZE /\ k \in Nat /\ 1 <= k
  BY BUFF_SIZEAssumption, Modulo DEF Cells
<1>1. q \in Cells /\ q \in Nat /\ q < BUFF_SIZE
  BY <1>0 DEF Cells
<1>2. x \in Cells /\ x \in Nat /\ x < BUFF_SIZE
  <2>1. x \in 0 .. BUFF_SIZE - 1
    BY <1>0, Modulo
  <2> HIDE DEF x
  <2> QED BY <1>0, <2>1 DEF Cells
<1>3. n \in Nat /\ n < BUFF_SIZE /\ k <= n
  BY <1>0, Modulo
<1>4. u \in Seq(AllChars) /\ Len(u) = n /\ \A i \in 1 .. n : u[i] = buff[(r + i - 1) % BUFF_SIZE]
  BY UnreadType
<1>5. v \in Seq(AllChars) /\ Len(v) = nn /\ \A i \in 1 .. nn : v[i] = buff[(q + i - 1) % BUFF_SIZE]
  BY <1>1, UnreadType
<1>6. n = (IF r <= x THEN x - r ELSE x - r + BUFF_SIZE)
      /\ \A i \in 0 .. BUFF_SIZE - 1 :
           (r + i) % BUFF_SIZE = IF r + i < BUFF_SIZE THEN r + i ELSE r + i - BUFF_SIZE
  BY <1>2, RingArithmetic
<1>7. nn = (IF q <= x THEN x - q ELSE x - q + BUFF_SIZE)
      /\ \A i \in 0 .. BUFF_SIZE - 1 :
           (q + i) % BUFF_SIZE = IF q + i < BUFF_SIZE THEN q + i ELSE q + i - BUFF_SIZE
  BY <1>1, <1>2, RingArithmetic
<1> HIDE DEF n, nn, x, u, v
<1>8. p = IF r + k - 1 < BUFF_SIZE THEN r + k - 1 ELSE r + k - 1 - BUFF_SIZE
  <2> DEFINE j == k - 1
  <2>1. j \in 0 .. BUFF_SIZE - 1 /\ r + j = r + k - 1
    BY <1>0, <1>3
  <2> HIDE DEF j
  <2>2. (r + j) % BUFF_SIZE = IF r + j < BUFF_SIZE THEN r + j ELSE r + j - BUFF_SIZE
    BY <1>6, <2>1
  <2> QED BY <2>1, <2>2
<1>9. nn = n - k
  <2>1. n = (IF r <= x THEN x - r ELSE x - r + BUFF_SIZE)
    BY <1>6
  <2>2. nn = (IF q <= x THEN x - q ELSE x - q + BUFF_SIZE)
    BY <1>7
  <2>3. q = p + 1
    OBVIOUS
  <2> HIDE DEF q
  <2> QED BY ONLY <1>0, <1>1, <1>2, <1>3, <1>8, <2>1, <2>2, <2>3
<1>10. a \in Seq(AllChars) /\ Len(a) = n - k /\ \A i \in 1 .. n - k : a[i] = u[k + i]
  <2>1. k + 1 \in Nat /\ n \in Int /\ 1 <= k + 1 /\ n <= Len(u)
    BY <1>0, <1>3, <1>4
  <2>2. /\ a \in Seq(AllChars) /\ Len(a) = (IF k + 1 <= n THEN n - (k + 1) + 1 ELSE 0)
        /\ \A i \in 1 .. n - (k + 1) + 1 : a[i] = u[(k + 1) + i - 1]
    BY <1>4, <2>1, Piece
  <2> HIDE DEF a
  <2>3. Len(a) = n - k
    BY <1>0, <1>3, <2>2
  <2>4. ASSUME NEW i \in 1 .. n - k PROVE a[i] = u[k + i]
    <3>1. i \in 1 .. n - (k + 1) + 1 /\ (k + 1) + i - 1 = k + i
      BY <1>0, <1>3
    <3>2. a[i] = u[(k + 1) + i - 1]
      BY <2>2, <3>1
    <3> QED BY <3>1, <3>2
  <2> QED BY <2>2, <2>3, <2>4
<1> HIDE DEF a
<1>11. ASSUME NEW i \in 1 .. n - k PROVE v[i] = a[i]
  <2>1. v[i] = buff[(q + i - 1) % BUFF_SIZE]
    BY <1>5, <1>9
  <2> DEFINE j == k + i
  <2>2. j \in 1 .. n
    BY <1>0, <1>3
  <2> HIDE DEF j
  <2>3. u[j] = buff[(r + j - 1) % BUFF_SIZE]
    BY <1>4, <2>2
  <2>4. (q + i - 1) % BUFF_SIZE = (r + j - 1) % BUFF_SIZE
    <3> DEFINE y == i - 1
               z == j - 1
    <3>1. y \in 0 .. BUFF_SIZE - 1 /\ z \in 0 .. BUFF_SIZE - 1 /\ q + y = q + i - 1 /\ r + z = r + j - 1
          /\ z = k + y
      BY <1>0, <1>1, <1>3, <2>2 DEF j
    <3> HIDE DEF y, z
    <3>2. (q + y) % BUFF_SIZE = IF q + y < BUFF_SIZE THEN q + y ELSE q + y - BUFF_SIZE
      BY <1>7, <3>1
    <3>3. (r + z) % BUFF_SIZE = IF r + z < BUFF_SIZE THEN r + z ELSE r + z - BUFF_SIZE
      BY <1>6, <3>1
    <3>4. (q + y) % BUFF_SIZE = (r + z) % BUFF_SIZE
      BY <1>0, <1>1, <1>3, <1>8, <3>1, <3>2, <3>3
    <3> QED BY <3>1, <3>4
  <2> QED BY <1>10, <2>1, <2>3, <2>4 DEF j
<1>12. v = a
  <2>1. \A i \in 1 .. Len(v) : v[i] = a[i]
    BY <1>5, <1>9, <1>11
  <2> QED BY <1>5, <1>9, <1>10, <2>1, SeqEqual
<1> QED BY <1>1, <1>4, <1>12 DEF v, a, u


-----------------------------------------------------------------------------
(***************************************************************************)
(* A user who keeps to the limits.  The inductive invariant: the pointers  *)
(* stay where the remainders of the code are right, no newline lies in the *)
(* last cell (read_buffer would step over the end), the count is exact and *)
(* no line is longer than a read.                                          *)
(***************************************************************************)
RingInv ==
  /\ TypeOK
  /\ r_buff_ptr \in Cells /\ w_buff_ptr \in 0 .. BUFF_SIZE
  /\ term_buff[BUFF_SIZE - 1] # NL
  /\ CountMatchesRing
  /\ Len(PartialLine) < ReadSize
  /\ \A i \in 1 .. Len(Lines) : Len(Lines[i]) < ReadSize

LEMMA Mapped ==
  /\ Unread = UnreadOf(term_buff, r_buff_ptr, w_buff_ptr)
  /\ LineEnds = Ends(Unread) /\ PartialLine = Rest(Unread) /\ Lines = LinesOf(Unread)
  /\ Unread' = UnreadOf(term_buff', r_buff_ptr', w_buff_ptr')
  /\ LineEnds' = Ends(Unread') /\ PartialLine' = Rest(Unread') /\ Lines' = LinesOf(Unread')
<1>1. Unread = UnreadOf(term_buff, r_buff_ptr, w_buff_ptr)
      /\ Unread' = UnreadOf(term_buff', r_buff_ptr', w_buff_ptr')
  BY DEF Unread, UnreadOf
<1>2. LineEnds = Ends(Unread) /\ LineEnds' = Ends(Unread')
  BY DEF LineEnds, Ends
<1>3. PartialLine = Rest(Unread) /\ PartialLine' = Rest(Unread')
  BY <1>2 DEF PartialLine, Rest
<1>4. Lines = LinesOf(Unread) /\ Lines' = LinesOf(Unread')
  BY <1>2 DEF Lines, LinesOf, LineAt, EndNo, EndsBefore
<1> QED BY <1>1, <1>2, <1>3, <1>4

LEMMA RingTypes ==
  ASSUME RingInv
  PROVE  /\ term_buff \in [Cells -> AllChars] /\ r_buff_ptr \in Cells /\ w_buff_ptr \in 0 .. BUFF_SIZE
         /\ Unread \in Seq(AllChars) /\ Len(Unread) = (w_buff_ptr - r_buff_ptr) % BUFF_SIZE
         /\ Len(Unread) \in 0 .. BUFF_SIZE - 1
         /\ \A i \in 1 .. Len(Unread) : Unread[i] = term_buff[(r_buff_ptr + i - 1) % BUFF_SIZE]
<1>1. term_buff \in [Cells -> AllChars] /\ r_buff_ptr \in Cells /\ w_buff_ptr \in 0 .. BUFF_SIZE
  BY DEF RingInv, TypeOK, AllChars
<1> QED BY <1>1, Mapped, UnreadType

\* What terminal_handler's test makes of the write position.
LEMMA WriteCell ==
  ASSUME NEW w \in 0 .. BUFF_SIZE
  PROVE  /\ wrapped(w) \in Cells /\ wrapped(w) = w % BUFF_SIZE
         /\ w # BUFF_SIZE - 1 =>
              wrapped(w) # BUFF_SIZE - 1 /\ wrapped(wrapped(w) + 1) = wrapped(w) + 1
<1>1. BUFF_SIZE \in Nat /\ BUFF_SIZE >= 2 /\ w \in Int /\ 0 <= w /\ w <= BUFF_SIZE
  BY BUFF_SIZEAssumption
<1>2. w % BUFF_SIZE = IF w = BUFF_SIZE THEN 0 ELSE w
  BY <1>1, Modulo
<1>3. wrapped(w) = IF w = BUFF_SIZE THEN 0 ELSE w
  BY <1>1, <1>2 DEF wrapped
<1>4. ASSUME w # BUFF_SIZE - 1
      PROVE  wrapped(w) # BUFF_SIZE - 1 /\ wrapped(wrapped(w) + 1) = wrapped(w) + 1
  <2> DEFINE y == wrapped(w) + 1
  <2>1. y \in Int /\ 0 <= y /\ y < BUFF_SIZE /\ wrapped(w) # BUFF_SIZE - 1
    BY <1>1, <1>3, <1>4
  <2> HIDE DEF y
  <2>2. y % BUFF_SIZE = y
    BY <2>1, Modulo
  <2>3. wrapped(y) = y
    BY <2>2 DEF wrapped
  <2> QED BY <2>1, <2>3 DEF y
<1>5. wrapped(w) \in Cells
  BY <1>1, <1>3 DEF Cells
<1> QED BY <1>2, <1>3, <1>4, <1>5

LEMMA FrontOfAppend ==
  ASSUME NEW S, NEW s \in Seq(S), NEW c \in S
  PROVE  Front(Append(s, c)) = s /\ Append(s, c) # <<>>
<1>1. Len(Append(s, c)) = Len(s) + 1 /\ Append(s, c) # <<>> /\ Len(s) \in Nat
  BY AppendProperties
<1>2. (Len(s) + 1) - 1 = Len(s) /\ 1 \in Nat /\ 1 <= 1 /\ Len(s) \in Int /\ Len(s) <= Len(s)
  BY <1>1
<1>3. SubSeq(Append(s, c), 1, Len(s)) = SubSeq(s, 1, Len(s))
  BY <1>2, PieceOfAppend
<1>4. SubSeq(s, 1, Len(s)) = s
  <2> DEFINE x == SubSeq(s, 1, Len(s))
  <2>1. /\ x \in Seq(S) /\ Len(x) = (IF 1 <= Len(s) THEN Len(s) - 1 + 1 ELSE 0)
        /\ \A i \in 1 .. Len(s) - 1 + 1 : x[i] = s[1 + i - 1]
    BY <1>2, Piece
  <2> HIDE DEF x
  <2>2. Len(x) = Len(s) /\ \A i \in 1 .. Len(x) : x[i] = s[i]
    BY <1>1, <2>1
  <2>3. x = s
    BY <2>1, <2>2, SeqEqual
  <2> QED BY <2>3 DEF x
<1> QED BY <1>1, <1>2, <1>3, <1>4 DEF Front

LEMMA RingInit == Init => RingInv /\ Queue!QueueInit
<1> SUFFICES ASSUME Init PROVE RingInv /\ Queue!QueueInit
  OBVIOUS
<1>1. TypeOK
  BY TypeInit
<1>2. r_buff_ptr \in Cells /\ w_buff_ptr \in 0 .. BUFF_SIZE /\ term_buff[BUFF_SIZE - 1] # NL
  <2>1. BUFF_SIZE - 1 \in Cells /\ 0 \in Cells /\ 0 \in 0 .. BUFF_SIZE
    BY BUFF_SIZEAssumption DEF Cells
  <2>2. NUL # NL
    BY DEF NUL, NL
  <2> QED BY <2>1, <2>2 DEF Init
<1>3. Unread = <<>>
  <2>1. (0 - 0) % BUFF_SIZE = 0
    BY Modulo, BUFF_SIZEAssumption
  <2>2. Unread = [i \in 1 .. 0 |-> term_buff[(0 + i - 1) % BUFF_SIZE]]
    BY <2>1 DEF Init, Unread
  <2> QED BY <2>2
<1>4. Ends(<<>>) = {} /\ Len(<<>>) = 0
  BY DEF Ends
<1>5. Cardinality(Ends(<<>>)) = 0
  BY <1>4, FS_EmptySet
<1>6. <<>> \in Seq(AllChars)
  OBVIOUS
<1>7. LinesOf(<<>>) = <<>> /\ Rest(<<>>) = <<>>
  <2>1. LinesOf(<<>>) = [k \in 1 .. 0 |-> LineAt(<<>>, EndNo(<<>>, k))]
    BY <1>5 DEF LinesOf
  <2>2. Max({0} \cup {}) = 0
    <3>1. {0} \cup {} \in SUBSET Int /\ 0 \in {0} \cup {} /\ \A y \in {0} \cup {} : y <= 0
      OBVIOUS
    <3> QED BY <3>1, MaxIs
  <2>3. Rest(<<>>) = SubSeq(<<>>, 0 + 1, 0)
    BY <1>4, <2>2 DEF Rest
  <2>4. SubSeq(<<>>, 0 + 1, 0) = <<>>
    BY SubSeqEmpty
  <2> QED BY <2>1, <2>3, <2>4
<1>8. Lines = <<>> /\ PartialLine = <<>> /\ CountMatchesRing
  <2>1. terminal_line_count = 0
    BY DEF Init
  <2> QED BY <1>3, <1>5, <1>7, <2>1, Mapped DEF CountMatchesRing
<1>9. Queue!QueueInit
  BY <1>8 DEF Queue!QueueInit, Init
<1>10. Len(PartialLine) < ReadSize /\ \A i \in 1 .. Len(Lines) : Len(Lines[i]) < ReadSize
  BY <1>4, <1>8, ReadSizeAssumption
<1> QED BY <1>1, <1>2, <1>8, <1>9, <1>10 DEF RingInv


QueueStep == Queue!QueueNext \/ UNCHANGED <<Lines, PartialLine, buffer>>

\* A character is typed.
LEMMA TypedStep ==
  ASSUME RingInv, Limits = AllLimits, NEW c \in Chars, TypeChar(c), TypeOK'
  PROVE  RingInv' /\ QueueStep /\ PartialLine' = Append(PartialLine, c)
<1> DEFINE x == wrapped(w_buff_ptr)
<1>1. /\ MayType
      /\ term_buff' = Stored(term_buff, x, c) /\ w_buff_ptr' = x + 1
      /\ r_buff_ptr' = r_buff_ptr /\ terminal_line_count' = terminal_line_count /\ buffer' = buffer
  BY DEF TypeChar
<1>2. Len(Unread) < BUFF_SIZE - 1 /\ Len(PartialLine) < ReadSize - 1
  BY <1>1 DEF MayType, HasRoom, AllLimits
<1>3. x \in Cells /\ x = w_buff_ptr % BUFF_SIZE
  BY RingTypes, WriteCell
<1>4. c \in AllChars /\ c # NL
  BY CharsAssumption DEF AllChars
<1> HIDE DEF x
<1>5. Unread' = Append(Unread, c) /\ Unread \in Seq(AllChars)
  BY <1>1, <1>2, <1>3, <1>4, RingTypes, Mapped, CharacterStored
<1>6. Ends(Unread') = Ends(Unread) /\ LinesOf(Unread') = LinesOf(Unread)
      /\ Rest(Unread') = Append(Rest(Unread), c)
  BY <1>4, <1>5, AppendChar
<1>7. LineEnds' = LineEnds /\ Lines' = Lines /\ PartialLine' = Append(PartialLine, c)
  BY <1>6, Mapped
<1>8. Queue!TypeChar(c)
  BY <1>1, <1>7 DEF Queue!TypeChar
<1>9. QueueStep
  BY <1>8 DEF QueueStep, Queue!QueueNext
<1>10. r_buff_ptr' \in Cells /\ w_buff_ptr' \in 0 .. BUFF_SIZE
  BY <1>1, <1>3, RingTypes, BUFF_SIZEAssumption DEF Cells
<1>11. term_buff'[BUFF_SIZE - 1] # NL
  <2>1. BUFF_SIZE - 1 \in Cells
    BY BUFF_SIZEAssumption DEF Cells
  <2> QED BY <1>1, <1>4, <2>1 DEF Stored, RingInv
<1>12. CountMatchesRing'
  BY <1>1, <1>7 DEF CountMatchesRing, RingInv
<1>13. Len(PartialLine') < ReadSize
  <2>1. PartialLine \in Seq(AllChars)
    BY <1>5, Mapped, LinesType
  <2>2. Len(Append(PartialLine, c)) = Len(PartialLine) + 1 /\ Len(PartialLine) \in Nat
    BY <1>4, <2>1, AppendProperties
  <2> QED BY <1>2, <1>7, <2>2, ReadSizeAssumption
<1>14. \A i \in 1 .. Len(Lines') : Len(Lines'[i]) < ReadSize
  BY <1>7 DEF RingInv
<1> QED BY <1>7, <1>9, <1>10, <1>11, <1>12, <1>13, <1>14 DEF RingInv

\* Enter.
LEMMA EnterStep ==
  ASSUME RingInv, Limits = AllLimits, Enter, TypeOK'
  PROVE  RingInv' /\ QueueStep /\ PartialLine' = <<>>
<1> DEFINE x == wrapped(w_buff_ptr)
<1>1. /\ MayEnter
      /\ term_buff' = Stored(term_buff, x, NL) /\ w_buff_ptr' = wrapped(x + 1)
      /\ r_buff_ptr' = r_buff_ptr /\ terminal_line_count' = terminal_line_count + 1 /\ buffer' = buffer
  BY DEF Enter
<1>2. Len(Unread) < BUFF_SIZE - 1 /\ w_buff_ptr # BUFF_SIZE - 1
  BY <1>1 DEF MayEnter, HasRoom, AllLimits
<1>3. x \in Cells /\ x = w_buff_ptr % BUFF_SIZE /\ x # BUFF_SIZE - 1 /\ wrapped(x + 1) = x + 1
  BY <1>2, RingTypes, WriteCell
<1>4. NL \in AllChars
  BY DEF AllChars
<1> HIDE DEF x
<1>5. Unread' = Append(Unread, NL) /\ Unread \in Seq(AllChars)
  <2>1. w_buff_ptr' = x + 1
    BY <1>1, <1>3
  <2> QED BY <1>1, <1>2, <1>3, <1>4, <2>1, RingTypes, Mapped, CharacterStored
<1>6. Cardinality(Ends(Unread')) = Cardinality(Ends(Unread)) + 1
      /\ LinesOf(Unread') = Append(LinesOf(Unread), Rest(Unread)) /\ Rest(Unread') = <<>>
  BY <1>4, <1>5, AppendNewline
<1>7. Cardinality(LineEnds') = Cardinality(LineEnds) + 1
      /\ Lines' = Append(Lines, PartialLine) /\ PartialLine' = <<>>
  BY <1>6, Mapped
<1>8. Queue!EndLine
  BY <1>1, <1>7 DEF Queue!EndLine
<1>9. QueueStep
  BY <1>8 DEF QueueStep, Queue!QueueNext
<1>10. r_buff_ptr' \in Cells /\ w_buff_ptr' \in 0 .. BUFF_SIZE
  BY <1>1, <1>3, RingTypes, BUFF_SIZEAssumption DEF Cells
<1>11. term_buff'[BUFF_SIZE - 1] # NL
  <2>1. BUFF_SIZE - 1 \in Cells
    BY BUFF_SIZEAssumption DEF Cells
  <2> QED BY <1>1, <1>3, <2>1 DEF Stored, RingInv
<1>12. CountMatchesRing'
  <2>1. terminal_line_count = Cardinality(LineEnds)
    BY DEF RingInv, CountMatchesRing
  <2>2. terminal_line_count' = Cardinality(LineEnds')
    BY <1>1, <1>7, <2>1
  <2> QED BY <2>2 DEF CountMatchesRing
<1>13. Len(PartialLine') < ReadSize
  BY <1>7, ReadSizeAssumption
<1>14. ASSUME NEW i \in 1 .. Len(Lines') PROVE Len(Lines'[i]) < ReadSize
  <2>1. Lines \in Seq(Seq(AllChars)) /\ PartialLine \in Seq(AllChars)
    BY <1>5, Mapped, LinesType
  <2>2. Len(Append(Lines, PartialLine)) = Len(Lines) + 1 /\ Len(Lines) \in Nat
        /\ (\A j \in 1 .. Len(Lines) : Append(Lines, PartialLine)[j] = Lines[j])
        /\ Append(Lines, PartialLine)[Len(Lines) + 1] = PartialLine
    BY <2>1, AppendProperties
  <2>3. Len(PartialLine) < ReadSize /\ \A j \in 1 .. Len(Lines) : Len(Lines[j]) < ReadSize
    BY DEF RingInv
  <2>4. i \in 1 .. Len(Lines) \/ i = Len(Lines) + 1
    BY <1>7, <2>2
  <2> QED BY <1>7, <2>2, <2>3, <2>4
<1> QED BY <1>7, <1>9, <1>10, <1>11, <1>12, <1>13, <1>14 DEF RingInv

\* Control-h.
LEMMA EraseStep ==
  ASSUME RingInv, Limits = AllLimits, Erase, TypeOK'
  PROVE  RingInv' /\ QueueStep /\ \E c \in AllChars : PartialLine = Append(PartialLine', c)
<1> DEFINE w == w_buff_ptr
<1>1. MayErase /\ r_buff_ptr' = r_buff_ptr /\ terminal_line_count' = terminal_line_count /\ buffer' = buffer
  BY DEF Erase
<1>2. Len(Unread) < BUFF_SIZE - 1 /\ PartialLine # <<>> /\ w \in 1 .. BUFF_SIZE - 1
  BY <1>1 DEF MayErase, HasRoom, AllLimits
<1>3. term_buff' = Stored(Stored(term_buff, w + 1, NUL), w, NUL) /\ w_buff_ptr' = w - 1
  <2>1. BUFF_SIZE \in Nat /\ w \in Int /\ 1 <= w /\ w <= BUFF_SIZE - 1
    BY <1>2, BUFF_SIZEAssumption
  <2>2. w % BUFF_SIZE = w
    BY <2>1, Modulo
  <2>3. wrapped(w) = w
    BY <2>2 DEF wrapped
  <2>4. term_buff' = Stored(Stored(term_buff, wrapped(w) + 1, NUL), (wrapped(w) + 1) - 1, NUL)
        /\ w_buff_ptr' = (wrapped(w) + 1) - 2
    BY DEF Erase, dec_term
  <2>5. (w + 1) - 1 = w /\ (w + 1) - 2 = w - 1
    BY <2>1
  <2> QED BY <2>3, <2>4, <2>5
<1>4. Unread \in Seq(AllChars) /\ Len(Unread) \in Nat /\ 1 <= Len(Unread)
  <2>1. Unread \in Seq(AllChars) /\ Len(Unread) \in Nat
    BY RingTypes
  <2>2. PartialLine \in Seq(AllChars) /\ Len(PartialLine) = Len(Unread) - Max({0} \cup Ends(Unread))
    BY <2>1, Mapped, LinesType
  <2>3. Max({0} \cup Ends(Unread)) \in {0} \cup Ends(Unread)
    BY <2>1, EndsFacts
  <2>4. Max({0} \cup Ends(Unread)) \in Nat
    BY <2>1, <2>3, EndsFacts
  <2>5. Len(PartialLine) # 0 /\ Len(PartialLine) \in Nat
    BY <1>2, <2>2
  <2> QED BY <2>1, <2>2, <2>4, <2>5
<1>5. r_buff_ptr' \in Cells /\ w_buff_ptr' \in 0 .. BUFF_SIZE /\ term_buff' \in [Cells -> AllChars]
  <2>1. w - 1 \in 0 .. BUFF_SIZE
    BY <1>2, BUFF_SIZEAssumption
  <2>2. term_buff' \in [Cells -> AllChars]
    BY DEF TypeOK, AllChars
  <2> QED BY <1>1, <1>3, <2>1, <2>2, RingTypes
<1>6. Unread' \in Seq(AllChars)
  BY <1>5, Mapped, UnreadType
<1>7. PICK c \in AllChars : Unread = Append(Unread', c)
  BY <1>1, <1>2, <1>3, <1>4, RingTypes, Mapped, CharacterErased
<1>8. c # NL
  <2> SUFFICES ASSUME c = NL PROVE FALSE
    OBVIOUS
  <2>1. Rest(Append(Unread', NL)) = <<>>
    BY <1>6, AppendNewline
  <2> QED BY <1>2, <1>7, <2>1, Mapped
<1>9. Ends(Unread) = Ends(Unread') /\ LinesOf(Unread) = LinesOf(Unread')
      /\ Rest(Unread) = Append(Rest(Unread'), c)
  BY <1>6, <1>7, <1>8, AppendChar
<1>10. LineEnds' = LineEnds /\ Lines' = Lines /\ PartialLine = Append(PartialLine', c)
  BY <1>9, Mapped
<1>11. PartialLine' \in Seq(AllChars)
  BY <1>6, Mapped, LinesType
<1>12. PartialLine' = Front(PartialLine)
  <2>1. Front(Append(PartialLine', c)) = PartialLine'
    BY <1>11, FrontOfAppend
  <2> QED BY <1>10, <2>1
<1>13. Queue!EraseChar
  BY <1>1, <1>2, <1>10, <1>12 DEF Queue!EraseChar, Queue!Front, Front
<1>14. QueueStep
  BY <1>13 DEF QueueStep, Queue!QueueNext
<1>15. term_buff'[BUFF_SIZE - 1] # NL
  <2>1. BUFF_SIZE - 1 \in Cells
    BY BUFF_SIZEAssumption DEF Cells
  <2>2. NUL # NL
    BY DEF NUL, NL
  <2> QED BY <1>3, <2>1, <2>2 DEF Stored, RingInv
<1>16. CountMatchesRing'
  BY <1>1, <1>10 DEF CountMatchesRing, RingInv
<1>17. Len(PartialLine') < ReadSize
  <2>1. Len(Append(PartialLine', c)) = Len(PartialLine') + 1 /\ Len(PartialLine') \in Nat
    BY <1>11, AppendProperties
  <2>2. Len(PartialLine) < ReadSize
    BY DEF RingInv
  <2> QED BY <1>10, <2>1, <2>2, ReadSizeAssumption
<1>18. \A i \in 1 .. Len(Lines') : Len(Lines'[i]) < ReadSize
  BY <1>10 DEF RingInv
<1> QED BY <1>5, <1>10, <1>14, <1>15, <1>16, <1>17, <1>18 DEF RingInv


\* A read.
LEMMA ReadStep ==
  ASSUME RingInv, NEW other \in Chars \cup {NUL}, read_buffer(other), TypeOK'
  PROVE  RingInv' /\ QueueStep /\ PartialLine' = PartialLine
<1> DEFINE B == BUFF_SIZE
           r == r_buff_ptr
           u == Unread
           n == Len(u)
           k == Min(Ends(u))
<1>0. /\ terminal_line_count # 0 /\ terminal_line_count' = terminal_line_count - 1
      /\ buffer' = copied(LineLength(other), other)
      /\ r_buff_ptr' = past_newline(After(LineLength(other)))
      /\ term_buff' = term_buff /\ w_buff_ptr' = w_buff_ptr
  BY DEF read_buffer
<1>1. /\ term_buff \in [Cells -> AllChars] /\ r \in Cells /\ w_buff_ptr \in 0 .. B
      /\ u \in Seq(AllChars) /\ n = (w_buff_ptr - r) % B /\ n \in 0 .. B - 1
      /\ \A i \in 1 .. n : u[i] = term_buff[(r + i - 1) % B]
  BY RingTypes
<1>2. terminal_line_count = Cardinality(Ends(u)) /\ Ends(u) # {}
  BY <1>0, Mapped, FS_EmptySet DEF RingInv, CountMatchesRing
<1>3. /\ k \in Ends(u) /\ (\A e \in Ends(u) : k <= e) /\ k \in Nat /\ 1 <= k /\ k <= n /\ n \in Nat
      /\ n < B /\ B \in Nat /\ r \in Nat /\ r < B
  <2>1. Ends(u) \in SUBSET Nat /\ \A e \in Ends(u) : 1 <= e /\ e <= n
    BY <1>1, EndsFacts
  <2>2. k \in Ends(u) /\ \A e \in Ends(u) : k <= e
    BY <1>2, <2>1, MinOfSet
  <2>3. n \in Nat /\ n < B /\ B \in Nat /\ r \in Nat /\ r < B
    BY <1>1, BUFF_SIZEAssumption DEF Cells
  <2> QED BY <2>1, <2>2, <2>3
<1> DEFINE v == SubSeq(u, k + 1, n)
<1> HIDE DEF k
<1>4. /\ Cardinality(Ends(v)) = Cardinality(Ends(u)) - 1
      /\ LinesOf(u) # <<>> /\ Head(LinesOf(u)) = SubSeq(u, 1, k - 1)
      /\ Tail(LinesOf(u)) = LinesOf(v) /\ Rest(v) = Rest(u)
  BY <1>1, <1>3, FirstLineTaken, ZenonT(60)
\* The line fits the buffer of the reader, newline apart.
<1>5. k - 1 < ReadSize
  <2>1. Lines # <<>> /\ Head(Lines) = SubSeq(u, 1, k - 1) /\ Lines \in Seq(Seq(AllChars))
    BY <1>1, <1>4, Mapped, LinesType
  <2>2. Head(Lines) = Lines[1] /\ 1 \in 1 .. Len(Lines)
    BY <2>1
  <2>3. Len(SubSeq(u, 1, k - 1)) < ReadSize
    BY <2>1, <2>2 DEF RingInv
  <2>4. 1 \in Nat /\ k - 1 \in Int /\ 1 <= 1 /\ k - 1 <= n
    BY <1>3
  <2>5. Len(SubSeq(u, 1, k - 1)) = IF 1 <= k - 1 THEN (k - 1) - 1 + 1 ELSE 0
    BY <1>1, <2>4, Piece
  <2> DEFINE y == Len(SubSeq(u, 1, k - 1))
  <2> HIDE DEF y
  <2>6. y < ReadSize /\ y = IF 1 <= k - 1 THEN (k - 1) - 1 + 1 ELSE 0
    BY <2>3, <2>5 DEF y
  <2> QED BY <1>3, <2>6, ReadSizeAssumption
\* The cells that the loop of read_buffer passes.
<1>6. \A i \in 0 .. n - 1 : CellAt(After(i), other) = u[i + 1] /\ After(i) = (r + i) % B /\ After(i) \in Cells
  <2> TAKE i \in 0 .. n - 1
  <2>1. After(i) = (r + i) % B
    <3>1. CASE i = 0
      <4>1. r \in Int /\ 0 <= r /\ r + 0 = r
        BY <1>3
      <4>2. r % B = r
        BY <1>3, <4>1, Modulo
      <4> QED BY <3>1, <4>1, <4>2 DEF After
    <3>2. CASE i # 0
      BY <3>2 DEF After
    <3> QED BY <3>1, <3>2
  <2>2. (r + i) % B \in Cells
    <3>1. r + i \in Int
      BY <1>3
    <3> QED BY <3>1, Modulo DEF Cells
  <2>3. i + 1 \in 1 .. n /\ r + (i + 1) - 1 = r + i
    BY <1>3
  <2>4. u[i + 1] = term_buff[(r + i) % B]
    <3> DEFINE j == i + 1
    <3>1. j \in 1 .. n /\ r + j - 1 = r + i
      BY <2>3
    <3> HIDE DEF j
    <3>2. u[j] = term_buff[(r + j - 1) % B]
      BY <1>1, <3>1
    <3> QED BY <3>1, <3>2 DEF j
  <2> QED BY <2>1, <2>2, <2>4 DEF CellAt
<1>7. LineLength(other) = k - 1
  <2> DEFINE I == {i \in 0..(ReadSize - 1) : i = ReadSize - 1 \/ CellAt(After(i), other) = NL}
  <2>1. k - 1 \in 0 .. n - 1 /\ (k - 1) + 1 = k /\ k - 1 \in 0 .. ReadSize - 1
    BY <1>3, <1>5, ReadSizeAssumption
  <2>2. u[k] = NL
    BY <1>3 DEF Ends
  <2>3. CellAt(After(k - 1), other) = NL
    <3> DEFINE j == k - 1
    <3>1. j \in 0 .. n - 1 /\ j + 1 = k
      BY <2>1
    <3> HIDE DEF j
    <3>2. CellAt(After(j), other) = u[j + 1]
      BY <1>6, <3>1
    <3> QED BY <2>2, <3>1, <3>2 DEF j
  <2>4. k - 1 \in I
    BY <2>1, <2>3
  <2>5. ASSUME NEW i \in I PROVE k - 1 <= i
    <3> SUFFICES ASSUME ~(k - 1 <= i) PROVE FALSE
      OBVIOUS
    <3>1. i \in 0 .. ReadSize - 1 /\ (i = ReadSize - 1 \/ CellAt(After(i), other) = NL)
      OBVIOUS
    <3>2. i \in Int /\ i # ReadSize - 1 /\ i \in 0 .. n - 1 /\ i + 1 \in 1 .. n /\ ~(k <= i + 1)
      BY <1>3, <1>5, <3>1, ReadSizeAssumption
    <3>3. u[i + 1] = NL
      BY <1>6, <3>1, <3>2
    <3>4. i + 1 \in Ends(u)
      BY <3>2, <3>3 DEF Ends
    <3> QED BY <1>3, <3>2, <3>4
  <2>6. I \in SUBSET Int
    BY ReadSizeAssumption
  <2> HIDE DEF I
  <2>7. Min(I) = k - 1
    BY <2>4, <2>5, <2>6, MinIs
  <2> QED BY <2>7 DEF LineLength, I
<1>8. buffer' = SubSeq(u, 1, k - 1)
  <2> DEFINE x == SubSeq(u, 1, k - 1)
             c == copied(k - 1, other)
  <2>1. 1 \in Nat /\ k - 1 \in Int /\ 1 <= 1 /\ k - 1 <= Len(u)
    BY <1>3
  <2>2. /\ x \in Seq(AllChars) /\ Len(x) = (IF 1 <= k - 1 THEN (k - 1) - 1 + 1 ELSE 0)
        /\ \A i \in 1 .. (k - 1) - 1 + 1 : x[i] = u[1 + i - 1]
    BY <1>1, <2>1, Piece
  <2>3. c = [i \in 1 .. k - 1 |-> CellAt(After(i - 1), other)]
    BY DEF copied
  <2>4. ASSUME NEW i \in 1 .. k - 1 PROVE CellAt(After(i - 1), other) = u[i] /\ u[i] \in AllChars
    <3> DEFINE j == i - 1
    <3>1. j \in 0 .. n - 1 /\ j + 1 = i /\ i \in 1 .. Len(u)
      BY <1>3
    <3> HIDE DEF j
    <3>2. CellAt(After(j), other) = u[j + 1]
      BY <1>6, <3>1
    <3> QED BY <1>1, <3>1, <3>2 DEF j
  <2> HIDE DEF x, c
  <2>5. c \in [1 .. k - 1 -> AllChars]
    BY <2>3, <2>4
  <2>6. c \in Seq(AllChars) /\ Len(c) = k - 1
    <3>1. k - 1 \in Nat
      BY <1>3
    <3> QED BY <2>5, <3>1
  <2>7. Len(x) = k - 1 /\ \A i \in 1 .. k - 1 : x[i] = u[i]
    BY <1>3, <2>2
  <2>8. \A i \in 1 .. Len(c) : c[i] = x[i]
    BY <2>3, <2>4, <2>6, <2>7
  <2>9. c = x
    BY <2>2, <2>6, <2>7, <2>8, SeqEqual
  <2> QED BY <1>0, <1>7, <2>9 DEF c, x
\* The newline is not in the last cell, so the position stays in the ring.
<1> DEFINE p == (r + k - 1) % B
<1>9. p \in Cells /\ p # B - 1 /\ After(k - 1) = p
  <2> DEFINE j == k - 1
  <2>1. j \in 0 .. n - 1 /\ j + 1 = k /\ r + j = r + k - 1
    BY <1>3
  <2> HIDE DEF j
  <2>2. CellAt(After(j), other) = u[j + 1] /\ After(j) = (r + j) % B /\ After(j) \in Cells
    BY <1>6, <2>1
  <2>3. u[k] = NL
    BY <1>3 DEF Ends
  <2>4. After(j) # B - 1
    <3>1. term_buff[B - 1] # NL
      BY DEF RingInv
    <3> QED BY <2>1, <2>2, <2>3, <3>1 DEF CellAt
  <2>5. (r + j) % B = p
    BY <2>1
  <2> HIDE DEF p
  <2> QED BY <2>2, <2>4, <2>5 DEF j
<1>10. r_buff_ptr' = p + 1
  BY <1>0, <1>7, <1>9 DEF past_newline
<1> HIDE DEF v
<1>11. p + 1 \in Cells /\ Unread' = v
  <2>1. k \in 1 .. (w_buff_ptr - r) % B
    BY <1>1, <1>3
  <2> DEFINE q == p
  <2>2. q \in Cells /\ q = (r + k - 1) % B /\ q # B - 1
    BY <1>9
  <2> HIDE DEF q
  <2>3. /\ q + 1 \in Cells
        /\ UnreadOf(term_buff, q + 1, w_buff_ptr) =
             SubSeq(UnreadOf(term_buff, r, w_buff_ptr), k + 1, Len(UnreadOf(term_buff, r, w_buff_ptr)))
    BY <1>1, <2>1, <2>2, CharactersRead, SMTT(60)
  <2>4. p + 1 \in Cells /\ UnreadOf(term_buff, p + 1, w_buff_ptr) = v
    BY <2>3, Mapped DEF q, v
  <2> HIDE DEF p
  <2> QED BY <1>0, <1>10, <2>4, Mapped
<1>12. Cardinality(LineEnds') = Cardinality(Ends(u)) - 1 /\ Lines' = Tail(Lines) /\ PartialLine' = PartialLine
       /\ Lines # <<>> /\ buffer' = Head(Lines)
  BY <1>4, <1>8, <1>11, Mapped DEF v
<1>13. Queue!ReadLine
  BY <1>12 DEF Queue!ReadLine
<1>14. QueueStep
  BY <1>13 DEF QueueStep, Queue!QueueNext
<1>15. r_buff_ptr' \in Cells /\ w_buff_ptr' \in 0 .. BUFF_SIZE /\ term_buff'[BUFF_SIZE - 1] # NL
  BY <1>0, <1>1, <1>10, <1>11 DEF RingInv
<1>16. CountMatchesRing'
  <2>1. terminal_line_count' = Cardinality(LineEnds')
    BY <1>0, <1>2, <1>12
  <2> QED BY <2>1 DEF CountMatchesRing
<1>17. Len(PartialLine') < ReadSize
  BY <1>12 DEF RingInv
<1>18. ASSUME NEW i \in 1 .. Len(Lines') PROVE Len(Lines'[i]) < ReadSize
  <2>1. Lines \in Seq(Seq(AllChars))
    BY <1>1, Mapped, LinesType
  <2>2. Len(Tail(Lines)) = Len(Lines) - 1 /\ \A j \in 1 .. Len(Tail(Lines)) : Tail(Lines)[j] = Lines[j + 1]
    BY <1>12, <2>1, HeadTailProperties
  <2>3. Lines'[i] = Lines[i + 1] /\ i + 1 \in 1 .. Len(Lines)
    BY <1>12, <2>1, <2>2
  <2> QED BY <2>3 DEF RingInv
<1> QED BY <1>12, <1>14, <1>15, <1>16, <1>17, <1>18 DEF RingInv

LEMMA RingStep ==
  ASSUME Limits = AllLimits
  PROVE  RingInv /\ [Next]_vars => RingInv' /\ QueueStep
<1> SUFFICES ASSUME RingInv, [Next]_vars PROVE RingInv' /\ QueueStep
  OBVIOUS
<1>1. TypeOK'
  BY TypeStep DEF RingInv
<1>2. CASE UNCHANGED vars
  <2>1. Unread' = Unread
    BY <1>2 DEF vars, Unread
  <2>2. LineEnds' = LineEnds /\ PartialLine' = PartialLine /\ Lines' = Lines
    BY <2>1, Mapped
  <2>3. UNCHANGED <<term_buff, r_buff_ptr, w_buff_ptr, terminal_line_count, buffer>>
    BY <1>2 DEF vars
  <2> QED BY <1>1, <2>2, <2>3 DEF RingInv, CountMatchesRing, QueueStep
<1>3. ASSUME NEW c \in Chars, TypeChar(c) PROVE RingInv' /\ QueueStep
  BY <1>1, <1>3, TypedStep
<1>4. CASE Enter
  BY <1>1, <1>4, EnterStep
<1>5. CASE Erase
  BY <1>1, <1>5, EraseStep
<1>6. ASSUME NEW other \in Chars \cup {NUL}, read_buffer(other) PROVE RingInv' /\ QueueStep
  BY <1>1, <1>6, ReadStep
<1> QED BY <1>2, <1>3, <1>4, <1>5, <1>6 DEF Next

\* With a user who keeps to the limits, terminal_line_count is the number of
\* whole lines in the ring, for every size of the ring: a reader that passes
\* the test of read_buffer finds a line, and one that waits misses none.
THEOREM CountIsExact == ASSUME Limits = AllLimits PROVE Spec => []CountMatchesRing
<1>1. RingInv => CountMatchesRing
  BY DEF RingInv
<1>2. RingInv /\ [Next]_vars => RingInv'
  BY RingStep
<1> QED BY <1>1, <1>2, RingInit, PTL DEF Spec

\* With such a user the ring is a queue of lines, across any number of turns:
\* readers get the lines whole, in the order they were typed, each once, and
\* control-h takes back the last character of the line that is being typed.
THEOREM RingIsLineQueue == ASSUME Limits = AllLimits PROVE Spec => ImplementsLineQueue
<1>1. RingInv /\ [Next]_vars => RingInv'
  BY RingStep
<1>2. RingInv /\ [Next]_vars => [Queue!QueueNext]_<<Lines, PartialLine, buffer>>
  BY RingStep DEF QueueStep
<1>3. Init => RingInv /\ Queue!QueueInit
  BY RingInit
<1> QED BY <1>1, <1>2, <1>3, PTL DEF Spec, ImplementsLineQueue, Queue!QueueSpec

\* Terminal and screen together are still the terminal: echoing, output of
\* programs and the clock touch nothing of the ring, so that the theorems above
\* hold with the screen as well.
THEOREM ScreenKeepsTerminal == ScreenSpec => Spec
<1>1. ScreenInit => Init
  BY DEF ScreenInit
<1>2. [ScreenNext]_allvars => [Next]_vars
  BY DEF ScreenNext, allvars, Next, KeyChar, KeyEnter, KeyErase, ReadLine, Second,
         ProgramPrints, KernelPrints
<1> QED BY <1>1, <1>2, PTL DEF ScreenSpec, Spec

-----------------------------------------------------------------------------
(* The screen.  Its rows make products that the arithmetic below never opens. *)

TextEnd == Rows * Cols
LastRow == (Rows - 1) * Cols

LEMMA Geometry ==
  /\ TextEnd \in Nat /\ LastRow \in Nat /\ Cols \in Nat /\ Cols >= 2 /\ Rows \in Nat /\ Rows >= 1
  /\ TextEnd = LastRow + Cols /\ TextEnd = Rows * Cols /\ (Rows - 1) * Cols = LastRow
  /\ TextCells = 0 .. TextEnd - 1 /\ StatusCells = TextEnd .. TextEnd + Cols - 1
<1>1. Cols \in Nat /\ Cols >= 2 /\ Rows \in Nat /\ Rows >= 1
  BY RowsAssumption, ColsAssumption
<1>2. TextEnd \in Nat /\ LastRow \in Nat /\ Rows * Cols = (Rows - 1) * Cols + Cols
      /\ (Rows + 1) * Cols = Rows * Cols + Cols
  BY <1>1 DEF TextEnd, LastRow
<1> QED BY <1>1, <1>2 DEF TextEnd, LastRow, TextCells, StatusCells

LEMMA OneRowMore == \A m \in Nat : m * Cols \in Nat /\ (m + 1) * Cols = m * Cols + Cols /\ 0 * Cols = 0
BY ColsAssumption

\* Rows of a place in the text: the row's first cell, and the next row's.
LEMMA RowOf ==
  ASSUME NEW x \in Nat
  PROVE  /\ x \div Cols \in Nat /\ Cols * (x \div Cols) \in Nat
         /\ Cols * (x \div Cols) <= x /\ x < Cols * (x \div Cols) + Cols
         /\ x < TextEnd => Cols * (x \div Cols) + Cols <= TextEnd
         /\ Cols * (x \div Cols + 1) = Cols * (x \div Cols) + Cols
         /\ x % Cols = x - Cols * (x \div Cols)
<1> DEFINE q == x \div Cols
<1>1. Cols \in Nat /\ Cols >= 2 /\ Rows \in Nat
  BY RowsAssumption, ColsAssumption
<1>2. q \in Nat /\ x % Cols \in 0 .. Cols - 1 /\ x = Cols * q + (x % Cols)
  BY <1>1
<1> HIDE DEF q
<1>3. Cols * q \in Nat /\ Cols * (q + 1) = Cols * q + Cols
  BY <1>1, <1>2
<1>4. ASSUME x < TextEnd PROVE q + 1 <= Rows
  <2> SUFFICES ASSUME q >= Rows PROVE FALSE
    BY <1>1, <1>2
  <2>1. q - Rows \in Nat /\ Cols * q = Cols * Rows + Cols * (q - Rows) /\ Cols * (q - Rows) \in Nat
    BY <1>1, <1>2
  <2>2. x >= Cols * Rows
    BY <1>1, <1>2, <1>3, <2>1
  <2>3. Cols * Rows = TextEnd
    BY <1>1 DEF TextEnd
  <2> QED BY <1>4, <2>2, <2>3, Geometry
<1>5. ASSUME x < TextEnd PROVE Cols * (q + 1) <= TextEnd
  <2>1. Rows - (q + 1) \in Nat /\ Rows * Cols = Cols * (q + 1) + Cols * (Rows - (q + 1))
        /\ Cols * (Rows - (q + 1)) \in Nat /\ Cols * (q + 1) \in Nat
    BY <1>1, <1>2, <1>4, <1>5
  <2> QED BY <2>1 DEF TextEnd
<1>6. x % Cols = x - Cols * q
  BY <1>1, <1>2, <1>3
<1> QED BY <1>1, <1>2, <1>3, <1>5, <1>6 DEF q

\* The first cell of a row is its own row's.
LEMMA RowBegin ==
  ASSUME NEW k \in Nat
  PROVE  (Cols * k) \div Cols = k /\ Cols * k \in Nat
<1>1. Cols \in Nat /\ Cols >= 2
  BY ColsAssumption
<1> DEFINE x == Cols * k
           q == x \div Cols
<1>2. x \in Nat
  BY <1>1
<1>3. q \in Nat /\ x % Cols \in 0 .. Cols - 1 /\ x = Cols * q + (x % Cols)
  BY <1>1, <1>2
<1> HIDE DEF q
<1>4. ASSUME q < k PROVE FALSE
  <2>1. k - q \in Nat /\ k - q >= 1 /\ Cols * k = Cols * q + Cols * (k - q)
    BY <1>1, <1>3, <1>4
  <2>2. Cols * (k - q) >= Cols
    <3>1. k - q - 1 \in Nat /\ Cols * (k - q) = Cols + Cols * (k - q - 1) /\ Cols * (k - q - 1) \in Nat
      BY <1>1, <2>1
    <3> QED BY <1>1, <3>1
  <2>3. x % Cols = Cols * (k - q) /\ Cols * (k - q) \in Nat
    BY <1>1, <1>2, <1>3, <2>1
  <2> QED BY <1>1, <1>3, <2>2, <2>3
<1>5. ASSUME q > k PROVE FALSE
  <2>1. q - k \in Nat /\ q - k >= 1 /\ Cols * q = Cols * k + Cols * (q - k)
    BY <1>1, <1>3, <1>5
  <2>2. Cols * (q - k) >= Cols /\ Cols * (q - k) \in Nat
    <3>1. q - k - 1 \in Nat /\ Cols * (q - k) = Cols + Cols * (q - k - 1) /\ Cols * (q - k - 1) \in Nat
      BY <1>1, <2>1
    <3> QED BY <1>1, <3>1
  <2> QED BY <1>1, <1>2, <1>3, <2>1, <2>2
<1>6. q \in Nat
  BY <1>3
<1>7. q = k
  BY <1>4, <1>5, <1>6
<1> QED BY <1>2, <1>7 DEF q

-----------------------------------------------------------------------------
(* The loops of print_to_console ("put") and of write_to_console ("print"):  *)
(* the folds of their definitions have a value, by extending the one for a   *)
(* shorter text.                                                             *)

Turn(loop, text, s, k) ==
  IF loop = "put" THEN put(s, text[k])
  ELSE IF loop = "print" THEN print_to_console(s, <<text[k]>>)
  ELSE (IF loop = "ten" THEN 10 ELSE 16) * s + DigitOf(text[k])

\* g gives the state of the loop for the characters at the positions s.
Loops(loop, text, start, n, g) ==
  g = [s \in SUBSET (1 .. n) |-> IF s = {} THEN start ELSE Turn(loop, text, g[s \ {Max(s)}], Max(s))]

LEMMA MaxOfPositions ==
  ASSUME NEW n \in Nat, NEW s \in SUBSET (1 .. n), s # {}
  PROVE  Max(s) \in s /\ \A y \in s : y <= Max(s)
<1>1. IsFiniteSet(1 .. n)
  BY FS_Interval
<1>2. IsFiniteSet(s)
  BY <1>1, FS_Subset
<1>3. s \in SUBSET Nat
  OBVIOUS
<1> QED BY <1>2, <1>3, MaxOfSet

LEMMA LoopsExist == \A n \in Nat : \A loop, text, start : \E g : Loops(loop, text, start, n, g)
<1> DEFINE Bad == {n \in Nat : \E loop, text, start : \A g : ~Loops(loop, text, start, n, g)}
<1> SUFFICES ASSUME Bad # {} PROVE FALSE
  OBVIOUS
<1>1. PICK n \in Bad : \A m \in Bad : n <= m
  BY LeastElement
<1>2. n \in Nat
  BY <1>1
<1>3. PICK loop, text, start : \A g : ~Loops(loop, text, start, n, g)
  BY <1>1
<1>4. CASE n = 0
  <2> DEFINE g == [s \in SUBSET (1 .. 0) |-> start]
  <2>1. \A s \in SUBSET (1 .. 0) : s = {}
    OBVIOUS
  <2>2. g = [s \in SUBSET (1 .. 0) |->
               IF s = {} THEN start ELSE Turn(loop, text, g[s \ {Max(s)}], Max(s))]
    BY <2>1
  <2> HIDE DEF g
  <2>3. Loops(loop, text, start, 0, g)
    BY <2>2 DEF Loops
  <2> QED BY <1>3, <1>4, <2>3
<1>5. CASE n # 0
  <2>1. n - 1 \in Nat /\ n - 1 \notin Bad
    BY <1>1, <1>2, <1>5
  <2>2. PICK g : Loops(loop, text, start, n - 1, g)
    BY <2>1
  <2> DEFINE e == [s \in SUBSET (1 .. n) |->
                     IF n \in s THEN Turn(loop, text, g[s \ {n}], n) ELSE g[s]]
  <2>3. \A s \in SUBSET (1 .. (n - 1)) :
          g[s] = IF s = {} THEN start ELSE Turn(loop, text, g[s \ {Max(s)}], Max(s))
    BY <2>2 DEF Loops
  <2>4. \A s \in SUBSET (1 .. (n - 1)) : s \in SUBSET (1 .. n) /\ n \notin s /\ e[s] = g[s]
    BY <1>2, <1>5
  <2>5. \A s \in SUBSET (1 .. n) : s \ {n} \in SUBSET (1 .. (n - 1))
    BY <1>2
  <2>6. ASSUME NEW s \in SUBSET (1 .. n)
        PROVE  e[s] = IF s = {} THEN start ELSE Turn(loop, text, e[s \ {Max(s)}], Max(s))
    <3>1. CASE n \in s
      <4>1. Max(s) \in s /\ \A y \in s : y <= Max(s)
        BY <1>2, <3>1, MaxOfPositions
      <4>2. Max(s) = n
        <5>1. Max(s) \in 1 .. n /\ n <= Max(s)
          BY <3>1, <4>1
        <5> QED BY <1>2, <5>1
      <4>3. e[s] = Turn(loop, text, g[s \ {n}], n)
        BY <3>1
      <4>4. e[s \ {n}] = g[s \ {n}]
        BY <2>4, <2>5
      <4> HIDE DEF e
      <4> QED BY <3>1, <4>2, <4>3, <4>4
    <3>2. CASE n \notin s
      <4>1. s \in SUBSET (1 .. (n - 1))
        BY <2>5, <3>2
      <4>2. s # {} => s \ {Max(s)} \in SUBSET (1 .. (n - 1))
        BY <4>1
      <4>3. e[s] = g[s] /\ (s # {} => e[s \ {Max(s)}] = g[s \ {Max(s)}])
        BY <2>4, <4>1, <4>2
      <4> HIDE DEF e
      <4> QED BY <2>3, <4>1, <4>3
    <3> QED BY <3>1, <3>2
  <2>7. e = [s \in SUBSET (1 .. n) |->
               IF s = {} THEN start ELSE Turn(loop, text, e[s \ {Max(s)}], Max(s))]
    BY <2>6
  <2> HIDE DEF e
  <2>8. Loops(loop, text, start, n, e)
    BY <2>7 DEF Loops
  <2> QED BY <1>3, <2>8
<1> QED BY <1>4, <1>5

\* The loop over one prefix after the other, a turn more each time.
Turns(loop, text, start, n, g) ==
  /\ g[1 .. 0] = start
  /\ \A k \in 1 .. n : g[1 .. k] = Turn(loop, text, g[1 .. (k - 1)], k)

LEMMA LoopSteps ==
  ASSUME NEW loop, NEW text, NEW start, NEW n \in Nat, NEW g, Loops(loop, text, start, n, g)
  PROVE  Turns(loop, text, start, n, g)
<1>1. \A s \in SUBSET (1 .. n) :
        g[s] = IF s = {} THEN start ELSE Turn(loop, text, g[s \ {Max(s)}], Max(s))
  BY DEF Loops
<1>2. 1 .. 0 = {} /\ 1 .. 0 \in SUBSET (1 .. n)
  OBVIOUS
<1>3. ASSUME NEW k \in 1 .. n PROVE g[1 .. k] = Turn(loop, text, g[1 .. (k - 1)], k)
  <2>1. 1 .. k \in SUBSET (1 .. n) /\ k \in Nat /\ k \in 1 .. k /\ 1 .. k # {} /\ 1 .. k \in SUBSET (1 .. k)
    OBVIOUS
  <2>2. Max(1 .. k) \in 1 .. k /\ \A y \in 1 .. k : y <= Max(1 .. k)
    BY <2>1, MaxOfPositions
  <2>3. Max(1 .. k) = k
    BY <2>1, <2>2
  <2>4. (1 .. k) \ {k} = 1 .. (k - 1)
    BY <2>1
  <2> QED BY <1>1, <2>1, <2>3, <2>4
<1>4. g[1 .. 0] = start
  BY <1>1, <1>2
<1> QED BY <1>3, <1>4 DEF Turns

\* The values of the two folds.
PutLoop(text, start, n, g) ==
  g = [s \in SUBSET (1 .. n) |-> IF s = {} THEN start ELSE put(g[s \ {Max(s)}], text[Max(s)])]
PrintLoop(text, start, n, g) ==
  g = [s \in SUBSET (1 .. n) |->
         IF s = {} THEN start ELSE print_to_console(g[s \ {Max(s)}], <<text[Max(s)]>>)]

\* What one turn after the other makes of the state.
PutRun(text, start, n, g) ==
  g[1 .. 0] = start /\ \A k \in 1 .. n : g[1 .. k] = put(g[1 .. (k - 1)], text[k])

LEMMA PutSteps ==
  ASSUME NEW text, NEW start, NEW n \in Nat, NEW g, PutLoop(text, start, n, g)
  PROVE  PutRun(text, start, n, g)
<1>1. Loops("put", text, start, n, g)
  BY DEF Loops, PutLoop, Turn
<1>2. Turns("put", text, start, n, g)
  BY <1>1, LoopSteps
<1> QED BY <1>2 DEF Turn, Turns, PutRun

LEMMA PutValue ==
  ASSUME NEW con, NEW text, Len(text) \in Nat, DOMAIN text = 1 .. Len(text),
         NEW from, from = [con |-> scroll(con), skip |-> FALSE]
  PROVE  \E g : /\ PutRun(text, from, Len(text), g)
                /\ print_to_console(con, text) = g[1 .. Len(text)].con
<1> DEFINE g == CHOOSE g : PutLoop(text, from, Len(text), g)
<1>1. \A f : Loops("put", text, from, Len(text), f) <=> PutLoop(text, from, Len(text), f)
  BY DEF Loops, PutLoop, Turn
<1>2. PutLoop(text, from, Len(text), g)
  BY <1>1, LoopsExist
<1>3. print_to_console(con, text) = g[1 .. Len(text)].con
  BY DEF print_to_console, FoldLeft, MapThenFoldSet, PutLoop
<1> HIDE DEF g
<1>4. PutRun(text, from, Len(text), g)
  BY <1>2, PutSteps
<1> QED BY <1>3, <1>4

LEMMA PrintValue ==
  ASSUME NEW con, NEW text, Len(text) \in Nat, DOMAIN text = 1 .. Len(text)
  PROVE  \E g : /\ g[1 .. 0] = con
                /\ \A k \in 1 .. Len(text) : g[1 .. k] = print_to_console(g[1 .. (k - 1)], <<text[k]>>)
                /\ write_to_console(con, text) = g[1 .. Len(text)]
<1> DEFINE g == CHOOSE g : PrintLoop(text, con, Len(text), g)
<1>1. \A f : Loops("print", text, con, Len(text), f) <=> PrintLoop(text, con, Len(text), f)
  BY DEF Loops, PrintLoop, Turn
<1>2. PrintLoop(text, con, Len(text), g)
  BY <1>1, LoopsExist
<1>3. write_to_console(con, text) = g[1 .. Len(text)]
  BY DEF write_to_console, FoldLeft, MapThenFoldSet, PrintLoop
<1> HIDE DEF g
<1>4. Loops("print", text, con, Len(text), g)
  BY <1>1, <1>2
<1>5. Turns("print", text, con, Len(text), g)
  BY <1>4, LoopSteps
<1> QED BY <1>3, <1>5 DEF Turn, Turns

-----------------------------------------------------------------------------
(***************************************************************************)
(* A console in the middle of a call.  Sane: nothing of the status row is  *)
(* in the text.  Inside: the cursor is in the text or behind its last      *)
(* cell.  TextKept: what stood below lo in v, within the text, stands      *)
(* there still, moved rows higher, and the cursor has not come back below  *)
(* it.  Kept: the status row is as it was in v, too.                       *)
(***************************************************************************)
Sane(con) ==
  /\ con = [ptr |-> con.ptr, video |-> con.video, moved |-> con.moved]
  /\ con.ptr \in Nat /\ con.moved \in Nat
  /\ DOMAIN con.video = 0 .. TextEnd + Cols - 1
  /\ \A i \in 0 .. TextEnd - 1 : con.video[i] \notin Marks

Inside(con) == Sane(con) /\ con.ptr <= TextEnd

TextKept(v, lo, con) ==
  /\ lo <= con.ptr + con.moved * Cols /\ lo <= TextEnd + con.moved * Cols
  /\ \A i \in 0 .. TextEnd - 1 : i + con.moved * Cols < lo => con.video[i] = v[i + con.moved * Cols]

Kept(v, lo, con) ==
  TextKept(v, lo, con) /\ \A i \in TextEnd .. TextEnd + Cols - 1 : con.video[i] = v[i]

\* The test before the first character.
LEMMA ScrollKeeps ==
  ASSUME NEW con, Sane(con)
  PROVE  LET c == scroll(con)
         IN  /\ Sane(c) /\ c.ptr < TextEnd
             /\ c = IF con.ptr >= TextEnd THEN [ptr |-> LastRow, video |-> c.video, moved |-> con.moved + 1] ELSE con
             /\ \A v : \A lo \in Nat : TextKept(v, lo, con) => TextKept(v, lo, c)
             /\ \A v : \A lo \in Nat : Kept(v, lo, con) => Kept(v, lo, c)
<1> DEFINE c == scroll(con)
           m == con.moved
<1>1. /\ con.ptr \in Nat /\ m \in Nat
      /\ DOMAIN con.video = 0 .. TextEnd + Cols - 1
      /\ \A i \in 0 .. TextEnd - 1 : con.video[i] \notin Marks
  BY Geometry DEF Sane
<1>2. m * Cols \in Nat /\ (m + 1) * Cols = m * Cols + Cols
  BY <1>1, OneRowMore
<1>3. CASE con.ptr < TextEnd
  <2>1. c = con /\ ~(con.ptr >= TextEnd)
    BY <1>1, <1>3, Geometry DEF scroll, full
  <2> HIDE DEF c
  <2>2. /\ Sane(c) /\ c.ptr < TextEnd
        /\ c = IF con.ptr >= TextEnd THEN [ptr |-> LastRow, video |-> c.video, moved |-> con.moved + 1] ELSE con
        /\ \A v : \A lo \in Nat : TextKept(v, lo, con) => TextKept(v, lo, c)
        /\ \A v : \A lo \in Nat : Kept(v, lo, con) => Kept(v, lo, c)
    BY <1>3, <2>1
  <2> QED BY <2>2 DEF c
<1>4. CASE con.ptr >= TextEnd
  <2> DEFINE w == last_row_cleared(copied_up(con.video))
             x == copied_up(con.video)
  <2>1. c = [ptr |-> LastRow, video |-> w, moved |-> m + 1]
    BY <1>4, Geometry DEF scroll, full
  <2>2. x = [i \in 0 .. TextEnd + Cols - 1 |-> IF i <= LastRow THEN con.video[i + Cols] ELSE con.video[i]]
    BY <1>1, Geometry DEF copied_up
  <2>3. DOMAIN x = 0 .. TextEnd + Cols - 1
        /\ \A i \in 0 .. TextEnd + Cols - 1 : x[i] = IF i <= LastRow THEN con.video[i + Cols] ELSE con.video[i]
    BY <2>2
  <2> HIDE DEF x
  <2>4. w = [i \in 0 .. TextEnd + Cols - 1 |-> IF i \in LastRow .. TextEnd - 1 THEN Blank ELSE x[i]]
    BY <2>3, Geometry DEF last_row_cleared, x
  <2>5. DOMAIN w = 0 .. TextEnd + Cols - 1
        /\ \A i \in 0 .. TextEnd + Cols - 1 : w[i] = IF i \in LastRow .. TextEnd - 1 THEN Blank ELSE x[i]
    BY <2>4
  <2> HIDE DEF w, c
  <2>6. \A i \in 0 .. TextEnd + Cols - 1 :
          /\ i < LastRow => w[i] = con.video[i + Cols]
          /\ LastRow <= i /\ i < TextEnd => w[i] = Blank
          /\ TextEnd <= i => w[i] = con.video[i]
    BY <2>3, <2>5, Geometry
  <2>7. \A i \in 0 .. TextEnd - 1 : w[i] \notin Marks
    <3> SUFFICES ASSUME NEW i \in 0 .. TextEnd - 1 PROVE w[i] \notin Marks
      OBVIOUS
    <3>1. i \in 0 .. TextEnd + Cols - 1 /\ (i < LastRow \/ (LastRow <= i /\ i < TextEnd))
          /\ (i < LastRow => i + Cols \in 0 .. TextEnd - 1)
      BY Geometry
    <3>2. Blank \notin Marks
      BY DEF Blank, Marks
    <3> QED BY <1>1, <2>6, <3>1, <3>2
  <2>8. \A i \in TextEnd .. TextEnd + Cols - 1 : w[i] = con.video[i]
    BY <1>1, <2>6, Geometry
  <2>9. c.ptr = LastRow /\ c.video = w /\ c.moved = m + 1
    BY <2>1
  <2>10. Sane(c) /\ c.ptr < TextEnd
    BY <1>1, <2>1, <2>5, <2>7, <2>9, Geometry, SMTT(60) DEF Sane
  <2>11. c.ptr + c.moved * Cols = TextEnd + m * Cols /\ TextEnd + c.moved * Cols = TextEnd + m * Cols + Cols
    BY <1>2, <2>9, Geometry
  <2>12. ASSUME NEW v, NEW lo \in Nat, TextKept(v, lo, con) PROVE TextKept(v, lo, c)
    <3>1. lo <= TextEnd + m * Cols
          /\ \A i \in 0 .. TextEnd - 1 : i + m * Cols < lo => con.video[i] = v[i + m * Cols]
      BY <2>12 DEF TextKept
    <3>2. lo <= c.ptr + c.moved * Cols /\ lo <= TextEnd + c.moved * Cols
      BY <1>2, <2>11, <3>1, Geometry
    <3>3. ASSUME NEW i \in 0 .. TextEnd - 1, i + c.moved * Cols < lo
          PROVE  c.video[i] = v[i + c.moved * Cols]
      <4> DEFINE d == m * Cols
      <4>1. c.moved * Cols = d + Cols /\ d \in Nat
        BY <1>2, <2>9
      <4>2. lo <= TextEnd + d /\ \A j \in 0 .. TextEnd - 1 : j + d < lo => con.video[j] = v[j + d]
        BY <3>1
      <4> HIDE DEF d
      <4>3. i + (d + Cols) < lo
        BY <3>3, <4>1
      <4>4. i < LastRow /\ i + Cols \in 0 .. TextEnd - 1 /\ (i + Cols) + d = i + (d + Cols)
            /\ i \in 0 .. TextEnd + Cols - 1
        BY <4>1, <4>2, <4>3, Geometry
      <4>5. con.video[i + Cols] = v[i + (d + Cols)]
        BY <4>2, <4>3, <4>4
      <4> QED BY <2>6, <2>9, <4>1, <4>4, <4>5
    <3> QED BY <3>2, <3>3 DEF TextKept
  <2>13. c = IF con.ptr >= TextEnd THEN [ptr |-> LastRow, video |-> c.video, moved |-> con.moved + 1] ELSE con
    BY <1>4, <2>1, <2>9
  <2>14. \A v : \A lo \in Nat : Kept(v, lo, con) => Kept(v, lo, c)
    BY <2>8, <2>9, <2>12 DEF Kept
  <2> QED BY <2>10, <2>12, <2>13, <2>14 DEF c
<1> QED BY <1>1, <1>3, <1>4, Geometry, SMTT(60)

LEMMA PrintOne ==
  ASSUME NEW con, NEW ch
  PROVE  print_to_console(con, <<ch>>) = put([con |-> scroll(con), skip |-> FALSE], ch).con
<1> DEFINE text == <<ch>>
           from == [con |-> scroll(con), skip |-> FALSE]
<1>1. Len(text) = 1 /\ DOMAIN text = 1 .. Len(text) /\ text[1] = ch
  OBVIOUS
<1>a. from = [con |-> scroll(con), skip |-> FALSE] /\ Len(text) \in Nat /\ DOMAIN text = 1 .. Len(text)
  OBVIOUS
<1> HIDE DEF text, from
<1>2. PICK g : PutRun(text, from, Len(text), g) /\ print_to_console(con, text) = g[1 .. Len(text)].con
  BY <1>a, PutValue
<1>3. g[1 .. 0] = from /\ \A k \in 1 .. 1 : g[1 .. k] = put(g[1 .. (k - 1)], text[k])
  BY <1>1, <1>2 DEF PutRun
<1>4. g[1 .. 1] = put(from, ch)
  <2>1. 1 \in 1 .. 1 /\ 1 - 1 = 0
    OBVIOUS
  <2>2. g[1 .. 1] = put(g[1 .. (1 - 1)], text[1])
    BY <1>3, <2>1
  <2> QED BY <1>1, <1>3, <2>1, <2>2
<1> QED BY <1>1, <1>2, <1>4 DEF text, from

LEMMA FieldsSet ==
  ASSUME NEW c, c = [ptr |-> c.ptr, video |-> c.video, moved |-> c.moved], NEW q, NEW w
  PROVE  [c EXCEPT !.ptr = q, !.video = w] = [ptr |-> q, video |-> w, moved |-> c.moved]
<1> DEFINE d == [c EXCEPT !.ptr = q, !.video = w]
           m == c.moved
<1>1. DOMAIN c = {"ptr", "video", "moved"} /\ c.moved = m
  OBVIOUS
<1> HIDE DEF m
<1>2. d = [x \in {"ptr", "video", "moved"} |-> d[x]] /\ d.ptr = q /\ d.video = w /\ d.moved = m
  BY <1>1
<1> HIDE DEF d
<1>3. d = [ptr |-> q, video |-> w, moved |-> m]
  BY <1>2
<1> QED BY <1>3 DEF d, m

\* A character of the text.
LEMMA PutChar ==
  ASSUME NEW con, Sane(con), NEW ch, ch \notin Marks \cup {NewLine, Return}
  PROVE  LET s == put([con |-> con, skip |-> FALSE], ch)
             c == s.con
         IN  /\ s = [con |-> c, skip |-> FALSE] /\ Sane(c)
             /\ c.ptr = con.ptr + 1 /\ c.moved = con.moved
             /\ con.ptr < TextEnd => c.video[con.ptr] = ch
             /\ \A v : \A lo \in Nat : TextKept(v, lo, con) => TextKept(v, lo, c)
             /\ \A v : \A lo \in Nat : con.ptr < TextEnd /\ Kept(v, lo, con) => Kept(v, lo, c)
<1> DEFINE w == Poke(con.video, con.ptr, ch)
           c == [ptr |-> con.ptr + 1, video |-> w, moved |-> con.moved]
<1>1. /\ con = [ptr |-> con.ptr, video |-> con.video, moved |-> con.moved]
      /\ con.ptr \in Nat /\ con.moved \in Nat
      /\ DOMAIN con.video = 0 .. TextEnd + Cols - 1
      /\ \A i \in 0 .. TextEnd - 1 : con.video[i] \notin Marks
  BY DEF Sane
<1>2. put([con |-> con, skip |-> FALSE], ch) =
        [con |-> [con EXCEPT !.ptr = @ + 1, !.video = Poke(@, con.ptr, ch)], skip |-> FALSE]
  BY DEF put
<1>3. [con EXCEPT !.ptr = @ + 1, !.video = Poke(@, con.ptr, ch)] = c
  <2> HIDE DEF w
  <2>1. [con EXCEPT !.ptr = @ + 1, !.video = Poke(@, con.ptr, ch)] = [con EXCEPT !.ptr = con.ptr + 1, !.video = w]
    BY DEF w
  <2>2. [con EXCEPT !.ptr = con.ptr + 1, !.video = w] = c
    BY <1>1, FieldsSet
  <2> QED BY <2>1, <2>2
<1>4. DOMAIN w = 0 .. TextEnd + Cols - 1
      /\ \A i \in 0 .. TextEnd + Cols - 1 : w[i] = IF i = con.ptr THEN ch ELSE con.video[i]
  BY <1>1 DEF Poke
<1> HIDE DEF w
<1>5. c = [ptr |-> c.ptr, video |-> c.video, moved |-> c.moved]
      /\ c.ptr = con.ptr + 1 /\ c.video = w /\ c.moved = con.moved
  OBVIOUS
<1> HIDE DEF c
<1>6. Sane(c)
  <2>1. con.ptr \in Nat /\ con.ptr + 1 \in Nat
    BY <1>1
  <2>2. ASSUME NEW i \in 0 .. TextEnd - 1 PROVE w[i] \notin Marks
    <3>1. i \in 0 .. TextEnd + Cols - 1
      BY Geometry
    <3> QED BY <1>1, <1>4, <3>1
  <2> QED BY <1>1, <1>4, <1>5, <2>1, <2>2 DEF Sane
<1>7. con.ptr < TextEnd => w[con.ptr] = ch
  BY <1>1, <1>4, Geometry
<1>8. ASSUME NEW v, NEW lo \in Nat, TextKept(v, lo, con) PROVE TextKept(v, lo, c)
  <2> DEFINE d == con.moved * Cols
  <2>1. d \in Nat
    BY <1>1, OneRowMore
  <2>2. lo <= con.ptr + d /\ lo <= TextEnd + d /\ \A i \in 0 .. TextEnd - 1 : i + d < lo => con.video[i] = v[i + d]
    BY <1>8 DEF TextKept
  <2>3. c.moved * Cols = d
    BY <1>5
  <2> HIDE DEF d
  <2>4. lo <= c.ptr + d
    BY <1>1, <1>5, <2>1, <2>2
  <2>5. ASSUME NEW i \in 0 .. TextEnd - 1, i + d < lo PROVE c.video[i] = v[i + d]
    <3>1. con.ptr \in Nat /\ lo <= con.ptr + d
      BY <1>1, <2>2
    <3>2. i # con.ptr /\ i \in 0 .. TextEnd + Cols - 1
      BY <2>1, <2>5, <3>1, Geometry
    <3> QED BY <1>4, <1>5, <2>2, <2>5, <3>2
  <2> QED BY <2>2, <2>3, <2>4, <2>5 DEF TextKept
<1>9. put([con |-> con, skip |-> FALSE], ch) = [con |-> c, skip |-> FALSE]
  BY <1>2, <1>3
<1>10. con.ptr < TextEnd => c.video[con.ptr] = ch
  BY <1>5, <1>7
<1>b. ASSUME NEW v, NEW lo \in Nat, con.ptr < TextEnd, Kept(v, lo, con) PROVE Kept(v, lo, c)
  <2>1. ASSUME NEW i \in TextEnd .. TextEnd + Cols - 1 PROVE c.video[i] = v[i]
    <3>1. i \in 0 .. TextEnd + Cols - 1 /\ i # con.ptr
      BY <1>1, <1>b, Geometry, SMTT(60)
    <3> QED BY <1>4, <1>5, <1>b, <3>1 DEF Kept
  <2> QED BY <1>8, <1>b, <2>1 DEF Kept
<1> DEFINE s == put([con |-> con, skip |-> FALSE], ch)
<1>a. s = [con |-> c, skip |-> FALSE]
  BY <1>9
<1> HIDE DEF s
<1>11. s = [con |-> s.con, skip |-> FALSE] /\ s.con = c
  BY <1>a
<1>12. /\ s = [con |-> s.con, skip |-> FALSE] /\ Sane(s.con)
       /\ s.con.ptr = con.ptr + 1 /\ s.con.moved = con.moved
       /\ con.ptr < TextEnd => s.con.video[con.ptr] = ch
       /\ \A v : \A lo \in Nat : TextKept(v, lo, con) => TextKept(v, lo, s.con)
       /\ \A v : \A lo \in Nat : con.ptr < TextEnd /\ Kept(v, lo, con) => Kept(v, lo, s.con)
  BY <1>5, <1>6, <1>8, <1>b, <1>10, <1>11
<1> QED BY <1>12 DEF s

\* A newline: the cursor goes to the next row, which may be the one behind the
\* text.
LEMMA PutNewLine ==
  ASSUME NEW con, Sane(con)
  PROVE  LET c == put([con |-> con, skip |-> FALSE], NewLine).con
         IN  /\ put([con |-> con, skip |-> FALSE], NewLine) = [con |-> c, skip |-> TRUE]
             /\ Sane(c) /\ c.moved = con.moved
             /\ c.ptr = Cols * (con.ptr \div Cols + 1) /\ con.ptr \div Cols \in Nat
             /\ con.ptr < TextEnd => Inside(c)
             /\ \A v : \A lo \in Nat : TextKept(v, lo, con) => TextKept(v, lo, c)
             /\ \A v : \A lo \in Nat : Kept(v, lo, con) => Kept(v, lo, c)
<1> DEFINE x == Cols * (con.ptr \div Cols + 1)
           c == [ptr |-> x, video |-> con.video, moved |-> con.moved]
<1>1. /\ con = [ptr |-> con.ptr, video |-> con.video, moved |-> con.moved]
      /\ con.ptr \in Nat /\ con.moved \in Nat
  BY DEF Sane
<1>2. put([con |-> con, skip |-> FALSE], NewLine) = [con |-> [con EXCEPT !.ptr = x], skip |-> TRUE]
  BY DEF put, NewLine, Return
<1>3. [con EXCEPT !.ptr = x] = c
  BY <1>1
<1>4. con.ptr \div Cols \in Nat /\ x \in Nat /\ con.ptr < x /\ (con.ptr < TextEnd => x <= TextEnd)
  <2>1. /\ con.ptr \div Cols \in Nat /\ Cols * (con.ptr \div Cols) \in Nat
        /\ con.ptr < Cols * (con.ptr \div Cols) + Cols
        /\ con.ptr < TextEnd => Cols * (con.ptr \div Cols) + Cols <= TextEnd
        /\ x = Cols * (con.ptr \div Cols) + Cols
    BY <1>1, RowOf
  <2> QED BY <2>1, Geometry
<1> HIDE DEF x
<1>5. c = [ptr |-> c.ptr, video |-> c.video, moved |-> c.moved]
      /\ c.ptr = x /\ c.video = con.video /\ c.moved = con.moved
  OBVIOUS
<1> HIDE DEF c
<1>6. Sane(c) /\ (con.ptr < TextEnd => Inside(c))
  BY <1>4, <1>5, Geometry DEF Sane, Inside
<1>7. ASSUME NEW v, NEW lo \in Nat, TextKept(v, lo, con) PROVE TextKept(v, lo, c)
  <2>1. con.moved * Cols \in Nat
    BY <1>1, OneRowMore
  <2>2. lo <= con.ptr + con.moved * Cols /\ lo <= TextEnd + con.moved * Cols
        /\ \A i \in 0 .. TextEnd - 1 : i + con.moved * Cols < lo => con.video[i] = v[i + con.moved * Cols]
    BY <1>7 DEF TextKept
  <2>3. lo <= c.ptr + con.moved * Cols
    BY <1>1, <1>4, <1>5, <2>1, <2>2
  <2> QED BY <1>5, <2>2, <2>3 DEF TextKept
<1>8. \A v : \A lo \in Nat : Kept(v, lo, con) => Kept(v, lo, c)
  BY <1>5, <1>7 DEF Kept
<1>9. put([con |-> con, skip |-> FALSE], NewLine) = [con |-> c, skip |-> TRUE]
  BY <1>2, <1>3
<1> DEFINE s == put([con |-> con, skip |-> FALSE], NewLine)
<1>10. s = [con |-> c, skip |-> TRUE]
  BY <1>9
<1> HIDE DEF s
<1>11. s.con = c
  BY <1>10
<1>12. /\ s = [con |-> s.con, skip |-> TRUE]
       /\ Sane(s.con) /\ s.con.moved = con.moved
       /\ s.con.ptr = x /\ con.ptr \div Cols \in Nat
       /\ con.ptr < TextEnd => Inside(s.con)
       /\ \A v : \A lo \in Nat : TextKept(v, lo, con) => TextKept(v, lo, s.con)
       /\ \A v : \A lo \in Nat : Kept(v, lo, con) => Kept(v, lo, s.con)
  BY <1>4, <1>5, <1>6, <1>7, <1>8, <1>10, <1>11, ZenonT(60)
<1> QED BY <1>12 DEF s, x

\* A return at the beginning of a row changes nothing.
LEMMA PutReturn ==
  ASSUME NEW con, Sane(con), NEW k \in Nat, con.ptr = Cols * k
  PROVE  put([con |-> con, skip |-> FALSE], Return).con = con
<1>1. con = [ptr |-> con.ptr, video |-> con.video, moved |-> con.moved]
  BY DEF Sane
<1>2. put([con |-> con, skip |-> FALSE], Return).con = [con EXCEPT !.ptr = Cols * (con.ptr \div Cols)]
  BY DEF put, Return, NewLine
<1>3. con.ptr \div Cols = k
  BY RowBegin
<1>4. [con EXCEPT !.ptr = con.ptr] = con
  BY <1>1
<1> QED BY <1>2, <1>3, <1>4

\* kprintf("%c"): one character, with the test for a full screen before it.
LEMMA PrintChar ==
  ASSUME NEW con, Sane(con), NEW ch, ch \notin Marks \cup {NewLine, Return}
  PROVE  LET c == print_to_console(con, <<ch>>)
         IN  /\ Inside(c)
             /\ c.moved = (IF con.ptr >= TextEnd THEN con.moved + 1 ELSE con.moved)
             /\ c.ptr = (IF con.ptr >= TextEnd THEN LastRow ELSE con.ptr) + 1
             /\ c.video[c.ptr - 1] = ch
             /\ \A v : \A lo \in Nat : Kept(v, lo, con) => Kept(v, lo, c)
<1> DEFINE d == scroll(con)
           c == put([con |-> d, skip |-> FALSE], ch).con
<1>1. /\ Sane(d) /\ d.ptr < TextEnd
      /\ d = (IF con.ptr >= TextEnd THEN [ptr |-> LastRow, video |-> d.video, moved |-> con.moved + 1] ELSE con)
      /\ \A v : \A lo \in Nat : Kept(v, lo, con) => Kept(v, lo, d)
  BY ScrollKeeps
<1>2. d.ptr = (IF con.ptr >= TextEnd THEN LastRow ELSE con.ptr)
      /\ d.moved = (IF con.ptr >= TextEnd THEN con.moved + 1 ELSE con.moved)
  BY <1>1
<1>3. print_to_console(con, <<ch>>) = c
  BY PrintOne
<1> HIDE DEF d
<1>4. /\ Sane(c) /\ c.ptr = d.ptr + 1 /\ c.moved = d.moved /\ c.video[d.ptr] = ch
      /\ \A v : \A lo \in Nat : Kept(v, lo, d) => Kept(v, lo, c)
  BY <1>1, PutChar
<1> HIDE DEF c
<1>5. c.ptr - 1 = d.ptr /\ Inside(c)
  <2>1. d.ptr \in Nat
    BY <1>1 DEF Sane
  <2> QED BY <1>1, <1>4, <2>1, Geometry, SMTT(60) DEF Inside
<1>6. c.video[c.ptr - 1] = ch
  BY <1>4, <1>5
<1>7. \A v : \A lo \in Nat : Kept(v, lo, con) => Kept(v, lo, c)
  BY <1>1, <1>4
<1> QED BY <1>2, <1>3, <1>4, <1>5, <1>6, <1>7

LEMMA PrintNewLine ==
  ASSUME NEW con, Sane(con)
  PROVE  LET c == print_to_console(con, <<NewLine>>)
         IN  /\ Inside(c) /\ \E k \in Nat : c.ptr = Cols * k
             /\ \A v : \A lo \in Nat : Kept(v, lo, con) => Kept(v, lo, c)
<1> DEFINE d == scroll(con)
           c == put([con |-> d, skip |-> FALSE], NewLine).con
<1>1. /\ Sane(d) /\ d.ptr < TextEnd
      /\ \A v : \A lo \in Nat : Kept(v, lo, con) => Kept(v, lo, d)
  BY ScrollKeeps
<1>2. print_to_console(con, <<NewLine>>) = c
  BY PrintOne
<1> HIDE DEF d
<1>3. /\ Inside(c) /\ c.ptr = Cols * (d.ptr \div Cols + 1) /\ d.ptr \div Cols \in Nat
      /\ \A v : \A lo \in Nat : Kept(v, lo, d) => Kept(v, lo, c)
  BY <1>1, PutNewLine
<1> HIDE DEF c
<1>4. \E k \in Nat : c.ptr = Cols * k
  <2>1. d.ptr \div Cols + 1 \in Nat
    BY <1>3
  <2> QED BY <1>3, <2>1
<1>5. \A v : \A lo \in Nat : Kept(v, lo, con) => Kept(v, lo, c)
  BY <1>1, <1>3
<1> QED BY <1>2, <1>3, <1>4, <1>5

\* The echo of Enter: a newline and a return, each by a call of its own.
LEMMA PrintEnter ==
  ASSUME NEW con, Sane(con)
  PROVE  LET c == print_to_console(print_to_console(con, <<NewLine>>), <<Return>>)
         IN  Inside(c) /\ \A v : \A lo \in Nat : Kept(v, lo, con) => Kept(v, lo, c)
<1> DEFINE a == print_to_console(con, <<NewLine>>)
           d == scroll(a)
<1>1. /\ Sane(a) /\ \E k \in Nat : a.ptr = Cols * k
      /\ \A v : \A lo \in Nat : Kept(v, lo, con) => Kept(v, lo, a)
  BY PrintNewLine DEF Inside
<1> HIDE DEF a
<1>2. /\ Sane(d) /\ d.ptr < TextEnd
      /\ d = IF a.ptr >= TextEnd THEN [ptr |-> LastRow, video |-> d.video, moved |-> a.moved + 1] ELSE a
      /\ \A v : \A lo \in Nat : Kept(v, lo, a) => Kept(v, lo, d)
  BY <1>1, ScrollKeeps
<1>3. print_to_console(a, <<Return>>) = put([con |-> d, skip |-> FALSE], Return).con
  BY PrintOne
<1> HIDE DEF d
<1>4. \E k \in Nat : d.ptr = Cols * k
  <2>1. CASE a.ptr >= TextEnd
    <3>1. d.ptr = LastRow /\ Rows - 1 \in Nat /\ LastRow = Cols * (Rows - 1)
      BY <1>2, <2>1, Geometry
    <3> QED BY <3>1
  <2>2. CASE ~(a.ptr >= TextEnd)
    BY <1>1, <1>2, <2>2
  <2> QED BY <2>1, <2>2
<1>5. put([con |-> d, skip |-> FALSE], Return).con = d
  BY <1>2, <1>4, PutReturn
<1>6. \A v : \A lo \in Nat : Kept(v, lo, con) => Kept(v, lo, d)
  BY <1>1, <1>2
<1>7. print_to_console(a, <<Return>>) = d
  BY <1>3, <1>5
<1>8. Inside(d)
  BY <1>2, Geometry DEF Inside, Sane
<1> QED BY <1>6, <1>7, <1>8 DEF a

\* write_to_console: any text, character by character.
LEMMA WriteKeeps ==
  ASSUME NEW con, Sane(con), NEW text, Len(text) \in Nat \ {0}, DOMAIN text = 1 .. Len(text),
         \A i \in DOMAIN text : text[i] \notin Marks \cup {Return}
  PROVE  LET c == write_to_console(con, text)
         IN  Inside(c) /\ \A v : \A lo \in Nat : Kept(v, lo, con) => Kept(v, lo, c)
<1>1. PICK g : /\ g[1 .. 0] = con
               /\ \A k \in 1 .. Len(text) : g[1 .. k] = print_to_console(g[1 .. (k - 1)], <<text[k]>>)
               /\ write_to_console(con, text) = g[1 .. Len(text)]
  BY PrintValue, SMTT(60)
<1> DEFINE Fine(c) == Sane(c) /\ \A v : \A lo \in Nat : Kept(v, lo, con) => Kept(v, lo, c)
           Bad == {k \in 0 .. Len(text) : ~Fine(g[1 .. k])}
<1>2. ASSUME NEW k \in 1 .. Len(text), Fine(g[1 .. (k - 1)])
      PROVE  Fine(g[1 .. k]) /\ Inside(g[1 .. k])
  <2> DEFINE b == g[1 .. (k - 1)]
             ch == text[k]
  <2>1. g[1 .. k] = print_to_console(b, <<ch>>)
    BY <1>1
  <2>2. Sane(b) /\ ch \notin Marks \cup {Return}
    BY <1>2
  <2>3. \A v : \A lo \in Nat : Kept(v, lo, con) => Kept(v, lo, b)
    BY <1>2
  <2> HIDE DEF b, ch, Fine
  <2>4. /\ Inside(print_to_console(b, <<ch>>))
        /\ \A v : \A lo \in Nat : Kept(v, lo, b) => Kept(v, lo, print_to_console(b, <<ch>>))
    <3>1. CASE ch = NewLine
      BY <2>2, <3>1, PrintNewLine
    <3>2. CASE ch # NewLine
      BY <2>2, <3>2, PrintChar
    <3> QED BY <3>1, <3>2
  <2>5. Fine(print_to_console(b, <<ch>>))
    BY <2>3, <2>4 DEF Fine, Inside
  <2> QED BY <2>1, <2>4, <2>5
<1>3. Bad = {}
  <2> SUFFICES ASSUME Bad # {} PROVE FALSE
    OBVIOUS
  <2>1. PICK k \in Bad : \A j \in Bad : k <= j
    <3>1. Bad \subseteq Nat
      OBVIOUS
    <3> HIDE DEF Bad
    <3> QED BY <3>1, LeastElement
  <2>2. k \in 0 .. Len(text) /\ ~Fine(g[1 .. k])
    BY <2>1
  <2>3. k # 0
    BY <1>1, <2>2
  <2>4. k - 1 \in 0 .. Len(text) /\ k \in 1 .. Len(text) /\ ~(k <= k - 1)
    BY <2>2, <2>3
  <2> HIDE DEF Fine
  <2>5. Fine(g[1 .. (k - 1)])
    BY <2>1, <2>4
  <2> QED BY <1>2, <2>2, <2>4, <2>5
<1>4. Fine(g[1 .. Len(text)]) /\ Inside(g[1 .. Len(text)])
  <2>1. Len(text) \in 1 .. Len(text) /\ Len(text) - 1 \in 0 .. Len(text)
    OBVIOUS
  <2> HIDE DEF Fine
  <2>2. Fine(g[1 .. (Len(text) - 1)])
    BY <1>3, <2>1
  <2> QED BY <1>2, <2>1, <2>2
<1> QED BY <1>1, <1>4

\* kprintf, any message: it goes on behind the end of the text, but it writes at
\* the cursor and the cursor only goes forward.
LEMMA AnyMessage ==
  ASSUME NEW con, Sane(con), NEW text, Len(text) \in Nat, DOMAIN text = 1 .. Len(text),
         \A i \in DOMAIN text : text[i] \notin Marks \cup {Return}
  PROVE  LET c == print_to_console(con, text)
         IN  Sane(c) /\ \A v : \A lo \in Nat : TextKept(v, lo, con) => TextKept(v, lo, c)
<1> DEFINE n == Len(text)
           from == [con |-> scroll(con), skip |-> FALSE]
           Fine(c) == Sane(c) /\ \A v : \A lo \in Nat : TextKept(v, lo, con) => TextKept(v, lo, c)
           On(s) == (s = [con |-> s.con, skip |-> TRUE] \/ s = [con |-> s.con, skip |-> FALSE]) /\ Fine(s.con)
<1>1. PICK g : PutRun(text, from, n, g) /\ print_to_console(con, text) = g[1 .. n].con
  <2>1. from = [con |-> scroll(con), skip |-> FALSE]
    OBVIOUS
  <2> HIDE DEF from
  <2> QED BY <2>1, PutValue
<1>2. g[1 .. 0] = from /\ \A k \in 1 .. n : g[1 .. k] = put(g[1 .. (k - 1)], text[k])
  BY <1>1 DEF PutRun
<1>3. On(from)
  <2>1. from = [con |-> from.con, skip |-> FALSE] /\ from.con = scroll(con)
    OBVIOUS
  <2>2. Fine(scroll(con))
    BY ScrollKeeps
  <2> HIDE DEF from, Fine
  <2> QED BY <2>1, <2>2
<1> HIDE DEF from
<1>4. ASSUME NEW s, On(s), NEW ch, ch \notin Marks \cup {Return} PROVE On(put(s, ch))
  <2>1. Sane(s.con) /\ Fine(s.con)
    BY <1>4
  <2> DEFINE e == put(s, ch)
  <2>2. CASE s = [con |-> s.con, skip |-> TRUE]
    <3>1. s.skip = TRUE /\ [s EXCEPT !.skip = FALSE] = [con |-> s.con, skip |-> FALSE]
      <4> DEFINE c == s.con
      <4>1. s = [con |-> c, skip |-> TRUE]
        BY <2>2
      <4> HIDE DEF c
      <4>2. s.skip = TRUE /\ DOMAIN s = {"con", "skip"} /\ s.con = c
        BY <4>1
      <4> DEFINE d == [s EXCEPT !.skip = FALSE]
      <4>3. d = [x \in {"con", "skip"} |-> d[x]] /\ d.con = c /\ d.skip = FALSE
        BY <4>2
      <4> HIDE DEF d
      <4>4. d = [con |-> c, skip |-> FALSE]
        BY <4>3
      <4> QED BY <4>2, <4>4 DEF c, d
    <3>2. e = [con |-> s.con, skip |-> FALSE]
      BY <3>1 DEF put
    <3> HIDE DEF e, Fine
    <3>3. e.con = s.con /\ e = [con |-> e.con, skip |-> FALSE]
      BY <3>2
    <3>4. On(e)
      BY <2>1, <3>3
    <3> QED BY <3>4 DEF e
  <2>3. CASE s = [con |-> s.con, skip |-> FALSE]
    <3> DEFINE c == s.con
    <3>1. e = put([con |-> c, skip |-> FALSE], ch)
      BY <2>3
    <3>2. CASE ch = NewLine
      <4>1. /\ e = [con |-> e.con, skip |-> TRUE] /\ Sane(e.con)
            /\ \A v : \A lo \in Nat : TextKept(v, lo, c) => TextKept(v, lo, e.con)
        BY <2>1, <3>1, <3>2, PutNewLine
      <4> HIDE DEF e
      <4>2. Fine(e.con)
        BY <2>1, <4>1
      <4> HIDE DEF Fine
      <4>3. On(e)
        BY <4>1, <4>2
      <4> QED BY <4>3 DEF e
    <3>3. CASE ch # NewLine
      <4>1. /\ e = [con |-> e.con, skip |-> FALSE] /\ Sane(e.con)
            /\ \A v : \A lo \in Nat : TextKept(v, lo, c) => TextKept(v, lo, e.con)
        <5>1. ch \notin Marks \cup {NewLine, Return}
          BY <1>4, <3>3
        <5> HIDE DEF e
        <5> QED BY <2>1, <3>1, <5>1, PutChar
      <4> HIDE DEF e
      <4>2. Fine(e.con)
        BY <2>1, <4>1
      <4> HIDE DEF Fine
      <4>3. On(e)
        BY <4>1, <4>2
      <4> QED BY <4>3 DEF e
    <3> QED BY <3>2, <3>3
  <2> QED BY <1>4, <2>2, <2>3
<1> DEFINE Bad == {k \in 0 .. n : ~On(g[1 .. k])}
<1> HIDE DEF On, Fine
<1>5. Bad = {}
  <2> SUFFICES ASSUME Bad # {} PROVE FALSE
    OBVIOUS
  <2>1. PICK k \in Bad : \A j \in Bad : k <= j
    <3>1. Bad \subseteq Nat
      OBVIOUS
    <3> HIDE DEF Bad
    <3> QED BY <3>1, LeastElement
  <2>2. k \in 0 .. n /\ ~On(g[1 .. k])
    BY <2>1
  <2>3. k # 0
    BY <1>2, <1>3, <2>2
  <2>4. k - 1 \in 0 .. n /\ k \in 1 .. n /\ ~(k <= k - 1)
    BY <2>2, <2>3
  <2>5. On(g[1 .. (k - 1)]) /\ text[k] \notin Marks \cup {Return}
    BY <2>1, <2>4
  <2> QED BY <1>2, <1>4, <2>2, <2>4, <2>5
<1>6. On(g[1 .. n])
  <2>1. n \in 0 .. n
    OBVIOUS
  <2> QED BY <1>5, <2>1
<1>7. Fine(g[1 .. n].con)
  BY <1>6 DEF On
<1> QED BY <1>1, <1>7 DEF Fine

\* kprintf: the screen moves before the first character only, and a message that
\* ends in its row or with a newline needs no more.
LEMMA MessageKeeps ==
  ASSUME NEW con, Sane(con), NEW text, Len(text) \in Nat, DOMAIN text = 1 .. Len(text),
         \A i \in DOMAIN text : text[i] \notin Marks \cup {Return},
         (scroll(con).ptr % Cols) + Len(text) <= Cols,
         \A i \in 1 .. Len(text) - 1 : text[i] # NewLine
  PROVE  LET c == print_to_console(con, text)
         IN  Inside(c) /\ \A v : \A lo \in Nat : Kept(v, lo, con) => Kept(v, lo, c)
<1> DEFINE d == scroll(con)
           b == d.ptr
           n == Len(text)
           from == [con |-> d, skip |-> FALSE]
           Fine(c) == Inside(c) /\ \A v : \A lo \in Nat : Kept(v, lo, con) => Kept(v, lo, c)
<1>1. Sane(d) /\ b < TextEnd /\ b \in Nat /\ Fine(d)
  <2>1. /\ Sane(d) /\ d.ptr < TextEnd
        /\ \A v : \A lo \in Nat : Kept(v, lo, con) => Kept(v, lo, d)
    BY ScrollKeeps
  <2>2. b \in Nat
    BY <2>1 DEF Sane
  <2> HIDE DEF d
  <2> QED BY <2>1, <2>2, Geometry DEF Inside
<1>2. b + n <= TextEnd
  <2>1. /\ Cols * (b \div Cols) \in Nat /\ Cols * (b \div Cols) + Cols <= TextEnd
        /\ b % Cols = b - Cols * (b \div Cols)
    BY <1>1, RowOf
  <2>2. (b % Cols) + n <= Cols
    OBVIOUS
  <2> HIDE DEF b, n
  <2>3. n \in Nat
    BY DEF n
  <2> QED BY <1>1, <2>1, <2>2, <2>3, Geometry
<1>3. PICK g : PutRun(text, from, n, g) /\ print_to_console(con, text) = g[1 .. n].con
  <2>1. from = [con |-> scroll(con), skip |-> FALSE]
    OBVIOUS
  <2> HIDE DEF from
  <2> QED BY <2>1, PutValue
<1>4. g[1 .. 0] = from /\ \A k \in 1 .. n : g[1 .. k] = put(g[1 .. (k - 1)], text[k])
  BY <1>3 DEF PutRun
<1> DEFINE On(k) == g[1 .. k] = [con |-> g[1 .. k].con, skip |-> FALSE]
                    /\ Fine(g[1 .. k].con) /\ g[1 .. k].con.ptr = b + k
           Bad == {k \in 0 .. n : (k = 0 \/ k < n) /\ ~On(k)}
<1> HIDE DEF d, n
<1>5. On(0)
  <2>1. g[1 .. 0].con = d /\ b + 0 = b
    BY <1>1, <1>4
  <2> QED BY <1>1, <1>4, <2>1
<1>6. n \in Nat
  BY DEF n
<1>7. ASSUME NEW k \in 1 .. n, On(k - 1), text[k] # NewLine PROVE On(k)
  <2> DEFINE c == g[1 .. (k - 1)].con
             ch == text[k]
             e == put([con |-> c, skip |-> FALSE], ch)
  <2>1. g[1 .. (k - 1)] = [con |-> c, skip |-> FALSE] /\ Fine(c) /\ c.ptr = b + (k - 1)
    BY <1>7
  <2>2. Sane(c) /\ c.ptr < TextEnd
    BY <1>1, <1>2, <1>6, <2>1, Geometry DEF Inside
  <2>3. ch \notin Marks \cup {NewLine, Return}
    BY <1>7 DEF n
  <2>4. g[1 .. k] = e
    BY <1>4, <2>1
  <2> HIDE DEF c, ch
  <2>5. /\ e = [con |-> e.con, skip |-> FALSE] /\ Sane(e.con)
        /\ e.con.ptr = c.ptr + 1
        /\ \A v : \A lo \in Nat : Kept(v, lo, c) => Kept(v, lo, e.con)
    BY <2>2, <2>3, PutChar
  <2> HIDE DEF e
  <2>6. e.con.ptr = b + k
    BY <1>1, <1>6, <2>1, <2>5
  <2>7. Fine(e.con)
    <3>1. b + k <= TextEnd
      BY <1>1, <1>2, <1>6, Geometry
    <3>2. Inside(e.con)
      BY <2>5, <2>6, <3>1 DEF Inside
    <3> QED BY <2>1, <2>2, <2>5, <3>2
  <2> HIDE DEF Fine
  <2> QED BY <2>4, <2>5, <2>6, <2>7
<1>8. Bad = {}
  <2> SUFFICES ASSUME Bad # {} PROVE FALSE
    OBVIOUS
  <2>1. PICK k \in Bad : \A j \in Bad : k <= j
    <3>1. Bad \subseteq Nat
      BY <1>6
    <3> HIDE DEF Bad
    <3> QED BY <3>1, LeastElement
  <2> HIDE DEF On
  <2>2. k \in 0 .. n /\ k < n /\ k # 0 /\ ~On(k)
    BY <1>5, <2>1
  <2>3. k - 1 \in 0 .. n /\ k - 1 < n /\ k \in 1 .. n /\ k \in 1 .. n - 1 /\ ~(k <= k - 1)
    BY <1>6, <2>2
  <2>4. On(k - 1)
    BY <2>1, <2>3
  <2>5. text[k] # NewLine
    BY <2>3 DEF n
  <2> QED BY <1>7, <2>2, <2>3, <2>4, <2>5
<1>9. Fine(g[1 .. n].con)
  <2>1. CASE n = 0
    BY <1>5, <2>1
  <2>2. CASE n # 0
    <3>1. n - 1 \in 0 .. n /\ n - 1 < n /\ n \in 1 .. n
      BY <1>6, <2>2
    <3>2. On(n - 1)
      <4> HIDE DEF On
      <4> QED BY <1>8, <3>1
    <3>3. CASE text[n] # NewLine
      <4>1. On(n)
        <5> HIDE DEF On
        <5> QED BY <1>7, <3>1, <3>2, <3>3
      <4> QED BY <4>1
    <3>4. CASE text[n] = NewLine
      <4> DEFINE c == g[1 .. (n - 1)].con
                 e == put([con |-> c, skip |-> FALSE], NewLine).con
      <4>1. g[1 .. (n - 1)] = [con |-> c, skip |-> FALSE] /\ Fine(c) /\ c.ptr = b + (n - 1)
        BY <3>2
      <4>2. Sane(c) /\ c.ptr < TextEnd
        BY <1>1, <1>2, <1>6, <4>1, Geometry DEF Inside
      <4>3. g[1 .. n].con = e
        BY <1>4, <3>1, <3>4, <4>1
      <4> HIDE DEF c
      <4>4. Inside(e) /\ \A v : \A lo \in Nat : Kept(v, lo, c) => Kept(v, lo, e)
        BY <4>2, PutNewLine
      <4> HIDE DEF e
      <4>5. Fine(e)
        BY <4>1, <4>4
      <4> HIDE DEF Fine
      <4> QED BY <4>3, <4>5
    <3> QED BY <3>3, <3>4
  <2> QED BY <2>1, <2>2
<1> QED BY <1>3, <1>9

\* print_key's control-h, behind at least two characters.
LEMMA ErasedKeeps ==
  ASSUME NEW con, Inside(con), con.ptr >= 2
  PROVE  LET c == erased(con)
         IN  /\ Inside(c) /\ c.ptr = con.ptr - 2 /\ c.moved = con.moved
             /\ \A v : \A lo \in Nat :
                  Kept(v, lo, con) /\ lo <= con.ptr - 2 + con.moved * Cols => Kept(v, lo, c)
<1> DEFINE w == Poke(Poke(con.video, con.ptr - 1, Blank), con.ptr - 2, Blank)
           c == [ptr |-> con.ptr - 2, video |-> w, moved |-> con.moved]
<1>1. /\ con = [ptr |-> con.ptr, video |-> con.video, moved |-> con.moved]
      /\ con.ptr \in Nat /\ con.ptr <= TextEnd /\ con.moved \in Nat
      /\ DOMAIN con.video = 0 .. TextEnd + Cols - 1
      /\ \A i \in 0 .. TextEnd - 1 : con.video[i] \notin Marks
  BY Geometry DEF Sane, Inside
<1>2. erased(con) = c
  <2>1. erased(con) = [con EXCEPT !.ptr = con.ptr - 2, !.video = w]
    BY <1>1 DEF erased
  <2> HIDE DEF w
  <2>2. [con EXCEPT !.ptr = con.ptr - 2, !.video = w] = c
    BY <1>1, FieldsSet
  <2> QED BY <2>1, <2>2
<1>3. DOMAIN w = 0 .. TextEnd + Cols - 1
      /\ \A i \in 0 .. TextEnd + Cols - 1 :
           w[i] = IF i \in {con.ptr - 1, con.ptr - 2} THEN Blank ELSE con.video[i]
  BY <1>1 DEF Poke
<1> HIDE DEF w
<1>4. c = [ptr |-> c.ptr, video |-> c.video, moved |-> c.moved]
      /\ c.ptr = con.ptr - 2 /\ c.video = w /\ c.moved = con.moved
  OBVIOUS
<1> HIDE DEF c
<1>5. con.ptr \in Nat /\ con.ptr <= TextEnd /\ con.ptr >= 2
  BY <1>1
<1>6. Inside(c)
  <2>1. ASSUME NEW i \in 0 .. TextEnd - 1 PROVE w[i] \notin Marks
    <3>1. i \in 0 .. TextEnd + Cols - 1
      BY Geometry
    <3> QED BY <1>1, <1>3, <3>1 DEF Blank, Marks
  <2>3. c.ptr \in Nat /\ c.ptr <= TextEnd
    BY <1>4, <1>5, Geometry
  <2> QED BY <1>1, <1>3, <1>4, <2>1, <2>3 DEF Sane, Inside
<1>7. ASSUME NEW v, NEW lo \in Nat, Kept(v, lo, con), lo <= con.ptr - 2 + con.moved * Cols PROVE Kept(v, lo, c)
  <2> DEFINE e == con.moved * Cols
  <2>1. e \in Nat /\ lo <= con.ptr - 2 + e /\ c.moved * Cols = e
    BY <1>1, <1>4, <1>7, OneRowMore
  <2>2. lo <= TextEnd + e /\ \A i \in 0 .. TextEnd - 1 : i + e < lo => con.video[i] = v[i + e]
    BY <1>7 DEF Kept, TextKept
  <2> HIDE DEF e
  <2>3. ASSUME NEW i \in 0 .. TextEnd - 1, i + e < lo PROVE c.video[i] = v[i + e]
    <3>1. i \notin {con.ptr - 1, con.ptr - 2} /\ i \in 0 .. TextEnd + Cols - 1
      BY <1>5, <2>1, <2>3, Geometry
    <3> QED BY <1>3, <1>4, <2>2, <2>3, <3>1
  <2>4. TextKept(v, lo, c)
    BY <1>4, <2>1, <2>2, <2>3 DEF TextKept
  <2>5. ASSUME NEW i \in TextEnd .. TextEnd + Cols - 1 PROVE c.video[i] = v[i]
    <3>1. i \in 0 .. TextEnd + Cols - 1 /\ i \notin {con.ptr - 1, con.ptr - 2}
      BY <1>5, Geometry
    <3> QED BY <1>3, <1>4, <1>7, <3>1 DEF Kept
  <2> QED BY <2>4, <2>5 DEF Kept
<1>8. /\ Inside(c) /\ c.ptr = con.ptr - 2 /\ c.moved = con.moved
      /\ \A v : \A lo \in Nat :
           Kept(v, lo, con) /\ lo <= con.ptr - 2 + con.moved * Cols => Kept(v, lo, c)
  BY <1>4, <1>6, <1>7
<1> QED BY <1>2, <1>8

-----------------------------------------------------------------------------
(***************************************************************************)
(* The inductive invariant of terminal and screen: the ring's, a console   *)
(* in order between calls, and the line that is being typed on the screen, *)
(* within the text even after a message of the kernel that went beyond it. *)
(* The line must be shorter than the rows that stay when the screen moves. *)
(***************************************************************************)
Shows(v, p, line) ==
  /\ p - Len(line) >= 0
  /\ \A i \in 1 .. Len(line) : v[p - Len(line) + i - 1] = line[i]

ScreenInv ==
  /\ RingInv /\ Sane(Console) /\ Shows(video, array_pointer, PartialLine)
  /\ array_pointer > TextEnd => PartialLine = <<>>

\* What a step may do to the text above the line.
MovesWhole ==
  \A i \in TextCells :
    i + moved' * Cols < array_pointer - Len(PartialLine) /\ i + moved' * Cols \in TextCells =>
      video'[i] = video[i + moved' * Cols]

\* What a step that does not run over may do to the status row.
Apart ==
  /\ \A i \in StatusCells : video'[i] \in {video[i]} \cup Marks
  /\ array_pointer' \in 0 .. Rows * Cols \/ UNCHANGED array_pointer

LEMMA ShowsNothing == ASSUME NEW v, NEW p \in Nat PROVE Shows(v, p, <<>>)
<1>1. Len(<<>>) = 0 /\ p - 0 >= 0 /\ 1 .. 0 = {}
  OBVIOUS
<1> QED BY <1>1 DEF Shows

LEMMA LineTyped ==
  ASSUME RingInv
  PROVE  PartialLine \in Seq(AllChars) /\ Len(PartialLine) \in Nat /\ Len(PartialLine) < ReadSize
<1>1. Unread \in Seq(AllChars)
  BY RingTypes
<1>2. PartialLine \in Seq(AllChars)
  BY <1>1, Mapped, LinesType
<1>3. Len(PartialLine) \in Nat
  BY <1>2
<1> QED BY <1>2, <1>3 DEF RingInv

LEMMA ConsoleParts ==
  /\ Console.ptr = array_pointer /\ Console.video = video /\ Console.moved = 0
  /\ Console' = [ptr |-> array_pointer', video |-> video', moved |-> 0]
  /\ Sane(Console) => array_pointer \in Nat
BY Geometry DEF Console, Sane

LEMMA StartKept ==
  ASSUME Sane(Console), NEW lo \in Nat, lo <= array_pointer, lo <= TextEnd
  PROVE  Kept(video, lo, Console)
<1>1. Console.moved * Cols = 0
  BY ConsoleParts, OneRowMore
<1>2. \A i \in 0 .. TextEnd - 1 : i + 0 = i
  OBVIOUS
<1>3. array_pointer + 0 = array_pointer /\ TextEnd + 0 = TextEnd
  BY ConsoleParts, Geometry
<1>4. TextKept(video, lo, Console)
  BY <1>1, <1>2, <1>3, ConsoleParts DEF TextKept
<1> QED BY <1>4, ConsoleParts DEF Kept

\* All the text before the cursor.
LEMMA AllKept ==
  ASSUME Sane(Console)
  PROVE  \E lo \in Nat : /\ lo = array_pointer \/ (lo = TextEnd /\ array_pointer > TextEnd)
                         /\ lo <= array_pointer /\ lo <= TextEnd /\ Kept(video, lo, Console)
<1>1. array_pointer \in Nat /\ TextEnd \in Nat
  BY ConsoleParts, Geometry
<1>2. CASE array_pointer <= TextEnd
  <2>1. Kept(video, array_pointer, Console)
    BY <1>1, <1>2, StartKept
  <2> QED BY <1>1, <1>2, <2>1
<1>3. CASE array_pointer > TextEnd
  <2>1. Kept(video, TextEnd, Console)
    BY <1>1, <1>3, StartKept
  <2> QED BY <1>1, <1>3, <2>1
<1> QED BY <1>1, <1>2, <1>3

\* The console that a call leaves, alone or with the status row written.
LEMMA Shown ==
  ASSUME NEW c, Sane(c), array_pointer' = c.ptr,
         video' = c.video \/ video' = print_key(c.video) \/ video' = print_time(c.video)
  PROVE  /\ Sane(Console') /\ \A i \in 0 .. TextEnd - 1 : video'[i] = c.video[i]
         /\ \A i \in TextEnd .. TextEnd + Cols - 1 : video'[i] \in {c.video[i]} \cup Marks
<1>1. /\ c.ptr \in Nat /\ DOMAIN c.video = 0 .. TextEnd + Cols - 1
      /\ \A i \in 0 .. TextEnd - 1 : c.video[i] \notin Marks
  BY DEF Sane
<1>2. /\ DOMAIN video' = 0 .. TextEnd + Cols - 1
      /\ \A i \in 0 .. TextEnd - 1 : video'[i] = c.video[i]
      /\ \A i \in TextEnd .. TextEnd + Cols - 1 : video'[i] \in {c.video[i], "k", "t"}
  <2>1. CASE video' = c.video
    BY <1>1, <2>1
  <2>2. CASE video' = print_key(c.video)
    <3>1. video' = [j \in 0 .. TextEnd + Cols - 1 |-> IF j = TextEnd + 1 THEN "k" ELSE c.video[j]]
      BY <1>1, <2>2, Geometry DEF print_key, Poke
    <3> QED BY <3>1, Geometry
  <2>3. CASE video' = print_time(c.video)
    <3>1. video' = [j \in 0 .. TextEnd + Cols - 1 |-> IF j = TextEnd THEN "t" ELSE c.video[j]]
      BY <1>1, <2>3, Geometry DEF print_time, Poke
    <3> QED BY <3>1, Geometry
  <2> QED BY <2>1, <2>2, <2>3
<1>3. /\ Console'.ptr = c.ptr /\ Console'.video = video' /\ Console'.moved = 0
      /\ Console' = [ptr |-> Console'.ptr, video |-> Console'.video, moved |-> Console'.moved]
  BY ConsoleParts
<1>4. \A i \in 0 .. TextEnd - 1 : video'[i] \notin Marks
  BY <1>1, <1>2
<1>5. \A i \in TextEnd .. TextEnd + Cols - 1 : video'[i] \in {c.video[i]} \cup Marks
  BY <1>2 DEF Marks
<1> QED BY <1>1, <1>2, <1>3, <1>4, <1>5 DEF Sane

\* A call that keeps the status row and ends in the text.
LEMMA KeptApart ==
  ASSUME NEW c, Inside(c), NEW lo, Kept(video, lo, c), array_pointer' = c.ptr,
         \A i \in TextEnd .. TextEnd + Cols - 1 : video'[i] \in {c.video[i]} \cup Marks
  PROVE  Apart
<1>1. \A i \in StatusCells : video'[i] \in {video[i]} \cup Marks
  BY Geometry DEF Kept
<1>2. array_pointer' \in 0 .. TextEnd
  BY Geometry DEF Inside, Sane
<1> QED BY <1>1, <1>2, Geometry DEF Apart

\* A call that keeps the text below lo, and lo is not inside it, moves it whole.
LEMMA KeptMoves ==
  ASSUME Sane(Console), NEW c, NEW lo \in Nat, TextKept(video, lo, c), Sane(c), moved' = c.moved,
         Len(PartialLine) \in Nat, array_pointer - Len(PartialLine) <= lo \/ lo = TextEnd,
         \A i \in 0 .. TextEnd - 1 : video'[i] = c.video[i]
  PROVE  MovesWhole
<1>1. array_pointer - Len(PartialLine) \in Int
  BY ConsoleParts
<1>2. c.moved * Cols \in Nat
  BY OneRowMore DEF Sane
<1> SUFFICES ASSUME NEW i \in 0 .. TextEnd - 1, i + c.moved * Cols < array_pointer - Len(PartialLine),
                    i + c.moved * Cols \in 0 .. TextEnd - 1
    PROVE  video'[i] = video[i + c.moved * Cols]
  BY Geometry DEF MovesWhole
<1> DEFINE d == c.moved * Cols
           q == array_pointer - Len(PartialLine)
<1>3. i + d < lo
  <2>1. i \in Int /\ d \in Nat /\ q \in Int /\ i + d < q /\ (q <= lo \/ lo = TextEnd) /\ i + d <= TextEnd - 1
        /\ TextEnd \in Nat
    BY <1>1, <1>2, Geometry
  <2> HIDE DEF d, q
  <2> QED BY <2>1
<1>4. c.video[i] = video[i + d]
  BY <1>3 DEF TextKept
<1> QED BY <1>4

\* A line on the screen is still there after a call that keeps it, so many rows
\* higher.
LEMMA LineMoves ==
  ASSUME NEW v, NEW p \in Nat, p <= TextEnd, NEW line, Len(line) \in Nat, Shows(v, p, line),
         NEW c, Sane(c), TextKept(v, p, c), c.moved * Cols <= p - Len(line),
         NEW w, \A i \in 0 .. TextEnd - 1 : w[i] = c.video[i]
  PROVE  Shows(w, p - c.moved * Cols, line)
<1> DEFINE d == c.moved * Cols
           n == Len(line)
<1>1. d \in Nat /\ n \in Nat /\ d <= p - n
  BY OneRowMore DEF Sane
<1>2. \A i \in 0 .. TextEnd - 1 : i + d < p => c.video[i] = v[i + d]
  BY DEF TextKept
<1>3. \A i \in 1 .. n : v[p - n + i - 1] = line[i]
  BY DEF Shows
<1> HIDE DEF d, n
<1>4. (p - d) - n >= 0
  BY <1>1
<1>5. ASSUME NEW i \in 1 .. n PROVE w[(p - d) - n + i - 1] = line[i]
  <2> DEFINE j == (p - d) - n + i - 1
  <2>1. j \in 0 .. TextEnd - 1 /\ j + d < p /\ j + d = p - n + i - 1
    BY <1>1, Geometry
  <2> HIDE DEF j
  <2>2. w[j] = line[i]
    BY <1>2, <1>3, <2>1
  <2> QED BY <2>2 DEF j
<1> QED BY <1>4, <1>5 DEF Shows, d, n

\* How far one character moves the screen under a line that fits.
LEMMA OneMove ==
  ASSUME Sane(Console), array_pointer <= TextEnd,
         NEW n \in Nat, n <= LastRow, array_pointer - n >= 0, NEW c,
         c.moved = (IF Console.ptr >= TextEnd THEN Console.moved + 1 ELSE Console.moved),
         c.ptr = (IF Console.ptr >= TextEnd THEN LastRow ELSE Console.ptr) + 1
  PROVE  /\ c.moved * Cols \in Nat /\ c.moved * Cols <= array_pointer - n
         /\ c.ptr = array_pointer - c.moved * Cols + 1
<1>1. array_pointer \in Nat /\ array_pointer <= TextEnd /\ Console.ptr = array_pointer /\ Console.moved = 0
  BY ConsoleParts
<1>2. CASE array_pointer = TextEnd
  <2>1. c.moved = 1 /\ 1 * Cols = Cols /\ c.ptr = LastRow + 1
    BY <1>1, <1>2, Geometry
  <2>2. c.moved * Cols = Cols
    BY <2>1
  <2> QED BY <1>2, <2>1, <2>2, Geometry
<1>3. CASE array_pointer # TextEnd
  <2>1. c.moved = 0 /\ 0 * Cols = 0 /\ c.ptr = array_pointer + 1
    BY <1>1, <1>3, Geometry, OneRowMore
  <2>2. c.moved * Cols = 0
    BY <2>1
  <2> QED BY <1>1, <2>1, <2>2
<1> QED BY <1>2, <1>3

LineFits == Limits = AllLimits /\ ReadSize - 1 <= (Rows - 1) * Cols

LEMMA LineBelowLastRow ==
  ASSUME RingInv, LineFits
  PROVE  Len(PartialLine) \in Nat /\ Len(PartialLine) <= LastRow /\ Limits = AllLimits
<1>1. Len(PartialLine) \in Nat /\ Len(PartialLine) < ReadSize
  BY LineTyped
<1>2. ReadSize - 1 <= LastRow /\ ReadSize \in Nat /\ LastRow \in Nat
  BY Geometry, ReadSizeAssumption DEF LineFits
<1> QED BY <1>1, <1>2 DEF LineFits

LEMMA CharStep ==
  ASSUME ScreenInv, LineFits, NEW ch \in Chars, KeyChar(ch), TypeOK'
  PROVE  ScreenInv' /\ MovesWhole /\ Apart
<1> DEFINE c == print_to_console(Console, <<ch>>)
           line == PartialLine
           n == Len(line)
           p == array_pointer
<1>1. RingInv /\ Sane(Console) /\ Shows(video, p, line) /\ (p > TextEnd => line = <<>>)
  BY DEF ScreenInv
<1>2. TypeChar(ch) /\ array_pointer' = c.ptr /\ video' = print_key(c.video) /\ moved' = c.moved
  BY DEF KeyChar, ShowWithKey
<1>3. n \in Nat /\ n <= LastRow /\ line \in Seq(AllChars) /\ Limits = AllLimits
  BY <1>1, LineBelowLastRow, LineTyped
<1>4. RingInv' /\ PartialLine' = Append(line, ch)
  BY <1>1, <1>2, <1>3, TypedStep
<1>5. ch \notin Marks \cup {NewLine, Return} /\ ch \in AllChars
  BY TextsAssumption, CharsAssumption DEF NL, NewLine, AllChars
<1>6. /\ Inside(c)
      /\ c.moved = (IF Console.ptr >= TextEnd THEN Console.moved + 1 ELSE Console.moved)
      /\ c.ptr = (IF Console.ptr >= TextEnd THEN LastRow ELSE Console.ptr) + 1
      /\ c.video[c.ptr - 1] = ch
      /\ \A v : \A lo \in Nat : Kept(v, lo, Console) => Kept(v, lo, c)
  BY <1>1, <1>5, PrintChar
<1> HIDE DEF c, line
<1>7. p \in Nat /\ p - n >= 0
  BY <1>1, ConsoleParts DEF Shows
<1>8. PICK lo \in Nat : (lo = p \/ (lo = TextEnd /\ p > TextEnd)) /\ lo <= TextEnd /\ Kept(video, lo, c)
  BY <1>1, <1>6, AllKept
<1>9. Sane(c) /\ TextKept(video, lo, c)
  BY <1>6, <1>8 DEF Inside, Kept
<1>10. /\ Sane(Console') /\ \A i \in 0 .. TextEnd - 1 : video'[i] = c.video[i]
       /\ \A i \in TextEnd .. TextEnd + Cols - 1 : video'[i] \in {c.video[i]} \cup Marks
  BY <1>2, <1>9, Shown
<1>11. Shows(video', c.ptr - 1, line) /\ c.ptr - 1 \in Nat
  <2>1. CASE p <= TextEnd
    <3>1. c.moved * Cols \in Nat /\ c.moved * Cols <= p - n /\ c.ptr = p - c.moved * Cols + 1
      BY <1>1, <1>3, <1>6, <1>7, <2>1, OneMove
    <3>2. lo = p
      BY <1>7, <1>8, <2>1, Geometry
    <3>3. Shows(video', p - c.moved * Cols, line)
      BY <1>1, <1>3, <1>7, <1>9, <1>10, <2>1, <3>1, <3>2, LineMoves
    <3>4. p - c.moved * Cols = c.ptr - 1 /\ c.ptr - 1 \in Nat
      <4> DEFINE e == c.moved * Cols
      <4>1. e \in Nat /\ e <= p - n /\ c.ptr = p - e + 1
        BY <3>1
      <4> HIDE DEF e, n
      <4>2. n \in Nat
        BY <1>3 DEF n
      <4>3. p - e = c.ptr - 1 /\ c.ptr - 1 \in Nat
        BY <1>7, <4>1, <4>2
      <4> QED BY <4>3 DEF e
    <3> QED BY <3>3, <3>4
  <2>2. CASE p > TextEnd
    <3>1. line = <<>> /\ c.ptr = LastRow + 1
      BY <1>1, <1>6, <1>7, <2>2, Geometry, ConsoleParts
    <3>2. c.ptr - 1 = LastRow /\ LastRow \in Nat
      BY <3>1, Geometry
    <3> QED BY <3>1, <3>2, ShowsNothing
  <2> QED BY <1>7, <2>1, <2>2, Geometry
<1>12. Shows(video', c.ptr, Append(line, ch))
  <2>1. /\ Len(Append(line, ch)) = n + 1 /\ Append(line, ch)[n + 1] = ch
        /\ \A i \in 1 .. n : Append(line, ch)[i] = line[i]
    BY <1>3, <1>5, AppendProperties
  <2> DEFINE a == c.ptr - 1
             e == Append(line, ch)
  <2>2. a \in Nat /\ a - n >= 0 /\ c.ptr = a + 1
    <3>1. c.ptr \in Nat
      BY <1>9 DEF Sane
    <3> QED BY <1>3, <1>11, <3>1 DEF Shows
  <2>3. \A i \in 1 .. n : video'[a - n + i - 1] = line[i]
    BY <1>11 DEF Shows
  <2>4. video'[a] = ch
    <3>1. a = c.ptr - 1 /\ a \in 0 .. TextEnd - 1
      <4>1. c.ptr \in 0 .. TextEnd
        BY <1>6, Geometry DEF Inside, Sane
      <4> QED BY <2>2, <4>1, Geometry
    <3> QED BY <1>6, <1>10, <3>1
  <2> HIDE DEF a, n
  <2>5. n \in Nat
    BY <1>3 DEF n
  <2>6. ASSUME NEW i \in 1 .. n + 1 PROVE video'[(a + 1) - (n + 1) + i - 1] = e[i]
    <3>1. CASE i = n + 1
      <4>1. (a + 1) - (n + 1) + i - 1 = a
        BY <2>2, <2>5, <3>1
      <4> QED BY <2>1, <2>4, <3>1, <4>1
    <3>2. CASE i # n + 1
      <4>1. i \in 1 .. n /\ (a + 1) - (n + 1) + i - 1 = a - n + i - 1
        BY <2>2, <2>5, <3>2
      <4> QED BY <2>1, <2>3, <4>1
    <3> QED BY <3>1, <3>2
  <2>7. (a + 1) - (n + 1) >= 0 /\ Len(e) = n + 1
    BY <2>1, <2>2, <2>5 DEF n
  <2> HIDE DEF e
  <2>8. Shows(video', a + 1, e)
    BY <2>6, <2>7 DEF Shows
  <2> QED BY <2>2, <2>8 DEF e
<1>13. MovesWhole
  <2>1. p - n <= lo \/ lo = TextEnd
    BY <1>3, <1>7, <1>8
  <2> QED BY <1>1, <1>2, <1>3, <1>9, <1>10, <2>1, KeptMoves DEF line
<1>14. Apart
  BY <1>2, <1>6, <1>8, <1>10, KeptApart
<1>15. ~(array_pointer' > TextEnd)
  BY <1>2, <1>6, Geometry, SMTT(60) DEF Inside, Sane
<1> QED BY <1>2, <1>4, <1>10, <1>12, <1>13, <1>14, <1>15 DEF ScreenInv

LEMMA EraseKeyStep ==
  ASSUME ScreenInv, LineFits, KeyErase, TypeOK'
  PROVE  ScreenInv' /\ MovesWhole /\ Apart
<1> DEFINE b == print_to_console(Console, <<"h">>)
           c == erased(b)
           line == PartialLine
           n == Len(line)
           p == array_pointer
<1>1. RingInv /\ Sane(Console) /\ Shows(video, p, line) /\ (p > TextEnd => line = <<>>)
  BY DEF ScreenInv
<1>2. Erase /\ array_pointer' = c.ptr /\ video' = print_key(c.video) /\ moved' = c.moved
  BY DEF KeyErase, ShowWithKey
<1>3. n \in Nat /\ n <= LastRow /\ line \in Seq(AllChars) /\ Limits = AllLimits
  BY <1>1, LineBelowLastRow, LineTyped
<1>4. RingInv' /\ \E x \in AllChars : line = Append(PartialLine', x)
  BY <1>1, <1>2, <1>3, EraseStep
<1>5. PartialLine' \in Seq(AllChars) /\ Len(PartialLine') = n - 1 /\ n >= 1
      /\ \A i \in 1 .. n - 1 : PartialLine'[i] = line[i]
  <2> DEFINE s == PartialLine'
  <2>1. s \in Seq(AllChars)
    <3>1. Unread' \in Seq(AllChars)
      <4>1. term_buff' \in [Cells -> AllChars] /\ r_buff_ptr' \in Cells /\ w_buff_ptr' \in 0 .. BUFF_SIZE
        BY <1>4 DEF RingInv, TypeOK, AllChars
      <4> QED BY <4>1, Mapped, UnreadType
    <3> QED BY <3>1, Mapped, LinesType
  <2>2. PICK x \in AllChars : line = Append(s, x)
    BY <1>4
  <2> HIDE DEF s, line
  <2>3. /\ Len(line) = Len(s) + 1 /\ Len(s) \in Nat
        /\ \A i \in 1 .. Len(s) : line[i] = s[i]
    BY <2>1, <2>2, AppendProperties
  <2> QED BY <2>1, <2>3 DEF s
<1>6. /\ Inside(b)
      /\ b.moved = (IF Console.ptr >= TextEnd THEN Console.moved + 1 ELSE Console.moved)
      /\ b.ptr = (IF Console.ptr >= TextEnd THEN LastRow ELSE Console.ptr) + 1
      /\ \A v : \A lo \in Nat : Kept(v, lo, Console) => Kept(v, lo, b)
  <2>1. "h" \notin Marks \cup {NewLine, Return}
    BY DEF Marks, NewLine, Return
  <2> QED BY <1>1, <2>1, PrintChar
<1> HIDE DEF b, line
<1>7. p \in Nat /\ p <= TextEnd /\ p - n >= 0 /\ \A i \in 1 .. n : video[p - n + i - 1] = line[i]
  <2>1. p \in Nat /\ p - n >= 0 /\ \A i \in 1 .. n : video[p - n + i - 1] = line[i]
    BY <1>1, ConsoleParts DEF Shows
  <2>2. line # <<>>
    <3>1. Len(<<>>) = 0
      OBVIOUS
    <3> QED BY <1>5, <3>1
  <2> QED BY <1>1, <2>1, <2>2, Geometry
<1>8. b.moved * Cols \in Nat /\ b.moved * Cols <= p - n /\ b.ptr = p - b.moved * Cols + 1
  BY <1>1, <1>3, <1>6, <1>7, OneMove
<1>9. b.ptr >= 2 /\ p - 1 \in Nat /\ p - 1 <= TextEnd /\ p - 1 = b.ptr - 2 + b.moved * Cols
      /\ p - 1 <= array_pointer
  <2> DEFINE e == b.moved * Cols
  <2>1. e \in Nat /\ e <= p - n /\ b.ptr = p - e + 1 /\ n >= 1
    BY <1>5, <1>8
  <2>2. TextEnd \in Nat
    BY Geometry
  <2> HIDE DEF e
  <2>3. n \in Nat /\ p \in Nat /\ p <= TextEnd
    BY <1>3, <1>7
  <2> HIDE DEF n
  <2>4. b.ptr >= 2 /\ p - 1 \in Nat /\ p - 1 <= TextEnd /\ p - 1 <= p /\ p - 1 = b.ptr - 2 + e
    BY <2>1, <2>2, <2>3
  <2> QED BY <2>4 DEF e
<1>10. /\ Inside(c) /\ c.ptr = b.ptr - 2 /\ c.moved = b.moved
       /\ \A v : \A lo \in Nat :
            Kept(v, lo, b) /\ lo <= b.ptr - 2 + b.moved * Cols => Kept(v, lo, c)
  BY <1>6, <1>9, ErasedKeeps
<1> HIDE DEF c
<1>11. Kept(video, p - 1, c) /\ TextKept(video, p - 1, c) /\ Sane(c)
  <2>1. Kept(video, p - 1, Console)
    BY <1>1, <1>9, StartKept
  <2>2. Kept(video, p - 1, b)
    BY <1>6, <1>9, <2>1
  <2>3. p - 1 <= b.ptr - 2 + b.moved * Cols
    BY <1>9
  <2>4. Kept(video, p - 1, c)
    BY <1>9, <1>10, <2>2, <2>3
  <2> QED BY <1>10, <2>4 DEF Inside, Kept
<1>12. /\ Sane(Console') /\ \A i \in 0 .. TextEnd - 1 : video'[i] = c.video[i]
       /\ \A i \in TextEnd .. TextEnd + Cols - 1 : video'[i] \in {c.video[i]} \cup Marks
  BY <1>2, <1>11, Shown
<1>13. Shows(video', array_pointer', PartialLine')
  <2> DEFINE s == PartialLine'
             q == p - 1
             d == c.moved * Cols
  <2>1. Len(s) = n - 1 /\ Len(s) \in Nat /\ \A i \in 1 .. n - 1 : s[i] = line[i]
    BY <1>3, <1>5
  <2>2. Shows(video, q, s)
    <3>1. q - Len(s) = p - n /\ p - n >= 0
      BY <1>3, <1>7, <2>1
    <3>2. ASSUME NEW i \in 1 .. Len(s) PROVE video[q - Len(s) + i - 1] = s[i]
      <4>1. i \in 1 .. n - 1 /\ i \in 1 .. n
        BY <1>3, <2>1
      <4> HIDE DEF s, q
      <4> QED BY <1>7, <2>1, <3>1, <4>1
    <3> HIDE DEF s, q
    <3> QED BY <3>1, <3>2 DEF Shows
  <2>3. d <= q - Len(s) /\ array_pointer' = q - d
    <3>1. d \in Nat /\ d <= p - n /\ c.ptr = p - d + 1 - 2
      <4> DEFINE e == b.moved * Cols
      <4>1. d = e /\ e \in Nat /\ e <= p - n /\ b.ptr = p - e + 1
        BY <1>8, <1>10
      <4> HIDE DEF d, e, n
      <4>2. c.ptr = (p - d + 1) - 2
        BY <1>10, <4>1
      <4>3. d \in Nat /\ d <= p - n
        BY <4>1
      <4>4. (p - d + 1) - 2 = p - d + 1 - 2
        BY <1>7, <4>3
      <4> QED BY <4>2, <4>3, <4>4
    <3> HIDE DEF d
    <3> QED BY <1>2, <1>3, <1>7, <2>1, <3>1
  <2>4. q \in Nat /\ q <= TextEnd
    BY <1>9
  <2>5. TextKept(video, q, c)
    BY <1>11
  <2> HIDE DEF s, q
  <2>6. Shows(video', q - d, s)
    BY <1>11, <1>12, <2>1, <2>2, <2>3, <2>4, <2>5, LineMoves
  <2> QED BY <2>3, <2>6 DEF s
<1>14. MovesWhole
  <2>1. p - n <= p - 1
    BY <1>3, <1>5, <1>7
  <2> QED BY <1>1, <1>2, <1>3, <1>9, <1>11, <1>12, <2>1, KeptMoves DEF line
<1>15. Apart
  BY <1>2, <1>10, <1>11, <1>12, KeptApart
<1>16. ~(array_pointer' > TextEnd)
  BY <1>2, <1>10, Geometry DEF Inside, Sane
<1> QED BY <1>4, <1>12, <1>13, <1>14, <1>15, <1>16 DEF ScreenInv

\* A step that leaves the ring alone.
LEMMA RingRests ==
  ASSUME RingInv, UNCHANGED vars
  PROVE  RingInv' /\ PartialLine' = PartialLine
<1>1. UNCHANGED <<term_buff, r_buff_ptr, w_buff_ptr, terminal_line_count, buffer>>
  BY DEF vars
<1>2. Unread' = Unread
  BY <1>1 DEF Unread
<1>3. LineEnds' = LineEnds /\ PartialLine' = PartialLine /\ Lines' = Lines
  BY <1>2, Mapped
<1> QED BY <1>1, <1>3 DEF RingInv, CountMatchesRing, TypeOK

\* Output that begins and ends without a line.
LEMMA OutputStep ==
  ASSUME ScreenInv, RingInv', PartialLine' = <<>>, NEW c, Sane(c),
         \A v : \A lo \in Nat : TextKept(v, lo, Console) => TextKept(v, lo, c),
         array_pointer' = c.ptr, video' = c.video \/ video' = print_key(c.video), moved' = c.moved
  PROVE  ScreenInv' /\ MovesWhole
<1>1. RingInv /\ Sane(Console) /\ array_pointer \in Nat
  BY ConsoleParts DEF ScreenInv
<1>2. PICK lo \in Nat : (lo = array_pointer \/ lo = TextEnd) /\ TextKept(video, lo, c)
  BY <1>1, AllKept DEF Kept
<1>3. Sane(Console') /\ \A i \in 0 .. TextEnd - 1 : video'[i] = c.video[i]
  BY Shown
<1>4. Shows(video', array_pointer', <<>>)
  <2>1. array_pointer' \in Nat
    BY Geometry DEF Sane
  <2> QED BY <2>1, ShowsNothing
<1>5. Len(PartialLine) \in Nat /\ array_pointer - Len(PartialLine) <= array_pointer
  BY <1>1, LineTyped
<1>6. MovesWhole
  BY <1>1, <1>2, <1>3, <1>5, KeptMoves
<1> QED BY <1>3, <1>4, <1>6 DEF ScreenInv

\* Output that leaves the status row alone.
LEMMA OutputApart ==
  ASSUME ScreenInv, RingInv', PartialLine' = <<>>, NEW c, Inside(c),
         \A v : \A lo \in Nat : Kept(v, lo, Console) => Kept(v, lo, c),
         array_pointer' = c.ptr, video' = c.video \/ video' = print_key(c.video), moved' = c.moved
  PROVE  ScreenInv' /\ MovesWhole /\ Apart
<1>1. RingInv /\ Sane(Console) /\ array_pointer \in Nat /\ Sane(c)
  BY ConsoleParts DEF ScreenInv, Inside
<1>2. PICK lo \in Nat : (lo = array_pointer \/ lo = TextEnd) /\ Kept(video, lo, c)
  BY <1>1, AllKept
<1>3. /\ Sane(Console') /\ \A i \in 0 .. TextEnd - 1 : video'[i] = c.video[i]
      /\ \A i \in TextEnd .. TextEnd + Cols - 1 : video'[i] \in {c.video[i]} \cup Marks
  BY <1>1, Shown
<1>4. Shows(video', array_pointer', <<>>)
  <2>1. array_pointer' \in Nat
    BY <1>1 DEF Sane
  <2> QED BY <2>1, ShowsNothing
<1>5. Len(PartialLine) \in Nat /\ array_pointer - Len(PartialLine) <= array_pointer
  BY <1>1, LineTyped
<1>6. TextKept(video, lo, c)
  BY <1>2 DEF Kept
<1>7. MovesWhole
  BY <1>1, <1>2, <1>3, <1>5, <1>6, KeptMoves
<1>8. Apart
  BY <1>2, <1>3, KeptApart
<1> QED BY <1>3, <1>4, <1>7, <1>8 DEF ScreenInv

LEMMA EnterKeyStep ==
  ASSUME ScreenInv, LineFits, KeyEnter, TypeOK'
  PROVE  ScreenInv' /\ MovesWhole /\ Apart
<1> DEFINE c == print_to_console(print_to_console(Console, <<NewLine>>), <<Return>>)
<1>1. RingInv /\ Sane(Console) /\ Limits = AllLimits
  BY DEF ScreenInv, LineFits
<1>2. Enter /\ array_pointer' = c.ptr /\ video' = print_key(c.video) /\ moved' = c.moved
  BY DEF KeyEnter, ShowWithKey
<1>3. RingInv' /\ PartialLine' = <<>>
  BY <1>1, <1>2, EnterStep
<1>4. Inside(c) /\ \A v : \A lo \in Nat : Kept(v, lo, Console) => Kept(v, lo, c)
  BY <1>1, PrintEnter
<1> HIDE DEF c
<1> QED BY <1>2, <1>3, <1>4, OutputApart

\* A step that leaves the text and the line alone.
LEMMA TextRests ==
  ASSUME ScreenInv, RingInv', PartialLine' = PartialLine, array_pointer' = array_pointer,
         moved' = 0, video' = video \/ video' = print_time(video)
  PROVE  ScreenInv' /\ MovesWhole /\ Apart
<1>1. /\ RingInv /\ Sane(Console) /\ Shows(video, array_pointer, PartialLine)
      /\ array_pointer > TextEnd => PartialLine = <<>>
  BY DEF ScreenInv
<1>2. /\ array_pointer \in Nat
      /\ Console.ptr = array_pointer /\ Console.video = video /\ Console.moved = 0
  BY <1>1, ConsoleParts
<1>3. /\ array_pointer' = Console.ptr
      /\ video' = Console.video \/ video' = print_time(Console.video)
  BY <1>2
<1>4. /\ Sane(Console') /\ \A i \in 0 .. TextEnd - 1 : video'[i] = Console.video[i]
      /\ \A i \in TextEnd .. TextEnd + Cols - 1 : video'[i] \in {Console.video[i]} \cup Marks
  BY <1>1, <1>3, Shown
<1>5. PICK lo \in Nat : (lo = array_pointer \/ lo = TextEnd) /\ TextKept(video, lo, Console)
  BY <1>1, AllKept DEF Kept
<1>6. Len(PartialLine) \in Nat /\ array_pointer - Len(PartialLine) <= array_pointer
  BY <1>1, <1>2, LineTyped
<1>7. MovesWhole
  BY <1>1, <1>2, <1>4, <1>5, <1>6, KeptMoves
<1>8. Shows(video', array_pointer, PartialLine)
  <2> DEFINE p == array_pointer
             n == Len(PartialLine)
  <2>1. n \in Nat /\ p - n >= 0 /\ \A i \in 1 .. n : video[p - n + i - 1] = PartialLine[i]
    BY <1>1, <1>6 DEF Shows
  <2>a. p <= TextEnd \/ n = 0
    <3>1. Len(<<>>) = 0
      OBVIOUS
    <3> QED BY <1>1, <1>2, <3>1, Geometry
  <2>2. \A i \in 1 .. n : p - n + i - 1 \in 0 .. TextEnd - 1
    BY <1>2, <2>1, <2>a, Geometry, SMTT(60)
  <2>3. \A i \in 1 .. n : video'[p - n + i - 1] = video[p - n + i - 1]
    BY <1>2, <1>4, <2>2
  <2> QED BY <2>1, <2>3 DEF Shows
<1>9. Apart
  BY <1>2, <1>4, Geometry DEF Apart
<1> QED BY <1>1, <1>4, <1>7, <1>8, <1>9 DEF ScreenInv

LEMMA TextKnown ==
  ASSUME NEW text \in Texts \cup Messages
  PROVE  /\ text \in Seq(STRING) /\ Len(text) \in Nat /\ DOMAIN text = 1 .. Len(text)
         /\ \A i \in DOMAIN text : text[i] \notin Marks \cup {Return}
BY TextsAssumption

LEMMA ProgramStep ==
  ASSUME ScreenInv, NEW text \in Texts, ProgramPrints(text)
  PROVE  ScreenInv' /\ MovesWhole /\ Apart
<1> DEFINE whole == Append(text, ZeroByte)
           c == write_to_console(Console, whole)
<1>1. RingInv /\ Sane(Console)
  BY DEF ScreenInv
<1>2. /\ PartialLine = <<>> /\ UNCHANGED vars
      /\ array_pointer' = c.ptr /\ video' = c.video /\ moved' = c.moved
  BY DEF ProgramPrints, Quiet, Show, printf
<1>3. RingInv' /\ PartialLine' = <<>>
  BY <1>1, <1>2, RingRests
<1>4. /\ Len(whole) \in Nat \ {0} /\ DOMAIN whole = 1 .. Len(whole)
      /\ \A i \in DOMAIN whole : whole[i] \notin Marks \cup {Return}
  <2>1. /\ text \in Seq(STRING) /\ Len(text) \in Nat /\ DOMAIN text = 1 .. Len(text)
        /\ \A i \in DOMAIN text : text[i] \notin Marks \cup {Return}
    BY TextKnown
  <2> DEFINE S == STRING \cup {ZeroByte}
  <2>2. ZeroByte \in S /\ ZeroByte \notin Marks \cup {Return} /\ text \in Seq(S)
    <3>1. text \in Seq(S)
      BY <2>1
    <3>2. "nul" # "t" /\ "nul" # "k" /\ "nul" # "return"
      OBVIOUS
    <3> QED BY <3>1, <3>2 DEF ZeroByte, Marks, Return
  <2> HIDE DEF S
  <2>3. /\ whole \in Seq(S) /\ Len(whole) = Len(text) + 1
        /\ whole[Len(text) + 1] = ZeroByte
        /\ \A i \in 1 .. Len(text) : whole[i] = text[i]
    BY <2>1, <2>2, AppendProperties
  <2> HIDE DEF whole
  <2>4. DOMAIN whole = 1 .. Len(whole) /\ Len(whole) \in Nat \ {0}
    BY <2>1, <2>3
  <2>5. ASSUME NEW i \in 1 .. Len(whole) PROVE whole[i] \notin Marks \cup {Return}
    <3>1. CASE i = Len(text) + 1
      BY <2>2, <2>3, <3>1
    <3>2. CASE i # Len(text) + 1
      <4>1. i \in 1 .. Len(text)
        BY <2>1, <2>3, <3>2
      <4> QED BY <2>1, <2>3, <4>1
    <3> QED BY <3>1, <3>2
  <2> QED BY <2>4, <2>5
<1>5. Inside(c) /\ \A v : \A lo \in Nat : Kept(v, lo, Console) => Kept(v, lo, c)
  <2> HIDE DEF whole
  <2> QED BY <1>1, <1>4, WriteKeeps
<1> HIDE DEF c
<1> QED BY <1>2, <1>3, <1>5, OutputApart

LEMMA KernelStep ==
  ASSUME ScreenInv, NEW text \in Messages, KernelPrints(text)
  PROVE  ScreenInv' /\ MovesWhole /\ (Apart \/ RunsOver)
<1> DEFINE c == print_to_console(Console, text)
<1>1. RingInv /\ Sane(Console)
  BY DEF ScreenInv
<1>2. /\ PartialLine = <<>> /\ UNCHANGED vars
      /\ array_pointer' = c.ptr /\ video' = c.video /\ moved' = c.moved
  BY DEF KernelPrints, Quiet, Show
<1>3. RingInv' /\ PartialLine' = <<>>
  BY <1>1, <1>2, RingRests
<1>4. /\ Len(text) \in Nat /\ DOMAIN text = 1 .. Len(text)
      /\ \A i \in DOMAIN text : text[i] \notin Marks \cup {Return}
  BY TextKnown
<1>5. CASE Fits(text)
  <2>1. /\ (scroll(Console).ptr % Cols) + Len(text) <= Cols
        /\ \A i \in 1 .. Len(text) - 1 : text[i] # NewLine
    BY <1>5 DEF Fits
  <2>2. Inside(c) /\ \A v : \A lo \in Nat : Kept(v, lo, Console) => Kept(v, lo, c)
    BY <1>1, <1>4, <2>1, MessageKeeps
  <2> HIDE DEF c
  <2> QED BY <1>2, <1>3, <2>2, OutputApart
<1>6. CASE ~Fits(text)
  <2>1. Sane(c) /\ \A v : \A lo \in Nat : TextKept(v, lo, Console) => TextKept(v, lo, c)
    BY <1>1, <1>4, AnyMessage
  <2>2. RunsOver
    BY <1>6 DEF RunsOver
  <2> HIDE DEF c
  <2> QED BY <1>2, <1>3, <2>1, <2>2, OutputStep
<1> QED BY <1>5, <1>6

LEMMA ScreenStarts == ScreenInit => ScreenInv
<1> SUFFICES ASSUME ScreenInit PROVE ScreenInv
  OBVIOUS
<1>1. RingInv /\ PartialLine = <<>>
  <2>1. RingInv /\ Queue!QueueInit
    BY RingInit DEF ScreenInit
  <2> QED BY <2>1 DEF Queue!QueueInit
<1>2. array_pointer = 0 /\ video = [i \in TextCells \cup StatusCells |-> Blank]
  BY DEF ScreenInit
<1>3. TextCells \cup StatusCells = 0 .. TextEnd + Cols - 1
  BY Geometry
<1>4. Sane(Console)
  <2>1. Console = [ptr |-> 0, video |-> video, moved |-> 0]
    BY <1>2 DEF Console
  <2>2. Blank \notin Marks
    BY DEF Blank, Marks
  <2>3. /\ DOMAIN video = 0 .. TextEnd + Cols - 1
        /\ \A i \in 0 .. TextEnd + Cols - 1 : video[i] = Blank
    BY <1>2, <1>3
  <2>4. /\ \A i \in 0 .. TextEnd - 1 : i \in 0 .. TextEnd + Cols - 1
        /\ 0 \in Nat
    BY Geometry
  <2> QED BY <2>1, <2>2, <2>3, <2>4 DEF Sane
<1>5. Shows(video, array_pointer, <<>>)
  BY <1>2, ShowsNothing
<1> QED BY <1>1, <1>4, <1>5 DEF ScreenInv

LEMMA ScreenStep ==
  ASSUME LineFits
  PROVE  ScreenInv /\ [ScreenNext]_allvars =>
           ScreenInv' /\ ((MovesWhole /\ (Apart \/ RunsOver)) \/ UNCHANGED allvars)
<1> SUFFICES ASSUME ScreenInv, [ScreenNext]_allvars
    PROVE  ScreenInv' /\ ((MovesWhole /\ (Apart \/ RunsOver)) \/ UNCHANGED allvars)
  OBVIOUS
<1>1. RingInv /\ [Next]_vars
  BY DEF ScreenInv, ScreenNext, allvars, Next, KeyChar, KeyEnter, KeyErase, ReadLine, Second,
         ProgramPrints, KernelPrints
<1>2. TypeOK'
  BY <1>1, TypeStep DEF RingInv
<1>3. CASE UNCHANGED allvars
  <2>1. UNCHANGED vars /\ UNCHANGED screen
    BY <1>3 DEF allvars
  <2>2. RingInv' /\ PartialLine' = PartialLine
    BY <1>1, <2>1, RingRests
  <2>3. array_pointer' = array_pointer /\ video' = video
    BY <2>1 DEF screen
  <2> QED BY <1>3, <2>2, <2>3 DEF ScreenInv, Console
<1>4. ASSUME NEW ch \in Chars, KeyChar(ch) PROVE ScreenInv' /\ MovesWhole /\ Apart
  BY <1>2, <1>4, CharStep
<1>5. CASE KeyEnter
  BY <1>2, <1>5, EnterKeyStep
<1>6. CASE KeyErase
  BY <1>2, <1>6, EraseKeyStep
<1>7. CASE ReadLine
  <2>1. PICK other \in Chars \cup {NUL} : read_buffer(other)
    BY <1>7 DEF ReadLine
  <2>2. RingInv' /\ PartialLine' = PartialLine
    BY <1>1, <1>2, <2>1, ReadStep
  <2>3. moved' = 0 /\ array_pointer' = array_pointer /\ video' = video
    BY <1>7 DEF ReadLine
  <2> QED BY <2>2, <2>3, TextRests
<1>8. CASE Second
  <2>1. /\ UNCHANGED vars /\ array_pointer' = array_pointer
        /\ moved' = 0 /\ video' = print_time(video)
    BY <1>8 DEF Second
  <2>2. RingInv' /\ PartialLine' = PartialLine
    BY <1>1, <2>1, RingRests
  <2> QED BY <2>1, <2>2, TextRests
<1>9. ASSUME NEW text \in Texts, ProgramPrints(text) PROVE ScreenInv' /\ MovesWhole /\ Apart
  BY <1>9, ProgramStep
<1>10. ASSUME NEW text \in Messages, KernelPrints(text)
       PROVE  ScreenInv' /\ MovesWhole /\ (Apart \/ RunsOver)
  BY <1>10, KernelStep
<1> QED BY <1>3, <1>4, <1>5, <1>6, <1>7, <1>8, <1>9, <1>10 DEF ScreenNext

-----------------------------------------------------------------------------
(* LineFits: a user within the limits, whose longest line fits into the rows *)
(* above the last one (99 characters and 23 rows of 80 in the code).         *)

\* Whatever is typed, erased, printed and counted, in whatever order: only a
\* message of the kernel that does not end in its row (kprintf prints it all the
\* same) writes into the status row and leaves the cursor behind the text; no
\* key, no output of a program and no other message does, and nothing of the
\* status row comes into the text.
THEOREM StatusStaysApart == ASSUME LineFits PROVE ScreenSpec => StatusApart
<1>1. ScreenInv /\ [ScreenNext]_allvars => ScreenInv'
  BY ScreenStep
<1> DEFINE Clean == \A i \in TextCells : video'[i] \notin Marks
<1>2. ScreenInv /\ [ScreenNext]_allvars => [Clean /\ (Apart \/ RunsOver)]_allvars
  <2> SUFFICES ASSUME ScreenInv, [ScreenNext]_allvars
      PROVE  (Clean /\ (Apart \/ RunsOver)) \/ UNCHANGED allvars
    OBVIOUS
  <2>1. ScreenInv' /\ ((Apart \/ RunsOver) \/ UNCHANGED allvars)
    BY ScreenStep
  <2>2. Sane(Console') /\ Console'.video = video'
    BY <2>1, ConsoleParts DEF ScreenInv
  <2>3. Clean
    BY <2>2, Geometry DEF Sane
  <2> QED BY <2>1, <2>3
<1>3. [Clean /\ (Apart \/ RunsOver)]_allvars =>
        [/\ \A i \in TextCells : video'[i] \notin Marks
         /\ \/ /\ \A i \in StatusCells : video'[i] \in {video[i]} \cup Marks
               /\ array_pointer' \in 0 .. Rows * Cols \/ UNCHANGED array_pointer
            \/ RunsOver]_allvars
  BY DEF Apart
<1> HIDE DEF Clean
<1> QED BY <1>1, <1>2, <1>3, ScreenStarts, PTL DEF ScreenSpec, StatusApart

\* What stands before the cursor is the line that Enter will deliver, at every
\* screen size and every size of the ring.
THEOREM EchoIsLine == ASSUME LineFits PROVE ScreenSpec => []EchoShowsLine
<1>1. ScreenInv => EchoShowsLine
  BY DEF ScreenInv, Shows, EchoShowsLine
<1>2. ScreenInv /\ [ScreenNext]_allvars => ScreenInv'
  BY ScreenStep
<1> QED BY <1>1, <1>2, ScreenStarts, PTL DEF ScreenSpec

\* No step changes the text above the line being typed: scrolling moves all of
\* it up by the same number of rows, and the rest is kept.  A message of the
\* kernel that runs into the status row keeps the text, too; what it wrote below
\* the text is no part of it and is not moved.
THEOREM TextOnlyMovesUp == ASSUME LineFits PROVE ScreenSpec => TextMovesUpWhole
<1>1. ScreenInv /\ [ScreenNext]_allvars => ScreenInv'
  BY ScreenStep
<1>2. ScreenInv /\ [ScreenNext]_allvars => [MovesWhole]_allvars
  BY ScreenStep
<1> QED BY <1>1, <1>2, ScreenStarts, PTL DEF ScreenSpec, TextMovesUpWhole, MovesWhole

-----------------------------------------------------------------------------
(* The conversion of numbers. *)

\* Powers of two, from the number of subsets of 1 .. n.
LEMMA PowersOfTwo ==
  /\ 2 ^ 0 = 1
  /\ \A n \in Nat : 2 ^ n \in Nat /\ 2 ^ (n + 1) = 2 * 2 ^ n
<1>1. \A n \in Nat : IsFiniteSet(1 .. n) /\ Cardinality(1 .. n) = n
  BY FS_Interval
<1>2. \A n \in Nat : /\ IsFiniteSet(SUBSET (1 .. n)) /\ Cardinality(SUBSET (1 .. n)) = 2 ^ n
                     /\ 2 ^ n \in Nat
  BY <1>1, FS_SUBSET, FS_CardinalityType, ZenonT(60)
<1>3. 2 ^ 0 = 1
  <2>1. SUBSET (1 .. 0) = {{}}
    OBVIOUS
  <2>2. Cardinality(SUBSET (1 .. 0)) = 1
    BY <2>1, FS_Singleton
  <2> QED BY <1>2, <2>2
<1>4. ASSUME NEW n \in Nat PROVE 2 ^ (n + 1) = 2 * 2 ^ n
  <2> DEFINE S == SUBSET (1 .. n)
             T == {s \cup {n + 1} : s \in S}
             f == [s \in S |-> s \cup {n + 1}]
             a == 2 ^ n
  <2>1. S \cup T = SUBSET (1 .. n + 1)
    <3>1. 1 .. n + 1 = (1 .. n) \cup {n + 1}
      OBVIOUS
    <3>2. \A s \in SUBSET (1 .. n + 1) : n + 1 \in s => s \ {n + 1} \in S /\ s = (s \ {n + 1}) \cup {n + 1}
      BY <3>1
    <3>3. \A s \in SUBSET (1 .. n + 1) : n + 1 \notin s => s \in S
      BY <3>1
    <3>4. \A s \in S : s \in SUBSET (1 .. n + 1) /\ s \cup {n + 1} \in SUBSET (1 .. n + 1)
      BY <3>1
    <3>5. \A s \in SUBSET (1 .. n + 1) : s \in S \/ s \in T
      <4>1. \A u \in S : u \cup {n + 1} \in T
        OBVIOUS
      <4> HIDE DEF S, T
      <4>2. ASSUME NEW s \in SUBSET (1 .. n + 1), n + 1 \in s PROVE s \in T
        <5>1. s \ {n + 1} \in S /\ s = (s \ {n + 1}) \cup {n + 1}
          BY <3>2, <4>2
        <5> DEFINE u == s \ {n + 1}
        <5>2. u \in S /\ s = u \cup {n + 1}
          BY <5>1
        <5> HIDE DEF u
        <5> QED BY <4>1, <5>2
      <4> QED BY <3>3, <4>2
    <3>6. \A t \in T : \E s \in S : t = s \cup {n + 1}
      OBVIOUS
    <3> HIDE DEF S, T
    <3> QED BY <3>4, <3>5, <3>6
  <2>2. n + 1 \notin 1 .. n
    OBVIOUS
  <2>3. S \cap T = {}
    BY <2>2
  <2>4. f \in [S -> T] /\ (\A s, t \in S : f[s] = f[t] => s = t) /\ \A t \in T : \E s \in S : f[s] = t
    BY <2>2, ZenonT(60)
  <2>5. IsFiniteSet(S) /\ Cardinality(S) = a /\ a \in Nat
    BY <1>2
  <2>6. n + 1 \in Nat
    OBVIOUS
  <2>7. Cardinality(SUBSET (1 .. n + 1)) = 2 ^ (n + 1)
    BY <1>2, <2>6
  <2> HIDE DEF S, T, f, a
  <2>8. f \in Surjection(S, T) /\ f \in Injection(S, T)
    BY <2>4 DEF Surjection, Injection, IsInjective
  <2>9. IsFiniteSet(T) /\ Cardinality(T) = a
    BY <2>5, <2>8, FS_Surjection
  <2>10. Cardinality(S \cup T) = a + a - 0
    BY <2>3, <2>5, <2>9, FS_Union, FS_EmptySet
  <2>11. 2 ^ (n + 1) = a + a - 0
    BY <2>1, <2>7, <2>10
  <2>12. a + a - 0 = 2 * a
    BY <2>5
  <2> QED BY <2>11, <2>12 DEF a
<1> QED BY <1>2, <1>3, <1>4

\* One turn of the loop of num, and its states.
Divided(s, base) ==
  IF s.rest = 0 THEN s
  ELSE [rest |-> Quot(s.rest, base), out |-> Append(s.out, convert_num_to_char(Rem(s.rest, base)))]
DigitLoop(number, base, w, s) ==
  s = [i \in 0 .. w |-> IF i = 0 THEN [rest |-> number, out |-> <<>>] ELSE Divided(s[i - 1], base)]

LEMMA DigitLoopsExist == \A w \in Nat : \A number, base : \E s : DigitLoop(number, base, w, s)
<1> DEFINE Bad == {w \in Nat : \E number, base : \A s : ~DigitLoop(number, base, w, s)}
<1> SUFFICES ASSUME Bad # {} PROVE FALSE
  OBVIOUS
<1>1. PICK w \in Bad : \A m \in Bad : w <= m
  BY LeastElement
<1>2. PICK number, base : w \in Nat /\ \A s : ~DigitLoop(number, base, w, s)
  BY <1>1
<1>3. CASE w = 0
  <2> DEFINE s == [i \in 0 .. 0 |-> [rest |-> number, out |-> <<>>]]
  <2>1. s = [i \in 0 .. 0 |-> IF i = 0 THEN [rest |-> number, out |-> <<>>] ELSE Divided(s[i - 1], base)]
    <3>1. \A i \in 0 .. 0 : i = 0
      OBVIOUS
    <3> QED BY <3>1
  <2> HIDE DEF s
  <2>2. DigitLoop(number, base, 0, s)
    BY <2>1 DEF DigitLoop
  <2> QED BY <1>2, <1>3, <2>2
<1>4. CASE w # 0
  <2>1. w - 1 \in Nat /\ w - 1 \notin Bad
    BY <1>1, <1>2, <1>4
  <2>2. PICK s : DigitLoop(number, base, w - 1, s)
    BY <2>1
  <2> DEFINE e == [i \in 0 .. w |-> IF i = w THEN Divided(s[w - 1], base) ELSE s[i]]
  <2>3. \A i \in 0 .. w - 1 : s[i] = IF i = 0 THEN [rest |-> number, out |-> <<>>] ELSE Divided(s[i - 1], base)
    BY <2>2 DEF DigitLoop
  <2>4. /\ \A i \in 0 .. w - 1 : i \in 0 .. w /\ i # w
        /\ \A i \in 0 .. w : i = w \/ i \in 0 .. w - 1
        /\ \A i \in 0 .. w : i # 0 => i - 1 \in 0 .. w - 1
    BY <1>2
  <2>5. ASSUME NEW i \in 0 .. w
        PROVE  e[i] = IF i = 0 THEN [rest |-> number, out |-> <<>>] ELSE Divided(e[i - 1], base)
    <3>1. \A j \in 0 .. w - 1 : e[j] = s[j]
      BY <2>4
    <3>2. e[w] = Divided(s[w - 1], base)
      BY <1>2
    <3> HIDE DEF e
    <3>3. CASE i = w
      BY <1>4, <2>4, <3>1, <3>2, <3>3
    <3>4. CASE i \in 0 .. w - 1
      <4>1. i # 0 => e[i - 1] = s[i - 1]
        BY <2>4, <3>1
      <4> QED BY <2>3, <3>1, <3>4, <4>1
    <3> QED BY <2>4, <3>3, <3>4
  <2>6. e = [i \in 0 .. w |-> IF i = 0 THEN [rest |-> number, out |-> <<>>] ELSE Divided(e[i - 1], base)]
    BY <2>5
  <2> HIDE DEF e
  <2>7. DigitLoop(number, base, w, e)
    BY <2>6 DEF DigitLoop
  <2> QED BY <1>2, <2>7
<1> QED BY <1>3, <1>4

LEMMA DigitsValue ==
  ASSUME NEW number, NEW base
  PROVE  \E s : DigitLoop(number, base, Width, s) /\ digits(number, base) = s[Width].out
<1> DEFINE s == CHOOSE s : DigitLoop(number, base, Width, s)
<1>1. DigitLoop(number, base, Width, s)
  BY WidthAssumption, DigitLoopsExist
<1>2. digits(number, base) = s[Width].out
  BY DEF digits, DigitLoop, Divided
<1> QED BY <1>1, <1>2

LEMMA OneDigit ==
  ASSUME NEW a \in Nat, NEW base \in {10, 16}
  PROVE  /\ Quot(a, base) \in Nat /\ 2 * Quot(a, base) <= a
         /\ Rem(a, base) \in 0 .. 15 /\ base * Quot(a, base) + Rem(a, base) = a
<1>1. CASE base = 10
  <2>1. Quot(a, base) = a \div 10
    BY <1>1 DEF Quot
  <2> DEFINE q == a \div 10
  <2>2. q \in Nat /\ 10 * q <= a /\ a < 10 * q + 10
    OBVIOUS
  <2>3. Rem(a, base) = a - 10 * q
    BY <1>1, <2>1 DEF Rem
  <2> HIDE DEF q
  <2>4. 2 * q <= a /\ a - 10 * q \in 0 .. 15 /\ 10 * q + (a - 10 * q) = a
    BY <2>2
  <2> QED BY <1>1, <2>1, <2>2, <2>3, <2>4 DEF q
<1>2. CASE base = 16
  <2>1. Quot(a, base) = a \div 16
    BY <1>2 DEF Quot
  <2> DEFINE q == a \div 16
  <2>2. q \in Nat /\ 16 * q <= a /\ a < 16 * q + 16
    OBVIOUS
  <2>3. Rem(a, base) = a - 16 * q
    BY <1>2, <2>1 DEF Rem
  <2> HIDE DEF q
  <2>4. 2 * q <= a /\ a - 16 * q \in 0 .. 15 /\ 16 * q + (a - 16 * q) = a
    BY <2>2
  <2> QED BY <1>2, <2>1, <2>2, <2>3, <2>4 DEF q
<1> QED BY <1>1, <1>2

LEMMA DigitReadsBack ==
  ASSUME NEW r \in 0 .. 15
  PROVE  convert_num_to_char(r) \in Nat \ {0} /\ DigitOf(convert_num_to_char(r)) = r
BY DEF convert_num_to_char, DigitOf, Digit0, LetterA

(***************************************************************************)
(* The digits of a number: rest[i] is what is left of it after i digits.   *)
(* They end, since every digit at least halves the rest.                   *)
(***************************************************************************)
DigitsOf(d, rest, number, base) ==
  /\ d \in Seq(Nat \ {0}) /\ Len(d) \in Nat
  /\ \A i \in 0 .. Len(d) : rest[i] \in Nat
  /\ rest[0] = number /\ rest[Len(d)] = 0
  /\ \A i \in 1 .. Len(d) : /\ rest[i] = Quot(rest[i - 1], base)
                            /\ d[i] = convert_num_to_char(Rem(rest[i - 1], base))

\* After i turns.
Dividing(s, i, base) ==
  /\ s[i].rest \in Nat /\ s[i].rest < 2 ^ (Width - i)
  /\ s[i].out \in Seq(Nat \ {0}) /\ Len(s[i].out) \in 0 .. i
  /\ s[i].rest = s[Len(s[i].out)].rest /\ (s[i].rest # 0 => Len(s[i].out) = i)
  /\ \A j \in 1 .. Len(s[i].out) : /\ s[j - 1].rest \in Nat /\ s[j].rest = Quot(s[j - 1].rest, base)
                                   /\ s[i].out[j] = convert_num_to_char(Rem(s[j - 1].rest, base))

LEMMA DividingTurn ==
  ASSUME NEW base \in {10, 16}, NEW s, NEW i \in 1 .. Width, Dividing(s, i - 1, base),
         s[i] = Divided(s[i - 1], base)
  PROVE  Dividing(s, i, base)
<1> DEFINE t == s[i - 1]
           n == Len(t.out)
           h == 2 ^ (Width - i)
<1>0. Width \in Nat /\ i \in Nat /\ i - 1 \in Nat /\ Width - i \in Nat /\ Width - (i - 1) = Width - i + 1
  BY WidthAssumption
<1>1. 2 ^ (Width - (i - 1)) = 2 * h /\ h \in Nat
  BY <1>0, PowersOfTwo
<1>2. h # 0 /\ h >= 1
  <2> DEFINE Bad == {k \in Nat : 2 ^ k = 0}
  <2>1. Bad = {}
    <3> SUFFICES ASSUME Bad # {} PROVE FALSE
      OBVIOUS
    <3>1. PICK k \in Bad : \A m \in Bad : k <= m
      BY LeastElement
    <3>2. k # 0
      <4>1. 2 ^ k = 0 /\ 2 ^ 0 # 0
        BY <3>1, PowersOfTwo
      <4> QED BY <4>1, Zenon
    <3>3. k - 1 \in Nat /\ k - 1 \notin Bad /\ k = (k - 1) + 1
      BY <3>1, <3>2
    <3> DEFINE x == 2 ^ (k - 1)
    <3>4. x \in Nat /\ x # 0 /\ 2 ^ k = 2 * x
      BY <3>3, PowersOfTwo
    <3> HIDE DEF x
    <3>5. 2 * x # 0
      BY <3>4
    <3> QED BY <3>1, <3>4, <3>5
  <2> HIDE DEF h
  <2>2. h # 0
    BY <1>0, <1>1, <2>1 DEF h
  <2> QED BY <1>1, <2>2
<1>3. /\ t.rest \in Nat /\ t.rest < 2 * h /\ t.out \in Seq(Nat \ {0}) /\ n \in 0 .. i - 1
      /\ t.rest = s[n].rest /\ (t.rest # 0 => n = i - 1)
      /\ \A j \in 1 .. n : /\ s[j - 1].rest \in Nat /\ s[j].rest = Quot(s[j - 1].rest, base)
                           /\ t.out[j] = convert_num_to_char(Rem(s[j - 1].rest, base))
  BY <1>1 DEF Dividing
<1> HIDE DEF t, h
<1>4. CASE t.rest = 0
  <2>1. s[i] = t
    BY <1>4 DEF Divided, t
  <2>2. s[i].rest < h /\ Len(s[i].out) \in 0 .. i
    BY <1>0, <1>1, <1>2, <1>3, <1>4, <2>1
  <2> QED BY <1>3, <1>4, <2>1, <2>2 DEF Dividing, h
<1>5. CASE t.rest # 0
  <2> DEFINE r == t.rest
             q == Quot(r, base)
             c == convert_num_to_char(Rem(r, base))
             o == Append(t.out, c)
  <2>1. s[i].rest = q /\ s[i].out = o
    BY <1>5 DEF Divided, t
  <2>2. q \in Nat /\ 2 * q <= r /\ Rem(r, base) \in 0 .. 15
    BY <1>3, OneDigit
  <2>3. c \in Nat \ {0}
    BY <2>2, DigitReadsBack
  <2>4. n = i - 1
    BY <1>3, <1>5
  <2>9. r \in Nat /\ r < 2 * h
    BY <1>3
  <2> HIDE DEF c, q, r
  <2>5. q < h
    BY <1>1, <2>2, <2>9
  <2>6. /\ o \in Seq(Nat \ {0}) /\ Len(o) = i /\ o[i] = c
        /\ \A j \in 1 .. i - 1 : o[j] = t.out[j]
    BY <1>0, <1>3, <2>3, <2>4, AppendProperties
  <2> HIDE DEF o
  <2>7. ASSUME NEW j \in 1 .. i
        PROVE  /\ s[j - 1].rest \in Nat /\ s[j].rest = Quot(s[j - 1].rest, base)
               /\ o[j] = convert_num_to_char(Rem(s[j - 1].rest, base))
    <3>1. CASE j = i
      <4>1. s[i - 1].rest = r
        BY DEF r, t
      <4> QED BY <2>1, <2>6, <2>9, <3>1, <4>1 DEF q, c
    <3>2. CASE j # i
      <4>1. j \in 1 .. i - 1
        BY <1>0, <3>2
      <4> QED BY <1>3, <2>4, <2>6, <4>1
    <3> QED BY <3>1, <3>2
  <2>8. i \in 0 .. i
    BY <1>0
  <2> QED BY <2>1, <2>2, <2>5, <2>6, <2>7, <2>8 DEF Dividing, h
<1> QED BY <1>4, <1>5

LEMMA DigitsAre ==
  ASSUME NEW number \in Nat, number < 2 ^ Width, NEW base \in {10, 16}
  PROVE  \E rest : DigitsOf(digits(number, base), rest, number, base)
<1>1. PICK s : DigitLoop(number, base, Width, s) /\ digits(number, base) = s[Width].out
  BY DigitsValue
<1>0. Width \in Nat
  BY WidthAssumption
<1>2. \A i \in 0 .. Width : s[i] = IF i = 0 THEN [rest |-> number, out |-> <<>>] ELSE Divided(s[i - 1], base)
  BY <1>1 DEF DigitLoop
<1>3. s[0].rest = number /\ s[0].out = <<>>
  <2>1. s[0] = [rest |-> number, out |-> <<>>]
    BY <1>0, <1>2
  <2> QED BY <2>1
<1>4. Dividing(s, 0, base)
  <2>1. Len(s[0].out) = 0 /\ s[0].out \in Seq(Nat \ {0}) /\ Width - 0 = Width
    BY <1>0, <1>3
  <2> QED BY <1>3, <2>1 DEF Dividing
<1> DEFINE Bad == {i \in 0 .. Width : ~Dividing(s, i, base)}
<1>5. Bad = {}
  <2> SUFFICES ASSUME Bad # {} PROVE FALSE
    OBVIOUS
  <2>1. PICK i \in Bad : \A m \in Bad : i <= m
    <3>1. Bad \in SUBSET Nat
      BY <1>0
    <3> QED BY <3>1, LeastElement
  <2>2. i # 0
    BY <1>4, <2>1
  <2>3. i \in 1 .. Width /\ i - 1 \in 0 .. Width /\ i - 1 \notin Bad
    BY <1>0, <2>1, <2>2
  <2>4. Dividing(s, i - 1, base) /\ s[i] = Divided(s[i - 1], base)
    BY <1>2, <2>2, <2>3
  <2>5. Dividing(s, i, base)
    BY <2>3, <2>4, DividingTurn
  <2> QED BY <2>1, <2>5
<1>6. Dividing(s, Width, base)
  BY <1>0, <1>5
<1> DEFINE d == s[Width].out
           rest == [i \in 0 .. Width |-> s[i].rest]
<1>7. s[Width].rest = 0
  <2>1. s[Width].rest \in Nat /\ s[Width].rest < 2 ^ (Width - Width) /\ Width - Width = 0
    BY <1>0, <1>6 DEF Dividing
  <2>2. s[Width].rest < 1
    BY <2>1, PowersOfTwo
  <2> QED BY <2>1, <2>2
<1>8. /\ d \in Seq(Nat \ {0}) /\ Len(d) \in 0 .. Width /\ s[Len(d)].rest = 0
      /\ \A j \in 1 .. Len(d) : /\ s[j - 1].rest \in Nat /\ s[j].rest = Quot(s[j - 1].rest, base)
                                /\ d[j] = convert_num_to_char(Rem(s[j - 1].rest, base))
  BY <1>6, <1>7 DEF Dividing
<1> HIDE DEF d
<1>9. \A i \in 0 .. Width : rest[i] = s[i].rest
  OBVIOUS
<1> HIDE DEF rest
<1>10. Len(d) \in Nat /\ (\A i \in 0 .. Len(d) : i \in 0 .. Width) /\ \A i \in 1 .. Len(d) : i - 1 \in 0 .. Width
  BY <1>0, <1>8
<1>11. \A i \in 0 .. Len(d) : rest[i] \in Nat
  <2> SUFFICES ASSUME NEW i \in 0 .. Len(d) PROVE rest[i] \in Nat
    OBVIOUS
  <2>1. rest[i] = s[i].rest
    BY <1>9, <1>10
  <2>2. Dividing(s, i, base)
    BY <1>5, <1>10
  <2> QED BY <2>1, <2>2 DEF Dividing
<1>12. rest[0] = number /\ rest[Len(d)] = 0
  BY <1>3, <1>8, <1>9, <1>10
<1>13. \A i \in 1 .. Len(d) : /\ rest[i] = Quot(rest[i - 1], base)
                              /\ d[i] = convert_num_to_char(Rem(rest[i - 1], base))
  <2> SUFFICES ASSUME NEW i \in 1 .. Len(d)
      PROVE  rest[i] = Quot(rest[i - 1], base) /\ d[i] = convert_num_to_char(Rem(rest[i - 1], base))
    OBVIOUS
  <2>1. i \in 0 .. Width /\ i - 1 \in 0 .. Width
    BY <1>10
  <2>2. rest[i] = s[i].rest /\ rest[i - 1] = s[i - 1].rest
    BY <1>9, <2>1
  <2> QED BY <1>8, <2>2
<1>14. DigitsOf(d, rest, number, base)
  BY <1>8, <1>10, <1>11, <1>12, <1>13 DEF DigitsOf
<1> QED BY <1>1, <1>14 DEF d

\* The value of a string, digit by digit.
ValueLoop(string, base, n, g) ==
  g = [s \in SUBSET (1 .. n) |-> IF s = {} THEN 0 ELSE base * g[s \ {Max(s)}] + DigitOf(string[Max(s)])]

LEMMA ValueSteps ==
  ASSUME NEW string, Len(string) \in Nat, DOMAIN string = 1 .. Len(string), NEW base \in {10, 16}
  PROVE  \E g : /\ g[1 .. 0] = 0
                /\ \A k \in 1 .. Len(string) : g[1 .. k] = base * g[1 .. (k - 1)] + DigitOf(string[k])
                /\ Value(string, base) = g[1 .. Len(string)]
<1> DEFINE loop == IF base = 10 THEN "ten" ELSE "sixteen"
           g == CHOOSE g : ValueLoop(string, base, Len(string), g)
<1>0. \A x, k : Turn(loop, string, x, k) = base * x + DigitOf(string[k])
  <2>1. CASE base = 10
    BY <2>1 DEF Turn
  <2>2. CASE base = 16
    BY <2>2 DEF Turn
  <2> QED BY <2>1, <2>2
<1> HIDE DEF loop
<1>1. \A f : Loops(loop, string, 0, Len(string), f) <=> ValueLoop(string, base, Len(string), f)
  BY <1>0, ZenonT(60) DEF Loops, ValueLoop
<1>2. ValueLoop(string, base, Len(string), g)
  BY <1>1, LoopsExist
<1>3. Value(string, base) = g[1 .. Len(string)]
  BY DEF Value, FoldLeft, MapThenFoldSet, ValueLoop
<1> HIDE DEF g
<1>5. Loops(loop, string, 0, Len(string), g)
  BY <1>1, <1>2
<1>4. Turns(loop, string, 0, Len(string), g)
  BY <1>5, LoopSteps
<1> QED BY <1>0, <1>3, <1>4 DEF Turns

\* Read from its end, a sequence of digits gives back the number: after k of
\* them the value is what was left of the number with the others taken off.
LEMMA ReadsBack ==
  ASSUME NEW d, NEW rest, NEW number, NEW base \in {10, 16}, DigitsOf(d, rest, number, base),
         NEW string, Len(string) = Len(d), DOMAIN string = 1 .. Len(d),
         \A i \in 1 .. Len(d) : string[i] = d[Len(d) + 1 - i]
  PROVE  Value(string, base) = number
<1> DEFINE n == Len(d)
<1>0. /\ n \in Nat /\ (\A i \in 0 .. n : rest[i] \in Nat) /\ rest[0] = number /\ rest[n] = 0
      /\ \A i \in 1 .. n : /\ rest[i] = Quot(rest[i - 1], base)
                           /\ d[i] = convert_num_to_char(Rem(rest[i - 1], base))
  BY DEF DigitsOf
<1>1. PICK g : /\ g[1 .. 0] = 0
               /\ \A k \in 1 .. n : g[1 .. k] = base * g[1 .. (k - 1)] + DigitOf(string[k])
               /\ Value(string, base) = g[1 .. n]
  <2>1. Len(string) \in Nat /\ DOMAIN string = 1 .. Len(string) /\ n = Len(string)
    BY <1>0
  <2> HIDE DEF n
  <2>2. \E g : /\ g[1 .. 0] = 0
               /\ \A k \in 1 .. Len(string) : g[1 .. k] = base * g[1 .. (k - 1)] + DigitOf(string[k])
               /\ Value(string, base) = g[1 .. Len(string)]
    BY ONLY <2>1, ValueSteps, base \in {10, 16}
  <2> QED BY <2>1, <2>2
<1>9. \A i \in 1 .. n : string[i] = d[n + 1 - i]
  OBVIOUS
<1> HIDE DEF n
<1> DEFINE Bad == {k \in 0 .. n : g[1 .. k] # rest[n - k]}
<1>2. Bad = {}
  <2> SUFFICES ASSUME Bad # {} PROVE FALSE
    OBVIOUS
  <2>1. PICK k \in Bad : \A m \in Bad : k <= m
    <3>1. Bad \in SUBSET Nat
      BY <1>0
    <3> QED BY <3>1, LeastElement
  <2>2. k \in 0 .. n /\ g[1 .. k] # rest[n - k]
    BY <2>1
  <2>3. k # 0
    <3>1. n - 0 = n /\ g[1 .. 0] = rest[n]
      BY <1>0, <1>1
    <3>2. k = 0 => g[1 .. k] = g[1 .. 0] /\ rest[n - k] = rest[n - 0]
      OBVIOUS
    <3> QED BY <2>2, <3>1, <3>2
  <2>4. k \in 1 .. n /\ k - 1 \in 0 .. n /\ k - 1 \notin Bad
    BY <1>0, <2>1, <2>3
  <2> DEFINE j == n - k
  <2>5. j + 1 \in 1 .. n /\ (j + 1) - 1 = j /\ n - (k - 1) = j + 1 /\ n + 1 - k = j + 1 /\ j \in 0 .. n
    BY <1>0, <2>4
  <2>6. g[1 .. (k - 1)] = rest[n - (k - 1)]
    BY <2>4
  <2>7. g[1 .. k] = base * rest[j + 1] + DigitOf(d[j + 1])
    <3>1. g[1 .. k] = base * g[1 .. (k - 1)] + DigitOf(string[k])
      BY <1>1, <2>4
    <3>2. string[k] = d[n + 1 - k]
      BY <1>9, <2>4
    <3> HIDE DEF j
    <3> QED BY <2>5, <2>6, <3>1, <3>2
  <2>8. rest[j] \in Nat
    BY <1>0, <2>5
  <2>9. rest[j + 1] = Quot(rest[j], base) /\ d[j + 1] = convert_num_to_char(Rem(rest[j], base))
    <3> HIDE DEF j
    <3> QED BY <1>0, <2>5
  <2> HIDE DEF j
  <2>10. Rem(rest[j], base) \in 0 .. 15 /\ base * Quot(rest[j], base) + Rem(rest[j], base) = rest[j]
    BY <2>8, OneDigit
  <2>11. DigitOf(d[j + 1]) = Rem(rest[j], base)
    BY <2>9, <2>10, DigitReadsBack
  <2>12. g[1 .. k] = rest[j]
    BY <2>7, <2>9, <2>10, <2>11
  <2> QED BY <2>2, <2>12 DEF j
<1>3. n \in 0 .. n /\ n - n = 0
  BY <1>0
<1>4. g[1 .. n] = rest[n - n]
  BY <1>2, <1>3
<1> QED BY <1>0, <1>1, <1>3, <1>4

LEMMA ZeroReadsBack ==
  ASSUME NEW base \in {10, 16}
  PROVE  Value(<<Digit0>>, base) = 0
<1> DEFINE d == <<Digit0>>
           rest == [i \in 0 .. 1 |-> 0]
<1>1. d \in Seq(Nat \ {0}) /\ Len(d) = 1 /\ d[1] = 48 /\ DOMAIN d = 1 .. 1
  BY DEF Digit0
<1>2. rest[0] = 0 /\ rest[1] = 0
  OBVIOUS
<1>3. Quot(0, base) = 0 /\ Rem(0, base) = 0 /\ convert_num_to_char(0) = 48
  <2>1. Quot(0, base) \in Nat /\ 2 * Quot(0, base) <= 0 /\ base * Quot(0, base) + Rem(0, base) = 0
        /\ Rem(0, base) \in 0 .. 15
    BY OneDigit
  <2>2. Quot(0, base) = 0
    BY <2>1
  <2>3. base * 0 + Rem(0, base) = 0 /\ base * 0 = 0
    BY <2>1, <2>2
  <2>4. Rem(0, base) = 0
    BY <2>1, <2>3
  <2> QED BY <2>2, <2>4 DEF convert_num_to_char, Digit0
<1> HIDE DEF d, rest
<1>4. DigitsOf(d, rest, 0, base)
  <2>1. \A i \in 0 .. 1 : rest[i] = 0
    BY <1>2
  <2>2. \A i \in 1 .. 1 : i = 1 /\ i - 1 = 0
    OBVIOUS
  <2> QED BY <1>1, <1>2, <1>3, <2>1, <2>2 DEF DigitsOf
<1>5. \A i \in 1 .. Len(d) : d[i] = d[Len(d) + 1 - i]
  BY <1>1
<1>6. Value(d, base) = 0
  BY <1>1, <1>4, <1>5, ReadsBack
<1> QED BY <1>6 DEF d

\* What stands at the end of the digits comes first when they are reversed.
LEMMA Reversed ==
  ASSUME NEW d \in Seq(Nat), NEW e \in Seq(Nat)
  PROVE  /\ reverse(d \o e) \in Seq(Nat) /\ Len(reverse(d \o e)) = Len(d) + Len(e)
         /\ \A i \in 1 .. Len(d) : reverse(d \o e)[Len(e) + i] = d[Len(d) + 1 - i]
         /\ \A i \in 1 .. Len(e) : reverse(d \o e)[i] = e[Len(e) + 1 - i]
<1> DEFINE c == d \o e
           n == Len(d)
           m == Len(e)
           r == reverse(c)
<1>1. /\ n \in Nat /\ m \in Nat /\ c \in Seq(Nat) /\ Len(c) = n + m
      /\ \A i \in 1 .. n + m : c[i] = IF i <= n THEN d[i] ELSE e[i - n]
  BY ConcatProperties
<1> HIDE DEF c, n, m
<1>2. DOMAIN c = 1 .. n + m /\ n + m \in Nat
  BY <1>1
<1>3. r = [i \in 1 .. n + m |-> c[n + m + 1 - i]]
  BY <1>1, <1>2 DEF reverse
<1>4. \A i \in 1 .. n + m : n + m + 1 - i \in 1 .. n + m /\ c[n + m + 1 - i] \in Nat
  <2>1. \A i \in 1 .. n + m : n + m + 1 - i \in 1 .. n + m
    BY <1>1
  <2> QED BY <1>1, <2>1
<1>5. r \in Seq(Nat) /\ Len(r) = n + m
  <2> DEFINE k == n + m
  <2>1. k \in Nat /\ r \in [1 .. k -> Nat]
    BY <1>2, <1>3, <1>4
  <2> HIDE DEF k, r
  <2>2. r \in Seq(Nat) /\ Len(r) = k
    BY ONLY <2>1
  <2> QED BY <2>2 DEF k
<1>6. \A i \in 1 .. n : r[m + i] = d[n + 1 - i]
  <2> SUFFICES ASSUME NEW i \in 1 .. n PROVE r[m + i] = d[n + 1 - i]
    OBVIOUS
  <2>1. m + i \in 1 .. n + m /\ n + m + 1 - (m + i) = n + 1 - i /\ n + 1 - i \in 1 .. n + m /\ n + 1 - i <= n
    BY <1>1
  <2> HIDE DEF r
  <2> QED BY <1>1, <1>3, <2>1
<1>7. \A i \in 1 .. m : r[i] = e[m + 1 - i]
  <2> SUFFICES ASSUME NEW i \in 1 .. m PROVE r[i] = e[m + 1 - i]
    OBVIOUS
  <2>1. /\ i \in 1 .. n + m /\ n + m + 1 - i \in 1 .. n + m /\ ~(n + m + 1 - i <= n)
        /\ (n + m + 1 - i) - n = m + 1 - i
    BY <1>1
  <2> HIDE DEF r
  <2> QED BY <1>1, <1>3, <2>1
<1> QED BY <1>5, <1>6, <1>7 DEF c, n, m

LEMMA IntsAreSmall ==
  ASSUME NEW n \in Nat, n < 2 ^ (Width - 1)
  PROVE  n < 2 ^ Width /\ Wrap(n) = n
<1> DEFINE h == 2 ^ (Width - 1)
<1>1. Width - 1 \in Nat /\ (Width - 1) + 1 = Width
  BY WidthAssumption
<1>2. h \in Nat /\ 2 ^ Width = 2 * h /\ n < h
  BY <1>1, PowersOfTwo
<1>3. Wrap(n) = ((n + h) % (2 * h)) - h
  BY <1>2 DEF Wrap
<1> HIDE DEF h
<1>4. (n + h) % (2 * h) = n + h
  <2> DEFINE a == n + h
             m == 2 * h
  <2>1. a \in Nat /\ m \in Nat /\ m > 0 /\ a < m
    BY <1>2
  <2> HIDE DEF a, m
  <2>2. a % m = a
    BY <2>1
  <2> QED BY <2>2 DEF a, m
<1> QED BY <1>2, <1>3, <1>4

LEMMA ShortPieces ==
  ASSUME NEW s \in Seq(Nat), NEW a \in 1 .. Len(s)
  PROVE  SubSeq(s, a, a) = <<s[a]>> /\ (Len(s) >= 2 => SubSeq(s, 1, 2) = <<s[1], s[2]>>)
<1>1. Len(s) \in Nat /\ a \in Nat /\ 1 <= a /\ a <= Len(s) /\ a \in Int /\ a <= a
  OBVIOUS
<1>2. SubSeq(s, a, a) = <<s[a]>>
  <2> DEFINE t == SubSeq(s, a, a)
  <2>1. /\ t \in Seq(Nat) /\ Len(t) = (IF a <= a THEN a - a + 1 ELSE 0)
        /\ \A i \in 1 .. a - a + 1 : t[i] = s[a + i - 1]
    BY <1>1, Piece
  <2>2. a - a + 1 = 1 /\ a + 1 - 1 = a
    BY <1>1
  <2>3. Len(t) = 1 /\ t[1] = s[a]
    BY <1>1, <2>1, <2>2
  <2> DEFINE u == <<s[a]>>
  <2>4. u \in Seq(Nat) /\ Len(u) = 1 /\ u[1] = s[a]
    BY <1>1
  <2> HIDE DEF t, u
  <2>5. \A i \in 1 .. Len(t) : t[i] = u[i]
    BY <2>3, <2>4
  <2>6. t = u
    BY <2>1, <2>3, <2>4, <2>5, SeqEqual
  <2> QED BY <2>6 DEF t, u
<1>3. ASSUME Len(s) >= 2 PROVE SubSeq(s, 1, 2) = <<s[1], s[2]>>
  <2> DEFINE t == SubSeq(s, 1, 2)
  <2>1. /\ t \in Seq(Nat) /\ Len(t) = (IF 1 <= 2 THEN 2 - 1 + 1 ELSE 0)
        /\ \A i \in 1 .. 2 - 1 + 1 : t[i] = s[1 + i - 1]
    BY <1>1, <1>3, Piece
  <2>2. Len(t) = 2 /\ t[1] = s[1] /\ t[2] = s[2]
    BY <2>1
  <2> DEFINE u == <<s[1], s[2]>>
  <2>4. u \in Seq(Nat) /\ Len(u) = 2 /\ u[1] = s[1] /\ u[2] = s[2]
    BY <1>1, <1>3
  <2> HIDE DEF t, u
  <2>5. \A i \in 1 .. Len(t) : t[i] = u[i]
    BY <2>2, <2>4
  <2>6. t = u
    BY <2>1, <2>2, <2>4, <2>5, SeqEqual
  <2> QED BY <2>6 DEF t, u
<1> QED BY <1>2, <1>3

LEMMA NumReadsBack ==
  ASSUME NEW n \in Nat, n < 2 ^ (Width - 1), NEW base \in {10, 16}
  PROVE  Value(Unpadded(num(n, base)), base) = n
<1>1. CASE n = 0
  <2>1. num(n, base) = <<Digit0, 0>>
    BY <1>1 DEF num
  <2>2. /\ <<Digit0, 0>> \in Seq(Nat) /\ Len(<<Digit0, 0>>) = 2
        /\ <<Digit0, 0>>[1] = Digit0 /\ <<Digit0, 0>>[2] = 0
    BY DEF Digit0
  <2>3. Unpadded(num(n, base)) = SubSeq(<<Digit0, 0>>, 1, 1)
    BY <2>1, <2>2 DEF Unpadded, Last, Front
  <2>4. SubSeq(<<Digit0, 0>>, 1, 1) = <<Digit0>>
    <3> DEFINE e == <<Digit0, 0>>
    <3>1. e \in Seq(Nat) /\ Len(e) = 2 /\ e[1] = Digit0 /\ 1 \in 1 .. Len(e)
      BY <2>2
    <3> HIDE DEF e
    <3>2. SubSeq(e, 1, 1) = <<Digit0>>
      BY <3>1, ShortPieces
    <3> QED BY <3>2 DEF e
  <2> QED BY <1>1, <2>3, <2>4, ZeroReadsBack
<1>2. CASE n # 0
  <2> DEFINE d == digits(n, base)
             r == reverse(d \o <<>>)
  <2>1. PICK rest : DigitsOf(d, rest, n, base)
    BY IntsAreSmall, DigitsAre
  <2>2. num(n, base) = r
    <3>1. n >= 0 /\ ~(n < 0)
      OBVIOUS
    <3> QED BY <1>2, <3>1 DEF num
  <2> HIDE DEF d
  <2>3. d \in Seq(Nat \ {0}) /\ d \in Seq(Nat) /\ Len(d) \in Nat /\ rest[0] = n /\ rest[Len(d)] = 0
    BY <2>1 DEF DigitsOf
  <2>4. Len(d) # 0
    BY <1>2, <2>3
  <2>5. /\ r \in Seq(Nat) /\ Len(r) = Len(d) + 0
        /\ \A i \in 1 .. Len(d) : r[0 + i] = d[Len(d) + 1 - i]
    <3>1. <<>> \in Seq(Nat) /\ Len(<<>>) = 0
      OBVIOUS
    <3> QED BY <2>3, <3>1, Reversed
  <2> HIDE DEF r
  <2>6. Len(r) = Len(d) /\ DOMAIN r = 1 .. Len(d) /\ \A i \in 1 .. Len(d) : r[i] = d[Len(d) + 1 - i]
    <3>1. Len(d) + 0 = Len(d) /\ \A i \in 1 .. Len(d) : 0 + i = i
      BY <2>3
    <3>2. Len(r) = Len(d)
      BY <2>5, <3>1
    <3>3. DOMAIN r = 1 .. Len(d)
      BY <2>5, <3>2
    <3>4. \A i \in 1 .. Len(d) : r[i] = d[Len(d) + 1 - i]
      BY <2>5, <3>1
    <3> QED BY <3>2, <3>3, <3>4
  <2>7. r[Len(r)] # 0
    <3>1. Len(d) \in 1 .. Len(d) /\ Len(d) + 1 - Len(d) = 1 /\ 1 \in 1 .. Len(d)
      BY <2>3, <2>4
    <3>2. r[Len(d)] = d[1] /\ d[1] \in Nat \ {0}
      BY <2>3, <2>6, <3>1
    <3> QED BY <2>6, <3>2
  <2>8. Unpadded(num(n, base)) = r
    BY <2>2, <2>7 DEF Unpadded, Last
  <2>9. Value(r, base) = n
    BY <2>1, <2>6, ReadsBack
  <2> QED BY <2>8, <2>9
<1> QED BY <1>1, <1>2

LEMMA NegativeReadsBack ==
  ASSUME NEW n \in Nat, n < 2 ^ (Width - 1), n # 0
  PROVE  num(-n, 10)[1] = Minus /\ Value(Tail(num(-n, 10)), 10) = n
<1> DEFINE d == digits(n, 10)
           r == reverse(d \o <<Minus>>)
<1>1. PICK rest : DigitsOf(d, rest, n, 10)
  BY IntsAreSmall, DigitsAre
<1>2. num(-n, 10) = r
  <2>1. -n < 0 /\ ~(-n >= 0) /\ -n # 0 /\ -(-n) = n
    OBVIOUS
  <2>2. Wrap(-(-n)) = n
    BY <2>1, IntsAreSmall
  <2> QED BY <2>1, <2>2 DEF num
<1> HIDE DEF d
<1>3. d \in Seq(Nat) /\ Len(d) \in Nat
  BY <1>1 DEF DigitsOf
<1>4. /\ r \in Seq(Nat) /\ Len(r) = Len(d) + 1
      /\ \A i \in 1 .. Len(d) : r[1 + i] = d[Len(d) + 1 - i]
      /\ r[1] = Minus
  <2> DEFINE e == <<Minus>>
  <2>1. e \in Seq(Nat) /\ Len(e) = 1 /\ e[1] = Minus
    BY DEF Minus
  <2> HIDE DEF e
  <2>2. /\ reverse(d \o e) \in Seq(Nat) /\ Len(reverse(d \o e)) = Len(d) + Len(e)
        /\ \A i \in 1 .. Len(d) : reverse(d \o e)[Len(e) + i] = d[Len(d) + 1 - i]
        /\ \A i \in 1 .. Len(e) : reverse(d \o e)[i] = e[Len(e) + 1 - i]
    BY <1>3, <2>1, Reversed
  <2>3. 1 \in 1 .. 1 /\ 1 + 1 - 1 = 1
    OBVIOUS
  <2> QED BY <2>1, <2>2, <2>3 DEF e
<1> HIDE DEF r
<1>5. /\ Len(Tail(r)) = Len(d) /\ DOMAIN Tail(r) = 1 .. Len(d)
      /\ \A i \in 1 .. Len(d) : Tail(r)[i] = d[Len(d) + 1 - i]
  <2>1. r # <<>>
    BY <1>3, <1>4
  <2>2. Tail(r) \in Seq(Nat) /\ Len(Tail(r)) = Len(d) /\ \A i \in 1 .. Len(d) : Tail(r)[i] = r[i + 1]
    BY <1>3, <1>4, <2>1
  <2>3. DOMAIN Tail(r) = 1 .. Len(d)
    BY <2>2
  <2>4. \A i \in 1 .. Len(d) : i + 1 = 1 + i
    BY <1>3
  <2> QED BY <1>4, <2>2, <2>3, <2>4
<1>6. Value(Tail(r), 10) = n
  <2> DEFINE t == Tail(r)
  <2>1. Len(t) = Len(d) /\ DOMAIN t = 1 .. Len(d) /\ \A i \in 1 .. Len(d) : t[i] = d[Len(d) + 1 - i]
    BY <1>5
  <2> HIDE DEF t
  <2>2. Value(t, 10) = n
    BY <1>1, <2>1, ReadsBack
  <2> QED BY <2>2 DEF t
<1> QED BY <1>2, <1>4, <1>6

LEMMA PointerReadsBack ==
  ASSUME NEW n \in Nat, n < 2 ^ Width
  PROVE  /\ SubSeq(pointer(n), 1, 2) = <<Digit0, LetterX>>
         /\ Value(SubSeq(pointer(n), 3, Len(pointer(n))), 16) = n
<1>1. CASE n = 0
  <2> DEFINE e == <<Digit0, LetterX, Digit0>>
  <2>1. pointer(n) = e
    BY <1>1 DEF pointer
  <2>2. e \in Seq(Nat) /\ Len(e) = 3 /\ e[1] = Digit0 /\ e[2] = LetterX /\ e[3] = Digit0
    BY DEF Digit0, LetterX
  <2> HIDE DEF e
  <2>3. SubSeq(e, 1, 2) = <<Digit0, LetterX>> /\ SubSeq(e, 3, 3) = <<Digit0>>
    <3>1. 3 \in 1 .. Len(e) /\ Len(e) >= 2
      BY <2>2
    <3> QED BY <2>2, <3>1, ShortPieces
  <2> QED BY <1>1, <2>1, <2>2, <2>3, ZeroReadsBack
<1>2. CASE n # 0
  <2> DEFINE d == digits(n, 16)
             e == <<LetterX, Digit0>>
             r == reverse(d \o e)
             t == SubSeq(r, 3, Len(r))
  <2>1. PICK rest : DigitsOf(d, rest, n, 16)
    BY DigitsAre
  <2>2. pointer(n) = r
    BY <1>2 DEF pointer
  <2> HIDE DEF d
  <2>3. d \in Seq(Nat) /\ Len(d) \in Nat
    BY <2>1 DEF DigitsOf
  <2>4. e \in Seq(Nat) /\ Len(e) = 2 /\ e[1] = LetterX /\ e[2] = Digit0
    BY DEF Digit0, LetterX
  <2> HIDE DEF e
  <2>5. /\ r \in Seq(Nat) /\ Len(r) = Len(d) + Len(e)
        /\ \A i \in 1 .. Len(d) : r[Len(e) + i] = d[Len(d) + 1 - i]
        /\ \A i \in 1 .. Len(e) : r[i] = e[Len(e) + 1 - i]
    BY <2>3, <2>4, Reversed
  <2> HIDE DEF r
  <2>6. Len(r) = Len(d) + 2 /\ r[1] = Digit0 /\ r[2] = LetterX
    BY <2>4, <2>5
  <2>7. SubSeq(r, 1, 2) = <<Digit0, LetterX>>
    <3>1. 1 \in 1 .. Len(r) /\ Len(r) >= 2
      BY <2>3, <2>6
    <3> QED BY <2>5, <2>6, <3>1, ShortPieces
  <2>8. /\ t \in Seq(Nat) /\ Len(t) = Len(d) /\ DOMAIN t = 1 .. Len(d)
        /\ \A i \in 1 .. Len(d) : t[i] = d[Len(d) + 1 - i]
    <3>1. /\ SubSeq(r, 3, Len(r)) \in Seq(Nat)
          /\ Len(SubSeq(r, 3, Len(r))) = IF 3 <= Len(r) THEN Len(r) - 3 + 1 ELSE 0
          /\ \A i \in 1 .. Len(r) - 3 + 1 : SubSeq(r, 3, Len(r))[i] = r[3 + i - 1]
      <4>1. 3 \in Nat /\ Len(r) \in Int /\ 1 <= 3 /\ Len(r) <= Len(r)
        BY <2>3, <2>6
      <4> QED BY <2>5, <4>1, Piece
    <3>2. Len(r) - 3 + 1 = Len(d) /\ (3 <= Len(r) <=> Len(d) # 0)
      BY <2>3, <2>6
    <3> HIDE DEF t
    <3>3. t \in Seq(Nat) /\ Len(t) = Len(d) /\ \A i \in 1 .. Len(d) : t[i] = r[3 + i - 1]
      BY <2>3, <3>1, <3>2 DEF t
    <3>4. \A i \in 1 .. Len(d) : 3 + i - 1 = Len(e) + i
      BY <2>3, <2>4
    <3>5. \A i \in 1 .. Len(d) : t[i] = d[Len(d) + 1 - i]
      <4> SUFFICES ASSUME NEW i \in 1 .. Len(d) PROVE t[i] = d[Len(d) + 1 - i]
        OBVIOUS
      <4>1. t[i] = r[3 + i - 1] /\ 3 + i - 1 = Len(e) + i /\ r[Len(e) + i] = d[Len(d) + 1 - i]
        BY <2>5, <3>3, <3>4
      <4> QED BY <4>1
    <3>6. DOMAIN t = 1 .. Len(d)
      BY <3>3
    <3> QED BY <3>3, <3>5, <3>6
  <2> HIDE DEF t
  <2>9. Value(t, 16) = n
    BY <2>1, <2>8, ReadsBack
  <2> QED BY <2>2, <2>7, <2>9 DEF t
<1> QED BY <1>1, <1>2

\* num and pointer write digits that mean the number, for ints and pointers of
\* any width: in base 10 for every int but the least, in base 16 for those not
\* negative, for every pointer.
THEOREM NumbersAreRight == ScreenSpec => []NumbersReadBack
<1>1. NumbersReadBack
  <2>1. Width - 1 \in Nat /\ Width \in Nat
    BY WidthAssumption
  <2>2. 2 ^ (Width - 1) \in Nat /\ 2 ^ Width \in Nat
    BY <2>1, PowersOfTwo
  <2>3. /\ \A n \in 0 .. 2 ^ (Width - 1) - 1 : n \in Nat /\ n < 2 ^ (Width - 1)
        /\ \A n \in 1 .. 2 ^ (Width - 1) - 1 : n \in Nat /\ n < 2 ^ (Width - 1) /\ n # 0
        /\ \A n \in 0 .. 2 ^ Width - 1 : n \in Nat /\ n < 2 ^ Width
    <3> DEFINE a == 2 ^ (Width - 1)
               b == 2 ^ Width
    <3>1. a \in Nat /\ b \in Nat
      BY <2>2
    <3> HIDE DEF a, b
    <3>2. /\ \A n \in 0 .. a - 1 : n \in Nat /\ n < a
          /\ \A n \in 1 .. a - 1 : n \in Nat /\ n < a /\ n # 0
          /\ \A n \in 0 .. b - 1 : n \in Nat /\ n < b
      BY <3>1
    <3> QED BY <3>2 DEF a, b
  <2> QED BY <2>3, NumReadsBack, NegativeReadsBack, PointerReadsBack DEF NumbersReadBack
<1> QED BY <1>1, PTL

=============================================================================

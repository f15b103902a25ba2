------------------------- MODULE StreamWriterProofs ------------------------
(* What the chunks of a writer hold, and what its files and parts of them  *)
(* read back as, for any sizes of chunks, nodes and appends, public or     *)
(* encrypted, when its calls follow one another.                           *)
EXTENDS StreamWriter, SequenceTheorems, FiniteSetTheorems, TLAPS

Units == {Byte(i) : i \in Nat}

-----------------------------------------------------------------------------
(* Parts of the bytes appended.                                            *)
LEMMA PartIsSeq ==
  ASSUME NEW a \in Nat, NEW b \in Nat, a <= b
  PROVE  /\ Part(a, b) \in Seq(Units) /\ Len(Part(a, b)) = b - a
         /\ \A i \in 1 .. b - a : Part(a, b)[i] = Byte(a + i)
<1>1. b - a \in Nat
  OBVIOUS
<1>2. \A i \in 1 .. b - a : Byte(a + i) \in Units
  BY DEF Units
<1> QED BY <1>1, <1>2 DEF Part

(* A part of no bytes.                                                     *)
LEMMA EmptyPart == \A a \in Nat : Part(a, a) = <<>>
<1> TAKE a \in Nat
<1>1. Part(a, a) \in Seq(Units) /\ Len(Part(a, a)) = 0
  BY PartIsSeq
<1> QED BY <1>1, EmptySeq

(* Bytes at consecutive places are the part between them.                  *)
LEMMA EqualParts ==
  ASSUME NEW a \in Nat, NEW b \in Nat, a <= b, NEW s \in Seq(Units), Len(s) = b - a,
         \A i \in 1 .. b - a : s[i] = Byte(a + i)
  PROVE  s = Part(a, b)
<1>1. /\ Part(a, b) \in Seq(Units) /\ Len(Part(a, b)) = b - a
      /\ \A i \in 1 .. b - a : Part(a, b)[i] = Byte(a + i)
  BY PartIsSeq
<1>2. \A i \in 1 .. Len(s) : s[i] = Part(a, b)[i]
  BY <1>1
<1> QED BY <1>1, <1>2, SeqEqual

(* Slicing a part moves its ends, and not beyond the end it has.           *)
LEMMA SlicePart ==
  ASSUME NEW a \in Nat, NEW b \in Nat, a <= b,
         NEW k \in Nat, NEW e \in Nat, k <= e, k <= b - a
  PROVE  Slice(Part(a, b), k, e) = Part(a + k, a + Least(e, b - a))
<1>1. /\ Part(a, b) \in Seq(Units) /\ Len(Part(a, b)) = b - a
      /\ \A i \in 1 .. b - a : Part(a, b)[i] = Byte(a + i)
  BY PartIsSeq
<1> DEFINE l == Least(e, b - a)
           sub == SubSeq(Part(a, b), k + 1, l)
           from == a + k
           to == a + l
<1>2. l \in Nat /\ k <= l /\ l <= b - a
  BY DEF Least
<1>3. Slice(Part(a, b), k, e) = sub
  BY <1>1 DEF Slice
<1> HIDE DEF l
<1>4. \A i \in k + 1 .. l : Part(a, b)[i] \in Units
  BY <1>1, <1>2, ElementOfSeq
<1>5. /\ sub \in Seq(Units) /\ Len(sub) = l - k
      /\ \A i \in 1 .. l - k : sub[i] = Part(a, b)[k + i]
  <2> DEFINE m == k + 1
  <2>1. m \in Int /\ l \in Int /\ \A i \in m .. l : Part(a, b)[i] \in Units
    BY <1>2, <1>4
  <2> HIDE DEF m
  <2>2. /\ SubSeq(Part(a, b), m, l) \in Seq(Units)
        /\ Len(SubSeq(Part(a, b), m, l)) = IF m <= l THEN l - m + 1 ELSE 0
        /\ \A i \in 1 .. l - m + 1 : SubSeq(Part(a, b), m, l)[i] = Part(a, b)[m + i - 1]
    BY <2>1, SubSeqProperties
  <2> QED BY <1>2, <2>2 DEF m
<1> HIDE DEF sub
<1>6. from \in Nat /\ to \in Nat /\ from <= to /\ Len(sub) = to - from
  BY <1>2, <1>5
<1>7. ASSUME NEW i \in 1 .. to - from
      PROVE  sub[i] = Byte(from + i)
  <2>1. i \in 1 .. l - k /\ k + i \in 1 .. b - a
    BY <1>2
  <2>2. sub[i] = Part(a, b)[k + i]
    BY <1>5, <2>1
  <2>3. Part(a, b)[k + i] = Byte(a + (k + i))
    BY <1>1, <2>1
  <2>4. a + (k + i) = from + i
    OBVIOUS
  <2> QED BY <2>2, <2>3, <2>4
<1> HIDE DEF from, to
<1>8. sub = Part(from, to)
  BY <1>5, <1>6, <1>7, EqualParts
<1> QED BY <1>3, <1>8 DEF from, to, l

(* Two parts that meet are one part.                                       *)
LEMMA JoinParts ==
  ASSUME NEW a \in Nat, NEW b \in Nat, NEW c \in Nat, a <= b, b <= c
  PROVE  Part(a, b) \o Part(b, c) = Part(a, c)
<1>1. /\ Part(a, b) \in Seq(Units) /\ Len(Part(a, b)) = b - a
      /\ \A i \in 1 .. b - a : Part(a, b)[i] = Byte(a + i)
  BY PartIsSeq
<1>2. /\ Part(b, c) \in Seq(Units) /\ Len(Part(b, c)) = c - b
      /\ \A i \in 1 .. c - b : Part(b, c)[i] = Byte(b + i)
  BY PartIsSeq
<1> DEFINE both == Part(a, b) \o Part(b, c)
<1>3. /\ both \in Seq(Units) /\ Len(both) = (b - a) + (c - b)
      /\ \A i \in 1 .. (b - a) + (c - b) :
           both[i] = IF i <= b - a THEN Part(a, b)[i] ELSE Part(b, c)[i - (b - a)]
  <2>1. /\ both \in Seq(Units) /\ Len(both) = Len(Part(a, b)) + Len(Part(b, c))
        /\ \A i \in 1 .. Len(Part(a, b)) + Len(Part(b, c)) :
             both[i] = IF i <= Len(Part(a, b)) THEN Part(a, b)[i]
                       ELSE Part(b, c)[i - Len(Part(a, b))]
    <3>1. Part(a, b) \in Seq(Units) /\ Part(b, c) \in Seq(Units)
      BY <1>1, <1>2
    <3> QED BY <3>1, ConcatProperties
  <2> HIDE DEF both
  <2> QED BY <1>1, <1>2, <2>1
<1> HIDE DEF both
<1>4. ASSUME NEW i \in 1 .. c - a
      PROVE  both[i] = Byte(a + i)
  <2>1. i \in 1 .. (b - a) + (c - b)
    OBVIOUS
  <2>2. CASE i <= b - a
    <3>1. both[i] = Part(a, b)[i]
      BY <1>3, <2>1, <2>2
    <3>2. i \in 1 .. b - a
      BY <2>2
    <3> QED BY <1>1, <3>1, <3>2
  <2>3. CASE ~(i <= b - a)
    <3>1. i - (b - a) \in 1 .. c - b /\ b + (i - (b - a)) = a + i
      BY <2>3
    <3>2. Part(b, c)[i - (b - a)] = Byte(a + i)
      BY <1>2, <3>1
    <3> QED BY <1>3, <2>1, <2>3, <3>2
  <2> QED BY <2>2, <2>3
<1>5. both = Part(a, c)
  <2>1. Len(both) = c - a /\ a <= c
    BY <1>3
  <2> QED BY <1>3, <1>4, <2>1, EqualParts
<1> QED BY <1>5 DEF both

(* The first bytes of a part, the rest of it, and the bytes of an append.  *)
LEMMA SliceFirst ==
  ASSUME NEW a \in Nat, NEW b \in Nat, a <= b, NEW k \in Nat
  PROVE  Slice(Part(a, b), 0, k) = Part(a, a + Least(k, b - a))
<1>1. 0 \in Nat /\ 0 <= k /\ 0 <= b - a /\ a + 0 = a
  OBVIOUS
<1>2. Slice(Part(a, b), 0, k) = Part(a + 0, a + Least(k, b - a))
  BY <1>1, SlicePart
<1> QED BY <1>1, <1>2

(* What is left of a part from a place on.                                 *)
LEMMA SliceRest ==
  ASSUME NEW a \in Nat, NEW b \in Nat, a <= b, NEW k \in Nat, k <= b - a
  PROVE  Slice(Part(a, b), k, Len(Part(a, b))) = Part(a + k, b)
<1> DEFINE e == b - a
<1>1. e \in Nat /\ k <= e /\ a + e = b
  OBVIOUS
<1>2. Len(Part(a, b)) = e
  BY PartIsSeq
<1>3. Least(e, b - a) = e
  BY DEF Least
<1> HIDE DEF e
<1>4. Slice(Part(a, b), k, e) = Part(a + k, a + Least(e, b - a))
  BY <1>1, SlicePart
<1> QED BY <1>1, <1>2, <1>3, <1>4

(* What a call appends is the part after what was appended before.         *)
LEMMA Appended ==
  ASSUME NEW k \in Nat, NEW m \in Nat, k <= m
  PROVE  Slice(Bytes(m), k, m) = Part(k, m)
<1> DEFINE zero == 0
<1>1. Bytes(m) = Part(zero, m)
  BY DEF Bytes, Part
<1>2. Len(Part(zero, m)) = m
  BY PartIsSeq
<1>3. zero \in Nat /\ zero <= m /\ k <= m - zero /\ zero + k = k
  OBVIOUS
<1> HIDE DEF zero
<1>4. Slice(Part(zero, m), k, Len(Part(zero, m))) = Part(zero + k, m)
  BY <1>3, SliceRest
<1> QED BY <1>1, <1>2, <1>3, <1>4

-----------------------------------------------------------------------------
(* Induction over the numbers: a set that holds 0 and the next of each of  *)
(* its numbers holds all of them, or the first that it lacks would be      *)
(* mapped one down into fewer (the pigeonhole fact of the library).        *)
LEMMA EveryNumber ==
  ASSUME NEW S, 0 \in S, \A n \in Nat : n \in S => n + 1 \in S
  PROVE  Nat \subseteq S
<1> SUFFICES ASSUME NEW n \in Nat, n \notin S
             PROVE  FALSE
  OBVIOUS
<1> DEFINE U == {i \in 0 .. n : i \notin S}
           V == U \ {n}
           down == [i \in U |-> i - 1]
<1>1. n \in U /\ U \in SUBSET (0 .. n)
  OBVIOUS
<1>2. \A i \in U : i \in Int /\ i - 1 \in V
  OBVIOUS
<1> HIDE DEF U
<1>3. down \in [U -> V] /\ \A i, j \in U : down[i] = down[j] => i = j
  BY <1>2
<1>4. IsFiniteSet(U)
  <2>1. IsFiniteSet(0 .. n)
    BY FS_Interval
  <2> QED BY <1>1, <2>1, FS_Subset
<1>5. IsFiniteSet(V) /\ Cardinality(V) < Cardinality(U)
  <2>1. Cardinality(U) \in Nat
    BY <1>4, FS_CardinalityType
  <2>2. IsFiniteSet(V) /\ Cardinality(V) = Cardinality(U) - 1
    BY <1>1, <1>4, FS_RemoveElement
  <2> QED BY <2>1, <2>2
<1> HIDE DEF V, down
<1>6. \E i, j \in U : i # j /\ down[i] = down[j]
  BY <1>3, <1>4, <1>5, FS_PigeonHole
<1> QED BY <1>3, <1>6

(* A set of numbers that is not empty has a first.                         *)
LEMMA FirstNumber ==
  ASSUME NEW T \in SUBSET Nat, T # {}
  PROVE  \E k \in T : \A j \in T : k <= j
<1> SUFFICES ASSUME \A k \in T : \E j \in T : ~(k <= j)
             PROVE  FALSE
  OBVIOUS
<1> DEFINE S == {k \in Nat : \A j \in 0 .. k : j \notin T}
<1>1. 0 \in S
  OBVIOUS
<1>2. ASSUME NEW k \in Nat, k \in S
      PROVE  k + 1 \in S
  <2>1. k + 1 \notin T
    BY <1>2
  <2> QED BY <1>2, <2>1
<1>3. \A k \in S : k \notin T
  OBVIOUS
<1> HIDE DEF S
<1> QED BY <1>1, <1>2, <1>3, EveryNumber

-----------------------------------------------------------------------------
(* What is a sequence of something, and what follows of its length.        *)
Sequence(s) == \E S : s \in Seq(S)

(* A sequence is a function on the numbers up to its length.               *)
LEMMA SequenceIs ==
  ASSUME NEW s, Sequence(s)
  PROVE  \E n \in Nat : Len(s) = n /\ DOMAIN s = 1 .. n /\ s = [i \in 1 .. n |-> s[i]]
<1>1. PICK S : s \in Seq(S)
  BY DEF Sequence
<1>2. Len(s) \in Nat /\ DOMAIN s = 1 .. Len(s) /\ s \in [1 .. Len(s) -> S]
  BY <1>1, LenProperties
<1> QED BY <1>2

(* And such a function is a sequence.                                      *)
LEMMA SequenceOf ==
  ASSUME NEW n \in Nat, NEW s, s = [i \in 1 .. n |-> s[i]]
  PROVE  Sequence(s) /\ Len(s) = n /\ DOMAIN s = 1 .. n
<1>1. s \in Seq({s[i] : i \in 1 .. n})
  OBVIOUS
<1>2. Len(s) = n /\ DOMAIN s = 1 .. n
  OBVIOUS
<1> QED BY <1>1, <1>2 DEF Sequence

(* Sequences are equal when their elements are.                            *)
LEMMA SequencesEqual ==
  ASSUME NEW s, NEW t, Sequence(s), Sequence(t), Len(s) = Len(t),
         \A i \in 1 .. Len(s) : s[i] = t[i]
  PROVE  s = t
<1>1. PICK n \in Nat : Len(s) = n /\ s = [i \in 1 .. n |-> s[i]]
  BY SequenceIs
<1>2. t = [i \in 1 .. n |-> t[i]]
  <2>1. PICK k \in Nat : Len(t) = k /\ t = [i \in 1 .. k |-> t[i]]
    BY SequenceIs
  <2> QED BY <1>1, <2>1
<1> QED BY <1>1, <1>2

(* What slice() returns of a sequence.                                     *)
LEMMA Sliced ==
  ASSUME NEW s, Sequence(s), NEW a \in Nat, NEW e \in Nat, NEW b \in Nat,
         a <= e, b = Least(e, Len(s)), a <= b
  PROVE  /\ Sequence(Slice(s, a, e)) /\ Len(Slice(s, a, e)) = b - a
         /\ \A j \in 1 .. b - a : Slice(s, a, e)[j] = s[a + j]
<1>1. PICK S : s \in Seq(S)
  BY DEF Sequence
<1>2. Len(s) \in Nat /\ b <= Len(s)
  BY <1>1 DEF Least
<1> DEFINE m == a + 1
<1>3. m \in Int /\ b \in Int /\ \A i \in m .. b : s[i] \in S
  BY <1>1, <1>2, ElementOfSeq
<1>4. Slice(s, a, e) = SubSeq(s, m, b)
  BY DEF Slice
<1> HIDE DEF m
<1>5. /\ SubSeq(s, m, b) \in Seq(S)
      /\ Len(SubSeq(s, m, b)) = IF m <= b THEN b - m + 1 ELSE 0
      /\ \A i \in 1 .. b - m + 1 : SubSeq(s, m, b)[i] = s[m + i - 1]
  BY <1>3, SubSeqProperties
<1> DEFINE sub == SubSeq(s, m, b)
<1>6. sub \in Seq(S) /\ Len(sub) = b - a /\ \A j \in 1 .. b - a : sub[j] = s[a + j]
  <2> HIDE DEF sub
  <2>1. /\ sub \in Seq(S)
        /\ Len(sub) = IF m <= b THEN b - m + 1 ELSE 0
        /\ \A i \in 1 .. b - m + 1 : sub[i] = s[m + i - 1]
    BY <1>5 DEF sub
  <2>2. \A j \in 1 .. b - a : m + j - 1 = a + j /\ j \in 1 .. b - m + 1
    BY DEF m
  <2> QED BY <2>1, <2>2 DEF m
<1> HIDE DEF sub
<1>7. Slice(s, a, e) = sub
  BY <1>4 DEF sub
<1> QED BY <1>6, <1>7 DEF Sequence

(* The number of pieces: a length divided by that of a piece, rounded up.  *)
LEMMA RoundedUp ==
  ASSUME NEW n \in Nat, NEW m \in Nat \ {0}
  PROVE  \E q \in Nat : /\ q = (n + m - 1) \div m /\ n <= q * m /\ q <= n
                        /\ \A i \in 1 .. q : (i - 1) * m < n
                        /\ n > m => 2 <= q
                        /\ n > m /\ m > 1 => q < n
<1> DEFINE a == n + m - 1
<1>1. a \in Nat
  OBVIOUS
<1>2. PICK q \in Nat : q = a \div m /\ q * m <= a /\ a < q * m + m
  <2> HIDE DEF a
  <2>1. a \div m \in Nat /\ (a \div m) * m <= a /\ a < (a \div m) * m + m
    BY <1>1, SMT
  <2> QED BY <2>1
<1> DEFINE p == q * m
<1>3. p \in Nat
  OBVIOUS
<1>4. n <= p
  <2> HIDE DEF p
  <2>1. p <= a /\ a < p + m
    BY <1>2 DEF p
  <2> QED BY <2>1, <1>3
<1>5. ASSUME NEW i \in 1 .. q
      PROVE  (i - 1) * m < n
  <2>1. (i - 1) * m <= (q - 1) * m
    OBVIOUS
  <2>2. (q - 1) * m = p - m
    OBVIOUS
  <2>3. (i - 1) * m \in Nat
    OBVIOUS
  <2> HIDE DEF p
  <2>4. p - m < n
    BY <1>2, <1>3 DEF p
  <2> DEFINE y == (i - 1) * m
             z == (q - 1) * m
  <2> HIDE DEF y, z
  <2>5. y <= z /\ z = p - m /\ y \in Nat
    BY <2>1, <2>2, <2>3 DEF y, z
  <2>6. y < n
    BY <1>3, <2>4, <2>5
  <2> QED BY <2>6 DEF y
<1>6. q <= n
  <2> SUFFICES ASSUME q > n
               PROVE  FALSE
    OBVIOUS
  <2>1. q \in 1 .. q /\ n <= q - 1
    OBVIOUS
  <2>2. (q - 1) * m < n
    BY <1>5, <2>1
  <2>3. (q - 1) * m >= q - 1
    OBVIOUS
  <2> DEFINE z == (q - 1) * m
  <2>4. z \in Int
    OBVIOUS
  <2> HIDE DEF z
  <2> QED BY <2>1, <2>2, <2>3, <2>4 DEF z
<1>7. ASSUME n > m
      PROVE  2 <= q
  <2> SUFFICES ASSUME q = 0 \/ q = 1
               PROVE  FALSE
    OBVIOUS
  <2>1. p = 0 \/ p = m
    OBVIOUS
  <2> QED BY <1>4, <1>7, <2>1
<1>8. ASSUME n > m, m > 1
      PROVE  q # n
  <2> SUFFICES ASSUME q = n
               PROVE  FALSE
    OBVIOUS
  <2>1. n * m <= n + m - 1
    BY <1>2
  <2>2. (n - 1) * (m - 1) >= n - 1
    BY <1>8
  <2>3. (n - 1) * (m - 1) = n * m - n - m + 1
    OBVIOUS
  <2> DEFINE y == n * m
             z == (n - 1) * (m - 1)
  <2>4. y \in Int /\ z \in Int
    OBVIOUS
  <2> HIDE DEF y, z
  <2>5. y <= n + m - 1 /\ z >= n - 1 /\ z = y - n - m + 1
    BY <2>1, <2>2, <2>3 DEF y, z
  <2> QED BY <1>8, <2>4, <2>5
<1> QED BY <1>2, <1>4, <1>5, <1>6, <1>7, <1>8

(* The pieces of s, as many as q, cut it at at.                            *)
CutInto(s, pieces, q, m, at) ==
  /\ at \in [1 .. q + 1 -> 0 .. Len(s)] /\ at[1] = 0 /\ at[q + 1] = Len(s)
  /\ \A i \in 1 .. q :
       /\ at[i + 1] - at[i] \in 1 .. m
       /\ Sequence(pieces[i]) /\ Len(pieces[i]) = at[i + 1] - at[i]
       /\ \A j \in 1 .. at[i + 1] - at[i] : pieces[i][j] = s[at[i] + j]

(* What Pieces returns: pieces of m elements at most, in their order,      *)
(* fewer than the elements when there are several in a piece.              *)
LEMMA CutPieces ==
  ASSUME NEW s, Sequence(s), NEW m \in Nat \ {0}
  PROVE  \E q \in Nat : /\ Sequence(Pieces(s, m)) /\ Len(Pieces(s, m)) = q
                        /\ q <= Len(s) /\ (Len(s) > m => 2 <= q) /\ (Len(s) > 0 => 1 <= q)
                        /\ Len(s) > m /\ m > 1 => q < Len(s)
                        /\ \E at : CutInto(s, Pieces(s, m), q, m, at)
<1>1. PICK n \in Nat : n = Len(s)
  BY SequenceIs
<1>2. PICK q \in Nat : /\ q = (n + m - 1) \div m /\ n <= q * m /\ q <= n
                       /\ \A i \in 1 .. q : (i - 1) * m < n
                       /\ n > m => 2 <= q
                       /\ n > m /\ m > 1 => q < n
  BY RoundedUp
<1> DEFINE p == Pieces(s, m)
<1>3. p = [i \in 1 .. q |-> Slice(s, (i - 1) * m, i * m)]
  BY <1>1, <1>2 DEF Pieces
<1> HIDE DEF p
<1>4. Sequence(p) /\ Len(p) = q
  <2>1. p = [i \in 1 .. q |-> p[i]]
    BY <1>3
  <2> QED BY <2>1, SequenceOf
<1> DEFINE cut == [i \in 1 .. q + 1 |-> Least((i - 1) * m, n)]
<1>5. cut \in [1 .. q + 1 -> 0 .. n]
  <2>1. ASSUME NEW i \in 1 .. q + 1
        PROVE  Least((i - 1) * m, n) \in 0 .. n
    <3> DEFINE x == (i - 1) * m
    <3>1. x \in Nat
      OBVIOUS
    <3> HIDE DEF x
    <3>2. Least(x, n) \in 0 .. n
      BY <3>1 DEF Least
    <3> QED BY <3>2 DEF x
  <2> QED BY <2>1
<1>6. cut[1] = 0 /\ cut[q + 1] = n
  <2>1. cut[1] = 0
    BY DEF Least
  <2> DEFINE x == q * m
  <2>2. x \in Nat /\ n <= x
    BY <1>2
  <2>3. cut[q + 1] = Least(x, n)
    OBVIOUS
  <2> HIDE DEF x
  <2>4. Least(x, n) = n
    BY <2>2 DEF Least
  <2> QED BY <2>1, <2>3, <2>4
<1>7. ASSUME NEW i \in 1 .. q
      PROVE  /\ cut[i + 1] - cut[i] \in 1 .. m
             /\ Sequence(p[i]) /\ Len(p[i]) = cut[i + 1] - cut[i]
             /\ \A j \in 1 .. cut[i + 1] - cut[i] : p[i][j] = s[cut[i] + j]
  <2> DEFINE a == (i - 1) * m
             e == i * m
             b == Least(e, n)
  <2>1. a \in Nat /\ e \in Nat /\ e = a + m /\ a < n
    BY <1>2
  <2>2. p[i] = Slice(s, a, e)
    BY <1>3
  <2>3. cut[i] = Least(a, n) /\ cut[i + 1] = b
    <3>1. (i + 1) - 1 = i
      OBVIOUS
    <3> QED BY <3>1
  <2> HIDE DEF cut, a, e
  <2>4. Least(a, n) = a /\ b \in Nat /\ a < b /\ b - a \in 1 .. m
    BY <2>1 DEF Least
  <2> HIDE DEF b
  <2>5. a \in Nat /\ e \in Nat /\ b \in Nat /\ a <= e /\ b = Least(e, Len(s)) /\ a <= b
    BY <1>1, <2>1, <2>4 DEF b
  <2>6. /\ Sequence(Slice(s, a, e)) /\ Len(Slice(s, a, e)) = b - a
        /\ \A j \in 1 .. b - a : Slice(s, a, e)[j] = s[a + j]
    BY <2>5, Sliced
  <2> QED BY <2>2, <2>3, <2>4, <2>6
<1> HIDE DEF cut
<1>8. CutInto(s, p, q, m, cut)
  BY <1>1, <1>5, <1>6, <1>7 DEF CutInto
<1>9. n > 0 => 1 <= q
  <2> SUFFICES ASSUME q = 0 PROVE n = 0
    OBVIOUS
  <2> QED BY <1>5, <1>6
<1> QED BY <1>1, <1>2, <1>4, <1>8, <1>9 DEF p

-----------------------------------------------------------------------------
(* Cuts come one after another.                                            *)
Ordered(cuts, n) == cuts \in [1 .. n + 1 -> Nat] /\ \A i \in 1 .. n : cuts[i] <= cuts[i + 1]

(* Of ordered cuts a later one is no smaller.                              *)
LEMMA OrderedBetween ==
  ASSUME NEW n \in Nat, NEW cuts, Ordered(cuts, n), NEW i \in 1 .. n + 1, NEW j \in i .. n + 1
  PROVE  cuts[i] \in Nat /\ cuts[j] \in Nat /\ cuts[i] <= cuts[j]
<1> DEFINE S == {k \in Nat : i + k <= n + 1 => cuts[i] <= cuts[i + k]}
<1>1. cuts[i] \in Nat /\ cuts[j] \in Nat
  BY DEF Ordered
<1>2. 0 \in S
  BY <1>1
<1>3. ASSUME NEW k \in Nat, k \in S
      PROVE  k + 1 \in S
  <2> SUFFICES ASSUME i + (k + 1) <= n + 1
               PROVE  cuts[i] <= cuts[i + (k + 1)]
    OBVIOUS
  <2>1. PICK m \in 1 .. n : m = i + k /\ m + 1 = i + (k + 1)
    OBVIOUS
  <2>2. cuts[m] <= cuts[m + 1] /\ cuts[m] \in Nat /\ cuts[m + 1] \in Nat
    BY DEF Ordered
  <2>3. cuts[i] <= cuts[m]
    BY <1>3, <2>1
  <2> QED BY <1>1, <2>1, <2>2, <2>3
<1> HIDE DEF S
<1>4. Nat \subseteq S
  BY <1>2, <1>3, EveryNumber
<1>5. PICK k \in Nat : k = j - i
  OBVIOUS
<1>6. k \in S /\ i + k = j
  BY <1>4, <1>5
<1> QED BY <1>1, <1>6 DEF S

(* Parts that follow one another, joined, are the part from the first cut  *)
(* to the last.                                                            *)
LEMMA FlattenedParts ==
  ASSUME NEW n \in Nat \ {0}, NEW cuts, Ordered(cuts, n), NEW parts,
         parts = [i \in 1 .. n |-> Part(cuts[i], cuts[i + 1])]
  PROVE  FlattenSeq(parts) = Part(cuts[1], cuts[n + 1])
<1> DEFINE Flattens(f) ==
      f = [i \in 1 .. Len(parts) |-> IF i = 1 THEN parts[i] ELSE f[i - 1] \o parts[i]]
           g == [i \in 1 .. n |-> Part(cuts[1], cuts[i + 1])]
<1>1. Len(parts) = n
  OBVIOUS
<1>2. FlattenSeq(parts) = (CHOOSE f : Flattens(f))[Len(parts)]
  BY <1>1 DEF FlattenSeq
<1>3. ASSUME NEW i \in 1 .. n, i # 1
      PROVE  Part(cuts[1], cuts[i]) \o parts[i] = Part(cuts[1], cuts[i + 1])
  <2>1. cuts[1] \in Nat /\ cuts[i] \in Nat /\ cuts[1] <= cuts[i]
    BY OrderedBetween
  <2>2. cuts[i + 1] \in Nat /\ cuts[i] <= cuts[i + 1]
    BY DEF Ordered
  <2> QED BY <2>1, <2>2, JoinParts
<1>4. Flattens(g)
  <2>1. ASSUME NEW i \in 1 .. n
        PROVE  g[i] = IF i = 1 THEN parts[i] ELSE g[i - 1] \o parts[i]
    <3>1. CASE i = 1
      BY <3>1
    <3>2. CASE i # 1
      <4>1. g[i - 1] = Part(cuts[1], cuts[i])
        <5>1. PICK k \in 1 .. n : k = i - 1 /\ k + 1 = i
          BY <3>2
        <5>2. g[k] = Part(cuts[1], cuts[k + 1])
          OBVIOUS
        <5> QED BY <5>1, <5>2
      <4>2. g[i] = Part(cuts[1], cuts[i + 1])
        OBVIOUS
      <4>3. g[i - 1] \o parts[i] = g[i]
        BY <1>3, <3>2, <4>1, <4>2
      <4> QED BY <3>2, <4>3
    <3> QED BY <3>1, <3>2
  <2>2. g = [i \in 1 .. n |-> g[i]]
    OBVIOUS
  <2> HIDE DEF g
  <2>3. [i \in 1 .. n |-> g[i]]
          = [i \in 1 .. n |-> IF i = 1 THEN parts[i] ELSE g[i - 1] \o parts[i]]
    BY <2>1
  <2>4. g = [i \in 1 .. Len(parts) |-> IF i = 1 THEN parts[i] ELSE g[i - 1] \o parts[i]]
    BY <1>1, <2>2, <2>3
  <2> QED BY <2>4
<1>5. PICK f : Flattens(f) /\ FlattenSeq(parts) = f[n]
  <2> HIDE DEF Flattens
  <2> QED BY <1>1, <1>2, <1>4
<1>6. \A i \in 1 .. n : f[i] = IF i = 1 THEN parts[i] ELSE f[i - 1] \o parts[i]
  BY <1>1, <1>5
<1> DEFINE S == {k \in Nat : k + 1 \in 1 .. n => f[k + 1] = Part(cuts[1], cuts[k + 2])}
<1> HIDE DEF Flattens, g
<1>7. 0 \in S
  BY <1>6
<1>8. ASSUME NEW k \in Nat, k \in S
      PROVE  k + 1 \in S
  <2> SUFFICES ASSUME (k + 1) + 1 \in 1 .. n
               PROVE  f[(k + 1) + 1] = Part(cuts[1], cuts[(k + 1) + 2])
    OBVIOUS
  <2>1. PICK i \in 1 .. n : i = k + 2
    OBVIOUS
  <2>2. f[i - 1] = Part(cuts[1], cuts[i])
    BY <1>8, <2>1
  <2>3. i # 1
    BY <1>8, <2>1
  <2>4. f[i] = f[i - 1] \o parts[i]
    BY <1>6, <2>3
  <2>5. f[i] = Part(cuts[1], cuts[i + 1])
    BY <1>3, <2>2, <2>3, <2>4
  <2> QED BY <2>1, <2>5
<1> HIDE DEF S
<1>9. n - 1 \in S
  BY <1>7, <1>8, EveryNumber
<1> QED BY <1>5, <1>9 DEF S

-----------------------------------------------------------------------------
(* Null is none of the values it stands apart from.                        *)
NullIsApart ==
  /\ \A s : Sequence(s) => s # Null
  /\ \A type, links : [type |-> type, links |-> links] # Null

(* A node decodes to its type and its links.                               *)
LEMMA Decoded ==
  ASSUME NullIsApart, NEW links, Sequence(links), NEW type
  PROVE  /\ encodeTreeNode(type, links) # Null
         /\ NodeIn(encodeTreeNode(type, links)) # Null
         /\ NodeIn(encodeTreeNode(type, links)).type = type
         /\ NodeIn(encodeTreeNode(type, links)).links = links
<1>1. PICK S : links \in Seq(S)
  BY DEF Sequence
<1> DEFINE header == [unit |-> "header", type |-> type, count |-> Len(links)]
           T == S \union {header}
           data == <<header>> \o links
<1>2. <<header>> \in Seq(T) /\ Len(<<header>>) = 1 /\ <<header>>[1] = header
  OBVIOUS
<1>3. links \in Seq(T) /\ Len(links) \in Nat
  BY <1>1, SeqMonotonic, LenProperties
<1>4. header.unit = "header" /\ header.type = type /\ header.count = Len(links)
  OBVIOUS
<1> HIDE DEF header, T
<1>5. /\ data \in Seq(T) /\ Len(data) = Len(links) + 1
      /\ data[1] = header /\ \A i \in 1 .. Len(links) : data[i + 1] = links[i]
  <2> DEFINE one == <<header>>
  <2>1. one \in Seq(T) /\ Len(one) = 1 /\ one[1] = header /\ data = one \o links
    BY <1>2
  <2> HIDE DEF one, data
  <2>2. /\ one \o links \in Seq(T) /\ Len(one \o links) = Len(one) + Len(links)
        /\ \A i \in 1 .. Len(one) + Len(links) :
             (one \o links)[i] = IF i <= Len(one) THEN one[i] ELSE links[i - Len(one)]
    BY <1>3, <2>1, ConcatProperties
  <2>3. \A i \in 1 .. 1 + Len(links) :
          data[i] = IF i <= 1 THEN one[i] ELSE links[i - 1]
    BY <2>1, <2>2
  <2>4. data[1] = header
    BY <1>3, <2>1, <2>3
  <2>5. \A i \in 1 .. Len(links) : data[i + 1] = links[i]
    BY <1>3, <2>3
  <2> QED BY <1>3, <2>1, <2>2, <2>4, <2>5
<1> HIDE DEF data
<1>6. data # <<>>
  BY <1>3, <1>5
<1>7. Tail(data) = links
  <2>1. /\ Tail(data) \in Seq(T) /\ Len(Tail(data)) = Len(data) - 1
        /\ \A i \in 1 .. Len(Tail(data)) : Tail(data)[i] = data[i + 1]
    BY <1>5, <1>6, HeadTailProperties
  <2>2. Len(Tail(data)) = Len(links) /\ \A i \in 1 .. Len(links) : Tail(data)[i] = links[i]
    BY <1>3, <1>5, <2>1
  <2> QED BY <1>3, <2>1, <2>2, SeqEqual
<1>8. encodeTreeNode(type, links) = data /\ data # Null
  <2>1. Sequence(data)
    BY <1>5 DEF Sequence
  <2> QED BY <2>1 DEF encodeTreeNode, data, header, NullIsApart
<1>9. tryDecodeTreeNode(data) = [type |-> type, links |-> links]
  <2>1. data[1].unit = "header" /\ data[1].count = Len(data) - 1 /\ data[1].type = type
    BY <1>3, <1>4, <1>5
  <2> QED BY <1>6, <1>7, <2>1 DEF tryDecodeTreeNode
<1>10. tryDecodeTreeNode(data) # Null
  BY <1>9 DEF NullIsApart
<1> QED BY <1>8, <1>9, <1>10 DEF NodeIn

(* Bytes of a file decode to nothing.                                      *)
LEMMA BytesAreNoNode ==
  ASSUME NEW data \in Seq(Units)
  PROVE  NodeIn(data) = Null
<1>1. CASE data = <<>>
  BY <1>1 DEF NodeIn, tryDecodeTreeNode
<1>2. CASE data # <<>>
  <2>1. data[1] \in Units
    <3>1. Len(data) \in Nat /\ Len(data) # 0
      BY <1>2, LenProperties, EmptySeq
    <3>2. 1 \in 1 .. Len(data)
      BY <3>1
    <3> QED BY <3>2, ElementOfSeq
  <2>2. data[1].unit # "header"
    BY <2>1 DEF Units, Byte
  <2> QED BY <2>2 DEF NodeIn, tryDecodeTreeNode
<1> QED BY <1>1, <1>2

(* A block that was put is one block, which opens to its data, and is      *)
(* fetched as its data with the key that it got; the key is Null if it is  *)
(* plain.                                                                  *)
LEMMA PutOpened ==
  ASSUME NEW data, NEW secret \in BOOLEAN
  PROVE  /\ putBlob(data, secret).blocks = {putBlob(data, secret).hash}
         /\ Opened(putBlob(data, secret).hash, secret) = data
<1> DEFINE c == [unit |-> "cipher", of |-> data]
<1>1. c.of = data /\ <<c>>[1] = c
  OBVIOUS
<1>2. putBlob(data, TRUE).hash = <<c>> /\ putBlob(data, TRUE).blocks = {<<c>>}
  BY DEF putBlob, encryptChk
<1> HIDE DEF c
<1>3. CASE secret = TRUE
  BY <1>1, <1>2, <1>3 DEF Opened
<1>4. CASE secret = FALSE
  BY <1>4 DEF putBlob, Opened
<1> QED BY <1>3, <1>4

(* What a store has of a block that was put is what was put.               *)
LEMMA PutFetched ==
  ASSUME NEW data, NEW secret \in BOOLEAN, NEW store, putBlob(data, secret).hash \in store
  PROVE  Fetched(store, putBlob(data, secret).hash, putBlob(data, secret).key, secret) = data
<1> DEFINE c == [unit |-> "cipher", of |-> data]
<1>1. c.unit = "cipher" /\ c.of = data /\ <<c>>[1] = c
  OBVIOUS
<1>2. putBlob(data, TRUE).hash = <<c>> /\ putBlob(data, TRUE).key = data
  BY DEF putBlob, encryptChk
<1> HIDE DEF c
<1>3. CASE secret = TRUE
  <2>1. decryptChk(<<c>>, data) = data
    BY <1>1 DEF decryptChk
  <2> QED BY <1>2, <1>3, <2>1 DEF Fetched
<1>4. CASE secret = FALSE
  <2>1. putBlob(data, FALSE).hash = data
    BY DEF putBlob
  <2> QED BY <1>4, <2>1 DEF Fetched
<1> QED BY <1>3, <1>4

(* Only an encrypted block has a key: its data, as encryptChk has it.      *)
LEMMA PutKeys ==
  ASSUME NEW data
  PROVE  putBlob(data, FALSE).key = Null /\ putBlob(data, TRUE).key = data
BY DEF putBlob, encryptChk

-----------------------------------------------------------------------------
(* Sizes and positions of links.                                           *)
Sizes(links, n, cuts) ==
  /\ Sequence(links) /\ Len(links) = n /\ cuts \in [1 .. n + 1 -> Nat]
  /\ \A i \in 1 .. n : links[i].size = cuts[i + 1] - cuts[i]

(* The sizes of links between cuts add up to the distance of the outer     *)
(* ones.                                                                   *)
LEMMA TotalSizeIs ==
  ASSUME NEW n \in Nat, NEW links, NEW cuts, Sizes(links, n, cuts)
  PROVE  TotalSize(links) = cuts[n + 1] - cuts[1]
<1> DEFINE Is(f) == f = [k \in 0 .. n |-> IF k = 0 THEN 0 ELSE f[k - 1] + links[k].size]
           g == [k \in 0 .. n |-> cuts[k + 1] - cuts[1]]
<1>1. \A k \in 1 .. n + 1 : cuts[k] \in Nat
  BY DEF Sizes
<1>2. TotalSize(links) = (CHOOSE f : Is(f))[n]
  BY DEF TotalSize, Sizes
<1>3. Is(g)
  <2>1. ASSUME NEW k \in 0 .. n
        PROVE  g[k] = IF k = 0 THEN 0 ELSE g[k - 1] + links[k].size
    <3>1. CASE k = 0
      BY <1>1, <3>1
    <3>2. CASE k # 0
      <4>1. k \in 1 .. n /\ k - 1 \in 0 .. n /\ k \in 1 .. n + 1 /\ k + 1 \in 1 .. n + 1
        BY <3>2
      <4>2. links[k].size = cuts[k + 1] - cuts[k]
        BY <4>1 DEF Sizes
      <4>3. g[k - 1] = cuts[k] - cuts[1]
        BY <4>1
      <4>4. cuts[1] \in Nat /\ cuts[k] \in Nat /\ cuts[k + 1] \in Nat
        BY <1>1, <4>1
      <4> QED BY <3>2, <4>2, <4>3, <4>4
    <3> QED BY <3>1, <3>2
  <2>2. g = [k \in 0 .. n |-> g[k]]
    OBVIOUS
  <2> HIDE DEF g
  <2> QED BY <2>1, <2>2
<1>4. PICK f : Is(f) /\ TotalSize(links) = f[n]
  <2> HIDE DEF Is, g
  <2> QED BY <1>2, <1>3
<1>5. \A k \in 0 .. n : f[k] = IF k = 0 THEN 0 ELSE f[k - 1] + links[k].size
  BY <1>4
<1> DEFINE S == {k \in Nat : k <= n => f[k] = cuts[k + 1] - cuts[1]}
<1>6. 0 \in S
  BY <1>1, <1>5
<1>7. ASSUME NEW k \in Nat, k \in S
      PROVE  k + 1 \in S
  <2> SUFFICES ASSUME k + 1 <= n
               PROVE  f[k + 1] = cuts[(k + 1) + 1] - cuts[1]
    OBVIOUS
  <2>1. PICK i \in 1 .. n : i = k + 1 /\ i \in 0 .. n /\ i # 0 /\ i - 1 = k
    OBVIOUS
  <2>2. f[i] = f[k] + links[i].size /\ f[k] = cuts[i] - cuts[1]
    BY <1>5, <1>7, <2>1
  <2>3. links[i].size = cuts[i + 1] - cuts[i]
    BY DEF Sizes
  <2>4. cuts[1] \in Nat /\ cuts[i] \in Nat /\ cuts[i + 1] \in Nat
    BY <1>1
  <2> QED BY <2>1, <2>2, <2>3, <2>4
<1> HIDE DEF S, Is, g
<1>8. n \in S
  BY <1>6, <1>7, EveryNumber
<1> QED BY <1>4, <1>8 DEF S

(* A link begins where its cut is.                                         *)
LEMMA PositionIs ==
  ASSUME NEW n \in Nat, NEW links, NEW cuts, Sizes(links, n, cuts), NEW i \in 1 .. n + 1
  PROVE  PositionOf(links, i) = cuts[i] - cuts[1]
<1>1. PICK k \in Nat : k = i - 1 /\ k <= n /\ i = k + 1
  OBVIOUS
<1>2. Sequence(links) /\ Len(links) = n
  BY DEF Sizes
<1>3. PICK some : some = SubSeq(links, 1, k)
  OBVIOUS
<1>4. some = Slice(links, 0, k) /\ k = Least(k, Len(links))
  <2>1. k = Least(k, Len(links))
    BY <1>1, <1>2 DEF Least
  <2>2. Slice(links, 0, k) = SubSeq(links, 0 + 1, Least(k, Len(links)))
    BY DEF Slice
  <2>3. 0 + 1 = 1
    OBVIOUS
  <2> QED BY <1>3, <2>1, <2>2, <2>3
<1>5. /\ Sequence(some) /\ Len(some) = k - 0
      /\ \A j \in 1 .. k - 0 : some[j] = links[0 + j]
  <2>1. PICK a \in Nat : a = 0 /\ a <= k
    OBVIOUS
  <2>2. /\ Sequence(links) /\ a \in Nat /\ k \in Nat /\ k \in Nat /\ a <= k
        /\ k = Least(k, Len(links)) /\ a <= k
    BY <1>2, <1>4, <2>1
  <2>3. /\ Sequence(Slice(links, a, k)) /\ Len(Slice(links, a, k)) = k - a
        /\ \A j \in 1 .. k - a : Slice(links, a, k)[j] = links[a + j]
    BY <2>2, Sliced
  <2> QED BY <1>4, <2>1, <2>3
<1>6. Len(some) = k /\ \A j \in 1 .. k : some[j] = links[j]
  BY <1>5
<1>7. PICK first : first = [j \in 1 .. k + 1 |-> cuts[j]]
  OBVIOUS
<1>8. Sizes(some, k, first)
  <2>1. \A j \in 1 .. k + 1 : first[j] = cuts[j] /\ cuts[j] \in Nat
    BY <1>1, <1>7 DEF Sizes
  <2>2. first \in [1 .. k + 1 -> Nat]
    BY <1>7, <2>1
  <2>3. \A j \in 1 .. k : some[j].size = first[j + 1] - first[j]
    <3> TAKE j \in 1 .. k
    <3>1. j \in 1 .. n /\ j \in 1 .. k + 1 /\ j + 1 \in 1 .. k + 1
      BY <1>1
    <3>2. links[j].size = cuts[j + 1] - cuts[j]
      BY <3>1 DEF Sizes
    <3> QED BY <1>6, <2>1, <3>1, <3>2
  <2> QED BY <1>5, <1>6, <2>2, <2>3 DEF Sizes
<1>9. TotalSize(some) = first[k + 1] - first[1]
  BY <1>8, TotalSizeIs
<1>10. first[k + 1] = cuts[i] /\ first[1] = cuts[1]
  BY <1>1, <1>7
<1>11. PositionOf(links, i) = TotalSize(some)
  BY <1>1, <1>3 DEF PositionOf
<1> QED BY <1>9, <1>10, <1>11

(* There is always a link to begin with, or none is left.                  *)
LEMMA FirstReadIs ==
  ASSUME NEW n \in Nat, NEW links, Len(links) = n, NEW from
  PROVE  \E k \in 1 .. n + 1 :
           /\ k = FirstRead(links, from)
           /\ Skipped(links, k - 1, from) /\ (k = n + 1 \/ ~Skipped(links, k, from))
<1> DEFINE Is(k) == Skipped(links, k - 1, from) /\ (k = n + 1 \/ ~Skipped(links, k, from))
           T == {k \in 1 .. n + 1 : k = n + 1 \/ ~Skipped(links, k, from)}
<1>1. T \in SUBSET Nat /\ n + 1 \in T
  OBVIOUS
<1>2. PICK k \in T : \A j \in T : k <= j
  <2> HIDE DEF T
  <2> QED BY <1>1, FirstNumber
<1>3. Is(k)
  <2>1. CASE k = 1
    <3>1. Skipped(links, 0, from)
      BY DEF Skipped
    <3> QED BY <2>1, <3>1
  <2>2. CASE k # 1
    <3>1. k - 1 \in 1 .. n /\ k - 1 \notin T
      BY <1>2, <2>2
    <3> QED BY <3>1
  <2> QED BY <2>1, <2>2
<1>4. FirstRead(links, from) = CHOOSE j \in 1 .. n + 1 : Is(j)
  BY DEF FirstRead
<1>5. FirstRead(links, from) \in 1 .. n + 1 /\ Is(FirstRead(links, from))
  <2>1. k \in 1 .. n + 1
    OBVIOUS
  <2> HIDE DEF Is, T
  <2> QED BY <1>3, <1>4, <2>1
<1> QED BY <1>5

(* When the sizes are right and no link is empty, it is the one in which   *)
(* the offset lies.                                                        *)
LEMMA FirstReadWith ==
  ASSUME NEW n \in Nat, NEW links, NEW cuts, Sizes(links, n, cuts),
         \A i \in 1 .. n : cuts[i] < cuts[i + 1], NEW from \in Nat
  PROVE  \E k \in 1 .. n + 1 :
           /\ k = FirstRead(links, from)
           /\ k = 1 \/ cuts[k] - cuts[1] <= from
           /\ k = n + 1 \/ from < cuts[k + 1] - cuts[1]
<1>1. Len(links) = n /\ \A i \in 1 .. n + 1 : cuts[i] \in Nat
  BY DEF Sizes
<1>2. PICK k \in 1 .. n + 1 :
        /\ k = FirstRead(links, from)
        /\ Skipped(links, k - 1, from) /\ (k = n + 1 \/ ~Skipped(links, k, from))
  BY <1>1, FirstReadIs
<1>3. ASSUME NEW i \in 1 .. n
      PROVE  /\ links[i].size > 0 /\ i + 1 \in 1 .. n + 1
             /\ PositionOf(links, i + 1) = cuts[i + 1] - cuts[1]
  <2>1. PICK j \in 1 .. n + 1 : j = i + 1
    OBVIOUS
  <2>2. PositionOf(links, j) = cuts[j] - cuts[1]
    BY PositionIs
  <2>3. links[i].size = cuts[i + 1] - cuts[i]
    BY DEF Sizes
  <2>4. cuts[i] \in Nat /\ cuts[i + 1] \in Nat /\ cuts[i] < cuts[i + 1]
    BY <1>1
  <2> QED BY <2>1, <2>2, <2>3, <2>4
<1>4. k = 1 \/ cuts[k] - cuts[1] <= from
  <2> SUFFICES ASSUME k # 1
               PROVE  cuts[k] - cuts[1] <= from
    OBVIOUS
  <2>1. PICK i \in 1 .. n : i = k - 1 /\ i + 1 = k
    BY <1>2
  <2>2. PositionOf(links, i + 1) <= from
    BY <1>2, <2>1 DEF Skipped
  <2> QED BY <1>3, <2>1, <2>2
<1>5. k = n + 1 \/ from < cuts[k + 1] - cuts[1]
  <2> SUFFICES ASSUME k # n + 1
               PROVE  from < cuts[k + 1] - cuts[1]
    OBVIOUS
  <2>1. k \in 1 .. n /\ ~Skipped(links, k, from) /\ Skipped(links, k - 1, from)
    BY <1>2
  <2>2. PICK i \in 1 .. k : ~(links[i].size > 0 /\ PositionOf(links, i + 1) <= from)
    BY <2>1 DEF Skipped
  <2>3. i \notin 1 .. k - 1
    BY <2>1, <2>2 DEF Skipped
  <2>4. i = k
    BY <2>1, <2>2, <2>3
  <2>5. ~(PositionOf(links, k + 1) <= from)
    BY <1>3, <2>1, <2>2, <2>4
  <2>6. cuts[k + 1] \in Nat /\ cuts[1] \in Nat
    BY <1>1, <2>1
  <2> QED BY <1>3, <2>1, <2>5, <2>6
<1> QED BY <1>2, <1>4, <1>5

-----------------------------------------------------------------------------
(* What the readers are to give of the bytes from a up to b: a file, the   *)
(* rest of one from an offset on, and a range.                             *)
Kinds == {"whole", "from", "range"}

Gives(kind, value, a, b) ==
  /\ kind = "whole" => value = Part(a, b)
  /\ kind = "from" => \A from \in 0 .. b - a : value[from] = Part(a + from, b)
  /\ kind = "range" =>
       \A from \in 0 .. b - a, to \in Nat :
         from <= to => value[from][to] = Part(a + from, a + Least(to, b - a))

(* What they find at a link, given what nodes give.  Parts are found only  *)
(* if the link has its size.                                               *)
LinkGives(kind, link, a, b, f, store, secret) ==
  /\ kind = "whole" => Held(store, f, link, secret) = Part(a, b)
  /\ kind # "whole" => a < b /\ link.size = b - a
  /\ kind = "from" =>
       \A from \in 0 .. b - a : HeldFrom(store, f, link, from, secret) = Part(a + from, b)
  /\ kind = "range" =>
       /\ Passed(store, link, secret) = b - a
       /\ \A from \in 0 .. b - a, to \in Nat :
            from <= to => HeldRange(store, f, link, from, to, secret)
                            = Part(a + from, a + Least(to, b - a))

(* The links hold the bytes between the cuts.                              *)
Hold(kind, links, n, cuts, f, store, secret) ==
  /\ Sequence(links) /\ Len(links) = n /\ Ordered(cuts, n)
  /\ \A i \in 1 .. n : LinkGives(kind, links[i], cuts[i], cuts[i + 1], f, store, secret)

(* So they have the sizes of their parts, where that matters.              *)
LEMMA HoldSizes ==
  ASSUME NEW kind, kind # "whole", NEW n \in Nat, NEW links, NEW cuts, NEW f, NEW store, NEW secret,
         Hold(kind, links, n, cuts, f, store, secret)
  PROVE  /\ Sizes(links, n, cuts) /\ \A i \in 1 .. n : cuts[i] < cuts[i + 1]
         /\ Ordered(cuts, n)
<1>1. \A i \in 1 .. n : links[i].size = cuts[i + 1] - cuts[i] /\ cuts[i] < cuts[i + 1]
  BY DEF Hold, LinkGives
<1> QED BY <1>1 DEF Hold, Sizes, Ordered

(* Parts that are no Null, joined.                                         *)
LEMMA JoinedParts ==
  ASSUME NullIsApart, NEW n \in Nat \ {0}, NEW cuts, Ordered(cuts, n), NEW parts,
         parts = [i \in 1 .. n |-> Part(cuts[i], cuts[i + 1])]
  PROVE  Joined(parts) = Part(cuts[1], cuts[n + 1])
<1>1. \A i \in 1 .. n : parts[i] # Null
  <2> TAKE i \in 1 .. n
  <2>1. cuts[i] \in Nat /\ cuts[i + 1] \in Nat /\ cuts[i] <= cuts[i + 1]
    BY DEF Ordered
  <2>2. Sequence(Part(cuts[i], cuts[i + 1]))
    BY <2>1, PartIsSeq DEF Sequence
  <2> QED BY <2>2 DEF NullIsApart
<1>2. Joined(parts) = FlattenSeq(parts)
  BY <1>1 DEF Joined
<1> QED BY <1>2, FlattenedParts

(* The links from an offset on give the bytes from there.                  *)
LEMMA LinksFromGive ==
  ASSUME NullIsApart, NEW n \in Nat \ {0}, NEW links, NEW cuts, NEW f, NEW store, NEW secret,
         Hold("from", links, n, cuts, f, store, secret), NEW from \in 0 .. cuts[n + 1] - cuts[1]
  PROVE  LinksFrom(store, f, links, from, secret) = Part(cuts[1] + from, cuts[n + 1])
<1>1. /\ Sizes(links, n, cuts) /\ \A i \in 1 .. n : cuts[i] < cuts[i + 1]
      /\ Ordered(cuts, n) /\ Len(links) = n
  BY HoldSizes DEF Hold
<1>2. \A i \in 1 .. n + 1 : cuts[i] \in Nat
  BY <1>1 DEF Ordered
<1>3. from \in Nat /\ cuts[1] \in Nat /\ cuts[n + 1] \in Nat /\ from <= cuts[n + 1] - cuts[1]
  BY <1>2
<1>4. PICK k \in 1 .. n + 1 :
        /\ k = FirstRead(links, from)
        /\ k = 1 \/ cuts[k] - cuts[1] <= from
        /\ k = n + 1 \/ from < cuts[k + 1] - cuts[1]
  BY <1>1, <1>3, FirstReadWith
<1> DEFINE piece(i) ==
             HeldFrom(store, f, links[i], AtLeastZero(from - PositionOf(links, i)), secret)
           parts == [j \in 1 .. n + 1 - k |-> piece(k + j - 1)]
<1>5. LinksFrom(store, f, links, from, secret) = Joined(parts)
  BY <1>1, <1>4 DEF LinksFrom
<1>6. CASE k = n + 1
  <2>1. from = cuts[n + 1] - cuts[1]
    BY <1>3, <1>4, <1>6
  <2>2. parts = <<>>
    BY <1>6
  <2>3. Joined(<<>>) = <<>>
    BY DEF Joined, FlattenSeq
  <2>4. Part(cuts[1] + from, cuts[n + 1]) = <<>>
    <3>1. cuts[1] + from = cuts[n + 1]
      BY <1>3, <2>1
    <3> QED BY <1>3, <3>1, EmptyPart
  <2> QED BY <1>5, <2>2, <2>3, <2>4
<1>7. CASE k # n + 1
  <2>1. /\ k \in 1 .. n /\ from < cuts[k + 1] - cuts[1]
        /\ cuts[1] <= cuts[k] /\ cuts[k] <= cuts[1] + from
    <3>1. k \in 1 .. n /\ cuts[k] \in Nat
      BY <1>2, <1>7
    <3>2. cuts[1] <= cuts[k]
      BY <1>1, <3>1, OrderedBetween
    <3> QED BY <1>3, <1>4, <1>7, <3>1, <3>2
  <2>2. PICK m \in Nat \ {0} : m = n + 1 - k
    BY <2>1
  <2>3. PICK new : new = [j \in 1 .. m + 1 |-> IF j = 1 THEN cuts[1] + from ELSE cuts[k + j - 1]]
    OBVIOUS
  <2>4. ASSUME NEW j \in 1 .. m
        PROVE  /\ new[j] \in Nat /\ new[j + 1] \in Nat /\ new[j] <= new[j + 1]
               /\ piece(k + j - 1) = Part(new[j], new[j + 1])
    <3>1. PICK i \in 1 .. n : i = k + j - 1 /\ k <= i /\ i + 1 = k + (j + 1) - 1
      <4>1. k + j - 1 \in 1 .. n /\ k <= k + j - 1 /\ (k + j - 1) + 1 = k + (j + 1) - 1
        BY <2>1, <2>2
      <4> QED BY <4>1
    <3>2. PositionOf(links, i) = cuts[i] - cuts[1]
      BY <1>1, PositionIs
    <3>3. cuts[i] \in Nat /\ cuts[i + 1] \in Nat /\ cuts[i] < cuts[i + 1]
      BY <1>1, <1>2
    <3>4. new[j + 1] = cuts[i + 1]
      BY <2>3, <3>1
    <3>5. \A inside \in 0 .. cuts[i + 1] - cuts[i] :
            HeldFrom(store, f, links[i], inside, secret) = Part(cuts[i] + inside, cuts[i + 1])
      BY DEF Hold, LinkGives
    <3>6. CASE j = 1
      <4>1. i = k /\ new[j] = cuts[1] + from
        BY <2>3, <3>1, <3>6
      <4>2. PICK inside \in 0 .. cuts[i + 1] - cuts[i] :
              inside = AtLeastZero(from - PositionOf(links, i)) /\ cuts[i] + inside = cuts[1] + from
        <5>1. AtLeastZero(from - (cuts[i] - cuts[1])) = from - (cuts[i] - cuts[1])
          BY <1>3, <2>1, <3>3, <4>1 DEF AtLeastZero
        <5>2. /\ from - (cuts[i] - cuts[1]) \in 0 .. cuts[i + 1] - cuts[i]
              /\ cuts[i] + (from - (cuts[i] - cuts[1])) = cuts[1] + from
          BY <1>3, <2>1, <3>3, <4>1
        <5> QED BY <3>2, <5>1, <5>2
      <4>3. cuts[1] + from \in Nat /\ cuts[1] + from <= cuts[i + 1]
        BY <1>3, <2>1, <3>3, <4>1
      <4> QED BY <3>1, <3>3, <3>4, <3>5, <4>1, <4>2, <4>3
    <3>7. CASE j # 1
      <4>1. new[j] = cuts[i] /\ k + 1 \in 1 .. n + 1 /\ i \in k + 1 .. n + 1
        BY <2>1, <2>3, <3>1, <3>7
      <4>2. cuts[k + 1] <= cuts[i] /\ cuts[k + 1] \in Nat
        BY <1>1, <4>1, OrderedBetween
      <4>3. AtLeastZero(from - PositionOf(links, i)) = 0
        BY <1>3, <2>1, <3>2, <3>3, <4>2 DEF AtLeastZero
      <4>4. 0 \in 0 .. cuts[i + 1] - cuts[i] /\ cuts[i] + 0 = cuts[i]
        BY <3>3
      <4> QED BY <3>1, <3>3, <3>4, <3>5, <4>1, <4>3, <4>4
    <3> QED BY <3>6, <3>7
  <2>5. parts = [j \in 1 .. m |-> Part(new[j], new[j + 1])]
    <3> HIDE DEF piece
    <3> QED BY <2>2, <2>4
  <2>6. Ordered(new, m)
    <3>1. ASSUME NEW j \in 1 .. m + 1
          PROVE  new[j] \in Nat
      <4>1. CASE j \in 1 .. m
        BY <2>4, <4>1
      <4>2. CASE j = m + 1
        <5>1. m \in 1 .. m
          BY <2>2
        <5> QED BY <2>4, <4>2, <5>1
      <4> QED BY <4>1, <4>2
    <3>2. new \in [1 .. m + 1 -> Nat]
      BY <2>3, <3>1
    <3> QED BY <2>4, <3>2 DEF Ordered
  <2> HIDE DEF parts
  <2>7. Joined(parts) = Part(new[1], new[m + 1])
    BY <2>5, <2>6, JoinedParts
  <2>8. new[1] = cuts[1] + from /\ new[m + 1] = cuts[n + 1]
    <3>1. 1 \in 1 .. m + 1 /\ m + 1 \in 1 .. m + 1 /\ m + 1 # 1 /\ k + (m + 1) - 1 = n + 1
      BY <2>2
    <3> QED BY <2>3, <3>1
  <2> QED BY <1>5, <2>7, <2>8
<1> QED BY <1>6, <1>7

-----------------------------------------------------------------------------
(* What has been read of a range link by link, as its recursive definition *)
(* says.                                                                   *)
Start == [position |-> 0, bytes |-> <<>>]

IsSofar(s, n, links, f, from, to, store, secret) ==
  /\ s[0] = Start
  /\ \A i \in 1 .. n : s[i] = AddLink(store, f, s[i - 1], links[i], from, to, secret)

(* The loop of readRangeFromNode goes link by link.                        *)
LEMMA SofarIs ==
  ASSUME NEW n \in Nat, NEW links, Len(links) = n, NEW f, NEW from, NEW to, NEW store, NEW secret
  PROVE  \E s : /\ IsSofar(s, n, links, f, from, to, store, secret)
                /\ LinksRange(store, f, links, from, to, secret) = s[n].bytes
<1> DEFINE Step(s, i) == AddLink(store, f, s, links[i], from, to, secret)
           Is(g, m) == g = [i \in 0 .. m |-> IF i = 0 THEN Start ELSE Step(g[i - 1], i)]
           S == {m \in Nat : \E g : Is(g, m)}
<1>1. LinksRange(store, f, links, from, to, secret) = (CHOOSE g : Is(g, n))[n].bytes
  BY DEF LinksRange, Start
<1> HIDE DEF Step
<1>2. 0 \in S
  <2>1. Is([i \in 0 .. 0 |-> Start], 0)
    OBVIOUS
  <2> QED BY <2>1
<1>3. ASSUME NEW m \in Nat, m \in S
      PROVE  m + 1 \in S
  <2>1. PICK g : Is(g, m)
    BY <1>3
  <2> DEFINE h == [i \in 0 .. m + 1 |-> IF i = 0 THEN Start ELSE Step(g[i - 1], i)]
  <2>2. \A i \in 0 .. m : h[i] = g[i]
    BY <2>1
  <2>3. \A i \in 0 .. m + 1 : h[i] = IF i = 0 THEN Start ELSE Step(h[i - 1], i)
    <3> TAKE i \in 0 .. m + 1
    <3>1. CASE i = 0
      BY <3>1
    <3>2. CASE i # 0
      <4>1. i - 1 \in 0 .. m
        BY <3>2
      <4>2. h[i - 1] = g[i - 1]
        BY <2>2, <4>1
      <4>3. h[i] = Step(g[i - 1], i)
        BY <3>2
      <4> QED BY <3>2, <4>2, <4>3
    <3> QED BY <3>1, <3>2
  <2>4. h = [i \in 0 .. m + 1 |-> h[i]]
    OBVIOUS
  <2> HIDE DEF h
  <2>5. Is(h, m + 1)
    BY <2>3, <2>4
  <2> QED BY <2>5
<1> HIDE DEF S
<1>4. n \in S
  BY <1>2, <1>3, EveryNumber
<1>5. \E g : Is(g, n)
  BY <1>4 DEF S
<1>6. PICK s : Is(s, n) /\ LinksRange(store, f, links, from, to, secret) = s[n].bytes
  <2> HIDE DEF Is
  <2> QED BY <1>1, <1>5
<1>7. s[0] = Start
  BY <1>6
<1>8. \A i \in 1 .. n : s[i] = Step(s[i - 1], i)
  BY <1>6
<1> QED BY <1>6, <1>7, <1>8 DEF IsSofar, Step

(* Up to where a range from from to to has been read when what comes       *)
(* before position has been.                                               *)
Greatest(a, b) == IF a >= b THEN a ELSE b
ReadTo(position, from, to) == Greatest(from, Least(position, to))

(* What has been read when the links up to position are done.              *)
ReadUpTo(sofar, position, a, from, to) ==
  /\ sofar = [position |-> sofar.position, bytes |-> sofar.bytes]
  /\ sofar.bytes = Part(a + from, a + ReadTo(position, from, to))
  /\ ReadTo(position, from, to) < to => sofar.position = position

(* One turn of it reads on to the end of its link, or to the end of the    *)
(* range: the link is skipped, or what is left of the range is taken.      *)
LEMMA AddLinkReads ==
  ASSUME NullIsApart, NEW a \in Nat, NEW p \in Nat, NEW size \in Nat \ {0}, NEW link, NEW f,
         NEW store, NEW secret,
         LinkGives("range", link, a + p, (a + p) + size, f, store, secret),
         NEW from \in Nat, NEW to \in Nat, from <= to, NEW sofar, ReadUpTo(sofar, p, a, from, to)
  PROVE  ReadUpTo(AddLink(store, f, sofar, link, from, to, secret), p + size, a, from, to)
<1> DEFINE x == ReadTo(p, from, to)
           y == ReadTo(p + size, from, to)
           inside == AtLeastZero(from - sofar.position)
           part == HeldRange(store, f, link, inside, to - sofar.position, secret)
           added == AddLink(store, f, sofar, link, from, to, secret)
<1>1. /\ x \in Nat /\ y \in Nat /\ from <= x /\ x <= y /\ y <= to
      /\ x = to => y = to
      /\ p + size <= from => x = from /\ y = from
      /\ x < to /\ ~(p + size <= from) => y = Least(p + size, to) /\ x = Greatest(from, p) /\ p < to
  BY DEF ReadTo, Least, Greatest
<1>2. link.size = size /\ Passed(store, link, secret) = size
  BY DEF LinkGives
<1>3. /\ sofar = [position |-> sofar.position, bytes |-> sofar.bytes]
      /\ sofar.bytes = Part(a + from, a + x) /\ (x < to => sofar.position = p)
  BY DEF ReadUpTo
<1>4. Len(sofar.bytes) = x - from /\ sofar.bytes # Null /\ a + from \in Nat /\ a + x \in Nat
      /\ a + from <= a + x
  <2>1. a + from \in Nat /\ a + x \in Nat /\ a + from <= a + x /\ (a + x) - (a + from) = x - from
    BY <1>1
  <2>2. Part(a + from, a + x) \in Seq(Units) /\ Len(Part(a + from, a + x)) = x - from
    BY <2>1, PartIsSeq
  <2> QED BY <1>3, <2>1, <2>2 DEF NullIsApart, Sequence
<1> HIDE DEF x, y
<1>5. CASE x = to
  <2>1. Len(sofar.bytes) >= to - from
    BY <1>1, <1>4, <1>5
  <2>2. added = sofar
    BY <2>1 DEF AddLink
  <2>3. y = to /\ ~(y < to)
    BY <1>1, <1>5
  <2> QED BY <1>3, <1>5, <2>2, <2>3 DEF ReadUpTo, y
<1>6. CASE x # to
  <2>1. x < to /\ sofar.position = p
    <3>1. x < to
      BY <1>1, <1>6
    <3> QED BY <1>3, <3>1
  <2>2. ~(Len(sofar.bytes) >= to - from)
    BY <1>1, <1>4, <2>1
  <2>3. CASE p + size <= from
    <3>1. added = [sofar EXCEPT !.position = @ + link.size]
      BY <1>2, <1>4, <2>1, <2>2, <2>3 DEF AddLink
    <3>2. added = [position |-> p + size, bytes |-> sofar.bytes]
      BY <1>2, <1>3, <2>1, <3>1
    <3>3. x = y
      BY <1>1, <2>3
    <3> QED BY <1>3, <3>2, <3>3 DEF ReadUpTo, y
  <2>4. CASE ~(p + size <= from)
    <3>1. y = Least(p + size, to) /\ x = Greatest(from, p) /\ p < to
      BY <1>1, <2>1, <2>4
    <3>2. PICK k \in 0 .. size, e \in Nat :
            /\ k = inside /\ e = to - sofar.position /\ k <= e
            /\ (a + p) + k = a + x /\ (a + p) + Least(e, size) = a + y
      <4>1. /\ AtLeastZero(from - p) \in 0 .. size /\ to - p \in Nat
            /\ AtLeastZero(from - p) <= to - p
            /\ (a + p) + AtLeastZero(from - p) = a + x
        BY <1>1, <2>1, <2>4, <3>1 DEF AtLeastZero, Greatest
      <4>2. (a + p) + Least(to - p, size) = a + y
        BY <3>1 DEF Least
      <4> QED BY <2>1, <4>1, <4>2
    <3>3. part = Part(a + x, a + y)
      <4>1. ((a + p) + size) - (a + p) = size
        OBVIOUS
      <4>2. \A i \in 0 .. size, j \in Nat : i <= j =>
              HeldRange(store, f, link, i, j, secret) = Part((a + p) + i, (a + p) + Least(j, size))
        BY <4>1 DEF LinkGives
      <4>3. HeldRange(store, f, link, k, e, secret) = Part((a + p) + k, (a + p) + Least(e, size))
        BY <3>2, <4>2
      <4> QED BY <3>2, <4>3
    <3>4. a + y \in Nat /\ a + x <= a + y
      BY <1>1
    <3>5. part # Null /\ sofar.bytes \o part = Part(a + from, a + y)
      <4>1. Part(a + x, a + y) \in Seq(Units)
        BY <1>4, <3>4, PartIsSeq
      <4>2. Part(a + x, a + y) # Null
        BY <4>1 DEF NullIsApart, Sequence
      <4>3. Part(a + from, a + x) \o Part(a + x, a + y) = Part(a + from, a + y)
        BY <1>4, <3>4, JoinParts
      <4> QED BY <1>3, <3>3, <4>2, <4>3
    <3>6. Slice(Part(a + from, a + y), 0, to - from) = Part(a + from, a + y)
      <4>1. PICK c \in Nat, d \in Nat, z \in Nat, e1 \in Nat :
              c = a + from /\ d = a + y /\ z = 0 /\ e1 = to - from /\ c <= d /\ z <= e1 /\ z <= d - c
        BY <1>1, <1>4, <3>4
      <4>2. Slice(Part(c, d), z, e1) = Part(c + z, c + Least(e1, d - c))
        BY <4>1, SlicePart
      <4>3. c + z = c /\ c + Least(e1, d - c) = d
        BY <1>1, <4>1 DEF Least
      <4> QED BY <4>1, <4>2, <4>3
    <3> HIDE DEF part, inside
    <3>7. added = [position |-> p + size, bytes |-> Part(a + from, a + y)]
      <4>1. added = [position |-> sofar.position + Passed(store, link, secret),
                     bytes |-> IF part = Null THEN Null ELSE Slice(sofar.bytes \o part, 0, to - from)]
        BY <1>2, <1>4, <2>1, <2>2, <2>4 DEF AddLink, part, inside
      <4> QED BY <1>2, <2>1, <3>5, <3>6, <4>1
    <3> QED BY <3>7 DEF ReadUpTo, y
  <2> QED BY <2>3, <2>4
<1> QED BY <1>1, <1>5, <1>6

(* The links of a range give the bytes of it.                              *)
LEMMA LinksRangeGive ==
  ASSUME NullIsApart, NEW n \in Nat \ {0}, NEW links, NEW cuts, NEW f, NEW store, NEW secret,
         Hold("range", links, n, cuts, f, store, secret),
         NEW from \in 0 .. cuts[n + 1] - cuts[1], NEW to \in Nat, from <= to
  PROVE  LinksRange(store, f, links, from, to, secret)
           = Part(cuts[1] + from, cuts[1] + Least(to, cuts[n + 1] - cuts[1]))
<1>1. /\ \A i \in 1 .. n : cuts[i] < cuts[i + 1]
      /\ Ordered(cuts, n) /\ Len(links) = n
  BY HoldSizes DEF Hold
<1>2. \A i \in 1 .. n + 1 : cuts[i] \in Nat
  BY <1>1 DEF Ordered
<1>3. PICK a \in Nat : a = cuts[1] /\ from \in Nat
  BY <1>2
<1>4. PICK s : /\ IsSofar(s, n, links, f, from, to, store, secret)
               /\ LinksRange(store, f, links, from, to, secret) = s[n].bytes
  BY <1>1, SofarIs
<1> DEFINE S == {k \in Nat : k <= n => ReadUpTo(s[k], cuts[k + 1] - a, a, from, to)}
<1>5. 0 \in S
  <2>1. s[0] = Start /\ cuts[0 + 1] - a = 0
    BY <1>3, <1>4 DEF IsSofar
  <2>2. ReadTo(0, from, to) = from
    BY <1>3 DEF ReadTo, Least, Greatest
  <2>3. Part(a + from, a + from) = <<>>
    BY <1>3, EmptyPart
  <2>4. ReadUpTo(Start, 0, a, from, to)
    BY <2>2, <2>3 DEF ReadUpTo, Start
  <2> QED BY <2>1, <2>4
<1>6. ASSUME NEW k \in Nat, k \in S
      PROVE  k + 1 \in S
  <2> SUFFICES ASSUME k + 1 <= n
               PROVE  ReadUpTo(s[k + 1], cuts[(k + 1) + 1] - a, a, from, to)
    OBVIOUS
  <2>1. PICK i \in 1 .. n : i = k + 1 /\ i - 1 = k
    OBVIOUS
  <2>2. cuts[i] \in Nat /\ cuts[i + 1] \in Nat /\ cuts[i] < cuts[i + 1] /\ a <= cuts[i]
    BY <1>1, <1>2, <1>3, OrderedBetween
  <2>3. PICK p \in Nat, size \in Nat \ {0} :
          p = cuts[i] - a /\ size = cuts[i + 1] - cuts[i] /\ cuts[i] = a + p
          /\ cuts[i + 1] = (a + p) + size /\ cuts[i + 1] - a = p + size
    <3>1. PICK b \in Nat, c \in Nat : b = cuts[i] /\ c = cuts[i + 1] /\ a <= b /\ b < c
      BY <2>2
    <3>2. /\ b - a \in Nat /\ c - b \in Nat \ {0} /\ b = a + (b - a)
          /\ c = (a + (b - a)) + (c - b) /\ c - a = (b - a) + (c - b)
      BY <3>1
    <3> QED BY <3>1, <3>2
  <2>4. LinkGives("range", links[i], a + p, (a + p) + size, f, store, secret)
    BY <2>3 DEF Hold
  <2>5. ReadUpTo(s[k], p, a, from, to)
    <3>1. k <= n /\ k + 1 = i
      BY <2>1
    <3>2. ReadUpTo(s[k], cuts[k + 1] - a, a, from, to)
      BY <1>6, <3>1
    <3> QED BY <2>3, <3>1, <3>2
  <2>6. PICK sofar, link : sofar = s[k] /\ link = links[i]
    OBVIOUS
  <2>7. ReadUpTo(AddLink(store, f, sofar, link, from, to, secret), p + size, a, from, to)
    BY <1>3, <2>4, <2>5, <2>6, AddLinkReads
  <2>8. s[i] = AddLink(store, f, sofar, link, from, to, secret)
    BY <1>4, <2>1, <2>6 DEF IsSofar
  <2> QED BY <2>1, <2>3, <2>7, <2>8
<1> HIDE DEF S
<1>7. n \in S
  BY <1>5, <1>6, EveryNumber
<1>8. PICK length \in Nat : length = cuts[n + 1] - a /\ from <= length
  BY <1>2, <1>3
<1>9. s[n].bytes = Part(a + from, a + ReadTo(length, from, to))
  BY <1>7, <1>8 DEF S, ReadUpTo
<1>10. ReadTo(length, from, to) = Least(to, length)
  BY <1>3, <1>8 DEF ReadTo, Least, Greatest
<1> QED BY <1>3, <1>4, <1>8, <1>9, <1>10

-----------------------------------------------------------------------------
(* What the readers make of the node h, and the equations that they solve  *)
(* for the blocks of T.                                                    *)
Whole(f, store, secret, h) ==
  LET node == NodeIn(Opened(h, secret))
  IN IF node = Null THEN Null
     ELSE Joined([i \in DOMAIN node.links |-> Held(store, f, node.links[i], secret)])
Streamed(f, store, secret, h) ==
  LET node == NodeIn(Opened(h, secret))
  IN [from \in Nat |->
       IF node = Null THEN Null ELSE LinksFrom(store, f, node.links, from, secret)]
Ranged(f, store, secret, h) ==
  LET node == NodeIn(Opened(h, secret))
  IN [from \in Nat |-> [to \in Int |->
       IF node = Null THEN Null ELSE LinksRange(store, f, node.links, from, to, secret)]]

Reads(kind, f, store, secret, h) ==
  IF kind = "whole" THEN Whole(f, store, secret, h)
  ELSE IF kind = "from" THEN Streamed(f, store, secret, h) ELSE Ranged(f, store, secret, h)

Solves(kind, f, T, store, secret) == \A h \in T : f[h] = Reads(kind, f, store, secret, h)

(* The links of node h lead to blobs or into T: what it reads needs no     *)
(* other node.                                                             *)
LeadsInto(h, T, secret) ==
  LET node == NodeIn(Opened(h, secret))
  IN node # Null =>
       /\ Sequence(node.links)
       /\ \A i \in DOMAIN node.links : node.links[i].type = "Blob" \/ node.links[i].hash \in T

(* What is found at a link depends on the node that it leads to alone.     *)
LEMMA HeldAgrees ==
  ASSUME NEW f, NEW g, NEW store, NEW secret, NEW link,
         link.type = "Blob" \/ f[link.hash] = g[link.hash]
  PROVE  /\ Held(store, f, link, secret) = Held(store, g, link, secret)
         /\ \A from :
              HeldFrom(store, f, link, from, secret) = HeldFrom(store, g, link, from, secret)
         /\ \A from, to : HeldRange(store, f, link, from, to, secret)
                            = HeldRange(store, g, link, from, to, secret)
BY DEF Held, HeldFrom, HeldRange

(* So what a node reads depends on the nodes that it leads to alone.       *)
LinksAgree(links, n, f, g) ==
  /\ Len(links) = n /\ DOMAIN links = 1 .. n
  /\ \A i \in 1 .. n : links[i].type = "Blob" \/ f[links[i].hash] = g[links[i].hash]

(* streamChunksWithOffset asks the readers of the nodes for nothing but    *)
(* what the links of a node name,                                          *)
LEMMA LinksFromAgree ==
  ASSUME NEW n \in Nat, NEW links, NEW f, NEW g, LinksAgree(links, n, f, g), NEW store, NEW secret,
         NEW from
  PROVE  LinksFrom(store, f, links, from, secret) = LinksFrom(store, g, links, from, secret)
<1>1. Len(links) = n
  BY DEF LinksAgree
<1>2. PICK k \in 1 .. n + 1 : k = FirstRead(links, from)
  BY <1>1, FirstReadIs
<1> DEFINE piece(e, i) ==
      HeldFrom(store, e, links[i], AtLeastZero(from - PositionOf(links, i)), secret)
           parts(e) == [j \in 1 .. n + 1 - k |-> piece(e, k + j - 1)]
<1>3. \A e : LinksFrom(store, e, links, from, secret) = Joined(parts(e))
  BY <1>1, <1>2 DEF LinksFrom
<1>4. ASSUME NEW j \in 1 .. n + 1 - k
      PROVE  piece(f, k + j - 1) = piece(g, k + j - 1)
  <2>1. PICK i \in 1 .. n : i = k + j - 1
    <3>1. k + j - 1 \in 1 .. n
      BY <1>2, <1>4
    <3> QED BY <3>1
  <2>2. PICK link : link = links[i] /\ (link.type = "Blob" \/ f[link.hash] = g[link.hash])
    BY DEF LinksAgree
  <2>3. \A x : HeldFrom(store, f, link, x, secret) = HeldFrom(store, g, link, x, secret)
    BY <2>2, HeldAgrees
  <2> QED BY <2>1, <2>2, <2>3
<1>5. parts(f) = parts(g)
  <2> HIDE DEF piece
  <2> QED BY <1>4
<1> HIDE DEF parts
<1> QED BY <1>3, <1>5

(* nor does readRangeFromNode,                                             *)
LEMMA LinksRangeAgree ==
  ASSUME NEW n \in Nat, NEW links, NEW f, NEW g, LinksAgree(links, n, f, g), NEW store, NEW secret,
         NEW from, NEW to
  PROVE  LinksRange(store, f, links, from, to, secret)
           = LinksRange(store, g, links, from, to, secret)
<1>1. Len(links) = n
  BY DEF LinksAgree
<1>2. ASSUME NEW sofar, NEW i \in 1 .. n
      PROVE  AddLink(store, f, sofar, links[i], from, to, secret)
               = AddLink(store, g, sofar, links[i], from, to, secret)
  <2>1. PICK link : link = links[i] /\ (link.type = "Blob" \/ f[link.hash] = g[link.hash])
    BY DEF LinksAgree
  <2>2. link.type = "Blob" \/ f[link.hash] = g[link.hash]
    BY <2>1
  <2>3. \A x, y : HeldRange(store, f, link, x, y, secret) = HeldRange(store, g, link, x, y, secret)
    BY <2>2 DEF HeldRange
  <2>4. AddLink(store, f, sofar, link, from, to, secret)
          = AddLink(store, g, sofar, link, from, to, secret)
    BY <2>3 DEF AddLink
  <2> QED BY <2>1, <2>4
<1>3. PICK s : /\ IsSofar(s, n, links, f, from, to, store, secret)
               /\ LinksRange(store, f, links, from, to, secret) = s[n].bytes
  BY <1>1, SofarIs
<1>4. PICK t : /\ IsSofar(t, n, links, g, from, to, store, secret)
               /\ LinksRange(store, g, links, from, to, secret) = t[n].bytes
  BY <1>1, SofarIs
<1> DEFINE S == {k \in Nat : k <= n => s[k] = t[k]}
<1>5. 0 \in S
  BY <1>3, <1>4 DEF IsSofar
<1>6. ASSUME NEW k \in Nat, k \in S
      PROVE  k + 1 \in S
  <2> SUFFICES ASSUME k + 1 <= n
               PROVE  s[k + 1] = t[k + 1]
    OBVIOUS
  <2>1. PICK i \in 1 .. n : i = k + 1 /\ i - 1 = k /\ k <= n
    OBVIOUS
  <2>2. s[k] = t[k]
    BY <1>6, <2>1
  <2>3. s[i] = AddLink(store, f, s[i - 1], links[i], from, to, secret)
    BY <1>3 DEF IsSofar
  <2>4. t[i] = AddLink(store, g, t[i - 1], links[i], from, to, secret)
    BY <1>4 DEF IsSofar
  <2>5. PICK sofar : sofar = s[i - 1] /\ sofar = t[i - 1]
    BY <2>1, <2>2
  <2>6. AddLink(store, f, sofar, links[i], from, to, secret)
          = AddLink(store, g, sofar, links[i], from, to, secret)
    BY <1>2
  <2> QED BY <2>1, <2>3, <2>4, <2>5, <2>6
<1> HIDE DEF S
<1>7. n \in S
  BY <1>5, <1>6, EveryNumber
<1> QED BY <1>3, <1>4, <1>7 DEF S

(* so the readers of a node depend on those of the nodes below it only.    *)
LEMMA ReadsAgree ==
  ASSUME NEW kind \in Kinds, NEW f, NEW g, NEW T, \A h \in T : f[h] = g[h], NEW store, NEW secret,
         NEW h, LeadsInto(h, T, secret)
  PROVE  Reads(kind, f, store, secret, h) = Reads(kind, g, store, secret, h)
<1> DEFINE node == NodeIn(Opened(h, secret))
<1>1. CASE node = Null
  BY <1>1 DEF Reads, Whole, Streamed, Ranged
<1>2. CASE node # Null
  <2>1. PICK links : links = node.links
    OBVIOUS
  <2>2. /\ Sequence(links)
        /\ \A i \in DOMAIN links : links[i].type = "Blob" \/ links[i].hash \in T
    BY <1>2, <2>1 DEF LeadsInto
  <2>3. PICK n \in Nat : n = Len(links) /\ DOMAIN links = 1 .. n
    BY <2>2, SequenceIs
  <2>4. LinksAgree(links, n, f, g)
    BY <2>2, <2>3 DEF LinksAgree
  <2> HIDE DEF node
  <2>5. ASSUME NEW i \in DOMAIN links
        PROVE  Held(store, f, links[i], secret) = Held(store, g, links[i], secret)
    <3>1. PICK link : link = links[i] /\ (link.type = "Blob" \/ f[link.hash] = g[link.hash])
      BY <2>3, <2>4 DEF LinksAgree
    <3> QED BY <3>1, HeldAgrees
  <2>6. Whole(f, store, secret, h) = Whole(g, store, secret, h)
    <3>1. [i \in DOMAIN links |-> Held(store, f, links[i], secret)]
            = [i \in DOMAIN links |-> Held(store, g, links[i], secret)]
      BY <2>5
    <3> QED BY <2>1, <3>1 DEF Whole, node
  <2>7. Streamed(f, store, secret, h) = Streamed(g, store, secret, h)
    <3>1. \A from \in Nat :
            LinksFrom(store, f, links, from, secret) = LinksFrom(store, g, links, from, secret)
      BY <2>4, LinksFromAgree
    <3>2. \A e : Streamed(e, store, secret, h) =
                   [from \in Nat |-> LinksFrom(store, e, links, from, secret)]
      BY <1>2, <2>1 DEF Streamed, node
    <3> QED BY <3>1, <3>2
  <2>8. Ranged(f, store, secret, h) = Ranged(g, store, secret, h)
    <3>1. \A from \in Nat, to \in Int :
            LinksRange(store, f, links, from, to, secret)
              = LinksRange(store, g, links, from, to, secret)
      BY <2>4, LinksRangeAgree
    <3>2. \A e : Ranged(e, store, secret, h) =
                   [from \in Nat |-> [to \in Int |-> LinksRange(store, e, links, from, to, secret)]]
      BY <1>2, <2>1 DEF Ranged, node
    <3> QED BY <3>1, <3>2
  <2> QED BY <2>6, <2>7, <2>8 DEF Reads
<1> QED BY <1>1, <1>2

(* The equations for T have a solution that extends to nodes leading into  *)
(* T.                                                                      *)
LEMMA Extended ==
  ASSUME NEW kind \in Kinds, NEW f, NEW T, NEW U, NEW store, NEW secret,
         Solves(kind, f, T, store, secret),
         \A h \in T : LeadsInto(h, T, secret), \A h \in U : LeadsInto(h, T, secret)
  PROVE  /\ \A h \in T \union U : LeadsInto(h, T \union U, secret)
         /\ \E g : Solves(kind, g, T \union U, store, secret)
<1>1. \A h \in T \union U : LeadsInto(h, T, secret)
  OBVIOUS
<1>2. \A h \in T \union U : LeadsInto(h, T \union U, secret)
  BY <1>1 DEF LeadsInto
<1> DEFINE g == [h \in T \union U |-> IF h \in T THEN f[h] ELSE Reads(kind, f, store, secret, h)]
<1>3. \A h \in T : f[h] = g[h]
  OBVIOUS
<1>4. \A h \in T \union U : g[h] = Reads(kind, f, store, secret, h)
  BY DEF Solves
<1> HIDE DEF g
<1>5. ASSUME NEW h \in T \union U
      PROVE  g[h] = Reads(kind, g, store, secret, h)
  <2>1. Reads(kind, f, store, secret, h) = Reads(kind, g, store, secret, h)
    BY <1>1, <1>3, ReadsAgree
  <2> QED BY <1>4, <2>1
<1>6. Solves(kind, g, T \union U, store, secret)
  BY <1>5 DEF Solves
<1> QED BY <1>2, <1>6

(* When the equations for all of a store have a solution, the readers are  *)
(* one: assembleChunks(), streamChunksWithOffset(), readRangeFromNode().   *)
LEMMA SolutionIs ==
  ASSUME NEW kind \in Kinds, NEW f, NEW store, NEW secret, Solves(kind, f, store, store, secret),
         \A h \in store : LeadsInto(h, store, secret)
  PROVE  \E w : w = [h \in store |-> Reads(kind, w, store, secret, h)]
<1> DEFINE w == [h \in store |-> Reads(kind, f, store, secret, h)]
<1>1. \A h \in store : f[h] = w[h]
  BY DEF Solves
<1> HIDE DEF w
<1>2. \A h \in store : Reads(kind, f, store, secret, h) = Reads(kind, w, store, secret, h)
  BY <1>1, ReadsAgree
<1>3. [h \in store |-> Reads(kind, f, store, secret, h)]
        = [h \in store |-> Reads(kind, w, store, secret, h)]
  BY <1>2
<1> QED BY <1>3 DEF w

Reader(kind, g, store, secret) ==
  /\ Solves(kind, g, store, store, secret)
  /\ kind = "whole" => \A h : assembleChunks(store, h, secret) = g[h]
  /\ kind = "from" => \A h, from : streamChunksWithOffset(store, h, from, secret) = g[h][from]
  /\ kind = "range" =>
       \A h, from, to : readRangeFromNode(store, h, from, to, secret) = g[h][from][to]

(* A store whose nodes lead into it and whose equations have a solution    *)
(* has a reader of each kind.                                              *)
LEMMA ReaderSolves ==
  ASSUME NEW kind \in Kinds, NEW f, NEW store, NEW secret, Solves(kind, f, store, store, secret),
         \A h \in store : LeadsInto(h, store, secret)
  PROVE  \E g : Reader(kind, g, store, secret)
<1>1. PICK w : w = [h \in store |-> Reads(kind, w, store, secret, h)]
  BY SolutionIs
<1>2. CASE kind = "whole"
  <2> DEFINE Is(g) == g = [h \in store |-> Whole(g, store, secret, h)]
  <2>1. Is(w)
    BY <1>1, <1>2 DEF Reads
  <2>2. \A h : assembleChunks(store, h, secret) = (CHOOSE g : Is(g))[h]
    BY DEF assembleChunks, Whole
  <2>3. PICK g : Is(g) /\ \A h : assembleChunks(store, h, secret) = g[h]
    <3> HIDE DEF Is
    <3> QED BY <2>1, <2>2
  <2>4. \A h \in store : g[h] = Whole(g, store, secret, h)
    BY <2>3
  <2> HIDE DEF Is
  <2> QED BY <1>2, <2>3, <2>4 DEF Reader, Solves, Reads
<1>3. CASE kind = "from"
  <2> DEFINE Is(g) == g = [h \in store |-> Streamed(g, store, secret, h)]
  <2>1. Is(w)
    BY <1>1, <1>3 DEF Reads
  <2>2. \A h, from : streamChunksWithOffset(store, h, from, secret) = (CHOOSE g : Is(g))[h][from]
    BY DEF streamChunksWithOffset, Streamed
  <2>3. PICK g : Is(g) /\ \A h, from : streamChunksWithOffset(store, h, from, secret) = g[h][from]
    <3> HIDE DEF Is
    <3> QED BY <2>1, <2>2
  <2>4. \A h \in store : g[h] = Streamed(g, store, secret, h)
    BY <2>3
  <2> HIDE DEF Is
  <2> QED BY <1>3, <2>3, <2>4 DEF Reader, Solves, Reads
<1>4. CASE kind = "range"
  <2> DEFINE Is(g) == g = [h \in store |-> Ranged(g, store, secret, h)]
  <2>1. Is(w)
    BY <1>1, <1>4 DEF Reads
  <2>2. \A h, from, to :
          readRangeFromNode(store, h, from, to, secret) = (CHOOSE g : Is(g))[h][from][to]
    BY DEF readRangeFromNode, Ranged
  <2>3. PICK g :
          Is(g) /\ \A h, from, to : readRangeFromNode(store, h, from, to, secret) = g[h][from][to]
    <3> HIDE DEF Is
    <3> QED BY <2>1, <2>2
  <2>4. \A h \in store : g[h] = Ranged(g, store, secret, h)
    BY <2>3
  <2> HIDE DEF Is
  <2> QED BY <1>4, <2>3, <2>4 DEF Reader, Solves, Reads
<1> QED BY <1>2, <1>3, <1>4 DEF Kinds

-----------------------------------------------------------------------------
(* A node gives what its links hold, joined.                               *)
LEMMA NodeGives ==
  ASSUME NullIsApart, NEW kind \in Kinds, NEW n \in Nat \ {0}, NEW batch, NEW cuts, NEW f,
         NEW store, NEW secret \in BOOLEAN, Hold(kind, batch, n, cuts, f, store, secret),
         NEW h, h = Node(batch, secret).hash, f[h] = Reads(kind, f, store, secret, h)
  PROVE  Gives(kind, f[h], cuts[1], cuts[n + 1])
<1> DEFINE data == encodeTreeNode("File", batch)
<1>1. Opened(h, secret) = data
  BY PutOpened DEF Node
<1>2. NodeIn(data) # Null /\ NodeIn(data).links = batch /\ DOMAIN batch = 1 .. n
  BY Decoded, SequenceIs DEF Hold
<1> HIDE DEF data
<1>3. PICK a \in Nat, b \in Nat : a = cuts[1] /\ b = cuts[n + 1] /\ a <= b
  <2>1. Ordered(cuts, n)
    BY DEF Hold
  <2>2. n \in Nat /\ 1 \in 1 .. n + 1 /\ n + 1 \in 1 .. n + 1
    OBVIOUS
  <2> QED BY <2>1, <2>2, OrderedBetween
<1>4. CASE kind = "whole"
  <2>1. PICK parts : parts = [i \in 1 .. n |-> Held(store, f, batch[i], secret)]
    OBVIOUS
  <2>2. f[h] = Joined(parts)
    BY <1>1, <1>2, <1>4, <2>1 DEF Reads, Whole
  <2>3. parts = [i \in 1 .. n |-> Part(cuts[i], cuts[i + 1])]
    BY <1>4, <2>1 DEF Hold, LinkGives
  <2>4. Ordered(cuts, n)
    BY DEF Hold
  <2>5. Joined(parts) = Part(cuts[1], cuts[n + 1])
    BY <2>3, <2>4, JoinedParts
  <2> QED BY <1>4, <2>2, <2>5 DEF Gives
<1>5. CASE kind = "from"
  <2>1. \A from \in Nat : f[h][from] = LinksFrom(store, f, batch, from, secret)
    BY <1>1, <1>2, <1>5 DEF Reads, Streamed
  <2>2. Hold("from", batch, n, cuts, f, store, secret)
    BY <1>5
  <2>3. \A from \in 0 .. cuts[n + 1] - cuts[1] :
          LinksFrom(store, f, batch, from, secret) = Part(cuts[1] + from, cuts[n + 1])
    BY <2>2, LinksFromGive
  <2>4. \A from \in 0 .. b - a : from \in Nat
    BY <1>3
  <2> QED BY <1>3, <1>5, <2>1, <2>3, <2>4 DEF Gives
<1>6. CASE kind = "range"
  <2>1. \A from \in Nat, to \in Int : f[h][from][to] = LinksRange(store, f, batch, from, to, secret)
    BY <1>1, <1>2, <1>6 DEF Reads, Ranged
  <2>2. Hold("range", batch, n, cuts, f, store, secret)
    BY <1>6
  <2>3. \A from \in 0 .. cuts[n + 1] - cuts[1], to \in Nat : from <= to =>
          LinksRange(store, f, batch, from, to, secret)
            = Part(cuts[1] + from, cuts[1] + Least(to, cuts[n + 1] - cuts[1]))
    BY <2>2, LinksRangeGive
  <2>4. \A from \in 0 .. b - a, to \in Nat : from \in Nat /\ to \in Int
    BY <1>3
  <2> QED BY <1>3, <1>6, <2>1, <2>3, <2>4 DEF Gives
<1> QED BY <1>4, <1>5, <1>6 DEF Kinds

(* What a link to a node says of it.                                       *)
LEMMA NodeLinkIs ==
  ASSUME NEW batch, NEW secret
  PROVE  LET link == NodeLink(Node(batch, secret), batch)
         IN /\ link.hash = Node(batch, secret).hash /\ link.key = Node(batch, secret).key
            /\ link.type = "File" /\ link.size = TotalSize(batch)
BY DEF NodeLink, Link

(* A link to a stored node holds what the node gives, if it has its size   *)
(* where that matters.                                                     *)
LEMMA NodeHeld ==
  ASSUME NullIsApart, NEW batch, Sequence(batch), NEW f, NEW store, NEW secret \in BOOLEAN,
         Node(batch, secret).hash \in store, NEW kind \in Kinds, NEW a, NEW b,
         Gives(kind, f[Node(batch, secret).hash], a, b),
         kind # "whole" => a < b /\ TotalSize(batch) = b - a
  PROVE  LinkGives(kind, NodeLink(Node(batch, secret), batch), a, b, f, store, secret)
<1> DEFINE data == encodeTreeNode("File", batch)
           put == putBlob(data, secret)
<1>1. PICK link : link = NodeLink(Node(batch, secret), batch)
  OBVIOUS
<1>2. put.hash \in store /\ link.hash = put.hash /\ link.key = put.key /\ put = Node(batch, secret)
      /\ link.type # "Blob" /\ link.size = TotalSize(batch)
  BY <1>1, NodeLinkIs DEF Node
<1>3. data # Null
  BY Decoded
<1> HIDE DEF data
<1>4. Fetched(store, put.hash, put.key, secret) = data
  BY <1>2, PutFetched
<1> HIDE DEF put
<1>5. Fetched(store, link.hash, link.key, secret) # Null
  BY <1>2, <1>3, <1>4
<1>6. /\ Held(store, f, link, secret) = f[link.hash]
      /\ \A from : HeldFrom(store, f, link, from, secret) = f[link.hash][from]
      /\ \A from, to : HeldRange(store, f, link, from, to, secret) = f[link.hash][from][to]
      /\ Passed(store, link, secret) = link.size
  BY <1>2, <1>5 DEF Held, HeldFrom, HeldRange, Passed
<1>7. Gives(kind, f[link.hash], a, b)
  BY <1>2
<1>8. LinkGives(kind, link, a, b, f, store, secret)
  BY <1>2, <1>6, <1>7 DEF Gives, LinkGives
<1> QED BY <1>1, <1>8

-----------------------------------------------------------------------------
(* What the code puts above the links of a level: fewer links, each to a   *)
(* node with a piece of the links below.                                   *)
LEMMA Above ==
  ASSUME NEW links, Sequence(links), NEW secret \in BOOLEAN
  PROVE  \E q, batches, at :
           /\ q \in Nat
           /\ Sequence(LinksAbove(links, secret)) /\ Len(LinksAbove(links, secret)) = q
           /\ q <= Len(links) /\ (Len(links) > maxLinks => 2 <= q /\ q < Len(links))
           /\ Len(links) > 0 => 1 <= q
           /\ CutInto(links, batches, q, maxLinks, at)
           /\ \A i \in 1 .. q :
                LinksAbove(links, secret)[i] = NodeLink(Node(batches[i], secret), batches[i])
           /\ AllBlocks(NodesAbove(links, secret)) = {Node(batches[i], secret).hash : i \in 1 .. q}
<1>1. maxLinks \in Nat \ {0} /\ maxLinks > 1
  BY SizesAssumption
<1> DEFINE b == Pieces(links, maxLinks)
           above == LinksAbove(links, secret)
<1>2. PICK q \in Nat : /\ Sequence(b) /\ Len(b) = q
                       /\ q <= Len(links) /\ (Len(links) > maxLinks => 2 <= q /\ q < Len(links))
                       /\ Len(links) > 0 => 1 <= q
                       /\ \E at : CutInto(links, b, q, maxLinks, at)
  BY <1>1, CutPieces
<1>3. DOMAIN b = 1 .. q
  <2> HIDE DEF b
  <2> QED BY <1>2, SequenceIs
<1>4. NodesAbove(links, secret) = [i \in 1 .. q |-> Node(b[i], secret)]
  <2>1. NodesAbove(links, secret) = [i \in DOMAIN b |-> Node(b[i], secret)]
    BY DEF NodesAbove, Node
  <2> HIDE DEF b
  <2> QED BY <1>3, <2>1
<1>5. above = [i \in 1 .. q |-> NodeLink(Node(b[i], secret), b[i])]
  <2>1. above = [i \in DOMAIN b |-> NodeLink(Node(b[i], secret), b[i])]
    BY DEF LinksAbove
  <2> HIDE DEF b, above
  <2> QED BY <1>3, <2>1
<1> HIDE DEF b, above
<1>6. \A i \in 1 .. q : above[i] = NodeLink(Node(b[i], secret), b[i])
  BY <1>5
<1>7. Sequence(above) /\ Len(above) = q
  <2>1. above = [i \in 1 .. q |-> above[i]]
    BY <1>5
  <2> QED BY <2>1, SequenceOf
<1>8. AllBlocks(NodesAbove(links, secret)) = {Node(b[i], secret).hash : i \in 1 .. q}
  <2>1. AllBlocks(NodesAbove(links, secret)) = UNION {Node(b[i], secret).blocks : i \in 1 .. q}
    BY <1>4 DEF AllBlocks
  <2>2. \A i \in 1 .. q : Node(b[i], secret).blocks = {Node(b[i], secret).hash}
    BY PutOpened DEF Node
  <2> QED BY <2>1, <2>2
<1> QED BY <1>2, <1>6, <1>7, <1>8 DEF above

-----------------------------------------------------------------------------
(* The levels of a tree, from the links to its chunks up.                  *)
AreLevels(level, links, n, secret) ==
  /\ Sequence(links) /\ Len(links) = n
  /\ DOMAIN level = 0 .. n /\ level[0] = links
  /\ \A k \in 0 .. n - 1 : level[k + 1] = LinksAbove(level[k], secret)

(* The levels are as their recursive definition says.                      *)
LEMMA LevelsAre ==
  ASSUME NEW n \in Nat, NEW links, Sequence(links), Len(links) = n, NEW secret
  PROVE  AreLevels(Levels(links, secret), links, n, secret)
<1> DEFINE Is(g, m) ==
      g = [k \in 0 .. m |-> IF k = 0 THEN links ELSE LinksAbove(g[k - 1], secret)]
           S == {m \in Nat : \E g : Is(g, m)}
<1>1. 0 \in S
  <2>1. Is([k \in 0 .. 0 |-> links], 0)
    OBVIOUS
  <2> QED BY <2>1
<1>2. ASSUME NEW m \in Nat, m \in S
      PROVE  m + 1 \in S
  <2>1. PICK g : Is(g, m)
    BY <1>2
  <2> DEFINE h == [k \in 0 .. m + 1 |-> IF k = 0 THEN links ELSE LinksAbove(g[k - 1], secret)]
  <2>2. \A k \in 0 .. m : h[k] = g[k]
    BY <2>1
  <2>3. \A k \in 0 .. m + 1 : h[k] = IF k = 0 THEN links ELSE LinksAbove(h[k - 1], secret)
    <3> TAKE k \in 0 .. m + 1
    <3>1. CASE k = 0
      BY <3>1
    <3>2. CASE k # 0
      <4>1. k - 1 \in 0 .. m
        BY <3>2
      <4>2. h[k - 1] = g[k - 1]
        BY <2>2, <4>1
      <4>3. h[k] = LinksAbove(g[k - 1], secret)
        BY <3>2
      <4> QED BY <3>2, <4>2, <4>3
    <3> QED BY <3>1, <3>2
  <2>4. h = [k \in 0 .. m + 1 |-> h[k]]
    OBVIOUS
  <2> HIDE DEF h
  <2>5. Is(h, m + 1)
    BY <2>3, <2>4
  <2> QED BY <2>5
<1> HIDE DEF S
<1>3. n \in S
  BY <1>1, <1>2, EveryNumber
<1>4. PICK g : Is(g, n)
  BY <1>3 DEF S
<1>5. Levels(links, secret) = CHOOSE f : Is(f, n)
  BY DEF Levels
<1> DEFINE level == Levels(links, secret)
<1>6. Is(level, n)
  <2> HIDE DEF Is, level
  <2>1. Is(CHOOSE f : Is(f, n), n)
    BY <1>4
  <2> QED BY <1>5, <2>1 DEF level
<1> HIDE DEF level
<1>7. DOMAIN level = 0 .. n /\ level[0] = links
  BY <1>6
<1>8. ASSUME NEW k \in 0 .. n - 1
      PROVE  level[k + 1] = LinksAbove(level[k], secret)
  <2>1. k + 1 \in 0 .. n /\ k + 1 # 0 /\ (k + 1) - 1 = k
    OBVIOUS
  <2> QED BY <1>6, <2>1
<1> QED BY <1>7, <1>8 DEF AreLevels, level

(* As long as no level fits in a node, each is shorter than the one below  *)
(* it.                                                                     *)
LEMMA LevelsShrink ==
  ASSUME NEW n \in Nat, NEW level, NEW links, NEW secret \in BOOLEAN,
         AreLevels(level, links, n, secret), NEW k \in 0 .. n
  PROVE  /\ Sequence(level[k]) /\ (n > 0 => Len(level[k]) > 0)
         /\ (\A j \in 0 .. k : Len(level[j]) > maxLinks) => Len(level[k]) + k <= n
<1> DEFINE Fact(i) == /\ Sequence(level[i]) /\ (n > 0 => Len(level[i]) > 0)
                      /\ (\A j \in 0 .. i : Len(level[j]) > maxLinks) => Len(level[i]) + i <= n
           S == {i \in Nat : i <= n => Fact(i)}
<1>1. 0 \in S
  BY DEF AreLevels
<1>2. ASSUME NEW i \in Nat, i \in S, i + 1 <= n
      PROVE  Fact(i + 1)
  <2>1. Fact(i)
    BY <1>2
  <2>2. level[i + 1] = LinksAbove(level[i], secret)
    <3>1. i \in 0 .. n - 1
      BY <1>2
    <3> QED BY <3>1 DEF AreLevels
  <2>3. PICK q \in Nat :
          /\ Sequence(level[i + 1]) /\ Len(level[i + 1]) = q
          /\ q <= Len(level[i]) /\ (Len(level[i]) > maxLinks => 2 <= q /\ q < Len(level[i]))
          /\ Len(level[i]) > 0 => 1 <= q
    BY <2>1, <2>2, Above
  <2>4. PICK p \in Nat : p = Len(level[i])
    BY <2>1, SequenceIs
  <2>5. ASSUME \A j \in 0 .. i + 1 : Len(level[j]) > maxLinks
        PROVE  q + (i + 1) <= n
    <3>1. Len(level[i]) > maxLinks /\ \A j \in 0 .. i : Len(level[j]) > maxLinks
      BY <2>5
    <3>2. q < p /\ p + i <= n
      BY <2>1, <2>3, <2>4, <3>1
    <3> QED BY <3>2
  <2>6. n > 0 => Len(level[i + 1]) > 0
    BY <2>1, <2>3
  <2>7. (\A j \in 0 .. i + 1 : Len(level[j]) > maxLinks) => Len(level[i + 1]) + (i + 1) <= n
    BY <2>3, <2>5
  <2> QED BY <2>3, <2>6, <2>7
<1> HIDE DEF Fact
<1>3. \A i \in Nat : i \in S => i + 1 \in S
  BY <1>2
<1> HIDE DEF S
<1>4. k \in S
  BY <1>1, <1>3, EveryNumber
<1> USE DEF Fact
<1> QED BY <1>4 DEF S

(* So there is a first level that fits in a node, the top; it has one link *)
(* only if there was only one to begin with.                               *)
LEMMA Top ==
  ASSUME NEW n \in Nat \ {0}, NEW level, NEW links, NEW secret \in BOOLEAN,
         AreLevels(level, links, n, secret)
  PROVE  /\ TopOf(level) \in 0 .. n
         /\ Sequence(level[TopOf(level)]) /\ Len(level[TopOf(level)]) > 0
         /\ n = 1 => TopOf(level) = 0
         /\ n > 1 => Len(level[TopOf(level)]) > 1
<1> DEFINE IsTop(k) == Len(level[k]) <= maxLinks /\ \A j \in 0 .. k - 1 : Len(level[j]) > maxLinks
           T == {k \in 0 .. n : Len(level[k]) <= maxLinks}
<1>1. \A k \in 0 .. n : Len(level[k]) \in Nat
  BY LevelsShrink, SequenceIs
<1>2. maxLinks \in Nat /\ maxLinks >= 2
  BY SizesAssumption
<1>3. T # {}
  <2> SUFFICES ASSUME \A k \in 0 .. n : Len(level[k]) > maxLinks
               PROVE  FALSE
    BY <1>1, <1>2
  <2>1. n \in 0 .. n /\ Len(level[n]) + n <= n
    BY LevelsShrink
  <2>2. Len(level[n]) > maxLinks /\ Len(level[n]) \in Nat
    BY <1>1
  <2> QED BY <1>2, <2>1, <2>2
<1>4. PICK k \in T : \A j \in T : k <= j
  <2>1. T \in SUBSET Nat
    OBVIOUS
  <2> HIDE DEF T
  <2> QED BY <1>3, <2>1, FirstNumber
<1>5. k \in DOMAIN level /\ IsTop(k)
  <2>1. ASSUME NEW j \in 0 .. k - 1
        PROVE  Len(level[j]) > maxLinks
    <3>1. j \in 0 .. n /\ j \notin T
      BY <1>4
    <3> QED BY <1>1, <1>2, <3>1
  <2> QED BY <1>4, <2>1 DEF AreLevels
<1>6. TopOf(level) = CHOOSE i \in DOMAIN level : IsTop(i)
  BY DEF TopOf
<1>7. PICK top \in 0 .. n : top = TopOf(level) /\ IsTop(top)
  <2> HIDE DEF IsTop
  <2>1. TopOf(level) \in DOMAIN level /\ IsTop(TopOf(level))
    BY <1>5, <1>6
  <2> QED BY <2>1 DEF AreLevels
<1>8. Sequence(level[top]) /\ Len(level[top]) > 0
  BY LevelsShrink
<1>9. level[0] = links /\ Len(links) = n
  BY DEF AreLevels
<1>10. ASSUME n = 1
       PROVE  top = 0
  <2> SUFFICES ASSUME top # 0
               PROVE  FALSE
    OBVIOUS
  <2>1. 0 \in 0 .. top - 1
    OBVIOUS
  <2>2. Len(level[0]) > maxLinks
    BY <1>7, <2>1
  <2> QED BY <1>2, <1>9, <1>10, <2>2
<1>11. ASSUME n > 1
       PROVE  Len(level[top]) > 1
  <2>1. CASE top = 0
    BY <1>9, <1>11, <2>1
  <2>2. CASE top # 0
    <3>1. PICK j \in 0 .. n - 1 : top = j + 1 /\ j \in 0 .. top - 1
      <4>1. top - 1 \in 0 .. n - 1 /\ top = (top - 1) + 1 /\ top - 1 \in 0 .. top - 1
        BY <2>2
      <4> QED BY <4>1
    <3>2. Len(level[j]) > maxLinks
      BY <1>7, <3>1
    <3>3. Sequence(level[j]) /\ level[top] = LinksAbove(level[j], secret)
      BY <3>1, LevelsShrink DEF AreLevels
    <3>4. PICK q \in Nat : Len(level[top]) = q /\ (Len(level[j]) > maxLinks => 2 <= q)
      BY <3>3, Above
    <3> QED BY <3>2, <3>4
  <2> QED BY <2>1, <2>2
<1> QED BY <1>7, <1>8, <1>10, <1>11

-----------------------------------------------------------------------------
(* The blocks of a tree, level by level, and leaves that are no nodes.     *)
Grown(L, level, k, secret) == L \union BlocksBelow(level, k, secret)

(* The blocks grow by the nodes of a level.                                *)
LEMMA GrownByLevel ==
  ASSUME NEW L, NEW level, NEW secret, NEW k \in Nat
  PROVE  /\ Grown(L, level, 0, secret) = L
         /\ Grown(L, level, k + 1, secret)
              = Grown(L, level, k, secret) \union AllBlocks(NodesAbove(level[k], secret))
<1>1. BlocksBelow(level, 0, secret) = {}
  BY DEF BlocksBelow
<1>2. 0 .. (k + 1) - 1 = (0 .. k - 1) \union {k}
  OBVIOUS
<1>3. BlocksBelow(level, k + 1, secret)
        = BlocksBelow(level, k, secret) \union AllBlocks(NodesAbove(level[k], secret))
  BY <1>2 DEF BlocksBelow
<1> QED BY <1>1, <1>3 DEF Grown

(* The links of a level lead to blobs or to nodes of the levels below.     *)
LEMMA LinksLead ==
  ASSUME NEW n \in Nat, NEW level, NEW links, NEW secret \in BOOLEAN,
         AreLevels(level, links, n, secret), \A i \in 1 .. n : links[i].type = "Blob",
         NEW L, NEW k \in 0 .. n, NEW i \in 1 .. Len(level[k])
  PROVE  level[k][i].type = "Blob" \/ level[k][i].hash \in Grown(L, level, k, secret)
<1>1. CASE k = 0
  BY <1>1 DEF AreLevels
<1>2. CASE k # 0
  <2>1. PICK j \in 0 .. n - 1 : k = j + 1 /\ j \in Nat /\ j \in 0 .. n
    <3>1. k - 1 \in 0 .. n - 1 /\ k = (k - 1) + 1
      BY <1>2
    <3> QED BY <3>1
  <2>2. PICK below : below = level[j] /\ Sequence(below)
    BY <2>1, LevelsShrink
  <2>3. level[k] = LinksAbove(below, secret)
    BY <2>1, <2>2 DEF AreLevels
  <2> DEFINE above == LinksAbove(below, secret)
  <2>4. PICK q, batches, at :
          /\ q \in Nat
          /\ Sequence(above) /\ Len(above) = q
          /\ q <= Len(below) /\ (Len(below) > maxLinks => 2 <= q /\ q < Len(below))
          /\ Len(below) > 0 => 1 <= q
          /\ CutInto(below, batches, q, maxLinks, at)
          /\ \A x \in 1 .. q : above[x] = NodeLink(Node(batches[x], secret), batches[x])
          /\ AllBlocks(NodesAbove(below, secret)) = {Node(batches[x], secret).hash : x \in 1 .. q}
    BY <2>2, Above
  <2>5. level[k][i].hash \in AllBlocks(NodesAbove(level[j], secret))
    <3>1. PICK batch : batch = batches[i] /\ i \in 1 .. q
      BY <2>3, <2>4
    <3>2. level[k][i].hash = Node(batch, secret).hash
      BY <2>3, <2>4, <3>1, NodeLinkIs
    <3> QED BY <2>2, <2>4, <3>1, <3>2
  <2>6. AllBlocks(NodesAbove(level[j], secret)) \subseteq Grown(L, level, j + 1, secret)
    <3>1. Grown(L, level, j + 1, secret)
            = Grown(L, level, j, secret) \union AllBlocks(NodesAbove(level[j], secret))
      BY <2>1, GrownByLevel
    <3> QED BY <3>1
  <2> QED BY <2>1, <2>5, <2>6
<1> QED BY <1>1, <1>2

(* A node leads where its links lead.                                      *)
LEMMA BatchLeads ==
  ASSUME NullIsApart, NEW batch, Sequence(batch), NEW secret \in BOOLEAN, NEW T,
         \A i \in 1 .. Len(batch) : batch[i].type = "Blob" \/ batch[i].hash \in T
  PROVE  LeadsInto(Node(batch, secret).hash, T, secret)
<1> DEFINE data == encodeTreeNode("File", batch)
<1>1. Opened(Node(batch, secret).hash, secret) = data
  BY PutOpened DEF Node
<1>2. NodeIn(data).links = batch /\ DOMAIN batch = 1 .. Len(batch)
  BY Decoded, SequenceIs
<1> HIDE DEF data
<1> QED BY <1>1, <1>2 DEF LeadsInto

(* The nodes of a level lead to blobs or to the nodes of the levels below. *)
LEMMA NodesLead ==
  ASSUME NullIsApart, NEW n \in Nat, NEW level, NEW links, NEW secret \in BOOLEAN,
         AreLevels(level, links, n, secret), \A i \in 1 .. n : links[i].type = "Blob",
         NEW L, NEW k \in 0 .. n, NEW h \in AllBlocks(NodesAbove(level[k], secret))
  PROVE  LeadsInto(h, Grown(L, level, k, secret), secret)
<1>1. Sequence(level[k])
  BY LevelsShrink
<1>2. PICK q, batches, at :
        /\ q \in Nat
        /\ CutInto(level[k], batches, q, maxLinks, at)
        /\ AllBlocks(NodesAbove(level[k], secret)) = {Node(batches[i], secret).hash : i \in 1 .. q}
  BY <1>1, Above
<1>3. PICK i \in 1 .. q : h = Node(batches[i], secret).hash
  BY <1>2
<1>4. PICK m \in Nat : m = Len(level[k])
  BY <1>1, SequenceIs
<1>5. /\ Sequence(batches[i]) /\ Len(batches[i]) = at[i + 1] - at[i]
      /\ at[i] \in 0 .. m /\ at[i + 1] \in 0 .. m
      /\ \A j \in 1 .. at[i + 1] - at[i] : batches[i][j] = level[k][at[i] + j]
  <2>1. CutInto(level[k], batches, q, maxLinks, at)
    BY <1>2
  <2>2. /\ Sequence(batches[i]) /\ Len(batches[i]) = at[i + 1] - at[i]
        /\ \A j \in 1 .. at[i + 1] - at[i] : batches[i][j] = level[k][at[i] + j]
    BY <1>3, <2>1 DEF CutInto
  <2>3. at \in [1 .. q + 1 -> 0 .. m]
    BY <1>4, <2>1 DEF CutInto
  <2>4. i \in 1 .. q + 1 /\ i + 1 \in 1 .. q + 1
    BY <1>2, <1>3
  <2> QED BY <2>2, <2>3, <2>4
<1>6. ASSUME NEW j \in 1 .. Len(batches[i])
      PROVE  \/ batches[i][j].type = "Blob"
             \/ batches[i][j].hash \in Grown(L, level, k, secret)
  <2>1. PICK a \in Nat, b \in Nat : a = at[i] /\ b = at[i + 1] /\ b <= m
    <3>1. m \in Nat
      BY <1>4
    <3> QED BY <1>5, <3>1
  <2>2. j \in 1 .. b - a /\ a + j \in 1 .. m
    <3>1. j \in 1 .. b - a
      BY <1>5, <1>6, <2>1
    <3>2. m \in Nat /\ a \in Nat /\ b \in Nat /\ b <= m
      BY <1>4, <2>1
    <3> QED BY <3>1, <3>2
  <2>3. at[i] + j \in 1 .. Len(level[k]) /\ batches[i][j] = level[k][at[i] + j]
    BY <1>4, <1>5, <2>1, <2>2
  <2> QED BY <2>3, LinksLead
<1> QED BY <1>3, <1>5, <1>6, BatchLeads

(* So the equations of the readers have a solution, level by level.        *)
LEMMA GrownSolved ==
  ASSUME NullIsApart, NEW kind \in Kinds, NEW n \in Nat, NEW level, NEW links,
         NEW secret \in BOOLEAN, AreLevels(level, links, n, secret),
         \A i \in 1 .. n : links[i].type = "Blob",
         NEW L, \A h \in L : NodeIn(Opened(h, secret)) = Null, NEW store, NEW k \in 0 .. n
  PROVE  /\ \A h \in Grown(L, level, k, secret) :
              LeadsInto(h, Grown(L, level, k, secret), secret)
         /\ \E f : Solves(kind, f, Grown(L, level, k, secret), store, secret)
<1> DEFINE G(i) == Grown(L, level, i, secret)
           Fact(i) == /\ \A h \in G(i) : LeadsInto(h, G(i), secret)
                      /\ \E f : Solves(kind, f, G(i), store, secret)
           S == {i \in Nat : i <= n => Fact(i)}
<1>1. Fact(0)
  <2>1. G(0) = L
    BY GrownByLevel
  <2>2. PICK f, T : T = {} /\ Solves(kind, f, T, store, secret)
    <3>1. \A f : Solves(kind, f, {}, store, secret)
      BY DEF Solves
    <3> QED BY <3>1
  <2>3. \A h \in L : LeadsInto(h, T, secret)
    BY DEF LeadsInto
  <2>4. \A h \in T : LeadsInto(h, T, secret)
    BY <2>2
  <2>5. /\ \A h \in T \union L : LeadsInto(h, T \union L, secret)
        /\ \E g : Solves(kind, g, T \union L, store, secret)
    BY <2>2, <2>3, <2>4, Extended
  <2>6. T \union L = L
    BY <2>2
  <2> HIDE DEF G
  <2> QED BY <2>1, <2>5, <2>6
<1>2. ASSUME NEW i \in Nat, Fact(i), i + 1 <= n
      PROVE  Fact(i + 1)
  <2> DEFINE U == AllBlocks(NodesAbove(level[i], secret))
  <2>1. G(i + 1) = G(i) \union U
    <3>1. Grown(L, level, i + 1, secret)
            = Grown(L, level, i, secret) \union AllBlocks(NodesAbove(level[i], secret))
      <4>1. i \in Nat
        BY <1>2
      <4> QED BY <4>1, GrownByLevel
    <3> QED BY <3>1
  <2>2. \A h \in U : LeadsInto(h, G(i), secret)
    BY <1>2, NodesLead
  <2> HIDE DEF G, U
  <2>3. PICK f : Solves(kind, f, G(i), store, secret)
    BY <1>2
  <2>4. /\ \A h \in G(i) \union U : LeadsInto(h, G(i) \union U, secret)
        /\ \E g : Solves(kind, g, G(i) \union U, store, secret)
    BY <1>2, <2>2, <2>3, Extended
  <2> QED BY <2>1, <2>4
<1> HIDE DEF Fact
<1>3. \A i \in Nat : i \in S => i + 1 \in S
  BY <1>2
<1>4. 0 \in S
  BY <1>1
<1> HIDE DEF S
<1>5. k \in S
  BY <1>3, <1>4, EveryNumber
<1> QED BY <1>5 DEF S, Fact

-----------------------------------------------------------------------------
(* What the levels of a tree hold, and what its root reads as.             *)
LEMMA LevelAboveHolds ==
  ASSUME NullIsApart, NEW kind \in Kinds, NEW links, NEW n \in Nat \ {0}, NEW cuts, NEW f,
         NEW store, NEW secret \in BOOLEAN, Hold(kind, links, n, cuts, f, store, secret),
         AllBlocks(NodesAbove(links, secret)) \subseteq store, Solves(kind, f, store, store, secret)
  PROVE  \E q, new :
           /\ q \in Nat \ {0}
           /\ Hold(kind, LinksAbove(links, secret), q, new, f, store, secret)
           /\ new[1] = cuts[1] /\ new[q + 1] = cuts[n + 1]
<1>1. Sequence(links) /\ Len(links) = n /\ Ordered(cuts, n)
  BY DEF Hold
<1> DEFINE above == LinksAbove(links, secret)
<1>2. PICK q, batches, at :
        /\ q \in Nat
        /\ Sequence(above) /\ Len(above) = q /\ 1 <= q
        /\ CutInto(links, batches, q, maxLinks, at)
        /\ \A i \in 1 .. q : above[i] = NodeLink(Node(batches[i], secret), batches[i])
        /\ AllBlocks(NodesAbove(links, secret)) = {Node(batches[i], secret).hash : i \in 1 .. q}
  BY <1>1, Above
<1> HIDE DEF above
<1>3. at \in [1 .. q + 1 -> 0 .. n] /\ at[1] = 0 /\ at[q + 1] = n
  BY <1>1, <1>2 DEF CutInto
<1>4. PICK new : new = [i \in 1 .. q + 1 |-> cuts[at[i] + 1]]
  OBVIOUS
<1>5. ASSUME NEW i \in 1 .. q
      PROVE  /\ new[i] \in Nat /\ new[i + 1] \in Nat /\ new[i] <= new[i + 1]
             /\ LinkGives(kind, above[i], new[i], new[i + 1], f, store, secret)
  <2>1. /\ at[i] \in 0 .. n /\ at[i + 1] \in 0 .. n /\ at[i + 1] - at[i] \in 1 .. maxLinks
        /\ Sequence(batches[i]) /\ Len(batches[i]) = at[i + 1] - at[i]
        /\ \A j \in 1 .. at[i + 1] - at[i] : batches[i][j] = links[at[i] + j]
    <3>1. i \in 1 .. q + 1 /\ i + 1 \in 1 .. q + 1
      BY <1>2
    <3>2. at[i] \in 0 .. n /\ at[i + 1] \in 0 .. n
      BY <1>3, <3>1
    <3>3. CutInto(links, batches, q, maxLinks, at)
      BY <1>2
    <3>4. /\ at[i + 1] - at[i] \in 1 .. maxLinks
          /\ Sequence(batches[i]) /\ Len(batches[i]) = at[i + 1] - at[i]
          /\ \A j \in 1 .. at[i + 1] - at[i] : batches[i][j] = links[at[i] + j]
      BY <3>3 DEF CutInto
    <3> QED BY <3>2, <3>4
  <2>2. PICK a \in Nat, m \in Nat \ {0} :
          a = at[i] /\ m = at[i + 1] - at[i] /\ a + m = at[i + 1] /\ a + m <= n
    <3>1. at[i] \in Nat /\ at[i + 1] - at[i] \in Nat \ {0}
      BY <2>1, SizesAssumption
    <3> QED BY <2>1, <3>1
  <2>3. PICK b : b = batches[i]
    OBVIOUS
  <2>4. Sequence(b) /\ Len(b) = m /\ \A j \in 1 .. m : b[j] = links[a + j]
    BY <2>1, <2>2, <2>3
  <2>5. PICK inner : inner = [j \in 1 .. m + 1 |-> cuts[a + j]]
    OBVIOUS
  <2>6. new[i] = inner[1] /\ new[i + 1] = inner[m + 1]
    <3>1. new[i] = cuts[a + 1] /\ new[i + 1] = cuts[(a + m) + 1]
      BY <1>2, <1>4, <2>2
    <3>2. inner[1] = cuts[a + 1] /\ inner[m + 1] = cuts[a + (m + 1)]
      BY <2>5
    <3>3. (a + m) + 1 = a + (m + 1)
      <4>1. a \in Nat /\ m \in Nat
        BY <2>2
      <4> QED BY <4>1
    <3> QED BY <3>1, <3>2, <3>3
  <2>7. Ordered(inner, m)
    <3>1. \A j \in 1 .. m + 1 : a + j \in 1 .. n + 1 /\ inner[j] = cuts[a + j]
      <4>1. a \in Nat /\ m \in Nat /\ a + m <= n
        BY <2>2
      <4>2. \A j \in 1 .. m + 1 : a + j \in 1 .. n + 1
        BY <4>1
      <4>3. \A j \in 1 .. m + 1 : inner[j] = cuts[a + j]
        BY <2>5
      <4> QED BY <4>2, <4>3
    <3>2. inner \in [1 .. m + 1 -> Nat]
      BY <1>1, <2>5, <3>1 DEF Ordered
    <3>3. ASSUME NEW j \in 1 .. m
          PROVE  inner[j] <= inner[j + 1]
      <4>1. a + j \in 1 .. n /\ a + (j + 1) = (a + j) + 1
        BY <2>2
      <4>2. cuts[a + j] <= cuts[(a + j) + 1]
        BY <1>1, <4>1 DEF Ordered
      <4>3. inner[j] = cuts[a + j] /\ inner[j + 1] = cuts[a + (j + 1)]
        BY <2>5
      <4> QED BY <4>1, <4>2, <4>3
    <3> QED BY <3>2, <3>3 DEF Ordered
  <2>8. ASSUME NEW j \in 1 .. m
        PROVE  LinkGives(kind, b[j], inner[j], inner[j + 1], f, store, secret)
    <3>1. a + j \in 1 .. n /\ a + (j + 1) = (a + j) + 1
      BY <2>2
    <3>2. LinkGives(kind, links[a + j], cuts[a + j], cuts[(a + j) + 1], f, store, secret)
      BY <3>1 DEF Hold
    <3>3. inner[j] = cuts[a + j] /\ inner[j + 1] = cuts[a + (j + 1)]
      BY <2>5
    <3> QED BY <2>4, <3>1, <3>2, <3>3
  <2>9. Hold(kind, b, m, inner, f, store, secret)
    BY <2>4, <2>7, <2>8 DEF Hold
  <2>10. PICK h : h = Node(b, secret).hash
    OBVIOUS
  <2>11. h \in store /\ f[h] = Reads(kind, f, store, secret, h)
    BY <1>2, <2>3, <2>10 DEF Solves
  <2>12. Gives(kind, f[h], inner[1], inner[m + 1])
    BY <2>9, <2>10, <2>11, NodeGives
  <2>13. above[i] = NodeLink(Node(b, secret), b)
    BY <1>2, <2>3
  <2>14. ASSUME kind # "whole"
         PROVE  inner[1] < inner[m + 1] /\ TotalSize(b) = inner[m + 1] - inner[1]
    <3>1. /\ Sizes(b, m, inner) /\ \A j \in 1 .. m : inner[j] < inner[j + 1]
      BY <2>9, <2>14, HoldSizes
    <3>2. TotalSize(b) = inner[m + 1] - inner[1]
      BY <3>1, TotalSizeIs
    <3>3. 1 \in 1 .. m /\ 2 \in 1 .. m + 1 /\ m + 1 \in 2 .. m + 1 /\ m \in Nat /\ 1 + 1 = 2
      OBVIOUS
    <3>4. inner[1] < inner[2]
      BY <3>1, <3>3
    <3>5. inner[2] \in Nat /\ inner[m + 1] \in Nat /\ inner[2] <= inner[m + 1]
      BY <2>7, <3>3, OrderedBetween
    <3>6. inner[1] \in Nat
      BY <2>7, <3>3 DEF Ordered
    <3> QED BY <3>2, <3>4, <3>5, <3>6
  <2>15. inner[1] \in Nat /\ inner[m + 1] \in Nat /\ inner[1] <= inner[m + 1]
    <3>1. m \in Nat /\ 1 \in 1 .. m + 1 /\ m + 1 \in 1 .. m + 1
      OBVIOUS
    <3> QED BY <2>7, <3>1, OrderedBetween
  <2>16. LinkGives(kind, above[i], inner[1], inner[m + 1], f, store, secret)
    <3>1. Sequence(b) /\ Node(b, secret).hash \in store
      BY <2>4, <2>10, <2>11
    <3>2. Gives(kind, f[Node(b, secret).hash], inner[1], inner[m + 1])
      BY <2>10, <2>12
    <3>3. PICK x, y : x = inner[1] /\ y = inner[m + 1]
      OBVIOUS
    <3>4. /\ Gives(kind, f[Node(b, secret).hash], x, y)
          /\ kind # "whole" => x < y /\ TotalSize(b) = y - x
      BY <2>14, <3>2, <3>3
    <3>5. LinkGives(kind, NodeLink(Node(b, secret), b), x, y, f, store, secret)
      BY <3>1, <3>4, NodeHeld
    <3> QED BY <2>13, <3>3, <3>5
  <2> QED BY <2>6, <2>15, <2>16
<1>6. Ordered(new, q)
  <2>1. ASSUME NEW i \in 1 .. q + 1
        PROVE  new[i] \in Nat
    <3>1. at[i] + 1 \in 1 .. n + 1 /\ new[i] = cuts[at[i] + 1]
      BY <1>3, <1>4
    <3> QED BY <1>1, <3>1 DEF Ordered
  <2>2. new \in [1 .. q + 1 -> Nat]
    BY <1>4, <2>1
  <2> QED BY <1>5, <2>2 DEF Ordered
<1>7. Hold(kind, above, q, new, f, store, secret)
  BY <1>2, <1>5, <1>6 DEF Hold
<1>8. new[1] = cuts[1] /\ new[q + 1] = cuts[n + 1]
  <2>1. new[1] = cuts[0 + 1] /\ new[q + 1] = cuts[n + 1]
    BY <1>2, <1>3, <1>4
  <2> QED BY <2>1
<1> QED BY <1>2, <1>7, <1>8 DEF above

(* Every level holds the bytes between the first cut and the last.         *)
LEMMA LevelsHold ==
  ASSUME NullIsApart, NEW kind \in Kinds, NEW n \in Nat \ {0}, NEW level, NEW links,
         NEW secret \in BOOLEAN, AreLevels(level, links, n, secret), NEW cuts, NEW f, NEW store,
         Hold(kind, links, n, cuts, f, store, secret), Solves(kind, f, store, store, secret),
         NEW k \in 0 .. n, BlocksBelow(level, k, secret) \subseteq store
  PROVE  \E q, new :
           /\ q \in Nat \ {0}
           /\ Hold(kind, level[k], q, new, f, store, secret)
           /\ new[1] = cuts[1] /\ new[q + 1] = cuts[n + 1]
<1> DEFINE Fact(i) == \E q, new :
                        /\ q \in Nat \ {0}
                        /\ Hold(kind, level[i], q, new, f, store, secret)
                        /\ new[1] = cuts[1] /\ new[q + 1] = cuts[n + 1]
           S == {i \in Nat : i <= k => Fact(i)}
<1>1. Fact(0)
  BY DEF AreLevels
<1>2. ASSUME NEW i \in Nat, Fact(i), i + 1 <= k
      PROVE  Fact(i + 1)
  <2>1. PICK q, new :
          /\ q \in Nat \ {0}
          /\ Hold(kind, level[i], q, new, f, store, secret)
          /\ new[1] = cuts[1] /\ new[q + 1] = cuts[n + 1]
    BY <1>2
  <2>2. i \in 0 .. k - 1 /\ i \in 0 .. n - 1
    BY <1>2
  <2>3. AllBlocks(NodesAbove(level[i], secret)) \subseteq store
    BY <2>2 DEF BlocksBelow
  <2>4. level[i + 1] = LinksAbove(level[i], secret)
    BY <2>2 DEF AreLevels
  <2>5. \E p, more :
          /\ p \in Nat \ {0}
          /\ Hold(kind, LinksAbove(level[i], secret), p, more, f, store, secret)
          /\ more[1] = new[1] /\ more[p + 1] = new[q + 1]
    BY <2>1, <2>3, LevelAboveHolds
  <2> QED BY <2>1, <2>4, <2>5
<1> HIDE DEF Fact
<1>3. \A i \in Nat : i \in S => i + 1 \in S
  BY <1>2
<1>4. 0 \in S
  BY <1>1
<1> HIDE DEF S
<1>5. k \in S
  BY <1>3, <1>4, EveryNumber
<1> QED BY <1>5 DEF S, Fact

-----------------------------------------------------------------------------
(* Between two steps: the call that runs, if any, has flushed the chunks   *)
(* and put the bytes up to end into the buffer.  A call that awaits a      *)
(* flush, which is then the only one, flushes all of the buffer; it has    *)
(* the rest of its bytes before it, an append its size still to add.       *)
Links == {FlushLink(putBlob(c, p), c) : c \in Seq(Units), p \in BOOLEAN}

Awaits(t, end) ==
  /\ tasks = {t} /\ t.chunk = buffer /\ buffer # <<>> /\ t.rest = Part(end, sent)
  /\ t.call = "append" => t.size \in Nat /\ totalSize + t.size = sent
  /\ t.call = "finalize" => end = sent /\ totalSize = sent

Written(cuts, at, end) ==
  /\ at = cuts[Len(chunks) + 1] /\ CutAt(cuts)
  /\ at <= end /\ end - at <= chunkSize /\ buffer = Part(at, end)
  /\ tasks = {} => end = sent /\ totalSize = sent /\ end - at < chunkSize
  /\ \A t \in tasks : Awaits(t, end)

WriterInv ==
  /\ isPublic \in BOOLEAN /\ sent \in Nat /\ totalSize \in Nat
  /\ chunks \in Seq(Links)
  /\ \E cuts \in [1 .. Len(chunks) + 1 -> 0 .. sent], at, end \in 0 .. sent :
       Written(cuts, at, end)

(* The first bytes of the data fill the room left in the chunk.            *)
LEMMA ProceedFills ==
  ASSUME NEW a \in Nat, NEW b \in Nat, NEW c \in Nat, a <= b, b <= c, b - a < chunkSize,
         NEW size, NEW id, NEW others, Proceed(Part(a, b), Part(b, c), size, id, others)
  PROVE  \E d \in Nat :
           /\ b <= d /\ d <= c /\ d - a <= chunkSize /\ buffer' = Part(a, d)
           /\ \/ /\ d - a = chunkSize /\ totalSize' = totalSize
                 /\ tasks' = others \union
                      {[call |-> "append", id |-> id, chunk |-> Part(a, d), alone |-> FALSE,
                        rest |-> Part(d, c), size |-> size]}
              \/ /\ d = c /\ d - a < chunkSize /\ totalSize' = totalSize + size
                 /\ tasks' = others
<1> DEFINE room == chunkSize - (b - a)
           l == Least(room, c - b)
           d == b + l
<1>1. chunkSize \in Nat
  BY SizesAssumption
<1>2. /\ room \in Nat /\ l \in Nat /\ l <= room /\ l <= c - b
      /\ d \in Nat /\ b <= d /\ d <= c
  BY <1>1 DEF Least
<1>3. (d - a = chunkSize /\ l = room) \/ (d = c /\ d - a < chunkSize)
  BY <1>1 DEF Least
<1>4. d - a <= chunkSize
  BY <1>1, <1>2
<1>5. Len(Part(a, b)) = b - a
  BY PartIsSeq
<1>6. Part(a, b) \o Slice(Part(b, c), 0, room) = Part(a, d)
  <2> HIDE DEF room
  <2>1. Slice(Part(b, c), 0, room) = Part(b, d)
    BY <1>2, SliceFirst
  <2> HIDE DEF d
  <2>2. Part(a, b) \o Part(b, d) = Part(a, d)
    BY <1>2, JoinParts
  <2> QED BY <2>1, <2>2
<1>7. Len(Part(a, d)) = d - a
  <2> HIDE DEF d
  <2> QED BY <1>2, PartIsSeq
<1>8. buffer' = Part(a, d)
  <2>1. buffer' = Part(a, b) \o Slice(Part(b, c), 0, chunkSize - Len(Part(a, b)))
    BY DEF Proceed
  <2> QED BY <1>5, <1>6, <2>1
<1> HIDE DEF l
<1>9. CASE d - a = chunkSize /\ l = room
  <2>1. /\ totalSize' = totalSize
        /\ tasks' = others \union
             {[call |-> "append", id |-> id, chunk |-> Part(a, d), alone |-> FALSE,
               rest |-> Slice(Part(b, c), room, Len(Part(b, c))), size |-> size]}
    <3> HIDE DEF d
    <3> QED BY <1>5, <1>6, <1>7, <1>9 DEF Proceed
  <2>2. Slice(Part(b, c), room, Len(Part(b, c))) = Part(d, c)
    <3>1. b + room = d
      BY <1>9
    <3> HIDE DEF room, d
    <3> QED BY <1>2, <1>9, <3>1, SliceRest
  <2> HIDE DEF d, room
  <2> QED BY <1>2, <1>4, <1>8, <1>9, <2>1, <2>2
<1>10. CASE d = c /\ d - a < chunkSize
  <2>1. totalSize' = totalSize + size /\ tasks' = others
    <3> HIDE DEF d
    <3>1. Len(Part(a, d)) # chunkSize
      BY <1>1, <1>2, <1>7, <1>10
    <3> QED BY <1>5, <1>6, <3>1 DEF Proceed
  <2> HIDE DEF d, room
  <2> QED BY <1>2, <1>4, <1>8, <1>10, <2>1
<1> QED BY <1>3, <1>9, <1>10

(* A flush of the bytes that follow the chunks adds a cut after them.      *)
LEMMA FlushCuts ==
  ASSUME chunks \in Seq(Links), isPublic \in BOOLEAN, sent \in Nat,
         NEW cuts \in [1 .. Len(chunks) + 1 -> 0 .. sent], CutAt(cuts),
         NEW at \in Nat, at = cuts[Len(chunks) + 1],
         NEW e \in 0 .. sent, e - at \in 1 .. chunkSize,
         flushChunk(Part(at, e)), isPublic' = isPublic
  PROVE  /\ chunks' \in Seq(Links)
         /\ \E new \in [1 .. Len(chunks') + 1 -> 0 .. sent] :
              e = new[Len(chunks') + 1] /\ CutAt(new)'
<1>1. PICK n \in Nat : n = Len(chunks) /\ DOMAIN chunks = 1 .. n
  BY LenProperties
<1>2. Part(at, e) \in Seq(Units)
  <2>1. e \in Nat /\ at <= e
    BY SizesAssumption
  <2> QED BY <2>1, PartIsSeq
<1> DEFINE link == FlushedLink(Part(at, e))
<1>3. link \in Links
  <2> DEFINE secret == ~isPublic
  <2>1. secret \in BOOLEAN /\ link = FlushLink(putBlob(Part(at, e), secret), Part(at, e))
    BY DEF FlushedLink
  <2> HIDE DEF link, secret
  <2> QED BY <1>2, <2>1 DEF Links
<1>4. chunks' = Append(chunks, link) /\ blocks' = blocks \union Stored(Part(at, e))
  BY DEF flushChunk
<1> HIDE DEF link
<1>5. /\ chunks' \in Seq(Links) /\ Len(chunks') = n + 1
      /\ \A i \in 1 .. n : chunks'[i] = chunks[i]
      /\ chunks'[n + 1] = link
  BY <1>1, <1>3, <1>4, AppendProperties
<1>6. DOMAIN chunks' = 1 .. n + 1
  BY <1>5, LenProperties
<1>7. PICK new \in [1 .. n + 2 -> 0 .. sent] :
        new[n + 2] = e /\ \A i \in 1 .. n + 1 : new[i] = cuts[i]
  <2> DEFINE more == [i \in 1 .. n + 2 |-> IF i = n + 2 THEN e ELSE cuts[i]]
  <2>1. \A i \in 1 .. n + 1 : cuts[i] \in 0 .. sent
    BY <1>1
  <2>2. more \in [1 .. n + 2 -> 0 .. sent]
    BY <2>1
  <2>3. more[n + 2] = e /\ \A i \in 1 .. n + 1 : more[i] = cuts[i]
    OBVIOUS
  <2> HIDE DEF more
  <2> QED BY <2>2, <2>3
<1>8. cuts[n + 1] = at /\ cuts[1] = 0
  BY <1>1 DEF CutAt
<1>9. new[1] = 0
  BY <1>1, <1>7, <1>8
<1>10. ASSUME NEW i \in 1 .. n + 1
       PROVE  /\ new[i + 1] - new[i] \in 1 .. chunkSize
              /\ chunks'[i] = FlushedLink(Part(new[i], new[i + 1]))
              /\ Stored(Part(new[i], new[i + 1])) \subseteq blocks'
  <2>1. CASE i = n + 1
    <3>1. new[i] = at /\ new[i + 1] = e
      BY <1>7, <1>8, <2>1
    <3>2. chunks'[i] = FlushedLink(Part(at, e)) /\ Stored(Part(at, e)) \subseteq blocks'
      BY <1>4, <1>5, <2>1 DEF link
    <3> QED BY <3>1, <3>2
  <2>2. CASE i \in 1 .. n
    <3>1. new[i] = cuts[i] /\ new[i + 1] = cuts[i + 1]
      BY <1>7, <2>2
    <3>2. /\ cuts[i + 1] - cuts[i] \in 1 .. chunkSize
          /\ chunks[i] = FlushedLink(Part(cuts[i], cuts[i + 1]))
          /\ Stored(Part(cuts[i], cuts[i + 1])) \subseteq blocks
      BY <1>1, <2>2 DEF CutAt
    <3> QED BY <1>4, <1>5, <2>2, <3>1, <3>2
  <2> QED BY <2>1, <2>2
<1>11. CutAt(new)'
  BY <1>6, <1>9, <1>10 DEF CutAt, FlushedLink, Stored
<1>12. new \in [1 .. Len(chunks') + 1 -> 0 .. sent] /\ e = new[Len(chunks') + 1]
  BY <1>5, <1>7
<1> QED BY <1>5, <1>11, <1>12

-----------------------------------------------------------------------------
(* The steps.                                                              *)
LEMMA CutsStay ==
  ASSUME NEW cuts, CutAt(cuts), UNCHANGED <<isPublic, chunks, blocks>>
  PROVE  CutAt(cuts)'
BY DEF CutAt, FlushedLink, Stored

(* An append that goes on with the bytes from b to c, after the chunks and *)
(* the bytes from at to b, fills the buffer up to some point, and awaits   *)
(* its flush or has ended.                                                 *)
LEMMA GoesOn ==
  ASSUME NEW at \in Nat, NEW b \in Nat, NEW c \in Nat, at <= b, b <= c, b - at < chunkSize,
         NEW cuts, CutAt(cuts)', at = cuts[Len(chunks') + 1],
         NEW size \in Nat, NEW id, totalSize \in Nat, totalSize + size = c, sent' = c,
         NEW others, others = {}, Proceed(Part(at, b), Part(b, c), size, id, others)
  PROVE  totalSize' \in Nat /\ \E end \in 0 .. sent' : Written(cuts, at, end)'
<1>1. PICK d \in Nat :
        /\ b <= d /\ d <= c /\ d - at <= chunkSize /\ buffer' = Part(at, d)
        /\ \/ /\ d - at = chunkSize /\ totalSize' = totalSize
              /\ tasks' = others \union
                   {[call |-> "append", id |-> id, chunk |-> Part(at, d), alone |-> FALSE,
                     rest |-> Part(d, c), size |-> size]}
           \/ /\ d = c /\ d - at < chunkSize /\ totalSize' = totalSize + size
              /\ tasks' = others
  BY ONLY ProceedFills, at \in Nat, b \in Nat, c \in Nat, at <= b, b <= c, b - at < chunkSize,
          Proceed(Part(at, b), Part(b, c), size, id, others)
<1>2. d \in 0 .. sent' /\ at <= d /\ totalSize' \in Nat
  BY <1>1
<1>3. CASE tasks' = {}
  <2>1. d = c /\ d - at < chunkSize /\ totalSize' = totalSize + size
    BY <1>1, <1>3
  <2>2. Written(cuts, at, d)'
    BY <1>1, <1>2, <1>3, <2>1 DEF Written
  <2> QED BY <1>2, <2>2
<1>4. CASE tasks' # {}
  <2>1. PICK t : /\ tasks' = {t} /\ t.call = "append" /\ t.chunk = Part(at, d)
                 /\ t.rest = Part(d, c) /\ t.size = size
    <3> DEFINE waits == [call |-> "append", id |-> id, chunk |-> Part(at, d), alone |-> FALSE,
                         rest |-> Part(d, c), size |-> size]
    <3>1. tasks' = {waits}
      BY <1>1, <1>4
    <3>2. /\ waits.call = "append" /\ waits.chunk = Part(at, d) /\ waits.rest = Part(d, c)
          /\ waits.size = size
      OBVIOUS
    <3> HIDE DEF waits
    <3> QED BY <3>1, <3>2
  <2>2. d - at = chunkSize /\ totalSize' = totalSize
    BY <1>1, <1>4
  <2>3. Part(at, d) # <<>>
    <3>1. Len(Part(at, d)) = d - at
      BY <1>1, <1>2, PartIsSeq
    <3>2. d - at # 0
      BY <2>2, SizesAssumption
    <3> QED BY <3>1, <3>2
  <2>4. Awaits(t, d)'
    BY <1>1, <2>1, <2>2, <2>3 DEF Awaits
  <2>5. Written(cuts, at, d)'
    BY <1>1, <1>2, <1>4, <2>1, <2>4 DEF Written
  <2> QED BY <1>2, <2>5
<1> QED BY <1>3, <1>4

LEMMA InitWritten == ChunkInit => WriterInv
<1> SUFFICES ASSUME ChunkInit
             PROVE  WriterInv
  OBVIOUS
<1>1. PICK cuts \in [1 .. 1 -> 0 .. 0] : cuts[1] = 0
  <2> DEFINE one == [i \in 1 .. 1 |-> 0]
  <2>1. one \in [1 .. 1 -> 0 .. 0] /\ one[1] = 0
    OBVIOUS
  <2> HIDE DEF one
  <2> QED BY <2>1
<1>2. /\ isPublic \in BOOLEAN /\ sent = 0 /\ totalSize = 0 /\ chunks = <<>>
      /\ Len(chunks) = 0 /\ DOMAIN chunks = {} /\ chunks \in Seq(Links)
      /\ buffer = <<>> /\ tasks = {}
  BY DEF ChunkInit
<1>3. CutAt(cuts)
  BY <1>1, <1>2 DEF CutAt
<1>4. Part(0, 0) = <<>>
  BY EmptyPart
<1>5. Written(cuts, 0, 0)
  BY <1>1, <1>2, <1>3, <1>4, SizesAssumption DEF Written
<1> QED BY <1>1, <1>2, <1>5 DEF WriterInv

(* append() of bytes, up to the flush it awaits.                           *)
LEMMA AppendBytesWritten ==
  ASSUME ~Overlapping, WriterInv, NEW n \in 1 .. MaxAppend, AppendBytes(n)
  PROVE  WriterInv'
<1>1. PICK cuts \in [1 .. Len(chunks) + 1 -> 0 .. sent], at \in 0 .. sent, end \in 0 .. sent :
        Written(cuts, at, end)
  BY DEF WriterInv
<1>2. tasks = {} /\ end = sent /\ totalSize = sent /\ end - at < chunkSize
  BY <1>1 DEF AppendBytes, MayBegin, Written
<1>3. /\ isPublic \in BOOLEAN /\ sent \in Nat /\ chunks \in Seq(Links)
      /\ UNCHANGED <<isPublic, chunks, blocks>>
  BY DEF WriterInv, AppendBytes
<1>4. PICK c \in Nat : c = sent + n /\ sent' = c /\ sent <= c
  BY <1>3 DEF AppendBytes
<1>5. Slice(Bytes(c), sent, c) = Part(sent, c)
  BY <1>3, <1>4, Appended
<1>6. Proceed(Part(at, sent), Part(sent, c), n, calls + 1, {})
  BY <1>1, <1>2, <1>4, <1>5 DEF AppendBytes, Written
<1>7. /\ at \in Nat /\ at <= sent /\ sent - at < chunkSize /\ n \in Nat
      /\ totalSize \in Nat /\ totalSize + n = c
  BY <1>2, <1>3, <1>4
<1>8. CutAt(cuts)'
  BY <1>1, <1>3, CutsStay DEF Written
<1>9. at = cuts[Len(chunks') + 1]
  BY <1>1, <1>3 DEF Written
<1>10. totalSize' \in Nat /\ \E e \in 0 .. sent' : Written(cuts, at, e)'
  BY <1>3, <1>4, <1>6, <1>7, <1>8, <1>9, GoesOn
<1>11. cuts \in [1 .. Len(chunks') + 1 -> 0 .. sent'] /\ at \in 0 .. sent'
  <2>1. 0 .. sent \subseteq 0 .. sent'
    BY <1>3, <1>4
  <2> QED BY <1>3, <2>1
<1> QED BY <1>3, <1>4, <1>10, <1>11 DEF WriterInv

(* What holds when a flush ends: the chunk was the buffer, and another cut *)
(* follows it.                                                             *)
LEMMA FlushEnds ==
  ASSUME WriterInv, NEW t \in tasks, flushChunk(t.chunk), isPublic' = isPublic, sent' = sent
  PROVE  \E end \in 0 .. sent, cuts \in [1 .. Len(chunks') + 1 -> 0 .. sent] :
           /\ end = cuts[Len(chunks') + 1] /\ CutAt(cuts)'
           /\ Awaits(t, end) /\ chunks' \in Seq(Links)
<1>1. PICK cuts \in [1 .. Len(chunks) + 1 -> 0 .. sent], at \in 0 .. sent, end \in 0 .. sent :
        Written(cuts, at, end)
  BY DEF WriterInv
<1>2. /\ Awaits(t, end) /\ CutAt(cuts) /\ at = cuts[Len(chunks) + 1]
      /\ at <= end /\ end - at <= chunkSize /\ t.chunk = Part(at, end) /\ Part(at, end) # <<>>
  BY <1>1 DEF Written, Awaits
<1>3. isPublic \in BOOLEAN /\ sent \in Nat /\ chunks \in Seq(Links)
  BY DEF WriterInv
<1>4. at \in Nat /\ end \in Nat
  BY <1>3
<1>5. at # end
  BY <1>2, <1>4, EmptyPart
<1>6. end - at \in 1 .. chunkSize
  BY <1>2, <1>4, <1>5, SizesAssumption
<1>7. flushChunk(Part(at, end))
  BY <1>2
<1>8. /\ chunks' \in Seq(Links)
      /\ \E new \in [1 .. Len(chunks') + 1 -> 0 .. sent] :
           end = new[Len(chunks') + 1] /\ CutAt(new)'
  BY <1>2, <1>3, <1>4, <1>6, <1>7, FlushCuts
<1> QED BY <1>2, <1>8

(* The flushed bytes were the last: the call ends.                         *)
LEMMA EmptiedWritten ==
  ASSUME NEW end \in 0 .. sent, sent \in Nat, sent' = sent, end = sent,
         NEW cuts \in [1 .. Len(chunks') + 1 -> 0 .. sent],
         end = cuts[Len(chunks') + 1], CutAt(cuts)', chunks' \in Seq(Links),
         isPublic' \in BOOLEAN, buffer' = <<>>, tasks' = {}, totalSize' = sent
  PROVE  WriterInv'
<1>1. end \in Nat /\ Part(end, end) = <<>>
  BY EmptyPart
<1>2. end <= end /\ end - end <= chunkSize /\ end - end < chunkSize
  BY <1>1, SizesAssumption
<1>3. Written(cuts, end, end)'
  BY <1>1, <1>2 DEF Written
<1> QED BY <1>3 DEF WriterInv

(* An append() that goes on after its flush.                               *)
LEMMA AppendFlushedWritten ==
  ASSUME WriterInv, NEW t \in tasks, AppendFlushed(t)
  PROVE  WriterInv'
<1>1. /\ flushChunk(t.chunk) /\ UNCHANGED <<isPublic, sent>> /\ t.call = "append"
      /\ isPublic \in BOOLEAN /\ sent \in Nat /\ totalSize \in Nat
  BY DEF AppendFlushed, WriterInv
<1>2. PICK end \in 0 .. sent, cuts \in [1 .. Len(chunks') + 1 -> 0 .. sent] :
        /\ end = cuts[Len(chunks') + 1] /\ CutAt(cuts)'
        /\ Awaits(t, end) /\ chunks' \in Seq(Links)
  BY <1>1, FlushEnds
<1>3. /\ tasks \ {t} = {} /\ t.rest = Part(end, sent) /\ t.size \in Nat
      /\ totalSize + t.size = sent
  BY <1>1, <1>2 DEF Awaits
<1>4. end \in Nat /\ end <= sent
  BY <1>1
<1>5. CASE t.rest = <<>>
  <2>1. end = sent
    <3>1. Len(Part(end, sent)) = sent - end
      BY <1>1, <1>4, PartIsSeq
    <3>2. Len(Part(end, sent)) = 0
      BY <1>3, <1>5
    <3> QED BY <1>1, <1>4, <3>1, <3>2
  <2>2. buffer' = <<>> /\ tasks' = {} /\ totalSize' = sent
    BY <1>3, <1>5 DEF AppendFlushed
  <2> QED BY <1>1, <1>2, <2>1, <2>2, EmptiedWritten
<1>6. CASE t.rest # <<>>
  <2>1. Part(end, end) = <<>>
    BY <1>4, EmptyPart
  <2>2. Proceed(Part(end, end), Part(end, sent), t.size, t.id, {})
    BY <1>3, <1>6, <2>1 DEF AppendFlushed
  <2>3. end - end < chunkSize /\ end <= end
    BY <1>4, SizesAssumption
  <2>4. totalSize' \in Nat /\ \E e \in 0 .. sent' : Written(cuts, end, e)'
    BY <1>1, <1>2, <1>3, <1>4, <2>2, <2>3, GoesOn
  <2> QED BY <1>1, <1>2, <2>4 DEF WriterInv
<1> QED BY <1>5, <1>6

(* finalize() up to its flush.                                             *)
LEMMA BeginFinalizeWritten ==
  ASSUME ~Overlapping, WriterInv, BeginFinalize
  PROVE  WriterInv'
<1>1. PICK cuts \in [1 .. Len(chunks) + 1 -> 0 .. sent], at \in 0 .. sent, end \in 0 .. sent :
        Written(cuts, at, end)
  BY DEF WriterInv
<1>2. /\ UNCHANGED <<isPublic, buffer, chunks, totalSize, blocks, sent>>
      /\ isPublic \in BOOLEAN /\ sent \in Nat /\ totalSize \in Nat /\ chunks \in Seq(Links)
  BY DEF BeginFinalize, writerVars, WriterInv
<1>3. tasks = {} /\ end = sent /\ totalSize = sent /\ end - at < chunkSize
  BY <1>1 DEF BeginFinalize, MayBegin, Written
<1>4. CutAt(cuts)'
  BY <1>1, <1>2, CutsStay DEF Written
<1>5. CASE buffer = <<>>
  <2>1. tasks' = {}
    BY <1>3, <1>5 DEF BeginFinalize
  <2>2. Written(cuts, at, end)'
    BY <1>1, <1>2, <1>3, <1>4, <2>1 DEF Written
  <2> QED BY <1>2, <2>2 DEF WriterInv
<1>6. CASE buffer # <<>>
  <2>1. PICK t : tasks' = {t} /\ t.call = "finalize" /\ t.chunk = buffer /\ t.rest = <<>>
    <3> DEFINE waits == [call |-> "finalize", id |-> calls + 1, chunk |-> buffer,
                         alone |-> tasks = {}, rest |-> <<>>, size |-> 0]
    <3>1. tasks' = {waits}
      BY <1>3, <1>6 DEF BeginFinalize
    <3>2. waits.call = "finalize" /\ waits.chunk = buffer /\ waits.rest = <<>>
      OBVIOUS
    <3> HIDE DEF waits
    <3> QED BY <3>1, <3>2
  <2>2. Awaits(t, end)'
    <3>1. Part(end, sent) = <<>>
      BY <1>2, <1>3, EmptyPart
    <3> QED BY <1>2, <1>3, <1>6, <2>1, <3>1 DEF Awaits
  <2>3. Written(cuts, at, end)'
    BY <1>1, <1>2, <1>4, <2>1, <2>2 DEF Written
  <2> QED BY <1>2, <2>3 DEF WriterInv
<1> QED BY <1>5, <1>6

(* And after it.                                                           *)
LEMMA FinalFlushedWritten ==
  ASSUME WriterInv, NEW t \in tasks, FinalFlushed(t)
  PROVE  WriterInv'
<1>1. /\ flushChunk(t.chunk) /\ UNCHANGED <<isPublic, totalSize, sent>> /\ t.call = "finalize"
      /\ isPublic \in BOOLEAN /\ sent \in Nat
      /\ buffer' = <<>> /\ tasks' = tasks \ {t}
  BY DEF FinalFlushed, WriterInv
<1>2. PICK end \in 0 .. sent, cuts \in [1 .. Len(chunks') + 1 -> 0 .. sent] :
        /\ end = cuts[Len(chunks') + 1] /\ CutAt(cuts)'
        /\ Awaits(t, end) /\ chunks' \in Seq(Links)
  BY <1>1, FlushEnds
<1>3. tasks' = {} /\ end = sent /\ totalSize' = sent
  BY <1>1, <1>2 DEF Awaits
<1> QED BY <1>1, <1>2, <1>3, EmptiedWritten

LEMMA StutterWritten == WriterInv /\ UNCHANGED chunkVars => WriterInv'
<1> SUFFICES ASSUME WriterInv, UNCHANGED chunkVars
             PROVE  WriterInv'
  OBVIOUS
<1>1. PICK cuts \in [1 .. Len(chunks) + 1 -> 0 .. sent], at \in 0 .. sent, end \in 0 .. sent :
        Written(cuts, at, end)
  BY DEF WriterInv
<1>2. UNCHANGED <<isPublic, buffer, chunks, totalSize, blocks, sent, tasks>>
  BY DEF chunkVars, writerVars
<1>3. CutAt(cuts)'
  BY <1>1, <1>2, CutsStay DEF Written
<1>4. \A t \in tasks : Awaits(t, end) => Awaits(t, end)'
  BY <1>2 DEF Awaits
<1>5. Written(cuts, at, end)'
  BY <1>1, <1>2, <1>3, <1>4 DEF Written
<1> QED BY <1>2, <1>5 DEF WriterInv

(* What the invariant says of the bytes.                                   *)
LEMMA WrittenInOrder == WriterInv => BytesInOrder
<1> SUFFICES ASSUME WriterInv
             PROVE  BytesInOrder
  OBVIOUS
<1>1. PICK cuts \in [1 .. Len(chunks) + 1 -> 0 .. sent], at \in 0 .. sent, end \in 0 .. sent :
        Written(cuts, at, end)
  BY DEF WriterInv
<1>2. sent \in Nat /\ at \in Nat /\ end \in Nat /\ at <= end /\ end <= sent
  BY <1>1 DEF WriterInv, Written
<1>3. Len(buffer) = end - at
  <2>1. Len(Part(at, end)) = end - at
    BY <1>2, PartIsSeq
  <2> QED BY <1>1, <2>1 DEF Written
<1>4. at + Len(buffer) = end
  BY <1>2, <1>3
<1>5. ChunksAndBuffer(cuts)
  BY <1>1, <1>2, <1>4 DEF Written, ChunksAndBuffer
<1> QED BY <1>5 DEF BytesInOrder

(* When the calls of append() and finalize() follow one another, every     *)
(* byte appended is in the chunks or in the buffer, once and in order; the *)
(* chunks are stored, none is empty or larger than a chunk may be, and     *)
(* their links open them and have their lengths; between calls totalSize   *)
(* is their sum.                                                           *)
THEOREM BytesWrittenInOrder ==
  ASSUME ~Overlapping
  PROVE  ChunkSpec => []BytesInOrder
<1>1. ChunkInit => WriterInv
  BY InitWritten
<1>2. WriterInv /\ [ChunkNext]_chunkVars => WriterInv'
  <2> SUFFICES ASSUME WriterInv, [ChunkNext]_chunkVars
               PROVE  WriterInv'
    OBVIOUS
  <2>1. ASSUME NEW n \in 1 .. MaxAppend, AppendBytes(n)
        PROVE  WriterInv'
    BY <2>1, AppendBytesWritten
  <2>2. ASSUME NEW t \in tasks, AppendFlushed(t)
        PROVE  WriterInv'
    BY <2>2, AppendFlushedWritten
  <2>3. ASSUME NEW t \in tasks, FinalFlushed(t)
        PROVE  WriterInv'
    BY <2>3, FinalFlushedWritten
  <2>4. ASSUME BeginFinalize
        PROVE  WriterInv'
    BY <2>4, BeginFinalizeWritten
  <2>5. ASSUME UNCHANGED chunkVars
        PROVE  WriterInv'
    BY <2>5, StutterWritten
  <2> QED BY <2>1, <2>2, <2>3, <2>4, <2>5 DEF ChunkNext
<1>3. WriterInv => BytesInOrder
  BY WrittenInOrder
<1> QED BY <1>1, <1>2, <1>3, PTL DEF ChunkSpec

-----------------------------------------------------------------------------
(* What is stored of bytes, and the link to a part of them: sized if the   *)
(* link has the size of the part, and there is something in it.            *)
ByteBlocks(secret) == {putBlob(c, secret).hash : c \in Seq(Units)}

PartLink(link, a, b, secret, sized) ==
  /\ link.type = "Blob"
  /\ link.hash = putBlob(Part(a, b), secret).hash /\ link.key = putBlob(Part(a, b), secret).key
  /\ sized => a < b /\ link.size = b - a

Leaves(links, n, cuts, stored, secret, sized) ==
  /\ Sequence(links) /\ Len(links) = n /\ Ordered(cuts, n) /\ cuts[1] = 0
  /\ \A i \in 1 .. n :
       PartLink(links[i], cuts[i], cuts[i + 1], secret, sized) /\ links[i].hash \in stored

(* What a part of the bytes is stored as, which is no node.                *)
LEMMA PartStored ==
  ASSUME NEW a \in Nat, NEW b \in Nat, a <= b, NEW secret \in BOOLEAN
  PROVE  putBlob(Part(a, b), secret).hash \in ByteBlocks(secret)
<1>1. Part(a, b) \in Seq(Units)
  BY PartIsSeq
<1> QED BY <1>1 DEF ByteBlocks

(* A stored chunk is not taken for a node.                                 *)
LEMMA ByteBlocksAreNoNodes ==
  ASSUME NEW secret \in BOOLEAN, NEW h \in ByteBlocks(secret)
  PROVE  NodeIn(Opened(h, secret)) = Null
<1>1. PICK c \in Seq(Units) : h = putBlob(c, secret).hash
  BY DEF ByteBlocks
<1>2. Opened(h, secret) = c
  BY <1>1, PutOpened
<1> QED BY <1>2, BytesAreNoNode

(* Slices of a part are parts.                                             *)
LEMMA SlicesOfPart ==
  ASSUME NEW a \in Nat, NEW b \in Nat, a <= b
  PROVE  /\ Len(Part(a, b)) = b - a
         /\ \A from \in 0 .. b - a : Slice(Part(a, b), from, Len(Part(a, b))) = Part(a + from, b)
         /\ \A from \in 0 .. b - a, to \in Nat : from <= to =>
              Slice(Part(a, b), from, to) = Part(a + from, a + Least(to, b - a))
<1>1. Len(Part(a, b)) = b - a
  BY PartIsSeq
<1>2. ASSUME NEW from \in 0 .. b - a, NEW to \in Nat, from <= to
      PROVE  Slice(Part(a, b), from, to) = Part(a + from, a + Least(to, b - a))
  <2>1. from \in Nat /\ from <= b - a
    OBVIOUS
  <2> QED BY <1>2, <2>1, SlicePart
<1>3. ASSUME NEW from \in 0 .. b - a
      PROVE  Slice(Part(a, b), from, Len(Part(a, b))) = Part(a + from, b)
  <2>1. PICK to \in Nat : to = b - a /\ from <= to
    OBVIOUS
  <2>2. Slice(Part(a, b), from, to) = Part(a + from, a + Least(to, b - a))
    BY <1>2, <2>1
  <2>3. a + Least(to, b - a) = b
    BY <2>1 DEF Least
  <2> QED BY <1>1, <2>1, <2>2, <2>3
<1> QED BY <1>1, <1>2, <1>3

(* So a link to a stored part gives it, and parts of it.                   *)
LEMMA LeafGives ==
  ASSUME NullIsApart, NEW kind \in Kinds, NEW a \in Nat, NEW b \in Nat, a <= b, NEW link, NEW f,
         NEW store, NEW secret \in BOOLEAN, NEW sized, PartLink(link, a, b, secret, sized),
         link.hash \in store, kind # "whole" => sized = TRUE
  PROVE  LinkGives(kind, link, a, b, f, store, secret)
<1>1. PICK part : part = Part(a, b)
  OBVIOUS
<1>2. /\ link.type = "Blob" /\ link.hash = putBlob(part, secret).hash
      /\ link.key = putBlob(part, secret).key /\ link.hash \in store
      /\ sized => a < b /\ link.size = b - a
  BY <1>1 DEF PartLink
<1>3. Fetched(store, link.hash, link.key, secret) = part
  BY <1>2, PutFetched
<1>4. part # Null
  <2>1. Part(a, b) \in Seq(Units)
    BY PartIsSeq
  <2> QED BY <1>1, <2>1 DEF NullIsApart, Sequence
<1>5. /\ Held(store, f, link, secret) = part
      /\ \A from : HeldFrom(store, f, link, from, secret) = Slice(part, from, Len(part))
      /\ \A from, to : HeldRange(store, f, link, from, to, secret) = Slice(part, from, to)
      /\ Passed(store, link, secret) = Len(part)
  BY <1>2, <1>3, <1>4 DEF Held, HeldFrom, HeldRange, Passed
<1>6. /\ Len(part) = b - a
      /\ \A from \in 0 .. b - a : Slice(part, from, Len(part)) = Part(a + from, b)
      /\ \A from \in 0 .. b - a, to \in Nat : from <= to =>
           Slice(part, from, to) = Part(a + from, a + Least(to, b - a))
  <2>1. /\ Len(Part(a, b)) = b - a
        /\ \A from \in 0 .. b - a : Slice(Part(a, b), from, Len(Part(a, b))) = Part(a + from, b)
        /\ \A from \in 0 .. b - a, to \in Nat : from <= to =>
             Slice(Part(a, b), from, to) = Part(a + from, a + Least(to, b - a))
    BY SlicesOfPart
  <2> QED BY <1>1, <2>1
<1> QED BY <1>1, <1>2, <1>5, <1>6 DEF LinkGives

(* A tree above leaves that are among its own blocks or in stored.         *)
TreeAbove(f, n, links, cuts, own, level, stored, secret, sized) ==
  /\ Leaves(links, n, cuts, stored \union own, secret, sized)
  /\ own \subseteq ByteBlocks(secret) /\ AreLevels(level, links, n, secret)
  /\ f.hash = Node(level[TopOf(level)], secret).hash
  /\ f.key = Node(level[TopOf(level)], secret).key
  /\ f.blocks = own \union BlocksBelow(level, TopOf(level), secret) \union {f.hash}

IsTree(f, total, stored, secret, sized) ==
  \E n, links, cuts, own, level :
    /\ n \in Nat \ {0}
    /\ TreeAbove(f, n, links, cuts, own, level, stored, secret, sized) /\ cuts[n + 1] = total

(* It gives the bytes of the leaves, and parts of them if they are sized.  *)
AreChunks(stored, secret) == stored \subseteq ByteBlocks(secret)
MayRead(kind, sized) == kind \in Kinds /\ (kind # "whole" => sized = TRUE)
ReadsAs(kind, f, total, stored, secret) ==
  \E g : Reader(kind, g, stored \union f.blocks, secret) /\ Gives(kind, g[f.hash], 0, total)

LEMMA TreeGives ==
  ASSUME NullIsApart, NEW kind, NEW sized, MayRead(kind, sized),
         NEW f, NEW total, NEW secret \in BOOLEAN, NEW stored, AreChunks(stored, secret),
         IsTree(f, total, stored, secret, sized)
  PROVE  ReadsAs(kind, f, total, stored, secret)
<1> SUFFICES ASSUME NEW n \in Nat \ {0}, NEW links, NEW cuts, NEW own, NEW level,
                    TreeAbove(f, n, links, cuts, own, level, stored, secret, sized)
             PROVE  ReadsAs(kind, f, cuts[n + 1], stored, secret)
  BY DEF IsTree
<1>0. kind \in Kinds /\ (kind # "whole" => sized = TRUE)
  BY DEF MayRead
<1>1. PICK top, root : top = TopOf(level) /\ root = Node(level[top], secret)
  OBVIOUS
<1>2. f.hash = root.hash /\ AreLevels(level, links, n, secret)
  BY <1>1 DEF TreeAbove
<1>3. PICK L : L = stored \union own
  OBVIOUS
<1>4. L \subseteq ByteBlocks(secret) /\ Leaves(links, n, cuts, L, secret, sized)
  BY <1>3 DEF TreeAbove, AreChunks
<1>5. PICK store : store = stored \union f.blocks
  OBVIOUS
<1>6. store = L \union BlocksBelow(level, top, secret) \union {root.hash}
  BY <1>1, <1>3, <1>5 DEF TreeAbove
<1>7. top \in 0 .. n /\ Sequence(level[top])
  BY <1>1, <1>2, Top
<1>8. \A i \in 1 .. n : links[i].type = "Blob"
  BY <1>4 DEF Leaves, PartLink
<1>9. \A h \in L : NodeIn(Opened(h, secret)) = Null
  BY <1>4, ByteBlocksAreNoNodes
<1> DEFINE grown == Grown(L, level, top, secret)
<1>10. /\ \A h \in grown : LeadsInto(h, grown, secret)
      /\ \E found : Solves(kind, found, grown, store, secret)
  BY <1>0, <1>7, <1>8, <1>9, <1>2, GrownSolved
<1>11. store = grown \union {root.hash}
  BY <1>6 DEF Grown
<1>12. \A i \in 1 .. Len(level[top]) :
        level[top][i].type = "Blob" \/ level[top][i].hash \in grown
  BY <1>7, <1>8, <1>2, LinksLead
<1> HIDE DEF grown
<1>13. LeadsInto(root.hash, grown, secret)
  BY <1>7, <1>12, <1>1, BatchLeads
<1>14. PICK found : Solves(kind, found, grown, store, secret)
  BY <1>10
<1>15. /\ \A h \in store : LeadsInto(h, store, secret)
      /\ \E g : Solves(kind, g, store, store, secret)
  <2>1. \A h \in {root.hash} : LeadsInto(h, grown, secret)
    BY <1>13
  <2>2. /\ \A h \in grown \union {root.hash} : LeadsInto(h, grown \union {root.hash}, secret)
        /\ \E g : Solves(kind, g, grown \union {root.hash}, store, secret)
    BY <1>0, <1>10, <1>14, <2>1, Extended
  <2> QED BY <1>11, <2>2
<1>16. PICK g : Reader(kind, g, store, secret)
  BY <1>0, <1>15, ReaderSolves
<1>17. Solves(kind, g, store, store, secret)
  BY <1>16 DEF Reader
<1>18. Hold(kind, links, n, cuts, g, store, secret)
  <2>1. ASSUME NEW i \in 1 .. n
        PROVE  LinkGives(kind, links[i], cuts[i], cuts[i + 1], g, store, secret)
    <3>1. PICK a \in Nat, b \in Nat : a = cuts[i] /\ b = cuts[i + 1] /\ a <= b
      <4>1. Ordered(cuts, n)
        BY <1>4 DEF Leaves
      <4>2. i \in 1 .. n + 1 /\ i + 1 \in 1 .. n + 1
        OBVIOUS
      <4> QED BY <4>1, <4>2 DEF Ordered
    <3>2. PICK link : link = links[i]
      OBVIOUS
    <3>3. PartLink(link, a, b, secret, sized) /\ link.hash \in store
      BY <1>4, <1>6, <3>1, <3>2 DEF Leaves
    <3>4. LinkGives(kind, link, a, b, g, store, secret)
      BY <1>0, <3>1, <3>3, LeafGives
    <3> QED BY <3>1, <3>2, <3>4
  <2> QED BY <1>4, <2>1 DEF Hold, Leaves
<1>19. BlocksBelow(level, top, secret) \subseteq store
  BY <1>6
<1>20. PICK q, new :
         /\ q \in Nat \ {0}
         /\ Hold(kind, level[top], q, new, g, store, secret)
         /\ new[1] = cuts[1] /\ new[q + 1] = cuts[n + 1]
  BY <1>0, <1>7, <1>2, <1>17, <1>18, <1>19, LevelsHold
<1>21. Gives(kind, g[root.hash], 0, cuts[n + 1])
  <2>1. PICK h, links0 : links0 = level[top] /\ h = Node(links0, secret).hash /\ h = root.hash
    BY <1>1
  <2>2. g[h] = Reads(kind, g, store, secret, h)
    BY <1>6, <1>17, <2>1 DEF Solves
  <2>3. Hold(kind, links0, q, new, g, store, secret)
    BY <1>20, <2>1
  <2>4. Gives(kind, g[h], new[1], new[q + 1])
    BY <1>0, <1>20, <2>1, <2>2, <2>3, NodeGives
  <2>5. cuts[1] = 0
    BY <1>4 DEF Leaves
  <2> QED BY <1>20, <2>1, <2>4, <2>5
<1> QED BY <1>2, <1>5, <1>16, <1>21 DEF ReadsAs

(* Its root is a node that is stored, with a key only if it is encrypted.  *)
LEMMA TreeFetched ==
  ASSUME NullIsApart, NEW f, NEW n \in Nat \ {0}, NEW links, NEW cuts, NEW own, NEW level,
         NEW secret \in BOOLEAN, NEW sized, NEW stored,
         TreeAbove(f, n, links, cuts, own, level, stored, secret, sized)
  PROVE  /\ Fetched(stored \union f.blocks, f.hash, f.key, secret) # Null
         /\ NodeIn(Fetched(stored \union f.blocks, f.hash, f.key, secret)) # Null
         /\ f.key = Null <=> ~secret
<1>1. PICK top, store : top = TopOf(level) /\ store = stored \union f.blocks
  OBVIOUS
<1>2. PICK data : data = encodeTreeNode("File", level[top])
  OBVIOUS
<1>3. /\ f.hash = putBlob(data, secret).hash /\ f.key = putBlob(data, secret).key
      /\ f.hash \in store /\ AreLevels(level, links, n, secret)
  BY <1>1, <1>2 DEF TreeAbove, Node
<1>4. data # Null /\ NodeIn(data) # Null
  <2>1. Sequence(level[top])
    BY <1>1, <1>3, Top
  <2> QED BY <1>2, <2>1, Decoded
<1>5. Fetched(store, f.hash, f.key, secret) = data
  BY <1>3, PutFetched
<1>6. f.key = Null <=> ~secret
  BY <1>3, <1>4, PutKeys
<1> QED BY <1>1, <1>4, <1>5, <1>6

-----------------------------------------------------------------------------
(* A root of the first bytes, as many as total, whose chunks are in stored *)
(* or among its own blocks: a block of bytes, or a tree above such blocks. *)
IsBlob(f, total, stored, secret) ==
  /\ f.hash = putBlob(Part(0, total), secret).hash
  /\ f.key = putBlob(Part(0, total), secret).key
  /\ f.hash \in stored \union f.blocks /\ f.blocks \subseteq ByteBlocks(secret)

IsRoot(f, total, stored, secret, sized) ==
  IsBlob(f, total, stored, secret) \/ IsTree(f, total, stored, secret, sized)

(* What a block of bytes is read as.                                       *)
LEMMA BlobFetched ==
  ASSUME NullIsApart, NEW total \in Nat, NEW secret \in BOOLEAN, NEW f, NEW stored,
         IsBlob(f, total, stored, secret)
  PROVE  /\ Fetched(stored \union f.blocks, f.hash, f.key, secret) = Part(0, total)
         /\ Part(0, total) # Null /\ NodeIn(Part(0, total)) = Null
         /\ f.key = Null <=> ~secret
<1>1. PICK data, store : data = Part(0, total) /\ store = stored \union f.blocks
  OBVIOUS
<1>2. /\ f.hash = putBlob(data, secret).hash /\ f.key = putBlob(data, secret).key
      /\ f.hash \in store
  BY <1>1 DEF IsBlob
<1>3. Fetched(store, f.hash, f.key, secret) = data
  BY <1>2, PutFetched
<1>4. data \in Seq(Units)
  BY <1>1, PartIsSeq
<1>5. NodeIn(data) = Null
  BY <1>4, BytesAreNoNode
<1>6. data # Null
  BY <1>4 DEF NullIsApart, Sequence
<1>7. f.key = Null <=> ~secret
  BY <1>2, <1>6, PutKeys
<1> QED BY <1>1, <1>3, <1>5, <1>6, <1>7

(* A root reads as the bytes, and has no key only if it is plain.          *)
LEMMA RootReads ==
  ASSUME NullIsApart, NEW total \in Nat, NEW secret \in BOOLEAN, NEW f, NEW sized,
         NEW stored, stored \subseteq ByteBlocks(secret), IsRoot(f, total, stored, secret, sized)
  PROVE  /\ WholeFile(stored \union f.blocks, f.hash, f.key, secret) = Part(0, total)
         /\ f.key = Null <=> ~secret
<1>0. AreChunks(stored, secret)
  BY DEF AreChunks
<1>1. PICK store : store = stored \union f.blocks
  OBVIOUS
<1>2. CASE IsBlob(f, total, stored, secret)
  <2>1. /\ Fetched(store, f.hash, f.key, secret) = Part(0, total)
        /\ NodeIn(Part(0, total)) = Null /\ (f.key = Null <=> ~secret)
    BY <1>1, <1>2, BlobFetched
  <2> QED BY <1>1, <2>1 DEF WholeFile
<1>3. CASE IsTree(f, total, stored, secret, sized)
  <2>1. PICK n, links, cuts, own, level :
          /\ n \in Nat \ {0}
          /\ TreeAbove(f, n, links, cuts, own, level, stored, secret, sized) /\ cuts[n + 1] = total
    BY <1>3 DEF IsTree
  <2>2. PICK kind : kind = "whole" /\ kind \in Kinds
    BY DEF Kinds
  <2>3. ReadsAs(kind, f, total, stored, secret)
    <3>1. MayRead(kind, sized)
      BY <2>2 DEF MayRead
    <3> QED BY <1>0, <1>3, <3>1, TreeGives
  <2>6. PICK g : Reader(kind, g, store, secret) /\ Gives(kind, g[f.hash], 0, total)
    BY <1>1, <2>3 DEF ReadsAs
  <2>4. assembleChunks(store, f.hash, secret) = Part(0, total)
    BY <2>2, <2>6 DEF Reader, Gives
  <2>5. /\ NodeIn(Fetched(store, f.hash, f.key, secret)) # Null
        /\ f.key = Null <=> ~secret
    BY <1>1, <2>1, TreeFetched
  <2> QED BY <1>1, <2>4, <2>5 DEF WholeFile
<1> QED BY <1>2, <1>3 DEF IsRoot

(* And parts of it, from an offset on or in a range, as those of the       *)
(* bytes, if its links are sized.                                          *)
Seeks(store, f, total, secret) ==
  /\ \A from \in 0 .. total : FileFrom(store, f.hash, f.key, from, secret) = Part(from, total)
  /\ \A from \in 0 .. total, to \in Nat : from <= to =>
       FileRange(store, f.hash, f.key, from, to, secret) = Part(from, Least(to, total))

(* The same of offsets and ranges, where the links have their sizes.       *)
LEMMA RootSeeks ==
  ASSUME NullIsApart, NEW total \in Nat, NEW secret \in BOOLEAN, NEW f, NEW sized,
         sized = TRUE, NEW stored, stored \subseteq ByteBlocks(secret),
         IsRoot(f, total, stored, secret, sized)
  PROVE  Seeks(stored \union f.blocks, f, total, secret)
<1>0. AreChunks(stored, secret)
  BY DEF AreChunks
<1>1. PICK store : store = stored \union f.blocks
  OBVIOUS
<1>2. /\ total - 0 = total /\ 0 \in Nat /\ 0 <= total
      /\ \A from \in 0 .. total : 0 + from = from
      /\ \A to \in Nat : 0 + Least(to, total) = Least(to, total)
  BY DEF Least
<1>3. CASE IsBlob(f, total, stored, secret)
  <2>1. PICK part : part = Part(0, total)
    OBVIOUS
  <2>2. /\ Fetched(store, f.hash, f.key, secret) = part /\ part # Null
        /\ NodeIn(part) = Null
    BY <1>1, <1>3, <2>1, BlobFetched
  <2>3. PICK zero \in Nat : zero = 0
    OBVIOUS
  <2>4. zero <= total /\ part = Part(zero, total)
    BY <2>1, <2>3
  <2>5. /\ \A from \in 0 .. total - zero :
             Slice(Part(zero, total), from, Len(Part(zero, total))) = Part(zero + from, total)
        /\ \A from \in 0 .. total - zero, to \in Nat : from <= to =>
             Slice(Part(zero, total), from, to) = Part(zero + from, zero + Least(to, total - zero))
    BY <2>4, SlicesOfPart
  <2>6. /\ \A from \in 0 .. total : Slice(part, from, Len(part)) = Part(from, total)
        /\ \A from \in 0 .. total, to \in Nat : from <= to =>
             Slice(part, from, to) = Part(from, Least(to, total))
    BY <1>2, <2>3, <2>4, <2>5
  <2> QED BY <1>1, <2>2, <2>6 DEF FileFrom, FileRange, Seeks
<1>4. CASE IsTree(f, total, stored, secret, sized)
  <2>1. PICK n, links, cuts, own, level :
          /\ n \in Nat \ {0}
          /\ TreeAbove(f, n, links, cuts, own, level, stored, secret, sized) /\ cuts[n + 1] = total
    BY <1>4 DEF IsTree
  <2>2. /\ Fetched(store, f.hash, f.key, secret) # Null
        /\ NodeIn(Fetched(store, f.hash, f.key, secret)) # Null
    BY <1>1, <2>1, TreeFetched
  <2>3. ASSUME NEW from \in 0 .. total
        PROVE  FileFrom(store, f.hash, f.key, from, secret) = Part(from, total)
    <3>1. PICK kind : kind = "from" /\ kind \in Kinds
      BY DEF Kinds
    <3>2. ReadsAs(kind, f, total, stored, secret)
      <4>1. MayRead(kind, sized)
        BY <3>1 DEF MayRead
      <4> QED BY <1>0, <1>4, <4>1, TreeGives
    <3>5. PICK g : Reader(kind, g, store, secret) /\ Gives(kind, g[f.hash], 0, total)
      BY <1>1, <3>2 DEF ReadsAs
    <3>3. streamChunksWithOffset(store, f.hash, from, secret) = g[f.hash][from]
      BY <3>1, <3>5 DEF Reader
    <3>4. g[f.hash][from] = Part(from, total)
      BY <1>2, <3>1, <3>5 DEF Gives
    <3> QED BY <2>2, <3>3, <3>4 DEF FileFrom
  <2>4. ASSUME NEW from \in 0 .. total, NEW to \in Nat, from <= to
        PROVE  FileRange(store, f.hash, f.key, from, to, secret) = Part(from, Least(to, total))
    <3>1. PICK kind : kind = "range" /\ kind \in Kinds
      BY DEF Kinds
    <3>2. ReadsAs(kind, f, total, stored, secret)
      <4>1. MayRead(kind, sized)
        BY <3>1 DEF MayRead
      <4> QED BY <1>0, <1>4, <4>1, TreeGives
    <3>5. PICK g : Reader(kind, g, store, secret) /\ Gives(kind, g[f.hash], 0, total)
      BY <1>1, <3>2 DEF ReadsAs
    <3>3. readRangeFromNode(store, f.hash, from, to, secret) = g[f.hash][from][to]
      BY <3>1, <3>5 DEF Reader
    <3>4. g[f.hash][from][to] = Part(from, Least(to, total))
      BY <1>2, <2>4, <3>1, <3>5 DEF Gives
    <3> QED BY <2>2, <3>3, <3>4 DEF FileRange
  <2> QED BY <1>1, <2>3, <2>4 DEF Seeks
<1> QED BY <1>3, <1>4 DEF IsRoot

(* More chunks in the store leave it a root.                               *)
LEMMA RootStays ==
  ASSUME NEW f, NEW total, NEW secret, NEW sized, NEW stored, NEW more,
         stored \subseteq more, IsRoot(f, total, stored, secret, sized)
  PROVE  IsRoot(f, total, more, secret, sized)
<1>1. ASSUME IsTree(f, total, stored, secret, sized)
      PROVE  IsTree(f, total, more, secret, sized)
  <2>1. PICK n, links, cuts, own, level :
          /\ n \in Nat \ {0}
          /\ TreeAbove(f, n, links, cuts, own, level, stored, secret, sized) /\ cuts[n + 1] = total
    BY <1>1 DEF IsTree
  <2>2. Leaves(links, n, cuts, more \union own, secret, sized)
    BY <2>1 DEF Leaves, TreeAbove
  <2>3. TreeAbove(f, n, links, cuts, own, level, more, secret, sized)
    BY <2>1, <2>2 DEF TreeAbove
  <2> QED BY <2>1, <2>3 DEF IsTree
<1>2. IsBlob(f, total, stored, secret) => IsBlob(f, total, more, secret)
  BY DEF IsBlob
<1> QED BY <1>1, <1>2 DEF IsRoot

(* What is put has a hash, a key and blocks, also with more blocks.        *)
IsPut(put) == put = [hash |-> put.hash, key |-> put.key, blocks |-> put.blocks]

(* buildTree adds the blocks of the levels below, putFile the chunks.      *)
LEMMA MoreBlocks ==
  ASSUME NEW put, IsPut(put), NEW more
  PROVE  LET all == [put EXCEPT !.blocks = @ \union more]
         IN /\ IsPut(all) /\ all.hash = put.hash /\ all.key = put.key
            /\ all.blocks = put.blocks \union more
<1>1. PICK hash, key, own : put = [hash |-> hash, key |-> key, blocks |-> own]
  BY DEF IsPut
<1> QED BY <1>1 DEF IsPut

(* What the two builders of trees return: the only link itself, or a node  *)
(* above the links, at the first level that fits in one.                   *)
BuiltOf(built, links, n, level, secret) ==
  /\ IsPut(built)
  /\ \/ /\ n = 1 /\ built.hash = links[1].hash /\ built.key = links[1].key /\ built.blocks = {}
     \/ /\ built.hash = Node(level[TopOf(level)], secret).hash
        /\ built.key = Node(level[TopOf(level)], secret).key
        /\ built.blocks = BlocksBelow(level, TopOf(level), secret) \union {built.hash}

(* Both builders return one of the two; that of putFile() does when there  *)
(* are several links.                                                      *)
LEMMA Built ==
  ASSUME NEW n \in Nat \ {0}, NEW links, Sequence(links), Len(links) = n, NEW secret \in BOOLEAN
  PROVE  /\ BuiltOf(buildTreeFromChunks(links, secret), links, n, Levels(links, secret), secret)
         /\ \A total : n > 1 =>
              BuiltOf(buildTree(links, total, secret), links, n, Levels(links, secret), secret)
<1>1. PICK level : level = Levels(links, secret)
  OBVIOUS
<1>2. AreLevels(level, links, n, secret)
  BY <1>1, LevelsAre
<1>3. PICK top : top = TopOf(level)
  OBVIOUS
<1>4. /\ top \in 0 .. n /\ Sequence(level[top]) /\ (n = 1 => top = 0)
      /\ n > 1 => Len(level[top]) > 1
  BY <1>2, <1>3, Top
<1>5. Len(level[top]) \in Nat
  BY <1>4, SequenceIs
<1> DEFINE node == Node(level[top], secret)
           below == BlocksBelow(level, top, secret)
<1>6. IsPut(node) /\ node.blocks = {node.hash}
  <2>1. IsPut(node)
    BY DEF IsPut, Node, putBlob, encryptChk
  <2> QED BY <2>1, PutOpened DEF Node
<1>7. \A root : WithBelow(root, level, top, secret) = [root EXCEPT !.blocks = @ \union below]
  BY DEF WithBelow
<1>8. ASSUME n > 1
      PROVE  /\ buildTreeFromChunks(links, secret) = [node EXCEPT !.blocks = @ \union below]
             /\ \A total : buildTree(links, total, secret) = [node EXCEPT !.blocks = @ \union below]
  <2>1. ~(Len(level[top]) = 1)
    <3>1. PICK count \in Nat : count = Len(level[top])
      BY <1>5
    <3>2. n > 1 => count > 1
      BY <1>4, <3>1
    <3>3. count # 1
      BY <1>8, <3>2
    <3> QED BY <3>1, <3>3
  <2>2. buildTreeFromChunks(links, secret) = WithBelow(node, level, top, secret)
    BY <1>1, <1>3, <2>1 DEF buildTreeFromChunks
  <2>3. \A total : buildTree(links, total, secret) = WithBelow(node, level, top, secret)
    BY <1>1, <1>3, <2>1 DEF buildTree
  <2> HIDE DEF node, below
  <2> QED BY <1>7, <2>2, <2>3
<1>9. ASSUME n = 1
      PROVE  LET built == buildTreeFromChunks(links, secret)
             IN /\ IsPut(built) /\ built.hash = links[1].hash /\ built.key = links[1].key
                /\ built.blocks = {}
  <2>1. top = 0 /\ level[top] = links /\ Len(level[top]) = 1
    BY <1>2, <1>4, <1>9 DEF AreLevels
  <2>2. below = {}
    <3>1. 0 .. 0 - 1 = {}
      OBVIOUS
    <3> QED BY <2>1, <3>1 DEF BlocksBelow
  <2>3. PICK root : root = Itself(links[1])
    OBVIOUS
  <2>4. /\ IsPut(root) /\ root.hash = links[1].hash /\ root.key = links[1].key
        /\ root.blocks = {}
    BY <2>3 DEF Itself, IsPut
  <2>5. buildTreeFromChunks(links, secret) = WithBelow(root, level, top, secret)
    BY <1>1, <1>3, <2>1, <2>3 DEF buildTreeFromChunks
  <2> HIDE DEF below
  <2>6. PICK built : built = [root EXCEPT !.blocks = @ \union below]
    OBVIOUS
  <2>7. /\ IsPut(built) /\ built.hash = root.hash /\ built.key = root.key
        /\ built.blocks = root.blocks \union below
    BY <2>4, <2>6, MoreBlocks
  <2>8. buildTreeFromChunks(links, secret) = built
    BY <1>7, <2>5, <2>6
  <2> QED BY <2>2, <2>4, <2>7, <2>8
<1> HIDE DEF node, below
<1>10. ASSUME n > 1, NEW built, built = [node EXCEPT !.blocks = @ \union below]
       PROVE  BuiltOf(built, links, n, level, secret)
  <2>1. /\ IsPut(built) /\ built.hash = node.hash /\ built.key = node.key
        /\ built.blocks = node.blocks \union below
    BY <1>6, <1>10, MoreBlocks
  <2> QED BY <1>3, <1>6, <2>1 DEF BuiltOf, node, below
<1>11. CASE n = 1
  BY <1>1, <1>9, <1>11 DEF BuiltOf
<1>12. CASE n > 1
  BY <1>1, <1>8, <1>10, <1>12
<1> QED BY <1>11, <1>12

(* A root as it was built, with blocks of its own.                         *)
WithOwn(f, built, own) ==
  f.hash = built.hash /\ f.key = built.key /\ f.blocks = built.blocks \union own

(* A tree built of leaves is a root of their bytes.                        *)
LEMMA BuiltIsRoot ==
  ASSUME NEW n \in Nat \ {0}, NEW links, NEW cuts, NEW secret \in BOOLEAN, NEW sized,
         NEW stored, NEW own, AreChunks(own, secret),
         Leaves(links, n, cuts, stored \union own, secret, sized),
         NEW built, BuiltOf(built, links, n, Levels(links, secret), secret),
         NEW f, WithOwn(f, built, own)
  PROVE  IsRoot(f, cuts[n + 1], stored, secret, sized)
<1>0. /\ own \subseteq ByteBlocks(secret)
      /\ f.hash = built.hash /\ f.key = built.key /\ f.blocks = built.blocks \union own
  BY DEF AreChunks, WithOwn
<1>1. PICK level : level = Levels(links, secret)
  OBVIOUS
<1>2. AreLevels(level, links, n, secret)
  BY <1>1, LevelsAre DEF Leaves
<1>3. ASSUME n = 1, built.hash = links[1].hash, built.key = links[1].key, built.blocks = {}
      PROVE  IsBlob(f, cuts[n + 1], stored, secret)
  <2>1. /\ cuts[1] = 0 /\ 1 \in 1 .. n /\ 1 + 1 = n + 1
        /\ PartLink(links[1], cuts[1], cuts[1 + 1], secret, sized)
        /\ links[1].hash \in stored \union own
    BY <1>3 DEF Leaves
  <2>2. PartLink(links[1], 0, cuts[n + 1], secret, sized)
    BY <2>1
  <2> QED BY <1>0, <1>3, <2>1, <2>2 DEF IsBlob, PartLink
<1>4. ASSUME built.hash = Node(level[TopOf(level)], secret).hash,
             built.key = Node(level[TopOf(level)], secret).key,
             built.blocks = BlocksBelow(level, TopOf(level), secret) \union {built.hash}
      PROVE  IsTree(f, cuts[n + 1], stored, secret, sized)
  <2>1. f.blocks = own \union BlocksBelow(level, TopOf(level), secret) \union {f.hash}
    BY <1>0, <1>4
  <2>2. TreeAbove(f, n, links, cuts, own, level, stored, secret, sized)
    BY <1>0, <1>2, <1>4, <2>1 DEF TreeAbove
  <2> QED BY <2>2 DEF IsTree
<1> QED BY <1>1, <1>3, <1>4 DEF BuiltOf, IsRoot

-----------------------------------------------------------------------------
(* The bytes that the one call that runs has not written.                  *)
LEMMA UnwrittenOfNone == Unwritten({}) = 0
<1> DEFINE Body(f, s) == IF s = {} THEN 0
                         ELSE f[s \ {CHOOSE x \in s : TRUE}] + Len((CHOOSE x \in s : TRUE).rest)
           Folds(f) == f = [s \in SUBSET {} |-> Body(f, s)]
           zero == [s \in SUBSET {} |-> 0]
<1>1. Unwritten({}) = (CHOOSE f : Folds(f))[{}]
  BY DEF Unwritten, FoldSet, MapThenFoldSet
<1>2. Folds(zero)
  OBVIOUS
<1> HIDE DEF Body, zero
<1>3. PICK f : Folds(f) /\ Unwritten({}) = f[{}]
  <2> HIDE DEF Folds
  <2> QED BY <1>1, <1>2
<1>4. f[{}] = Body(f, {})
  BY <1>3
<1> QED BY <1>3, <1>4 DEF Body

(* Of one call that awaits a flush, it is the rest of what it appends.     *)
LEMMA UnwrittenOfOne ==
  ASSUME NEW t, Len(t.rest) \in Nat
  PROVE  Unwritten({t}) = Len(t.rest)
<1> DEFINE Body(f, s) == IF s = {} THEN 0
                         ELSE f[s \ {CHOOSE x \in s : TRUE}] + Len((CHOOSE x \in s : TRUE).rest)
           Folds(f) == f = [s \in SUBSET {t} |-> Body(f, s)]
           one == [s \in SUBSET {t} |-> IF s = {} THEN 0 ELSE Len(t.rest)]
<1>1. Unwritten({t}) = (CHOOSE f : Folds(f))[{t}]
  BY DEF Unwritten, FoldSet, MapThenFoldSet
<1>2. \A f, s : s = {} => Body(f, s) = 0
  OBVIOUS
<1>3. \A f : Body(f, {t}) = f[{}] + Len(t.rest)
  <2>1. (CHOOSE x \in {t} : TRUE) = t /\ {t} \ {t} = {} /\ {t} # {}
    OBVIOUS
  <2> QED BY <2>1
<1>4. SUBSET {t} = {{}, {t}}
  OBVIOUS
<1>5. one[{}] = 0 /\ one[{t}] = Len(t.rest)
  BY <1>4
<1> HIDE DEF Body
<1>6. Folds(one)
  <2>1. \A s \in SUBSET {t} : one[s] = Body(one, s)
    <3> HIDE DEF one
    <3>1. one[{}] = Body(one, {})
      BY <1>2, <1>5
    <3>2. one[{t}] = Body(one, {t})
      <4>1. Body(one, {t}) = one[{}] + Len(t.rest)
        BY <1>3
      <4>2. one[{}] + Len(t.rest) = Len(t.rest)
        BY <1>5
      <4> QED BY <1>5, <4>1, <4>2
    <3> QED BY <1>4, <3>1, <3>2
  <2>2. one = [s \in SUBSET {t} |-> one[s]]
    OBVIOUS
  <2> HIDE DEF one
  <2> QED BY <2>1, <2>2
<1> HIDE DEF one
<1>7. PICK f : Folds(f) /\ Unwritten({t}) = f[{t}]
  <2> HIDE DEF Folds
  <2> QED BY <1>1, <1>6
<1>8. f[{}] = Body(f, {}) /\ f[{t}] = Body(f, {t})
  BY <1>7
<1>9. f[{t}] = f[{}] + Len(t.rest) /\ f[{}] = 0
  BY <1>2, <1>3, <1>8
<1> QED BY <1>7, <1>9

(* The bytes appended so far are a part of them.                           *)
LEMMA BytesArePart == \A n \in Nat : Bytes(n) = Part(0, n) /\ Len(Bytes(n)) = n
<1> TAKE n \in Nat
<1>1. Bytes(n) = Part(0, n)
  BY DEF Bytes, Part
<1>2. Len(Part(0, n)) = n
  BY PartIsSeq
<1> QED BY <1>1, <1>2

(* The chunks of a writer are leaves.                                      *)
ChunksCut(links, cuts, stored, secret) ==
  /\ cuts[1] = 0
  /\ \A i \in DOMAIN links :
       /\ cuts[i + 1] - cuts[i] \in 1 .. chunkSize
       /\ links[i] = FlushLink(putBlob(Part(cuts[i], cuts[i + 1]), secret),
                               Part(cuts[i], cuts[i + 1]))
       /\ putBlob(Part(cuts[i], cuts[i + 1]), secret).blocks \subseteq stored

(* The link of a flush is a link to the part.                              *)
LEMMA FlushLinks ==
  ASSUME NEW a \in Nat, NEW b \in Nat, a < b, NEW secret \in BOOLEAN, NEW stored,
         putBlob(Part(a, b), secret).blocks \subseteq stored, NEW link,
         link = FlushLink(putBlob(Part(a, b), secret), Part(a, b))
  PROVE  \A sized : PartLink(link, a, b, secret, sized) /\ link.hash \in stored
<1>1. PICK data, put : data = Part(a, b) /\ put = putBlob(data, secret)
  OBVIOUS
<1>2. put.blocks = {put.hash}
  BY <1>1, PutOpened
<1>3. link.type = "Blob" /\ link.hash = put.hash /\ link.key = put.key /\ link.size = Len(data)
  BY <1>1 DEF FlushLink, Link
<1>5. Len(data) = b - a
  <2>1. a <= b
    OBVIOUS
  <2> QED BY <1>1, <2>1, PartIsSeq
<1>4. put.hash \in stored
  BY <1>1, <1>2
<1> QED BY <1>1, <1>3, <1>4, <1>5 DEF PartLink

(* Chunks with links of their sizes are the lowest level of a tree.        *)
LEMMA ChunksAreLeaves ==
  ASSUME NEW links, Sequence(links), NEW total \in Nat,
         NEW cuts \in [1 .. Len(links) + 1 -> 0 .. total], NEW secret \in BOOLEAN, NEW stored,
         ChunksCut(links, cuts, stored, secret)
  PROVE  \A sized : Leaves(links, Len(links), cuts, stored, secret, sized)
<1>1. PICK n \in Nat : n = Len(links) /\ DOMAIN links = 1 .. n
  BY SequenceIs
<1>2. ASSUME NEW i \in 1 .. n
      PROVE  /\ cuts[i] <= cuts[i + 1] /\ links[i].hash \in stored
             /\ \A sized : PartLink(links[i], cuts[i], cuts[i + 1], secret, sized)
  <2>1. /\ cuts[i + 1] - cuts[i] \in 1 .. chunkSize
        /\ links[i] = FlushLink(putBlob(Part(cuts[i], cuts[i + 1]), secret),
                                Part(cuts[i], cuts[i + 1]))
        /\ putBlob(Part(cuts[i], cuts[i + 1]), secret).blocks \subseteq stored
    BY <1>1 DEF ChunksCut
  <2>2. cuts[i] \in Nat /\ cuts[i + 1] \in Nat
    BY <1>1
  <2>3. cuts[i] < cuts[i + 1]
    BY <2>1, <2>2, SizesAssumption
  <2>4. PICK a \in Nat, b \in Nat : a = cuts[i] /\ b = cuts[i + 1] /\ a < b /\ a <= b
    BY <2>2, <2>3
  <2>5. \A sized : PartLink(links[i], a, b, secret, sized) /\ links[i].hash \in stored
    BY <2>1, <2>4, FlushLinks
  <2> QED BY <2>4, <2>5
<1>3. cuts \in [1 .. n + 1 -> Nat]
  BY <1>1
<1>4. Ordered(cuts, n)
  BY <1>2, <1>3 DEF Ordered
<1> QED BY <1>1, <1>2, <1>4 DEF Leaves, ChunksCut

(* The roots that finalize() and currentRoot() hand out.                   *)
LEMMA FinalIsRoot ==
  ASSUME NEW links, NEW n \in Nat, NEW cuts, NEW secret \in BOOLEAN, NEW sized, NEW stored,
         Leaves(links, n, cuts, stored, secret, sized), NEW root, NEW f,
         root = IF links = <<>> THEN putBlob(<<>>, secret) ELSE buildTreeFromChunks(links, secret),
         f.hash = root.hash, f.key = root.key, f.blocks = root.blocks
  PROVE  IsRoot(f, cuts[n + 1], stored, secret, sized)
<1>1. Sequence(links) /\ Len(links) = n /\ cuts[1] = 0
  BY DEF Leaves
<1>2. CASE n = 0
  <2>1. links = <<>>
    BY <1>1, <1>2, EmptySeq DEF Sequence
  <2>2. Part(0, 0) = <<>> /\ cuts[n + 1] = 0
    BY <1>1, <1>2, EmptyPart
  <2>3. PICK data : data = Part(0, 0)
    OBVIOUS
  <2>4. root = putBlob(data, secret)
    BY <2>1, <2>2, <2>3
  <2>5. root.blocks = {root.hash}
    BY <2>4, PutOpened
  <2>6. root.hash \in ByteBlocks(secret)
    BY <2>3, <2>4, PartStored
  <2>7. IsBlob(f, 0, stored, secret)
    BY <2>3, <2>4, <2>5, <2>6 DEF IsBlob
  <2> QED BY <2>2, <2>7 DEF IsRoot
<1>3. CASE n # 0
  <2>1. links # <<>> /\ n \in Nat \ {0}
    <3>1. Len(<<>>) = 0
      OBVIOUS
    <3> QED BY <1>1, <1>3, <3>1
  <2>2. root = buildTreeFromChunks(links, secret)
    BY <2>1
  <2>3. BuiltOf(root, links, n, Levels(links, secret), secret)
    BY <1>1, <2>1, <2>2, Built
  <2>4. PICK own : own = {}
    OBVIOUS
  <2>5. /\ AreChunks(own, secret) /\ WithOwn(f, root, own)
        /\ Leaves(links, n, cuts, stored \union own, secret, sized)
    BY <2>4 DEF AreChunks, WithOwn
  <2> QED BY <2>1, <2>3, <2>5, BuiltIsRoot
<1> QED BY <1>2, <1>3

(* One more leaf of the bytes that follow.                                 *)
LeavesTo(links, n, end, stored, secret, sized) ==
  \E cuts : Leaves(links, n, cuts, stored, secret, sized) /\ cuts[n + 1] = end

(* One more chunk at the end.                                              *)
LEMMA LeafAdded ==
  ASSUME NEW links, NEW n \in Nat, NEW at, NEW secret \in BOOLEAN, NEW sized, NEW stored,
         LeavesTo(links, n, at, stored, secret, sized), NEW end \in Nat, at <= end, NEW link,
         PartLink(link, at, end, secret, sized), link.hash \in stored
  PROVE  LeavesTo(Append(links, link), n + 1, end, stored, secret, sized)
<1>1. PICK cuts : Leaves(links, n, cuts, stored, secret, sized) /\ cuts[n + 1] = at
  BY DEF LeavesTo
<1>2. PICK more : more = Append(links, link)
  OBVIOUS
<1>3. /\ Sequence(more) /\ Len(more) = n + 1 /\ more[n + 1] = link
      /\ \A i \in 1 .. n : more[i] = links[i]
  <2>1. PICK S : links \in Seq(S)
    BY <1>1 DEF Leaves, Sequence
  <2>2. Len(links) = n
    BY <1>1 DEF Leaves
  <2>3. links \in Seq(S \union {link}) /\ link \in S \union {link}
    <3>1. \A i \in 1 .. Len(links) : links[i] \in S \union {link}
      BY <2>1
    <3>2. links = [i \in 1 .. Len(links) |-> links[i]] /\ Len(links) \in Nat
      BY <2>1
    <3> QED BY <3>1, <3>2
  <2>4. /\ more \in Seq(S \union {link}) /\ Len(more) = Len(links) + 1
        /\ \A i \in 1 .. Len(links) : more[i] = links[i]
        /\ more[Len(links) + 1] = link
    BY <1>2, <2>3, AppendProperties
  <2> QED BY <2>2, <2>4 DEF Sequence
<1> DEFINE new == [i \in 1 .. (n + 1) + 1 |-> IF i = (n + 1) + 1 THEN end ELSE cuts[i]]
<1>4. cuts \in [1 .. n + 1 -> Nat] /\ cuts[1] = 0 /\ \A i \in 1 .. n : cuts[i] <= cuts[i + 1]
  BY <1>1 DEF Leaves, Ordered
<1>5. new[(n + 1) + 1] = end /\ \A i \in 1 .. n + 1 : new[i] = cuts[i]
  OBVIOUS
<1>6. new \in [1 .. (n + 1) + 1 -> Nat]
  BY <1>4
<1> HIDE DEF new
<1>7. ASSUME NEW i \in 1 .. n + 1
      PROVE  /\ new[i] <= new[i + 1]
             /\ PartLink(more[i], new[i], new[i + 1], secret, sized) /\ more[i].hash \in stored
  <2>1. CASE i = n + 1
    BY <1>1, <1>3, <1>5, <2>1
  <2>2. CASE i \in 1 .. n
    <3>1. new[i] = cuts[i] /\ new[i + 1] = cuts[i + 1] /\ more[i] = links[i]
      BY <1>3, <1>5, <2>2
    <3>2. PartLink(links[i], cuts[i], cuts[i + 1], secret, sized) /\ links[i].hash \in stored
      BY <1>1, <2>2 DEF Leaves
    <3> QED BY <1>4, <2>2, <3>1, <3>2
  <2> QED BY <2>1, <2>2
<1>8. new[1] = 0
  BY <1>4, <1>5
<1>9. Leaves(more, n + 1, new, stored, secret, sized)
  BY <1>3, <1>6, <1>7, <1>8 DEF Leaves, Ordered
<1> QED BY <1>2, <1>5, <1>9 DEF LeavesTo

(* A piece of a file is a part of its bytes.                               *)
LEMMA PieceIsPart ==
  ASSUME NEW n \in Nat, NEW a \in Nat, NEW b \in Nat, a <= b, b <= n, NEW piece,
         Sequence(piece), Len(piece) = b - a,
         \A j \in 1 .. b - a : piece[j] = Bytes(n)[a + j]
  PROVE  piece = Part(a, b)
<1>1. /\ Part(a, b) \in Seq(Units) /\ Len(Part(a, b)) = b - a
      /\ \A i \in 1 .. b - a : Part(a, b)[i] = Byte(a + i)
  BY PartIsSeq
<1>2. \A j \in 1 .. b - a : Bytes(n)[a + j] = Byte(a + j)
  BY DEF Bytes
<1>3. \A j \in 1 .. Len(piece) : piece[j] = Part(a, b)[j]
  BY <1>1, <1>2
<1>4. Sequence(Part(a, b))
  BY <1>1 DEF Sequence
<1> QED BY <1>1, <1>3, <1>4, SequencesEqual

(* The length of bytes that are stored as they are.                        *)
LEMMA LengthOfPart ==
  ASSUME NEW a \in Nat, NEW b \in Nat, a <= b
  PROVE  Length(Part(a, b)) = b - a
<1>1. PICK part : part = Part(a, b)
  OBVIOUS
<1>2. part \in Seq(Units) /\ Len(part) = b - a
  BY <1>1, PartIsSeq
<1>3. CASE part = <<>>
  BY <1>1, <1>2, <1>3 DEF Length
<1>4. CASE part # <<>>
  <2>1. part[1] \in Units
    <3>1. Len(part) \in Nat /\ Len(part) # 0
      BY <1>2, <1>4, LenProperties, EmptySeq
    <3>2. 1 \in 1 .. Len(part)
      BY <3>1
    <3> QED BY <1>2, <3>2, ElementOfSeq
  <2>2. part[1].unit # "cipher"
    BY <2>1 DEF Units, Byte
  <2>3. Length(part) = Len(part)
    BY <2>2 DEF Length
  <2> QED BY <1>1, <1>2, <2>3
<1> QED BY <1>3, <1>4

(* What putFile() and putFileEncrypted() return: the links of what is not  *)
(* encrypted are sized.                                                    *)
LEMMA WholeIsRoot ==
  ASSUME NEW n \in Nat, NEW secret \in BOOLEAN, NEW sized, sized => secret = FALSE,
         NEW root, root = PutChunked(Bytes(n), secret), NEW f, f.hash = root.hash, f.key = root.key,
         f.blocks = root.blocks
  PROVE  IsRoot(f, n, {}, secret, sized)
<1>1. PICK data : data = Bytes(n) /\ data = Part(0, n) /\ Len(data) = n
  BY BytesArePart
<1>2. data \in Seq(Units) /\ Sequence(data)
  BY <1>1, PartIsSeq DEF Sequence
<1>3. CASE n <= chunkSize
  <2>1. root = putBlob(data, secret)
    BY <1>1, <1>3 DEF PutChunked
  <2>2. root.blocks = {root.hash}
    BY <2>1, PutOpened
  <2>3. root.hash \in ByteBlocks(secret)
    BY <1>2, <2>1 DEF ByteBlocks
  <2> QED BY <1>1, <2>1, <2>2, <2>3 DEF IsRoot, IsBlob
<1>4. CASE ~(n <= chunkSize)
  <2>1. n > chunkSize /\ chunkSize \in Nat \ {0}
    BY <1>4, SizesAssumption
  <2>2. PICK pieces : pieces = Pieces(data, chunkSize)
    OBVIOUS
  <2>3. PICK q, at : /\ q \in Nat /\ Sequence(pieces) /\ Len(pieces) = q /\ 2 <= q
                     /\ CutInto(data, pieces, q, chunkSize, at)
    BY <1>1, <1>2, <2>1, <2>2, CutPieces
  <2>4. DOMAIN pieces = 1 .. q
    BY <2>3, SequenceIs
  <2>5. at \in [1 .. q + 1 -> 0 .. n] /\ at[1] = 0 /\ at[q + 1] = n
    BY <1>1, <2>3 DEF CutInto
  <2>6. ASSUME NEW i \in 1 .. q
        PROVE  at[i] < at[i + 1] /\ pieces[i] = Part(at[i], at[i + 1])
    <3>1. /\ at[i + 1] - at[i] \in 1 .. chunkSize
          /\ Sequence(pieces[i]) /\ Len(pieces[i]) = at[i + 1] - at[i]
          /\ \A j \in 1 .. at[i + 1] - at[i] : pieces[i][j] = data[at[i] + j]
      BY <2>3 DEF CutInto
    <3>2. PICK a \in Nat, b \in Nat : a = at[i] /\ b = at[i + 1] /\ b <= n
      BY <2>3, <2>5
    <3>3. a < b /\ a <= b
      BY <2>1, <3>1, <3>2
    <3>4. PICK piece : piece = pieces[i]
      OBVIOUS
    <3>5. Sequence(piece) /\ Len(piece) = b - a
      BY <3>1, <3>2, <3>4
    <3>6. \A j \in 1 .. b - a : piece[j] = Bytes(n)[a + j]
      BY <1>1, <3>1, <3>2, <3>4
    <3>7. piece = Part(a, b)
      BY <3>2, <3>3, <3>5, <3>6, PieceIsPart
    <3> QED BY <3>2, <3>3, <3>4, <3>7
  <2>7. PICK puts : puts = [i \in DOMAIN pieces |-> putBlob(pieces[i], secret)]
    OBVIOUS
  <2>8. PICK links : links = [i \in DOMAIN puts |-> ChunkLink(puts[i])]
    OBVIOUS
  <2>9. PICK own : own = AllBlocks(puts)
    OBVIOUS
  <2>10. DOMAIN puts = 1 .. q /\ DOMAIN links = 1 .. q
    BY <2>4, <2>7, <2>8
  <2>11. ASSUME NEW i \in 1 .. q
         PROVE  /\ PartLink(links[i], at[i], at[i + 1], secret, sized)
                /\ links[i].hash \in own
                /\ puts[i].blocks \subseteq ByteBlocks(secret)
    <3>1. PICK put : put = putBlob(pieces[i], secret)
      OBVIOUS
    <3>2. puts[i] = put /\ links[i] = ChunkLink(put)
      BY <2>4, <2>7, <2>8, <2>10, <3>1
    <3>3. /\ links[i].type = "Blob" /\ links[i].hash = put.hash /\ links[i].key = put.key
          /\ links[i].size = Length(put.hash)
      BY <3>2 DEF ChunkLink, Link
    <3>4. put.blocks = {put.hash}
      BY <3>1, PutOpened
    <3>5. put.hash \in own
      BY <2>9, <2>10, <3>2, <3>4 DEF AllBlocks
    <3>8. PICK a \in Nat, b \in Nat :
            a = at[i] /\ b = at[i + 1] /\ a < b /\ a <= b /\ put = putBlob(Part(a, b), secret)
      <4>1. PICK a \in Nat, b \in Nat : a = at[i] /\ b = at[i + 1]
        BY <2>3, <2>5
      <4> QED BY <2>6, <3>1, <4>1
    <3>6. put.hash \in ByteBlocks(secret)
      BY <3>8, PartStored
    <3>9. ASSUME sized
          PROVE  links[i].size = b - a
      <4>1. put.hash = Part(a, b)
        BY <3>8, <3>9 DEF putBlob
      <4> QED BY <3>3, <3>8, <4>1, LengthOfPart
    <3>7. PartLink(links[i], at[i], at[i + 1], secret, sized)
      BY <2>6, <3>1, <3>3, <3>8, <3>9 DEF PartLink
    <3> QED BY <3>2, <3>3, <3>4, <3>5, <3>6, <3>7
  <2>12. own \subseteq ByteBlocks(secret)
    BY <2>9, <2>10, <2>11 DEF AllBlocks
  <2>13. Sequence(links) /\ Len(links) = q
    <3>1. links = [i \in 1 .. q |-> links[i]]
      BY <2>8, <2>10
    <3> QED BY <2>3, <3>1, SequenceOf
  <2>14. Ordered(at, q)
    <3>1. at \in [1 .. q + 1 -> Nat]
      BY <2>5
    <3>2. ASSUME NEW i \in 1 .. q
          PROVE  at[i] <= at[i + 1]
      <4>1. i \in 1 .. q + 1 /\ i + 1 \in 1 .. q + 1
        BY <2>3
      <4>2. at[i] < at[i + 1] /\ at[i] \in Nat /\ at[i + 1] \in Nat
        BY <2>6, <3>1, <4>1
      <4> QED BY <4>2
    <3> QED BY <3>1, <3>2 DEF Ordered
  <2>15. Leaves(links, q, at, {} \union own, secret, sized)
    BY <2>5, <2>11, <2>13, <2>14 DEF Leaves
  <2>16. PICK built : built = buildTree(links, n, secret)
    OBVIOUS
  <2>17. BuiltOf(built, links, q, Levels(links, secret), secret)
    <3>1. q \in Nat \ {0} /\ q > 1
      BY <2>3
    <3> QED BY <2>13, <2>16, <3>1, Built
  <2>18. root = [built EXCEPT !.blocks = @ \union own]
    BY <1>1, <1>4, <2>2, <2>7, <2>8, <2>9, <2>16 DEF PutChunked
  <2>19. f.hash = built.hash /\ f.key = built.key /\ f.blocks = built.blocks \union own
    <3>1. IsPut(built)
      BY <2>17 DEF BuiltOf
    <3> QED BY <2>18, <3>1, MoreBlocks
  <2>20. IsRoot(f, at[q + 1], {}, secret, sized)
    <3>1. q \in Nat \ {0}
      BY <2>3
    <3>2. AreChunks(own, secret) /\ WithOwn(f, built, own)
      BY <2>12, <2>19 DEF AreChunks, WithOwn
    <3> QED BY <2>15, <2>17, <3>1, <3>2, BuiltIsRoot
  <2> QED BY <2>5, <2>20
<1> QED BY <1>3, <1>4

-----------------------------------------------------------------------------
(* What is stored are chunks of bytes, and the last root that was handed   *)
(* out, unless other calls ran, is a root of the bytes that it should read *)
(* back as.  Only what putFile() writes, before any call, need not be      *)
(* public or encrypted as the writer is, and only the links of what it     *)
(* encrypts may have other sizes than their parts.                         *)
RootOf(f, total, stored, pub, count, secret, sized) ==
  /\ IsRoot(f, total, stored, secret, sized) /\ (count = 0 \/ secret = ~pub)
  /\ (f.by # "putFile" \/ ~secret) => sized = TRUE
  /\ f.data = Bytes(total) /\ (f.size # Null => f.size = total)

FileHolds(f, stored, pub, count) ==
  (f # Null /\ f.data # Null) =>
    \E total \in Nat, secret \in BOOLEAN, sized \in BOOLEAN :
      RootOf(f, total, stored, pub, count, secret, sized)

FileInv ==
  /\ WriterInv
  /\ calls \in Nat /\ (calls = 0 => blocks = {} /\ buffer = <<>> /\ tasks = {})
  /\ blocks \subseteq ByteBlocks(~isPublic)
  /\ FileHolds(file, blocks, isPublic, calls)

(* A root that is handed out after the step.                               *)
RootAs(root, total, stored, pub) ==
  \A f : f.hash = root.hash /\ f.key = root.key /\ f.blocks = root.blocks =>
    IsRoot(f, total, stored, ~pub, TRUE)

(* A root that is handed out with the bytes it is of.                      *)
LEMMA HandedOut ==
  ASSUME NEW root, NEW size, NEW by, NEW data, HandOut(root, size, by, data),
         NEW stored, NEW pub \in BOOLEAN, NEW count, NEW total \in Nat,
         data # Null => data = Bytes(total) /\ (size # Null => size = total),
         RootAs(root, total, stored, pub)
  PROVE  FileHolds(file', stored, pub, count)
<1>1. PICK f : f = file'
  OBVIOUS
<1>2. /\ f.hash = root.hash /\ f.key = root.key /\ f.blocks = root.blocks
      /\ f.size = size /\ f.data = data
  BY <1>1 DEF HandOut
<1>3. ASSUME f.data # Null
      PROVE  \E t \in Nat, secret \in BOOLEAN, sized \in BOOLEAN :
               RootOf(f, t, stored, pub, count, secret, sized)
  <2>1. PICK secret \in BOOLEAN, sized \in BOOLEAN : secret = ~pub /\ sized = TRUE
    OBVIOUS
  <2>2. IsRoot(f, total, stored, secret, sized)
    BY <1>2, <2>1 DEF RootAs
  <2>3. f.data = Bytes(total) /\ (f.size # Null => f.size = total)
    BY <1>2, <1>3
  <2>4. RootOf(f, total, stored, pub, count, secret, sized)
    BY <2>1, <2>2, <2>3 DEF RootOf
  <2> QED BY <2>1, <2>4
<1> QED BY <1>1, <1>3 DEF FileHolds

(* A root stays one when more is stored.                                   *)
LEMMA FileStays ==
  ASSUME NEW f, NEW stored, NEW pub, NEW count, FileHolds(f, stored, pub, count),
         NEW more, stored \subseteq more, NEW later, later = 0 => count = 0,
         (count = 0 /\ f # Null /\ f.data # Null) => later = 0
  PROVE  FileHolds(f, more, pub, later)
<1> SUFFICES ASSUME f # Null, f.data # Null
             PROVE  \E total \in Nat, secret \in BOOLEAN, sized \in BOOLEAN :
                      RootOf(f, total, more, pub, later, secret, sized)
  BY DEF FileHolds
<1>1. PICK total \in Nat, secret \in BOOLEAN, sized \in BOOLEAN :
        RootOf(f, total, stored, pub, count, secret, sized)
  BY DEF FileHolds
<1>2. IsRoot(f, total, stored, secret, sized)
  BY <1>1 DEF RootOf
<1>3. IsRoot(f, total, more, secret, sized)
  BY <1>2, RootStays
<1>4. RootOf(f, total, more, pub, later, secret, sized)
  BY <1>1, <1>3 DEF RootOf
<1> QED BY <1>4

(* A flush stores bytes.                                                   *)
LEMMA FlushStores ==
  ASSUME FileInv, NEW t \in tasks, flushChunk(t.chunk)
  PROVE  blocks \subseteq blocks' /\ blocks' \subseteq ByteBlocks(~isPublic) /\ calls # 0
<1>1. WriterInv /\ isPublic \in BOOLEAN /\ sent \in Nat
  BY DEF FileInv, WriterInv
<1>2. PICK cuts \in [1 .. Len(chunks) + 1 -> 0 .. sent], at \in 0 .. sent, end \in 0 .. sent :
        Written(cuts, at, end)
  BY <1>1 DEF WriterInv
<1>3. t.chunk = Part(at, end) /\ at <= end
  BY <1>2 DEF Written, Awaits
<1>4. at \in Nat /\ end \in Nat
  BY <1>1
<1>5. PICK secret \in BOOLEAN : secret = ~isPublic
  BY <1>1
<1>6. PICK put : put = putBlob(Part(at, end), secret)
  OBVIOUS
<1>7. put.hash \in ByteBlocks(secret) /\ put.blocks = {put.hash}
  BY <1>3, <1>4, <1>6, PartStored, PutOpened
<1>8. blocks' = blocks \union put.blocks
  BY <1>3, <1>5, <1>6 DEF flushChunk, Stored
<1>9. blocks \subseteq ByteBlocks(secret) /\ calls # 0
  BY <1>5 DEF FileInv
<1> QED BY <1>5, <1>7, <1>8, <1>9

-----------------------------------------------------------------------------
(* The steps.                                                              *)
LEMMA InitHolds == Init => FileInv
<1> SUFFICES ASSUME Init
             PROVE  FileInv
  OBVIOUS
<1>1. WriterInv
  BY InitWritten DEF Init
<1>2. /\ calls = 0 /\ blocks = {} /\ buffer = <<>> /\ tasks = {} /\ file = Null
      /\ calls \in Nat
  BY DEF Init, ChunkInit
<1> QED BY <1>1, <1>2 DEF FileInv, FileHolds

(* append() takes back the last root; the flush it goes on with stores.    *)
LEMMA AppendHolds ==
  ASSUME ~Overlapping, FileInv, NEW n \in 1 .. MaxAppend, append(n)
  PROVE  FileInv'
<1>1. AppendBytes(n) /\ file' = Null /\ WriterInv
  BY DEF append, FileInv
<1>2. WriterInv'
  BY <1>1, AppendBytesWritten
<1>3. calls \in Nat /\ calls' = calls + 1 /\ UNCHANGED <<isPublic, blocks>>
  BY <1>1 DEF AppendBytes, FileInv
<1>4. calls' \in Nat /\ calls' # 0
  BY <1>3
<1>5. (blocks \subseteq ByteBlocks(~isPublic))'
  BY <1>3 DEF FileInv
<1> QED BY <1>1, <1>2, <1>4, <1>5 DEF FileInv, FileHolds

LEMMA AppendGoesOnHolds ==
  ASSUME FileInv, NEW t \in tasks, AppendGoesOn(t)
  PROVE  FileInv'
<1>1. AppendFlushed(t) /\ file' = file /\ WriterInv
  BY DEF AppendGoesOn, FileInv
<1>2. WriterInv'
  BY <1>1, AppendFlushedWritten
<1>3. flushChunk(t.chunk) /\ UNCHANGED <<isPublic, calls>>
  BY <1>1 DEF AppendFlushed
<1>4. blocks \subseteq blocks' /\ blocks' \subseteq ByteBlocks(~isPublic) /\ calls # 0
  BY <1>3, FlushStores
<1>5. FileHolds(file, blocks, isPublic, calls) /\ calls \in Nat
  BY DEF FileInv
<1>6. FileHolds(file, blocks', isPublic, calls)
  BY <1>4, <1>5, FileStays
<1> QED BY <1>1, <1>2, <1>3, <1>4, <1>5, <1>6 DEF FileInv

(* finalize() with nothing left to flush hands out the root of the chunks, *)
LEMMA FinalizeHolds ==
  ASSUME ~Overlapping, FileInv, finalize
  PROVE  FileInv'
<1>1. BeginFinalize /\ WriterInv /\ isPublic \in BOOLEAN /\ sent \in Nat
  BY DEF finalize, FileInv, WriterInv
<1>2. WriterInv'
  BY <1>1, BeginFinalizeWritten
<1>3. calls \in Nat /\ calls' = calls + 1 /\ UNCHANGED <<isPublic, buffer, chunks, blocks>>
  BY <1>1 DEF BeginFinalize, FileInv, writerVars
<1>4. calls' \in Nat /\ calls' # 0
  BY <1>3
<1>5. blocks \subseteq ByteBlocks(~isPublic)
  BY DEF FileInv
<1>6. CASE buffer # <<>>
  <2>1. file' = file /\ calls # 0
    BY <1>6 DEF finalize, FileInv
  <2>2. FileHolds(file, blocks, isPublic, calls)
    BY DEF FileInv
  <2>3. FileHolds(file, blocks, isPublic, calls')
    BY <1>4, <2>1, <2>2, FileStays
  <2> QED BY <1>2, <1>3, <1>4, <1>5, <2>1, <2>3 DEF FileInv
<1>7. CASE buffer = <<>>
  <2>1. PICK cuts \in [1 .. Len(chunks) + 1 -> 0 .. sent], at \in 0 .. sent, end \in 0 .. sent :
          Written(cuts, at, end)
    BY <1>1 DEF WriterInv
  <2>2. PICK secret \in BOOLEAN : secret = ~isPublic
    BY <1>1
  <2>3. ChunksCut(chunks, cuts, blocks, secret)
    BY <2>1, <2>2 DEF Written, CutAt, ChunksCut, FlushedLink, Stored
  <2>4. Sequence(chunks)
    BY DEF FileInv, WriterInv, Sequence
  <2>14. PICK sized : sized = TRUE
    OBVIOUS
  <2>5. Leaves(chunks, Len(chunks), cuts, blocks, secret, sized)
    BY <1>1, <2>3, <2>4, ChunksAreLeaves
  <2>6. PICK n \in Nat : n = Len(chunks)
    BY <2>4, SequenceIs
  <2>7. /\ tasks = {} /\ end = sent /\ totalSize = sent /\ at = cuts[n + 1]
        /\ at <= end /\ buffer = Part(at, end)
    BY <1>1, <2>1, <2>6 DEF BeginFinalize, MayBegin, Written
  <2>8. at = end
    <3>1. at \in Nat /\ end \in Nat
      BY <1>1, <2>1
    <3>2. Len(Part(at, end)) = end - at
      BY <2>7, <3>1, PartIsSeq
    <3>3. Len(Part(at, end)) = 0
      BY <1>7, <2>7
    <3> QED BY <3>1, <3>2, <3>3
  <2>9. HandOut(FinalRoot(chunks), totalSize, "finalize", Bytes(sent))
    BY <1>7, <2>7 DEF finalize
  <2>10. PICK root : root = FinalRoot(chunks)
    OBVIOUS
  <2>11. root = IF chunks = <<>> THEN putBlob(<<>>, secret) ELSE buildTreeFromChunks(chunks, secret)
    BY <2>2, <2>10 DEF FinalRoot
  <2>12. ASSUME NEW f, f.hash = root.hash, f.key = root.key, f.blocks = root.blocks
         PROVE  IsRoot(f, sent, blocks, secret, sized)
    <3>1. IsRoot(f, cuts[n + 1], blocks, secret, sized)
      BY <2>5, <2>6, <2>11, <2>12, FinalIsRoot
    <3> QED BY <2>7, <2>8, <3>1
  <2>15. RootAs(root, sent, blocks, isPublic)
    BY <2>2, <2>12, <2>14 DEF RootAs
  <2>13. FileHolds(file', blocks, isPublic, calls')
    BY <1>1, <2>7, <2>9, <2>10, <2>15, HandedOut
  <2> QED BY <1>2, <1>3, <1>4, <1>5, <2>13 DEF FileInv
<1> QED BY <1>6, <1>7

(* and the flush it awaited has added the last one.                        *)
LEMMA FinalizeFlushedHolds ==
  ASSUME FileInv, NEW t \in tasks, FinalizeFlushed(t)
  PROVE  FileInv'
<1>1. /\ FinalFlushed(t) /\ WriterInv /\ isPublic \in BOOLEAN /\ sent \in Nat
      /\ totalSize \in Nat
  BY DEF FinalizeFlushed, FileInv, WriterInv
<1>2. WriterInv'
  BY <1>1, FinalFlushedWritten
<1>3. /\ flushChunk(t.chunk) /\ UNCHANGED <<isPublic, totalSize, sent, calls>>
      /\ t.call = "finalize" /\ buffer' = <<>> /\ tasks' = tasks \ {t}
  BY <1>1 DEF FinalFlushed
<1>4. blocks \subseteq blocks' /\ blocks' \subseteq ByteBlocks(~isPublic) /\ calls # 0
  BY <1>3, FlushStores
<1>5. PICK end \in 0 .. sent, cuts \in [1 .. Len(chunks') + 1 -> 0 .. sent] :
        /\ end = cuts[Len(chunks') + 1] /\ CutAt(cuts)'
        /\ Awaits(t, end) /\ chunks' \in Seq(Links)
  BY <1>1, <1>3, FlushEnds
<1>6. tasks = {t} /\ end = sent /\ totalSize = sent
  BY <1>3, <1>5 DEF Awaits
<1>7. PICK secret \in BOOLEAN : secret = ~isPublic
  BY <1>1
<1>8. PICK links, stored : links = chunks' /\ stored = blocks'
  OBVIOUS
<1>9. ChunksCut(links, cuts, stored, secret)
  BY <1>3, <1>5, <1>7, <1>8 DEF CutAt, ChunksCut, FlushedLink, Stored
<1>10. Sequence(links)
  BY <1>5, <1>8 DEF Sequence
<1>11. PICK n \in Nat : n = Len(links)
  BY <1>10, SequenceIs
<1>19. PICK sized : sized = TRUE
  OBVIOUS
<1>12. Leaves(links, Len(links), cuts, stored, secret, sized)
  <2>1. cuts \in [1 .. Len(links) + 1 -> 0 .. sent]
    BY <1>5, <1>8
  <2> QED BY <1>1, <1>9, <1>10, <2>1, ChunksAreLeaves
<1>13. PICK root : root = FinalRoot(links)
  OBVIOUS
<1>14. root = IF links = <<>> THEN putBlob(<<>>, secret) ELSE buildTreeFromChunks(links, secret)
  BY <1>7, <1>13 DEF FinalRoot
<1>15. ASSUME NEW f, f.hash = root.hash, f.key = root.key, f.blocks = root.blocks
       PROVE  IsRoot(f, sent, stored, secret, sized)
  <2>1. IsRoot(f, cuts[n + 1], stored, secret, sized)
    BY <1>11, <1>12, <1>14, <1>15, FinalIsRoot
  <2> QED BY <1>5, <1>6, <1>8, <1>11, <2>1
<1>16. PICK data : /\ HandOut(root, totalSize, "finalize", data)
                   /\ data # Null => data = Bytes(sent)
  BY <1>8, <1>13 DEF FinalizeFlushed
<1>17. FileHolds(file', stored, isPublic, calls)
  <2>1. RootAs(root, sent, stored, isPublic)
    BY <1>7, <1>15, <1>19 DEF RootAs
  <2> QED BY <1>1, <1>6, <1>16, <2>1, HandedOut
<1>18. calls' \in Nat /\ calls' # 0
  BY <1>3, <1>4 DEF FileInv
<1> QED BY <1>2, <1>3, <1>4, <1>8, <1>17, <1>18 DEF FileInv

(* currentRoot(): its tree has a leaf more, for what the buffer holds.     *)
LEMMA CheckpointIsCut ==
  ASSUME FileInv, NEW secret, secret = ~isPublic, NEW root,
         root = buildTreeFromChunks(Checkpoint, secret), chunks # <<>> \/ buffer # <<>>
  PROVE  \E total \in Nat :
           /\ total = sent - Unwritten(tasks)
           /\ IsPut(root)
           /\ \A f : f.hash = root.hash /\ f.key = root.key
                       /\ f.blocks = root.blocks \union Stored(buffer) =>
                IsRoot(f, total, blocks, secret, TRUE)
<1>1. /\ WriterInv /\ isPublic \in BOOLEAN /\ sent \in Nat /\ chunks \in Seq(Links)
      /\ secret \in BOOLEAN
  BY DEF FileInv, WriterInv
<1>2. PICK cuts \in [1 .. Len(chunks) + 1 -> 0 .. sent], at \in 0 .. sent, end \in 0 .. sent :
        Written(cuts, at, end)
  BY <1>1 DEF WriterInv
<1>3. /\ at = cuts[Len(chunks) + 1] /\ CutAt(cuts) /\ at <= end /\ buffer = Part(at, end)
      /\ at \in Nat /\ end \in Nat
  BY <1>1, <1>2 DEF Written
<1>4. end = sent - Unwritten(tasks)
  <2>1. CASE tasks = {}
    <3>1. end = sent
      BY <1>2, <2>1 DEF Written
    <3>2. Unwritten(tasks) = 0
      BY <2>1, UnwrittenOfNone
    <3> QED BY <1>1, <3>1, <3>2
  <2>2. CASE tasks # {}
    <3>1. PICK t \in tasks : Awaits(t, end)
      BY <1>2, <2>2 DEF Written
    <3>2. tasks = {t} /\ t.rest = Part(end, sent)
      BY <3>1 DEF Awaits
    <3>3. Len(t.rest) = sent - end /\ sent - end \in Nat
      <4>1. end <= sent
        BY <1>1, <1>2
      <4> QED BY <1>1, <1>3, <3>2, <4>1, PartIsSeq
    <3>4. Unwritten(tasks) = sent - end
      BY <3>2, <3>3, UnwrittenOfOne
    <3> QED BY <1>1, <1>3, <3>4
  <2> QED BY <2>1, <2>2
<1>5. Sequence(chunks)
  BY <1>1 DEF Sequence
<1>6. PICK n \in Nat : n = Len(chunks)
  BY <1>5, SequenceIs
<1>18. PICK sized : sized = TRUE
  OBVIOUS
<1>7. Leaves(chunks, n, cuts, blocks, secret, sized)
  <2>1. ChunksCut(chunks, cuts, blocks, secret)
    BY <1>3 DEF CutAt, ChunksCut, FlushedLink, Stored
  <2> QED BY <1>1, <1>2, <1>5, <1>6, <2>1, ChunksAreLeaves
<1>8. PICK own : own = Stored(buffer)
  OBVIOUS
<1>9. PICK put : put = putBlob(Part(at, end), secret)
  OBVIOUS
<1>10. own = {put.hash} /\ put.blocks = own /\ own \subseteq ByteBlocks(secret)
  <2>1. put.hash \in ByteBlocks(secret) /\ put.blocks = {put.hash}
    BY <1>1, <1>3, <1>9, PartStored, PutOpened
  <2> QED BY <1>3, <1>8, <1>9, <2>1 DEF Stored
<1>11. PICK stored : stored = blocks \union own
  OBVIOUS
<1>12. Leaves(chunks, n, cuts, stored, secret, sized)
  BY <1>7, <1>11 DEF Leaves
<1>13. PICK links : links = Checkpoint
  OBVIOUS
<1>14. \E m \in Nat \ {0} : LeavesTo(links, m, end, stored, secret, sized)
  <2>1. LeavesTo(chunks, n, at, stored, secret, sized)
    BY <1>3, <1>6, <1>12 DEF LeavesTo
  <2>2. CASE buffer = <<>>
    <3>1. at = end
      <4>1. Len(Part(at, end)) = end - at
        BY <1>3, PartIsSeq
      <4>2. Len(Part(at, end)) = 0
        BY <1>3, <2>2
      <4> QED BY <1>3, <4>1, <4>2
    <3>2. links = chunks /\ n # 0
      <4>1. links = chunks /\ chunks # <<>>
        BY <1>13, <2>2 DEF Checkpoint
      <4> QED BY <1>1, <1>6, <4>1, EmptySeq
    <3> QED BY <1>6, <2>1, <3>1, <3>2
  <2>3. CASE buffer # <<>>
    <3>1. PICK link : link = FlushLink(put, Part(at, end))
      OBVIOUS
    <3>2. links = Append(chunks, link)
      BY <1>3, <1>9, <1>13, <2>3, <3>1 DEF Checkpoint, FlushedLink
    <3>3. put.blocks \subseteq stored
      BY <1>10, <1>11
    <3>7. at < end
      <4>1. at # end
        BY <1>3, <2>3, EmptyPart
      <4> QED BY <1>3, <4>1
    <3>4. PartLink(link, at, end, secret, sized) /\ link.hash \in stored
      <4>1. \A any : PartLink(link, at, end, secret, any) /\ link.hash \in stored
        BY <1>1, <1>3, <1>9, <3>1, <3>3, <3>7, FlushLinks
      <4> QED BY <4>1
    <3>5. LeavesTo(Append(chunks, link), n + 1, end, stored, secret, sized)
      BY <1>1, <1>3, <1>6, <2>1, <3>4, LeafAdded
    <3>6. n + 1 \in Nat \ {0}
      BY <1>6
    <3> QED BY <3>2, <3>5, <3>6
  <2> QED BY <2>2, <2>3
<1>15. PICK m, new :
         m \in Nat \ {0} /\ Leaves(links, m, new, stored, secret, sized) /\ new[m + 1] = end
  BY <1>14 DEF LeavesTo
<1>16. BuiltOf(root, links, m, Levels(links, secret), secret)
  <2>1. root = buildTreeFromChunks(links, secret)
    BY <1>13
  <2> QED BY <1>1, <1>15, <2>1, Built DEF Leaves
<1>17. ASSUME NEW f, f.hash = root.hash, f.key = root.key,
              f.blocks = root.blocks \union Stored(buffer)
       PROVE  IsRoot(f, end, blocks, secret, sized)
  <2>1. PICK have : have = blocks
    OBVIOUS
  <2>2. Leaves(links, m, new, have \union own, secret, sized) /\ own \subseteq ByteBlocks(secret)
    BY <1>10, <1>11, <1>15, <2>1
  <2>3. f.hash = root.hash /\ f.key = root.key /\ f.blocks = root.blocks \union own
    BY <1>8, <1>17
  <2>4. IsRoot(f, new[m + 1], have, secret, sized)
    <3>1. AreChunks(own, secret) /\ WithOwn(f, root, own)
      BY <2>2, <2>3 DEF AreChunks, WithOwn
    <3> QED BY <1>1, <1>15, <1>16, <2>2, <3>1, BuiltIsRoot
  <2> QED BY <1>15, <2>1, <2>4
<1> QED BY <1>3, <1>4, <1>16, <1>17, <1>18 DEF BuiltOf

(* currentRoot() hands out the root of that checkpoint.                    *)
LEMMA CurrentRootHolds ==
  ASSUME FileInv, currentRoot
  PROVE  FileInv'
<1>1. /\ UNCHANGED <<isPublic, buffer, blocks, calls, tasks>> /\ UNCHANGED chunkVars
      /\ isPublic \in BOOLEAN
  BY DEF currentRoot, chunkVars, writerVars, FileInv, WriterInv
<1>2. WriterInv'
  BY <1>1, StutterWritten DEF FileInv
<1>3. PICK secret \in BOOLEAN : secret = ~isPublic
  BY <1>1
<1>4. PICK root : root = buildTreeFromChunks(Checkpoint, secret)
  OBVIOUS
<1>5. PICK total \in Nat :
        /\ total = sent - Unwritten(tasks) /\ IsPut(root)
        /\ \A f : f.hash = root.hash /\ f.key = root.key
                    /\ f.blocks = root.blocks \union Stored(buffer) =>
             IsRoot(f, total, blocks, secret, TRUE)
  <2>1. chunks # <<>> \/ buffer # <<>>
    BY DEF currentRoot
  <2> QED BY <1>3, <1>4, <2>1, CheckpointIsCut
<1>6. PICK all : all = [root EXCEPT !.blocks = @ \union Stored(buffer)]
  OBVIOUS
<1>7. /\ all.hash = root.hash /\ all.key = root.key
      /\ all.blocks = root.blocks \union Stored(buffer)
  BY <1>5, <1>6, MoreBlocks
<1>8. PICK data : /\ HandOut(all, Null, "currentRoot", data)
                  /\ data # Null => data = Bytes(total)
  BY <1>3, <1>4, <1>5, <1>6 DEF currentRoot
<1>9. ASSUME NEW f, f.hash = all.hash, f.key = all.key, f.blocks = all.blocks
      PROVE  IsRoot(f, total, blocks, secret, TRUE)
  BY <1>5, <1>7, <1>9
<1>10. PICK size : size = Null /\ HandOut(all, size, "currentRoot", data)
  BY <1>8
<1>11. FileHolds(file', blocks, isPublic, calls)
  <2>1. data # Null => data = Bytes(total) /\ (size # Null => size = total)
    BY <1>8, <1>10
  <2>2. RootAs(all, total, blocks, isPublic)
    BY <1>3, <1>9 DEF RootAs
  <2>3. PICK have, pub : have = blocks /\ pub = isPublic
    OBVIOUS
  <2>4. RootAs(all, total, have, pub)
    BY <2>2, <2>3
  <2>5. FileHolds(file', have, pub, calls)
    BY <1>1, <1>5, <1>10, <2>1, <2>3, <2>4, HandedOut
  <2> QED BY <2>3, <2>5
<1> QED BY <1>1, <1>2, <1>11 DEF FileInv

(* putFile() of a whole file hands out its root.                           *)
LEMMA PutWholeHolds ==
  ASSUME FileInv, NEW n \in 0 .. MaxBytes, NEW secret \in BOOLEAN, PutWhole(n, secret)
  PROVE  FileInv'
<1>1. /\ UNCHANGED <<isPublic, buffer, blocks, calls, tasks>> /\ UNCHANGED chunkVars
      /\ calls = 0 /\ blocks = {} /\ n \in Nat
  BY WriterAssumption DEF PutWhole, chunkVars, writerVars, FileInv
<1>2. WriterInv'
  BY <1>1, StutterWritten DEF FileInv
<1>3. PICK root : root = PutChunked(Bytes(n), secret)
  OBVIOUS
<1>4. HandOut(root, n, "putFile", Bytes(n))
  BY <1>3 DEF PutWhole, putFile, putFileEncrypted
<1>5. PICK f : f = file'
  OBVIOUS
<1>6. /\ f.hash = root.hash /\ f.key = root.key /\ f.blocks = root.blocks
      /\ f.size = n /\ f.data = Bytes(n) /\ f.by = "putFile"
  BY <1>4, <1>5 DEF HandOut
<1>9. PICK sized \in BOOLEAN : sized = ~secret
  OBVIOUS
<1>7. IsRoot(f, n, {}, secret, sized)
  BY <1>1, <1>3, <1>6, <1>9, WholeIsRoot
<1>10. RootOf(f, n, {}, isPublic, 0, secret, sized)
  BY <1>6, <1>7, <1>9 DEF RootOf
<1>8. FileHolds(f, {}, isPublic, 0)
  BY <1>1, <1>10 DEF FileHolds
<1> QED BY <1>1, <1>2, <1>5, <1>8 DEF FileInv

LEMMA StutterHolds == FileInv /\ UNCHANGED vars => FileInv'
<1> SUFFICES ASSUME FileInv, UNCHANGED vars
             PROVE  FileInv'
  OBVIOUS
<1>1. /\ UNCHANGED <<isPublic, buffer, blocks, calls, tasks, file>> /\ UNCHANGED chunkVars
  BY DEF vars, chunkVars, writerVars
<1>2. WriterInv'
  BY <1>1, StutterWritten DEF FileInv
<1> QED BY <1>1, <1>2 DEF FileInv

(* From the invariant: the root reads back.                                *)
LEMMA HeldFilesRead ==
  ASSUME NullIsApart, FileInv
  PROVE  FilesReadBack
<1> SUFFICES ASSUME file # Null, file.data # Null
             PROVE  /\ file.data = IF file.key = Null THEN readFile(Store, file.hash)
                                   ELSE readFileEncrypted(Store, file.hash, file.key)
                    /\ file.size # Null => file.size = Len(file.data)
  BY DEF FilesReadBack
<1>1. PICK total \in Nat, secret \in BOOLEAN, sized \in BOOLEAN :
        /\ IsRoot(file, total, blocks, secret, sized) /\ (calls = 0 \/ secret = ~isPublic)
        /\ file.data = Bytes(total) /\ (file.size # Null => file.size = total)
  BY DEF FileInv, FileHolds, RootOf
<1>2. blocks \subseteq ByteBlocks(secret)
  BY <1>1 DEF FileInv
<1>3. /\ WholeFile(blocks \union file.blocks, file.hash, file.key, secret) = Part(0, total)
      /\ file.key = Null <=> ~secret
  BY <1>1, <1>2, RootReads
<1>4. file.data = Part(0, total) /\ Len(file.data) = total
  BY <1>1, BytesArePart
<1>5. file.size # Null => file.size = Len(file.data)
  BY <1>1, <1>4
<1>6. CASE secret = TRUE
  <2>1. /\ WholeFile(blocks \union file.blocks, file.hash, file.key, TRUE) = Part(0, total)
        /\ file.key # Null
    BY <1>3, <1>6
  <2> QED BY <1>4, <1>5, <2>1 DEF readFileEncrypted, Store
<1>7. CASE secret = FALSE
  <2>1. /\ WholeFile(blocks \union file.blocks, file.hash, Null, FALSE) = Part(0, total)
        /\ file.key = Null
    BY <1>3, <1>7
  <2> QED BY <1>4, <1>5, <2>1 DEF readFile, Store
<1> QED BY <1>6, <1>7

(* And parts of it are what slices of the whole would be.                  *)
LEMMA HeldFilesSeek ==
  ASSUME NullIsApart, FileInv
  PROVE  StreamsSeek
<1> SUFFICES ASSUME file # Null, file.data # Null, file.by # "putFile" \/ file.key = Null
             PROVE  SeeksAgree(file)
  BY DEF StreamsSeek
<1>1. PICK f, stored : f = file /\ stored = blocks
  OBVIOUS
<1>2. PICK total \in Nat, secret \in BOOLEAN, sized \in BOOLEAN :
        RootOf(f, total, stored, isPublic, calls, secret, sized)
  BY <1>1 DEF FileInv, FileHolds
<1>3. /\ IsRoot(f, total, stored, secret, sized) /\ (calls = 0 \/ secret = ~isPublic)
      /\ (f.by # "putFile" \/ ~secret) => sized = TRUE
      /\ f.data = Bytes(total)
  BY <1>2 DEF RootOf
<1>4. stored \subseteq ByteBlocks(secret)
  BY <1>1, <1>3 DEF FileInv
<1>5. f.key = Null <=> ~secret
  BY <1>3, <1>4, RootReads
<1>6. sized = TRUE
  BY <1>1, <1>3, <1>5
<1>7. PICK store : store = stored \union f.blocks /\ store = Store
  BY <1>1 DEF Store
<1>8. Seeks(store, f, total, secret)
  <2>1. /\ IsRoot(f, total, stored, secret, sized) /\ stored \subseteq ByteBlocks(secret)
        /\ sized = TRUE /\ total \in Nat /\ secret \in BOOLEAN
    BY <1>2, <1>3, <1>4, <1>6
  <2>2. Seeks(stored \union f.blocks, f, total, secret)
    BY <2>1, RootSeeks
  <2> QED BY <1>7, <2>2
<1>9. PICK data : data = f.data /\ data = Part(0, total) /\ Len(data) = total
  BY <1>3, BytesArePart
<1>10. /\ \A from \in 0 .. total : Slice(data, from, total) = Part(from, total)
       /\ \A from \in 0 .. total, to \in Nat : from <= to =>
            Slice(data, from, to) = Part(from, Least(to, total))
  <2>1. PICK zero \in Nat : zero = 0 /\ zero <= total
    OBVIOUS
  <2>2. /\ Len(Part(zero, total)) = total - zero
        /\ \A from \in 0 .. total - zero :
             Slice(Part(zero, total), from, Len(Part(zero, total))) = Part(zero + from, total)
        /\ \A from \in 0 .. total - zero, to \in Nat : from <= to =>
             Slice(Part(zero, total), from, to) = Part(zero + from, zero + Least(to, total - zero))
    BY <2>1, SlicesOfPart
  <2>3. /\ total - zero = total /\ data = Part(zero, total)
        /\ \A from \in 0 .. total : zero + from = from
        /\ \A to \in Nat : zero + Least(to, total) = Least(to, total)
    BY <1>9, <2>1 DEF Least
  <2> QED BY <1>9, <2>2, <2>3
<1>11. ASSUME NEW from \in 0 .. total
       PROVE  Slice(data, from, total) =
                IF f.key = Null THEN readFileStream(store, f.hash, from)
                ELSE readFileEncryptedStream(store, f.hash, f.key, from)
  <2>1. FileFrom(store, f.hash, f.key, from, secret) = Slice(data, from, total)
    BY <1>8, <1>10 DEF Seeks
  <2>2. CASE secret = TRUE
    BY <1>5, <2>1, <2>2 DEF readFileEncryptedStream
  <2>3. CASE secret = FALSE
    BY <1>5, <2>1, <2>3 DEF readFileStream
  <2> QED BY <2>2, <2>3
<1>12. ASSUME NEW from \in 0 .. total, NEW to \in from .. total + 1
       PROVE  Slice(data, from, to) =
                IF f.key = Null THEN readFileRange(store, f.hash, from, to)
                ELSE readFileEncryptedRange(store, f.hash, f.key, from, to)
  <2>1. to \in Nat /\ from <= to
    OBVIOUS
  <2>2. FileRange(store, f.hash, f.key, from, to, secret) = Slice(data, from, to)
    BY <1>8, <1>10, <2>1 DEF Seeks
  <2>3. CASE secret = TRUE
    BY <1>5, <2>2, <2>3 DEF readFileEncryptedRange
  <2>4. CASE secret = FALSE
    BY <1>5, <2>2, <2>4 DEF readFileRange
  <2> QED BY <2>3, <2>4
<1>13. SeeksAgree(f)
  BY <1>7, <1>9, <1>11, <1>12 DEF SeeksAgree
<1> QED BY <1>1, <1>13

(* As long as calls follow one another, every step leaves the invariant.   *)
LEMMA FileInvAlways ==
  ASSUME ~Overlapping
  PROVE  Spec => []FileInv
<1>1. Init => FileInv
  BY InitHolds
<1>2. FileInv /\ [Next]_vars => FileInv'
  <2> SUFFICES ASSUME FileInv, [Next]_vars
               PROVE  FileInv'
    OBVIOUS
  <2>1. ASSUME NEW n \in 1 .. MaxAppend, append(n)
        PROVE  FileInv'
    BY <2>1, AppendHolds
  <2>2. ASSUME NEW t \in tasks, AppendGoesOn(t)
        PROVE  FileInv'
    BY <2>2, AppendGoesOnHolds
  <2>3. ASSUME NEW t \in tasks, FinalizeFlushed(t)
        PROVE  FileInv'
    BY <2>3, FinalizeFlushedHolds
  <2>4. ASSUME finalize
        PROVE  FileInv'
    BY <2>4, FinalizeHolds
  <2>5. ASSUME currentRoot
        PROVE  FileInv'
    BY <2>5, CurrentRootHolds
  <2>6. ASSUME NEW n \in 0 .. MaxBytes, NEW secret \in BOOLEAN, PutWhole(n, secret)
        PROVE  FileInv'
    BY <2>6, PutWholeHolds
  <2>7. ASSUME UNCHANGED vars
        PROVE  FileInv'
    BY <2>7, StutterHolds
  <2> QED BY <2>1, <2>2, <2>3, <2>4, <2>5, <2>6, <2>7 DEF Next
<1> QED BY <1>1, <1>2, PTL DEF Spec

(* When calls follow one another, the last root that was handed out reads  *)
(* back as the bytes that had been appended by then, and its size is their *)
(* number: for chunks and nodes of any sizes, files of any length, plain   *)
(* or encrypted, at the end or on the way.                                 *)
THEOREM FilesReadBackAlways ==
  ASSUME NullIsApart, ~Overlapping
  PROVE  Spec => []FilesReadBack
<1>1. Spec => []FileInv
  BY FileInvAlways
<1>2. FileInv => FilesReadBack
  BY HeldFilesRead
<1> QED BY <1>1, <1>2, PTL

(* And from any offset on, or in any range, it reads as that part of those *)
(* bytes: readFileStream() and readFileRange() of what a writer or         *)
(* putFile() wrote, and of what a writer encrypted.  What putFile()        *)
(* encrypted is left out, its links have the sizes of the ciphertexts.     *)
THEOREM StreamsSeekAlways ==
  ASSUME NullIsApart, ~Overlapping
  PROVE  Spec => []StreamsSeek
<1>1. Spec => []FileInv
  BY FileInvAlways
<1>2. FileInv => StreamsSeek
  BY HeldFilesSeek
<1> QED BY <1>1, <1>2, PTL
=============================================================================

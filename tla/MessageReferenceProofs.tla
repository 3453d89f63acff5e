------------------------ MODULE MessageReferenceProofs ------------------------
(***************************************************************************)
(* split_string and the whole way of a line against their references.      *)
(***************************************************************************)
EXTENDS MessageFormatProofs

-----------------------------------------------------------------------------
(***************************************************************************)
(* The pieces of a text by where they start.                               *)
(***************************************************************************)

LEMMA StartsType ==
  ASSUME NEW s \in Seq(Int), NEW sep
  PROVE  /\ IsFiniteSet(Starts(s, sep)) /\ Starts(s, sep) \subseteq 1 .. Len(s) + 1
         /\ 1 \in Starts(s, sep)
<1>1. Len(s) + 1 \in Int /\ Len(s) + 1 >= 1
  OBVIOUS
<1>2. IsFiniteSet(1 .. Len(s) + 1)
  BY <1>1, FS_Interval
<1>3. Starts(s, sep) \subseteq 1 .. Len(s) + 1
  BY DEF Starts
<1>4. 1 \in Starts(s, sep)
  BY <1>1 DEF Starts
<1> QED BY <1>2, <1>3, <1>4, FS_Subset

\* How many pieces start from i to j, and from i on.
Rank(S, i, j) == Cardinality({k \in S : i <= k /\ k <= j})
Behind(S, i)  == Cardinality({k \in S : i <= k})

\* Nothing starts between i and r.
NextStart(S, i, r) ==
  i \in S /\ r \in S /\ i < r /\ \A k \in S : i <= k => k = i \/ r <= k

LEMMA RankSteps ==
  ASSUME NEW S, IsFiniteSet(S), S \subseteq Nat, NEW i \in Nat, NEW r \in Nat,
         NextStart(S, i, r)
  PROVE  /\ Behind(S, i) = Behind(S, r) + 1 /\ Behind(S, r) \in Nat
         /\ Rank(S, i, i) = 1
         /\ \A j \in S : r <= j => /\ Rank(S, i, j) = Rank(S, r, j) + 1
                                   /\ Rank(S, r, j) \in Nat
<1>1. i \in S /\ r \in S /\ i < r /\ \A k \in S : i <= k => k = i \/ r <= k
  BY DEF NextStart
<1>2. Behind(S, i) = Behind(S, r) + 1 /\ Behind(S, r) \in Nat
  <2> DEFINE T == {k \in S : r <= k}
  <2>1. IsFiniteSet(T)
    BY FS_Subset
  <2>2. {k \in S : i <= k} = T \cup {i} /\ i \notin T
    <3>1. \A k \in S : i <= k <=> k = i \/ r <= k
      BY <1>1
    <3>2. i \notin T
      BY <1>1
    <3>3. {k \in S : i <= k} = T \cup {i}
      BY <1>1, <3>1, Zenon
    <3> QED BY <3>2, <3>3
  <2> HIDE DEF T
  <2>3. Cardinality(T \cup {i}) = Cardinality(T) + 1 /\ Cardinality(T) \in Nat
    BY <2>1, <2>2, FS_AddElement, FS_CardinalityType
  <2> QED BY <2>2, <2>3 DEF Behind, T
<1>3. Rank(S, i, i) = 1
  <2>1. {k \in S : i <= k /\ k <= i} = {i}
    <3>1. \A k \in S : i <= k /\ k <= i <=> k = i
      OBVIOUS
    <3> QED BY <1>1, <3>1
  <2> QED BY <2>1, FS_Singleton DEF Rank
<1>4. ASSUME NEW j \in S, r <= j
      PROVE  Rank(S, i, j) = Rank(S, r, j) + 1 /\ Rank(S, r, j) \in Nat
  <2> DEFINE T == {k \in S : r <= k /\ k <= j}
  <2>1. IsFiniteSet(T)
    BY FS_Subset
  <2>2. {k \in S : i <= k /\ k <= j} = T \cup {i} /\ i \notin T
    <3>1. \A k \in S : i <= k /\ k <= j <=> k = i \/ (r <= k /\ k <= j)
      BY <1>1, <1>4
    <3>2. i \notin T
      BY <1>1
    <3>3. {k \in S : i <= k /\ k <= j} = T \cup {i}
      BY <1>1, <3>1, Zenon
    <3> QED BY <3>2, <3>3
  <2> HIDE DEF T
  <2>3. Cardinality(T \cup {i}) = Cardinality(T) + 1 /\ Cardinality(T) \in Nat
    BY <2>1, <2>2, FS_AddElement, FS_CardinalityType
  <2> QED BY <2>2, <2>3 DEF Rank, T
<1> QED BY <1>2, <1>3, <1>4

LEMMA RankOfLast ==
  ASSUME NEW S, S \subseteq Nat, NEW i \in S, \A k \in S : i <= k => k = i
  PROVE  Behind(S, i) = 1 /\ Rank(S, i, i) = 1
<1>1. {k \in S : i <= k} = {i} /\ {k \in S : i <= k /\ k <= i} = {i}
  <2>1. \A k \in S : (i <= k <=> k = i) /\ (i <= k /\ k <= i <=> k = i)
    OBVIOUS
  <2> QED BY <2>1
<1> QED BY <1>1, FS_Singleton DEF Behind, Rank

\* What a step of split_string does is what the reference says of the start.
LEMMA StepOfStarts ==
  ASSUME NEW s \in Seq(Int), NEW sep \in Int, NEW i \in Starts(s, sep),
         NEW t \in Nat, NEW r \in Nat, PieceBefore(s, sep, i, t, r)
  PROVE  NextStart(Starts(s, sep), i, r) /\ PieceAt(s, sep, i) = SubSeq(s, i, t - 1)
<1> DEFINE n == Len(s)
<1>1. n \in Nat /\ i \in 1 .. n + 1
  BY DEF Starts
<1>2. /\ t \in i .. n /\ s[t] = sep /\ \A j \in i .. t - 1 : s[j] # sep
      /\ r \in t + 1 .. n + 1 /\ \A j \in t + 1 .. r - 1 : s[j] = sep
      /\ r <= n => s[r] # sep
  BY DEF PieceBefore
<1> HIDE DEF n
<1>3. r \in Starts(s, sep)
  <2>1. s[r - 1] = sep
    <3>1. r - 1 = t \/ r - 1 \in t + 1 .. r - 1
      BY <1>1, <1>2
    <3> QED BY <1>2, <3>1
  <2>2. r \in 1 .. n + 1 /\ (r = n + 1 \/ r <= n)
    BY <1>1, <1>2
  <2> QED BY <1>2, <2>1, <2>2 DEF Starts, n
<1>4. ASSUME NEW k \in Starts(s, sep), i < k, k < r PROVE FALSE
  <2>1. k \in 1 .. n + 1 /\ s[k - 1] = sep /\ (k = n + 1 \/ s[k] # sep)
    BY <1>1, <1>4 DEF Starts, n
  <2>2. CASE k <= t
    <3>1. k - 1 \in i .. t - 1
      BY <1>1, <1>2, <1>4, <2>1, <2>2
    <3> QED BY <1>2, <2>1, <3>1
  <2>3. CASE k > t
    <3>1. k \in t + 1 .. r - 1 /\ k # n + 1
      BY <1>1, <1>2, <1>4, <2>1, <2>3
    <3> QED BY <1>2, <2>1, <3>1
  <2> QED BY <1>2, <2>1, <2>2, <2>3
<1>5. NextStart(Starts(s, sep), i, r)
  <2>1. ASSUME NEW k \in Starts(s, sep), i <= k PROVE k = i \/ r <= k
    <3>1. k \in Nat /\ i \in Nat /\ r \in Nat
      BY <1>1 DEF Starts, n
    <3> QED BY <1>4, <2>1, <3>1
  <2>2. i < r
    BY <1>1, <1>2
  <2> QED BY <1>3, <2>1, <2>2 DEF NextStart
<1>6. PieceAt(s, sep, i) = SubSeq(s, i, t - 1)
  <2> DEFINE e == {j \in i .. n + 1 : j = n + 1 \/ s[j] = sep}
             m == Min(e)
  <2>1. t \in e /\ e \in SUBSET Nat /\ e # {}
    <3>1. t \in e
      BY <1>1, <1>2
    <3>2. \A j \in i .. n + 1 : j \in Nat
      BY <1>1
    <3> QED BY <3>1, <3>2
  <2>2. \A j \in e : t <= j
    BY <1>1, <1>2
  <2> HIDE DEF e
  <2>3. m \in e /\ \A j \in e : m <= j
    BY <2>1, MinOfSet
  <2>4. m = t
    <3> HIDE DEF m
    <3>1. m \in Nat /\ m <= t /\ t <= m
      BY <2>1, <2>2, <2>3
    <3> QED BY <3>1
  <2> QED BY <2>4 DEF PieceAt, e, n
<1> QED BY <1>5, <1>6

LEMMA LastOfStarts ==
  ASSUME NEW s \in Seq(Int), NEW sep \in Int, NEW i \in Starts(s, sep),
         LastPiece(s, sep, i)
  PROVE  /\ \A k \in Starts(s, sep) : i <= k => k = i
         /\ PieceAt(s, sep, i) = From(s, i)
<1> DEFINE n == Len(s)
<1>1. n \in Nat /\ i \in 1 .. n + 1
  BY DEF Starts
<1>2. \A j \in i .. n : s[j] # sep
  BY DEF LastPiece
<1> HIDE DEF n
<1>3. ASSUME NEW k \in Starts(s, sep), i < k PROVE FALSE
  <2>1. k \in 1 .. n + 1 /\ s[k - 1] = sep
    BY <1>1, <1>3 DEF Starts, n
  <2>2. k - 1 \in i .. n
    BY <1>1, <1>3, <2>1
  <2> QED BY <1>2, <2>1, <2>2
<1>4. \A k \in Starts(s, sep) : i <= k => k = i
  <2> SUFFICES ASSUME NEW k \in Starts(s, sep), i <= k PROVE k = i
    OBVIOUS
  <2>1. k \in Nat /\ i \in Nat
    BY <1>1 DEF Starts, n
  <2> QED BY <1>3, <2>1
<1>5. PieceAt(s, sep, i) = From(s, i)
  <2> DEFINE e == {j \in i .. n + 1 : j = n + 1 \/ s[j] = sep}
             m == Min(e)
  <2>1. n + 1 \in e /\ e \in SUBSET Nat /\ e # {}
    <3>1. n + 1 \in e
      BY <1>1
    <3>2. \A j \in i .. n + 1 : j \in Nat
      BY <1>1
    <3> QED BY <3>1, <3>2
  <2>2. \A j \in e : j = n + 1
    BY <1>1, <1>2
  <2> HIDE DEF e
  <2>3. m \in e
    BY <2>1, MinOfSet
  <2>4. m - 1 = n
    <3> HIDE DEF m
    <3> QED BY <1>1, <2>2, <2>3
  <2>5. PieceAt(s, sep, i) = SubSeq(s, i, m - 1)
    BY DEF PieceAt, e, n
  <2> HIDE DEF m
  <2> QED BY <2>4, <2>5 DEF From, n
<1> QED BY <1>4, <1>5

\* From a start on, split_string gives the pieces of the starts in their order.
Ranked(s, sep, i) ==
  LET data == SplitString(From(s, i), sep)
      S    == Starts(s, sep)
  IN  /\ data \in Seq(Seq(Int)) /\ Len(data) = Behind(S, i)
      /\ \A j \in S : i <= j => /\ Rank(S, i, j) \in 1 .. Len(data)
                                /\ data[Rank(S, i, j)] = PieceAt(s, sep, j)
      /\ \A k \in 1 .. Len(data) : \E j \in S : i <= j /\ Rank(S, i, j) = k

LEMMA RankedLast ==
  ASSUME NEW s \in Seq(Int), NEW sep \in Int, NEW i \in Starts(s, sep),
         LastPiece(s, sep, i)
  PROVE  Ranked(s, sep, i)
<1> DEFINE S == Starts(s, sep)
           data == SplitString(From(s, i), sep)
           p == From(s, i)
<1>1. S \subseteq Nat /\ i \in Nat
  BY DEF Starts
<1>2. /\ \A k \in S : i <= k => k = i
      /\ PieceAt(s, sep, i) = p
  BY LastOfStarts
<1>3. Behind(S, i) = 1 /\ Rank(S, i, i) = 1
  <2> HIDE DEF S
  <2>1. i \in S
    BY DEF S
  <2> QED BY <1>1, <1>2, <2>1, RankOfLast
<1>4. data = <<p>>
  BY DEF LastPiece
<1>5. data \in Seq(Seq(Int))
  <2>1. p \in Seq(Int)
    BY <1>1, FromType DEF Starts
  <2> QED BY <2>1, SplitType
<1>6. Len(data) = 1 /\ data[1] = p
  <2> HIDE DEF p, data
  <2> QED BY <1>4
<1>7. i \in S /\ i <= i
  BY <1>1
<1> HIDE DEF S, data, p
<1>8. \A k \in 1 .. 1 : k = 1
  OBVIOUS
<1>9. 1 \in 1 .. 1
  OBVIOUS
<1>10. /\ data \in Seq(Seq(Int)) /\ Len(data) = Behind(S, i)
       /\ \A j \in S : i <= j => /\ Rank(S, i, j) \in 1 .. Len(data)
                                 /\ data[Rank(S, i, j)] = PieceAt(s, sep, j)
       /\ \A k \in 1 .. Len(data) : \E j \in S : i <= j /\ Rank(S, i, j) = k
  BY <1>2, <1>3, <1>5, <1>6, <1>7, <1>8, <1>9
<1> QED BY <1>10 DEF Ranked, S, data

LEMMA RankedStep ==
  ASSUME NEW s \in Seq(Int), NEW sep \in Int, NEW i \in Starts(s, sep),
         NEW t \in Nat, NEW r \in Nat, PieceBefore(s, sep, i, t, r), Ranked(s, sep, r)
  PROVE  Ranked(s, sep, i)
<1> DEFINE S == Starts(s, sep)
           data == SplitString(From(s, i), sep)
           next == SplitString(From(s, r), sep)
           p == SubSeq(s, i, t - 1)
<1>1. S \subseteq Nat /\ i \in Nat /\ IsFiniteSet(S) /\ i \in S
  <2>1. S \subseteq Nat
    BY DEF Starts
  <2> HIDE DEF S
  <2>2. IsFiniteSet(S) /\ i \in S
    BY StartsType DEF S
  <2> QED BY <2>1, <2>2
<1>2. NextStart(S, i, r) /\ PieceAt(s, sep, i) = p
  BY StepOfStarts
<1>3. i < r /\ \A j \in S : i <= j => j = i \/ r <= j
  BY <1>2 DEF NextStart
<1>4. data = <<p>> \o next
  BY DEF PieceBefore
<1>5. /\ next \in Seq(Seq(Int)) /\ Len(next) = Behind(S, r)
      /\ \A j \in S : r <= j => /\ Rank(S, r, j) \in 1 .. Len(next)
                                /\ next[Rank(S, r, j)] = PieceAt(s, sep, j)
      /\ \A k \in 1 .. Len(next) : \E j \in S : r <= j /\ Rank(S, r, j) = k
  BY DEF Ranked
<1>6. data \in Seq(Seq(Int))
  <2>1. From(s, i) \in Seq(Int)
    <3>1. i <= Len(s) + 1 /\ 1 <= i
      BY DEF Starts
    <3> QED BY <1>1, <3>1, FromType
  <2> QED BY <2>1, SplitType
<1>7. p \in Seq(Int)
  <2> DEFINE j == t - 1
  <2>1. j \in Nat /\ j <= Len(s) /\ 1 <= i
    BY DEF PieceBefore, Starts
  <2> HIDE DEF j
  <2>2. SubSeq(s, i, j) \in Seq(Int)
    BY <1>1, <2>1, SubSeqType
  <2> QED BY <2>2 DEF j
<1> HIDE DEF S, data, next, p
<1>8. /\ Len(next) \in Nat /\ Len(data) = Len(next) + 1 /\ data[1] = p
      /\ \A k \in 1 .. Len(next) : data[k + 1] = next[k]
  BY <1>4, <1>5, <1>7
<1>9. /\ Behind(S, i) = Behind(S, r) + 1 /\ Rank(S, i, i) = 1
      /\ \A j \in S : r <= j => Rank(S, i, j) = Rank(S, r, j) + 1
  BY <1>1, <1>2, RankSteps
<1>10. Len(data) = Behind(S, i)
  BY <1>5, <1>8, <1>9
<1>11. ASSUME NEW j \in S, i <= j
       PROVE  Rank(S, i, j) \in 1 .. Len(data) /\ data[Rank(S, i, j)] = PieceAt(s, sep, j)
  <2>1. CASE j = i
    BY <1>2, <1>8, <1>9, <2>1
  <2>2. CASE r <= j
    <3> DEFINE k == Rank(S, r, j)
    <3>1. k \in 1 .. Len(next) /\ next[k] = PieceAt(s, sep, j)
      BY <1>5, <2>2
    <3>2. Rank(S, i, j) = k + 1
      BY <1>9, <2>2
    <3> HIDE DEF k
    <3>3. k + 1 \in 1 .. Len(data) /\ data[k + 1] = next[k]
      BY <1>8, <3>1
    <3> QED BY <3>1, <3>2, <3>3
  <2> QED BY <1>3, <1>11, <2>1, <2>2
<1>12. ASSUME NEW k \in 1 .. Len(data)
       PROVE  \E j \in S : i <= j /\ Rank(S, i, j) = k
  <2>1. CASE k = 1
    <3>1. i <= i
      BY <1>1
    <3> QED BY <1>1, <1>9, <2>1, <3>1
  <2>2. CASE k # 1
    <3>1. k - 1 \in 1 .. Len(next)
      BY <1>8, <2>2
    <3>2. PICK j \in S : r <= j /\ Rank(S, r, j) = k - 1
      BY <1>5, <3>1
    <3>3. Rank(S, i, j) = k
      <4>1. Rank(S, i, j) = (k - 1) + 1
        BY <1>9, <3>2
      <4> QED BY <4>1
    <3>4. i <= j
      BY <1>1, <1>3, <3>2
    <3> QED BY <3>3, <3>4
  <2> QED BY <2>1, <2>2
<1>13. /\ data \in Seq(Seq(Int)) /\ Len(data) = Behind(S, i)
       /\ \A j \in S : i <= j => /\ Rank(S, i, j) \in 1 .. Len(data)
                                 /\ data[Rank(S, i, j)] = PieceAt(s, sep, j)
       /\ \A k \in 1 .. Len(data) : \E j \in S : i <= j /\ Rank(S, i, j) = k
  BY <1>6, <1>10, <1>11, <1>12
<1> QED BY <1>13 DEF Ranked, S, data

\* An induction over what is left of the text.
LEMMA AllRanked ==
  ASSUME NEW s \in Seq(Int), NEW sep \in Int, NEW i \in Starts(s, sep)
  PROVE  Ranked(s, sep, i)
<1> DEFINE n == Len(s)
           Done == {m \in Nat : \A k \in Starts(s, sep) : n + 1 - k = m => Ranked(s, sep, k)}
<1>1. n \in Nat /\ \A k \in Starts(s, sep) : k \in Nat /\ 1 <= k /\ k <= n + 1
  BY DEF Starts
<1>2. ASSUME NEW m \in Nat, \A l \in Nat : l < m => l \in Done
      PROVE  m \in Done
  <2> SUFFICES ASSUME NEW k \in Starts(s, sep), n + 1 - k = m PROVE Ranked(s, sep, k)
    OBVIOUS
  <2>1. k \in 1 .. Len(s) + 1
    BY <1>1
  <2>2. CASE LastPiece(s, sep, k)
    BY <2>2, RankedLast
  <2>3. ASSUME NEW t \in Nat, NEW r \in Nat, PieceBefore(s, sep, k, t, r)
        PROVE  Ranked(s, sep, k)
    <3>1. r \in Starts(s, sep) /\ k < r
      BY <2>3, StepOfStarts DEF NextStart
    <3>2. n + 1 - r \in Nat /\ n + 1 - r < m
      BY <1>1, <3>1
    <3>3. n + 1 - r \in Done
      BY <1>2, <3>2
    <3>4. Ranked(s, sep, r)
      BY <3>1, <3>3
    <3> QED BY <2>3, <3>4, RankedStep
  <2> QED BY <2>1, <2>2, <2>3, SplitStep
<1>3. Nat \subseteq Done
  <2> HIDE DEF Done
  <2> QED BY <1>2, StrongInduction
<1>4. n + 1 - i \in Done
  <2> HIDE DEF Done
  <2> QED BY <1>1, <1>3
<1> QED BY <1>4

\* split_string agrees with its reference for every text.
LEMMA SplitIsPieces ==
  ASSUME NEW s \in Seq(Int), NEW sep \in Int
  PROVE  SplitString(s, sep) = Pieces(s, sep)
<1> DEFINE S == Starts(s, sep)
           data == SplitString(s, sep)
           rank(i) == Cardinality({j \in S : j <= i})
           pick(k) == CHOOSE i \in S : rank(i) = k
<1>1. 1 \in S /\ \A i \in S : i \in Nat /\ 1 <= i
  BY StartsType DEF Starts
<1>2. From(s, 1) = s
  BY DEF From
<1>3. /\ data \in Seq(Seq(Int)) /\ Len(data) = Behind(S, 1)
      /\ \A j \in S : 1 <= j => /\ Rank(S, 1, j) \in 1 .. Len(data)
                                /\ data[Rank(S, 1, j)] = PieceAt(s, sep, j)
      /\ \A k \in 1 .. Len(data) : \E j \in S : 1 <= j /\ Rank(S, 1, j) = k
  <2>1. Ranked(s, sep, 1)
    BY <1>1, AllRanked
  <2> QED BY <1>2, <2>1 DEF Ranked
<1> HIDE DEF S, data
<1>4. Behind(S, 1) = Cardinality(S)
  <2>1. {k \in S : 1 <= k} = S
    BY <1>1
  <2> QED BY <2>1 DEF Behind
<1>5. ASSUME NEW i \in S PROVE rank(i) = Rank(S, 1, i)
  <2>1. {j \in S : j <= i} = {j \in S : 1 <= j /\ j <= i}
    BY <1>1
  <2> QED BY <2>1 DEF Rank
<1>6. ASSUME NEW k \in 1 .. Len(data) PROVE data[k] = PieceAt(s, sep, pick(k))
  <2>1. \E i \in S : rank(i) = k
    BY <1>3, <1>5
  <2> HIDE DEF rank
  <2>2. pick(k) \in S /\ rank(pick(k)) = k
    BY <2>1
  <2> HIDE DEF pick
  <2>3. Rank(S, 1, pick(k)) = k /\ 1 <= pick(k)
    BY <1>1, <1>5, <2>2
  <2> QED BY <1>3, <2>2, <2>3
<1> HIDE DEF pick
<1>7. data = [k \in 1 .. Cardinality(S) |-> PieceAt(s, sep, pick(k))]
  <2>1. data = [k \in 1 .. Len(data) |-> data[k]]
    BY <1>3
  <2>2. [k \in 1 .. Len(data) |-> data[k]] = [k \in 1 .. Len(data) |-> PieceAt(s, sep, pick(k))]
    BY <1>6
  <2> QED BY <1>3, <1>4, <2>1, <2>2
<1> QED BY <1>7 DEF Pieces, pick, S, data

LEMMA IInvSplit == IInv => SplitAgrees
<1> SUFFICES ASSUME IInv, NEW part \in Parts
             PROVE  SplitString(line[part], Sep(part)) = Pieces(line[part], Sep(part))
  BY DEF SplitAgrees
<1>1. checked \in BOOLEAN /\ line \in Inputs[checked]
  BY DEF IInv, TypeOK
<1>2. line[part] \in Seq(Int) /\ Sep(part) \in Int
  BY <1>1, LineParts, SepIsNoDigit
<1> QED BY <1>2, SplitIsPieces

\* The parser sees the pieces between the runs of separators, with nothing lost
\* and nothing cut in two, whatever the line.
THEOREM SplitsAtRuns == Spec => []SplitAgrees
<1> QED BY IInvSplit, Invariance, PTL

-----------------------------------------------------------------------------
(***************************************************************************)
(* A text that int_to_str and the padding have written gives the number    *)
(* back that is in it, if that is not negative.                            *)
(***************************************************************************)

\* u is s behind k zeros.
Padds(u, s, k) ==
  /\ Len(u) = k + Len(s)
  /\ \A i \in 1 .. k : u[i] = 0
  /\ \A i \in 1 .. Len(s) : u[k + i] = s[i]

LEMMA ZerosIgnored ==
  ASSUME NEW u \in Seq(Digit), NEW s \in Seq(Digit), NEW k \in Nat, Padds(u, s, k)
  PROVE  Number(u) = Number(s)
<1> DEFINE n == Len(s)
<1>1. n \in Nat /\ Len(u) = k + n
  BY DEF Padds
<1> HIDE DEF n
<1>2. PICK p \in [0 .. k + n -> Nat] :
        /\ p[0] = 0 /\ Number(u) = p[k + n]
        /\ \A i \in 0 .. k + n - 1 : p[i + 1] = 10 * p[i] + u[i + 1]
  BY <1>1, NumberSteps
<1>3. PICK q \in [0 .. n -> Nat] :
        /\ q[0] = 0 /\ Number(s) = q[n]
        /\ \A i \in 0 .. n - 1 : q[i + 1] = 10 * q[i] + s[i + 1]
  BY NumberSteps DEF n
<1>4. /\ \A i \in 1 .. k : u[i] = 0
      /\ \A i \in 1 .. n : u[k + i] = s[i]
  BY DEF Padds, n
<1> DEFINE S == {i \in Nat : i <= k => p[i] = 0}
           T == {i \in Nat : i <= n => p[k + i] = q[i]}
<1>5. Nat \subseteq S
  <2>1. 0 \in S
    BY <1>2
  <2>2. ASSUME NEW i \in Nat, i \in S PROVE i + 1 \in S
    <3> SUFFICES ASSUME i + 1 <= k PROVE p[i + 1] = 0
      OBVIOUS
    <3>1. i \in 0 .. k + n - 1 /\ i + 1 \in 1 .. k
      BY <1>1
    <3>2. p[i + 1] = 10 * p[i] + u[i + 1] /\ u[i + 1] = 0 /\ p[i] = 0
      BY <1>2, <1>4, <2>2, <3>1
    <3> QED BY <3>2
  <2> HIDE DEF S
  <2> QED BY <2>1, <2>2, SimpleInduction
<1>6. p[k] = 0
  BY <1>5
<1>7. Nat \subseteq T
  <2>1. 0 \in T
    BY <1>3, <1>6
  <2>2. ASSUME NEW i \in Nat, i \in T PROVE i + 1 \in T
    <3> SUFFICES ASSUME i + 1 <= n PROVE p[k + (i + 1)] = q[i + 1]
      OBVIOUS
    <3>1. i \in 0 .. n - 1 /\ k + i \in 0 .. k + n - 1 /\ i + 1 \in 1 .. n
          /\ (k + i) + 1 = k + (i + 1)
      BY <1>1
    <3>2. p[k + (i + 1)] = 10 * p[k + i] + u[k + (i + 1)]
      BY <1>2, <3>1
    <3>3. u[k + (i + 1)] = s[i + 1] /\ q[i + 1] = 10 * q[i] + s[i + 1]
      BY <1>3, <1>4, <3>1
    <3>4. p[k + i] = q[i]
      BY <1>1, <2>2
    <3> QED BY <3>2, <3>3, <3>4
  <2> HIDE DEF T
  <2> QED BY <2>1, <2>2, SimpleInduction
<1>8. p[k + n] = q[n]
  BY <1>1, <1>7
<1> QED BY <1>2, <1>3, <1>8

\* A text of digits, and the digits that are its characters.
AllDigits(s) == s \in Seq(Int) /\ \A i \in 1 .. Len(s) : IsDigit(s[i])

DigitsOf(s) == [i \in 1 .. Len(s) |-> s[i] - Zero]

\* How many zeros are put before a number.
Zeros(n, width) ==
  IF n < 10 THEN IF width = 2 THEN 1 ELSE 3
  ELSE IF width = 2 THEN 0 ELSE IF n < 100 THEN 2 ELSE IF n < 1000 THEN 1 ELSE 0

LEMMA Joins ==
  ASSUME NEW a \in Seq(Int), NEW b \in Seq(Int)
  PROVE  IsJoin(a \o b, a, b, Int)
BY DEF IsJoin

LEMMA DecimalChars ==
  ASSUME NEW n \in Nat
  PROVE  LET d == Decimal(n)
             s == Numeral[n]
         IN  d \in Seq(Int) /\ Len(d) = Len(s) /\ \A i \in 1 .. Len(s) : d[i] = Zero + s[i]
<1> DEFINE s == Numeral[n]
           d == Decimal(n)
<1>1. s \in Seq(Digit)
  BY NumeralSteps
<1> HIDE DEF s
<1>2. \A i \in 1 .. Len(s) : s[i] \in Int
  BY <1>1 DEF Digit
<1>3. DOMAIN s = 1 .. Len(s) /\ Len(s) \in Nat
  BY <1>1
<1>4. d = [i \in 1 .. Len(s) |-> Zero + s[i]]
  BY <1>3 DEF Decimal, s
<1> HIDE DEF d
<1>5. d \in Seq(Int) /\ Len(d) = Len(s) /\ \A i \in 1 .. Len(s) : d[i] = Zero + s[i]
  BY <1>2, <1>3, <1>4 DEF Zero
<1> QED BY <1>5 DEF s, d

\* The padding is zeros, the numeral follows it.
LEMMA PaddedPlaces ==
  ASSUME NEW n \in Nat, NEW w
  PROVE  LET u == Padded(n, w)
             s == Numeral[n]
             k == Zeros(n, w)
         IN  /\ u \in Seq(Int) /\ s \in Seq(Digit) /\ k \in Nat
             /\ Len(u) = k + Len(s)
             /\ \A i \in 1 .. k : u[i] = Zero
             /\ \A i \in 1 .. Len(s) : u[k + i] = Zero + s[i]
<1> DEFINE s == Numeral[n]
           d == Decimal(n)
           z == Padding(n, w)
           k == Zeros(n, w)
<1>1. s \in Seq(Digit)
  BY NumeralSteps
<1>2. d \in Seq(Int) /\ Len(d) = Len(s) /\ \A i \in 1 .. Len(s) : d[i] = Zero + s[i]
  BY DecimalChars
<1>3. z \in Seq(Int) /\ k \in Nat /\ Len(z) = k /\ \A i \in 1 .. k : z[i] = Zero
  BY DEF Padding, Zeros, Zero
<1>4. Padded(n, w) = z \o d
  BY DEF Padded, IntToStr
<1> HIDE DEF s, d, z, k
<1>5. IsJoin(z \o d, z, d, Int)
  BY <1>2, <1>3, Joins
<1> DEFINE u == z \o d
<1> HIDE DEF u
<1>6. /\ u \in Seq(Int) /\ Len(u) = k + Len(s)
      /\ \A i \in 1 .. k : u[i] = z[i]
      /\ \A i \in 1 .. Len(s) : u[k + i] = d[i]
  BY <1>2, <1>3, <1>5 DEF IsJoin, u
<1>7. /\ \A i \in 1 .. k : u[i] = Zero
      /\ \A i \in 1 .. Len(s) : u[k + i] = Zero + s[i]
  BY <1>2, <1>3, <1>6
<1> QED BY <1>1, <1>3, <1>4, <1>6, <1>7 DEF s, k, u

LEMMA NumeralNotEmpty ==
  ASSUME NEW n \in Nat
  PROVE  Numeral[n] \in Seq(Digit) /\ Len(Numeral[n]) >= 1
<1>1. CASE n < 10
  <2>1. Numeral[n] = <<n>> /\ Numeral[n] \in Seq(Digit)
    BY <1>1, NumeralSteps
  <2> QED BY <2>1
<1>2. CASE n >= 10
  <2> DEFINE m == n \div 10
             r == n % 10
  <2>1. m \in Nat /\ r \in Digit
    BY TenSteps, DigitRange
  <2>2. Numeral[n] = Append(Numeral[m], r) /\ Numeral[m] \in Seq(Digit)
    BY <1>2, <2>1, NumeralSteps
  <2> HIDE DEF m, r
  <2> QED BY <2>1, <2>2
<1> QED BY <1>1, <1>2

LEMMA PaddedDigits ==
  ASSUME NEW n \in Nat, NEW w
  PROVE  /\ AllDigits(Padded(n, w)) /\ Len(Padded(n, 2)) >= 2
         /\ Number(DigitsOf(Padded(n, w))) = n
<1> DEFINE u == Padded(n, w)
           s == Numeral[n]
           k == Zeros(n, w)
           v == DigitsOf(u)
<1>1. /\ u \in Seq(Int) /\ s \in Seq(Digit) /\ k \in Nat /\ Len(u) = k + Len(s)
      /\ \A i \in 1 .. k : u[i] = Zero
      /\ \A i \in 1 .. Len(s) : u[k + i] = Zero + s[i]
  BY PaddedPlaces
<1> HIDE DEF u, k
<1>2. Len(s) \in Nat /\ Len(u) \in Nat /\ \A i \in 1 .. Len(s) : s[i] \in Digit
  <2> HIDE DEF s
  <2> QED BY <1>1
<1>3. ASSUME NEW i \in 1 .. Len(u)
      PROVE  IsDigit(u[i]) /\ u[i] \in Int /\ u[i] - Zero \in Digit
  <2> HIDE DEF s
  <2>1. CASE i <= k
    <3>1. u[i] = 48
      BY <1>1, <2>1 DEF Zero
    <3> QED BY <3>1 DEF IsDigit, Zero, Digit
  <2>2. CASE ~(i <= k)
    <3>1. i - k \in 1 .. Len(s) /\ k + (i - k) = i
      BY <1>1, <1>2, <2>2
    <3>2. u[i] = Zero + s[i - k] /\ s[i - k] \in Digit
      BY <1>1, <1>2, <3>1
    <3> DEFINE d == s[i - k]
    <3> HIDE DEF d
    <3>3. u[i] = 48 + d /\ d \in 0 .. 9
      BY <3>2 DEF d, Zero, Digit
    <3> QED BY <3>3 DEF IsDigit, Zero, Digit
  <2> QED BY <2>1, <2>2
<1>4. v \in Seq(Digit) /\ Len(v) = Len(u) /\ \A i \in 1 .. Len(u) : v[i] = u[i] - Zero
  <2>1. v = [i \in 1 .. Len(u) |-> u[i] - Zero]
    BY DEF DigitsOf
  <2> HIDE DEF v
  <2> QED BY <1>2, <1>3, <2>1
<1> HIDE DEF v
<1>5. Padds(v, s, k)
  <2> HIDE DEF s
  <2>1. ASSUME NEW i \in 1 .. k PROVE v[i] = 0
    <3>1. i \in 1 .. Len(u) /\ u[i] = 48
      BY <1>1, <1>2 DEF Zero
    <3> QED BY <1>4, <3>1 DEF Zero
  <2>2. ASSUME NEW i \in 1 .. Len(s) PROVE v[k + i] = s[i]
    <3>1. k + i \in 1 .. Len(u) /\ u[k + i] = 48 + s[i] /\ s[i] \in 0 .. 9
      BY <1>1, <1>2 DEF Zero, Digit
    <3> QED BY <1>4, <3>1 DEF Zero
  <2> QED BY <1>1, <1>4, <2>1, <2>2 DEF Padds
<1>6. Number(v) = n
  BY <1>1, <1>4, <1>5, ZerosIgnored, WrittenReadsBack
<1>7. AllDigits(u)
  BY <1>1, <1>3 DEF AllDigits
<1>8. Len(Padded(n, 2)) >= 2
  <2>1. Len(Padded(n, 2)) = Zeros(n, 2) + Len(s)
    BY PaddedPlaces
  <2>2. CASE n < 10
    <3>1. s = <<n>>
      BY <2>2, NumeralSteps
    <3>2. Len(s) = 1
      BY <3>1
    <3> QED BY <2>1, <2>2, <3>2 DEF Zeros
  <2>3. CASE n >= 10
    <3> DEFINE m == n \div 10
               r == n % 10
    <3>1. s = Append(Numeral[m], r) /\ m \in Nat
      BY <2>3, NumeralSteps, TenSteps
    <3>2. Numeral[m] \in Seq(Digit) /\ Len(Numeral[m]) >= 1
      BY <3>1, NumeralNotEmpty
    <3>3. Len(s) = Len(Numeral[m]) + 1
      <4> HIDE DEF m, r, s
      <4> QED BY <3>1, <3>2
    <3>4. Len(s) >= 2
      BY <3>2, <3>3
    <3>5. Zeros(n, 2) = 0
      BY <2>3 DEF Zeros
    <3> QED BY <1>2, <2>1, <3>4, <3>5
  <2> QED BY <2>2, <2>3
<1> QED BY <1>6, <1>7, <1>8 DEF u, v

\* Two numbers with the same text are the same number.
LEMMA PaddedOnce ==
  ASSUME NEW m \in Nat, NEW n \in Nat, NEW w, Padded(m, w) = Padded(n, w)
  PROVE  m = n
<1>1. Number(DigitsOf(Padded(m, w))) = m
  BY PaddedDigits
<1>2. Number(DigitsOf(Padded(n, w))) = n
  BY PaddedDigits
<1> QED BY <1>1, <1>2

\* A negative number is written with one character, which is no digit unless the
\* number ends with a zero.
LEMMA PaddedNegative ==
  ASSUME NEW n \in Int, n < 0
  PROVE  Padded(n, 2) = <<Zero, Zero - ((-n) % 10)>> /\ (-n) % 10 \in 0 .. 9
<1>1. (-n) % 10 \in 0 .. 9
  OBVIOUS
<1>2. Padding(n, 2) = <<Zero>>
  BY DEF Padding
<1>3. IntToStr(n) = <<Zero - ((-n) % 10)>>
  BY DEF IntToStr
<1> QED BY <1>1, <1>2, <1>3, JoinTwo DEF Padded

-----------------------------------------------------------------------------
(***************************************************************************)
(* The texts the numbers of a line demand.                                 *)
(***************************************************************************)
Shown(v, w) == IF v < 0 THEN <<Minus>> \o Decimal(-v) ELSE Padding(v, w) \o Decimal(v)

LEMMA ShownNegative ==
  ASSUME NEW v \in Int, v < 0, NEW w
  PROVE  LET u == Shown(v, w)
         IN  /\ u \in Seq(Int) /\ Len(u) >= 2 /\ u[1] = Minus
             /\ \A i \in 2 .. Len(u) : IsDigit(u[i])
<1> DEFINE n == -v
           s == Numeral[n]
           d == Decimal(n)
           u == Shown(v, w)
<1>1. n \in Nat
  OBVIOUS
<1> HIDE DEF n
<1>2. /\ s \in Seq(Digit) /\ Len(s) >= 1
      /\ d \in Seq(Int) /\ Len(d) = Len(s) /\ \A i \in 1 .. Len(s) : d[i] = Zero + s[i]
  BY <1>1, NumeralNotEmpty, DecimalChars
<1>3. u = <<Minus>> \o d
  BY DEF Shown, n
<1> HIDE DEF s, d, u
<1>4. Minus \in Int /\ <<Minus>> \in Seq(Int)
  BY DEF Minus
<1>5. /\ u \in Seq(Int) /\ Len(u) = 1 + Len(s) /\ u[1] = Minus
      /\ \A i \in 2 .. Len(u) : u[i] = d[i - 1]
  BY <1>2, <1>3, <1>4
<1>6. ASSUME NEW i \in 2 .. Len(u) PROVE IsDigit(u[i])
  <2>1. i - 1 \in 1 .. Len(s)
    BY <1>2, <1>5
  <2> DEFINE e == s[i - 1]
  <2>2. e \in Digit
    BY <1>2, <2>1
  <2>3. u[i] = Zero + e
    BY <1>2, <1>5, <2>1
  <2> HIDE DEF e
  <2> QED BY <2>2, <2>3 DEF IsDigit, Digit, Zero
<1>7. u \in Seq(Int) /\ Len(u) >= 2 /\ u[1] = Minus /\ \A i \in 2 .. Len(u) : IsDigit(u[i])
  BY <1>2, <1>5, <1>6
<1> QED BY <1>7 DEF u

LEMMA ShownNatural ==
  ASSUME NEW v \in Nat, NEW w
  PROVE  Shown(v, w) = Padded(v, w)
BY DEF Shown, Padded, IntToStr

\* No text of a number has a separator in it.
LEMMA ShownChars ==
  ASSUME NEW v \in Int, NEW w, NEW part \in Parts
  PROVE  /\ Shown(v, w) \in Seq(Int) /\ Len(Shown(v, 2)) >= 2
         /\ \A i \in 1 .. Len(Shown(v, w)) : Shown(v, w)[i] # Sep(part)
<1>1. ~IsDigit(Sep(part)) /\ Sep(part) # Minus
  <2>1. Sep(part) \in {46, 58}
    BY DEF Sep, Dot, Colon
  <2> QED BY <2>1, SepIsNoDigit DEF Minus
<1>2. CASE v < 0
  <2> DEFINE u == Shown(v, w)
  <2>1. /\ u \in Seq(Int) /\ Len(u) >= 2 /\ u[1] = Minus
        /\ \A i \in 2 .. Len(u) : IsDigit(u[i])
    BY <1>2, ShownNegative
  <2>2. Len(Shown(v, 2)) >= 2
    BY <1>2, ShownNegative
  <2> HIDE DEF u
  <2>3. ASSUME NEW i \in 1 .. Len(u) PROVE u[i] # Sep(part)
    <3>1. i = 1 \/ i \in 2 .. Len(u)
      BY <2>1
    <3> QED BY <1>1, <2>1, <3>1
  <2> QED BY <2>1, <2>2, <2>3 DEF u
<1>3. CASE v >= 0
  <2>1. Shown(v, w) = Padded(v, w) /\ Shown(v, 2) = Padded(v, 2)
    BY <1>3, ShownNatural
  <2>2. AllDigits(Padded(v, w)) /\ Len(Padded(v, 2)) >= 2
    BY <1>3, PaddedDigits
  <2> QED BY <1>1, <2>1, <2>2 DEF AllDigits
<1> QED BY <1>2, <1>3

\* A text of digits is not that of a negative number.
LEMMA DigitsAreNatural ==
  ASSUME NEW n \in Nat, NEW v \in Int, NEW w, Padded(n, w) = Shown(v, w)
  PROVE  v = n
<1>1. AllDigits(Padded(n, w))
  BY PaddedDigits
<1>2. CASE v < 0
  <2>1. Len(Shown(v, w)) >= 2 /\ Shown(v, w)[1] = 45
    BY <1>2, ShownNegative DEF Minus
  <2>2. IsDigit(45)
    BY <1>1, <2>1 DEF AllDigits
  <2> QED BY <2>2 DEF IsDigit, Zero
<1>3. CASE v >= 0
  BY <1>3, ShownNatural, PaddedOnce
<1> QED BY <1>2, <1>3

LEMMA CharShown ==
  ASSUME NEW v \in Int
  PROVE  Padded(Char(v), 2) = Shown(v, 2) <=> v \in 0 .. 127
<1> DEFINE c == Char(v)
<1>1. c \in Int /\ -128 <= c /\ c <= 127
  BY CastsFit DEF CharField
<1>2. ASSUME v \in 0 .. 127 PROVE Padded(c, 2) = Shown(v, 2)
  <2>1. c = v
    BY <1>2 DEF Char
  <2> QED BY <1>2, <2>1, ShownNatural
<1>3. ASSUME Padded(c, 2) = Shown(v, 2) PROVE v \in 0 .. 127
  <2> HIDE DEF c
  <2>1. CASE c >= 0
    <3>1. v = c
      BY <1>1, <1>3, <2>1, DigitsAreNatural
    <3> QED BY <1>1, <2>1, <3>1
  <2>2. CASE c < 0
    <3> DEFINE x == (-c) % 10
    <3>1. Padded(c, 2) = <<Zero, Zero - x>> /\ x \in 0 .. 9
      BY <1>1, <2>2, PaddedNegative
    <3> HIDE DEF x
    <3>2. CASE v < 0
      <4>1. Shown(v, 2)[1] = 45
        BY <3>2, ShownNegative DEF Minus
      <4>2. Padded(c, 2)[1] = 48
        BY <3>1 DEF Zero
      <4> QED BY <1>3, <4>1, <4>2
    <3>3. CASE v >= 0
      <4>1. Shown(v, 2) = Padded(v, 2) /\ v \in Nat
        BY <3>3, ShownNatural
      <4>2. IsDigit(Zero - x)
        <5>1. AllDigits(Padded(c, 2))
          BY <1>3, <4>1, PaddedDigits
        <5>2. Len(Padded(c, 2)) = 2 /\ Padded(c, 2)[2] = Zero - x
          BY <3>1
        <5>3. 2 \in 1 .. 2
          OBVIOUS
        <5> QED BY <5>1, <5>2, <5>3 DEF AllDigits
      <4>3. x = 0
        BY <3>1, <4>2 DEF IsDigit, Zero
      <4>4. Padded(0, 2) = <<Zero, Zero>>
        <5>1. Padded(10 * 0 + 0, 2) = <<Zero + 0, Zero + 0>>
          BY PaddedToTwo
        <5> QED BY <5>1 DEF Zero
      <4>5. Zero - x = Zero
        BY <4>3 DEF Zero
      <4>6. v = 0
        BY <1>3, <3>1, <4>1, <4>4, <4>5, PaddedOnce
      <4>7. c = 0
        BY <4>6 DEF c, Char
      <4> QED BY <2>2, <4>7
    <3> QED BY <3>2, <3>3
  <2> QED BY <1>1, <2>1, <2>2
<1> QED BY <1>2, <1>3

LEMMA WordShown ==
  ASSUME NEW v \in Int
  PROVE  Padded(UInt16(v), 4) = Shown(v, 4) <=> WordField(v)
<1> DEFINE c == UInt16(v)
<1>1. c \in Nat /\ WordField(c)
  BY CastsFit DEF WordField
<1>2. ASSUME WordField(v) PROVE c = v /\ v \in Nat
  BY <1>2 DEF UInt16, WordField
<1> HIDE DEF c
<1>3. ASSUME WordField(v) PROVE Padded(c, 4) = Shown(v, 4)
  BY <1>2, <1>3, ShownNatural
<1>4. ASSUME Padded(c, 4) = Shown(v, 4) PROVE WordField(v)
  BY <1>1, <1>4, DigitsAreNatural
<1> QED BY <1>3, <1>4 DEF c

-----------------------------------------------------------------------------
(***************************************************************************)
(* Two texts with the same separator are equal if and only if their pieces *)
(* are, when the separator is in none of those of the one, and in those of *)
(* the other at most in a piece of two characters.                         *)
(***************************************************************************)
Without(s, x) == \A i \in 1 .. Len(s) : s[i] # x

Around(a, x, r, u) ==
  /\ u \in Seq(Int) /\ Len(u) = Len(a) + 1 + Len(r)
  /\ \A i \in 1 .. Len(a) : u[i] = a[i]
  /\ u[Len(a) + 1] = x
  /\ \A i \in 1 .. Len(r) : u[Len(a) + 1 + i] = r[i]

Parted(a, x, r) == a \o <<x>> \o r

Cat(a, b) == a \o b

LEMMA Associative ==
  ASSUME NEW a \in Seq(Int), NEW b \in Seq(Int), NEW c \in Seq(Int)
  PROVE  Cat(Cat(a, b), c) = Cat(a, Cat(b, c)) /\ Cat(a, b) \in Seq(Int)
<1> DEFINE u == a \o b
           v == b \o c
           w == a \o v
           k == Len(a)
           l == Len(b)
           m == Len(c)
<1>1. IsJoin(u, a, b, Int) /\ IsJoin(v, b, c, Int)
  BY Joins
<1>2. IsJoin(w, a, v, Int)
  <2> HIDE DEF v
  <2> QED BY <1>1, Joins DEF IsJoin
<1>3. k \in Nat /\ l \in Nat /\ m \in Nat
  OBVIOUS
<1> HIDE DEF u, v, w, k, l, m
<1>4. /\ u \in Seq(Int) /\ Len(u) = k + l
      /\ \A i \in 1 .. k : u[i] = a[i]
      /\ \A i \in 1 .. l : u[k + i] = b[i]
  BY <1>1 DEF IsJoin, k, l
<1>5. /\ Len(v) = l + m
      /\ \A i \in 1 .. l : v[i] = b[i]
      /\ \A i \in 1 .. m : v[l + i] = c[i]
  BY <1>1 DEF IsJoin, l, m
<1>6. /\ w \in Seq(Int) /\ Len(w) = k + l + m
      /\ \A i \in 1 .. k : w[i] = a[i]
      /\ \A i \in 1 .. l + m : w[k + i] = v[i]
  BY <1>2, <1>3, <1>5 DEF IsJoin, k
<1>7. ASSUME NEW i \in 1 .. k + l PROVE w[i] = u[i]
  <2>1. CASE i <= k
    BY <1>3, <1>4, <1>6, <2>1
  <2>2. CASE ~(i <= k)
    <3>1. i - k \in 1 .. l /\ i - k \in 1 .. l + m /\ k + (i - k) = i
      BY <1>3, <2>2
    <3>2. w[k + (i - k)] = v[i - k] /\ v[i - k] = b[i - k] /\ u[k + (i - k)] = b[i - k]
      BY <1>4, <1>5, <1>6, <3>1
    <3> QED BY <3>1, <3>2
  <2> QED BY <2>1, <2>2
<1>8. ASSUME NEW i \in 1 .. m PROVE w[k + l + i] = c[i]
  <2>1. l + i \in 1 .. l + m /\ k + (l + i) = k + l + i
    BY <1>3
  <2>2. w[k + (l + i)] = v[l + i] /\ v[l + i] = c[i]
    BY <1>5, <1>6, <2>1
  <2> QED BY <2>1, <2>2
<1>9. IsJoin(w, u, c, Int)
  BY <1>4, <1>6, <1>7, <1>8 DEF IsJoin, m
<1>10. u \o c = w
  BY <1>4, <1>9, Join
<1> QED BY <1>4, <1>10 DEF Cat, u, v, w

LEMMA AroundSeparator ==
  ASSUME NEW a \in Seq(Int), NEW x \in Int, NEW r \in Seq(Int)
  PROVE  Around(a, x, r, Parted(a, x, r))
<1> DEFINE u == a \o <<x>>
<1>1. u \in Seq(Int) /\ Len(u) = Len(a) + 1 /\ u[Len(a) + 1] = x
      /\ \A i \in 1 .. Len(a) : u[i] = a[i]
  OBVIOUS
<1> HIDE DEF u
<1>2. IsJoin(u \o r, u, r, Int)
  BY <1>1, Joins
<1> DEFINE v == u \o r
<1> HIDE DEF v
<1>3. IsJoin(v, u, r, Int)
  BY <1>2 DEF v
<1>4. Len(a) \in Nat
  OBVIOUS
<1>5. Len(a) + 1 \in 1 .. Len(u) /\ \A i \in 1 .. Len(a) : i \in 1 .. Len(u)
  BY <1>1, <1>4
<1>6. Around(a, x, r, v)
  BY <1>1, <1>3, <1>5 DEF IsJoin, Around
<1> QED BY <1>6 DEF Parted, u, v

LEMMA Cancel ==
  ASSUME NEW a \in Seq(Int), NEW b \in Seq(Int), NEW x \in Int,
         NEW r \in Seq(Int), NEW q \in Seq(Int),
         Parted(a, x, r) = Parted(b, x, q),
         Without(b, x), Len(b) >= 2, Without(a, x) \/ Len(a) = 2
  PROVE  a = b /\ r = q
<1> DEFINE u == Parted(a, x, r)
           l == Len(a)
           m == Len(b)
<1>1. Around(a, x, r, u) /\ Around(b, x, q, u)
  BY AroundSeparator
<1> HIDE DEF u, l, m
<1>2. l \in Nat /\ m \in Nat /\ m >= 2
  BY DEF l, m
<1>3. /\ Len(u) = l + 1 + Len(r) /\ u[l + 1] = x
      /\ \A i \in 1 .. l : u[i] = a[i]
      /\ \A i \in 1 .. Len(r) : u[l + 1 + i] = r[i]
  BY <1>1 DEF Around, l
<1>4. /\ Len(u) = m + 1 + Len(q) /\ u[m + 1] = x
      /\ \A i \in 1 .. m : u[i] = b[i]
      /\ \A i \in 1 .. Len(q) : u[m + 1 + i] = q[i]
  BY <1>1 DEF Around, m
<1>5. CASE l < m
  <2>1. l + 1 \in 1 .. m
    BY <1>2, <1>5
  <2>2. b[l + 1] = x
    BY <1>3, <1>4, <2>1
  <2> QED BY <2>1, <2>2 DEF Without, m
<1>6. CASE m < l
  <2>1. m + 1 \in 1 .. l /\ l # 2
    BY <1>2, <1>6
  <2>2. a[m + 1] = x
    BY <1>3, <1>4, <2>1
  <2> QED BY <2>1, <2>2 DEF Without, l
<1>7. CASE l = m
  <2>1. a = b
    <3>1. \A i \in 1 .. Len(a) : a[i] = b[i]
      BY <1>3, <1>4, <1>7 DEF l, m
    <3>2. Len(a) = Len(b)
      BY <1>7 DEF l, m
    <3> QED BY <3>1, <3>2, SeqEqual
  <2>2. r = q
    <3>1. Len(r) \in Nat /\ Len(q) \in Nat
      OBVIOUS
    <3>2. Len(r) = Len(q)
      BY <1>2, <1>3, <1>4, <1>7, <3>1
    <3>3. \A i \in 1 .. Len(r) : r[i] = q[i]
      BY <1>3, <1>4, <1>7, <3>2
    <3> QED BY <3>2, <3>3, SeqEqual
  <2> QED BY <2>1, <2>2
<1> QED BY <1>2, <1>5, <1>6, <1>7

Three(a, b, c, x) == a \o <<x>> \o b \o <<x>> \o c

LEMMA Regroup ==
  ASSUME NEW a \in Seq(Int), NEW b \in Seq(Int), NEW c \in Seq(Int), NEW x \in Int
  PROVE  /\ Three(a, b, c, x) = Parted(a, x, Parted(b, x, c))
         /\ Parted(b, x, c) \in Seq(Int)
<1> DEFINE y == <<x>>
<1>1. y \in Seq(Int)
  OBVIOUS
<1> HIDE DEF y
<1>2. /\ Three(a, b, c, x) = Cat(Cat(Cat(Cat(a, y), b), y), c)
      /\ Parted(b, x, c) = Cat(Cat(b, y), c)
      /\ Parted(a, x, Parted(b, x, c)) = Cat(Cat(a, y), Cat(Cat(b, y), c))
  BY Zenon DEF Three, Parted, Cat, y
<1>3. Cat(a, y) \in Seq(Int) /\ Cat(b, y) \in Seq(Int)
  BY <1>1, Associative
<1>4. Cat(Cat(Cat(a, y), b), y) = Cat(Cat(a, y), Cat(b, y))
  BY <1>1, <1>3, Associative
<1>5. Cat(Cat(Cat(a, y), Cat(b, y)), c) = Cat(Cat(a, y), Cat(Cat(b, y), c))
  BY <1>3, Associative
<1>6. Cat(Cat(b, y), c) \in Seq(Int)
  BY <1>3, Associative
<1> QED BY <1>2, <1>4, <1>5, <1>6

\* What the server may write for a char: digits only, or two characters.
LEMMA CharText ==
  ASSUME NEW v \in Int, NEW part \in Parts
  PROVE  /\ Padded(Char(v), 2) \in Seq(Int)
         /\ Without(Padded(Char(v), 2), Sep(part)) \/ Len(Padded(Char(v), 2)) = 2
<1> DEFINE c == Char(v)
<1>1. c \in Int
  BY CastsFit DEF CharField
<1> HIDE DEF c
<1>2. CASE c < 0
  <2> DEFINE x == (-c) % 10
  <2>1. Padded(c, 2) = <<Zero, Zero - x>> /\ x \in 0 .. 9
    BY <1>1, <1>2, PaddedNegative
  <2> HIDE DEF x
  <2>2. Zero \in Int /\ Zero - x \in Int
    BY <2>1 DEF Zero
  <2> DEFINE y == Zero - x
  <2> HIDE DEF y
  <2>3. <<Zero, y>> \in Seq(Int) /\ Len(<<Zero, y>>) = 2
    BY <2>2 DEF y
  <2> QED BY <2>1, <2>3 DEF c, y
<1>3. CASE c >= 0
  <2>1. AllDigits(Padded(c, 2))
    BY <1>1, <1>3, PaddedDigits
  <2> QED BY <2>1, SepIsNoDigit DEF AllDigits, Without, c
<1> QED BY <1>1, <1>2, <1>3

Greatest(part) == IF part = "time" THEN 127 ELSE 65535

\* The last number, a char of a time and a uint16_t of a date.
LastField(part, v) == IF part = "time" THEN Char(v) ELSE UInt16(v)

LastWidth(part) == IF part = "time" THEN 2 ELSE 4

LEMMA LastShown ==
  ASSUME NEW part \in Parts, NEW v \in Int
  PROVE  /\ Padded(LastField(part, v), LastWidth(part)) \in Seq(Int)
         /\ Padded(LastField(part, v), LastWidth(part)) = Shown(v, LastWidth(part))
              <=> 0 <= v /\ v <= Greatest(part)
<1>1. CASE part = "time"
  <2>1. LastField(part, v) = Char(v) /\ LastWidth(part) = 2 /\ Greatest(part) = 127
    BY <1>1 DEF LastField, LastWidth, Greatest
  <2>2. v \in 0 .. 127 <=> 0 <= v /\ v <= 127
    OBVIOUS
  <2> QED BY <2>1, <2>2, CharText, CharShown
<1>2. CASE part # "time"
  <2>1. LastField(part, v) = UInt16(v) /\ LastWidth(part) = 4
    BY <1>2 DEF LastField, LastWidth
  <2>2. UInt16(v) \in Nat
    BY CastsFit DEF WordField
  <2>3. Padded(UInt16(v), 4) \in Seq(Int)
    BY <2>2, PaddedDigits DEF AllDigits
  <2>4. WordField(v) <=> 0 <= v /\ v <= Greatest(part)
    BY <1>2 DEF WordField, Greatest
  <2> QED BY <2>1, <2>3, <2>4, WordShown
<1> QED BY <1>1, <1>2

LEMMA PartArrives ==
  ASSUME NEW part \in Parts, NEW u \in Int, NEW v \in Int, NEW w \in Int
  PROVE  Three(Padded(Char(u), 2), Padded(Char(v), 2),
               Padded(LastField(part, w), LastWidth(part)), Sep(part))
           = Three(Shown(u, 2), Shown(v, 2), Shown(w, LastWidth(part)), Sep(part))
         <=> u \in 0 .. 127 /\ v \in 0 .. 127 /\ 0 <= w /\ w <= Greatest(part)
<1> DEFINE a == Padded(Char(u), 2)
           b == Padded(Char(v), 2)
           c == Padded(LastField(part, w), LastWidth(part))
           d == Shown(u, 2)
           e == Shown(v, 2)
           f == Shown(w, LastWidth(part))
           x == Sep(part)
<1>1. /\ a = d <=> u \in 0 .. 127
      /\ b = e <=> v \in 0 .. 127
      /\ c = f <=> 0 <= w /\ w <= Greatest(part)
  BY CharShown, LastShown
<1>2. /\ a \in Seq(Int) /\ (Without(a, x) \/ Len(a) = 2)
      /\ b \in Seq(Int) /\ (Without(b, x) \/ Len(b) = 2)
      /\ c \in Seq(Int)
  BY CharText, LastShown
<1>3. /\ d \in Seq(Int) /\ Len(d) >= 2 /\ Without(d, x)
      /\ e \in Seq(Int) /\ Len(e) >= 2 /\ Without(e, x)
      /\ f \in Seq(Int) /\ x \in Int
  BY ShownChars, SepIsNoDigit DEF Without
<1> HIDE DEF a, b, c, d, e, f, x
<1>4. ASSUME Three(a, b, c, x) = Three(d, e, f, x) PROVE a = d /\ b = e /\ c = f
  <2>1. Parted(a, x, Parted(b, x, c)) = Parted(d, x, Parted(e, x, f))
        /\ Parted(b, x, c) \in Seq(Int) /\ Parted(e, x, f) \in Seq(Int)
    BY <1>2, <1>3, <1>4, Regroup
  <2>2. a = d /\ Parted(b, x, c) = Parted(e, x, f)
    BY <1>2, <1>3, <2>1, Cancel
  <2>3. b = e /\ c = f
    BY <1>2, <1>3, <2>2, Cancel
  <2> QED BY <2>2, <2>3
<1> QED BY <1>1, <1>4 DEF a, b, c, d, e, f, x

\* TrueText and InRange in these terms.
LEMMA Demanded ==
  ASSUME NEW part \in Parts, NEW s \in Seq(Int), line[part] = s,
         ~ParseThrows(part, s), ~ParseUndefined(part, s)
  PROVE  PartToStr(part, ParsePart(part, s)) = TrueText(part) <=> InRange(part)
<1> DEFINE data == Pieces(s, Sep(part))
           u == Stoi(data[1])
           v == Stoi(data[2])
           w == Stoi(data[3])
<1>1. SplitString(s, Sep(part)) = data
  BY SepIsNoDigit, SplitIsPieces
<1>2. data \in Seq(Seq(Int)) /\ Len(data) >= 3
  BY <1>1, SepIsNoDigit, SplitType DEF ParseUndefined
<1>3. u \in Int /\ v \in Int /\ w \in Int
  <2> HIDE DEF data
  <2>1. data[1] \in Seq(Int) /\ data[2] \in Seq(Int) /\ data[3] \in Seq(Int)
    BY <1>2
  <2> QED BY <2>1, StoiType
<1>4. ParsePart(part, s) = <<Char(u), Char(v), LastField(part, w)>>
  BY <1>1 DEF ParsePart, LastField
<1> HIDE DEF data
<1> DEFINE f == <<Char(u), Char(v), LastField(part, w)>>
<1>5. PartToStr(part, f) = Three(Padded(Char(u), 2), Padded(Char(v), 2),
                                 Padded(LastField(part, w), LastWidth(part)), Sep(part))
  <2>1. f[1] = Char(u) /\ f[2] = Char(v) /\ f[3] = LastField(part, w)
    OBVIOUS
  <2> HIDE DEF f, u, v, w
  <2> QED BY <2>1, Zenon DEF PartToStr, Three, LastWidth
<1>6. TrueText(part) = Three(Shown(u, 2), Shown(v, 2), Shown(w, LastWidth(part)), Sep(part))
  BY Zenon DEF TrueText, Three, Shown, LastWidth, data
<1>7. InRange(part) <=> u \in 0 .. 127 /\ v \in 0 .. 127 /\ w \in 0 .. Greatest(part)
  BY DEF InRange, Greatest, data
<1>8. w \in 0 .. Greatest(part) <=> 0 <= w /\ w <= Greatest(part)
  <2> DEFINE g == Greatest(part)
  <2>1. g \in Int
    BY DEF Greatest
  <2> HIDE DEF g, w
  <2> QED BY <1>3, <2>1 DEF g
<1> HIDE DEF u, v, w, f
<1>9. Three(Padded(Char(u), 2), Padded(Char(v), 2),
            Padded(LastField(part, w), LastWidth(part)), Sep(part))
        = Three(Shown(u, 2), Shown(v, 2), Shown(w, LastWidth(part)), Sep(part))
      <=> u \in 0 .. 127 /\ v \in 0 .. 127 /\ 0 <= w /\ w <= Greatest(part)
  BY <1>3, PartArrives
<1>10. PartToStr(part, ParsePart(part, s)) = PartToStr(part, f)
  BY <1>4 DEF f
<1> QED BY <1>5, <1>6, <1>7, <1>8, <1>9, <1>10

LEMMA IInvInRange == IInv => ArrivesIffInRange
<1> SUFFICES ASSUME IInv, stage = "written", NEW part \in Parts
             PROVE  text[part] = TrueText(part) <=> InRange(part)
  BY DEF ArrivesIffInRange
<1>1. checked \in BOOLEAN /\ line \in Inputs[checked]
  BY DEF IInv, TypeOK
<1>2. line[part] \in Seq(Int)
  BY <1>1, LineParts
<1>3. /\ text = [p \in Parts |-> PartToStr(p, fields[p])]
      /\ fields = [p \in Parts |-> ParsePart(p, line[p])]
      /\ ~Thrown(line) /\ ~Undefined(line)
  BY DEF IInv, StopsForAReason, FieldsArrive
<1>4. ~ParseThrows(part, line[part]) /\ ~ParseUndefined(part, line[part])
  BY <1>3 DEF Thrown, Undefined
<1>5. text[part] = PartToStr(part, ParsePart(part, line[part]))
  BY <1>3
<1> QED BY <1>2, <1>4, <1>5, Demanded

\* The numbers of a line are in the server's file as they stand in the client's if
\* and only if they fit into their fields.
THEOREM NumbersArriveIffInRange == Spec => []ArrivesIffInRange
<1> QED BY IInvInRange, Invariance, PTL
=============================================================================

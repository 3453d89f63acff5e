------------------------- MODULE MessageFormatProofs -------------------------
EXTENDS MessageFormat, NumeralsProofs, SequenceTheorems

\* The least element of a set of natural numbers that is not empty.
LEMMA MinOfSet ==
  ASSUME NEW t \in SUBSET Nat, t # {}
  PROVE  Min(t) \in t /\ \A i \in t : Min(t) <= i
<1>1. PICK m \in t : \A i \in t : m <= i
  BY LeastNumber
<1> QED BY <1>1 DEF Min

\* What is skipped is left out, and nothing else.
LEMMA SkipSteps ==
  ASSUME NEW s \in Seq(Int), NEW skipped
  PROVE  /\ Skip(s, skipped) \in Seq(Int) /\ Len(Skip(s, skipped)) <= Len(s)
         /\ (\A i \in DOMAIN s : s[i] \in skipped) => Skip(s, skipped) = <<>>
         /\ \A r \in DOMAIN s :
              s[r] \notin skipped /\ (\A i \in 1 .. r - 1 : s[i] \in skipped)
                => Skip(s, skipped) = SubSeq(s, r, Len(s))
<1> DEFINE kept == {i \in DOMAIN s : s[i] \notin skipped}
<1>1. DOMAIN s = 1 .. Len(s) /\ Len(s) \in Nat
  OBVIOUS
<1>2. CASE kept = {}
  <2>1. Skip(s, skipped) = <<>>
    BY <1>2 DEF Skip
  <2> QED BY <1>1, <1>2, <2>1
<1>3. CASE kept # {}
  <2>1. Min(kept) \in kept /\ \A i \in kept : Min(kept) <= i
    <3>1. kept \in SUBSET Nat
      BY <1>1
    <3> HIDE DEF kept
    <3> QED BY <1>3, <3>1, MinOfSet
  <2>2. Skip(s, skipped) = SubSeq(s, Min(kept), Len(s))
    BY <1>3 DEF Skip
  <2>3. Min(kept) \in 1 .. Len(s)
    BY <1>1, <2>1
  <2>4. /\ Skip(s, skipped) \in Seq(Int) /\ Len(Skip(s, skipped)) <= Len(s)
    <3> DEFINE m == Min(kept)
    <3> HIDE DEF m
    <3>1. m \in 1 .. Len(s) /\ Skip(s, skipped) = SubSeq(s, m, Len(s))
      BY <2>2, <2>3 DEF m
    <3> QED BY <1>1, <3>1
  <2>5. ASSUME NEW r \in DOMAIN s, s[r] \notin skipped, \A i \in 1 .. r - 1 : s[i] \in skipped
        PROVE  Min(kept) = r
    <3>1. r \in kept /\ \A i \in kept : r <= i
      BY <1>1, <2>5
    <3> HIDE DEF kept
    <3>2. Min(kept) <= r /\ r <= Min(kept)
      BY <2>1, <3>1
    <3> QED BY <1>1, <2>3, <3>2
  <2>6. ~\A i \in DOMAIN s : s[i] \in skipped
    BY <1>3
  <2> HIDE DEF kept
  <2> QED BY <2>2, <2>4, <2>5, <2>6
<1> QED BY <1>2, <1>3

\* split_string takes the piece before the first separator, and goes on behind
\* the separators that follow.
IsSplit(split, sep) ==
  \A s \in Seq(Int) :
    split[s] =
      IF ~Contains(s, sep) THEN <<s>>
      ELSE LET pos == Min({i \in DOMAIN s : s[i] = sep})
           IN  <<SubSeq(s, 1, pos - 1)>>
                 \o split[Skip(SubSeq(s, pos + 1, Len(s)), {sep})]

LEMMA SplitRecursion ==
  ASSUME NEW sep \in Int
  PROVE  \E split \in [Seq(Int) -> Seq(Seq(Int))] :
           /\ IsSplit(split, sep)
           /\ \A s \in Seq(Int) : SplitString(s, sep) = split[s]
<1> DEFINE A == Seq(Int)
           V == Seq(Seq(Int))
           B == {s \in A : ~Contains(s, sep)}
           rank == [s \in A |-> Len(s)]
           first(s) == Min({i \in DOMAIN s : s[i] = sep})
           rest(s) == Skip(SubSeq(s, first(s) + 1, Len(s)), {sep})
           pred == [s \in A \ B |-> rest(s)]
           base == [s \in B |-> <<s>>]
           step == [s \in A |-> [v \in V |->
                      IF s \in B THEN v ELSE <<SubSeq(s, 1, first(s) - 1)>> \o v]]
<1>1. ASSUME NEW s \in A \ B
      PROVE  first(s) \in 1 .. Len(s) /\ rest(s) \in A /\ Len(rest(s)) < Len(s)
  <2> DEFINE t == {i \in DOMAIN s : s[i] = sep}
  <2>1. t # {} /\ t \in SUBSET Nat /\ t \in SUBSET (1 .. Len(s))
    BY DEF Contains
  <2>2. Min(t) \in t
    <3> HIDE DEF t
    <3> QED BY <2>1, MinOfSet
  <2>3. first(s) \in 1 .. Len(s)
    BY <2>1, <2>2
  <2> DEFINE u == SubSeq(s, first(s) + 1, Len(s))
  <2>4. u \in Seq(Int) /\ Len(u) = Len(s) - first(s) /\ Len(u) < Len(s) /\ Len(u) \in Nat
    <3> DEFINE m == first(s)
    <3>1. m \in 1 .. Len(s)
      BY <2>3
    <3> HIDE DEF m
    <3>2. SubSeq(s, m + 1, Len(s)) \in Seq(Int) /\ Len(SubSeq(s, m + 1, Len(s))) = Len(s) - m
      BY <3>1
    <3> QED BY <3>1, <3>2 DEF m
  <2>5. rest(s) = Skip(u, {sep})
    OBVIOUS
  <2>6. rest(s) \in A /\ Len(rest(s)) <= Len(u) /\ Len(rest(s)) \in Nat
    <3> HIDE DEF u, rest
    <3> QED BY <2>4, <2>5, SkipSteps
  <2> HIDE DEF u, rest, first
  <2>7. Len(s) \in Nat
    OBVIOUS
  <2> QED BY <2>3, <2>4, <2>6, <2>7
<1>2. ASSUME NEW s \in A \ B PROVE SubSeq(s, 1, first(s) - 1) \in Seq(Int)
  <2> DEFINE m == first(s)
  <2>1. m \in 1 .. Len(s) /\ Len(s) \in Nat
    BY <1>1
  <2> HIDE DEF m
  <2>2. SubSeq(s, 1, m - 1) \in Seq(Int)
    BY <2>1
  <2> QED BY <2>2 DEF m
<1>3. step \in [A -> [V -> V]]
  <2>1. ASSUME NEW s \in A, NEW v \in V
        PROVE  (IF s \in B THEN v ELSE <<SubSeq(s, 1, first(s) - 1)>> \o v) \in V
    <3>1. CASE s \notin B
      <4> DEFINE p == SubSeq(s, 1, first(s) - 1)
      <4>1. p \in Seq(Int)
        BY <1>2, <3>1
      <4> HIDE DEF p
      <4>2. <<p>> \in V
        BY <4>1
      <4> HIDE DEF V
      <4>3. <<p>> \o v \in V
        BY <4>2 DEF V
      <4> QED BY <3>1, <4>3 DEF p
    <3> QED BY <3>1
  <2> HIDE DEF A, V, B, first
  <2> QED BY <2>1
<1>4. IsRecursion(A, rank, B, pred, V, base, step)
  <2>1. rank \in [A -> Nat]
    OBVIOUS
  <2>2. base \in [B -> V] /\ B \subseteq A
    OBVIOUS
  <2>3. pred \in [A \ B -> A]
    <3> HIDE DEF A, B, rest
    <3> QED BY <1>1
  <2>4. \A s \in A \ B : rank[pred[s]] < rank[s]
    <3> HIDE DEF A, B, rest, first
    <3> QED BY <1>1
  <2> HIDE DEF A, V, B, rank, first, rest, pred, base, step
  <2> QED BY <1>3, <2>1, <2>2, <2>3, <2>4 DEF IsRecursion
<1>5. PICK f : IsRecursionBy(f, A, B, pred, V, base, step)
  <2> HIDE DEF A, V, B, rank, first, rest, pred, base, step
  <2> QED BY <1>4, RecursionExists
<1>6. f \in [A -> V]
  BY <1>5 DEF IsRecursionBy
<1>7. ASSUME NEW s \in A
      PROVE  f[s] = IF ~Contains(s, sep) THEN <<s>>
                    ELSE <<SubSeq(s, 1, first(s) - 1)>> \o f[rest(s)]
  <2>1. f[s] = IF s \in B THEN base[s] ELSE step[s][f[pred[s]]]
    BY <1>5 DEF IsRecursionBy
  <2>2. s \in B <=> ~Contains(s, sep)
    BY DEF Contains
  <2>3. CASE s \in B
    <3> HIDE DEF A
    <3>1. base[s] = <<s>>
      BY <2>3
    <3> QED BY <2>1, <2>2, <2>3, <3>1
  <2>4. CASE s \notin B
    <3>1. pred[s] = rest(s) /\ rest(s) \in A
      <4> HIDE DEF A, B, rest
      <4> QED BY <1>1, <2>4
    <3>2. f[rest(s)] \in V
      <4> HIDE DEF rest, A, V
      <4> QED BY <1>6, <3>1
    <3>3. step[s][f[rest(s)]] = <<SubSeq(s, 1, first(s) - 1)>> \o f[rest(s)]
      <4> HIDE DEF rest, A, V, B, first
      <4> QED BY <2>4, <3>2
    <3> HIDE DEF pred, base, step, rest, first, B
    <3> QED BY <2>1, <2>2, <2>4, <3>1, <3>3
  <2> HIDE DEF B
  <2> QED BY <2>3, <2>4
<1>8. f = [s \in Seq(Int) |->
             IF ~Contains(s, sep) THEN <<s>>
             ELSE LET pos == Min({i \in DOMAIN s : s[i] = sep})
                  IN  <<SubSeq(s, 1, pos - 1)>>
                        \o f[Skip(SubSeq(s, pos + 1, Len(s)), {sep})]]
  <2>1. f = [s \in A |-> f[s]]
    <3> HIDE DEF A, V
    <3> QED BY <1>6
  <2>2. f = [s \in A |-> IF ~Contains(s, sep) THEN <<s>>
                         ELSE <<SubSeq(s, 1, first(s) - 1)>> \o f[rest(s)]]
    <3> HIDE DEF A, first, rest
    <3> QED BY <1>7, <2>1
  <2> QED BY <2>2
<1> DEFINE split[s \in Seq(Int)] ==
             IF ~Contains(s, sep) THEN <<s>>
             ELSE LET pos == Min({i \in DOMAIN s : s[i] = sep})
                  IN  <<SubSeq(s, 1, pos - 1)>>
                        \o split[Skip(SubSeq(s, pos + 1, Len(s)), {sep})]
<1>9. split = [s \in Seq(Int) |->
             IF ~Contains(s, sep) THEN <<s>>
             ELSE LET pos == Min({i \in DOMAIN s : s[i] = sep})
                  IN  <<SubSeq(s, 1, pos - 1)>>
                        \o split[Skip(SubSeq(s, pos + 1, Len(s)), {sep})]]
  BY <1>8
<1>10. \A s \in Seq(Int) : SplitString(s, sep) = split[s]
  BY DEF SplitString
<1> HIDE DEF split
<1>11. IsSplit(split, sep)
  BY <1>9 DEF IsSplit
<1>12. split \in [A -> V]
  <2> DEFINE S == {n \in Nat : \A s \in A : Len(s) = n => split[s] \in V}
  <2>1. ASSUME NEW n \in Nat, \A m \in Nat : m < n => m \in S PROVE n \in S
    <3> SUFFICES ASSUME NEW s \in A, Len(s) = n PROVE split[s] \in V
      OBVIOUS
    <3>1. split[s] = IF ~Contains(s, sep) THEN <<s>>
                     ELSE <<SubSeq(s, 1, first(s) - 1)>> \o split[rest(s)]
      BY <1>11 DEF IsSplit
    <3>2. CASE Contains(s, sep)
      <4>1. s \in A \ B
        BY <3>2
      <4>2. rest(s) \in A /\ Len(rest(s)) < n
        <5> HIDE DEF rest, A, B
        <5> QED BY <1>1, <4>1
      <4>3. Len(rest(s)) \in S
        <5>1. Len(rest(s)) \in Nat
          BY <4>2
        <5> HIDE DEF rest, S
        <5> QED BY <2>1, <4>2, <5>1
      <4>4. split[rest(s)] \in V
        <5> HIDE DEF rest, A, V
        <5> QED BY <4>2, <4>3
      <4>5. SubSeq(s, 1, first(s) - 1) \in Seq(Int)
        <5> HIDE DEF first
        <5> QED BY <1>2, <4>1
      <4> DEFINE p == SubSeq(s, 1, first(s) - 1)
                 q == split[rest(s)]
      <4>6. <<p>> \in V
        <5> HIDE DEF p
        <5> QED BY <4>5 DEF p
      <4>7. <<p>> \o q \in V
        <5> HIDE DEF p, q
        <5> QED BY <4>4, <4>6 DEF q
      <4> HIDE DEF first, rest
      <4> QED BY <3>1, <3>2, <4>7
    <3>3. CASE ~Contains(s, sep)
      <4> HIDE DEF first, rest
      <4> QED BY <3>1, <3>3
    <3> QED BY <3>2, <3>3
  <2>2. Nat \subseteq S
    <3> HIDE DEF S
    <3> QED BY <2>1, StrongInduction
  <2>3. \A s \in A : split[s] \in V
    <3>1. \A s \in A : Len(s) \in Nat
      OBVIOUS
    <3> HIDE DEF A, V
    <3> QED BY <2>2, <3>1
  <2>4. split = [s \in A |-> split[s]]
    BY <1>9
  <2> HIDE DEF A, V
  <2> QED BY <2>3, <2>4
<1> HIDE DEF A, V
<1> QED BY <1>10, <1>11, <1>12 DEF A, V

\* What is left of a text behind its p-th character.
LEMMA RestSteps ==
  ASSUME NEW s \in Seq(Int), NEW p \in 1 .. Len(s)
  PROVE  LET v == SubSeq(s, p + 1, Len(s))
         IN  /\ v \in Seq(Int) /\ Len(v) = Len(s) - p
             /\ \A j \in 1 .. Len(s) - p : v[j] = s[j + p]
OBVIOUS

\* What is left of s from its i-th character on.
From(s, i) == SubSeq(s, i, Len(s))

\* One step of split_string on what is left of a text: without a separator that
\* is the last piece; otherwise the piece ends before the first separator, at t,
\* and the next one starts behind the separators that follow it, at r.
LastPiece(s, sep, i) ==
  /\ \A j \in i .. Len(s) : s[j] # sep
  /\ SplitString(From(s, i), sep) = <<From(s, i)>>

PieceBefore(s, sep, i, t, r) ==
  /\ t \in i .. Len(s) /\ s[t] = sep /\ \A j \in i .. t - 1 : s[j] # sep
  /\ r \in t + 1 .. Len(s) + 1 /\ \A j \in t + 1 .. r - 1 : s[j] = sep
  /\ r <= Len(s) => s[r] # sep
  /\ SplitString(From(s, i), sep)
       = <<SubSeq(s, i, t - 1)>> \o SplitString(From(s, r), sep)

LEMMA SplitStep ==
  ASSUME NEW s \in Seq(Int), NEW sep \in Int, NEW i \in 1 .. Len(s) + 1
  PROVE  \/ LastPiece(s, sep, i)
         \/ \E t, r \in Nat : PieceBefore(s, sep, i, t, r)
<1> DEFINE n == Len(s)
           u == From(s, i)
<1>1. PICK split \in [Seq(Int) -> Seq(Seq(Int))] :
        /\ IsSplit(split, sep)
        /\ \A x \in Seq(Int) : SplitString(x, sep) = split[x]
  BY SplitRecursion
<1>2. n \in Nat /\ i \in Nat
  OBVIOUS
<1> DEFINE m == n - i + 1
<1>3. /\ u \in Seq(Int) /\ Len(u) = m /\ m \in Nat
      /\ \A j \in 1 .. m : u[j] = s[j + i - 1]
  BY DEF From
<1>a. DOMAIN u = 1 .. m
  BY <1>3
<1> HIDE DEF u
<1>4. CASE ~Contains(u, sep)
  <2>1. SplitString(u, sep) = <<u>>
    BY <1>1, <1>3, <1>4 DEF IsSplit
  <2>2. ASSUME NEW j \in i .. n PROVE s[j] # sep
    <3>1. j - i + 1 \in 1 .. n - i + 1 /\ (j - i + 1) + i - 1 = j
      BY <1>2
    <3>2. u[j - i + 1] = s[j]
      BY <1>3, <3>1
    <3>3. u[j - i + 1] # sep
      BY <1>3, <1>4, <3>1 DEF Contains
    <3> QED BY <3>2, <3>3
  <2> QED BY <2>1, <2>2 DEF LastPiece, u
<1>5. CASE Contains(u, sep)
  <2> DEFINE at == {j \in DOMAIN u : u[j] = sep}
             pos == Min(at)
             t == pos + i - 1
  <2>1. pos \in at /\ \A j \in at : pos <= j
    <3>1. at \in SUBSET Nat
      <4> HIDE DEF m, u
      <4> QED BY <1>a
    <3>2. at # {}
      <4>1. PICK j \in 1 .. m : u[j] = sep
        <5> HIDE DEF m
        <5> QED BY <1>3, <1>5 DEF Contains
      <4> HIDE DEF m
      <4> QED BY <1>a, <4>1
    <3> HIDE DEF at
    <3> QED BY <3>1, <3>2, MinOfSet
  <2> HIDE DEF pos
  <2>2. pos \in 1 .. m /\ u[pos] = sep /\ \A j \in 1 .. pos - 1 : u[j] # sep
    <3> HIDE DEF m
    <3>1. pos \in 1 .. m /\ u[pos] = sep
      BY <1>a, <2>1
    <3>2. ASSUME NEW j \in 1 .. pos - 1, u[j] = sep PROVE FALSE
      <4>1. j \in 1 .. m /\ ~(pos <= j)
        BY <1>3, <3>1
      <4>2. j \in at
        BY <1>a, <3>2, <4>1
      <4> QED BY <2>1, <4>1, <4>2
    <3> QED BY <3>1, <3>2
  <2>b. pos \in 1 .. n - i + 1
    BY <2>2
  <2>3. t \in i .. n /\ s[t] = sep
    <3>1. t \in i .. n
      BY <1>2, <2>b
    <3>2. s[t] = u[pos]
      BY <1>3, <2>2
    <3> QED BY <2>2, <3>1, <3>2
  <2>4. ASSUME NEW j \in i .. t - 1 PROVE s[j] # sep
    <3>1. /\ j - i + 1 \in 1 .. pos - 1 /\ j - i + 1 \in 1 .. n - i + 1
          /\ (j - i + 1) + i - 1 = j
      BY <1>2, <2>2
    <3>2. u[j - i + 1] # sep
      BY <2>2, <3>1
    <3> QED BY <1>3, <3>1, <3>2
  <2>5. SubSeq(u, 1, pos - 1) = SubSeq(s, i, t - 1)
    BY <1>2, <1>3, <2>2
  <2> DEFINE v == SubSeq(u, pos + 1, Len(u))
  <2>6. /\ v \in Seq(Int) /\ Len(v) = n - t /\ DOMAIN v = 1 .. n - t
        /\ \A j \in 1 .. n - t : v[j] = s[j + t]
    <3>1. v \in Seq(Int) /\ Len(v) = n - t /\ \A j \in 1 .. n - t : v[j] = u[j + pos]
      <4>1. u \in Seq(Int) /\ pos \in 1 .. Len(u)
        <5> HIDE DEF m
        <5> QED BY <1>3, <2>2
      <4>2. /\ v \in Seq(Int) /\ Len(v) = Len(u) - pos
            /\ \A j \in 1 .. Len(u) - pos : v[j] = u[j + pos]
        BY <4>1, RestSteps
      <4>3. Len(u) - pos = n - t
        BY <1>2, <1>3, <2>b
      <4> HIDE DEF v, t
      <4> QED BY <4>2, <4>3
    <3>2. DOMAIN v = 1 .. n - t
      <4> HIDE DEF v, t
      <4> QED BY <3>1
    <3>3. ASSUME NEW j \in 1 .. n - t PROVE v[j] = s[j + t]
      <4>1. j + pos \in 1 .. m /\ j + pos + i - 1 = j + t
        BY <1>2, <2>b
      <4>2. u[j + pos] = s[j + t]
        <5> HIDE DEF u, m, v, t
        <5> QED BY <1>3, <4>1
      <4> HIDE DEF v, t
      <4> QED BY <3>1, <4>2
    <3> QED BY <3>1, <3>2, <3>3
  <2>7. SplitString(u, sep) = <<SubSeq(s, i, t - 1)>> \o split[Skip(v, {sep})]
    <3>1. split[u] = <<SubSeq(u, 1, pos - 1)>> \o split[Skip(v, {sep})]
      BY <1>1, <1>3, <1>5 DEF IsSplit, pos
    <3> QED BY <1>1, <1>3, <2>5, <3>1
  <2> HIDE DEF v, t
  <2>8. t \in Nat /\ t <= n
    BY <1>2, <2>3
  <2>9. CASE \A j \in t + 1 .. n : s[j] = sep
    <3>1. \A j \in DOMAIN v : v[j] \in {sep}
      <4> SUFFICES ASSUME NEW j \in 1 .. n - t PROVE v[j] = sep
        BY <2>6
      <4>1. j + t \in t + 1 .. n
        BY <1>2, <2>8
      <4> QED BY <2>6, <2>9, <4>1
    <3>2. Skip(v, {sep}) = <<>>
      BY <2>6, <3>1, SkipSteps
    <3>3. From(s, n + 1) = <<>>
      BY DEF From
    <3>4. SplitString(u, sep) = <<SubSeq(s, i, t - 1)>> \o SplitString(From(s, n + 1), sep)
      <4>1. SplitString(<<>>, sep) = split[<<>>]
        <5>1. <<>> \in Seq(Int)
          OBVIOUS
        <5> QED BY <1>1, <5>1
      <4> QED BY <2>7, <3>2, <3>3, <4>1
    <3>5. n + 1 \in t + 1 .. n + 1 /\ n + 1 \in Nat /\ ~(n + 1 <= n) /\ (n + 1) - 1 = n
      BY <1>2, <2>8
    <3>6. PieceBefore(s, sep, i, t, n + 1)
      BY <2>3, <2>4, <2>9, <3>4, <3>5 DEF PieceBefore, u
    <3> QED BY <2>8, <3>5, <3>6
  <2>10. CASE \E j \in t + 1 .. n : s[j] # sep
    <3> DEFINE others == {j \in t + 1 .. n : s[j] # sep}
    <3>1. others # {} /\ others \in SUBSET Nat
      <4>1. others # {}
        BY <2>10
      <4>2. \A j \in t + 1 .. n : j \in Nat
        BY <1>2, <2>8
      <4> QED BY <4>1, <4>2
    <3>2. PICK r \in others : \A j \in others : r <= j
      <4> HIDE DEF others
      <4> QED BY <3>1, LeastNumber
    <3>3. r \in t + 1 .. n /\ s[r] # sep /\ r \in Nat /\ r <= n /\ r \in 1 .. n
      BY <1>2, <2>8, <3>2
    <3>4. ASSUME NEW j \in t + 1 .. r - 1 PROVE s[j] = sep
      <4>1. j \in t + 1 .. n /\ ~(r <= j)
        BY <1>2, <2>8, <3>3
      <4> QED BY <3>2, <4>1
    <3> HIDE DEF others
    <3>5. r - t \in DOMAIN v /\ v[r - t] \notin {sep} /\ Len(v) = n - t
      <4>1. r - t \in 1 .. n - t /\ (r - t) + t = r
        BY <1>2, <2>8, <3>3
      <4> QED BY <2>6, <3>3, <4>1
    <3>6. \A j \in 1 .. (r - t) - 1 : v[j] \in {sep}
      <4> SUFFICES ASSUME NEW j \in 1 .. (r - t) - 1 PROVE v[j] = sep
        OBVIOUS
      <4>1. j \in 1 .. n - t /\ j + t \in t + 1 .. r - 1
        BY <1>2, <2>8, <3>3
      <4> QED BY <2>6, <3>4, <4>1
    <3>7. Skip(v, {sep}) = SubSeq(v, r - t, Len(v))
      BY <2>6, <3>5, <3>6, SkipSteps
    <3>8. SubSeq(v, r - t, Len(v)) = From(s, r)
      BY <1>2, <2>6, <2>8, <3>3, SMTT(30) DEF From
    <3>9. From(s, r) \in Seq(Int)
      BY <1>2, <3>3 DEF From
    <3>10. SplitString(u, sep) = <<SubSeq(s, i, t - 1)>> \o SplitString(From(s, r), sep)
      BY <1>1, <2>7, <3>7, <3>8, <3>9
    <3>11. r \in t + 1 .. n + 1
      BY <1>2, <3>3
    <3>12. PieceBefore(s, sep, i, t, r)
      BY <2>3, <2>4, <3>3, <3>4, <3>10, <3>11 DEF PieceBefore, u
    <3> QED BY <2>8, <3>3, <3>12
  <2> QED BY <2>9, <2>10
<1> QED BY <1>4, <1>5

\* split_string gives a text at least one piece.
LEMMA SplitType ==
  ASSUME NEW s \in Seq(Int), NEW sep \in Int
  PROVE  SplitString(s, sep) \in Seq(Seq(Int)) /\ SplitString(s, sep) # <<>>
<1>1. PICK split \in [Seq(Int) -> Seq(Seq(Int))] :
        /\ IsSplit(split, sep)
        /\ \A x \in Seq(Int) : SplitString(x, sep) = split[x]
  BY SplitRecursion
<1>2. SplitString(s, sep) \in Seq(Seq(Int))
  BY <1>1
<1>3. SplitString(s, sep) # <<>>
  <2>1. 1 \in 1 .. Len(s) + 1
    OBVIOUS
  <2>2. From(s, 1) = s
    BY DEF From
  <2>3. CASE LastPiece(s, sep, 1)
    <3>1. SplitString(s, sep) = <<s>>
      BY <2>2, <2>3 DEF LastPiece
    <3> QED BY <3>1
  <2>4. ASSUME NEW t \in Nat, NEW r \in Nat, PieceBefore(s, sep, 1, t, r)
        PROVE  SplitString(s, sep) # <<>>
    <3> DEFINE p == SubSeq(s, 1, t - 1)
               q == SplitString(From(s, r), sep)
    <3>1. SplitString(s, sep) = <<p>> \o q
      BY <2>2, <2>4 DEF PieceBefore
    <3>2. From(s, r) \in Seq(Int)
      BY <2>4 DEF PieceBefore, From
    <3>3. q \in Seq(Seq(Int))
      BY <1>1, <3>2
    <3> HIDE DEF p, q
    <3>4. Len(<<p>> \o q) = 1 + Len(q) /\ Len(q) \in Nat
      BY <3>3
    <3> QED BY <3>1, <3>4
  <2> QED BY <2>1, <2>3, <2>4, SplitStep
<1> QED BY <1>2, <1>3

-----------------------------------------------------------------------------
(***************************************************************************)
(* Pieces of digits and the numbers they say.                              *)
(***************************************************************************)

LEMMA DigitChars ==
  \A c \in Int : IsDigit(c) <=> 48 <= c /\ c <= 57
BY DEF IsDigit, Zero

IsDigits(p) == p \in Seq(Int) /\ p # <<>> /\ \A i \in DOMAIN p : IsDigit(p[i])

\* std::stoi takes a piece of digits as a whole.
LEMMA StoiOfDigits ==
  ASSUME NEW p, IsDigits(p)
  PROVE  /\ [i \in DOMAIN p |-> p[i] - Zero] \in Seq(Digit)
         /\ Stoi(p) = Number([i \in DOMAIN p |-> p[i] - Zero])
         /\ Stoi(p) \in Nat
         /\ StoiThrows(p) <=> Stoi(p) > IntMax
<1>1. p \in Seq(Int) /\ Len(p) \in Nat /\ Len(p) >= 1 /\ DOMAIN p = 1 .. Len(p)
  BY DEF IsDigits
<1>2. \A i \in 1 .. Len(p) : p[i] \in Int /\ IsDigit(p[i]) /\ 48 <= p[i] /\ p[i] <= 57
  <2> SUFFICES ASSUME NEW i \in 1 .. Len(p)
               PROVE  p[i] \in Int /\ IsDigit(p[i]) /\ 48 <= p[i] /\ p[i] <= 57
    OBVIOUS
  <2>1. p[i] \in Int /\ IsDigit(p[i])
    BY <1>1 DEF IsDigits
  <2> QED BY <2>1, DigitChars
<1>b. 1 \in DOMAIN p /\ p[1] \in Int /\ 48 <= p[1] /\ p[1] <= 57
  <2>1. 1 \in 1 .. Len(p)
    BY <1>1
  <2> QED BY <1>1, <1>2, <2>1
<1>3. Skip(p, Blanks) = p
  <2>1. p[1] \notin Blanks /\ 1 .. 1 - 1 = {}
    BY <1>b DEF Blanks
  <2>2. SubSeq(p, 1, Len(p)) = p
    BY <1>1
  <2> QED BY <1>1, <1>b, <2>1, <2>2, SkipSteps
<1>4. ~Signed(p)
  BY <1>b DEF Signed, Plus, Minus
<1>5. Digits(p) = p
  BY <1>1, <1>2 DEF Digits
<1> DEFINE d == [i \in DOMAIN p |-> p[i] - Zero]
<1>6. d \in Seq(Digit)
  <2>1. \A i \in 1 .. Len(p) : p[i] - Zero \in Digit
    <3> SUFFICES ASSUME NEW i \in 1 .. Len(p) PROVE p[i] - Zero \in Digit
      OBVIOUS
    <3>1. p[i] - Zero \in Nat /\ p[i] - Zero <= 9
      BY <1>2 DEF Zero
    <3> QED BY <3>1, DigitRange
  <2> QED BY <1>1, <2>1
<1>7. Stoi(p) = Number(d)
  BY <1>3, <1>4, <1>5 DEF Stoi, Magnitude
<1>8. Number(d) \in Nat
  <2> HIDE DEF d
  <2> QED BY <1>6, ValueIsNumber
<1>9. StoiThrows(p) <=> Stoi(p) > IntMax
  <2>1. ~(Stoi(p) < -IntMax - 1)
    BY <1>7, <1>8, FormatAssumption
  <2>2. Digits(p) # <<>>
    BY <1>5 DEF IsDigits
  <2> QED BY <1>3, <1>4, <2>1, <2>2 DEF StoiThrows
<1> QED BY <1>6, <1>7, <1>8, <1>9

\* The arithmetic of decimal places.
LEMMA Places ==
  ASSUME NEW a \in Nat, NEW b \in Nat, NEW c \in Nat, NEW d \in Nat
  PROVE  /\ 10 * (10 * a + b) + c = 100 * a + 10 * b + c
         /\ 10 * (100 * a + 10 * b + c) + d = 1000 * a + 100 * b + 10 * c + d
         /\ 100 * a + 10 * b + c \in Nat /\ 1000 * a + 100 * b + 10 * c + d \in Nat
         /\ a <= 9 /\ b <= 9 /\ c <= 9 /\ d <= 9 =>
              100 * a + 10 * b + c <= 999 /\ 1000 * a + 100 * b + 10 * c + d <= 9999
OBVIOUS

\* The numbers of up to four digits.
LEMMA SmallNumbers ==
  ASSUME NEW d \in Seq(Digit)
  PROVE  /\ Len(d) = 1 => Number(d) = d[1]
         /\ Len(d) = 2 => Number(d) = 10 * d[1] + d[2]
         /\ Len(d) = 3 => Number(d) = 100 * d[1] + 10 * d[2] + d[3]
         /\ Len(d) = 4 => Number(d) = 1000 * d[1] + 100 * d[2] + 10 * d[3] + d[4]
<1> DEFINE n == Len(d)
<1>1. PICK p \in [0 .. n -> Nat] :
         /\ p[0] = 0 /\ Number(d) = p[n]
         /\ \A k \in 0 .. n - 1 : p[k + 1] = 10 * p[k] + d[k + 1]
  BY NumberSteps
<1>2. n \in Nat /\ \A i \in 1 .. n : d[i] \in Nat
  <2>1. \A i \in 1 .. n : d[i] \in Digit
    OBVIOUS
  <2> HIDE DEF n
  <2> QED BY <2>1, DigitRange DEF n
<1> HIDE DEF n
<1>a. ASSUME NEW k \in Nat, k < n PROVE p[k + 1] = 10 * p[k] + d[k + 1]
  <2>1. k \in 0 .. n - 1
    BY <1>2, <1>a
  <2> QED BY <1>1, <2>1
<1>3. n >= 1 => p[1] = d[1] /\ d[1] \in Nat
  <2>1. n >= 1 => p[0 + 1] = 10 * p[0] + d[0 + 1] /\ d[1] \in Nat
    BY <1>2, <1>a
  <2> QED BY <1>1, <2>1
<1>4. n >= 2 => /\ p[2] = 10 * d[1] + d[2]
                /\ d[1] \in Nat /\ d[2] \in Nat
  <2> SUFFICES ASSUME n >= 2
               PROVE  /\ p[2] = 10 * d[1] + d[2]
                      /\ d[1] \in Nat /\ d[2] \in Nat
    OBVIOUS
  <2>1. 1 \in Nat /\ 1 < n /\ 1 + 1 = 2 /\ 2 \in 1 .. n /\ n >= 1
    BY <1>2
  <2>2. p[2] = 10 * p[1] + d[2]
    BY <1>a, <2>1
  <2>3. d[1] \in Nat /\ d[2] \in Nat
    BY <1>2, <1>3, <2>1
  <2>4. p[2] = 10 * d[1] + d[2]
    BY <1>3, <2>1, <2>2
  <2> QED BY <2>3, <2>4, Places
<1>5. n >= 3 => /\ p[3] = 100 * d[1] + 10 * d[2] + d[3]
                /\ d[1] \in Nat /\ d[2] \in Nat /\ d[3] \in Nat
  <2> SUFFICES ASSUME n >= 3
               PROVE  /\ p[3] = 100 * d[1] + 10 * d[2] + d[3]
                      /\ d[1] \in Nat /\ d[2] \in Nat /\ d[3] \in Nat
    OBVIOUS
  <2>1. 2 \in Nat /\ 2 < n /\ 2 + 1 = 3 /\ 3 \in 1 .. n /\ n >= 2
    BY <1>2
  <2>2. p[3] = 10 * p[2] + d[3]
    BY <1>a, <2>1
  <2>3. d[1] \in Nat /\ d[2] \in Nat /\ d[3] \in Nat
    BY <1>2, <1>4, <2>1
  <2>4. p[3] = 10 * (10 * d[1] + d[2]) + d[3]
    BY <1>4, <2>1, <2>2
  <2> QED BY <2>3, <2>4, Places
<1>6. n >= 4 => /\ p[4] = 1000 * d[1] + 100 * d[2] + 10 * d[3] + d[4]
                /\ d[1] \in Nat /\ d[2] \in Nat /\ d[3] \in Nat /\ d[4] \in Nat
  <2> SUFFICES ASSUME n >= 4
               PROVE  /\ p[4] = 1000 * d[1] + 100 * d[2] + 10 * d[3] + d[4]
                      /\ d[1] \in Nat /\ d[2] \in Nat /\ d[3] \in Nat /\ d[4] \in Nat
    OBVIOUS
  <2>1. 3 \in Nat /\ 3 < n /\ 3 + 1 = 4 /\ 4 \in 1 .. n /\ n >= 3
    BY <1>2
  <2>2. p[4] = 10 * p[3] + d[4]
    BY <1>a, <2>1
  <2>3. d[1] \in Nat /\ d[2] \in Nat /\ d[3] \in Nat /\ d[4] \in Nat
    BY <1>2, <1>5, <2>1
  <2>4. p[4] = 10 * (100 * d[1] + 10 * d[2] + d[3]) + d[4]
    BY <1>5, <2>1, <2>2
  <2>5. 10 * (100 * d[1] + 10 * d[2] + d[3]) + d[4]
          = 1000 * d[1] + 100 * d[2] + 10 * d[3] + d[4]
    <3>1. PICK a, b, c, e \in Nat : a = d[1] /\ b = d[2] /\ c = d[3] /\ e = d[4]
      BY <2>3
    <3>2. 10 * (100 * a + 10 * b + c) + e = 1000 * a + 100 * b + 10 * c + e
      OBVIOUS
    <3> QED BY <3>1, <3>2
  <2> QED BY <2>3, <2>4, <2>5
<1>7. /\ n = 1 => p[n] = d[1]
      /\ n = 2 => p[n] = 10 * d[1] + d[2]
      /\ n = 3 => p[n] = 100 * d[1] + 10 * d[2] + d[3]
      /\ n = 4 => p[n] = 1000 * d[1] + 100 * d[2] + 10 * d[3] + d[4]
  BY <1>3, <1>4, <1>5, <1>6
<1>8. Number(d) = p[n]
  BY <1>1
<1> QED BY <1>7, <1>8 DEF n

\* The numbers two and four digits of a text say.
Two(s, i)  == 10 * (s[i] - Zero) + (s[i + 1] - Zero)
Four(s, i) == 1000 * (s[i] - Zero) + 100 * (s[i + 1] - Zero)
                + 10 * (s[i + 2] - Zero) + (s[i + 3] - Zero)

HasDigits(p, n) == IsDigits(p) /\ Len(p) = n

\* What std::stoi makes of a piece of up to four digits; it never throws.
LEMMA SmallPieces ==
  ASSUME NEW p, IsDigits(p), Len(p) <= 4
  PROVE  /\ ~StoiThrows(p) /\ Stoi(p) \in Nat /\ Stoi(p) <= 9999
         /\ Len(p) <= 2 => Stoi(p) <= 99
         /\ HasDigits(p, 2) => Stoi(p) = Two(p, 1)
         /\ HasDigits(p, 4) => Stoi(p) = Four(p, 1)
<1> DEFINE d == [i \in DOMAIN p |-> p[i] - Zero]
<1>1. d \in Seq(Digit) /\ Stoi(p) = Number(d) /\ (StoiThrows(p) <=> Stoi(p) > IntMax)
  BY StoiOfDigits
<1>2. /\ Len(d) = Len(p) /\ \A i \in 1 .. Len(p) : d[i] = p[i] - Zero
      /\ Len(p) \in Nat /\ Len(p) >= 1
  BY DEF IsDigits
<1> HIDE DEF d
<1>3. \A i \in 1 .. Len(d) : d[i] \in Nat /\ d[i] <= 9
  <2> SUFFICES ASSUME NEW i \in 1 .. Len(d) PROVE d[i] \in Nat /\ d[i] <= 9
    OBVIOUS
  <2>1. d[i] \in Digit
    BY <1>1
  <2> QED BY <2>1, DigitRange
<1>4. IntMax \in Nat /\ IntMax >= 9999
  BY FormatAssumption
<1>5. CASE Len(p) = 1
  <2>1. Stoi(p) = d[1] /\ d[1] \in Nat /\ d[1] <= 9
    BY <1>1, <1>2, <1>3, <1>5, SmallNumbers
  <2> QED BY <1>1, <1>4, <1>5, <2>1 DEF HasDigits
<1>6. CASE Len(p) = 2
  <2>1. /\ Stoi(p) = 10 * d[1] + d[2]
        /\ d[1] \in Nat /\ d[1] <= 9 /\ d[2] \in Nat /\ d[2] <= 9
        /\ d[1] = p[1] - Zero /\ d[2] = p[2] - Zero
    BY <1>1, <1>2, <1>3, <1>6, SmallNumbers
  <2> QED BY <1>1, <1>4, <1>6, <2>1 DEF Two, HasDigits
<1>7. CASE Len(p) = 3
  <2>1. Stoi(p) = 100 * d[1] + 10 * d[2] + d[3]
    BY <1>1, <1>2, <1>7, SmallNumbers
  <2>2. /\ d[1] \in Nat /\ d[1] <= 9 /\ d[2] \in Nat /\ d[2] <= 9
        /\ d[3] \in Nat /\ d[3] <= 9
    BY <1>2, <1>3, <1>7
  <2>3. Stoi(p) \in Nat /\ Stoi(p) <= 9999 /\ ~(Stoi(p) > IntMax)
    <3> DEFINE v == 100 * d[1] + 10 * d[2] + d[3]
    <3>1. v \in Nat /\ v <= 9999
      <4>1. PICK a, b, c \in Nat : a = d[1] /\ b = d[2] /\ c = d[3]
        BY <2>2
      <4>2. a <= 9 /\ b <= 9 /\ c <= 9
        BY <2>2, <4>1
      <4>3. LET w == 100 * a + 10 * b + c IN w \in Nat /\ w <= 9999
        BY <4>2
      <4> QED BY <4>1, <4>3
    <3> HIDE DEF v
    <3> QED BY <1>4, <2>1, <3>1 DEF v
  <2> QED BY <1>1, <1>7, <2>3 DEF HasDigits
<1>8. CASE Len(p) = 4
  <2>1. Stoi(p) = 1000 * d[1] + 100 * d[2] + 10 * d[3] + d[4]
    BY <1>1, <1>2, <1>8, SmallNumbers
  <2>2. /\ d[1] \in Nat /\ d[1] <= 9 /\ d[2] \in Nat /\ d[2] <= 9
        /\ d[3] \in Nat /\ d[3] <= 9 /\ d[4] \in Nat /\ d[4] <= 9
    BY <1>2, <1>3, <1>8
  <2>3. Stoi(p) \in Nat /\ Stoi(p) <= 9999 /\ ~(Stoi(p) > IntMax)
    <3> DEFINE v == 1000 * d[1] + 100 * d[2] + 10 * d[3] + d[4]
    <3>1. v \in Nat /\ v <= 9999
      <4>1. PICK a, b, c, e \in Nat : a = d[1] /\ b = d[2] /\ c = d[3] /\ e = d[4]
        BY <2>2
      <4>2. a <= 9 /\ b <= 9 /\ c <= 9 /\ e <= 9
        BY <2>2, <4>1
      <4>3. LET w == 1000 * a + 100 * b + 10 * c + e IN w \in Nat /\ w <= 9999
        BY <4>2
      <4> QED BY <4>1, <4>3
    <3> HIDE DEF v
    <3> QED BY <1>4, <2>1, <3>1 DEF v
  <2>4. /\ d[1] = p[1] - Zero /\ d[2] = p[2] - Zero
        /\ d[3] = p[3] - Zero /\ d[4] = p[4] - Zero
    BY <1>2, <1>8
  <2>5. Stoi(p) = Four(p, 1)
    BY <2>1, <2>4 DEF Four
  <2> QED BY <1>1, <1>8, <2>3, <2>5 DEF HasDigits
<1> QED BY <1>2, <1>5, <1>6, <1>7, <1>8

-----------------------------------------------------------------------------
(***************************************************************************)
(* Numbers and the text the server makes of them.                          *)
(***************************************************************************)

\* A sequence is the concatenation of two if it has their elements in order.
IsJoin(v, s, u, S) ==
  /\ v \in Seq(S) /\ Len(v) = Len(s) + Len(u)
  /\ \A i \in 1 .. Len(s) : v[i] = s[i]
  /\ \A i \in 1 .. Len(u) : v[Len(s) + i] = u[i]

LEMMA Join ==
  ASSUME NEW S, NEW s \in Seq(S), NEW u \in Seq(S), NEW v, IsJoin(v, s, u, S)
  PROVE  s \o u = v
<1> DEFINE w == s \o u
<1>1. IsJoin(w, s, u, S)
  BY DEF IsJoin
<1> HIDE DEF w
<1>2. \A i \in 1 .. Len(s) + Len(u) : v[i] = w[i]
  <2> SUFFICES ASSUME NEW i \in 1 .. Len(s) + Len(u) PROVE v[i] = w[i]
    OBVIOUS
  <2>1. CASE i <= Len(s)
    BY <1>1, <2>1 DEF IsJoin
  <2>2. CASE ~(i <= Len(s))
    <3>1. i - Len(s) \in 1 .. Len(u) /\ Len(s) + (i - Len(s)) = i
      BY <2>2
    <3> QED BY <1>1, <3>1 DEF IsJoin
  <2> QED BY <2>1, <2>2
<1>3. v \in Seq(S) /\ w \in Seq(S) /\ Len(v) = Len(w) /\ Len(v) = Len(s) + Len(u)
  BY <1>1 DEF IsJoin
<1>4. v = w
  <2>1. \A i \in 1 .. Len(v) : v[i] = w[i]
    BY <1>2, <1>3
  <2> QED BY <1>3, <2>1, SeqEqual
<1> QED BY <1>4 DEF w

\* Concatenations of up to four characters.
LEMMA JoinTwo ==
  ASSUME NEW a, NEW b
  PROVE  <<>> \o <<a, b>> = <<a, b>> /\ <<a>> \o <<b>> = <<a, b>>
<1>1. IsJoin(<<a, b>>, <<a>>, <<b>>, {a, b})
  <2>1. <<a, b>> \in Seq({a, b}) /\ Len(<<a, b>>) = 1 + 1
    OBVIOUS
  <2>2. Len(<<a>>) = 1 /\ Len(<<b>>) = 1
    OBVIOUS
  <2>3. \A i \in 1 .. 1 : i = 1
    OBVIOUS
  <2>4. <<a, b>>[1] = <<a>>[1] /\ <<a, b>>[1 + 1] = <<b>>[1]
    OBVIOUS
  <2> QED BY <2>1, <2>2, <2>3, <2>4 DEF IsJoin
<1>2. <<a>> \in Seq({a, b}) /\ <<b>> \in Seq({a, b})
  OBVIOUS
<1>3. <<>> \o <<a, b>> = <<a, b>>
  OBVIOUS
<1> QED BY <1>1, <1>2, <1>3, Join

LEMMA JoinThree ==
  ASSUME NEW a, NEW b, NEW c
  PROVE  <<a, b>> \o <<c>> = <<a, b, c>> /\ <<a>> \o <<b, c>> = <<a, b, c>>
<1>1. <<a, b>> \o <<c>> = <<a, b, c>>
  <2>1. IsJoin(<<a, b, c>>, <<a, b>>, <<c>>, {a, b, c})
    BY DEF IsJoin
  <2>2. <<a, b>> \in Seq({a, b, c}) /\ <<c>> \in Seq({a, b, c})
    OBVIOUS
  <2> QED BY <2>1, <2>2, Join
<1>2. <<a>> \o <<b, c>> = <<a, b, c>>
  <2>1. IsJoin(<<a, b, c>>, <<a>>, <<b, c>>, {a, b, c})
    BY DEF IsJoin
  <2>2. <<a>> \in Seq({a, b, c}) /\ <<b, c>> \in Seq({a, b, c})
    OBVIOUS
  <2> QED BY <2>1, <2>2, Join
<1> QED BY <1>1, <1>2

LEMMA JoinFour ==
  ASSUME NEW a, NEW b, NEW c, NEW d
  PROVE  /\ <<>> \o <<a, b, c, d>> = <<a, b, c, d>>
         /\ <<a>> \o <<b, c, d>> = <<a, b, c, d>>
         /\ <<a, b>> \o <<c, d>> = <<a, b, c, d>>
         /\ <<a, b, c>> \o <<d>> = <<a, b, c, d>>
<1>1. IsJoin(<<a, b, c, d>>, <<a>>, <<b, c, d>>, {a, b, c, d})
  BY DEF IsJoin
<1>2. IsJoin(<<a, b, c, d>>, <<a, b>>, <<c, d>>, {a, b, c, d})
  BY DEF IsJoin
<1>3. IsJoin(<<a, b, c, d>>, <<a, b, c>>, <<d>>, {a, b, c, d})
  BY DEF IsJoin
<1>4. <<a>> \o <<b, c, d>> = <<a, b, c, d>>
  <2>1. <<a>> \in Seq({a, b, c, d}) /\ <<b, c, d>> \in Seq({a, b, c, d})
    OBVIOUS
  <2> QED BY <1>1, <2>1, Join
<1>5. <<a, b>> \o <<c, d>> = <<a, b, c, d>>
  <2>1. <<a, b>> \in Seq({a, b, c, d}) /\ <<c, d>> \in Seq({a, b, c, d})
    OBVIOUS
  <2> QED BY <1>2, <2>1, Join
<1>6. <<a, b, c>> \o <<d>> = <<a, b, c, d>>
  <2>1. <<a, b, c>> \in Seq({a, b, c, d}) /\ <<d>> \in Seq({a, b, c, d})
    OBVIOUS
  <2> QED BY <1>3, <2>1, Join
<1>7. <<>> \o <<a, b, c, d>> = <<a, b, c, d>>
  OBVIOUS
<1> QED BY <1>4, <1>5, <1>6, <1>7

\* Appending is concatenating one element.
LEMMA AppendJoins ==
  ASSUME NEW S, NEW s \in Seq(S), NEW d \in S
  PROVE  Append(s, d) = s \o <<d>>
<1>1. <<d>> \in Seq(S) /\ Len(<<d>>) = 1 /\ <<d>>[1] = d
  OBVIOUS
<1>2. IsJoin(Append(s, d), s, <<d>>, S)
  BY DEF IsJoin
<1>3. s \o <<d>> = Append(s, d)
  BY <1>1, <1>2, Join
<1> QED BY <1>3

\* One more digit in a numeral.
LEMMA NumeralOfMore ==
  ASSUME NEW m \in Nat, m >= 1, NEW d \in Nat, d <= 9
  PROVE  Numeral[10 * m + d] = Numeral[m] \o <<d>>
<1>1. (10 * m + d) \div 10 = m /\ (10 * m + d) % 10 = d
  OBVIOUS
<1>2. 10 * m + d \in Nat /\ 10 * m + d >= 10
  OBVIOUS
<1>3. Numeral[10 * m + d] = Append(Numeral[m], d)
  BY <1>1, <1>2, NumeralSteps
<1>4. Numeral[m] \in Seq(Digit) /\ d \in Digit
  BY NumeralSteps, DigitRange
<1> QED BY <1>3, <1>4, AppendJoins

\* The numerals of up to four digits.
LEMMA NumeralOfTwo ==
  ASSUME NEW a \in Nat, NEW b \in Nat, 1 <= a, a <= 9, b <= 9
  PROVE  Numeral[10 * a + b] = <<a, b>>
<1>1. Numeral[a] = <<a>>
  BY NumeralSteps
<1> QED BY <1>1, NumeralOfMore, JoinTwo

LEMMA NumeralOfThree ==
  ASSUME NEW a \in Nat, NEW b \in Nat, NEW c \in Nat, 1 <= a, a <= 9, b <= 9, c <= 9
  PROVE  Numeral[100 * a + 10 * b + c] = <<a, b, c>>
<1> DEFINE m == 10 * a + b
<1>1. m \in Nat /\ m >= 1 /\ 10 * m + c = 100 * a + 10 * b + c
  OBVIOUS
<1>2. Numeral[m] = <<a, b>>
  BY NumeralOfTwo
<1> HIDE DEF m
<1>3. Numeral[10 * m + c] = Numeral[m] \o <<c>>
  BY <1>1, NumeralOfMore
<1>4. <<a, b>> \o <<c>> = <<a, b, c>>
  BY JoinThree
<1> QED BY <1>1, <1>2, <1>3, <1>4

\* A number below a hundred is written as its two digits.
LEMMA PaddedToTwo ==
  ASSUME NEW a \in Nat, NEW b \in Nat, a <= 9, b <= 9
  PROVE  Padded(10 * a + b, 2) = <<Zero + a, Zero + b>>
<1> DEFINE n == 10 * a + b
<1>1. n \in Nat /\ (a = 0 <=> n < 10)
  OBVIOUS
<1>2. Padded(n, 2) = Padding(n, 2) \o Decimal(n)
  BY <1>1 DEF Padded, IntToStr
<1>3. CASE a = 0
  <2>1. n = b
    BY <1>3
  <2>2. Numeral[n] = <<b>>
    BY <2>1, NumeralSteps
  <2>3. Decimal(n) = <<Zero + b>>
    BY <2>2 DEF Decimal
  <2>4. Padding(n, 2) = <<Zero>>
    BY <1>1, <1>3 DEF Padding
  <2>5. Zero + a = Zero
    BY <1>3 DEF Zero
  <2> HIDE DEF n
  <2> QED BY <1>2, <2>3, <2>4, <2>5, JoinTwo DEF n
<1>4. CASE a # 0
  <2>1. Numeral[n] = <<a, b>>
    <3>1. a >= 1
      BY <1>4
    <3> QED BY <3>1, NumeralOfTwo
  <2>2. Decimal(n) = <<Zero + a, Zero + b>>
    BY <2>1 DEF Decimal
  <2>3. Padding(n, 2) = <<>>
    BY <1>1, <1>4 DEF Padding
  <2> HIDE DEF n
  <2> QED BY <1>2, <2>2, <2>3, JoinTwo DEF n
<1> QED BY <1>3, <1>4

\* A number below ten thousand is written as its four digits.
LEMMA PaddedToFour ==
  ASSUME NEW a \in Nat, NEW b \in Nat, NEW c \in Nat, NEW d \in Nat,
         a <= 9, b <= 9, c <= 9, d <= 9
  PROVE  Padded(1000 * a + 100 * b + 10 * c + d, 4) = <<Zero + a, Zero + b, Zero + c, Zero + d>>
<1> DEFINE n == 1000 * a + 100 * b + 10 * c + d
<1>1. n \in Nat
  OBVIOUS
<1>2. Padded(n, 4) = Padding(n, 4) \o Decimal(n)
  BY <1>1 DEF Padded, IntToStr
<1>3. CASE a >= 1
  <2>1. n >= 1000
    BY <1>3
  <2>2. Numeral[n] = <<a, b, c, d>>
    <3> DEFINE m == 100 * a + 10 * b + c
    <3>1. m \in Nat /\ m >= 1 /\ n = 10 * m + d
      BY <1>3
    <3>2. Numeral[m] = <<a, b, c>>
      BY <1>3, NumeralOfThree
    <3> HIDE DEF m, n
    <3>3. Numeral[10 * m + d] = Numeral[m] \o <<d>>
      BY <3>1, NumeralOfMore
    <3>4. <<a, b, c>> \o <<d>> = <<a, b, c, d>>
      BY JoinFour
    <3> QED BY <3>1, <3>2, <3>3, <3>4
  <2> HIDE DEF n
  <2>3. Decimal(n) = <<Zero + a, Zero + b, Zero + c, Zero + d>>
    BY <2>2 DEF Decimal
  <2>4. Padding(n, 4) = <<>>
    BY <1>1, <2>1 DEF Padding
  <2>5. <<>> \o <<Zero + a, Zero + b, Zero + c, Zero + d>>
          = <<Zero + a, Zero + b, Zero + c, Zero + d>>
    BY JoinFour
  <2>6. Padded(n, 4) = <<Zero + a, Zero + b, Zero + c, Zero + d>>
    BY <1>2, <2>3, <2>4, <2>5
  <2> QED BY <2>6 DEF n
<1>4. CASE a = 0 /\ b >= 1
  <2>1. n = 100 * b + 10 * c + d /\ n >= 100 /\ n < 1000
    BY <1>4
  <2>2. Numeral[n] = <<b, c, d>>
    <3>1. Numeral[100 * b + 10 * c + d] = <<b, c, d>>
      BY <1>4, NumeralOfThree
    <3> HIDE DEF n
    <3> QED BY <2>1, <3>1
  <2> HIDE DEF n
  <2>3. Decimal(n) = <<Zero + b, Zero + c, Zero + d>>
    BY <2>2 DEF Decimal
  <2>4. Padding(n, 4) = <<Zero>>
    BY <1>1, <2>1 DEF Padding
  <2>5. <<Zero>> \o <<Zero + b, Zero + c, Zero + d>>
          = <<Zero, Zero + b, Zero + c, Zero + d>>
    BY JoinFour
  <2>6. Zero + a = Zero
    BY <1>4 DEF Zero
  <2>7. Padded(n, 4) = <<Zero, Zero + b, Zero + c, Zero + d>>
    BY <1>2, <2>3, <2>4, <2>5
  <2> QED BY <2>6, <2>7 DEF n
<1>5. CASE a = 0 /\ b = 0 /\ c >= 1
  <2>1. n = 10 * c + d /\ n >= 10 /\ n < 100
    BY <1>5
  <2>2. Numeral[n] = <<c, d>>
    <3>1. Numeral[10 * c + d] = <<c, d>>
      BY <1>5, NumeralOfTwo
    <3> HIDE DEF n
    <3> QED BY <2>1, <3>1
  <2> HIDE DEF n
  <2>3. Decimal(n) = <<Zero + c, Zero + d>>
    BY <2>2 DEF Decimal
  <2>4. Padding(n, 4) = <<Zero, Zero>>
    BY <1>1, <2>1 DEF Padding
  <2>5. <<Zero, Zero>> \o <<Zero + c, Zero + d>> = <<Zero, Zero, Zero + c, Zero + d>>
    BY JoinFour
  <2>6. Zero + a = Zero /\ Zero + b = Zero
    BY <1>5 DEF Zero
  <2>7. Padded(n, 4) = <<Zero, Zero, Zero + c, Zero + d>>
    BY <1>2, <2>3, <2>4, <2>5
  <2> QED BY <2>6, <2>7 DEF n
<1>6. CASE a = 0 /\ b = 0 /\ c = 0
  <2>1. n = d /\ n < 10
    BY <1>6
  <2>2. Numeral[n] = <<d>>
    <3>1. Numeral[d] = <<d>>
      BY <1>6, NumeralSteps
    <3> HIDE DEF n
    <3> QED BY <2>1, <3>1
  <2> HIDE DEF n
  <2>3. Decimal(n) = <<Zero + d>>
    BY <2>2 DEF Decimal
  <2>4. Padding(n, 4) = <<Zero, Zero, Zero>>
    BY <1>1, <2>1 DEF Padding
  <2>5. <<Zero, Zero, Zero>> \o <<Zero + d>> = <<Zero, Zero, Zero, Zero + d>>
    BY JoinFour
  <2>6. Zero + a = Zero /\ Zero + b = Zero /\ Zero + c = Zero
    BY <1>6 DEF Zero
  <2>7. Padded(n, 4) = <<Zero, Zero, Zero, Zero + d>>
    BY <1>2, <2>3, <2>4, <2>5
  <2> QED BY <2>6, <2>7 DEF n
<1>7. a >= 1 \/ (a = 0 /\ b >= 1) \/ (a = 0 /\ b = 0 /\ c >= 1) \/ (a = 0 /\ b = 0 /\ c = 0)
  OBVIOUS
<1> QED BY <1>3, <1>4, <1>5, <1>6, <1>7

-----------------------------------------------------------------------------
(***************************************************************************)
(* A part of the format, and the three numbers it says.                    *)
(***************************************************************************)

IsPart(part, s) ==
  /\ s \in Seq(Int) /\ Len(s) = IF part = "time" THEN 8 ELSE 10
  /\ \A i \in DOMAIN s : IF i \in {3, 6} THEN s[i] = Sep(part) ELSE IsDigit(s[i])

Numbers(part, s) ==
  <<Two(s, 1), Two(s, 4), IF part = "time" THEN Two(s, 7) ELSE Four(s, 7)>>

\* Two and four digits in a text, and what Padded makes of the number they say.
DigitAt(s, i) == i \in DOMAIN s /\ IsDigit(s[i])

LEMMA DigitValue ==
  ASSUME NEW s \in Seq(Int), NEW i, DigitAt(s, i)
  PROVE  s[i] - Zero \in Nat /\ s[i] - Zero <= 9 /\ Zero + (s[i] - Zero) = s[i]
<1>1. s[i] \in Int /\ IsDigit(s[i])
  BY DEF DigitAt
<1> QED BY <1>1, DigitChars DEF Zero

LEMMA TwoPadded ==
  ASSUME NEW s \in Seq(Int), NEW i \in Nat, DigitAt(s, i), DigitAt(s, i + 1)
  PROVE  Padded(Two(s, i), 2) = <<s[i], s[i + 1]>> /\ Two(s, i) \in Nat /\ Two(s, i) <= 99
<1> DEFINE a == s[i] - Zero
           b == s[i + 1] - Zero
<1>1. a \in Nat /\ a <= 9 /\ Zero + a = s[i] /\ b \in Nat /\ b <= 9 /\ Zero + b = s[i + 1]
  BY DigitValue
<1> HIDE DEF a, b
<1>2. Padded(10 * a + b, 2) = <<Zero + a, Zero + b>>
  BY <1>1, PaddedToTwo
<1>3. Two(s, i) = 10 * a + b
  BY DEF Two, a, b
<1>4. 10 * a + b \in Nat /\ 10 * a + b <= 99
  BY <1>1
<1> QED BY <1>1, <1>2, <1>3, <1>4

LEMMA FourPadded ==
  ASSUME NEW s \in Seq(Int), NEW i \in Nat,
         DigitAt(s, i), DigitAt(s, i + 1), DigitAt(s, i + 2), DigitAt(s, i + 3)
  PROVE  /\ Padded(Four(s, i), 4) = <<s[i], s[i + 1], s[i + 2], s[i + 3]>>
         /\ Four(s, i) \in Nat /\ Four(s, i) <= 9999
<1> DEFINE a == s[i] - Zero
           b == s[i + 1] - Zero
           c == s[i + 2] - Zero
           d == s[i + 3] - Zero
<1>1. a \in Nat /\ a <= 9 /\ Zero + a = s[i] /\ b \in Nat /\ b <= 9 /\ Zero + b = s[i + 1]
  BY DigitValue
<1>2. c \in Nat /\ c <= 9 /\ Zero + c = s[i + 2] /\ d \in Nat /\ d <= 9 /\ Zero + d = s[i + 3]
  BY DigitValue
<1>3. Four(s, i) = 1000 * a + 100 * b + 10 * c + d
  BY DEF Four
<1> HIDE DEF a, b, c, d
<1>4. Padded(1000 * a + 100 * b + 10 * c + d, 4) = <<Zero + a, Zero + b, Zero + c, Zero + d>>
  BY <1>1, <1>2, PaddedToFour
<1>5. LET n == 1000 * a + 100 * b + 10 * c + d IN n \in Nat /\ n <= 9999
  BY <1>1, <1>2
<1> QED BY <1>1, <1>2, <1>3, <1>4, <1>5

\* The text of a part, put together.
LEMMA JoinDate ==
  ASSUME NEW a, NEW b, NEW x, NEW c, NEW d, NEW e, NEW f, NEW g, NEW h
  PROVE  <<a, b>> \o <<x>> \o <<c, d>> \o <<x>> \o <<e, f, g, h>>
           = <<a, b, x, c, d, x, e, f, g, h>>
<1> DEFINE S == {a, b, x, c, d, e, f, g, h}
<1>1. <<a, b>> \o <<x>> = <<a, b, x>>
  BY JoinThree
<1>2. <<a, b, x>> \o <<c, d>> = <<a, b, x, c, d>>
  <2>1. IsJoin(<<a, b, x, c, d>>, <<a, b, x>>, <<c, d>>, S)
    BY DEF IsJoin
  <2>2. <<a, b, x>> \in Seq(S) /\ <<c, d>> \in Seq(S)
    OBVIOUS
  <2> QED BY <2>1, <2>2, Join
<1>3. <<a, b, x, c, d>> \o <<x>> = <<a, b, x, c, d, x>>
  <2>1. IsJoin(<<a, b, x, c, d, x>>, <<a, b, x, c, d>>, <<x>>, S)
    BY DEF IsJoin
  <2>2. <<a, b, x, c, d>> \in Seq(S) /\ <<x>> \in Seq(S)
    OBVIOUS
  <2> QED BY <2>1, <2>2, Join
<1>4. <<a, b, x, c, d, x>> \o <<e, f, g, h>> = <<a, b, x, c, d, x, e, f, g, h>>
  <2>1. IsJoin(<<a, b, x, c, d, x, e, f, g, h>>, <<a, b, x, c, d, x>>, <<e, f, g, h>>, S)
    BY DEF IsJoin
  <2>2. <<a, b, x, c, d, x>> \in Seq(S) /\ <<e, f, g, h>> \in Seq(S)
    OBVIOUS
  <2> QED BY <2>1, <2>2, Join
<1> QED BY <1>1, <1>2, <1>3, <1>4

LEMMA JoinTime ==
  ASSUME NEW a, NEW b, NEW x, NEW c, NEW d, NEW e, NEW f
  PROVE  <<a, b>> \o <<x>> \o <<c, d>> \o <<x>> \o <<e, f>> = <<a, b, x, c, d, x, e, f>>
<1> DEFINE S == {a, b, x, c, d, e, f}
<1>1. <<a, b>> \o <<x>> = <<a, b, x>>
  BY JoinThree
<1>2. <<a, b, x>> \o <<c, d>> = <<a, b, x, c, d>>
  <2>1. IsJoin(<<a, b, x, c, d>>, <<a, b, x>>, <<c, d>>, S)
    BY DEF IsJoin
  <2>2. <<a, b, x>> \in Seq(S) /\ <<c, d>> \in Seq(S)
    OBVIOUS
  <2> QED BY <2>1, <2>2, Join
<1>3. <<a, b, x, c, d>> \o <<x>> = <<a, b, x, c, d, x>>
  <2>1. IsJoin(<<a, b, x, c, d, x>>, <<a, b, x, c, d>>, <<x>>, S)
    BY DEF IsJoin
  <2>2. <<a, b, x, c, d>> \in Seq(S) /\ <<x>> \in Seq(S)
    OBVIOUS
  <2> QED BY <2>1, <2>2, Join
<1>4. <<a, b, x, c, d, x>> \o <<e, f>> = <<a, b, x, c, d, x, e, f>>
  <2>1. IsJoin(<<a, b, x, c, d, x, e, f>>, <<a, b, x, c, d, x>>, <<e, f>>, S)
    BY DEF IsJoin
  <2>2. <<a, b, x, c, d, x>> \in Seq(S) /\ <<e, f>> \in Seq(S)
    OBVIOUS
  <2> QED BY <2>1, <2>2, Join
<1> QED BY <1>1, <1>2, <1>3, <1>4

\* Where the digits of a part are.
LEMMA PartDigits ==
  ASSUME NEW part \in Parts, NEW s, IsPart(part, s)
  PROVE  /\ s \in Seq(Int) /\ s[3] = Sep(part) /\ s[6] = Sep(part)
         /\ DigitAt(s, 1) /\ DigitAt(s, 2) /\ DigitAt(s, 4) /\ DigitAt(s, 5)
         /\ DigitAt(s, 7) /\ DigitAt(s, 8)
         /\ part # "time" => DigitAt(s, 9) /\ DigitAt(s, 10)
<1>1. /\ s \in Seq(Int) /\ Len(s) \in Nat /\ Len(s) >= 8
      /\ part # "time" => Len(s) = 10
  <2>1. s \in Seq(Int) /\ Len(s) = IF part = "time" THEN 8 ELSE 10
    BY DEF IsPart
  <2>2. CASE part = "time"
    BY <2>1, <2>2
  <2>3. CASE part # "time"
    BY <2>1, <2>3
  <2> QED BY <2>2, <2>3
<1>2. \A i \in {1, 2, 4, 5, 7, 8} : i \in DOMAIN s /\ i \notin {3, 6}
  BY <1>1
<1>3. part # "time" => \A i \in {9, 10} : i \in DOMAIN s /\ i \notin {3, 6}
  BY <1>1
<1>4. 3 \in DOMAIN s /\ 6 \in DOMAIN s
  BY <1>1
<1>5. s[3] = Sep(part) /\ s[6] = Sep(part)
  BY <1>4 DEF IsPart
<1>6. \A i \in {1, 2, 4, 5, 7, 8} : DigitAt(s, i)
  BY <1>2 DEF IsPart, DigitAt
<1>7. part # "time" => \A i \in {9, 10} : DigitAt(s, i)
  BY <1>3 DEF IsPart, DigitAt
<1> QED BY <1>1, <1>5, <1>6, <1>7

\* What the server writes of the numbers of a part is that part.
LEMMA PartWritten ==
  ASSUME NEW part \in Parts, NEW s, IsPart(part, s)
  PROVE  PartToStr(part, Numbers(part, s)) = s
<1>1. /\ s \in Seq(Int) /\ s[3] = Sep(part) /\ s[6] = Sep(part)
      /\ DigitAt(s, 1) /\ DigitAt(s, 1 + 1) /\ DigitAt(s, 4) /\ DigitAt(s, 4 + 1)
      /\ DigitAt(s, 7) /\ DigitAt(s, 7 + 1)
      /\ part # "time" => DigitAt(s, 7 + 2) /\ DigitAt(s, 7 + 3)
  BY PartDigits
<1>2. Padded(Two(s, 1), 2) = <<s[1], s[2]>> /\ Padded(Two(s, 4), 2) = <<s[4], s[5]>>
  BY <1>1, TwoPadded
<1>3. CASE part = "time"
  <2>1. Padded(Two(s, 7), 2) = <<s[7], s[8]>>
    BY <1>1, TwoPadded
  <2>2. PartToStr(part, Numbers(part, s))
          = <<s[1], s[2]>> \o <<s[3]>> \o <<s[4], s[5]>> \o <<s[3]>> \o <<s[7], s[8]>>
    <3>1. Numbers(part, s) = <<Two(s, 1), Two(s, 4), Two(s, 7)>>
      BY <1>3 DEF Numbers
    <3>2. PartToStr(part, <<Two(s, 1), Two(s, 4), Two(s, 7)>>)
            = Padded(Two(s, 1), 2) \o <<Sep(part)>> \o Padded(Two(s, 4), 2)
                \o <<Sep(part)>> \o Padded(Two(s, 7), 2)
      BY <1>3 DEF PartToStr
    <3>3. Sep(part) = s[3]
      BY <1>1
    <3> QED BY <1>2, <2>1, <3>1, <3>2, <3>3, Zenon
  <2>3. PartToStr(part, Numbers(part, s))
          = <<s[1], s[2], s[3], s[4], s[5], s[3], s[7], s[8]>>
    BY <2>2, JoinTime
  <2>4. s = <<s[1], s[2], s[3], s[4], s[5], s[6], s[7], s[8]>>
    <3>1. Len(s) = 8
      BY <1>3 DEF IsPart
    <3> QED BY <1>1, <3>1
  <2> QED BY <1>1, <2>3, <2>4
<1>4. CASE part # "time"
  <2>1. Padded(Four(s, 7), 4) = <<s[7], s[8], s[9], s[10]>>
    BY <1>1, <1>4, FourPadded
  <2>2. PartToStr(part, Numbers(part, s))
          = <<s[1], s[2]>> \o <<s[3]>> \o <<s[4], s[5]>> \o <<s[3]>>
              \o <<s[7], s[8], s[9], s[10]>>
    <3>1. Numbers(part, s) = <<Two(s, 1), Two(s, 4), Four(s, 7)>>
      BY <1>4 DEF Numbers
    <3>2. PartToStr(part, <<Two(s, 1), Two(s, 4), Four(s, 7)>>)
            = Padded(Two(s, 1), 2) \o <<Sep(part)>> \o Padded(Two(s, 4), 2)
                \o <<Sep(part)>> \o Padded(Four(s, 7), 4)
      BY <1>4 DEF PartToStr
    <3>3. Sep(part) = s[3]
      BY <1>1
    <3> QED BY <1>2, <2>1, <3>1, <3>2, <3>3, Zenon
  <2>3. PartToStr(part, Numbers(part, s))
          = <<s[1], s[2], s[3], s[4], s[5], s[3], s[7], s[8], s[9], s[10]>>
    BY <2>2, JoinDate
  <2>4. s = <<s[1], s[2], s[3], s[4], s[5], s[6], s[7], s[8], s[9], s[10]>>
    <3>1. Len(s) = 10
      BY <1>4 DEF IsPart
    <3> QED BY <1>1, <3>1
  <2> QED BY <1>1, <2>3, <2>4
<1> QED BY <1>3, <1>4

-----------------------------------------------------------------------------
(***************************************************************************)
(* The parser on the parts it is meant for, and on those the check of the  *)
(* TCP client lets through.                                                *)
(***************************************************************************)

\* Pieces between separators are made of digits.
LEMMA PieceDigits ==
  ASSUME NEW s \in Seq(Int), NEW i \in Nat, NEW j \in Nat, 1 <= i, i <= j, j <= Len(s),
         \A k \in i .. j : IsDigit(s[k])
  PROVE  LET p == SubSeq(s, i, j)
         IN  IsDigits(p) /\ Len(p) = j - i + 1 /\ \A k \in 1 .. j - i + 1 : p[k] = s[i + k - 1]
<1> DEFINE p == SubSeq(s, i, j)
           n == j - i + 1
<1>1. n \in Nat /\ n >= 1
  OBVIOUS
<1>2. p \in Seq(Int) /\ Len(p) = n /\ \A k \in 1 .. n : p[k] = s[i + k - 1]
  OBVIOUS
<1> HIDE DEF p
<1>3. ASSUME NEW k \in 1 .. n PROVE IsDigit(p[k])
  <2>1. i + k - 1 \in i .. j
    OBVIOUS
  <2> HIDE DEF n
  <2> QED BY <1>2, <2>1
<1>4. IsDigits(p)
  <2>1. p # <<>>
    <3> HIDE DEF n
    <3> QED BY <1>1, <1>2
  <2>2. DOMAIN p = 1 .. n
    <3> HIDE DEF n
    <3> QED BY <1>2
  <2> HIDE DEF n
  <2> QED BY <1>2, <1>3, <2>1, <2>2 DEF IsDigits
<1> QED BY <1>2, <1>4 DEF p

\* No separator is a digit.
LEMMA SepIsNoDigit ==
  ASSUME NEW part \in Parts
  PROVE  Sep(part) \in Int /\ ~IsDigit(Sep(part))
<1>1. Sep(part) \in {46, 58}
  BY DEF Sep, Dot, Colon
<1>2. Sep(part) \in Int /\ (Sep(part) < 48 \/ Sep(part) > 57)
  BY <1>1
<1> QED BY <1>2, DigitChars

\* A part of the format is taken apart at its two separators.
LEMMA PartSplit ==
  ASSUME NEW part \in Parts, NEW s, IsPart(part, s)
  PROVE  SplitString(s, Sep(part))
           = <<SubSeq(s, 1, 2), SubSeq(s, 4, 5), SubSeq(s, 7, Len(s))>>
<1> DEFINE sep == Sep(part)
           n == Len(s)
<1>1. sep \in Int /\ ~IsDigit(sep)
  BY SepIsNoDigit
<1>2. s \in Seq(Int) /\ n \in Nat /\ n >= 8 /\ s[3] = sep /\ s[6] = sep
  BY PartDigits DEF IsPart
<1>3. \A i \in 1 .. n : i \notin {3, 6} => s[i] # sep
  <2> SUFFICES ASSUME NEW i \in 1 .. n, i \notin {3, 6} PROVE s[i] # sep
    OBVIOUS
  <2>1. IsDigit(s[i])
    <3>1. i \in DOMAIN s
      BY <1>2
    <3> QED BY <3>1 DEF IsPart
  <2> QED BY <1>1, <2>1
<1> HIDE DEF sep, n
<1>4. PieceBefore(s, sep, 1, 3, 4)
  <2>1. ~LastPiece(s, sep, 1)
    BY <1>2 DEF LastPiece, n
  <2>2. PICK t, r \in Nat : PieceBefore(s, sep, 1, t, r)
    <3>1. 1 \in 1 .. Len(s) + 1
      BY <1>2 DEF n
    <3> QED BY <1>1, <1>2, <2>1, <3>1, SplitStep
  <2>3. t \in 1 .. n /\ s[t] = sep /\ \A j \in 1 .. t - 1 : s[j] # sep
    BY <2>2 DEF PieceBefore, n
  <2>4. t = 3
    <3>1. t <= 3
      BY <1>2, <2>3
    <3>2. t \in {3, 6}
      BY <1>3, <2>3
    <3> QED BY <3>1, <3>2
  <2>5. r \in 4 .. n + 1 /\ \A j \in 4 .. r - 1 : s[j] = sep
    BY <2>2, <2>4 DEF PieceBefore, n
  <2>6. r = 4
    <3>1. s[4] # sep
      BY <1>2, <1>3
    <3>2. ~(4 \in 4 .. r - 1)
      BY <2>5, <3>1
    <3> QED BY <2>5, <3>2
  <2> QED BY <2>2, <2>4, <2>6
<1>5. PieceBefore(s, sep, 4, 6, 7)
  <2>1. ~LastPiece(s, sep, 4)
    BY <1>2 DEF LastPiece, n
  <2>2. PICK t, r \in Nat : PieceBefore(s, sep, 4, t, r)
    <3>1. 4 \in 1 .. Len(s) + 1
      BY <1>2 DEF n
    <3> QED BY <1>1, <1>2, <2>1, <3>1, SplitStep
  <2>3. t \in 4 .. n /\ s[t] = sep /\ \A j \in 4 .. t - 1 : s[j] # sep
    BY <2>2 DEF PieceBefore, n
  <2>4. t = 6
    <3>1. t \in {3, 6}
      <4>1. t \in 1 .. n
        BY <1>2, <2>3
      <4> QED BY <1>3, <2>3, <4>1
    <3> QED BY <2>3, <3>1
  <2>5. r \in 7 .. n + 1 /\ \A j \in 7 .. r - 1 : s[j] = sep
    BY <2>2, <2>4 DEF PieceBefore, n
  <2>6. r = 7
    <3>1. s[7] # sep
      BY <1>2, <1>3
    <3>2. ~(7 \in 7 .. r - 1)
      BY <2>5, <3>1
    <3> QED BY <2>5, <3>2
  <2> QED BY <2>2, <2>4, <2>6
<1>6. LastPiece(s, sep, 7)
  <2>1. ASSUME NEW t \in Nat, NEW r \in Nat, PieceBefore(s, sep, 7, t, r) PROVE FALSE
    <3>1. t \in 7 .. n /\ s[t] = sep
      BY <2>1 DEF PieceBefore, n
    <3>2. t \in 1 .. n /\ t \notin {3, 6}
      BY <1>2, <3>1
    <3> QED BY <1>3, <3>1, <3>2
  <2>2. 7 \in 1 .. Len(s) + 1
    BY <1>2 DEF n
  <2> QED BY <1>1, <1>2, <2>1, <2>2, SplitStep
<1>7. From(s, 1) = s
  BY <1>2 DEF From
<1>8. SplitString(s, sep)
        = <<SubSeq(s, 1, 2)>> \o (<<SubSeq(s, 4, 5)>> \o <<SubSeq(s, 7, Len(s))>>)
  <2>1. SplitString(From(s, 1), sep) = <<SubSeq(s, 1, 3 - 1)>> \o SplitString(From(s, 4), sep)
    BY <1>4 DEF PieceBefore
  <2>2. SplitString(From(s, 4), sep) = <<SubSeq(s, 4, 6 - 1)>> \o SplitString(From(s, 7), sep)
    BY <1>5 DEF PieceBefore
  <2>3. SplitString(From(s, 7), sep) = <<SubSeq(s, 7, Len(s))>>
    BY <1>6 DEF LastPiece, From
  <2>4. 3 - 1 = 2 /\ 6 - 1 = 5
    OBVIOUS
  <2> QED BY <1>7, <2>1, <2>2, <2>3, <2>4, Zenon
<1> DEFINE a == SubSeq(s, 1, 2)
           b == SubSeq(s, 4, 5)
           c == SubSeq(s, 7, Len(s))
<1> HIDE DEF a, b, c
<1>9. <<b>> \o <<c>> = <<b, c>>
  BY JoinTwo
<1>10. <<a>> \o <<b, c>> = <<a, b, c>>
  BY JoinThree
<1>11. SplitString(s, sep) = <<a, b, c>>
  BY <1>8, <1>9, <1>10, Zenon DEF a, b, c
<1> QED BY <1>11 DEF a, b, c, sep

\* The fields hold numbers of two digits and years of four as they are.
LEMMA FieldsHold ==
  /\ \A n \in Nat : n <= 127 => Char(n) = n
  /\ \A n \in Nat : n <= 65535 => UInt16(n) = n
BY DEF Char, UInt16

\* A piece of at most w digits.
IsNumber(p, w) == IsDigits(p) /\ Len(p) <= w

Width(part) == IF part = "time" THEN 2 ELSE 4

LEMMA NumberStoi ==
  ASSUME NEW p
  PROVE  /\ IsNumber(p, 4) => ~StoiThrows(p) /\ Stoi(p) \in Nat /\ Stoi(p) <= 9999
         /\ IsNumber(p, 2) => ~StoiThrows(p) /\ Stoi(p) \in Nat /\ Stoi(p) <= 99
<1>1. ASSUME IsNumber(p, 4) PROVE ~StoiThrows(p) /\ Stoi(p) \in Nat /\ Stoi(p) <= 9999
  BY <1>1, SmallPieces DEF IsNumber
<1>2. ASSUME IsNumber(p, 2) PROVE ~StoiThrows(p) /\ Stoi(p) \in Nat /\ Stoi(p) <= 99
  <2>1. IsDigits(p) /\ Len(p) <= 2
    BY <1>2 DEF IsNumber
  <2>2. Len(p) <= 4
    <3>1. Len(p) \in Nat
      BY <2>1 DEF IsDigits
    <3> QED BY <2>1, <3>1
  <2> QED BY <2>1, <2>2, SmallPieces
<1> QED BY <1>1, <1>2

LEMMA DigitsStoi ==
  ASSUME NEW p
  PROVE  /\ HasDigits(p, 2) => IsNumber(p, 2) /\ Stoi(p) = Two(p, 1)
         /\ HasDigits(p, 4) => IsNumber(p, 4) /\ Stoi(p) = Four(p, 1)
<1>1. ASSUME HasDigits(p, 2) PROVE IsNumber(p, 2) /\ Stoi(p) = Two(p, 1)
  <2>1. IsDigits(p) /\ Len(p) <= 4 /\ IsNumber(p, 2)
    BY <1>1 DEF HasDigits, IsNumber
  <2> QED BY <1>1, <2>1, SmallPieces
<1>2. ASSUME HasDigits(p, 4) PROVE IsNumber(p, 4) /\ Stoi(p) = Four(p, 1)
  <2>1. IsDigits(p) /\ Len(p) <= 4 /\ IsNumber(p, 4)
    BY <1>2 DEF HasDigits, IsNumber
  <2> QED BY <1>2, <2>1, SmallPieces
<1> QED BY <1>1, <1>2

\* Pieces of two and of four digits.
LEMMA TwoPiece ==
  ASSUME NEW s \in Seq(Int), NEW i \in Nat, 1 <= i, DigitAt(s, i), DigitAt(s, i + 1)
  PROVE  LET p == SubSeq(s, i, i + 1) IN IsNumber(p, 2) /\ Stoi(p) = Two(s, i)
<1> DEFINE p == SubSeq(s, i, i + 1)
           j == i + 1
<1>1. j \in Nat /\ i <= j /\ j <= Len(s) /\ j - i + 1 = 2
  BY DEF DigitAt
<1>2. \A k \in i .. j : IsDigit(s[k])
  <2> SUFFICES ASSUME NEW k \in i .. j PROVE IsDigit(s[k])
    OBVIOUS
  <2>1. k = i \/ k = i + 1
    OBVIOUS
  <2> QED BY <2>1 DEF DigitAt
<1> HIDE DEF j
<1>3. /\ IsDigits(SubSeq(s, i, j)) /\ Len(SubSeq(s, i, j)) = j - i + 1
      /\ \A k \in 1 .. j - i + 1 : SubSeq(s, i, j)[k] = s[i + k - 1]
  BY <1>1, <1>2, PieceDigits
<1>4. p = SubSeq(s, i, j)
  BY DEF j
<1> HIDE DEF p
<1>5. HasDigits(p, 2) /\ p[1] = s[i] /\ p[2] = s[i + 1]
  <2>1. p[1] = s[i + 1 - 1] /\ p[2] = s[i + 2 - 1]
    BY <1>1, <1>3, <1>4
  <2>2. i + 1 - 1 = i /\ i + 2 - 1 = i + 1
    OBVIOUS
  <2> QED BY <1>1, <1>3, <1>4, <2>1, <2>2 DEF HasDigits
<1>6. IsNumber(p, 2) /\ Stoi(p) = Two(p, 1)
  BY <1>5, DigitsStoi
<1> QED BY <1>5, <1>6 DEF p, Two

LEMMA FourPiece ==
  ASSUME NEW s \in Seq(Int), NEW i \in Nat, 1 <= i,
         DigitAt(s, i), DigitAt(s, i + 1), DigitAt(s, i + 2), DigitAt(s, i + 3)
  PROVE  LET p == SubSeq(s, i, i + 3) IN IsNumber(p, 4) /\ Stoi(p) = Four(s, i)
<1> DEFINE p == SubSeq(s, i, i + 3)
           j == i + 3
<1>1. j \in Nat /\ i <= j /\ j <= Len(s) /\ j - i + 1 = 4
  BY DEF DigitAt
<1>2. \A k \in i .. j : IsDigit(s[k])
  <2> SUFFICES ASSUME NEW k \in i .. j PROVE IsDigit(s[k])
    OBVIOUS
  <2>1. k = i \/ k = i + 1 \/ k = i + 2 \/ k = i + 3
    OBVIOUS
  <2> QED BY <2>1 DEF DigitAt
<1> HIDE DEF j
<1>3. /\ IsDigits(SubSeq(s, i, j)) /\ Len(SubSeq(s, i, j)) = j - i + 1
      /\ \A k \in 1 .. j - i + 1 : SubSeq(s, i, j)[k] = s[i + k - 1]
  BY <1>1, <1>2, PieceDigits
<1>4. p = SubSeq(s, i, j)
  BY DEF j
<1> HIDE DEF p
<1>5. HasDigits(p, 4)
  BY <1>1, <1>3, <1>4 DEF HasDigits
<1>6. p[1] = s[i] /\ p[2] = s[i + 1] /\ p[3] = s[i + 2] /\ p[4] = s[i + 3]
  <2>1. /\ p[1] = s[i + 1 - 1] /\ p[2] = s[i + 2 - 1]
        /\ p[3] = s[i + 3 - 1] /\ p[4] = s[i + 4 - 1]
    <3>1. \A k \in 1 .. 4 : p[k] = s[i + k - 1]
      BY <1>1, <1>3, <1>4
    <3>2. 1 \in 1 .. 4 /\ 2 \in 1 .. 4 /\ 3 \in 1 .. 4 /\ 4 \in 1 .. 4
      OBVIOUS
    <3> QED BY <3>1, <3>2
  <2>2. i + 1 - 1 = i /\ i + 2 - 1 = i + 1 /\ i + 3 - 1 = i + 2 /\ i + 4 - 1 = i + 3
    OBVIOUS
  <2> QED BY <2>1, <2>2
<1>7. IsNumber(p, 4) /\ Stoi(p) = Four(p, 1)
  BY <1>5, DigitsStoi
<1> QED BY <1>6, <1>7 DEF p, Four

\* The first pieces of a part, as far as the parser looks at them.
AreNumbers(part, data) ==
  /\ data \in Seq(Seq(Int)) /\ Len(data) >= 3
  /\ IsNumber(data[1], 2) /\ IsNumber(data[2], 2) /\ IsNumber(data[3], Width(part))

\* Three numbers that fit into the text of a part.
FitPart(part, f) ==
  /\ f = <<f[1], f[2], f[3]>>
  /\ f[1] \in Nat /\ f[1] <= 99 /\ f[2] \in Nat /\ f[2] <= 99
  /\ f[3] \in Nat /\ f[3] <= (IF part = "time" THEN 99 ELSE 9999)

\* What parse_date and parse_time make of pieces of so many digits.
LEMMA NumbersParsed ==
  ASSUME NEW part \in Parts, NEW s, NEW data, data = SplitString(s, Sep(part)),
         AreNumbers(part, data)
  PROVE  /\ ~ParseThrows(part, s) /\ ~ParseUndefined(part, s)
         /\ ParsePart(part, s) = <<Stoi(data[1]), Stoi(data[2]), Stoi(data[3])>>
         /\ FitPart(part, ParsePart(part, s))
<1>1. Len(data) \in Nat /\ Len(data) >= 3
  BY DEF AreNumbers
<1> DEFINE n1 == Stoi(data[1])
           n2 == Stoi(data[2])
           n3 == Stoi(data[3])
<1>2. /\ n1 \in Nat /\ n1 <= 99 /\ ~StoiThrows(data[1])
      /\ n2 \in Nat /\ n2 <= 99 /\ ~StoiThrows(data[2])
  BY NumberStoi DEF AreNumbers
<1>3. /\ n3 \in Nat /\ n3 <= 9999 /\ ~StoiThrows(data[3])
      /\ part = "time" => n3 <= 99
  <2>1. CASE part = "time"
    <3>1. IsNumber(data[3], 2)
      BY <2>1 DEF AreNumbers, Width
    <3> HIDE DEF n3
    <3>2. n3 \in Nat /\ n3 <= 99 /\ ~StoiThrows(data[3])
      BY <3>1, NumberStoi DEF n3
    <3> QED BY <3>2
  <2>2. CASE part # "time"
    <3>1. IsNumber(data[3], 4)
      BY <2>2 DEF AreNumbers, Width
    <3> HIDE DEF n3
    <3>2. n3 \in Nat /\ n3 <= 9999 /\ ~StoiThrows(data[3])
      BY <3>1, NumberStoi DEF n3
    <3> QED BY <2>2, <3>2
  <2> QED BY <2>1, <2>2
<1>4. ~ParseThrows(part, s)
  <2> DEFINE t == {3, Len(data)}
             m == Min(t)
  <2>1. t \in SUBSET Nat /\ t # {} /\ 3 \in t
    BY <1>1
  <2>2. m \in t /\ \A i \in t : m <= i
    <3> HIDE DEF t
    <3> QED BY <2>1, MinOfSet
  <2>3. m \in Nat /\ m <= 3
    BY <2>1, <2>2
  <2> HIDE DEF m
  <2>4. \A i \in 1 .. m : i = 1 \/ i = 2 \/ i = 3
    BY <2>3
  <2>5. ~\E i \in 1 .. m : StoiThrows(data[i])
    BY <1>2, <1>3, <2>4
  <2> QED BY <2>5 DEF ParseThrows, m
<1>5. ~ParseUndefined(part, s)
  BY <1>1 DEF ParseUndefined
<1> HIDE DEF n1, n2, n3
<1>6. Char(n1) = n1 /\ Char(n2) = n2
  BY <1>2, FieldsHold
<1>7. part = "time" => Char(n3) = n3
  BY <1>3, FieldsHold
<1>8. UInt16(n3) = n3
  BY <1>3, FieldsHold
<1>9. ParsePart(part, s) = <<Char(n1), Char(n2), IF part = "time" THEN Char(n3) ELSE UInt16(n3)>>
  BY DEF ParsePart, n1, n2, n3
<1>10. ParsePart(part, s) = <<n1, n2, n3>>
  BY <1>6, <1>7, <1>8, <1>9
<1>11. FitPart(part, <<n1, n2, n3>>)
  BY <1>2, <1>3 DEF FitPart
<1> QED BY <1>4, <1>5, <1>10, <1>11 DEF n1, n2, n3

\* A part of the format is parsed to the numbers it says.
LEMMA PartParsed ==
  ASSUME NEW part \in Parts, NEW s, IsPart(part, s)
  PROVE  /\ ~ParseThrows(part, s) /\ ~ParseUndefined(part, s)
         /\ ParsePart(part, s) = Numbers(part, s)
         /\ FitPart(part, Numbers(part, s))
<1> DEFINE a == SubSeq(s, 1, 2)
           b == SubSeq(s, 4, 5)
           c == SubSeq(s, 7, Len(s))
           data == <<a, b, c>>
<1>1. /\ s \in Seq(Int)
      /\ DigitAt(s, 1) /\ DigitAt(s, 1 + 1) /\ DigitAt(s, 4) /\ DigitAt(s, 4 + 1)
      /\ DigitAt(s, 7) /\ DigitAt(s, 7 + 1)
      /\ part # "time" => DigitAt(s, 7 + 2) /\ DigitAt(s, 7 + 3)
  BY PartDigits
<1>2. Len(s) = IF part = "time" THEN 8 ELSE 10
  BY DEF IsPart
<1>3. IsNumber(a, 2) /\ Stoi(a) = Two(s, 1)
  <2>1. LET p == SubSeq(s, 1, 1 + 1) IN IsNumber(p, 2) /\ Stoi(p) = Two(s, 1)
    BY <1>1, TwoPiece
  <2>2. 1 + 1 = 2
    OBVIOUS
  <2> QED BY <2>1, <2>2
<1>4. IsNumber(b, 2) /\ Stoi(b) = Two(s, 4)
  <2>1. LET p == SubSeq(s, 4, 4 + 1) IN IsNumber(p, 2) /\ Stoi(p) = Two(s, 4)
    BY <1>1, TwoPiece
  <2>2. 4 + 1 = 5
    OBVIOUS
  <2> QED BY <2>1, <2>2
<1>5. /\ IsNumber(c, Width(part))
      /\ Stoi(c) = IF part = "time" THEN Two(s, 7) ELSE Four(s, 7)
  <2>1. CASE part = "time"
    <3>1. LET p == SubSeq(s, 7, 7 + 1) IN IsNumber(p, 2) /\ Stoi(p) = Two(s, 7)
      BY <1>1, TwoPiece
    <3>2. Len(s) = 7 + 1
      BY <1>2, <2>1
    <3> QED BY <2>1, <3>1, <3>2 DEF Width
  <2>2. CASE part # "time"
    <3>1. LET p == SubSeq(s, 7, 7 + 3) IN IsNumber(p, 4) /\ Stoi(p) = Four(s, 7)
      BY <1>1, <2>2, FourPiece
    <3>2. Len(s) = 7 + 3
      BY <1>2, <2>2
    <3> QED BY <2>2, <3>1, <3>2 DEF Width
  <2> QED BY <2>1, <2>2
<1>6. data = SplitString(s, Sep(part))
  BY PartSplit
<1> HIDE DEF a, b, c
<1>7. AreNumbers(part, data)
  <2>1. a \in Seq(Int) /\ b \in Seq(Int) /\ c \in Seq(Int)
    BY <1>3, <1>4, <1>5 DEF IsNumber, IsDigits
  <2>2. data \in Seq(Seq(Int)) /\ Len(data) = 3
    BY <2>1
  <2> QED BY <1>3, <1>4, <1>5, <2>2 DEF AreNumbers
<1>8. Numbers(part, s) = <<Stoi(a), Stoi(b), Stoi(c)>>
  BY <1>3, <1>4, <1>5 DEF Numbers
<1>9. Stoi(data[1]) = Stoi(a) /\ Stoi(data[2]) = Stoi(b) /\ Stoi(data[3]) = Stoi(c)
  OBVIOUS
<1> HIDE DEF data
<1> QED BY <1>6, <1>7, <1>8, <1>9, NumbersParsed

-----------------------------------------------------------------------------
(***************************************************************************)
(* Any line: the fields it fills, and the way of the fields.               *)
(***************************************************************************)

LEMMA PrefixSteps ==
  ASSUME NEW s \in Seq(Int), NEW n \in 0 .. Len(s)
  PROVE  LET p == SubSeq(s, 1, n)
         IN  p \in Seq(Int) /\ Len(p) = n /\ \A i \in 1 .. n : p[i] = s[i]
OBVIOUS

\* std::stoi makes an integer of any piece.
LEMMA StoiType ==
  ASSUME NEW p \in Seq(Int)
  PROVE  Stoi(p) \in Int
<1> DEFINE s == Skip(p, Blanks)
           u == IF Signed(s) THEN Tail(s) ELSE s
           d == Digits(u)
<1>1. s \in Seq(Int)
  <2> HIDE DEF s
  <2> QED BY SkipSteps DEF s
<1> HIDE DEF s
<1>2. u \in Seq(Int)
  <2>1. CASE Signed(s)
    <3>1. s # <<>>
      BY <2>1 DEF Signed
    <3> QED BY <1>1, <2>1, <3>1
  <2>2. CASE ~Signed(s)
    BY <1>1, <2>2
  <2> QED BY <2>1, <2>2
<1> HIDE DEF u
<1>3. d \in Seq(Int) /\ \A i \in DOMAIN d : IsDigit(d[i])
  <2> DEFINE rest == {i \in DOMAIN u : ~IsDigit(u[i])}
  <2>1. CASE rest = {}
    <3>1. d = u
      BY <2>1 DEF Digits
    <3> QED BY <1>2, <2>1, <3>1
  <2>2. CASE rest # {}
    <3> DEFINE m == Min(rest)
    <3>1. d = SubSeq(u, 1, m - 1)
      BY <2>2 DEF Digits
    <3>2. m \in rest /\ \A i \in rest : m <= i
      <4>1. rest \in SUBSET Nat
        BY <1>2
      <4> HIDE DEF rest
      <4> QED BY <2>2, <4>1, MinOfSet
    <3>3. m \in 1 .. Len(u)
      BY <1>2, <3>2
    <3> HIDE DEF m
    <3>4. m - 1 \in 0 .. Len(u)
      BY <1>2, <3>3
    <3>5. d \in Seq(Int) /\ Len(d) = m - 1 /\ \A i \in 1 .. m - 1 : d[i] = u[i]
      BY <1>2, <3>1, <3>4, PrefixSteps
    <3>6. ASSUME NEW i \in 1 .. m - 1 PROVE IsDigit(d[i])
      <4>1. i \in DOMAIN u /\ ~(m <= i)
        BY <1>2, <3>3
      <4> QED BY <3>2, <3>5, <4>1
    <3>7. DOMAIN d = 1 .. m - 1
      BY <3>5
    <3> QED BY <3>5, <3>6, <3>7
  <2> QED BY <2>1, <2>2
<1> HIDE DEF d
<1> DEFINE e == [i \in DOMAIN d |-> d[i] - Zero]
<1>4. e \in Seq(Digit)
  <2>1. \A i \in DOMAIN d : d[i] - Zero \in Digit
    <3> SUFFICES ASSUME NEW i \in DOMAIN d PROVE d[i] - Zero \in Digit
      OBVIOUS
    <3>1. d[i] \in Int /\ IsDigit(d[i])
      BY <1>3
    <3>2. d[i] - Zero \in Nat /\ d[i] - Zero <= 9
      BY <3>1, DigitChars DEF Zero
    <3> QED BY <3>2, DigitRange
  <2>2. DOMAIN d = 1 .. Len(d) /\ Len(d) \in Nat
    BY <1>3
  <2> QED BY <2>1, <2>2
<1>5. Magnitude(s) = Number(e)
  BY DEF Magnitude, d, u
<1>6. Number(e) \in Nat
  <2> HIDE DEF e
  <2> QED BY <1>4, ValueIsNumber
<1>7. Stoi(p) = IF Signed(s) /\ s[1] = Minus THEN -Magnitude(s) ELSE Magnitude(s)
  BY DEF Stoi, s
<1> HIDE DEF e
<1> QED BY <1>5, <1>6, <1>7

\* The casts to char and to uint16_t give numbers that fit.
LEMMA CastsFit ==
  ASSUME NEW n \in Int
  PROVE  CharField(Char(n)) /\ WordField(UInt16(n))
<1>1. CharField(Char(n))
  <2>1. (n + 128) % 256 \in Int /\ 0 <= (n + 128) % 256 /\ (n + 128) % 256 <= 255
    OBVIOUS
  <2> QED BY <2>1 DEF Char, CharField
<1>2. WordField(UInt16(n))
  BY DEF UInt16, WordField
<1> QED BY <1>1, <1>2

\* The parser fills the fields, unless it throws or looks behind the last piece.
LEMMA PartFields ==
  ASSUME NEW part \in Parts, NEW s \in Seq(Int),
         ~ParseThrows(part, s), ~ParseUndefined(part, s)
  PROVE  FieldsOf(part, ParsePart(part, s))
<1> DEFINE data == SplitString(s, Sep(part))
<1>1. data \in Seq(Seq(Int))
  BY SepIsNoDigit, SplitType
<1>2. Len(data) >= 3
  BY DEF ParseUndefined
<1> HIDE DEF data
<1>3. data[1] \in Seq(Int) /\ data[2] \in Seq(Int) /\ data[3] \in Seq(Int)
  BY <1>1, <1>2
<1> DEFINE n1 == Stoi(data[1])
           n2 == Stoi(data[2])
           n3 == Stoi(data[3])
<1>4. n1 \in Int /\ n2 \in Int /\ n3 \in Int
  BY <1>3, StoiType
<1>5. ParsePart(part, s) = <<Char(n1), Char(n2), IF part = "time" THEN Char(n3) ELSE UInt16(n3)>>
  BY DEF ParsePart, data
<1> HIDE DEF n1, n2, n3
<1>6. CharField(Char(n1)) /\ CharField(Char(n2)) /\ CharField(Char(n3)) /\ WordField(UInt16(n3))
  BY <1>4, CastsFit
<1> QED BY <1>5, <1>6 DEF FieldsOf

\* A char and a uint16_t come out of their bytes as they went in.
LEMMA BytesBack ==
  /\ \A n : CharField(n) => n % 256 \in Chars /\ Char(n % 256) = n
  /\ \A n : WordField(n) => /\ n \div 256 \in Chars /\ n % 256 \in Chars
                            /\ 256 * (n \div 256) + (n % 256) = n
<1>1. ASSUME NEW n, CharField(n) PROVE n % 256 \in Chars /\ Char(n % 256) = n
  BY <1>1 DEF CharField, Chars, Char
<1>2. ASSUME NEW n, WordField(n)
      PROVE  /\ n \div 256 \in Chars /\ n % 256 \in Chars
             /\ 256 * (n \div 256) + (n % 256) = n
  BY <1>2 DEF WordField, Chars
<1> QED BY <1>1, <1>2

\* The bytes of a message, put together.
LEMMA JoinBytes ==
  ASSUME NEW a, NEW b, NEW c, NEW d, NEW e, NEW f, NEW g, NEW h, NEW i, NEW j, NEW k
  PROVE  <<a, b, c, d>> \o <<e, f, g, h>> \o <<i, j, k>>
           = <<a, b, c, d, e, f, g, h, i, j, k>>
<1> DEFINE S == {a, b, c, d, e, f, g, h, i, j, k}
<1>1. <<a, b, c, d>> \o <<e, f, g, h>> = <<a, b, c, d, e, f, g, h>>
  <2>1. IsJoin(<<a, b, c, d, e, f, g, h>>, <<a, b, c, d>>, <<e, f, g, h>>, S)
    BY DEF IsJoin
  <2>2. <<a, b, c, d>> \in Seq(S) /\ <<e, f, g, h>> \in Seq(S)
    OBVIOUS
  <2> QED BY <2>1, <2>2, Join
<1>2. <<a, b, c, d, e, f, g, h>> \o <<i, j, k>> = <<a, b, c, d, e, f, g, h, i, j, k>>
  <2>1. IsJoin(<<a, b, c, d, e, f, g, h, i, j, k>>, <<a, b, c, d, e, f, g, h>>, <<i, j, k>>, S)
    BY DEF IsJoin
  <2>2. <<a, b, c, d, e, f, g, h>> \in Seq(S) /\ <<i, j, k>> \in Seq(S)
    OBVIOUS
  <2> QED BY <2>1, <2>2, Join
<1> QED BY <1>1, <1>2

\* The server reads from the bytes of a message the fields they were made of.
LEMMA WireIsLossless ==
  ASSUME NEW f, AreFields(f)
  PROVE  AssembleMsg(f) \in [4 .. 14 -> Chars] /\ ReadFields(AssembleMsg(f)) = f
<1> DEFINE x == f.date1
           y == f.date2
           z == f.time
           m == AssembleMsg(f)
<1>1. /\ x = <<x[1], x[2], x[3]>> /\ CharField(x[1]) /\ CharField(x[2]) /\ WordField(x[3])
      /\ y = <<y[1], y[2], y[3]>> /\ CharField(y[1]) /\ CharField(y[2]) /\ WordField(y[3])
      /\ z = <<z[1], z[2], z[3]>> /\ CharField(z[1]) /\ CharField(z[2]) /\ CharField(z[3])
  BY DEF AreFields, FieldsOf, Parts
<1>2. f = [date1 |-> x, date2 |-> y, time |-> z]
  BY DEF AreFields, Parts
<1> DEFINE bytes == <<x[1] % 256, x[2] % 256, x[3] \div 256, x[3] % 256,
                      y[1] % 256, y[2] % 256, y[3] \div 256, y[3] % 256,
                      z[1] % 256, z[2] % 256, z[3] % 256>>
<1>3. m = [i \in 4 .. 14 |-> bytes[i - 3]]
  <2>1. DateBytes(x) \o DateBytes(y) \o TimeBytes(z) = bytes
    BY JoinBytes DEF DateBytes, TimeBytes
  <2> HIDE DEF bytes
  <2> QED BY <2>1 DEF AssembleMsg
<1> HIDE DEF m, x, y, z
<1>4. \A i \in 1 .. 11 : bytes[i] \in Chars
  BY <1>1, BytesBack
<1>5. m \in [4 .. 14 -> Chars]
  <2>1. \A i \in 4 .. 14 : i - 3 \in 1 .. 11
    OBVIOUS
  <2> HIDE DEF bytes
  <2> QED BY <1>3, <1>4, <2>1
<1>6. /\ m[4] = x[1] % 256 /\ m[5] = x[2] % 256 /\ m[6] = x[3] \div 256 /\ m[7] = x[3] % 256
      /\ m[8] = y[1] % 256 /\ m[9] = y[2] % 256 /\ m[10] = y[3] \div 256 /\ m[11] = y[3] % 256
      /\ m[12] = z[1] % 256 /\ m[13] = z[2] % 256 /\ m[14] = z[3] % 256
  <2>1. /\ bytes[1] = x[1] % 256 /\ bytes[2] = x[2] % 256
        /\ bytes[3] = x[3] \div 256 /\ bytes[4] = x[3] % 256
        /\ bytes[5] = y[1] % 256 /\ bytes[6] = y[2] % 256
        /\ bytes[7] = y[3] \div 256 /\ bytes[8] = y[3] % 256
        /\ bytes[9] = z[1] % 256 /\ bytes[10] = z[2] % 256 /\ bytes[11] = z[3] % 256
    OBVIOUS
  <2> HIDE DEF bytes
  <2>2. \A i \in 4 .. 14 : m[i] = bytes[i - 3]
    BY <1>3
  <2>3. /\ m[4] = bytes[1] /\ m[5] = bytes[2] /\ m[6] = bytes[3] /\ m[7] = bytes[4]
        /\ m[8] = bytes[5] /\ m[9] = bytes[6] /\ m[10] = bytes[7] /\ m[11] = bytes[8]
        /\ m[12] = bytes[9] /\ m[13] = bytes[10] /\ m[14] = bytes[11]
    BY <2>2
  <2> QED BY <2>1, <2>3
<1>7. DateAt(m, 4) = x /\ DateAt(m, 8) = y /\ TimeAt(m, 12) = z
  <2>1. DateAt(m, 4) = x
    <3>1. DateAt(m, 4) = <<Char(m[4]), Char(m[5]), 256 * m[6] + m[7]>>
      BY DEF DateAt
    <3> QED BY <1>1, <1>6, <3>1, BytesBack
  <2>2. DateAt(m, 8) = y
    <3>1. DateAt(m, 8) = <<Char(m[8]), Char(m[9]), 256 * m[10] + m[11]>>
      BY DEF DateAt
    <3> QED BY <1>1, <1>6, <3>1, BytesBack
  <2>3. TimeAt(m, 12) = z
    <3>1. TimeAt(m, 12) = <<Char(m[12]), Char(m[13]), Char(m[14])>>
      BY DEF TimeAt
    <3> QED BY <1>1, <1>6, <3>1, BytesBack
  <2> QED BY <2>1, <2>2, <2>3
<1>8. ReadFields(m) = f
  BY <1>2, <1>7 DEF ReadFields
<1> QED BY <1>5, <1>8 DEF m

\* An empty piece makes std::stoi throw.
LEMMA EmptyThrows == StoiThrows(<<>>)
<1>1. Skip(<<>>, Blanks) = <<>>
  BY DEF Skip
<1>2. ~Signed(<<>>)
  BY DEF Signed
<1>3. Digits(<<>>) = <<>>
  BY DEF Digits
<1> QED BY <1>1, <1>2, <1>3 DEF StoiThrows

\* The first three pieces are there and are numbers.
LEMMA PiecesThere ==
  ASSUME NEW part, NEW s, NEW data, data = SplitString(s, Sep(part)),
         data \in Seq(Seq(Int)), ~ParseThrows(part, s), ~ParseUndefined(part, s)
  PROVE  /\ Len(data) >= 3
         /\ ~StoiThrows(data[1]) /\ ~StoiThrows(data[2]) /\ ~StoiThrows(data[3])
<1>1. Len(data) \in Nat /\ Len(data) >= 3
  BY DEF ParseUndefined
<1> DEFINE t == {3, Len(data)}
           m == Min(t)
<1>2. m = 3
  <2>1. t \in SUBSET Nat /\ t # {} /\ 3 \in t /\ \A i \in t : 3 <= i
    BY <1>1
  <2> HIDE DEF t
  <2>2. m \in t /\ \A i \in t : m <= i
    BY <2>1, MinOfSet
  <2> HIDE DEF m
  <2> QED BY <2>1, <2>2
<1>3. \A i \in 1 .. m : ~StoiThrows(data[i])
  BY DEF ParseThrows
<1> HIDE DEF m
<1>4. 1 \in 1 .. m /\ 2 \in 1 .. m /\ 3 \in 1 .. m
  BY <1>2
<1> QED BY <1>1, <1>3, <1>4

\* A part as the check of the TCP client lets it through.
Accepted(part, s) ==
  /\ s \in Seq(Int) /\ Len(s) = IF part = "time" THEN 8 ELSE 10
  /\ IfRightPart(part, s)

LEMMA AcceptedChars ==
  ASSUME NEW part \in Parts, NEW s, Accepted(part, s)
  PROVE  /\ s \in Seq(Int) /\ Len(s) \in Nat /\ Len(s) >= 8
         /\ Len(s) <= 10 /\ (part = "time" => Len(s) <= 8)
         /\ s[3] = Sep(part) /\ s[6] = Sep(part)
         /\ \A i \in 1 .. Len(s) : s[i] # Sep(part) => IsDigit(s[i])
<1>1. s \in Seq(Int) /\ Len(s) = IF part = "time" THEN 8 ELSE 10
  BY DEF Accepted
<1>2. /\ s[3] = Sep(part) /\ s[6] = Sep(part)
      /\ \A i \in DOMAIN s : s[i] = Sep(part) \/ IsDigit(s[i])
  BY DEF Accepted, IfRightPart
<1>3. Len(s) \in Nat /\ Len(s) >= 8 /\ Len(s) <= 10 /\ (part = "time" => Len(s) <= 8)
  <2>1. CASE part = "time"
    BY <1>1, <2>1
  <2>2. CASE part # "time"
    BY <1>1, <2>2
  <2> QED BY <2>1, <2>2
<1>4. DOMAIN s = 1 .. Len(s)
  <2>1. s \in Seq(Int)
    BY DEF Accepted
  <2> QED BY <2>1
<1> QED BY <1>1, <1>2, <1>3, <1>4

\* A piece of such a part that std::stoi takes is one of digits.
LEMMA AcceptedPiece ==
  ASSUME NEW part \in Parts, NEW s, Accepted(part, s),
         NEW i \in Nat, NEW j \in Nat, 1 <= i, j <= Len(s),
         \A k \in i .. j : s[k] # Sep(part), ~StoiThrows(SubSeq(s, i, j))
  PROVE  /\ i <= j /\ IsDigits(SubSeq(s, i, j))
         /\ Len(SubSeq(s, i, j)) \in Nat /\ Len(SubSeq(s, i, j)) = j - i + 1
<1>1. /\ s \in Seq(Int) /\ Len(s) \in Nat
      /\ \A k \in 1 .. Len(s) : s[k] # Sep(part) => IsDigit(s[k])
  BY AcceptedChars
<1>2. i <= j
  <2> SUFFICES ASSUME i > j PROVE FALSE
    OBVIOUS
  <2>1. SubSeq(s, i, j) = <<>>
    BY <1>1
  <2> QED BY <2>1, EmptyThrows
<1>3. \A k \in i .. j : IsDigit(s[k])
  <2> SUFFICES ASSUME NEW k \in i .. j PROVE IsDigit(s[k])
    OBVIOUS
  <2>1. k \in 1 .. Len(s)
    BY <1>1
  <2> QED BY <1>1, <2>1
<1>4. IsDigits(SubSeq(s, i, j)) /\ Len(SubSeq(s, i, j)) = j - i + 1
  BY <1>1, <1>2, <1>3, PieceDigits
<1>5. j - i + 1 \in Nat
  BY <1>2
<1> QED BY <1>2, <1>4, <1>5

\* A piece of digits that the next one follows: it stands from i to before t, and
\* the next one from r on.
Ends(part, s, i, t, r) ==
  /\ i < t /\ t <= Len(s) /\ s[t] = Sep(part)
  /\ \A j \in i .. t - 1 : s[j] # Sep(part)
  /\ t < r /\ r <= Len(s) + 1 /\ (r <= Len(s) => s[r] # Sep(part))
  /\ \A j \in t + 1 .. r - 1 : s[j] = Sep(part)

Follow(part, s, i, t, r) ==
  LET data == SplitString(From(s, i), Sep(part))
      next == SplitString(From(s, r), Sep(part))
  IN  /\ IsDigits(data[1]) /\ Len(data[1]) \in Nat /\ Len(data[1]) = t - i
      /\ Len(next) \in Nat /\ Len(data) = Len(next) + 1
      /\ \A k \in 1 .. Len(next) : data[k + 1] = next[k]

LEMMA SubSeqType ==
  ASSUME NEW s \in Seq(Int), NEW i \in Nat, NEW j \in Nat, 1 <= i, j <= Len(s)
  PROVE  SubSeq(s, i, j) \in Seq(Int)
OBVIOUS

LEMMA FromType ==
  ASSUME NEW s \in Seq(Int), NEW i \in Nat, 1 <= i, i <= Len(s) + 1
  PROVE  From(s, i) \in Seq(Int) /\ Len(From(s, i)) = Len(s) - i + 1
BY DEF From

LEMMA AcceptedStep ==
  ASSUME NEW part \in Parts, NEW s, Accepted(part, s),
         NEW i \in Nat, 1 <= i, i <= Len(s) + 1,
         ~StoiThrows(SplitString(From(s, i), Sep(part))[1]),
         Len(SplitString(From(s, i), Sep(part))) >= 2
  PROVE  \E t, r \in Nat : Ends(part, s, i, t, r) /\ Follow(part, s, i, t, r)
<1> DEFINE sep == Sep(part)
<1>1. s \in Seq(Int) /\ Len(s) \in Nat /\ sep \in Int
  BY AcceptedChars, SepIsNoDigit
<1>2. i \in 1 .. Len(s) + 1
  BY <1>1
<1>3. ~LastPiece(s, sep, i)
  <2> SUFFICES ASSUME LastPiece(s, sep, i) PROVE FALSE
    OBVIOUS
  <2>1. SplitString(From(s, i), sep) = <<From(s, i)>>
    BY DEF LastPiece
  <2> DEFINE v == From(s, i)
  <2> HIDE DEF v
  <2>2. Len(<<v>>) = 1
    OBVIOUS
  <2> QED BY <2>1, <2>2 DEF v
<1>4. PICK t, r \in Nat : PieceBefore(s, sep, i, t, r)
  BY <1>1, <1>2, <1>3, SplitStep
<1> DEFINE j == t - 1
           p == SubSeq(s, i, j)
           data == SplitString(From(s, i), sep)
           next == SplitString(From(s, r), sep)
<1>5. /\ i <= t /\ t <= Len(s) /\ s[t] = sep /\ \A k \in i .. t - 1 : s[k] # sep
      /\ t < r /\ r <= Len(s) + 1 /\ (r <= Len(s) => s[r] # sep)
      /\ \A k \in t + 1 .. r - 1 : s[k] = sep
  <2>1. /\ t \in i .. Len(s) /\ s[t] = sep /\ \A k \in i .. t - 1 : s[k] # sep
        /\ r \in t + 1 .. Len(s) + 1 /\ (r <= Len(s) => s[r] # sep)
        /\ \A k \in t + 1 .. r - 1 : s[k] = sep
    BY <1>4 DEF PieceBefore
  <2>2. i <= t /\ t <= Len(s) /\ t < r /\ r <= Len(s) + 1
    BY <1>1, <2>1
  <2> QED BY <2>1, <2>2
<1>6. data = <<p>> \o next
  BY <1>4 DEF PieceBefore
<1>7. p \in Seq(Int) /\ next \in Seq(Seq(Int))
  <2>1. p \in Seq(Int)
    <3>1. j \in Nat /\ j <= Len(s)
      BY <1>1, <1>5
    <3> HIDE DEF j
    <3> QED BY <1>1, <3>1, SubSeqType
  <2>2. From(s, r) \in Seq(Int)
    <3>1. 1 <= r
      BY <1>5
    <3> QED BY <1>1, <1>5, <3>1, FromType
  <2> QED BY <1>1, <2>1, <2>2, SplitType
<1> HIDE DEF p, next
<1>8. /\ Len(next) \in Nat /\ Len(<<p>> \o next) = Len(next) + 1
      /\ (<<p>> \o next)[1] = p
      /\ \A k \in 1 .. Len(next) : (<<p>> \o next)[k + 1] = next[k]
  BY <1>7
<1> HIDE DEF data
<1>9. ~StoiThrows(p)
  <2>1. data[1] = p
    BY <1>6, <1>8
  <2> QED BY <2>1 DEF data
<1>10. i <= j /\ IsDigits(p) /\ Len(p) \in Nat /\ Len(p) = j - i + 1
  <2>1. j \in Nat /\ j <= Len(s)
    BY <1>1, <1>5
  <2>2. \A k \in i .. j : s[k] # Sep(part)
    BY <1>5
  <2> HIDE DEF j
  <2>3. ~StoiThrows(SubSeq(s, i, j))
    BY <1>9 DEF p
  <2> QED BY <2>1, <2>2, <2>3, AcceptedPiece DEF p
<1>11. Ends(part, s, i, t, r)
  BY <1>5, <1>10 DEF Ends
<1>12. Follow(part, s, i, t, r)
  <2>1. Len(p) = t - i
    BY <1>10
  <2> HIDE DEF j
  <2>2. /\ IsDigits(data[1]) /\ Len(data[1]) \in Nat /\ Len(data[1]) = t - i
        /\ Len(next) \in Nat /\ Len(data) = Len(next) + 1
        /\ \A k \in 1 .. Len(next) : data[k + 1] = next[k]
    BY <1>6, <1>8, <1>10, <2>1
  <2> QED BY <2>2 DEF Follow, data, next
<1> QED BY <1>11, <1>12

\* The last piece, or the one the parser looks at last, ends with the part at
\* the latest.
LEMMA AcceptedEnd ==
  ASSUME NEW part \in Parts, NEW s, Accepted(part, s),
         NEW i \in Nat, 1 <= i, i <= Len(s) + 1,
         ~StoiThrows(SplitString(From(s, i), Sep(part))[1])
  PROVE  LET p == SplitString(From(s, i), Sep(part))[1]
         IN  IsDigits(p) /\ Len(p) \in Nat /\ Len(p) <= Len(s) - i + 1
<1> DEFINE sep == Sep(part)
           p == SplitString(From(s, i), sep)[1]
<1>1. s \in Seq(Int) /\ Len(s) \in Nat /\ sep \in Int
  BY AcceptedChars, SepIsNoDigit
<1>2. CASE LastPiece(s, sep, i)
  <2> DEFINE v == From(s, i)
             n == Len(s)
  <2>1. SplitString(v, sep) = <<v>> /\ \A k \in i .. n : s[k] # sep
    BY <1>2 DEF LastPiece
  <2>2. v = SubSeq(s, i, n)
    BY DEF From
  <2> HIDE DEF v
  <2>3. p = v
    BY <2>1 DEF v
  <2> HIDE DEF n
  <2>4. ~StoiThrows(SubSeq(s, i, n))
    BY <2>2, <2>3
  <2>5. IsDigits(v) /\ Len(v) \in Nat /\ Len(v) = n - i + 1
    <3>1. n \in Nat /\ n <= Len(s)
      BY <1>1 DEF n
    <3> QED BY <2>1, <2>2, <2>4, <3>1, AcceptedPiece
  <2> QED BY <2>3, <2>5 DEF n
<1>3. CASE ~LastPiece(s, sep, i)
  <2>1. Len(SplitString(From(s, i), sep)) >= 2
    <3>1. PICK t, r \in Nat : PieceBefore(s, sep, i, t, r)
      <4>1. i \in 1 .. Len(s) + 1
        BY <1>1
      <4> QED BY <1>1, <1>3, <4>1, SplitStep
    <3> DEFINE q == SubSeq(s, i, t - 1)
               next == SplitString(From(s, r), sep)
    <3>2. SplitString(From(s, i), sep) = <<q>> \o next
      BY <3>1 DEF PieceBefore
    <3>3. t < r /\ r <= Len(s) + 1 /\ 1 <= t
      BY <1>1, <3>1 DEF PieceBefore
    <3>4. next \in Seq(Seq(Int)) /\ next # <<>>
      <4>1. From(s, r) \in Seq(Int)
        BY <1>1, <3>3, FromType
      <4> QED BY <1>1, <4>1, SplitType
    <3> HIDE DEF q, next
    <3>5. Len(<<q>> \o next) = Len(next) + 1 /\ Len(next) \in Nat /\ Len(next) >= 1
      BY <3>4
    <3> QED BY <3>2, <3>5
  <2>2. PICK t, r \in Nat : Ends(part, s, i, t, r) /\ Follow(part, s, i, t, r)
    BY <2>1, AcceptedStep
  <2>3. IsDigits(p) /\ Len(p) \in Nat /\ Len(p) = t - i
    BY <2>2 DEF Follow
  <2>4. t <= Len(s)
    BY <2>2 DEF Ends
  <2> HIDE DEF p
  <2>5. IsDigits(p) /\ Len(p) \in Nat /\ Len(p) <= Len(s) - i + 1
    BY <1>1, <2>3, <2>4
  <2> QED BY <2>5 DEF p
<1> QED BY <1>2, <1>3

\* Where the first two pieces end: the separators in the third and in the sixth
\* place leave no more than two digits to the first and to the second, and what
\* is left for the third is as long as the field in the format.
LEMMA EndPlaces ==
  ASSUME NEW part \in Parts, NEW s, Accepted(part, s),
         NEW t \in Nat, NEW r \in Nat, Ends(part, s, 1, t, r),
         NEW u \in Nat, NEW v \in Nat, Ends(part, s, r, u, v), v <= Len(s)
  PROVE  t - 1 <= 2 /\ u - r <= 2 /\ Len(s) - v + 1 <= Width(part)
<1>1. /\ Len(s) \in Nat /\ Len(s) >= 8 /\ Len(s) <= 10 /\ (part = "time" => Len(s) <= 8)
      /\ s[3] = Sep(part) /\ s[6] = Sep(part)
  BY AcceptedChars
<1>2. /\ 1 < t /\ t <= Len(s) /\ \A j \in 1 .. t - 1 : s[j] # Sep(part)
      /\ t < r /\ \A j \in t + 1 .. r - 1 : s[j] = Sep(part)
  BY DEF Ends
<1>3. /\ r < u /\ u <= Len(s) /\ s[u] = Sep(part) /\ \A j \in r .. u - 1 : s[j] # Sep(part)
      /\ u < v /\ v <= Len(s) + 1
  BY DEF Ends
<1>4. t <= 3
  <2>1. ~(3 \in 1 .. t - 1)
    BY <1>1, <1>2
  <2> QED BY <2>1
<1>5. s[r] # Sep(part)
  <2>1. r \in r .. u - 1
    BY <1>3
  <2> QED BY <1>3, <2>1
<1>6. r >= 4 /\ r # 6
  <2>1. r # 3 /\ r # 6
    BY <1>1, <1>5
  <2> QED BY <1>2, <1>4, <2>1
<1>7. CASE r < 6
  <2>1. u <= 6
    <3>1. ~(6 \in r .. u - 1)
      BY <1>1, <1>3
    <3> QED BY <1>3, <1>7, <3>1
  <2>2. v >= 7
    <3>1. v # 6
      BY <1>1 DEF Ends
    <3> QED BY <1>3, <1>6, <3>1
  <2>3. t - 1 <= 2 /\ u - r <= 2
    BY <1>4, <1>6, <2>1
  <2>4. CASE part = "time"
    BY <1>1, <2>2, <2>3, <2>4 DEF Width
  <2>5. CASE part # "time"
    BY <1>1, <2>2, <2>3, <2>5 DEF Width
  <2> QED BY <2>4, <2>5
<1>8. CASE r >= 7
  <2>1. u >= 8 /\ v >= 9 /\ u <= 9
    BY <1>1, <1>3, <1>8
  <2>2. t - 1 <= 2 /\ u - r <= 2 /\ Len(s) - v + 1 <= 2
    BY <1>1, <1>4, <1>8, <2>1
  <2>3. Width(part) \in Nat /\ Width(part) >= 2
    BY DEF Width
  <2>4. Len(s) - v + 1 <= Width(part)
    <3> DEFINE m == Len(s) - v + 1
               w == Width(part)
    <3>1. m \in Int /\ m <= 2 /\ w \in Nat /\ w >= 2
      BY <1>1, <2>2, <2>3
    <3> HIDE DEF m, w
    <3>2. m <= w
      BY <3>1
    <3> QED BY <3>2 DEF m, w
  <2> QED BY <2>2, <2>4
<1> QED BY <1>6, <1>7, <1>8

\* The parts that the check of the TCP client lets through and the parser takes
\* have at most two digits where two are meant and four where four are: a piece
\* that starts late is short, and one that starts behind a run of separators
\* leaves less for the next.
LEMMA AcceptedPieces ==
  ASSUME NEW part \in Parts, NEW s, Accepted(part, s),
         ~ParseThrows(part, s), ~ParseUndefined(part, s)
  PROVE  AreNumbers(part, SplitString(s, Sep(part)))
<1> DEFINE sep == Sep(part)
           n == Len(s)
           D(i) == SplitString(From(s, i), sep)
           data == SplitString(s, sep)
<1>1. s \in Seq(Int) /\ n \in Nat /\ n >= 8 /\ sep \in Int
  BY AcceptedChars, SepIsNoDigit
<1>2. data \in Seq(Seq(Int)) /\ data = D(1)
  <2>1. From(s, 1) = s
    BY <1>1 DEF From
  <2> QED BY <1>1, <2>1, SplitType
<1>3. /\ Len(data) \in Nat /\ Len(data) >= 3
      /\ ~StoiThrows(data[1]) /\ ~StoiThrows(data[2]) /\ ~StoiThrows(data[3])
  <2>1. data = SplitString(s, Sep(part))
    OBVIOUS
  <2> HIDE DEF data
  <2> QED BY <1>2, <2>1, PiecesThere
<1> HIDE DEF data
<1>4. PICK t, r \in Nat : Ends(part, s, 1, t, r) /\ Follow(part, s, 1, t, r)
  <2> HIDE DEF D
  <2>1. ~StoiThrows(D(1)[1]) /\ Len(D(1)) >= 2
    BY <1>2, <1>3
  <2>2. 1 <= n + 1 /\ 1 \in Nat /\ 1 <= 1
    BY <1>1
  <2> QED BY <2>1, <2>2, AcceptedStep DEF D
<1>5. t - 1 = Len(data[1]) /\ IsDigits(data[1]) /\ 1 <= r /\ r <= n + 1
  <2>1. IsDigits(data[1]) /\ Len(data[1]) = t - 1
    BY <1>2, <1>4 DEF Follow
  <2>2. 1 < t /\ t < r /\ r <= n + 1
    BY <1>4 DEF Ends
  <2> QED BY <2>1, <2>2
<1>6. Len(D(r)) \in Nat /\ Len(D(r)) >= 2 /\ D(r)[1] = data[2] /\ D(r)[2] = data[3]
  <2> DEFINE e == D(r)
  <2>1. /\ Len(e) \in Nat /\ Len(data) = Len(e) + 1
        /\ \A k \in 1 .. Len(e) : data[k + 1] = e[k]
    BY <1>2, <1>4 DEF Follow
  <2> HIDE DEF e
  <2>2. Len(e) >= 2
    BY <1>3, <2>1
  <2>3. 1 \in 1 .. Len(e) /\ 2 \in 1 .. Len(e)
    BY <2>1, <2>2
  <2>4. data[1 + 1] = e[1] /\ data[2 + 1] = e[2]
    BY <2>1, <2>3
  <2>5. Len(e) \in Nat /\ Len(e) >= 2 /\ e[1] = data[2] /\ e[2] = data[3]
    BY <2>1, <2>2, <2>4
  <2> QED BY <2>5 DEF e
<1>7. PICK u, v \in Nat : Ends(part, s, r, u, v) /\ Follow(part, s, r, u, v)
  <2>1. ~StoiThrows(D(r)[1])
    BY <1>3, <1>6
  <2> QED BY <1>5, <1>6, <2>1, AcceptedStep
<1>8. Len(D(r)[1]) = u - r /\ IsDigits(D(r)[1]) /\ 1 <= v /\ v <= n + 1
  <2>1. IsDigits(D(r)[1]) /\ Len(D(r)[1]) = u - r
    BY <1>7 DEF Follow
  <2>2. r < u /\ u < v /\ v <= n + 1
    BY <1>7 DEF Ends
  <2> QED BY <1>5, <2>1, <2>2
<1>9. D(v)[1] = D(r)[2]
  <2> DEFINE e == D(v)
             d == D(r)
  <2>1. /\ Len(e) \in Nat /\ Len(d) = Len(e) + 1
        /\ \A k \in 1 .. Len(e) : d[k + 1] = e[k]
    BY <1>7 DEF Follow
  <2>2. Len(d) >= 2
    BY <1>6
  <2> HIDE DEF d, e
  <2>3. 1 \in 1 .. Len(e) /\ 1 + 1 = 2
    BY <2>1, <2>2
  <2>4. e[1] = d[2]
    BY <2>1, <2>3
  <2> QED BY <2>4 DEF d, e
<1>10. IsDigits(data[3]) /\ Len(data[3]) \in Nat /\ Len(data[3]) <= n - v + 1
  <2>1. ~StoiThrows(D(v)[1])
    BY <1>3, <1>6, <1>9
  <2>2. LET p == D(v)[1] IN IsDigits(p) /\ Len(p) \in Nat /\ Len(p) <= n - v + 1
    BY <1>8, <2>1, AcceptedEnd
  <2> QED BY <1>6, <1>9, <2>2
<1>11. t - 1 <= 2 /\ u - r <= 2 /\ n - v + 1 <= Width(part)
  <2> DEFINE m == Len(data[3])
  <2>1. m >= 1
    BY <1>10 DEF IsDigits
  <2>2. m \in Nat /\ m <= n - v + 1
    BY <1>10
  <2> HIDE DEF m
  <2>3. v <= n
    <3>1. n \in Nat
      BY <1>1
    <3> HIDE DEF n
    <3> QED BY <2>1, <2>2, <3>1
  <2> QED BY <1>4, <1>7, <2>3, EndPlaces
<1>12. IsNumber(data[1], 2) /\ IsNumber(data[2], 2)
  BY <1>5, <1>6, <1>8, <1>11 DEF IsNumber
<1>13. IsNumber(data[3], Width(part))
  <2> DEFINE m == Len(data[3])
             w == Width(part)
  <2>1. w \in Nat
    BY DEF Width
  <2>2. m \in Nat /\ m <= n - v + 1 /\ n - v + 1 <= w /\ n \in Nat
    BY <1>1, <1>10, <1>11
  <2>3. m <= w
    <3> HIDE DEF m, n, w
    <3> QED BY <2>1, <2>2
  <2> QED BY <1>10, <2>3 DEF IsNumber
<1>14. AreNumbers(part, data)
  BY <1>2, <1>3, <1>12, <1>13 DEF AreNumbers
<1> QED BY <1>14 DEF data

\* A part of the format passes the check.
LEMMA PartAccepted ==
  ASSUME NEW part \in Parts, NEW s, IsPart(part, s)
  PROVE  Accepted(part, s)
<1>1. s \in Seq(Int) /\ s[3] = Sep(part) /\ s[6] = Sep(part)
  BY PartDigits
<1>2. /\ Len(s) = IF part = "time" THEN 8 ELSE 10
      /\ \A i \in DOMAIN s : IF i \in {3, 6} THEN s[i] = Sep(part) ELSE IsDigit(s[i])
  BY DEF IsPart
<1>3. \A i \in DOMAIN s : s[i] = Sep(part) \/ IsDigit(s[i])
  BY <1>2
<1>4. IfRightPart(part, s)
  BY <1>1, <1>3 DEF IfRightPart
<1> QED BY <1>1, <1>2, <1>4 DEF Accepted

\* The digits of numbers below a hundred and below ten thousand.
Places2(n, a, b) == a <= 9 /\ b <= 9 /\ n = 10 * a + b

Places4(n, a, b, c, d) ==
  a <= 9 /\ b <= 9 /\ c <= 9 /\ d <= 9 /\ n = 1000 * a + 100 * b + 10 * c + d

LEMMA DigitsOfTwo ==
  ASSUME NEW n \in Nat, n <= 99
  PROVE  \E a, b \in Nat : Places2(n, a, b)
<1> DEFINE a == n \div 10
           b == n % 10
<1>1. a \in Nat /\ b \in Nat /\ n = 10 * a + b /\ b <= 9
  OBVIOUS
<1> HIDE DEF a, b
<1>2. Places2(n, a, b)
  BY <1>1 DEF Places2
<1> QED BY <1>1, <1>2

LEMMA DigitsOfFour ==
  ASSUME NEW n \in Nat, n <= 9999
  PROVE  \E a, b, c, d \in Nat : Places4(n, a, b, c, d)
<1> DEFINE x == n \div 100
           y == n % 100
<1>1. x \in Nat /\ y \in Nat /\ n = 100 * x + y /\ y <= 99
  OBVIOUS
<1> HIDE DEF x, y
<1>2. x <= 99
  BY <1>1
<1>3. PICK a \in Nat, b \in Nat : Places2(x, a, b)
  BY <1>1, <1>2, DigitsOfTwo
<1>4. PICK c \in Nat, d \in Nat : Places2(y, c, d)
  BY <1>1, DigitsOfTwo
<1>5. Places4(n, a, b, c, d)
  BY <1>1, <1>3, <1>4 DEF Places2, Places4
<1> QED BY <1>5

\* Whatever numbers of their size the server has for a part, it writes a part of
\* the format.
LEMMA NumbersOfAPart ==
  ASSUME NEW part \in Parts, NEW f, FitPart(part, f)
  PROVE  \E s : IsPart(part, s) /\ Numbers(part, s) = f
<1> DEFINE x == Sep(part)
           Ch(k) == Zero + k
<1>1. x \in Int
  BY SepIsNoDigit
<1>2. \A k \in Nat : k <= 9 => Ch(k) \in Int /\ IsDigit(Ch(k)) /\ Ch(k) - Zero = k
  <2> SUFFICES ASSUME NEW k \in Nat, k <= 9
               PROVE  Ch(k) \in Int /\ IsDigit(Ch(k)) /\ Ch(k) - Zero = k
    OBVIOUS
  <2>1. Ch(k) \in Int /\ 48 <= Ch(k) /\ Ch(k) <= 57 /\ Ch(k) - Zero = k
    BY DEF Zero
  <2> QED BY <2>1, DigitChars
<1>3. /\ f = <<f[1], f[2], f[3]>>
      /\ f[1] \in Nat /\ f[1] <= 99 /\ f[2] \in Nat /\ f[2] <= 99 /\ f[3] \in Nat
      /\ part = "time" => f[3] <= 99
      /\ part # "time" => f[3] <= 9999
  BY DEF FitPart
<1>4. PICK a \in Nat, b \in Nat : Places2(f[1], a, b)
  BY <1>3, DigitsOfTwo
<1>5. PICK c \in Nat, d \in Nat : Places2(f[2], c, d)
  BY <1>3, DigitsOfTwo
<1> DEFINE A == Ch(a)
           B == Ch(b)
           C == Ch(c)
           D == Ch(d)
<1>6. /\ A \in Int /\ IsDigit(A) /\ A - Zero = a /\ B \in Int /\ IsDigit(B) /\ B - Zero = b
      /\ C \in Int /\ IsDigit(C) /\ C - Zero = c /\ D \in Int /\ IsDigit(D) /\ D - Zero = d
  BY <1>2, <1>4, <1>5 DEF Places2
<1>7. 10 * a + b = f[1] /\ 10 * c + d = f[2]
  BY <1>4, <1>5 DEF Places2
<1>8. CASE part = "time"
  <2>1. PICK g \in Nat, h \in Nat : Places2(f[3], g, h)
    BY <1>3, <1>8, DigitsOfTwo
  <2> DEFINE G == Ch(g)
             H == Ch(h)
             s == <<A, B, x, C, D, x, G, H>>
  <2>2. G \in Int /\ IsDigit(G) /\ G - Zero = g /\ H \in Int /\ IsDigit(H) /\ H - Zero = h
    BY <1>2, <2>1 DEF Places2
  <2>3. 10 * g + h = f[3]
    BY <2>1 DEF Places2
  <2> HIDE DEF Ch, A, B, C, D, G, H, x
  <2>4. s \in Seq(Int) /\ Len(s) = 8
    BY <1>1, <1>6, <2>2
  <2>5. \A i \in DOMAIN s : IF i \in {3, 6} THEN s[i] = x ELSE IsDigit(s[i])
    BY <1>6, <2>2
  <2>6. IsPart(part, s)
    BY <1>8, <2>4, <2>5 DEF IsPart, x
  <2>7. Two(s, 1) = f[1] /\ Two(s, 4) = f[2] /\ Two(s, 7) = f[3]
    BY <1>6, <1>7, <2>2, <2>3 DEF Two
  <2>8. Numbers(part, s) = f
    BY <1>3, <1>8, <2>7 DEF Numbers
  <2> QED BY <2>6, <2>8
<1>9. CASE part # "time"
  <2>1. PICK g \in Nat, h \in Nat, i \in Nat, j \in Nat : Places4(f[3], g, h, i, j)
    BY <1>3, <1>9, DigitsOfFour
  <2> DEFINE G == Ch(g)
             H == Ch(h)
             I == Ch(i)
             J == Ch(j)
             s == <<A, B, x, C, D, x, G, H, I, J>>
  <2>2. /\ G \in Int /\ IsDigit(G) /\ G - Zero = g /\ H \in Int /\ IsDigit(H) /\ H - Zero = h
        /\ I \in Int /\ IsDigit(I) /\ I - Zero = i /\ J \in Int /\ IsDigit(J) /\ J - Zero = j
    BY <1>2, <2>1 DEF Places4
  <2>3. 1000 * g + 100 * h + 10 * i + j = f[3]
    BY <2>1 DEF Places4
  <2> HIDE DEF Ch, A, B, C, D, G, H, I, J, x
  <2>4. s \in Seq(Int) /\ Len(s) = 10
    BY <1>1, <1>6, <2>2
  <2>5. \A k \in DOMAIN s : IF k \in {3, 6} THEN s[k] = x ELSE IsDigit(s[k])
    BY <1>6, <2>2
  <2>6. IsPart(part, s)
    BY <1>9, <2>4, <2>5 DEF IsPart, x
  <2>7. Two(s, 1) = f[1] /\ Two(s, 4) = f[2] /\ Four(s, 7) = f[3]
    BY <1>6, <1>7, <2>2, <2>3 DEF Two, Four
  <2>8. Numbers(part, s) = f
    BY <1>3, <1>9, <2>7 DEF Numbers
  <2> QED BY <2>6, <2>8
<1> QED BY <1>8, <1>9

LEMMA ShownHasShape ==
  ASSUME NEW part \in Parts, NEW f, FitPart(part, f)
  PROVE  Accepted(part, PartToStr(part, f))
<1>1. PICK s : IsPart(part, s) /\ Numbers(part, s) = f
  BY NumbersOfAPart
<1>2. PartToStr(part, f) = s
  BY <1>1, PartWritten
<1> QED BY <1>1, <1>2, PartAccepted

-----------------------------------------------------------------------------
(***************************************************************************)
(* The invariant.                                                          *)
(***************************************************************************)

\* The parts of a line are texts.
LEMMA LineParts ==
  ASSUME NEW c \in BOOLEAN, NEW l \in Inputs[c]
  PROVE  /\ \A part \in Parts : l[part] \in Seq(Int)
         /\ l = [part \in Parts |-> l[part]]
<1>1. l \in [date1 : Seq(Chars), date2 : Seq(Chars), time : Seq(Chars)]
  BY FormatAssumption
<1>2. \A x \in Seq(Chars) : x \in Seq(Int)
  <2>1. Chars \subseteq Int
    BY DEF Chars
  <2> QED BY <2>1, SeqMonotonic
<1>3. \A part \in Parts : l[part] \in Seq(Chars)
  BY <1>1 DEF Parts
<1>4. l = [part \in Parts |-> l[part]]
  BY <1>1 DEF Parts
<1> QED BY <1>2, <1>3, <1>4

LEMMA InitIInv == Init => IInv
<1> SUFFICES ASSUME Init PROVE IInv
  OBVIOUS
<1>1. TypeOK
  BY DEF Init, TypeOK
<1>2. OnlyFormatSent /\ StopsForAReason /\ FieldsArrive
  BY DEF Init, OnlyFormatSent, StopsForAReason, FieldsArrive
<1> QED BY <1>1, <1>2 DEF IInv

LEMMA CheckKeeps ==
  ASSUME IInv, Check
  PROVE  IInv'
<1>1. /\ stage = "read" /\ UNCHANGED <<checked, line, fields, header, text>>
      /\ stage' = IF checked /\ ~IfRightFormat(line) THEN "skipped" ELSE "checked"
  BY DEF Check
<1>2. stage' = "skipped" \/ stage' = "checked"
  BY <1>1
<1>3. TypeOK'
  BY <1>1, <1>2 DEF IInv, TypeOK
<1>4. OnlyFormatSent'
  <2>1. line' = line /\ checked' = checked
    BY <1>1
  <2>2. IfRightFormat(line)' <=> IfRightFormat(line)
    BY <2>1 DEF IfRightFormat, IfRightPart
  <2> QED BY <1>1, <2>1, <2>2 DEF OnlyFormatSent
<1>5. StopsForAReason' /\ FieldsArrive'
  BY <1>2 DEF StopsForAReason, FieldsArrive
<1> QED BY <1>3, <1>4, <1>5 DEF IInv

\* A line that does not make the client stop is parsed into the fields.
LEMMA ParseKeeps ==
  ASSUME IInv, Parse
  PROVE  IInv'
<1> DEFINE bad == {part \in Parts : \/ ParseThrows(part, line[part])
                                   \/ ParseUndefined(part, line[part])}
           first == IF "date1" \in bad THEN "date1"
                    ELSE IF "date2" \in bad THEN "date2" ELSE "time"
<1>1. /\ stage = "checked" /\ UNCHANGED <<checked, line, header, text>>
      /\ IF bad # {}
         THEN /\ stage' = IF ParseThrows(first, line[first]) THEN "thrown" ELSE "undefined"
              /\ UNCHANGED fields
         ELSE /\ fields' = [part \in Parts |-> ParsePart(part, line[part])]
              /\ stage' = "parsed"
  BY DEF Parse
<1>2. checked \in BOOLEAN /\ line \in Inputs[checked]
  BY DEF IInv, TypeOK
<1>3. \A part \in Parts : line[part] \in Seq(Int)
  BY <1>2, LineParts
<1>4. line' = line /\ checked' = checked
  BY <1>1
<1>5. Thrown(line)' = Thrown(line) /\ Undefined(line)' = Undefined(line)
      /\ IfRightFormat(line)' = IfRightFormat(line)
  BY <1>4
<1>6. checked => IfRightFormat(line)
  BY <1>1 DEF IInv, OnlyFormatSent
<1>7. CASE bad # {}
  <2>1. first \in bad
    <3>1. bad \subseteq {"date1", "date2", "time"}
      BY DEF Parts
    <3> HIDE DEF bad
    <3> QED BY <1>7, <3>1
  <2>2. first \in Parts /\ (ParseThrows(first, line[first]) \/ ParseUndefined(first, line[first]))
    BY <2>1
  <2> HIDE DEF first, bad
  <2>3. \/ stage' = "thrown" /\ Thrown(line)
        \/ stage' = "undefined" /\ Undefined(line)
    BY <1>1, <1>7, <2>2 DEF Thrown, Undefined
  <2>4. TypeOK'
    BY <1>2, <1>4, <2>3 DEF TypeOK
  <2>5. OnlyFormatSent' /\ FieldsArrive'
    BY <1>4, <1>5, <1>6, <2>3 DEF OnlyFormatSent, FieldsArrive
  <2>6. StopsForAReason'
    BY <1>5, <2>3 DEF StopsForAReason
  <2> QED BY <2>4, <2>5, <2>6 DEF IInv
<1>8. CASE bad = {}
  <2>1. \A part \in Parts : ~ParseThrows(part, line[part]) /\ ~ParseUndefined(part, line[part])
    BY <1>8
  <2>2. ~Thrown(line) /\ ~Undefined(line)
    BY <2>1 DEF Thrown, Undefined
  <2> DEFINE f == [part \in Parts |-> ParsePart(part, line[part])]
  <2>3. stage' = "parsed" /\ fields' = f
    BY <1>1, <1>8
  <2> HIDE DEF bad, first
  <2>4. AreFields(f)
    <3>1. \A part \in Parts : FieldsOf(part, ParsePart(part, line[part]))
      BY <1>3, <2>1, PartFields
    <3>2. \A part \in Parts : f[part] = ParsePart(part, line[part])
      OBVIOUS
    <3>3. f = [part \in Parts |-> f[part]]
      OBVIOUS
    <3> HIDE DEF f
    <3> QED BY <3>1, <3>2, <3>3 DEF AreFields
  <2>5. AreFields(fields)'
    <3> HIDE DEF f
    <3> QED BY <2>3, <2>4 DEF AreFields
  <2>6. TypeOK'
    BY <1>2, <1>4, <2>3, <2>5 DEF TypeOK
  <2>7. OnlyFormatSent' /\ FieldsArrive'
    BY <1>4, <1>5, <1>6, <2>3 DEF OnlyFormatSent, FieldsArrive
  <2>8. StopsForAReason'
    BY <1>4, <1>5, <2>2, <2>3 DEF StopsForAReason
  <2> QED BY <2>6, <2>7, <2>8 DEF IInv
<1> QED BY <1>7, <1>8

LEMMA SendKeeps ==
  ASSUME IInv, Send
  PROVE  IInv'
<1>1. /\ stage = "parsed" /\ stage' = "sent" /\ header' = AssembleMsg(fields)
      /\ checked' = checked /\ line' = line /\ fields' = fields /\ text' = text
  BY DEF Send
<1>2. checked \in BOOLEAN /\ line \in Inputs[checked] /\ AreFields(fields)
  BY <1>1 DEF IInv, TypeOK
<1>3. header' \in [4 .. 14 -> Chars] /\ ReadFields(header') = fields
  BY <1>1, <1>2, WireIsLossless
<1>4. Thrown(line)' = Thrown(line) /\ Undefined(line)' = Undefined(line)
      /\ IfRightFormat(line)' = IfRightFormat(line) /\ AreFields(fields)' = AreFields(fields)
  BY <1>1
<1>5. TypeOK'
  BY <1>1, <1>2, <1>3, <1>4 DEF TypeOK
<1>6. OnlyFormatSent'
  BY <1>1, <1>4 DEF IInv, OnlyFormatSent
<1>7. StopsForAReason'
  BY <1>1, <1>4 DEF IInv, StopsForAReason
<1>8. FieldsArrive'
  <2>1. ReadFields(header)' = ReadFields(header')
    OBVIOUS
  <2> QED BY <1>1, <1>3, <2>1 DEF FieldsArrive
<1> QED BY <1>5, <1>6, <1>7, <1>8 DEF IInv

LEMMA WriteKeeps ==
  ASSUME IInv, Write
  PROVE  IInv'
<1>1. /\ stage = "sent" /\ stage' = "written"
      /\ text' = [part \in Parts |-> PartToStr(part, ReadFields(header)[part])]
      /\ checked' = checked /\ line' = line /\ fields' = fields /\ header' = header
  BY DEF Write
<1>2. /\ checked \in BOOLEAN /\ line \in Inputs[checked] /\ AreFields(fields)
      /\ header \in [4 .. 14 -> Chars]
  BY <1>1 DEF IInv, TypeOK
<1>3. ReadFields(header) = fields
  BY <1>1 DEF IInv, FieldsArrive
<1>4. Thrown(line)' = Thrown(line) /\ Undefined(line)' = Undefined(line)
      /\ IfRightFormat(line)' = IfRightFormat(line) /\ AreFields(fields)' = AreFields(fields)
      /\ ReadFields(header)' = ReadFields(header)
  BY <1>1
<1>5. TypeOK'
  BY <1>1, <1>2, <1>4 DEF TypeOK
<1>6. OnlyFormatSent'
  BY <1>1, <1>4 DEF IInv, OnlyFormatSent
<1>7. StopsForAReason'
  BY <1>1, <1>4 DEF IInv, StopsForAReason
<1>8. FieldsArrive'
  <2>1. text' = [part \in Parts |-> PartToStr(part, fields[part])]
    BY <1>1, <1>3
  <2> QED BY <1>1, <1>3, <1>4, <2>1 DEF FieldsArrive
<1> QED BY <1>5, <1>6, <1>7, <1>8 DEF IInv

LEMMA NextIInv == IInv /\ [Next]_vars => IInv'
<1> SUFFICES ASSUME IInv, [Next]_vars PROVE IInv'
  OBVIOUS
<1>1. CASE Check
  BY <1>1, CheckKeeps
<1>2. CASE Parse
  BY <1>2, ParseKeeps
<1>3. CASE Send
  BY <1>3, SendKeeps
<1>4. CASE Write
  BY <1>4, WriteKeeps
<1>5. CASE UNCHANGED vars
  <2>1. /\ checked' = checked /\ line' = line /\ stage' = stage
        /\ fields' = fields /\ header' = header /\ text' = text
    BY <1>5 DEF vars
  <2>2. /\ Thrown(line)' = Thrown(line) /\ Undefined(line)' = Undefined(line)
        /\ IfRightFormat(line)' = IfRightFormat(line) /\ AreFields(fields)' = AreFields(fields)
        /\ ReadFields(header)' = ReadFields(header)
    BY <2>1
  <2>3. TypeOK'
    BY <2>1, <2>2 DEF IInv, TypeOK
  <2>4. OnlyFormatSent'
    BY <2>1, <2>2 DEF IInv, OnlyFormatSent
  <2>5. StopsForAReason'
    BY <2>1, <2>2 DEF IInv, StopsForAReason
  <2>6. FieldsArrive'
    BY <2>1, <2>2 DEF IInv, FieldsArrive
  <2> QED BY <2>3, <2>4, <2>5, <2>6 DEF IInv
<1> QED BY <1>1, <1>2, <1>3, <1>4, <1>5 DEF Next

\* The fields hold what their types can, only lines of the format leave a client
\* with the check, the client stops at a line for a reason, and the fields of the
\* others reach the server's file.
THEOREM Invariance == Spec => []IInv
<1> QED BY InitIInv, NextIInv, PTL DEF Spec

\* What the client has parsed is what the server reads and writes, negative
\* numbers and wrapped ones too.
THEOREM WhatIsParsedArrives == Spec => []FieldsArrive
<1>1. IInv => FieldsArrive
  BY DEF IInv
<1> QED BY <1>1, Invariance, PTL

-----------------------------------------------------------------------------
(***************************************************************************)
(* Lines of the format, and lines the check lets through.                  *)
(***************************************************************************)

LEMMA WellFormedParts ==
  ASSUME NEW c \in BOOLEAN, NEW l \in Inputs[c], WellFormed(l)
  PROVE  \A part \in Parts : IsPart(part, l[part])
<1> SUFFICES ASSUME NEW part \in Parts PROVE IsPart(part, l[part])
  OBVIOUS
<1>1. l[part] \in Seq(Int)
  BY LineParts
<1>2. /\ Len(l[part]) = IF part = "time" THEN 8 ELSE 10
      /\ \A i \in DOMAIN l[part] : IF i \in {3, 6} THEN l[part][i] = Sep(part)
                                   ELSE IsDigit(l[part][i])
  BY DEF WellFormed
<1> QED BY <1>1, <1>2 DEF IsPart

LEMMA FormatIsAccepted ==
  ASSUME NEW l, \A part \in Parts : l[part] \in Seq(Int)
  PROVE  IfRightFormat(l) <=> \A part \in Parts : Accepted(part, l[part])
BY DEF IfRightFormat, Accepted

LEMMA IInvWellFormed == IInv => WellFormedArrives
<1> SUFFICES ASSUME IInv, WellFormed(line)
             PROVE  /\ stage \notin {"skipped", "thrown", "undefined"}
                    /\ stage = "written" => text = line
  BY DEF WellFormedArrives
<1>1. checked \in BOOLEAN /\ line \in Inputs[checked]
  BY DEF IInv, TypeOK
<1>2. /\ \A part \in Parts : line[part] \in Seq(Int)
      /\ line = [part \in Parts |-> line[part]]
  BY <1>1, LineParts
<1>3. \A part \in Parts : IsPart(part, line[part])
  BY <1>1, WellFormedParts
<1>4. stage # "skipped"
  <2>1. IfRightFormat(line)
    BY <1>2, <1>3, PartAccepted, FormatIsAccepted
  <2> QED BY <2>1 DEF IInv, OnlyFormatSent
<1>5. stage # "thrown" /\ stage # "undefined"
  <2>1. ~Thrown(line) /\ ~Undefined(line)
    BY <1>3, PartParsed DEF Thrown, Undefined
  <2> QED BY <2>1 DEF IInv, StopsForAReason
<1>6. ASSUME stage = "written" PROVE text = line
  <2>1. text = [part \in Parts |-> PartToStr(part, fields[part])]
    BY <1>6 DEF IInv, FieldsArrive
  <2>2. fields = [part \in Parts |-> ParsePart(part, line[part])]
    BY <1>6 DEF IInv, StopsForAReason
  <2>3. ASSUME NEW part \in Parts PROVE PartToStr(part, fields[part]) = line[part]
    <3>1. fields[part] = ParsePart(part, line[part])
      BY <2>2
    <3>2. ParsePart(part, line[part]) = Numbers(part, line[part])
      BY <1>3, PartParsed
    <3>3. PartToStr(part, Numbers(part, line[part])) = line[part]
      BY <1>3, PartWritten
    <3> QED BY <3>1, <3>2, <3>3
  <2>4. text = [part \in Parts |-> line[part]]
    BY <2>1, <2>3
  <2> QED BY <1>2, <2>4
<1> QED BY <1>4, <1>5, <1>6

\* A line with its digits and separators in their places is written by the server
\* as it stands in the client's file.
THEOREM WellFormedLinesArrive == Spec => []WellFormedArrives
<1> QED BY IInvWellFormed, Invariance, PTL

LEMMA IInvAccepted == IInv => AcceptedKeepsShape
<1> SUFFICES ASSUME IInv, checked, stage = "written" PROVE IfRightFormat(text)
  BY DEF AcceptedKeepsShape
<1>1. checked \in BOOLEAN /\ line \in Inputs[checked]
  BY DEF IInv, TypeOK
<1>2. \A part \in Parts : line[part] \in Seq(Int)
  BY <1>1, LineParts
<1>3. /\ text = [part \in Parts |-> PartToStr(part, fields[part])]
      /\ fields = [part \in Parts |-> ParsePart(part, line[part])]
      /\ ~Thrown(line) /\ ~Undefined(line) /\ IfRightFormat(line)
  BY DEF IInv, OnlyFormatSent, StopsForAReason, FieldsArrive
<1>4. ASSUME NEW part \in Parts PROVE Accepted(part, text[part])
  <2>1. Accepted(part, line[part])
    BY <1>2, <1>3, FormatIsAccepted
  <2>2. ~ParseThrows(part, line[part]) /\ ~ParseUndefined(part, line[part])
    BY <1>3 DEF Thrown, Undefined
  <2>3. AreNumbers(part, SplitString(line[part], Sep(part)))
    BY <2>1, <2>2, AcceptedPieces
  <2>4. FitPart(part, ParsePart(part, line[part]))
    BY <2>3, NumbersParsed
  <2>5. text[part] = PartToStr(part, ParsePart(part, line[part]))
    BY <1>3
  <2> QED BY <2>4, <2>5, ShownHasShape
<1>5. \A part \in Parts : text[part] \in Seq(Int)
  BY <1>4 DEF Accepted
<1> QED BY <1>4, <1>5, FormatIsAccepted

\* Of a line that the check lets through, the server writes one of the format.
THEOREM AcceptedLinesKeepShape == Spec => []AcceptedKeepsShape
<1> QED BY IInvAccepted, Invariance, PTL
=============================================================================

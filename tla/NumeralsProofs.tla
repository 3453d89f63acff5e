---------------------------- MODULE NumeralsProofs ----------------------------
(***************************************************************************)
(* What the programs read is the value of the digits, and what they write  *)
(* of a number is read back as that number.                                *)
(***************************************************************************)
EXTENDS Numerals, DataInduction

\* The greatest element of a finite set of numbers.
LEMMA MaxOfPrefix ==
  ASSUME NEW n \in Nat, NEW t \in SUBSET (1 .. n), t # {}
  PROVE  Max(t) \in t /\ \A i \in t : i <= Max(t)
<1> DEFINE R == {r \in Nat : n - r \in t}
<1>1. \A i \in t : n - i \in R /\ i = n - (n - i)
  OBVIOUS
<1>2. PICK r \in R : \A q \in R : r <= q
  BY <1>1, LeastNumber
<1>3. n - r \in t /\ \A i \in t : i <= n - r
  BY <1>1, <1>2
<1> QED BY <1>3 DEF Max

\* Number goes through a text digit by digit.
LEMMA NumberSteps ==
  ASSUME NEW s \in Seq(Digit)
  PROVE  \E p \in [0 .. Len(s) -> Nat] :
           /\ p[0] = 0 /\ Number(s) = p[Len(s)]
           /\ \A k \in 0 .. Len(s) - 1 : p[k + 1] = 10 * p[k] + s[k + 1]
<1> DEFINE n == Len(s)
           D == DOMAIN s
           pick == [t \in SUBSET D |-> Max(t)]
           step == [i \in D |-> [v \in Nat |-> 10 * v + s[i]]]
           iter[t \in SUBSET D] ==
             IF t = {} THEN 0 ELSE 10 * iter[t \ {Max(t)}] + s[Max(t)]
<1>1. Number(s) = iter[D]
  BY DEF Number, FoldLeft, MapThenFoldSet
<1>2. n \in Nat /\ D = 1 .. n
  OBVIOUS
<1>3. \A t \in SUBSET (1 .. n) : t # {} =>
        pick[t] = Max(t) /\ pick[t] \in t /\ \A i \in t : i <= pick[t]
  BY <1>2, MaxOfPrefix
<1>4. step \in [D -> [Nat -> Nat]]
  <2>1. \A i \in D : s[i] \in Nat
    BY DEF Digit
  <2> HIDE DEF D
  <2> QED BY <2>1
<1>5. IsFold(1 .. n, pick, Nat, 0, step)
  <2>1. IsFiniteSet(1 .. n)
    BY <1>2, FS_Interval
  <2> HIDE DEF pick, step, D, n
  <2> QED BY <1>2, <1>3, <1>4, <2>1 DEF IsFold
<1>6. PICK f : IsFoldBy(f, D, pick, Nat, 0, step)
  <2>1. IsFold(D, pick, Nat, 0, step)
    BY <1>2, <1>5
  <2> HIDE DEF pick, step, D
  <2> QED BY <2>1, FoldExists
<1>7. f = [t \in SUBSET D |-> IF t = {} THEN 0 ELSE 10 * f[t \ {Max(t)}] + s[Max(t)]]
  <2>1. ASSUME NEW t \in SUBSET D, t # {}
        PROVE  f[t] = 10 * f[t \ {Max(t)}] + s[Max(t)]
    <3>1. pick[t] = Max(t) /\ Max(t) \in D
      BY <1>2, <1>3, <2>1
    <3>2. t \ {Max(t)} \in SUBSET (1 .. n)
      BY <1>2
    <3>3. f[t \ {Max(t)}] \in Nat
      BY <1>2, <1>6, <3>2 DEF IsFoldBy
    <3> QED BY <1>2, <1>6, <2>1, <3>1, <3>3 DEF IsFoldBy
  <2> HIDE DEF D, n
  <2> QED BY <1>2, <1>6, <2>1 DEF IsFoldBy
<1>8. iter = [t \in SUBSET D |-> IF t = {} THEN 0 ELSE 10 * iter[t \ {Max(t)}] + s[Max(t)]]
  <2> HIDE DEF D
  <2> QED BY <1>7
<1> HIDE DEF iter
<1> DEFINE p == [k \in 0 .. n |-> iter[1 .. k]]
<1>9. p[0] = 0
  <2>1. {} \in SUBSET D /\ 1 .. 0 = {}
    OBVIOUS
  <2>2. iter[{}] = 0
    BY <1>8, <2>1
  <2> QED BY <1>2, <2>1, <2>2
<1>10. ASSUME NEW k \in 0 .. n - 1 PROVE p[k + 1] = 10 * p[k] + s[k + 1]
  <2> DEFINE t == 1 .. k + 1
  <2>1. k + 1 \in t /\ \A i \in t : i <= k + 1 /\ i \in 1 .. n
    OBVIOUS
  <2>2. t \in SUBSET D /\ t # {}
    <3> HIDE DEF t, D, n
    <3> QED BY <1>2, <2>1
  <2>3. Max(t) = k + 1
    <3>1. Max(t) \in t /\ \A i \in t : i <= Max(t)
      <4> HIDE DEF t, D, n
      <4> QED BY <1>2, <2>2, MaxOfPrefix
    <3>2. k + 1 <= Max(t) /\ Max(t) <= k + 1 /\ Max(t) \in Nat
      BY <2>1, <3>1
    <3> HIDE DEF t, n
    <3> QED BY <3>2
  <2>4. t \ {k + 1} = 1 .. k
    OBVIOUS
  <2>5. iter[t] = 10 * iter[t \ {Max(t)}] + s[Max(t)]
    <3> HIDE DEF t, D, n
    <3> QED BY <1>8, <2>2
  <2>6. k \in 0 .. n /\ k + 1 \in 0 .. n
    BY <1>2
  <2> QED BY <2>3, <2>4, <2>5, <2>6
<1>11. p \in [0 .. n -> Nat]
  <2> DEFINE S == {k \in Nat : k <= n => p[k] \in Nat}
  <2>1. 0 \in S
    BY <1>9
  <2>2. ASSUME NEW k \in Nat, k \in S PROVE k + 1 \in S
    <3> SUFFICES ASSUME k + 1 <= n PROVE p[k + 1] \in Nat
      OBVIOUS
    <3>1. p[k] \in Nat /\ k \in 0 .. n - 1 /\ k + 1 \in 1 .. n
      BY <1>2, <2>2
    <3>2. s[k + 1] \in Nat
      <4>1. \A i \in 1 .. n : s[i] \in Nat
        BY DEF Digit
      <4> HIDE DEF p, n
      <4> QED BY <3>1, <4>1
    <3> HIDE DEF p, n
    <3> QED BY <1>10, <3>1, <3>2
  <2>3. Nat \subseteq S
    <3> HIDE DEF S
    <3> QED BY <2>1, <2>2, SimpleInduction
  <2>4. \A k \in 0 .. n : p[k] \in Nat
    <3> HIDE DEF p, n
    <3> QED BY <1>2, <2>3
  <2> QED BY <2>4
<1>12. Number(s) = p[n]
  BY <1>1, <1>2
<1> HIDE DEF p
<1> QED BY <1>9, <1>10, <1>11, <1>12

-----------------------------------------------------------------------------
(***************************************************************************)
(* The value of a text by its places is the number the programs compute.   *)
(***************************************************************************)

\* The weight of a place is ten times that of the next one.
LEMMA WeightSteps ==
  /\ Weight[0] = 1
  /\ \A k \in Nat : Weight[k] \in Nat /\ Weight[k + 1] = 10 * Weight[k]
<1> DEFINE id == [k \in Nat |-> k]
           pred == [k \in Nat \ {0} |-> k - 1]
           base == [k \in {0} |-> 1]
           step == [k \in Nat |-> [v \in Nat |-> 10 * v]]
<1>1. IsRecursion(Nat, id, {0}, pred, Nat, base, step)
  BY DEF IsRecursion
<1>2. PICK f : IsRecursionBy(f, Nat, {0}, pred, Nat, base, step)
  <2> HIDE DEF id, pred, base, step
  <2> QED BY <1>1, RecursionExists
<1>3. f = [k \in Nat |-> IF k = 0 THEN 1 ELSE 10 * f[k - 1]]
  <2>1. f \in [Nat -> Nat]
    BY <1>2 DEF IsRecursionBy
  <2>2. f[0] = 1
    BY <1>2 DEF IsRecursionBy
  <2>3. ASSUME NEW k \in Nat \ {0} PROVE f[k] = 10 * f[k - 1]
    <3>1. k - 1 \in Nat /\ f[k - 1] \in Nat
      BY <2>1
    <3>2. f[k] = step[k][f[k - 1]]
      BY <1>2, <3>1 DEF IsRecursionBy
    <3> QED BY <3>1, <3>2
  <2> QED BY <2>1, <2>2, <2>3
<1>4. Weight = [k \in Nat |-> IF k = 0 THEN 1 ELSE 10 * Weight[k - 1]]
  BY <1>3 DEF Weight
<1>5. Weight[0] = 1 /\ \A k \in Nat : Weight[k + 1] = 10 * Weight[k]
  BY <1>4
<1> DEFINE S == {k \in Nat : Weight[k] \in Nat}
<1>6. 0 \in S /\ \A k \in Nat : k \in S => k + 1 \in S
  BY <1>5
<1>7. Nat \subseteq S
  <2> HIDE DEF S
  <2> QED BY <1>6, SimpleInduction
<1> QED BY <1>5, <1>7

\* The number the loop computes is the sum of the digits by the weight of their
\* places: behind k digits the sum is the number so far, times the weight of
\* the last of them.
THEOREM ValueIsNumber ==
  ASSUME NEW s \in Seq(Digit)
  PROVE  Value(s) = Number(s) /\ Number(s) \in Nat
<1> DEFINE n == Len(s)
           D == DOMAIN s
           iter[t \in SUBSET D] ==
             IF t = {} THEN 0
             ELSE LET x == CHOOSE x \in t : TRUE
                  IN  s[x] * Weight[n - x] + iter[t \ {x}]
<1>1. Value(s) = iter[D]
  BY DEF Value, MapThenSumSet, MapThenFoldSet
<1> DEFINE pick == [t \in SUBSET D |-> CHOOSE x \in t : TRUE]
           c == [i \in D |-> s[i] * Weight[n - i]]
           step == [i \in D |-> [v \in Nat |-> c[i] + v]]
<1>2. n \in Nat /\ D = 1 .. n /\ IsFiniteSet(D)
  BY FS_Interval
<1>3. c \in [D -> Nat]
  <2>1. ASSUME NEW i \in D PROVE s[i] * Weight[n - i] \in Nat
    <3>1. s[i] \in Nat /\ n - i \in Nat
      BY <1>2 DEF Digit
    <3>2. Weight[n - i] \in Nat
      BY <3>1, WeightSteps
    <3> QED BY <3>1, <3>2
  <2> HIDE DEF n, D
  <2> QED BY <2>1
<1>4. \A t \in SUBSET D : t # {} => pick[t] \in t /\ pick[t] \in D
  OBVIOUS
<1>5. PICK f : IsFoldBy(f, D, pick, Nat, 0, step)
  <2>1. step \in [D -> [Nat -> Nat]]
    <3> HIDE DEF c, D
    <3> QED BY <1>3
  <2> HIDE DEF pick, step, D
  <2>2. IsFold(D, pick, Nat, 0, step)
    BY <1>2, <1>4, <2>1 DEF IsFold
  <2> QED BY <2>2, FoldExists
<1>6. f = [t \in SUBSET D |->
             IF t = {} THEN 0
             ELSE LET x == CHOOSE x \in t : TRUE
                  IN  s[x] * Weight[n - x] + f[t \ {x}]]
  <2>1. ASSUME NEW t \in SUBSET D, t # {}
        PROVE  f[t] = LET x == CHOOSE x \in t : TRUE
                      IN  s[x] * Weight[n - x] + f[t \ {x}]
    <3> DEFINE x == CHOOSE x \in t : TRUE
    <3>1. pick[t] = x /\ x \in D /\ t \ {x} \in SUBSET D
      BY <2>1
    <3> HIDE DEF x, pick, D
    <3>2. f[t] = step[x][f[t \ {x}]] /\ f[t \ {x}] \in Nat
      BY <1>5, <2>1, <3>1 DEF IsFoldBy
    <3>3. f[t] = c[x] + f[t \ {x}]
      BY <3>1, <3>2
    <3>4. f[t] = s[x] * Weight[n - x] + f[t \ {x}]
      BY <3>1, <3>3
    <3> QED BY <3>4 DEF x
  <2> DEFINE g == [t \in SUBSET D |->
                    IF t = {} THEN 0
                    ELSE LET x == CHOOSE x \in t : TRUE
                         IN  s[x] * Weight[n - x] + f[t \ {x}]]
  <2>2. f = [t \in SUBSET D |-> f[t]] /\ f[{}] = 0
    BY <1>5 DEF IsFoldBy
  <2> HIDE DEF D, n
  <2>3. ASSUME NEW t \in SUBSET D PROVE f[t] = g[t]
    <3>1. CASE t = {}
      BY <2>2, <3>1
    <3>2. CASE t # {}
      BY <2>1, <3>2
    <3> QED BY <3>1, <3>2
  <2> HIDE DEF g
  <2>4. [t \in SUBSET D |-> f[t]] = [t \in SUBSET D |-> g[t]]
    BY <2>3
  <2>5. g = [t \in SUBSET D |-> g[t]]
    BY DEF g
  <2>6. f = g
    BY <2>2, <2>4, <2>5
  <2> QED BY <2>6 DEF g
<1>7. iter = [t \in SUBSET D |->
             IF t = {} THEN 0
             ELSE LET x == CHOOSE x \in t : TRUE
                  IN  s[x] * Weight[n - x] + iter[t \ {x}]]
  <2> HIDE DEF D, n
  <2> QED BY <1>6, ZenonT(30)
<1> HIDE DEF iter
<1>8. ASSUME NEW t \in SUBSET D
      PROVE  iter[t] = IF t = {} THEN 0 ELSE c[pick[t]] + iter[t \ {pick[t]}]
  <2>1. CASE t = {}
    <3> HIDE DEF D, n
    <3> QED BY <1>7, <2>1
  <2>2. CASE t # {}
    <3> DEFINE x == CHOOSE x \in t : TRUE
    <3>1. pick[t] = x /\ x \in D
      BY <2>2
    <3>2. iter[t] = s[x] * Weight[n - x] + iter[t \ {x}]
      <4> HIDE DEF D, n
      <4> QED BY <1>7, <2>2
    <3> HIDE DEF x, pick, D
    <3>3. c[x] = s[x] * Weight[n - x]
      BY <3>1
    <3> QED BY <2>2, <3>1, <3>2, <3>3
  <2> QED BY <2>1, <2>2
<1>9. \A t \in SUBSET D : iter[t] \in Nat /\ \A x \in t : iter[t] = c[x] + iter[t \ {x}]
  <2> HIDE DEF pick, c, D
  <2>1. IsSum(iter, D, pick, c)
    BY <1>2, <1>3, <1>4, <1>8 DEF IsSum
  <2> QED BY <2>1, SumSplits
<1>10. PICK p \in [0 .. n -> Nat] :
         /\ p[0] = 0 /\ Number(s) = p[n]
         /\ \A k \in 0 .. n - 1 : p[k + 1] = 10 * p[k] + s[k + 1]
  BY NumberSteps
<1> DEFINE S == {k \in Nat : k <= n => iter[1 .. k] = p[k] * Weight[n - k]}
<1>11. 0 \in S
  <2>1. {} \in SUBSET D /\ 1 .. 0 = {}
    OBVIOUS
  <2>2. iter[{}] = 0
    <3> HIDE DEF D, c, pick
    <3> QED BY <1>8, <2>1
  <2>3. Weight[n] \in Nat
    BY <1>2, WeightSteps
  <2> QED BY <1>10, <2>1, <2>2, <2>3
<1>12. ASSUME NEW k \in Nat, k \in S PROVE k + 1 \in S
  <2> SUFFICES ASSUME k + 1 <= n
               PROVE  iter[1 .. k + 1] = p[k + 1] * Weight[n - (k + 1)]
    OBVIOUS
  <2> DEFINE w == Weight[n - (k + 1)]
             t == 1 .. k + 1
  <2>1. /\ n - (k + 1) \in Nat /\ n - k = (n - (k + 1)) + 1
        /\ k \in 0 .. n - 1 /\ k \in 0 .. n /\ k + 1 \in 1 .. n
    BY <1>2
  <2>2. w \in Nat /\ Weight[n - k] = 10 * w
    BY <2>1, WeightSteps
  <2>3. iter[1 .. k] = p[k] * Weight[n - k]
    BY <1>12, <2>1
  <2>4. t \in SUBSET D /\ k + 1 \in t /\ t \ {k + 1} = 1 .. k
    <3>1. k + 1 \in t /\ (\A i \in t : i \in 1 .. n) /\ t \ {k + 1} = 1 .. k
      BY <2>1
    <3> HIDE DEF t, D
    <3> QED BY <1>2, <3>1
  <2>5. iter[t] = c[k + 1] + iter[1 .. k]
    <3> HIDE DEF c, t, D
    <3> QED BY <1>9, <2>4
  <2>6. c[k + 1] = s[k + 1] * w /\ s[k + 1] \in Nat
    <3>1. \A i \in D : s[i] \in Nat
      BY DEF Digit
    <3>2. k + 1 \in D
      BY <1>2, <2>1
    <3> HIDE DEF D
    <3> QED BY <3>1, <3>2
  <2>7. p[k] \in Nat /\ p[k + 1] = 10 * p[k] + s[k + 1]
    BY <1>10, <2>1
  <2> HIDE DEF w, t, c
  <2>8. \A a, b, d \in Nat : d * b + a * (10 * b) = (10 * a + d) * b
    OBVIOUS
  <2>9. iter[t] = (10 * p[k] + s[k + 1]) * w
    BY <2>2, <2>3, <2>5, <2>6, <2>7, <2>8
  <2> QED BY <2>7, <2>9 DEF w, t
<1>13. Nat \subseteq S
  <2> HIDE DEF S
  <2> QED BY <1>11, <1>12, SimpleInduction
<1>14. p[n] \in Nat /\ n - n = 0 /\ n <= n /\ n \in S
  BY <1>2, <1>10, <1>13
<1>15. iter[D] = p[n] /\ p[n] \in Nat
  <2>1. iter[D] = p[n] * Weight[0]
    <3> HIDE DEF D, n
    <3> QED BY <1>2, <1>14
  <2>2. \A a \in Nat : a * 1 = a
    OBVIOUS
  <2> HIDE DEF D, n
  <2> QED BY <1>14, <2>1, <2>2, WeightSteps
<1> QED BY <1>1, <1>10, <1>15

-----------------------------------------------------------------------------
(***************************************************************************)
(* The digits int_to_str makes of a number say that number.                *)
(***************************************************************************)

\* Division by ten, as the loop of int_to_str uses it.
LEMMA TenSteps ==
  ASSUME NEW n \in Nat
  PROVE  /\ n \div 10 \in Nat /\ n % 10 \in Nat /\ n % 10 <= 9
         /\ n = 10 * (n \div 10) + (n % 10)
         /\ n >= 10 => n \div 10 < n
OBVIOUS

LEMMA DigitRange ==
  /\ \A d \in Digit : d \in Nat /\ d <= 9
  /\ \A d \in Nat : d <= 9 => d \in Digit
BY DEF Digit

\* Numeral goes through a number from its last digit on.
LEMMA NumeralSteps ==
  \A n \in Nat :
    /\ Numeral[n] \in Seq(Digit)
    /\ n < 10 => Numeral[n] = <<n>>
    /\ n >= 10 => Numeral[n] = Append(Numeral[n \div 10], n % 10)
<1> DEFINE V == Seq(Digit)
           id == [k \in Nat |-> k]
           B == {k \in Nat : k < 10}
           pred == [k \in Nat \ B |-> k \div 10]
           base == [k \in B |-> <<k>>]
           step == [k \in Nat |-> [v \in V |-> Append(v, k % 10)]]
<1>1. IsRecursion(Nat, id, B, pred, V, base, step)
  <2>1. id \in [Nat -> Nat] /\ B \subseteq Nat
    OBVIOUS
  <2>2. base \in [B -> V]
    <3>1. \A k \in B : <<k>> \in V
      <4> SUFFICES ASSUME NEW k \in B PROVE <<k>> \in V
        OBVIOUS
      <4>1. k \in Digit
        BY DigitRange
      <4> QED BY <4>1
    <3> HIDE DEF B, V
    <3> QED BY <3>1
  <2>3. pred \in [Nat \ B -> Nat] /\ \A k \in Nat \ B : pred[k] < k
    <3>1. \A k \in Nat \ B : k \div 10 \in Nat /\ k \div 10 < k
      <4> SUFFICES ASSUME NEW k \in Nat \ B PROVE k \div 10 \in Nat /\ k \div 10 < k
        OBVIOUS
      <4> QED BY TenSteps
    <3> HIDE DEF B
    <3> QED BY <3>1
  <2>4. step \in [Nat -> [V -> V]]
    <3>1. \A k \in Nat : k % 10 \in Digit
      BY TenSteps, DigitRange
    <3>2. \A k \in Nat, v \in V : Append(v, k % 10) \in V
      BY <3>1
    <3> HIDE DEF V
    <3> QED BY <3>2
  <2> HIDE DEF V, B, pred, base, step
  <2> QED BY <2>1, <2>2, <2>3, <2>4 DEF IsRecursion
<1>2. PICK f : IsRecursionBy(f, Nat, B, pred, V, base, step)
  <2> HIDE DEF id, pred, base, step, V, B
  <2> QED BY <1>1, RecursionExists
<1>3. f \in [Nat -> V]
  BY <1>2 DEF IsRecursionBy
<1>4. ASSUME NEW n \in Nat
      PROVE  f[n] = IF n < 10 THEN <<n>> ELSE Append(f[n \div 10], n % 10)
  <2>1. f[n] = IF n \in B THEN base[n] ELSE step[n][f[pred[n]]]
    BY <1>2 DEF IsRecursionBy
  <2>2. CASE n \in B
    BY <2>1, <2>2
  <2>3. CASE n \notin B
    <3>1. pred[n] = n \div 10 /\ n \div 10 \in Nat
      BY <2>3, TenSteps
    <3>2. f[n \div 10] \in V
      <4> HIDE DEF V
      <4> QED BY <1>3, <3>1
    <3>3. step[n][f[n \div 10]] = Append(f[n \div 10], n % 10)
      <4> HIDE DEF V
      <4> QED BY <3>2
    <3> HIDE DEF pred, base, step
    <3> QED BY <2>1, <2>3, <3>1, <3>3
  <2> QED BY <2>2, <2>3
<1>5. f = [n \in Nat |-> IF n < 10 THEN <<n>> ELSE Append(f[n \div 10], n % 10)]
  <2> HIDE DEF V
  <2> QED BY <1>3, <1>4
<1>6. Numeral = [n \in Nat |-> IF n < 10 THEN <<n>>
                               ELSE Append(Numeral[n \div 10], n % 10)]
  BY <1>5 DEF Numeral
<1>7. \A n \in Nat : /\ n < 10 => Numeral[n] = <<n>>
                     /\ n >= 10 => Numeral[n] = Append(Numeral[n \div 10], n % 10)
  <2> SUFFICES ASSUME NEW n \in Nat
               PROVE  /\ n < 10 => Numeral[n] = <<n>>
                      /\ n >= 10 => Numeral[n] = Append(Numeral[n \div 10], n % 10)
    OBVIOUS
  <2>1. Numeral[n] = IF n < 10 THEN <<n>> ELSE Append(Numeral[n \div 10], n % 10)
    BY <1>6
  <2> QED BY <2>1
<1> DEFINE S == {n \in Nat : Numeral[n] \in Seq(Digit)}
<1>8. ASSUME NEW n \in Nat, \A m \in Nat : m < n => m \in S PROVE n \in S
  <2>1. CASE n < 10
    <3>1. n \in Digit
      BY <2>1, DigitRange
    <3>2. <<n>> \in Seq(Digit)
      BY <3>1
    <3> QED BY <1>7, <2>1, <3>2
  <2>2. CASE n >= 10
    <3>1. n \div 10 \in Nat /\ n \div 10 < n /\ n % 10 \in Digit
      BY <2>2, TenSteps, DigitRange
    <3>2. Numeral[n \div 10] \in Seq(Digit)
      BY <1>8, <3>1
    <3>3. Append(Numeral[n \div 10], n % 10) \in Seq(Digit)
      BY <3>1, <3>2
    <3> QED BY <1>7, <2>2, <3>3
  <2> QED BY <2>1, <2>2
<1>9. Nat \subseteq S
  <2> HIDE DEF S
  <2> QED BY <1>8, StrongInduction
<1> QED BY <1>7, <1>9

\* One more digit makes a number ten times as large, and adds the digit.
LEMMA NumberAppend ==
  ASSUME NEW s \in Seq(Digit), NEW d \in Digit
  PROVE  Number(Append(s, d)) = 10 * Number(s) + d
<1> DEFINE n == Len(s)
           u == Append(s, d)
<1>1. n \in Nat /\ u \in Seq(Digit) /\ Len(u) = n + 1 /\ u[n + 1] = d
  OBVIOUS
<1>2. \A i \in 1 .. n : u[i] = s[i]
  OBVIOUS
<1>3. PICK p \in [0 .. n -> Nat] :
         /\ p[0] = 0 /\ Number(s) = p[n]
         /\ \A k \in 0 .. n - 1 : p[k + 1] = 10 * p[k] + s[k + 1]
  BY NumberSteps
<1> HIDE DEF u, n
<1>4. PICK q \in [0 .. n + 1 -> Nat] :
         /\ q[0] = 0 /\ Number(u) = q[n + 1]
         /\ \A k \in 0 .. (n + 1) - 1 : q[k + 1] = 10 * q[k] + u[k + 1]
  BY <1>1, NumberSteps
<1> DEFINE S == {k \in Nat : k <= n => q[k] = p[k]}
<1>5. 0 \in S
  BY <1>3, <1>4
<1>6. ASSUME NEW k \in Nat, k \in S PROVE k + 1 \in S
  <2> SUFFICES ASSUME k + 1 <= n PROVE q[k + 1] = p[k + 1]
    OBVIOUS
  <2>1. k <= n /\ k \in 0 .. n - 1 /\ k \in 0 .. (n + 1) - 1 /\ k + 1 \in 1 .. n
    BY <1>1
  <2>2. q[k] = p[k] /\ u[k + 1] = s[k + 1]
    BY <1>2, <1>6, <2>1
  <2> QED BY <1>3, <1>4, <2>1, <2>2
<1>7. Nat \subseteq S
  <2> HIDE DEF S
  <2> QED BY <1>5, <1>6, SimpleInduction
<1>8. n \in S /\ n <= n /\ n \in 0 .. (n + 1) - 1
  BY <1>1, <1>7
<1>9. q[n + 1] = 10 * p[n] + d
  BY <1>1, <1>4, <1>8
<1> QED BY <1>3, <1>4, <1>9 DEF u

\* What int_to_str writes of a number is read back as that number, by char_to_int,
\* by parse_cmd_to_port and by std::stoi, however many digits it has.
THEOREM WrittenReadsBack ==
  \A n \in Nat : Number(Numeral[n]) = n
<1> DEFINE S == {n \in Nat : Number(Numeral[n]) = n}
<1>1. ASSUME NEW n \in Nat, \A m \in Nat : m < n => m \in S PROVE n \in S
  <2>1. CASE n < 10
    <3>1. Numeral[n] = <<n>> /\ <<n>> \in Seq(Digit)
      BY <2>1, NumeralSteps, DigitRange
    <3>2. <<n>> = Append(<<>>, n) /\ <<>> \in Seq(Digit) /\ n \in Digit
      BY <2>1, DigitRange
    <3>3. Number(<<>>) = 0
      <4>1. PICK p \in [0 .. Len(<<>>) -> Nat] : p[0] = 0 /\ Number(<<>>) = p[Len(<<>>)]
        BY <3>2, NumberSteps
      <4> QED BY <4>1
    <3>4. Number(<<n>>) = 10 * Number(<<>>) + n
      BY <3>2, NumberAppend
    <3> QED BY <3>1, <3>3, <3>4
  <2>2. CASE n >= 10
    <3>1. /\ n \div 10 \in Nat /\ n \div 10 < n /\ n % 10 \in Digit
          /\ n = 10 * (n \div 10) + (n % 10)
      BY <2>2, TenSteps, DigitRange
    <3>2. Numeral[n] = Append(Numeral[n \div 10], n % 10) /\ Numeral[n \div 10] \in Seq(Digit)
      BY <2>2, <3>1, NumeralSteps
    <3>3. Number(Numeral[n \div 10]) = n \div 10
      BY <1>1, <3>1
    <3>4. Number(Numeral[n]) = 10 * (n \div 10) + (n % 10)
      BY <3>1, <3>2, <3>3, NumberAppend
    <3> QED BY <3>1, <3>4
  <2> QED BY <2>1, <2>2
<1>2. Nat \subseteq S
  <2> HIDE DEF S
  <2> QED BY <1>1, StrongInduction
<1> QED BY <1>2
=============================================================================

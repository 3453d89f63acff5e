--------------------------- MODULE DataInduction ---------------------------
(***************************************************************************)
(* Induction and recursion over data in a first-order form: a property is  *)
(* the set of the values that have it, the step of a recursion a function. *)
(* The loops of the programs are written as recursive functions and folds; *)
(* what these compute for every input is proved with the lemmas below.     *)
(***************************************************************************)
EXTENDS Integers, FiniteSetTheorems, TLAPS

\* A set of natural numbers that is not empty has a least one.
LEMMA LeastNumber ==
  ASSUME NEW S \in SUBSET Nat, S # {}
  PROVE  \E n \in S : \A m \in S : n <= m
<1> DEFINE R == OpToRel(<, Nat)
<1>1. IsWellFoundedOn(R, Nat)
  BY NatLessThanWellFounded
<1>2. \A m, n \in Nat : m < n => <<m, n>> \in R
  BY DEF OpToRel
<1> HIDE DEF R
<1>3. PICK n \in S : \A m \in S : ~(<<m, n>> \in R)
  BY <1>1, WFMin
<1>4. \A m \in S : ~(m < n)
  BY <1>2, <1>3
<1> QED BY <1>4

\* Course-of-values induction for a set of natural numbers.
LEMMA StrongInduction ==
  ASSUME NEW S,
         \A n \in Nat : (\A m \in Nat : m < n => m \in S) => n \in S
  PROVE  Nat \subseteq S
<1> SUFFICES ASSUME Nat \ S # {} PROVE FALSE
  OBVIOUS
<1>1. PICK n \in Nat \ S : \A m \in Nat \ S : n <= m
  BY LeastNumber
<1> QED BY <1>1

\* Induction for a set of natural numbers.
LEMMA SimpleInduction ==
  ASSUME NEW S, 0 \in S, \A n \in Nat : n \in S => n + 1 \in S
  PROVE  Nat \subseteq S
<1> SUFFICES ASSUME NEW n \in Nat, \A m \in Nat : m < n => m \in S
             PROVE  n \in S
  BY StrongInduction
<1>1. CASE n # 0
  <2>1. n - 1 \in Nat /\ n - 1 < n /\ n = (n - 1) + 1
    BY <1>1
  <2> QED BY <2>1
<1> QED BY <1>1

-----------------------------------------------------------------------------
(***************************************************************************)
(* Recursion: a function on A whose value at x is base[x] for x in B, and  *)
(* elsewhere is made from x and its value at pred[x], which has a lower    *)
(* rank.                                                                   *)
(***************************************************************************)

IsRecursion(A, rank, B, pred, V, base, step) ==
  /\ rank \in [A -> Nat]
  /\ B \subseteq A /\ base \in [B -> V]
  /\ pred \in [A \ B -> A]
  /\ \A x \in A \ B : rank[pred[x]] < rank[x]
  /\ step \in [A -> [V -> V]]

IsRecursionBy(f, A, B, pred, V, base, step) ==
  /\ f \in [A -> V]
  /\ \A x \in A : f[x] = IF x \in B THEN base[x] ELSE step[x][f[pred[x]]]

\* The functions that satisfy the recursion as far as rank n.
Approximations(A, rank, B, pred, base, step, V, n) ==
  {f \in [{x \in A : rank[x] < n} -> V] :
     \A x \in A : rank[x] < n =>
       f[x] = IF x \in B THEN base[x] ELSE step[x][f[pred[x]]]}

\* There is a function that satisfies the recursion, and its values are of the
\* type that base and step keep.
LEMMA RecursionExists ==
  ASSUME NEW A, NEW rank, NEW B, NEW pred, NEW V, NEW base, NEW step,
         IsRecursion(A, rank, B, pred, V, base, step)
  PROVE  \E f : IsRecursionBy(f, A, B, pred, V, base, step)
<1> DEFINE Below(n) == {x \in A : rank[x] < n}
           App(n)   == Approximations(A, rank, B, pred, base, step, V, n)
<1> USE DEF IsRecursion
<1>1. \A n \in Nat : \E f : f \in App(n)
  <2> DEFINE S == {n \in Nat : \E f : f \in App(n)}
  <2>1. 0 \in S
    <3> DEFINE g == [x \in Below(0) |-> x]
    <3>1. Below(0) = {}
      OBVIOUS
    <3>2. g \in [Below(0) -> V] /\ \A x \in A : ~(rank[x] < 0)
      BY <3>1
    <3> HIDE DEF g
    <3>3. g \in App(0)
      BY <3>2 DEF Approximations
    <3> QED BY <3>3
  <2>2. ASSUME NEW n \in Nat, n \in S PROVE n + 1 \in S
    <3> PICK f : f \in App(n)
      BY <2>2
    <3> DEFINE g == [x \in Below(n + 1) |->
                       IF x \in B THEN base[x] ELSE step[x][f[pred[x]]]]
    <3>1. /\ f \in [Below(n) -> V]
          /\ \A x \in Below(n) :
               f[x] = IF x \in B THEN base[x] ELSE step[x][f[pred[x]]]
      BY DEF Approximations
    <3>2. \A x \in Below(n + 1) \ B : pred[x] \in Below(n) /\ pred[x] \in Below(n + 1)
      OBVIOUS
    <3>3. ASSUME NEW x \in Below(n + 1)
          PROVE  /\ g[x] \in V
                 /\ g[x] = IF x \in B THEN base[x] ELSE step[x][g[pred[x]]]
      <4>1. CASE x \in B
        BY <4>1
      <4>2. CASE x \notin B
        <5>1. pred[x] \in Below(n) /\ pred[x] \in Below(n + 1)
          BY <3>2, <4>2
        <5>2. g[pred[x]] = f[pred[x]] /\ f[pred[x]] \in V
          BY <3>1, <5>1
        <5> QED BY <4>2, <5>2
      <4> QED BY <4>1, <4>2
    <3>4. g \in App(n + 1)
      <4>1. g \in [Below(n + 1) -> V]
        BY <3>3
      <4> HIDE DEF g
      <4> QED BY <3>3, <4>1 DEF Approximations
    <3> HIDE DEF g, App
    <3> QED BY <3>4
  <2> HIDE DEF App
  <2>3. Nat \subseteq S
    <3> HIDE DEF S
    <3> QED BY <2>1, <2>2, SimpleInduction
  <2> QED BY <2>3
<1>2. ASSUME NEW m \in Nat, NEW n \in Nat, NEW f \in App(m), NEW g \in App(n)
      PROVE  \A x \in A : rank[x] < m /\ rank[x] < n => f[x] = g[x]
  <2> DEFINE S == {k \in Nat : \A x \in A : rank[x] = k /\ k < m /\ k < n => f[x] = g[x]}
  <2>1. ASSUME NEW k \in Nat, \A j \in Nat : j < k => j \in S PROVE k \in S
    <3> SUFFICES ASSUME NEW x \in A, rank[x] = k, k < m, k < n PROVE f[x] = g[x]
      OBVIOUS
    <3>1. /\ f[x] = IF x \in B THEN base[x] ELSE step[x][f[pred[x]]]
          /\ g[x] = IF x \in B THEN base[x] ELSE step[x][g[pred[x]]]
      BY DEF Approximations
    <3>2. ASSUME x \notin B PROVE f[pred[x]] = g[pred[x]]
      <4>1. pred[x] \in A /\ rank[pred[x]] \in Nat /\ rank[pred[x]] < k
        BY <3>2
      <4>2. rank[pred[x]] \in S /\ rank[pred[x]] < m /\ rank[pred[x]] < n
        BY <2>1, <4>1
      <4> QED BY <4>1, <4>2
    <3> QED BY <3>1, <3>2
  <2>2. Nat \subseteq S
    <3> HIDE DEF S
    <3> QED BY <2>1, StrongInduction
  <2> QED BY <2>2
<1> DEFINE f == [x \in A |-> (CHOOSE g : g \in App(rank[x] + 1))[x]]
<1>3. ASSUME NEW x \in A, NEW n \in Nat, NEW g \in App(n), rank[x] < n
      PROVE  f[x] = g[x]
  <2> DEFINE h == CHOOSE h : h \in App(rank[x] + 1)
  <2>1. rank[x] + 1 \in Nat /\ rank[x] < rank[x] + 1
    OBVIOUS
  <2>2. h \in App(rank[x] + 1)
    <3> HIDE DEF App
    <3> QED BY <1>1, <2>1
  <2>3. f[x] = h[x]
    OBVIOUS
  <2> HIDE DEF h, f, App
  <2> QED BY <1>2, <1>3, <2>1, <2>2, <2>3
<1>4. ASSUME NEW x \in A
      PROVE  f[x] \in V /\ f[x] = IF x \in B THEN base[x] ELSE step[x][f[pred[x]]]
  <2>1. rank[x] + 1 \in Nat /\ rank[x] < rank[x] + 1
    OBVIOUS
  <2>2. PICK g : g \in App(rank[x] + 1)
    <3> HIDE DEF App
    <3> QED BY <1>1, <2>1
  <2>3. f[x] = g[x]
    <3> HIDE DEF App, f
    <3> QED BY <1>3, <2>1, <2>2
  <2>4. /\ g[x] \in V
        /\ g[x] = IF x \in B THEN base[x] ELSE step[x][g[pred[x]]]
    BY <2>1, <2>2 DEF Approximations
  <2>5. ASSUME x \notin B PROVE f[pred[x]] = g[pred[x]]
    <3>1. pred[x] \in A /\ rank[pred[x]] < rank[x] + 1
      BY <2>5
    <3> HIDE DEF App, f
    <3> QED BY <1>3, <2>1, <2>2, <3>1
  <2> HIDE DEF f, App
  <2> QED BY <2>3, <2>4, <2>5
<1>5. f \in [A -> V]
  BY <1>4
<1> HIDE DEF f
<1> QED BY <1>4, <1>5 DEF IsRecursionBy

\* A fold takes the elements of a finite set away, one after the other, and
\* makes its value from the one taken and from that of the rest.
IsFold(D, pick, V, base, step) ==
  /\ IsFiniteSet(D)
  /\ \A t \in SUBSET D : t # {} => pick[t] \in t
  /\ base \in V /\ step \in [D -> [V -> V]]

IsFoldBy(f, D, pick, V, base, step) ==
  /\ f \in [SUBSET D -> V]
  /\ \A t \in SUBSET D :
       f[t] = IF t = {} THEN base ELSE step[pick[t]][f[t \ {pick[t]}]]

\* The recursion of a fold has a function that satisfies it.
LEMMA FoldExists ==
  ASSUME NEW D, NEW pick, NEW V, NEW base, NEW step,
         IsFold(D, pick, V, base, step)
  PROVE  \E f : IsFoldBy(f, D, pick, V, base, step)
<1> DEFINE A == SUBSET D
           B == {{}}
           rank == [t \in A |-> Cardinality(t)]
           pred == [t \in A \ B |-> t \ {pick[t]}]
           bases == [t \in B |-> base]
           steps == [t \in A |-> [v \in V |->
                       IF t = {} THEN base ELSE step[pick[t]][v]]]
<1> USE DEF IsFold
<1>1. rank \in [A -> Nat]
  BY FS_Subset, FS_CardinalityType
<1>2. pred \in [A \ B -> A]
  OBVIOUS
<1>3. ASSUME NEW t \in A \ B PROVE rank[pred[t]] < rank[t]
  <2>1. IsFiniteSet(t) /\ pick[t] \in t
    BY FS_Subset
  <2>2. Cardinality(t \ {pick[t]}) = Cardinality(t) - 1 /\ Cardinality(t) \in Nat
    BY <2>1, FS_RemoveElement, FS_CardinalityType
  <2> QED BY <2>2
<1>4. B \in SUBSET A /\ bases \in [B -> V] /\ steps \in [A -> [V -> V]]
  OBVIOUS
<1>5. IsRecursion(A, rank, B, pred, V, bases, steps)
  <2> HIDE DEF rank, pred, bases, steps, B, A
  <2> QED BY <1>1, <1>2, <1>3, <1>4 DEF IsRecursion
<1> HIDE DEF rank, pred, bases, steps, B, A
<1>6. PICK f : IsRecursionBy(f, A, B, pred, V, bases, steps)
  BY <1>5, RecursionExists
<1>7. ASSUME NEW t \in A
      PROVE  f[t] = IF t = {} THEN base ELSE step[pick[t]][f[t \ {pick[t]}]]
  <2>1. f[t] = IF t = {} THEN base ELSE steps[t][f[pred[t]]]
    BY <1>6 DEF B, bases, IsRecursionBy
  <2>2. CASE t # {}
    <3>1. pred[t] = t \ {pick[t]} /\ pred[t] \in A
      BY <1>2, <2>2 DEF pred, B
    <3>2. f[pred[t]] \in V
      BY <1>6, <3>1 DEF IsRecursionBy
    <3>3. steps[t][f[pred[t]]] = step[pick[t]][f[pred[t]]]
      BY <2>2, <3>2 DEF steps
    <3> QED BY <2>1, <2>2, <3>1, <3>3
  <2> QED BY <2>1, <2>2
<1>8. f \in [A -> V]
  BY <1>6 DEF IsRecursionBy
<1> QED BY <1>7, <1>8 DEF A, IsFoldBy

\* A sum over a finite set does not depend on the element it takes away first.
IsSum(f, D, pick, c) ==
  /\ IsFiniteSet(D) /\ c \in [D -> Nat]
  /\ \A t \in SUBSET D : t # {} => pick[t] \in t
  /\ \A t \in SUBSET D :
       f[t] = IF t = {} THEN 0 ELSE c[pick[t]] + f[t \ {pick[t]}]

LEMMA SumSplits ==
  ASSUME NEW f, NEW D, NEW pick, NEW c, IsSum(f, D, pick, c)
  PROVE  \A t \in SUBSET D : f[t] \in Nat /\ \A x \in t : f[t] = c[x] + f[t \ {x}]
<1> DEFINE Splits(t) == f[t] \in Nat /\ \A x \in t : f[t] = c[x] + f[t \ {x}]
           S == {n \in Nat : \A t \in SUBSET D : Cardinality(t) = n => Splits(t)}
<1> USE DEF IsSum
<1>1. ASSUME NEW t \in SUBSET D, NEW x \in t
      PROVE  /\ t \ {x} \in SUBSET D
             /\ Cardinality(t \ {x}) \in Nat /\ Cardinality(t \ {x}) < Cardinality(t)
  <2>1. IsFiniteSet(t)
    BY FS_Subset
  <2>2. Cardinality(t \ {x}) = Cardinality(t) - 1 /\ Cardinality(t) \in Nat
    BY <2>1, FS_RemoveElement, FS_CardinalityType
  <2>3. IsFiniteSet(t \ {x}) /\ Cardinality(t \ {x}) \in Nat
    BY <2>1, FS_Subset, FS_CardinalityType
  <2> QED BY <2>2, <2>3
<1>2. ASSUME NEW n \in Nat, \A m \in Nat : m < n => m \in S PROVE n \in S
  <2> SUFFICES ASSUME NEW t \in SUBSET D, Cardinality(t) = n PROVE Splits(t)
    OBVIOUS
  <2>1. CASE t = {}
    <3>1. f[t] = 0
      BY <2>1
    <3> QED BY <2>1, <3>1
  <2>2. CASE t # {}
    <3> DEFINE y == pick[t]
    <3>1. y \in t /\ f[t] = c[y] + f[t \ {y}]
      BY <2>2
    <3>2. \A x \in t : t \ {x} \in SUBSET D /\ Splits(t \ {x})
      BY <1>1, <1>2
    <3>3. \A x \in D : c[x] \in Nat
      OBVIOUS
    <3> HIDE DEF y
    <3>4. ASSUME NEW x \in t, x # y PROVE f[t] = c[x] + f[t \ {x}]
      <4>1. x \in t \ {y} /\ y \in t \ {x}
        BY <3>1, <3>4
      <4>2. f[t \ {y}] = c[x] + f[(t \ {y}) \ {x}]
        BY <3>1, <3>2, <4>1
      <4>3. f[t \ {x}] = c[y] + f[(t \ {x}) \ {y}]
        BY <3>2, <4>1
      <4>4. (t \ {y}) \ {x} = (t \ {x}) \ {y}
        OBVIOUS
      <4>5. f[(t \ {y}) \ {x}] \in Nat
        <5>1. t \ {y} \in SUBSET D /\ Cardinality(t \ {y}) < n
          BY <1>1, <3>1
        <5> DEFINE u == (t \ {y}) \ {x}
        <5>2. /\ u \in SUBSET D /\ Cardinality(u) \in Nat
              /\ Cardinality(u) < Cardinality(t \ {y})
          BY <1>1, <4>1, <5>1
        <5>3. Cardinality(t \ {y}) \in Nat
          BY <1>1, <3>1
        <5> HIDE DEF u
        <5>4. Cardinality(u) < n
          BY <5>1, <5>2, <5>3
        <5>5. f[u] \in Nat
          BY <1>2, <5>2, <5>4
        <5> QED BY <5>5 DEF u
      <4>6. c[x] \in Nat /\ c[y] \in Nat
        BY <3>1, <3>3
      <4>7. f[t] = c[y] + (c[x] + f[(t \ {y}) \ {x}])
        BY <3>1, <4>2
      <4>8. f[t \ {x}] = c[y] + f[(t \ {y}) \ {x}]
        BY <4>3, <4>4
      <4>9. \A a, b, k \in Nat : a + (b + k) = b + (a + k)
        OBVIOUS
      <4> QED BY <4>5, <4>6, <4>7, <4>8, <4>9
    <3>5. f[t] \in Nat
      <4>1. c[y] \in Nat /\ f[t \ {y}] \in Nat
        BY <3>1, <3>2, <3>3
      <4>2. \A a, b \in Nat : a + b \in Nat
        OBVIOUS
      <4> QED BY <3>1, <4>1, <4>2
    <3> QED BY <3>1, <3>4, <3>5
  <2> QED BY <2>1, <2>2
<1>3. Nat \subseteq S
  <2> HIDE DEF S
  <2> QED BY <1>2, StrongInduction
<1> SUFFICES ASSUME NEW t \in SUBSET D PROVE Splits(t)
  OBVIOUS
<1>4. Cardinality(t) \in S
  BY <1>3, FS_Subset, FS_CardinalityType
<1> QED BY <1>4
=============================================================================

--------------------------- MODULE RfcCallProofs ---------------------------
(* The limits on a result, for every result that SAP may return, and what     *)
(* CallChecks promises, for the whole of a request.                           *)
EXTENDS RfcCall, CallChecksProofs, SequenceTheorems

USE LimitsAssumption

-----------------------------------------------------------------------------
(* Induction: over numbers, and over values by what they hold *)

LEMMA Least ==
    ASSUME NEW T \in SUBSET Nat, T /= {}
    PROVE  \E n \in T : \A m \in T : n <= m
<1>1. PICK R : IsWellFoundedOn(R, Nat) /\ \A x, y \in Nat : <<y, x>> \in R <=> y < x
  BY LessThan
<1>2. PICK n \in T : \A m \in T : <<m, n>> \notin R
  BY <1>1, WFMin
<1>3. \A m \in T : ~(m < n)
  BY <1>1, <1>2
<1> QED
  BY <1>3

\* What holds for 0, and for a number once it holds for the one before it,
\* holds for all of them.  S is the set of the numbers for which it holds.
LEMMA UpTo ==
    ASSUME NEW n \in Nat, NEW S,
           0 \in S, \A i \in 1..n : i - 1 \in S => i \in S
    PROVE  \A i \in 0..n : i \in S
<1> DEFINE T == {i \in 0..n : i \notin S}
<1>1. ASSUME T /= {} PROVE FALSE
  <2>1. T \in SUBSET Nat
    OBVIOUS
  <2> HIDE DEF T
  <2>2. PICK i \in T : \A j \in T : i <= j
    BY <1>1, <2>1, Least
  <2>3. i \in 1..n /\ i \notin S
    BY <2>2 DEF T
  <2>4. i - 1 \in 0..n /\ i - 1 \in S
    BY <2>2, <2>3 DEF T
  <2> QED
    BY <2>3, <2>4
<1> QED
  BY <1>1

\* The recursive definition of Nested defines what it says.
LEMMA NestedDefined ==
    Nested = [d \in 0..MaxNesting |->
                IF d = 0 THEN Scalars ELSE Nested[d - 1] \cup Holding(Nested[d - 1])]
<1> DEFINE Is(f, n) == f = [d \in 0..n |->
                              IF d = 0 THEN Scalars ELSE f[d - 1] \cup Holding(f[d - 1])]
           S == {n \in Nat : \E f : Is(f, n)}
<1>1. 0 \in S
  <2> DEFINE e == [d \in 0..0 |-> Scalars]
  <2>1. Is(e, 0)
    OBVIOUS
  <2> QED
    BY <2>1
<1>2. ASSUME NEW n \in 1..MaxNesting, n - 1 \in S PROVE n \in S
  <2>1. PICK f : Is(f, n - 1)
    BY <1>2
  <2> DEFINE top == f[n - 1] \cup Holding(f[n - 1])
             g == [d \in 0..n |-> IF d = n THEN top ELSE f[d]]
  <2>2. \A d \in 0..n : g[d] = IF d = 0 THEN Scalars ELSE g[d - 1] \cup Holding(g[d - 1])
    <3> SUFFICES ASSUME NEW d \in 0..n
                 PROVE  g[d] = IF d = 0 THEN Scalars ELSE g[d - 1] \cup Holding(g[d - 1])
      OBVIOUS
    <3>1. CASE d = n
      <4>1. g[d] = top /\ g[d - 1] = f[n - 1] /\ d /= 0
        BY <3>1
      <4> QED
        BY <4>1
    <3>2. CASE d /= n
      <4>1. d \in 0..(n - 1) /\ g[d] = f[d] /\ (d /= 0 => g[d - 1] = f[d - 1])
        BY <3>2
      <4>2. f[d] = IF d = 0 THEN Scalars ELSE f[d - 1] \cup Holding(f[d - 1])
        BY <2>1, <4>1
      <4> QED
        BY <4>1, <4>2
    <3> QED
      BY <3>1, <3>2
  <2>3. Is(g, n)
    BY <2>2
  <2>4. n \in Nat
    OBVIOUS
  <2> HIDE DEF Is, g
  <2>5. \E h : Is(h, n)
    BY Zenon, <2>3
  <2> QED
    BY <2>4, <2>5
<1> HIDE DEF S
<1>3. MaxNesting \in S
  BY <1>1, <1>2, UpTo
<1>4. \E f : Is(f, MaxNesting)
  BY <1>3 DEF S
<1>5. Nested = CHOOSE f : Is(f, MaxNesting)
  BY DEF Nested
<1> QED
  BY <1>4, <1>5

\* A value at a level is a scalar or holds values of the level below.
LEMMA Levels ==
    /\ Nested[0] = Scalars
    /\ \A d \in 1..MaxNesting : Nested[d] = Nested[d - 1] \cup Holding(Nested[d - 1])
<1>1. \A d \in 0..MaxNesting :
        Nested[d] = IF d = 0 THEN Scalars ELSE Nested[d - 1] \cup Holding(Nested[d - 1])
  BY Zenon, NestedDefined
<1>2. 0 \in 0..MaxNesting /\ \A d \in 1..MaxNesting : d \in 0..MaxNesting /\ d /= 0
  OBVIOUS
<1> QED
  BY Zenon, <1>1, <1>2

LEMMA HoldingMonotonic ==
    ASSUME NEW A, NEW B, A \subseteq B
    PROVE  Holding(A) \subseteq Holding(B)
<1>1. Seq(A) \subseteq Seq(B)
  BY SeqMonotonic
<1> QED
  BY <1>1 DEF Holding

LEMMA Below ==
    ASSUME NEW d \in 0..MaxNesting
    PROVE  /\ \A v \in Nested[d] : v \in Scalars \/ (d > 0 /\ v \in Holding(Nested[d - 1]))
           /\ Scalars \subseteq Nested[d]
<1> DEFINE S == {e \in 0..MaxNesting :
                   /\ \A v \in Nested[e] : v \in Scalars \/ (e > 0 /\ v \in Holding(Nested[e - 1]))
                   /\ Scalars \subseteq Nested[e]}
<1>1. 0 \in S
  BY Levels
<1>2. ASSUME NEW e \in 1..MaxNesting, e - 1 \in S PROVE e \in S
  <2>1. Nested[e] = Nested[e - 1] \cup Holding(Nested[e - 1])
    BY Levels
  <2>2. ASSUME NEW v \in Nested[e - 1], v \notin Scalars PROVE v \in Holding(Nested[e - 1])
    <3>1. e - 1 > 0 /\ v \in Holding(Nested[(e - 1) - 1])
      BY <1>2, <2>2
    <3>2. Nested[(e - 1) - 1] \subseteq Nested[e - 1]
      BY <3>1, Levels
    <3> QED
      BY <3>1, <3>2, HoldingMonotonic
  <2> QED
    BY <1>2, <2>1, <2>2
<1> HIDE DEF S
<1>3. d \in S
  BY <1>1, <1>2, UpTo
<1> QED
  BY <1>3 DEF S

LEMMA LevelsNested ==
    \A d \in 0..MaxNesting : Nested[d] \subseteq JsonValues
<1> DEFINE S == {k \in 0..MaxNesting : Nested[MaxNesting - k] \subseteq JsonValues}
<1>1. 0 \in S
  BY DEF JsonValues
<1>2. ASSUME NEW k \in 1..MaxNesting, k - 1 \in S PROVE k \in S
  <2>1. MaxNesting - (k - 1) \in 1..MaxNesting
        /\ (MaxNesting - (k - 1)) - 1 = MaxNesting - k
    OBVIOUS
  <2>2. Nested[MaxNesting - k] \subseteq Nested[MaxNesting - (k - 1)]
    BY <2>1, Levels
  <2> QED
    BY <1>2, <2>2
<1> HIDE DEF S
<1>3. \A k \in 0..MaxNesting : k \in S
  BY <1>1, <1>2, UpTo
<1> SUFFICES ASSUME NEW d \in 0..MaxNesting PROVE Nested[d] \subseteq JsonValues
  OBVIOUS
<1>4. MaxNesting - d \in 0..MaxNesting /\ MaxNesting - (MaxNesting - d) = d
  OBVIOUS
<1> QED
  BY <1>3, <1>4 DEF S

\* Scalars and what holds values, told apart by kind.
LEMMA Kinds ==
    /\ \A v \in Scalars : v.kind = "scalar" /\ v = Scalar(v.type)
                           /\ v.type \in {"text", "date", "nan"} /\ Held(v) = <<>>
    /\ \A A : \A v \in Holding(A) :
         v.kind \in {"dict", "list"} /\ v.kind /= "scalar" /\ v.items \in Seq(A)
         /\ Held(v) = v.items /\ v = [kind |-> v.kind, items |-> v.items]
  BY DEF Scalars, Scalar, Holding, Held

LEMMA HeldBelow ==
    ASSUME NEW d \in 0..MaxNesting, NEW v \in Nested[d]
    PROVE  /\ Held(v) \in Seq(JsonValues)
           /\ \A i \in DOMAIN Held(v) : d > 0 /\ Held(v)[i] \in Nested[d - 1]
<1>1. CASE v \in Scalars
  <2>1. Held(v) = <<>>
    BY <1>1, Kinds
  <2> QED
    BY <2>1
<1>2. CASE d > 0 /\ v \in Holding(Nested[d - 1])
  <2>1. Held(v) \in Seq(Nested[d - 1])
    BY <1>2, Kinds
  <2>2. Nested[d - 1] \subseteq JsonValues
    BY <1>2, LevelsNested
  <2>3. Held(v) \in Seq(JsonValues)
    BY <2>1, <2>2, SeqMonotonic
  <2>4. \A i \in DOMAIN Held(v) : Held(v)[i] \in Nested[d - 1]
    BY <2>1
  <2> QED
    BY <1>2, <2>3, <2>4
<1> QED
  BY <1>1, <1>2, Below

LEMMA HeldValues ==
    ASSUME NEW v \in JsonValues
    PROVE  /\ Held(v) \in Seq(JsonValues)
           /\ DOMAIN Held(v) = 1..Len(Held(v)) /\ Len(Held(v)) \in Nat
           /\ \A i \in DOMAIN Held(v) : Held(v)[i] \in JsonValues
           /\ v \in Scalars \/ v \in Holding(JsonValues)
<1>1. v \in Nested[MaxNesting] /\ MaxNesting \in 0..MaxNesting
  BY DEF JsonValues
<1>2. Held(v) \in Seq(JsonValues)
  BY <1>1, HeldBelow
<1>3. v \in Scalars \/ v \in Holding(JsonValues)
  <2>1. MaxNesting > 0 => Nested[MaxNesting - 1] \subseteq JsonValues
    BY LevelsNested
  <2> QED
    BY <1>1, <2>1, Below, HoldingMonotonic
<1>4. \A i \in DOMAIN Held(v) : Held(v)[i] \in JsonValues
  BY <1>2
<1> QED
  BY <1>2, <1>3, <1>4

\* A set of values has one that holds none of the others.
LEMMA Innermost ==
    ASSUME NEW T \in SUBSET JsonValues, T /= {}
    PROVE  \E v \in T : \A i \in DOMAIN Held(v) : Held(v)[i] \notin T
<1> DEFINE D == {d \in 0..MaxNesting : T \cap Nested[d] /= {}}
<1>1. D \in SUBSET Nat /\ D /= {}
  <2>1. MaxNesting \in D
    BY DEF JsonValues
  <2> QED
    BY <2>1
<1> HIDE DEF D
<1>2. PICK d \in D : \A e \in D : d <= e
  BY <1>1, Least
<1>3. PICK v \in T : v \in Nested[d] /\ d \in 0..MaxNesting
  BY <1>2 DEF D
<1>4. ASSUME NEW i \in DOMAIN Held(v), Held(v)[i] \in T PROVE FALSE
  <2>1. d > 0 /\ Held(v)[i] \in Nested[d - 1]
    BY <1>3, HeldBelow
  <2>2. d - 1 \in D
    BY <1>3, <1>4, <2>1 DEF D
  <2> QED
    BY <1>2, <1>3, <2>2
<1> QED
  BY <1>3, <1>4

-----------------------------------------------------------------------------
(* Folds and sums *)

\* What the steps have made of start after each of them.
After(steps, start, after, n) ==
    after = [i \in 0..n |-> IF i = 0 THEN start ELSE steps[i][after[i - 1]]]

Folded(steps, start, after) ==
    /\ Fold(steps, start) = after[Len(steps)]
    /\ after[0] = start
    /\ \A i \in 1..Len(steps) : after[i] = steps[i][after[i - 1]]

LEMMA FoldDefined ==
    ASSUME NEW steps, NEW start, Len(steps) \in Nat
    PROVE  \E after : Folded(steps, start, after)
<1> DEFINE n == Len(steps)
           S == {m \in Nat : \E f : After(steps, start, f, m)}
<1>1. 0 \in S
  <2> DEFINE e == [i \in 0..0 |-> start]
  <2>1. After(steps, start, e, 0)
    BY DEF After
  <2> HIDE DEF e
  <2> QED
    BY <2>1
<1>2. ASSUME NEW m \in 1..n, m - 1 \in S PROVE m \in S
  <2>1. PICK f : After(steps, start, f, m - 1)
    BY <1>2
  <2> DEFINE top == steps[m][f[m - 1]]
             g == [i \in 0..m |-> IF i = m THEN top ELSE f[i]]
  <2>2. \A i \in 0..m : g[i] = IF i = 0 THEN start ELSE steps[i][g[i - 1]]
    <3> SUFFICES ASSUME NEW i \in 0..m
                 PROVE  g[i] = IF i = 0 THEN start ELSE steps[i][g[i - 1]]
      OBVIOUS
    <3>1. CASE i = m
      <4>1. g[i] = top /\ g[i - 1] = f[m - 1] /\ i /= 0
        BY <3>1
      <4> QED
        BY <3>1, <4>1
    <3>2. CASE i /= m
      <4>1. i \in 0..(m - 1) /\ g[i] = f[i] /\ (i /= 0 => g[i - 1] = f[i - 1])
        BY <3>2
      <4>2. f[i] = IF i = 0 THEN start ELSE steps[i][f[i - 1]]
        BY <2>1, <4>1 DEF After
      <4> QED
        BY <4>1, <4>2
    <3> QED
      BY <3>1, <3>2
  <2>3. After(steps, start, g, m)
    BY <2>2 DEF After
  <2>4. m \in Nat
    OBVIOUS
  <2> HIDE DEF g
  <2>5. \E h : After(steps, start, h, m)
    BY Zenon, <2>3
  <2> QED
    BY <2>4, <2>5
<1> HIDE DEF S
<1>3. n \in S
  <2>1. n \in Nat /\ n \in 0..n
    OBVIOUS
  <2> HIDE DEF n
  <2>2. \A m \in 0..n : m \in S
    BY <1>1, <1>2, <2>1, UpTo
  <2> QED
    BY <2>1, <2>2
<1>4. \E f : After(steps, start, f, n)
  BY <1>3 DEF S
<1> DEFINE f == CHOOSE h : After(steps, start, h, n)
<1>5. After(steps, start, f, n) /\ Fold(steps, start) = f[n]
  <2>1. Fold(steps, start) = f[n]
    BY DEF Fold, After
  <2> QED
    BY <1>4, <2>1
<1> HIDE DEF f
<1>6. \A i \in 0..n : f[i] = IF i = 0 THEN start ELSE steps[i][f[i - 1]]
  BY Zenon, <1>5 DEF After
<1>7. 0 \in 0..n /\ \A i \in 1..n : i \in 0..n /\ i /= 0
  OBVIOUS
<1>8. Folded(steps, start, f)
  BY Zenon, <1>5, <1>6, <1>7 DEF Folded
<1> QED
  BY Zenon, <1>8

\* The sums of the first numbers of a sequence.
LEMMA PartialSums ==
    ASSUME NEW numbers, NEW n \in Nat, numbers \in [1..n -> Nat]
    PROVE  \E p \in [0..n -> Nat] :
             /\ p[0] = 0 /\ p[n] = Sum(numbers)
             /\ \A i \in 1..n : p[i] = p[i - 1] + numbers[i]
             /\ \A i \in 0..n : p[i] <= p[n]
<1> DEFINE steps == [i \in DOMAIN numbers |-> [sum \in Nat |-> sum + numbers[i]]]
<1>1. Len(steps) = n /\ \A i \in 1..n : \A sum \in Nat : steps[i][sum] = sum + numbers[i]
  OBVIOUS
<1>2. Sum(numbers) = Fold(steps, 0)
  BY DEF Sum
<1> HIDE DEF steps
<1>3. PICK p : /\ Fold(steps, 0) = p[n] /\ p[0] = 0
               /\ \A i \in 1..n : p[i] = steps[i][p[i - 1]]
  <2>1. Len(steps) \in Nat
    BY <1>1
  <2>2. PICK p : Folded(steps, 0, p)
    BY Zenon, <2>1, FoldDefined
  <2> QED
    BY <1>1, <2>2 DEF Folded
<1>4. \A i \in 0..n : p[i] \in Nat
  <2> DEFINE S == {i \in 0..n : p[i] \in Nat}
  <2>1. 0 \in S
    BY <1>3
  <2>2. ASSUME NEW i \in 1..n, i - 1 \in S PROVE i \in S
    <3>1. p[i - 1] \in Nat
      BY <2>2
    <3>2. p[i] = p[i - 1] + numbers[i]
      BY Zenon, <1>1, <1>3, <3>1
    <3>3. numbers[i] \in Nat
      OBVIOUS
    <3> QED
      BY <3>1, <3>2, <3>3
  <2> HIDE DEF S
  <2>3. \A i \in 0..n : i \in S
    BY <2>1, <2>2, UpTo
  <2> QED
    BY <2>3 DEF S
<1>5. ASSUME NEW i \in 1..n PROVE p[i] = p[i - 1] + numbers[i]
  <2>1. i - 1 \in 0..n
    OBVIOUS
  <2>2. p[i - 1] \in Nat
    BY Zenon, <1>4, <2>1
  <2> QED
    BY Zenon, <1>1, <1>3, <2>2
<1>7. \A i \in 0..n : p[i] <= p[n]
  <2> DEFINE S == {k \in 0..n : p[n - k] <= p[n]}
  <2>1. 0 \in S
    BY <1>4
  <2>2. ASSUME NEW k \in 1..n, k - 1 \in S PROVE k \in S
    <3>1. /\ n - (k - 1) \in 1..n /\ (n - (k - 1)) - 1 = n - k
          /\ n - k \in 0..n /\ n \in 0..n
      OBVIOUS
    <3>2. p[n - (k - 1)] = p[n - k] + numbers[n - (k - 1)]
      BY <1>5, <3>1
    <3>3. p[n - (k - 1)] <= p[n]
      BY <2>2
    <3>4. numbers[n - (k - 1)] \in Nat /\ p[n - k] \in Nat /\ p[n] \in Nat
      BY <1>4, <3>1
    <3> QED
      BY <3>1, <3>2, <3>3, <3>4
  <2> HIDE DEF S
  <2>3. \A k \in 0..n : k \in S
    BY <2>1, <2>2, UpTo
  <2>4. ASSUME NEW i \in 0..n PROVE p[i] <= p[n]
    <3>1. n - i \in 0..n /\ n - (n - i) = i
      OBVIOUS
    <3> QED
      BY <2>3, <3>1 DEF S
  <2> QED
    BY <2>4
<1> DEFINE q == [i \in 0..n |-> p[i]]
<1>8. q \in [0..n -> Nat]
  BY <1>4
<1>9. /\ \A i \in 0..n : q[i] = p[i]
      /\ 0 \in 0..n /\ n \in 0..n
      /\ \A i \in 1..n : i \in 0..n /\ i - 1 \in 0..n
  OBVIOUS
<1> HIDE DEF q
<1>10. /\ q[0] = 0 /\ q[n] = Sum(numbers)
       /\ \A i \in 1..n : q[i] = q[i - 1] + numbers[i]
       /\ \A i \in 0..n : q[i] <= q[n]
  BY Zenon, <1>2, <1>3, <1>5, <1>7, <1>9
<1> QED
  BY <1>8, <1>10

LEMMA SumIsNat ==
    ASSUME NEW numbers, NEW n \in Nat, numbers \in [1..n -> Nat]
    PROVE  Sum(numbers) \in Nat
  BY PartialSums

-----------------------------------------------------------------------------
(* The recursive definitions over values define what they say: there is a      *)
(* function for the values of each level, made from the one of the level below *)

TotalsOf(own, f, v) == own[v] + Sum([i \in DOMAIN Held(v) |-> f[Held(v)[i]]])

LEMMA TotalDefined ==
    ASSUME NEW own
    PROVE  \A v \in JsonValues : Total(own)[v] = TotalsOf(own, Total(own), v)
<1> DEFINE Is(f, d) == f = [v \in Nested[d] |-> TotalsOf(own, f, v)]
           S == {d \in 0..MaxNesting : \E f : Is(f, d)}
<1>1. ASSUME NEW d \in 0..MaxNesting, NEW f, d > 0 => Is(f, d - 1)
      PROVE  \E g : Is(g, d)
  <2> DEFINE g == [v \in Nested[d] |-> TotalsOf(own, f, v)]
  <2>1. ASSUME d > 0 PROVE \A w \in Nested[d - 1] : w \in Nested[d] /\ f[w] = g[w]
    <3>1. f = [v \in Nested[d - 1] |-> TotalsOf(own, f, v)] /\ Nested[d - 1] \subseteq Nested[d]
      BY <1>1, <2>1, Levels
    <3>2. \A w \in Nested[d - 1] : f[w] = TotalsOf(own, f, w)
      BY Zenon, <3>1
    <3> QED
      BY Zenon, <3>1, <3>2
  <2> HIDE DEF g
  <2>2. ASSUME NEW v \in Nested[d] PROVE TotalsOf(own, f, v) = TotalsOf(own, g, v)
    <3>1. \A i \in DOMAIN Held(v) : f[Held(v)[i]] = g[Held(v)[i]]
      BY <2>1, HeldBelow
    <3>2. [i \in DOMAIN Held(v) |-> f[Held(v)[i]]] = [i \in DOMAIN Held(v) |-> g[Held(v)[i]]]
      BY Zenon, <3>1
    <3> QED
      BY Zenon, <3>2 DEF TotalsOf
  <2>3. Is(g, d)
    BY Zenon, <2>2 DEF g
  <2> QED
    BY Zenon, <2>3
<1> HIDE DEF Is
<1>2. 0 \in S
  <2>1. \E g : Is(g, 0)
    BY <1>1
  <2> QED
    BY <2>1
<1>3. ASSUME NEW d \in 1..MaxNesting, d - 1 \in S PROVE d \in S
  BY <1>1, <1>3
<1> HIDE DEF S
<1>4. MaxNesting \in S
  BY <1>2, <1>3, UpTo
<1>5. \E f : Is(f, MaxNesting)
  BY <1>4 DEF S
<1>6. Total(own) = CHOOSE f : Is(f, MaxNesting)
  BY DEF Total, Is, TotalsOf, JsonValues
<1>7. Is(Total(own), MaxNesting)
  BY Zenon, <1>5, <1>6
<1> QED
  BY Zenon, <1>7 DEF Is, JsonValues

WholeOf(f, v) ==
    IF v.kind = "scalar"
    THEN Scalar(IF v.type = "date" THEN "text" ELSE v.type)
    ELSE [kind |-> v.kind, items |-> [i \in DOMAIN v.items |-> f[v.items[i]]]]

LEMMA AllOfDefined ==
    \A v \in JsonValues : AllOf[v] = WholeOf(AllOf, v)
<1> DEFINE Is(f, d) == f = [v \in Nested[d] |-> WholeOf(f, v)]
           S == {d \in 0..MaxNesting : \E f : Is(f, d)}
<1>1. ASSUME NEW d \in 0..MaxNesting, NEW f, d > 0 => Is(f, d - 1)
      PROVE  \E g : Is(g, d)
  <2> DEFINE g == [v \in Nested[d] |-> WholeOf(f, v)]
  <2>1. ASSUME d > 0 PROVE \A w \in Nested[d - 1] : w \in Nested[d] /\ f[w] = g[w]
    <3>1. f = [v \in Nested[d - 1] |-> WholeOf(f, v)] /\ Nested[d - 1] \subseteq Nested[d]
      BY <1>1, <2>1, Levels
    <3>2. \A w \in Nested[d - 1] : f[w] = WholeOf(f, w)
      BY Zenon, <3>1
    <3> QED
      BY Zenon, <3>1, <3>2
  <2> HIDE DEF g
  <2>2. ASSUME NEW v \in Nested[d] PROVE WholeOf(f, v) = WholeOf(g, v)
    <3>1. \A i \in DOMAIN Held(v) : f[Held(v)[i]] = g[Held(v)[i]]
      BY <2>1, HeldBelow
    <3>2. CASE v.kind = "scalar"
      BY Zenon, <3>2 DEF WholeOf
    <3>3. CASE v.kind /= "scalar"
      <4>1. \A i \in DOMAIN v.items : f[v.items[i]] = g[v.items[i]]
        BY <3>1, <3>3 DEF Held
      <4>2. [i \in DOMAIN v.items |-> f[v.items[i]]] = [i \in DOMAIN v.items |-> g[v.items[i]]]
        BY Zenon, <4>1
      <4> QED
        BY Zenon, <3>3, <4>2 DEF WholeOf
    <3> QED
      BY Zenon, <3>2, <3>3
  <2>3. Is(g, d)
    BY Zenon, <2>2 DEF g
  <2> QED
    BY Zenon, <2>3
<1> HIDE DEF Is
<1>2. 0 \in S
  <2>1. \E g : Is(g, 0)
    BY <1>1
  <2> QED
    BY <2>1
<1>3. ASSUME NEW d \in 1..MaxNesting, d - 1 \in S PROVE d \in S
  BY <1>1, <1>3
<1> HIDE DEF S
<1>4. MaxNesting \in S
  BY <1>2, <1>3, UpTo
<1>5. \E f : Is(f, MaxNesting)
  BY <1>4 DEF S
<1>6. AllOf = CHOOSE f : Is(f, MaxNesting)
  BY DEF AllOf, Is, WholeOf, JsonValues
<1>7. Is(AllOf, MaxNesting)
  BY Zenon, <1>5, <1>6
<1> QED
  BY Zenon, <1>7 DEF Is, JsonValues

\* What is counted before the values that v holds, and the walk over them.
Before(v, rows) == IF v.kind = "list" THEN Counted(rows, v) ELSE rows
Start(v, rows) == [rows |-> Before(v, rows), items |-> <<>>, error |-> "none"]
Step(convert) == [w \in Walks |-> Visit(w, convert)]
Steps(f, v) == [i \in DOMAIN Held(v) |-> Step(f[Held(v)[i]])]

WalkOf(f, v) == [rows \in Nat |->
    LET walk == Fold(Steps(f, v), Start(v, rows)) IN
    IF v.kind = "scalar" THEN [Start(v, rows) EXCEPT !.items = <<JsonScalar(v)>>]
    ELSE IF (v.kind = "list" /\ TooMany(Before(v, rows))) \/ walk.error /= "none" THEN Raised
    ELSE [walk EXCEPT !.items = <<[kind |-> v.kind, items |-> walk.items]>>]]

LEMMA WalkDefined ==
    \A v \in JsonValues : ToJsonSafe[v] = WalkOf(ToJsonSafe, v)
<1> DEFINE Is(f, d) == f = [v \in Nested[d] |-> WalkOf(f, v)]
           S == {d \in 0..MaxNesting : \E f : Is(f, d)}
<1>1. ASSUME NEW d \in 0..MaxNesting, NEW f, d > 0 => Is(f, d - 1)
      PROVE  \E g : Is(g, d)
  <2> DEFINE g == [v \in Nested[d] |-> WalkOf(f, v)]
  <2>1. ASSUME d > 0 PROVE \A w \in Nested[d - 1] : w \in Nested[d] /\ f[w] = g[w]
    <3>1. f = [v \in Nested[d - 1] |-> WalkOf(f, v)] /\ Nested[d - 1] \subseteq Nested[d]
      BY <1>1, <2>1, Levels
    <3>2. \A w \in Nested[d - 1] : f[w] = WalkOf(f, w)
      BY Zenon, <3>1
    <3> QED
      BY Zenon, <3>1, <3>2
  <2> HIDE DEF g
  <2>2. ASSUME NEW v \in Nested[d] PROVE WalkOf(f, v) = WalkOf(g, v)
    <3>1. \A i \in DOMAIN Held(v) : f[Held(v)[i]] = g[Held(v)[i]]
      BY <2>1, HeldBelow
    <3>2. Steps(f, v) = Steps(g, v)
      BY Zenon, <3>1 DEF Steps
    <3> QED
      BY Zenon, <3>2 DEF WalkOf
  <2>3. Is(g, d)
    BY Zenon, <2>2 DEF g
  <2> QED
    BY Zenon, <2>3
<1> HIDE DEF Is
<1>2. 0 \in S
  <2>1. \E g : Is(g, 0)
    BY <1>1
  <2> QED
    BY <2>1
<1>3. ASSUME NEW d \in 1..MaxNesting, d - 1 \in S PROVE d \in S
  BY <1>1, <1>3
<1> HIDE DEF S
<1>4. MaxNesting \in S
  BY <1>2, <1>3, UpTo
<1>5. \E f : Is(f, MaxNesting)
  BY <1>4 DEF S
<1>6. ToJsonSafe = CHOOSE f : Is(f, MaxNesting)
  BY DEF ToJsonSafe, Is, WalkOf, Before, Start, Steps, Step, JsonValues
<1>7. Is(ToJsonSafe, MaxNesting)
  BY Zenon, <1>5, <1>6
<1> QED
  BY Zenon, <1>7 DEF Is, JsonValues

-----------------------------------------------------------------------------
(* All of a value *)

\* It is nested as deep as the value, and holds all of what the value holds.
LEMMA AllOfLevel ==
    ASSUME NEW d \in 0..MaxNesting
    PROVE  \A v \in Nested[d] : AllOf[v] \in Nested[d]
<1> DEFINE S == {e \in 0..MaxNesting : \A v \in Nested[e] : AllOf[v] \in Nested[e]}
<1>1. ASSUME NEW e \in 0..MaxNesting, NEW v \in Nested[e], v \in Scalars
      PROVE  AllOf[v] \in Scalars
  <2>1. AllOf[v] = Scalar(IF v.type = "date" THEN "text" ELSE v.type)
    <3>1. v \in JsonValues /\ v.kind = "scalar"
      BY <1>1, LevelsNested, Kinds
    <3> QED
      BY <3>1, AllOfDefined DEF WholeOf
  <2>2. v.type \in {"text", "date", "nan"}
    BY <1>1, Kinds
  <2> QED
    BY <2>1, <2>2 DEF Scalar, Scalars
<1>2. 0 \in S
  BY <1>1, Levels
<1>3. ASSUME NEW e \in 1..MaxNesting, e - 1 \in S PROVE e \in S
  <2> SUFFICES ASSUME NEW v \in Nested[e] PROVE AllOf[v] \in Nested[e]
    OBVIOUS
  <2>1. CASE v \in Scalars
    BY <1>1, <2>1, Below
  <2>2. CASE v \in Holding(Nested[e - 1])
    <3>1. v \in JsonValues /\ v.kind \in {"dict", "list"} /\ v.kind /= "scalar"
          /\ v.items \in Seq(Nested[e - 1])
      BY <2>2, LevelsNested, Kinds
    <3>2. AllOf[v] = [kind |-> v.kind, items |-> [i \in DOMAIN v.items |-> AllOf[v.items[i]]]]
      BY <3>1, AllOfDefined DEF WholeOf
    <3> DEFINE items == [i \in DOMAIN v.items |-> AllOf[v.items[i]]]
    <3>3. items \in Seq(Nested[e - 1])
      <4>1. \A i \in DOMAIN v.items : AllOf[v.items[i]] \in Nested[e - 1]
        BY <1>3, <3>1
      <4>2. DOMAIN v.items = 1..Len(v.items) /\ Len(v.items) \in Nat
        BY <3>1
      <4> QED
        BY <4>1, <4>2
    <3> HIDE DEF items
    <3>4. [kind |-> v.kind, items |-> items] \in Holding(Nested[e - 1])
      BY <3>1, <3>3 DEF Holding
    <3> QED
      BY <3>2, <3>4, Levels DEF items
  <2> QED
    BY <2>1, <2>2, Below
<1> HIDE DEF S
<1>4. d \in S
  BY <1>2, <1>3, UpTo
<1> QED
  BY <1>4 DEF S

LEMMA AllOfValue ==
    ASSUME NEW v \in JsonValues
    PROVE  /\ AllOf[v] \in JsonValues
           /\ AllOf[v].kind = v.kind
           /\ Held(AllOf[v]) = [i \in DOMAIN Held(v) |-> AllOf[Held(v)[i]]]
           /\ AllOf[v] = Scalar("nan") <=> v = Scalar("nan")
<1>1. AllOf[v] \in JsonValues
  BY AllOfLevel DEF JsonValues
<1>2. AllOf[v] = WholeOf(AllOf, v)
  BY AllOfDefined
<1>3. CASE v \in Scalars
  <2>1. v.kind = "scalar" /\ v = Scalar(v.type) /\ v.type \in {"text", "date", "nan"}
        /\ Held(v) = <<>>
    BY <1>3, Kinds
  <2>2. AllOf[v] = Scalar(IF v.type = "date" THEN "text" ELSE v.type)
    BY <1>2, <2>1 DEF WholeOf
  <2>3. AllOf[v].kind = "scalar" /\ Held(AllOf[v]) = <<>>
    BY <2>2 DEF Scalar, Held
  <2>4. [i \in DOMAIN Held(v) |-> AllOf[Held(v)[i]]] = <<>>
    BY <2>1
  <2>5. Scalar("text") /= Scalar("nan") /\ Scalar("date") /= Scalar("nan")
    BY DEF Scalar
  <2> QED
    BY <1>1, <2>1, <2>2, <2>3, <2>4, <2>5
<1>4. CASE v \in Holding(JsonValues)
  <2>1. v.kind /= "scalar" /\ Held(v) = v.items
    BY <1>4, Kinds
  <2>2. AllOf[v] = [kind |-> v.kind, items |-> [i \in DOMAIN Held(v) |-> AllOf[Held(v)[i]]]]
    BY <1>2, <2>1 DEF WholeOf
  <2>3. AllOf[v].kind = v.kind
        /\ Held(AllOf[v]) = [i \in DOMAIN Held(v) |-> AllOf[Held(v)[i]]]
    BY <2>1, <2>2 DEF Held
  <2>4. Scalar("nan").kind = "scalar"
    BY DEF Scalar
  <2> QED
    BY <1>1, <2>1, <2>3, <2>4
<1> QED
  BY <1>3, <1>4, HeldValues

\* A total counts in a value what it counts in all of it, if the value by
\* itself and what becomes of it count the same.
LEMMA TotalOfAll ==
    ASSUME NEW own, \A v \in JsonValues : own[AllOf[v]] = own[v]
    PROVE  \A v \in JsonValues : Total(own)[AllOf[v]] = Total(own)[v]
<1> DEFINE T == {v \in JsonValues : Total(own)[AllOf[v]] /= Total(own)[v]}
<1>1. ASSUME T /= {} PROVE FALSE
  <2>1. PICK v \in T : \A i \in DOMAIN Held(v) : Held(v)[i] \notin T
    BY <1>1, Innermost
  <2>2. /\ v \in JsonValues /\ AllOf[v] \in JsonValues
        /\ \A i \in DOMAIN Held(v) : Held(v)[i] \in JsonValues
    BY <2>1, HeldValues, AllOfValue
  <2>3. \A i \in DOMAIN Held(v) : Total(own)[AllOf[Held(v)[i]]] = Total(own)[Held(v)[i]]
    BY <2>1, <2>2
  <2>4. Held(AllOf[v]) = [i \in DOMAIN Held(v) |-> AllOf[Held(v)[i]]]
    BY <2>2, AllOfValue
  <2>5. /\ DOMAIN Held(AllOf[v]) = DOMAIN Held(v)
        /\ \A i \in DOMAIN Held(v) : Total(own)[Held(AllOf[v])[i]] = Total(own)[Held(v)[i]]
    BY <2>3, <2>4
  <2>6. [i \in DOMAIN Held(AllOf[v]) |-> Total(own)[Held(AllOf[v])[i]]]
          = [i \in DOMAIN Held(v) |-> Total(own)[Held(v)[i]]]
    BY Zenon, <2>5
  <2>7. TotalsOf(own, Total(own), AllOf[v]) = TotalsOf(own, Total(own), v)
    BY Zenon, <2>2, <2>6 DEF TotalsOf
  <2>8. Total(own)[AllOf[v]] = Total(own)[v]
    BY Zenon, <2>2, <2>7, TotalDefined
  <2> QED
    BY <2>1, <2>8
<1> QED
  BY <1>1

LEMMA TotalIsNat ==
    ASSUME NEW own, \A v \in JsonValues : own[v] \in Nat
    PROVE  \A v \in JsonValues : Total(own)[v] \in Nat
<1> DEFINE T == {v \in JsonValues : Total(own)[v] \notin Nat}
<1>1. ASSUME T /= {} PROVE FALSE
  <2>1. PICK v \in T : \A i \in DOMAIN Held(v) : Held(v)[i] \notin T
    BY <1>1, Innermost
  <2>2. /\ v \in JsonValues /\ DOMAIN Held(v) = 1..Len(Held(v)) /\ Len(Held(v)) \in Nat
        /\ \A i \in DOMAIN Held(v) : Held(v)[i] \in JsonValues
    BY <2>1, HeldValues
  <2> DEFINE numbers == [i \in DOMAIN Held(v) |-> Total(own)[Held(v)[i]]]
  <2>3. numbers \in [1..Len(Held(v)) -> Nat]
    BY <2>1, <2>2
  <2> HIDE DEF numbers
  <2>4. Sum(numbers) \in Nat
    BY <2>2, <2>3, SumIsNat
  <2>5. Total(own)[v] = own[v] + Sum(numbers)
    BY <2>2, TotalDefined DEF TotalsOf, numbers
  <2> QED
    BY <2>1, <2>2, <2>4, <2>5
<1> QED
  BY <1>1

-----------------------------------------------------------------------------
(* The walk *)

Finished(rows, items) == [rows |-> rows, items |-> items, error |-> "none"]

\* What the walk over v does, when some rows have been counted before it.
Walked(v) ==
    \A rows \in 0..MaxTableRows :
      /\ rows + RowsIn(v) <= MaxTableRows =>
           ToJsonSafe[v][rows] = Finished(rows + RowsIn(v), <<AllOf[v]>>)
      /\ rows + RowsIn(v) > MaxTableRows => ToJsonSafe[v][rows] = Raised

LEMMA RowsAreNat ==
    \A v \in JsonValues : OwnRows[v] \in Nat /\ RowsIn(v) \in Nat
<1>1. ASSUME NEW v \in JsonValues PROVE OwnRows[v] \in Nat
  <2>1. CASE v \in Scalars
    BY <2>1, Kinds DEF OwnRows
  <2>2. CASE v \in Holding(JsonValues)
    <3>1. Len(v.items) \in Nat
      BY <2>2, Kinds
    <3> QED
      BY <3>1 DEF OwnRows
  <2> QED
    BY <2>1, <2>2, HeldValues
<1> QED
  BY <1>1, TotalIsNat DEF RowsIn

\* The rows counted before the values that v holds.
LEMMA BeforeRows ==
    ASSUME NEW v \in JsonValues, NEW rows \in Nat
    PROVE  Before(v, rows) = rows + OwnRows[v]
  BY DEF Before, Counted, OwnRows

LEMMA WalkScalar ==
    ASSUME NEW v \in Scalars, v \in JsonValues
    PROVE  Walked(v)
<1>1. v.kind = "scalar" /\ v = Scalar(v.type) /\ Held(v) = <<>>
      /\ v.type \in {"text", "date", "nan"}
  BY Kinds
<1>2. RowsIn(v) = 0
  <2>1. OwnRows[v] = 0
    BY <1>1 DEF OwnRows
  <2> DEFINE numbers == [i \in DOMAIN Held(v) |-> Total(OwnRows)[Held(v)[i]]]
  <2>2. numbers \in [1..0 -> Nat]
    BY <1>1
  <2>3. Total(OwnRows)[v] = OwnRows[v] + Sum(numbers)
    BY TotalDefined DEF TotalsOf
  <2> HIDE DEF numbers
  <2>4. Sum(numbers) = 0
    BY <2>2, PartialSums
  <2> QED
    BY <2>1, <2>3, <2>4 DEF RowsIn
<1>3. AllOf[v] = JsonScalar(v)
  <2>1. AllOf[v] = Scalar(IF v.type = "date" THEN "text" ELSE v.type)
    BY <1>1, AllOfDefined DEF WholeOf
  <2> QED
    BY <1>1, <2>1 DEF JsonScalar
<1>4. ASSUME NEW rows \in 0..MaxTableRows
      PROVE  ToJsonSafe[v][rows] = Finished(rows, <<AllOf[v]>>)
  <2>1. ToJsonSafe[v] = WalkOf(ToJsonSafe, v) /\ rows \in Nat
    BY WalkDefined
  <2>2. ToJsonSafe[v][rows] = [Start(v, rows) EXCEPT !.items = <<JsonScalar(v)>>]
    BY <1>1, <2>1 DEF WalkOf
  <2>3. Start(v, rows) = Finished(rows, <<>>)
    BY <1>1 DEF Start, Before, Finished
  <2> QED
    BY <1>3, <2>2, <2>3 DEF Finished
<1>5. \A rows \in 0..MaxTableRows : rows + 0 = rows /\ rows <= MaxTableRows
  BY SMT
<1>6. \A rows \in 0..MaxTableRows : ~(rows > MaxTableRows)
  BY SMT
<1> QED
  BY <1>2, <1>4, <1>5, <1>6 DEF Walked

\* The next item of a walk that has raised, of one that goes on, and of one
\* that raises there.
LEMMA StepRaised ==
    ASSUME NEW convert, NEW walk \in Walks, walk.error /= "none"
    PROVE  Step(convert)[walk] = walk
  BY DEF Step, Visit

LEMMA StepGoesOn ==
    ASSUME NEW convert, NEW rows \in Nat, NEW items \in Seq(JsonValues)
    PROVE  Step(convert)[Finished(rows, items)]
             = [rows |-> convert[rows].rows, items |-> items \o convert[rows].items,
                error |-> convert[rows].error]
<1> DEFINE walk == Finished(rows, items)
<1>1. walk \in Walks /\ walk.rows = rows /\ walk.items = items /\ walk.error = "none"
  BY DEF Finished, Walks
<1> HIDE DEF walk
<1>2. Step(convert)[walk] = Visit(walk, convert)
  BY <1>1 DEF Step
<1>3. Visit(walk, convert)
        = [rows |-> convert[rows].rows, items |-> items \o convert[rows].items,
           error |-> convert[rows].error]
  BY Zenon, <1>1 DEF Visit
<1> QED
  BY <1>2, <1>3 DEF walk

LEMMA StepOn ==
    ASSUME NEW convert, NEW rows \in Nat, NEW items \in Seq(JsonValues),
           NEW n, NEW v, convert[rows] = Finished(n, <<v>>)
    PROVE  Step(convert)[Finished(rows, items)] = Finished(n, Append(items, v))
<1>1. convert[rows].rows = n /\ convert[rows].items = <<v>> /\ convert[rows].error = "none"
  BY DEF Finished
<1>2. items \o <<v>> = Append(items, v)
  OBVIOUS
<1>3. Step(convert)[Finished(rows, items)]
        = [rows |-> n, items |-> Append(items, v), error |-> "none"]
  <2>1. Step(convert)[Finished(rows, items)]
          = [rows |-> convert[rows].rows, items |-> items \o convert[rows].items,
             error |-> convert[rows].error]
    BY Zenon, StepGoesOn
  <2> QED
    BY <1>1, <1>2, <2>1
<1> QED
  BY Zenon, <1>3 DEF Finished

LEMMA StepRaises ==
    ASSUME NEW convert, NEW rows \in Nat, NEW items \in Seq(JsonValues),
           convert[rows] = Raised
    PROVE  /\ Step(convert)[Finished(rows, items)] \in Walks
           /\ Step(convert)[Finished(rows, items)].error /= "none"
<1>1. /\ convert[rows].rows = MaxTableRows /\ convert[rows].items = <<>>
      /\ convert[rows].error = "too_many_rows"
  BY DEF Raised
<1>2. items \o <<>> = items
  BY ConcatEmptySeq
<1>3. Step(convert)[Finished(rows, items)]
        = [rows |-> MaxTableRows, items |-> items, error |-> "too_many_rows"]
  <2>1. Step(convert)[Finished(rows, items)]
          = [rows |-> convert[rows].rows, items |-> items \o convert[rows].items,
             error |-> convert[rows].error]
    BY Zenon, StepGoesOn
  <2> QED
    BY <1>1, <1>2, <2>1
<1>4. MaxTableRows \in Nat /\ "too_many_rows" /= "none"
  OBVIOUS
<1> QED
  BY <1>3, <1>4 DEF Walks

\* The rows counted after an item, from those counted before it.
LEMMA RowsAfter ==
    ASSUME NEW c \in Nat, NEW x \in Nat, NEW y \in Nat, NEW rows \in Nat, y = x + rows
    PROVE  /\ c + x <= MaxTableRows => c + x \in 0..MaxTableRows
           /\ c + x \in Nat /\ (c + x) + rows = c + y
           /\ c + x > MaxTableRows => c + y > MaxTableRows
  OBVIOUS

\* The walk over what a dictionary or a list holds.  Up to an item, p counts
\* the rows of the items before it.
LEMMA WalkHolding ==
    ASSUME NEW v \in JsonValues, v \in Holding(JsonValues),
           \A i \in DOMAIN Held(v) : Walked(Held(v)[i])
    PROVE  Walked(v)
<1> DEFINE n == Len(Held(v))
           numbers == [i \in DOMAIN Held(v) |-> Total(OwnRows)[Held(v)[i]]]
           First(i) == [j \in 1..i |-> AllOf[Held(v)[j]]]
<1>1. /\ v.kind \in {"dict", "list"} /\ v.kind /= "scalar"
      /\ n \in Nat /\ DOMAIN Held(v) = 1..n
      /\ \A i \in 1..n : Held(v)[i] \in JsonValues
  BY Kinds, HeldValues
<1>2. numbers \in [1..n -> Nat] /\ \A i \in 1..n : numbers[i] = RowsIn(Held(v)[i])
  BY <1>1, RowsAreNat DEF RowsIn
<1>3. PICK p \in [0..n -> Nat] :
        /\ p[0] = 0 /\ p[n] = Sum(numbers)
        /\ \A i \in 1..n : p[i] = p[i - 1] + numbers[i]
        /\ \A i \in 0..n : p[i] <= p[n]
  BY <1>1, <1>2, PartialSums
<1>4. RowsIn(v) = OwnRows[v] + p[n]
  BY <1>3, TotalDefined DEF RowsIn, TotalsOf
<1> HIDE DEF numbers, n
<1>5. \A i \in 0..n : First(i) \in Seq(JsonValues) /\ Len(First(i)) = i
  <2> SUFFICES ASSUME NEW i \in 0..n
               PROVE  First(i) \in Seq(JsonValues) /\ Len(First(i)) = i
    OBVIOUS
  <2>1. \A j \in 1..i : j \in 1..n
    BY <1>1
  <2>2. \A j \in 1..i : AllOf[Held(v)[j]] \in JsonValues
    BY Zenon, <1>1, <2>1, AllOfValue
  <2>3. i \in Nat
    BY <1>1
  <2> QED
    BY <2>2, <2>3
<1>6. \A i \in 1..n : First(i) = Append(First(i - 1), AllOf[Held(v)[i]])
  <2> SUFFICES ASSUME NEW i \in 1..n
               PROVE  First(i) = Append(First(i - 1), AllOf[Held(v)[i]])
    OBVIOUS
  <2> DEFINE before == First(i - 1)
             all == AllOf[Held(v)[i]]
  <2>1. i - 1 \in 0..n /\ i \in 0..n
    BY <1>1
  <2>2. before \in Seq(JsonValues) /\ Len(before) = i - 1 /\ all \in JsonValues
    BY <1>1, <1>5, <2>1, AllOfValue
  <2>3. \A j \in 1..(i - 1) : before[j] = AllOf[Held(v)[j]]
    OBVIOUS
  <2>4. First(i) \in Seq(JsonValues) /\ Len(First(i)) = i
    BY <1>5, <2>1
  <2>5. \A j \in 1..i : First(i)[j] = AllOf[Held(v)[j]]
    OBVIOUS
  <2> DEFINE whole == First(i)
  <2> HIDE DEF before, whole
  <2>6. Append(before, all) \in Seq(JsonValues) /\ Len(Append(before, all)) = i
    BY <2>2, AppendProperties
  <2>7. \A j \in 1..i : Append(before, all)[j] = AllOf[Held(v)[j]]
    BY <2>2, <2>3, AppendProperties
  <2>8. whole \in Seq(JsonValues) /\ Len(whole) = i /\ \A j \in 1..i : whole[j] = AllOf[Held(v)[j]]
    BY <2>4, <2>5 DEF whole
  <2>9. whole = Append(before, all)
    BY <2>6, <2>7, <2>8, SeqEqual
  <2> QED
    BY <2>9 DEF whole, before
<1> HIDE DEF First
<1> SUFFICES ASSUME NEW rows \in 0..MaxTableRows
             PROVE  /\ rows + RowsIn(v) <= MaxTableRows =>
                         ToJsonSafe[v][rows] = Finished(rows + RowsIn(v), <<AllOf[v]>>)
                    /\ rows + RowsIn(v) > MaxTableRows => ToJsonSafe[v][rows] = Raised
  BY Zenon DEF Walked
<1> DEFINE c == Before(v, rows)
           walk == Fold(Steps(ToJsonSafe, v), Start(v, rows))
<1>7. /\ c = rows + OwnRows[v] /\ c \in Nat /\ p[n] \in Nat /\ rows \in Nat
      /\ rows + RowsIn(v) = c + p[n]
      /\ v.kind /= "list" => c <= MaxTableRows
  <2>1. OwnRows[v] \in Nat /\ (v.kind /= "list" => OwnRows[v] = 0)
    BY RowsAreNat DEF OwnRows
  <2>2. c = rows + OwnRows[v] /\ p[n] \in Nat
    BY <1>1, BeforeRows
  <2> HIDE DEF c
  <2> QED
    BY <1>4, <2>1, <2>2
<1>8. ToJsonSafe[v][rows]
        = IF (v.kind = "list" /\ TooMany(c)) \/ walk.error /= "none" THEN Raised
          ELSE [walk EXCEPT !.items = <<[kind |-> v.kind, items |-> walk.items]>>]
  <2>1. ToJsonSafe[v] = WalkOf(ToJsonSafe, v)
    BY WalkDefined
  <2> QED
    BY <1>1, <1>7, <2>1 DEF WalkOf
<1>9. Start(v, rows) = Finished(c, <<>>)
  BY DEF Start, Finished
<1> HIDE DEF c, walk
<1>10. CASE v.kind = "list" /\ TooMany(c)
  <2>1. c > MaxTableRows /\ ToJsonSafe[v][rows] = Raised
    BY <1>8, <1>10 DEF TooMany
  <2> QED
    BY <1>7, <2>1
<1>11. CASE ~(v.kind = "list" /\ TooMany(c))
  <2>1. c \in 0..MaxTableRows
    BY <1>7, <1>11 DEF TooMany
  <2> DEFINE steps == Steps(ToJsonSafe, v)
  <2>2. Len(steps) = n /\ \A i \in 1..n : steps[i] = Step(ToJsonSafe[Held(v)[i]])
    BY <1>1 DEF Steps
  <2> HIDE DEF steps
  <2>3. PICK a : /\ walk = a[n] /\ a[0] = Finished(c, <<>>)
                 /\ \A i \in 1..n : a[i] = Step(ToJsonSafe[Held(v)[i]])[a[i - 1]]
    <3>1. Len(steps) \in Nat
      BY <1>1, <2>2
    <3>2. PICK a : Folded(steps, Start(v, rows), a)
      BY Zenon, <3>1, FoldDefined
    <3>3. walk = Fold(steps, Start(v, rows))
      BY Zenon DEF walk, steps
    <3> QED
      BY <1>9, <2>2, <3>2, <3>3 DEF Folded
  <2> DEFINE Good(i) == c + p[i] <= MaxTableRows /\ a[i] = Finished(c + p[i], First(i))
             Over(i) == c + p[i] > MaxTableRows /\ a[i] \in Walks /\ a[i].error /= "none"
             S == {i \in 0..n : Good(i) \/ Over(i)}
  <2>4. 0 \in S
    <3>1. First(0) = <<>>
      BY DEF First
    <3>2. Good(0)
      BY <1>3, <2>1, <2>3, <3>1
    <3> HIDE DEF Good, Over
    <3> QED
      BY <1>1, <3>2
  <2>5. ASSUME NEW i \in 1..n, i - 1 \in S PROVE i \in S
    <3> DEFINE h == Held(v)[i]
    <3>1. h \in JsonValues /\ Walked(h) /\ i - 1 \in 0..n /\ i \in 0..n
      BY <1>1
    <3>2. /\ p[i] = p[i - 1] + RowsIn(h) /\ p[i] \in Nat /\ p[i - 1] \in Nat
          /\ RowsIn(h) \in Nat
      BY <1>2, <1>3, <3>1, RowsAreNat
    <3>3. a[i] = Step(ToJsonSafe[h])[a[i - 1]]
      BY <2>3
    <3>4. First(i - 1) \in Seq(JsonValues) /\ First(i) = Append(First(i - 1), AllOf[h])
      BY Zenon, <1>5, <1>6, <3>1
    <3> HIDE DEF h
    <3>5. /\ c + p[i - 1] <= MaxTableRows => c + p[i - 1] \in 0..MaxTableRows
          /\ c + p[i - 1] \in Nat /\ (c + p[i - 1]) + RowsIn(h) = c + p[i]
          /\ c + p[i - 1] > MaxTableRows => c + p[i] > MaxTableRows
      <4>1. c \in Nat
        BY <1>7
      <4> QED
        BY <3>2, <4>1, RowsAfter
    <3>6. CASE Over(i - 1)
      <4>1. a[i] = a[i - 1]
        BY <3>3, <3>6, StepRaised
      <4>2. c + p[i] > MaxTableRows
        BY Zenon, <3>2, <3>6, <3>5
      <4>3. Over(i)
        BY <3>6, <4>1, <4>2
      <4> HIDE DEF Good, Over
      <4> QED
        BY <3>1, <4>3
    <3>7. CASE Good(i - 1)
      <4> DEFINE r == c + p[i - 1]
      <4>1. r \in 0..MaxTableRows /\ r \in Nat /\ r + RowsIn(h) = c + p[i]
            /\ a[i - 1] = Finished(r, First(i - 1))
        BY Zenon, <3>2, <3>7, <3>5
      <4> HIDE DEF r
      <4>2. CASE c + p[i] <= MaxTableRows
        <5>1. ToJsonSafe[h][r] = Finished(c + p[i], <<AllOf[h]>>)
          BY <3>1, <4>1, <4>2 DEF Walked
        <5>2. a[i] = Finished(c + p[i], First(i))
          BY <3>3, <3>4, <4>1, <5>1, StepOn
        <5>3. Good(i)
          BY <4>2, <5>2
        <5> HIDE DEF Good, Over
        <5> QED
          BY <3>1, <5>3
      <4>3. CASE c + p[i] > MaxTableRows
        <5>1. ToJsonSafe[h][r] = Raised
          BY <3>1, <4>1, <4>3 DEF Walked
        <5>2. a[i] \in Walks /\ a[i].error /= "none"
          BY <3>3, <3>4, <4>1, <5>1, StepRaises
        <5>3. Over(i)
          BY <4>3, <5>2
        <5> HIDE DEF Good, Over
        <5> QED
          BY <3>1, <5>3
      <4>4. c + p[i] <= MaxTableRows \/ c + p[i] > MaxTableRows
        BY <1>7, <3>2
      <4> QED
        BY <4>2, <4>3, <4>4
    <3> QED
      BY <2>5, <3>6, <3>7
  <2> HIDE DEF S
  <2>6. n \in S
    BY <1>1, <2>4, <2>5, UpTo
  <2>7. Good(n) \/ Over(n)
    BY <2>6 DEF S
  <2>8. CASE Good(n)
    <3>1. walk = Finished(c + p[n], First(n)) /\ c + p[n] <= MaxTableRows
      BY <2>3, <2>8
    <3>2. walk.error = "none" /\ walk.items = First(n)
      BY <3>1 DEF Finished
    <3>3. AllOf[v] = [kind |-> v.kind, items |-> First(n)]
      <4>1. AllOf[v] = [kind |-> v.kind, items |-> [i \in DOMAIN v.items |-> AllOf[v.items[i]]]]
        BY <1>1, AllOfDefined DEF WholeOf
      <4>2. v.items = Held(v)
        BY Kinds
      <4> QED
        BY <1>1, <4>1, <4>2 DEF First
    <3>4. ToJsonSafe[v][rows] = [walk EXCEPT !.items = <<AllOf[v]>>]
      BY <1>8, <1>11, <3>2, <3>3
    <3>5. ToJsonSafe[v][rows] = Finished(c + p[n], <<AllOf[v]>>)
      BY <3>1, <3>4 DEF Finished
    <3> QED
      BY <1>7, <3>1, <3>5
  <2>9. CASE Over(n)
    <3>1. ToJsonSafe[v][rows] = Raised /\ c + p[n] > MaxTableRows
      BY <1>8, <2>3, <2>9
    <3> QED
      BY <1>7, <3>1
  <2> QED
    BY <2>7, <2>8, <2>9
<1> QED
  BY <1>10, <1>11

\* The walk converts all of a value whose rows are within what is left of the
\* limit, and raises on any other.
LEMMA WalkExact == \A v \in JsonValues : Walked(v)
<1> DEFINE T == {v \in JsonValues : ~Walked(v)}
<1>1. ASSUME T /= {} PROVE FALSE
  <2>1. PICK v \in T : \A i \in DOMAIN Held(v) : Held(v)[i] \notin T
    BY <1>1, Innermost
  <2>2. v \in JsonValues /\ \A i \in DOMAIN Held(v) : Walked(Held(v)[i])
    BY <2>1, HeldValues
  <2>3. Walked(v)
    BY <2>2, HeldValues, WalkScalar, WalkHolding
  <2> QED
    BY <2>1, <2>3
<1> QED
  BY <1>1

-----------------------------------------------------------------------------
(* The limits *)

\* The JSON text and the NaNs of a value are those of all of it.
LEMMA BytesAndNaNsKept ==
    ASSUME NEW v \in JsonValues
    PROVE  /\ SerializedBytes(AllOf[v]) = SerializedBytes(v)
           /\ Refused(AllOf[v]) <=> Refused(v)
<1>1. ASSUME NEW w \in JsonValues PROVE OwnBytes[AllOf[w]] = OwnBytes[w]
  <2>1. AllOf[w] \in JsonValues /\ AllOf[w].kind = w.kind
    BY AllOfValue
  <2>2. Len(Held(AllOf[w])) = Len(Held(w))
    <3>1. Held(AllOf[w]) = [i \in DOMAIN Held(w) |-> AllOf[Held(w)[i]]]
      BY AllOfValue
    <3> QED
      BY <3>1, HeldValues
  <2> QED
    BY Zenon, <2>1, <2>2 DEF OwnBytes
<1>2. ASSUME NEW w \in JsonValues PROVE OwnNaNs[AllOf[w]] = OwnNaNs[w]
  BY Zenon, AllOfValue DEF OwnNaNs
<1>3. Total(OwnBytes)[AllOf[v]] = Total(OwnBytes)[v]
  BY <1>1, TotalOfAll
<1>4. Total(OwnNaNs)[AllOf[v]] = Total(OwnNaNs)[v]
  BY <1>2, TotalOfAll
<1> QED
  BY Zenon, <1>3, <1>4 DEF SerializedBytes, Refused

LEMMA BytesAreNat == \A v \in JsonValues : SerializedBytes(v) \in Nat
<1>1. ASSUME NEW v \in JsonValues PROVE OwnBytes[v] \in Nat
  <2> DEFINE n == Len(Held(v))
  <2>1. n \in Nat
    BY HeldValues
  <2>2. n * KeyBytes \in Nat
    BY <2>1
  <2> HIDE DEF n
  <2>3. CASE v.kind = "scalar"
    BY <2>3 DEF OwnBytes
  <2>4. CASE v.kind /= "scalar"
    <3>1. OwnBytes[v] = 2 + (IF n > 0 THEN n - 1 ELSE 0)
                          + (IF v.kind = "dict" THEN n * KeyBytes ELSE 0)
      BY <2>4 DEF OwnBytes, n
    <3> QED
      BY <2>1, <2>2, <3>1
  <2> QED
    BY <2>3, <2>4
<1> QED
  BY <1>1, TotalIsNat DEF SerializedBytes

\* What apply() does with a value, by the definitions of what it promises.
LEMMA ApplyExact ==
    ASSUME NEW v \in JsonValues
    PROVE  /\ Apply(v).outcome \in {"too_many_rows", "not_json", "too_long", "answered"}
           /\ Apply(v).outcome = "too_many_rows" <=> RowsIn(v) > MaxTableRows
           /\ Apply(v).outcome = "answered" <=>
                /\ RowsIn(v) <= MaxTableRows
                /\ ~Refused(v)
                /\ SerializedBytes(v) <= MaxSerializedBytes
           /\ Apply(v).outcome = "answered" => Apply(v).value = <<AllOf[v]>>
           /\ Apply(v).outcome /= "answered" => Apply(v).value = <<>>
<1> DEFINE walk == ToJsonSafe[v][0]
           outcome1 == IF walk.error /= "none" THEN walk.error
                       ELSE IF Refused(walk.items[1]) THEN "not_json"
                       ELSE IF SerializedBytes(walk.items[1]) > MaxSerializedBytes
                       THEN "too_long" ELSE "answered"
<1>1. /\ Apply(v).outcome = outcome1
      /\ Apply(v).value = IF outcome1 = "answered" THEN walk.items ELSE <<>>
  BY DEF Apply
<1>2. RowsIn(v) \in Nat /\ SerializedBytes(v) \in Nat
  BY RowsAreNat, BytesAreNat
<1>3. CASE RowsIn(v) > MaxTableRows
  <2>1. 0 \in 0..MaxTableRows /\ 0 + RowsIn(v) > MaxTableRows
    BY <1>2, <1>3
  <2>2. walk = Raised
    BY <2>1, WalkExact DEF Walked
  <2>3. walk.error = "too_many_rows"
    BY <2>2 DEF Raised
  <2> HIDE DEF walk
  <2>4. ~(RowsIn(v) <= MaxTableRows)
    BY <1>2, <1>3
  <2> QED
    BY <1>1, <1>3, <2>3, <2>4
<1>4. CASE RowsIn(v) <= MaxTableRows
  <2>1. 0 \in 0..MaxTableRows /\ 0 + RowsIn(v) <= MaxTableRows
    BY <1>2, <1>4
  <2>2. walk = Finished(0 + RowsIn(v), <<AllOf[v]>>)
    BY <2>1, WalkExact DEF Walked
  <2>3. walk.error = "none" /\ walk.items = <<AllOf[v]>> /\ walk.items[1] = AllOf[v]
    BY <2>2 DEF Finished
  <2> HIDE DEF walk
  <2>4. outcome1 = IF Refused(v) THEN "not_json"
                   ELSE IF SerializedBytes(v) > MaxSerializedBytes
                   THEN "too_long" ELSE "answered"
    BY <2>3, BytesAndNaNsKept
  <2>5. /\ ~(RowsIn(v) > MaxTableRows)
        /\ SerializedBytes(v) > MaxSerializedBytes <=> ~(SerializedBytes(v) <= MaxSerializedBytes)
    BY <1>2, <1>4
  <2> HIDE DEF outcome1
  <2> QED
    BY <1>1, <1>4, <2>3, <2>4, <2>5
<1>5. RowsIn(v) > MaxTableRows \/ RowsIn(v) <= MaxTableRows
  BY <1>2
<1> QED
  BY <1>3, <1>4, <1>5

-----------------------------------------------------------------------------
(* A request, from the policy to the answer *)

\* SAP is called once, after the checks; its result goes through apply().
RfcInv ==
    /\ outcome /= "none" => at = "called"
    /\ \/ raw = <<>> /\ outcome \in {"none", "failed"} /\ result = <<>>
       \/ \E v \in Results :
            raw = <<v>> /\ outcome = Apply(v).outcome /\ result = Apply(v).value

LEMMA RfcInitInv == RfcInit => RfcInv
  BY DEF RfcInit, RfcInv

LEMMA RfcNextInv == RfcInv /\ [RfcNext]_rfcVars => RfcInv'
<1> SUFFICES ASSUME RfcInv, [RfcNext]_rfcVars PROVE RfcInv'
  OBVIOUS
<1>1. CASE Check
  <2>1. UNCHANGED <<raw, outcome, result>>
    BY <1>1 DEF Check, callVars
  <2>2. at /= "called"
    BY <1>1 DEF Check, Next, Authorize, GetInterface, RefuseParameters, MapParameters
  <2> QED
    BY <2>1, <2>2 DEF RfcInv
<1>2. CASE CallFails
  <2>1. at' = at /\ at = "called" /\ outcome = "none" /\ outcome' = "failed"
        /\ UNCHANGED <<raw, result>>
    BY <1>2 DEF CallFails, vars
  <2>2. \A v \in Results : Apply(v).outcome /= "none"
    BY ResultsAssumption, ApplyExact
  <2>3. raw = <<>> /\ result = <<>>
    BY <2>1, <2>2 DEF RfcInv
  <2> QED
    BY <2>1, <2>3 DEF RfcInv
<1>3. ASSUME NEW v \in Results, CallReturns(v) PROVE RfcInv'
  BY <1>3 DEF CallReturns, RfcInv, vars
<1>4. CASE UNCHANGED rfcVars
  BY <1>4 DEF rfcVars, callVars, vars, RfcInv
<1> QED
  BY <1>1, <1>2, <1>3, <1>4 DEF RfcNext

LEMMA RfcInvariance == RfcSpec => []RfcInv
  BY RfcInitInv, RfcNextInv, PTL DEF RfcSpec

\* Whatever SAP returns, however deep its tables are nested and wherever the
\* limits are: the result is answered exactly when all its rows and its JSON
\* text are within the limits, and then nothing of it is missing.
THEOREM LimitsAreExact == RfcSpec => []LimitsExact
<1>1. RfcInv => LimitsExact
  <2> SUFFICES ASSUME RfcInv, NEW v \in Range(raw)
               PROVE  /\ outcome = "too_many_rows" <=> RowsIn(v) > MaxTableRows
                      /\ outcome = "answered" <=>
                           /\ RowsIn(v) <= MaxTableRows
                           /\ ~Refused(v)
                           /\ SerializedBytes(v) <= MaxSerializedBytes
                      /\ outcome = "answered" => result = <<AllOf[v]>>
                      /\ outcome /= "answered" => result = <<>>
    BY Zenon DEF LimitsExact
  <2>1. raw /= <<>>
    BY DEF Range
  <2>2. PICK w \in Results :
          raw = <<w>> /\ outcome = Apply(w).outcome /\ result = Apply(w).value
    BY <2>1 DEF RfcInv
  <2>3. v = w
    BY <2>2 DEF Range
  <2>4. v \in JsonValues
    BY <2>3, ResultsAssumption
  <2> QED
    BY Zenon, <2>2, <2>3, <2>4, ApplyExact
<1> QED
  BY <1>1, RfcInvariance, PTL

\* The checks of a request are those of CallChecks: the call and the limits
\* leave what it specifies alone.
THEOREM RequestIsChecked == RfcSpec => Spec
<1>1. RfcInit => Init
  BY DEF RfcInit
<1>2. [RfcNext]_rfcVars => [Next]_vars
  BY DEF RfcNext, Check, CallFails, CallReturns, rfcVars
<1> QED
  BY <1>1, <1>2, PTL DEF RfcSpec, Spec

\* What is proved of the checks therefore holds until the answer: types...
COROLLARY RequestTypeCorrect == RfcSpec => []TypeOK
  BY RequestIsChecked, TypeCorrect, PTL

\* ...the table that SAP reads is the one the policy has checked...
COROLLARY RequestTableRead == RfcSpec => []CheckedTableIsRead
  BY RequestIsChecked, CheckedTableRead, PTL

\* ...and no parameter of the request is lost.
COROLLARY RequestParametersKept == RfcSpec => []NothingDropped
  BY RequestIsChecked, ParametersKept, PTL

\* What conn.call() did, answer or error, it did for a request that the policy
\* authorizes.
THEOREM OnlyAuthorizedCalls == RfcSpec => [](outcome /= "none" => Authorized)
<1>1. RfcInv /\ Inv => (outcome /= "none" => Authorized)
  BY DEF RfcInv, Inv, Passed
<1> QED
  BY <1>1, RfcInvariance, RequestIsChecked, Invariance, PTL
=============================================================================

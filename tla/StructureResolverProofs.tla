----------------------- MODULE StructureResolverProofs -----------------------
(* The expansion of a structure gives its reference definition, for any         *)
(* dictionary, any depth and any number of rows.                                *)
EXTENDS StructureResolver, TLAPS, WellFoundedInduction, SequenceTheorems

USE RootAssumption, MaxDepthAssumption

-----------------------------------------------------------------------------
(* Induction: a set of numbers has a least member *)

LEMMA LessThan ==
    \E R : IsWellFoundedOn(R, Nat) /\ \A x, y \in Nat : <<y, x>> \in R <=> y < x
<1>1. IsWellFoundedOn(OpToRel(<, Nat), Nat)
  BY Zenon, NatLessThanWellFounded
<1>2. \A x, y \in Nat : <<y, x>> \in OpToRel(<, Nat) <=> y < x
  BY Zenon DEF OpToRel
<1> QED
  BY Zenon, <1>1, <1>2

LEMMA Least ==
    ASSUME NEW T \in SUBSET Nat, T /= {}
    PROVE  \E n \in T : \A m \in T : n <= m
<1>1. PICK R : IsWellFoundedOn(R, Nat) /\ \A x, y \in Nat : <<y, x>> \in R <=> y < x
  BY LessThan
<1>2. PICK n \in T : \A m \in T : <<m, n>> \notin R
  BY <1>1, WFMin
<1>3. \A m \in T : ~(m < n)
  BY <1>1, <1>2
<1> QED
  BY <1>3

-----------------------------------------------------------------------------
(* Places *)

\* The recursive definition of Follow defines what it says.
LEMMA FollowDefined ==
    ASSUME NEW n \in Nat, NEW place, DOMAIN place = 1..n
    PROVE  Follow(place) =
             [i \in 1..n |-> IF i = 1 THEN Root ELSE Into(Follow(place)[i - 1], place[i - 1])]
<1> DEFINE Is(f, m) == f = [i \in 1..m |-> IF i = 1 THEN Root ELSE Into(f[i - 1], place[i - 1])]
           T == {m \in Nat : ~ \E f : Is(f, m)}
<1>1. ASSUME T /= {} PROVE FALSE
  <2>1. PICK m \in T : \A k \in T : m <= k
    BY <1>1, Least
  <2>2. m /= 0
    <3> DEFINE e == [i \in 1..0 |-> Root]
    <3>1. Is(e, 0)
      OBVIOUS
    <3> QED
      BY <2>1, <3>1
  <2>3. m - 1 \in Nat /\ m - 1 \notin T
    <3>1. m \in Nat
      OBVIOUS
    <3> HIDE DEF T
    <3> QED
      BY <2>1, <2>2, <3>1
  <2>4. PICK f : Is(f, m - 1)
    BY <2>3
  <2> DEFINE v == IF m = 1 THEN Root ELSE Into(f[m - 1], place[m - 1])
             g == [i \in 1..m |-> IF i = m THEN v ELSE f[i]]
  <2>5. \A i \in 1..m : g[i] = IF i = 1 THEN Root ELSE Into(g[i - 1], place[i - 1])
    <3> SUFFICES ASSUME NEW i \in 1..m
                 PROVE  g[i] = IF i = 1 THEN Root ELSE Into(g[i - 1], place[i - 1])
      OBVIOUS
    <3>1. CASE i = m
      BY <3>1
    <3>2. CASE i /= m
      <4>1. i \in 1..(m - 1) /\ g[i] = f[i] /\ (i /= 1 => g[i - 1] = f[i - 1])
        BY <3>2
      <4>2. f[i] = IF i = 1 THEN Root ELSE Into(f[i - 1], place[i - 1])
        BY <2>4, <4>1
      <4> QED
        BY <4>1, <4>2
    <3> QED
      BY <3>1, <3>2
  <2>6. Is(g, m)
    BY <2>5
  <2> QED
    BY <2>1, <2>6
<1>2. \E f : Is(f, n)
  BY <1>1
<1>3. Follow(place) = CHOOSE f : Is(f, n)
  BY DEF Follow
<1> QED
  BY <1>2, <1>3

\* A strict prefix, row by row.
LEMMA PrefixRows ==
    ASSUME NEW p \in Seq(Nat), NEW q \in Seq(Nat)
    PROVE  IsStrictPrefix(p, q) <=> Len(p) < Len(q) /\ \A i \in 1..Len(p) : p[i] = q[i]
<1>1. ASSUME Len(p) <= Len(q)
      PROVE  SubSeq(p, 1, Len(p)) = SubSeq(q, 1, Len(p)) <=> \A i \in 1..Len(p) : p[i] = q[i]
  <2>1. SubSeq(p, 1, Len(p)) = p
    BY SubSeqFull
  <2> DEFINE r == SubSeq(q, 1, Len(p))
  <2>2. r \in Seq(Nat) /\ Len(r) = Len(p) /\ \A i \in 1..Len(p) : r[i] = q[i]
    BY <1>1
  <2> HIDE DEF r
  <2>3. r = p <=> \A i \in 1..Len(p) : p[i] = q[i]
    BY <2>2, SeqEqual
  <2> QED
    BY <2>1, <2>3 DEF r
<1>2. Len(p) = Len(q) /\ (\A i \in 1..Len(p) : p[i] = q[i]) => p = q
  BY SeqEqual
<1>3. Len(p) \in Nat /\ Len(q) \in Nat
  OBVIOUS
<1> QED
  BY <1>1, <1>2, <1>3 DEF IsStrictPrefix, IsPrefix

\* Place p comes before cursor c, row by row.
Agree(p, c, n) == \A i \in 1..n : p[i] = c[i]

LEMMA BeforeRows ==
    ASSUME NEW p \in Seq(Nat), NEW c \in Seq(Nat)
    PROVE  Before(p, c) <=>
             \/ Len(p) < Len(c) /\ Agree(p, c, Len(p))
             \/ \E i \in 1..Len(p) : i <= Len(c) /\ p[i] < c[i] /\ Agree(p, c, i - 1)
<1>1. DOMAIN p \cap DOMAIN c = {i \in 1..Len(p) : i <= Len(c)}
  OBVIOUS
<1> QED
  BY <1>1, PrefixRows DEF Before, Agree

\* Two cursors that agree up to row n are agreed with alike.
LEMMA AgreeAlike ==
    ASSUME NEW p, NEW c, NEW d, NEW n \in Nat, \A i \in 1..n : d[i] = c[i]
    PROVE  \A m \in 0..n : Agree(p, d, m) <=> Agree(p, c, m)
  BY DEF Agree

\* A row up to n follows one of the rows 0 to n.
LEMMA RowBefore ==
    ASSUME NEW n \in Nat, NEW len \in Nat, NEW i \in 1..len, i <= n
    PROVE  i \in 1..n /\ i - 1 \in 0..n /\ i <= n + 1
  OBVIOUS

\* How a length compares with n and with n + 1.
LEMMA Lengths ==
    ASSUME NEW len \in Nat, NEW n \in Nat
    PROVE  /\ len < n \/ len = n \/ len >= n + 1
           /\ len < n => len < n + 1 /\ ~(len >= n) /\ ~(len > n) /\ ~(len >= n + 1)
           /\ len = n => len < n + 1 /\ ~(len < n) /\ len >= n /\ ~(len > n) /\ ~(len >= n + 1)
           /\ len >= n + 1 => ~(len < n + 1) /\ ~(len < n) /\ len >= n /\ len > n
  OBVIOUS

\* What the cursor passes when it goes on to the next row of a structure...
LEMMA AdvancePasses ==
    ASSUME NEW p \in Seq(Nat), NEW c \in Seq(Nat), NEW d \in Seq(Nat),
           NEW n \in Nat \ {0}, Len(c) = n, Len(d) = n, Agree(d, c, n - 1),
           d[n] = c[n] + 1
    PROVE  Before(p, d) <=> Before(p, c) \/ (Len(p) >= n /\ Agree(p, c, n))
<1>1. Len(p) \in Nat /\ c[n] \in Nat
  OBVIOUS
<1>2. \A m \in 0..(n - 1) : Agree(p, d, m) <=> Agree(p, c, m)
  BY DEF Agree
<1>3. \A i \in 1..n : i /= n => d[i] = c[i]
  BY DEF Agree
<1>4. ASSUME Before(p, c) PROVE Before(p, d)
  <2>1. CASE Len(p) < n /\ Agree(p, c, Len(p))
    BY <1>1, <1>2, <2>1, BeforeRows
  <2>2. ASSUME NEW i \in 1..Len(p), i <= n, p[i] < c[i], Agree(p, c, i - 1)
        PROVE  Before(p, d)
    <3>1. p[i] < d[i]
      BY SMTT(30), <1>3, <2>2
    <3>2. Agree(p, d, i - 1)
      BY <1>1, <1>2, <2>2
    <3> QED
      BY <2>2, <3>1, <3>2, BeforeRows
  <2> QED
    BY <1>4, <2>1, <2>2, BeforeRows
<1>5. ASSUME Len(p) >= n, Agree(p, c, n) PROVE Before(p, d)
  <2>1. n \in 1..Len(p) /\ p[n] < d[n] /\ Agree(p, c, n - 1)
    BY <1>1, <1>5 DEF Agree
  <2> QED
    BY <1>2, <2>1, BeforeRows
<1>6. ASSUME Before(p, d), ~Before(p, c) PROVE Len(p) >= n /\ Agree(p, c, n)
  <2>1. ~(Len(p) < n /\ Agree(p, d, Len(p)))
    BY <1>1, <1>2, <1>6, BeforeRows
  <2>2. PICK i \in 1..Len(p) : i <= n /\ p[i] < d[i] /\ Agree(p, d, i - 1)
    BY <1>6, <2>1, BeforeRows
  <2>3. Agree(p, c, i - 1) /\ ~(p[i] < c[i])
    <3>1. i - 1 \in 0..(n - 1)
      BY <2>2
    <3>2. Agree(p, c, i - 1)
      BY <1>2, <2>2, <3>1
    <3> QED
      BY <1>6, <2>2, <3>2, BeforeRows
  <2>4. i = n
    BY <1>3, <2>2, <2>3
  <2>5. p[n] = c[n]
    BY <1>1, <2>2, <2>3, <2>4
  <2> QED
    BY <1>1, <2>2, <2>3, <2>4, <2>5 DEF Agree
<1> QED
  BY <1>4, <1>5, <1>6

\* ...when it enters a nested structure...
LEMMA EnterPasses ==
    ASSUME NEW p \in Seq(Nat \ {0}), NEW c \in Seq(Nat)
    PROVE  Before(p, Append(c, 1)) <=> Before(p, c) \/ p = c
<1> DEFINE n == Len(c)
           d == Append(c, 1)
<1>1. /\ p \in Seq(Nat) /\ d \in Seq(Nat) /\ n \in Nat /\ Len(p) \in Nat
      /\ Len(d) = n + 1 /\ d[n + 1] = 1
      /\ \A i \in 1..n : d[i] = c[i]
      /\ \A i \in 1..Len(p) : p[i] \in Nat /\ p[i] >= 1
  <2>1. p \in Seq(Nat)
    BY SeqMonotonic
  <2> QED
    BY <2>1
<1> HIDE DEF d
<1>2. \A m \in 0..n : Agree(p, d, m) <=> Agree(p, c, m)
  BY <1>1, AgreeAlike
<1>3. Before(p, d) <=> \/ Len(p) < n + 1 /\ Agree(p, d, Len(p))
                       \/ \E i \in 1..Len(p) : i <= n + 1 /\ p[i] < d[i] /\ Agree(p, d, i - 1)
  BY <1>1, BeforeRows
<1>4. Before(p, c) <=> \/ Len(p) < n /\ Agree(p, c, Len(p))
                       \/ \E i \in 1..Len(p) : i <= n /\ p[i] < c[i] /\ Agree(p, c, i - 1)
  BY <1>1, BeforeRows
<1>5. \A i \in 1..Len(p) : i <= n + 1 /\ p[i] < d[i] /\ Agree(p, d, i - 1)
                            <=> i <= n /\ p[i] < c[i] /\ Agree(p, c, i - 1)
  <2> SUFFICES ASSUME NEW i \in 1..Len(p)
               PROVE  i <= n + 1 /\ p[i] < d[i] /\ Agree(p, d, i - 1)
                       <=> i <= n /\ p[i] < c[i] /\ Agree(p, c, i - 1)
    OBVIOUS
  <2>1. CASE i <= n
    <3>1. i \in 1..n /\ i - 1 \in 0..n /\ i <= n + 1
      BY <1>1, <2>1, RowBefore
    <3>2. d[i] = c[i] /\ (Agree(p, d, i - 1) <=> Agree(p, c, i - 1))
      BY <1>1, <1>2, <3>1
    <3> QED
      BY <2>1, <3>1, <3>2
  <2>2. CASE ~(i <= n)
    BY <1>1, <2>2
  <2> QED
    BY <2>1, <2>2
<1>6. Len(p) = n /\ Agree(p, c, n) <=> p = c
  BY <1>1, SeqEqual DEF Agree
<1>7. Len(p) <= n => (Agree(p, d, Len(p)) <=> Agree(p, c, Len(p)))
  BY <1>1, <1>2
<1>8. Before(p, d) <=> Before(p, c) \/ p = c
  <2>1. Len(p) < n + 1 /\ Agree(p, d, Len(p)) <=> (Len(p) < n /\ Agree(p, c, Len(p))) \/ p = c
    <3>1. CASE Len(p) < n
      BY <1>1, <1>6, <1>7, <3>1
    <3>2. CASE Len(p) = n
      BY <1>1, <1>6, <1>7, <3>2
    <3>3. CASE Len(p) > n
      BY <1>1, <1>6, <3>3
    <3> QED
      BY <1>1, <3>1, <3>2, <3>3
  <2>2. (\E i \in 1..Len(p) : i <= n + 1 /\ p[i] < d[i] /\ Agree(p, d, i - 1))
          <=> \E i \in 1..Len(p) : i <= n /\ p[i] < c[i] /\ Agree(p, c, i - 1)
    BY <1>5
  <2> QED
    BY <1>3, <1>4, <2>1, <2>2
<1> QED
  BY <1>8 DEF d

\* ...and when it returns from one.
LEMMA ReturnPasses ==
    ASSUME NEW p \in Seq(Nat), NEW c \in Seq(Nat), NEW d \in Seq(Nat),
           NEW n \in Nat \ {0}, Len(c) = n + 1, Len(d) = n, Agree(d, c, n - 1),
           d[n] = c[n] + 1
    PROVE  Before(p, d) <=>
             \/ Before(p, c)
             \/ Len(p) > n /\ Agree(p, c, n) /\ p[n + 1] >= c[n + 1]
<1> DEFINE b == SubSeq(c, 1, n)
<1>1. /\ b \in Seq(Nat) /\ Len(b) = n /\ Len(p) \in Nat
      /\ \A i \in 1..n : b[i] = c[i]
      /\ c[n + 1] \in Nat
      /\ \A i \in 1..Len(p) : p[i] \in Nat
  <2>1. \A i \in 1..(n + 1) : c[i] \in Nat
    <3>1. \A i \in 1..Len(c) : c[i] \in Nat
      BY ElementOfSeq
    <3> QED
      BY Zenon, <3>1
  <2>2. n + 1 \in 1..(n + 1) /\ (\A i \in 1..n : i \in 1..(n + 1))
    OBVIOUS
  <2>3. b \in Seq(Nat) /\ Len(b) = n /\ \A i \in 1..n : b[i] = c[i]
    BY <2>1, <2>2, SubSeqProperties
  <2>4. Len(p) \in Nat /\ \A i \in 1..Len(p) : p[i] \in Nat
    OBVIOUS
  <2> HIDE DEF b
  <2> QED
    BY <2>1, <2>2, <2>3, <2>4
<1> HIDE DEF b
<1>2. Agree(d, b, n - 1) /\ d[n] = b[n] + 1
  BY <1>1 DEF Agree
<1>3. \A m \in 0..n : Agree(p, b, m) <=> Agree(p, c, m)
  BY <1>1, AgreeAlike
<1>4. Before(p, d) <=> Before(p, b) \/ (Len(p) >= n /\ Agree(p, b, n))
  BY <1>1, <1>2, AdvancePasses
<1>5. Before(p, b) <=> \/ Len(p) < n /\ Agree(p, b, Len(p))
                       \/ \E i \in 1..Len(p) : i <= n /\ p[i] < b[i] /\ Agree(p, b, i - 1)
  BY <1>1, BeforeRows
<1>6. Before(p, c) <=>
        \/ Len(p) < n + 1 /\ Agree(p, c, Len(p))
        \/ \E i \in 1..Len(p) : i <= n + 1 /\ p[i] < c[i] /\ Agree(p, c, i - 1)
  BY BeforeRows
<1>7. \A i \in 1..Len(p) : i <= n => (Agree(p, b, i - 1) <=> Agree(p, c, i - 1))
  BY <1>1, <1>3
<1>8. (\E i \in 1..Len(p) : i <= n + 1 /\ p[i] < c[i] /\ Agree(p, c, i - 1))
        <=> \/ \E i \in 1..Len(p) : i <= n /\ p[i] < b[i] /\ Agree(p, b, i - 1)
            \/ Len(p) >= n + 1 /\ p[n + 1] < c[n + 1] /\ Agree(p, c, n)
  <2>1. ASSUME NEW i \in 1..Len(p), i <= n + 1, p[i] < c[i], Agree(p, c, i - 1)
        PROVE  \/ i <= n /\ p[i] < b[i] /\ Agree(p, b, i - 1)
               \/ Len(p) >= n + 1 /\ p[n + 1] < c[n + 1] /\ Agree(p, c, n)
    <3>1. CASE i = n + 1
      <4>1. i - 1 = n
        BY <3>1
      <4> QED
        BY <1>1, <2>1, <3>1, <4>1
    <3>2. CASE i <= n
      <4>1. i \in 1..n
        BY <1>1, <3>2, RowBefore
      <4>2. b[i] = c[i] /\ (Agree(p, b, i - 1) <=> Agree(p, c, i - 1))
        BY <1>1, <1>7, <3>2, <4>1
      <4> QED
        BY <2>1, <3>2, <4>2
    <3> QED
      BY <2>1, <3>1, <3>2
  <2>2. ASSUME NEW i \in 1..Len(p), i <= n, p[i] < b[i], Agree(p, b, i - 1)
        PROVE  i <= n + 1 /\ p[i] < c[i] /\ Agree(p, c, i - 1)
    <3>1. i \in 1..n /\ i <= n + 1
      BY <1>1, <2>2, RowBefore
    <3>2. b[i] = c[i] /\ (Agree(p, b, i - 1) <=> Agree(p, c, i - 1))
      BY <1>1, <1>7, <2>2, <3>1
    <3> QED
      BY <2>2, <3>1, <3>2
  <2>3. ASSUME Len(p) >= n + 1, p[n + 1] < c[n + 1], Agree(p, c, n)
        PROVE  \E i \in 1..Len(p) : i <= n + 1 /\ p[i] < c[i] /\ Agree(p, c, i - 1)
    <3>1. n + 1 \in 1..Len(p) /\ (n + 1) - 1 = n
      BY <1>1, <2>3
    <3> QED
      BY <2>3, <3>1
  <2> QED
    BY <2>1, <2>2, <2>3
<1>9. /\ Len(p) < n \/ Len(p) = n \/ Len(p) >= n + 1
      /\ Len(p) < n => /\ Len(p) < n + 1 /\ ~(Len(p) >= n)
                       /\ ~(Len(p) > n) /\ ~(Len(p) >= n + 1)
      /\ Len(p) = n => /\ Len(p) < n + 1 /\ ~(Len(p) < n) /\ Len(p) >= n
                       /\ ~(Len(p) > n) /\ ~(Len(p) >= n + 1)
      /\ Len(p) >= n + 1 => /\ ~(Len(p) < n + 1) /\ ~(Len(p) < n)
                            /\ Len(p) >= n /\ Len(p) > n
  <2>1. n \in Nat
    OBVIOUS
  <2> QED
    BY Zenon, <1>1, <2>1, Lengths
<1>10. Len(p) < n => (Agree(p, b, Len(p)) <=> Agree(p, c, Len(p)))
  BY <1>1, <1>3
<1>11. Len(p) >= n + 1 => ~(p[n + 1] < c[n + 1]) = (p[n + 1] >= c[n + 1])
  BY SMTT(30), <1>1
<1>12. Agree(p, b, n) <=> Agree(p, c, n)
  BY <1>3
<1> DEFINE Smaller == \E i \in 1..Len(p) : i <= n /\ p[i] < b[i] /\ Agree(p, b, i - 1)
<1>13. Before(p, d) <=> \/ Len(p) < n /\ Agree(p, b, Len(p))
                        \/ Smaller
                        \/ Len(p) >= n /\ Agree(p, b, n)
  BY <1>4, <1>5
<1>14. Before(p, c) <=> \/ Len(p) < n + 1 /\ Agree(p, c, Len(p))
                        \/ Smaller
                        \/ Len(p) >= n + 1 /\ p[n + 1] < c[n + 1] /\ Agree(p, c, n)
  BY <1>6, <1>8
<1> HIDE DEF Smaller
<1>15. CASE Len(p) < n
  BY Zenon, <1>9, <1>10, <1>13, <1>14, <1>15
<1>16. CASE Len(p) = n
  BY Zenon, <1>9, <1>12, <1>13, <1>14, <1>16
<1>17. CASE Len(p) >= n + 1
  <2>1. p[n + 1] < c[n + 1] \/ p[n + 1] >= c[n + 1]
    BY <1>11, <1>17
  <2>2. ~(p[n + 1] < c[n + 1] /\ p[n + 1] >= c[n + 1])
    BY <1>11, <1>17
  <2> QED
    BY Zenon, <1>9, <1>12, <1>13, <1>14, <1>17, <2>1, <2>2
<1> QED
  BY <1>9, <1>15, <1>16, <1>17

-----------------------------------------------------------------------------
(* The invariant *)

Frames == [tab : Structures, row : 1..(MaxRows + 1)]

\* Every frame but the top one is at the row it was entered from.
StackInv ==
    /\ stack = <<>> <=> at \in {"done", "failed"}
    /\ stack /= <<>> => stack[1].tab = Root
    /\ at = "call" => Top.row = 1
    /\ \A i \in DOMAIN stack : stack[i].row <= Len(definition[stack[i].tab]) + 1
    /\ \A i \in 1..(Len(stack) - 1) :
         LET tab == stack[i].tab
             row == stack[i].row IN
         /\ row <= Len(definition[tab])
         /\ definition[tab][row].named
         /\ definition[tab][row].nested = stack[i + 1].tab

\* The result so far is the part of the reference definition that the cursor,
\* the place of the next row, has passed.
FieldsInv ==
    /\ stack /= <<>> => ToSet(fields) = {p \in AllFields : Before(p, Place)}
    /\ at = "done" => ToSet(fields) = AllFields
    /\ \A i, j \in DOMAIN fields : i < j => Before(fields[i], fields[j])

Inv == TypeOK /\ StackInv /\ NeverInsideItself /\ FieldsInv

-----------------------------------------------------------------------------
(* Dictionary and stack *)

LEMMA Dictionary ==
    ASSUME TypeOK, NEW tab \in Structures
    PROVE  /\ Len(definition[tab]) \in 0..MaxRows
           /\ \A i \in 1..Len(definition[tab]) : definition[tab][i] \in Rows
<1>1. PICK n \in 0..MaxRows : definition[tab] \in [1..n -> Rows]
  BY DEF TypeOK, Definitions, SeqOf
<1>2. Len(definition[tab]) = n
  BY <1>1
<1> QED
  BY <1>1, <1>2

LEMMA Cursor ==
    ASSUME TypeOK, stack /= <<>>
    PROVE  /\ stack \in Seq(Frames) /\ Len(stack) \in Nat \ {0}
           /\ Place \in Seq(Nat) /\ Len(Place) = Len(stack)
           /\ \A i \in 1..Len(stack) :
                /\ stack[i].tab \in Structures /\ stack[i].row \in 1..(MaxRows + 1)
                /\ Place[i] = stack[i].row
<1>1. stack \in Seq(Frames) /\ Len(stack) \in Nat \ {0} /\ DOMAIN stack = 1..Len(stack)
  BY DEF TypeOK, Frames
<1>2. \A i \in 1..Len(stack) : stack[i].tab \in Structures /\ stack[i].row \in 1..(MaxRows + 1)
  <2>1. \A i \in 1..Len(stack) : stack[i] \in Frames
    BY <1>1
  <2> QED
    BY <2>1 DEF Frames
<1>3. \A i \in 1..Len(stack) : stack[i].row \in Nat
  BY <1>2
<1>4. Place \in [1..Len(stack) -> Nat] /\ \A i \in 1..Len(stack) : Place[i] = stack[i].row
  BY <1>1, <1>3 DEF Place
<1>5. Place \in Seq(Nat) /\ Len(Place) = Len(stack)
  BY <1>1, <1>4
<1> QED
  BY <1>1, <1>2, <1>4, <1>5

LEMMA NumberSequence ==
    ASSUME NEW n \in Nat, NEW q \in [1..n -> Nat]
    PROVE  q \in Seq(Nat) /\ Len(q) = n
  OBVIOUS

LEMMA FieldPlace ==
    ASSUME TypeOK, NEW p
    PROVE  p \in AllFields <=> p \in Seq(1..MaxRows) /\ Len(p) \in 1..depth /\ IsField(p)
<1>1. depth \in Nat \ {0}
  BY DEF TypeOK
<1>2. p \in SeqOf(1..MaxRows, depth) \ {<<>>} <=> p \in Seq(1..MaxRows) /\ Len(p) \in 1..depth
  <2>1. ASSUME p \in SeqOf(1..MaxRows, depth), p /= <<>>
        PROVE  p \in Seq(1..MaxRows) /\ Len(p) \in 1..depth
    <3>1. PICK m \in 0..depth : p \in [1..m -> 1..MaxRows]
      BY <2>1 DEF SeqOf
    <3>2. p \in Seq(1..MaxRows) /\ Len(p) = m
      BY <1>1, <3>1
    <3> QED
      BY <1>1, <2>1, <3>2
  <2>2. ASSUME p \in Seq(1..MaxRows), Len(p) \in 1..depth
        PROVE  p \in SeqOf(1..MaxRows, depth) /\ p /= <<>>
    <3>1. p \in [1..Len(p) -> 1..MaxRows] /\ Len(p) \in 0..depth
      BY <1>1, <2>2
    <3> QED
      BY <2>2, <3>1 DEF SeqOf
  <2> QED
    BY <2>1, <2>2
<1> QED
  BY <1>2 DEF AllFields

\* A place of rows is a sequence of numbers.
LEMMA PlaceNumbers ==
    ASSUME NEW p \in Seq(1..MaxRows)
    PROVE  /\ p \in Seq(Nat) /\ p \in Seq(Nat \ {0}) /\ DOMAIN p = 1..Len(p) /\ Len(p) \in Nat
           /\ \A i \in 1..Len(p) : p[i] \in 1..MaxRows
<1>1. 1..MaxRows \subseteq Nat /\ 1..MaxRows \subseteq Nat \ {0}
  OBVIOUS
<1>2. p \in Seq(Nat) /\ p \in Seq(Nat \ {0})
  BY <1>1, SeqMonotonic
<1> QED
  BY <1>2

\* A place that follows the cursor goes through the structures on the stack.
LEMMA OnTheWay ==
    ASSUME TypeOK, StackInv, stack /= <<>>, NEW p \in Seq(1..MaxRows),
           NEW m \in 1..Len(stack), Len(p) >= m, Agree(p, Place, m - 1)
    PROVE  \A i \in 1..m : Follow(p)[i] = stack[i].tab
<1> DEFINE T == {i \in 1..m : Follow(p)[i] /= stack[i].tab}
<1>1. /\ Len(stack) \in Nat /\ m \in Nat
      /\ \A i \in 1..Len(stack) : stack[i].tab \in Structures /\ Place[i] = stack[i].row
  BY Cursor
<1>2. \A i \in 1..m : Follow(p)[i] = IF i = 1 THEN Root ELSE Into(Follow(p)[i - 1], p[i - 1])
  <2>1. DOMAIN p = 1..Len(p) /\ Len(p) \in Nat
    BY PlaceNumbers
  <2>2. Follow(p) = [i \in 1..Len(p) |-> IF i = 1 THEN Root ELSE Into(Follow(p)[i - 1], p[i - 1])]
    BY <2>1, FollowDefined
  <2>3. \A i \in 1..m : i \in 1..Len(p)
    BY <1>1, <2>1
  <2> QED
    BY <2>2, <2>3
<1>3. ASSUME T /= {} PROVE FALSE
  <2>1. PICK i \in T : \A k \in T : i <= k
    <3>1. T \in SUBSET Nat
      BY <1>1
    <3> HIDE DEF T
    <3> QED
      BY <1>3, <3>1, Least
  <2>2. i \in 1..m /\ Follow(p)[i] /= stack[i].tab
    OBVIOUS
  <2>3. i /= 1
    BY <1>1, <1>2, <2>2 DEF StackInv
  <2>4. i - 1 \in 1..m /\ i - 1 \in 1..(m - 1) /\ i - 1 \in 1..(Len(stack) - 1)
    BY <1>1, <2>2, <2>3
  <2>5. Follow(p)[i - 1] = stack[i - 1].tab
    <3>1. i - 1 \notin T
      <4> HIDE DEF T
      <4> QED
        BY <2>1, <2>2
    <3> QED
      BY <2>4, <3>1
  <2>6. p[i - 1] = stack[i - 1].row /\ stack[i - 1].tab /= None
    BY <1>1, <2>4 DEF Agree
  <2>7. /\ stack[i - 1].row <= Len(definition[stack[i - 1].tab])
        /\ definition[stack[i - 1].tab][stack[i - 1].row].nested = stack[i].tab
    <3>1. (i - 1) + 1 = i
      BY <2>2
    <3> QED
      BY <2>4, <3>1 DEF StackInv
  <2>8. Len(definition[stack[i - 1].tab]) \in Nat /\ stack[i - 1].row \in Nat
    <3>1. i - 1 \in 1..Len(stack) /\ stack[i - 1].tab \in Structures
      BY <1>1, <2>4
    <3>2. stack[i - 1].row \in 1..(MaxRows + 1)
      BY <3>1, Cursor
    <3>3. stack[i - 1].row \in Nat
      BY SMTT(30), <3>2
    <3>4. Len(definition[stack[i - 1].tab]) \in 0..MaxRows
      BY <3>1, Dictionary
    <3>5. Len(definition[stack[i - 1].tab]) \in Nat
      BY <3>4
    <3> QED
      BY <3>3, <3>5
  <2>9. ~(stack[i - 1].row > Len(definition[stack[i - 1].tab]))
    <3>1. \A a, b \in Nat : a <= b => ~(a > b)
      OBVIOUS
    <3> QED
      BY Zenon, <2>7, <2>8, <3>1
  <2>10. Into(stack[i - 1].tab, stack[i - 1].row) = stack[i].tab
    BY Zenon, <2>6, <2>7, <2>9 DEF Into
  <2> QED
    BY <1>2, <2>2, <2>3, <2>5, <2>6, <2>10
<1> QED
  BY <1>3

\* A row with a name is a field, at the place of the cursor.
LEMMA RowIsField ==
    ASSUME TypeOK, StackInv, NeverInsideItself, stack /= <<>>, MoreRows, Row.named
    PROVE  Place \in AllFields
<1> DEFINE n == Len(stack)
<1>1. /\ n \in Nat \ {0} /\ Place \in Seq(Nat) /\ Len(Place) = n /\ Top = stack[n]
      /\ DOMAIN stack = 1..n
      /\ \A i \in 1..n : /\ stack[i].tab \in Structures /\ stack[i].row \in 1..(MaxRows + 1)
                         /\ Place[i] = stack[i].row
  BY Cursor DEF Last, Top
<1>2. \A i \in 1..n : /\ stack[i].row <= Len(definition[stack[i].tab])
                      /\ definition[stack[i].tab][stack[i].row].named
  <2>1. \A i \in 1..n : i \in 1..(n - 1) \/ i = n
    BY <1>1
  <2> QED
    BY <1>1, <2>1 DEF StackInv, MoreRows, Row
<1>3. \A i \in 1..n : Place[i] \in 1..MaxRows
  <2> SUFFICES ASSUME NEW i \in 1..n PROVE Place[i] \in 1..MaxRows
    OBVIOUS
  <2>1. Len(definition[stack[i].tab]) \in 0..MaxRows
    BY <1>1, Dictionary
  <2> QED
    BY <1>1, <1>2, <2>1
<1>4. Place \in Seq(1..MaxRows)
  <2>1. Place \in [1..n -> 1..MaxRows]
    BY <1>1, <1>3
  <2> QED
    BY <1>1, <2>1
<1>5. \A i \in 1..n : Follow(Place)[i] = stack[i].tab
  <2>1. Agree(Place, Place, n - 1) /\ n \in 1..Len(stack) /\ Len(Place) >= n
    BY <1>1 DEF Agree
  <2> QED
    BY <1>4, <2>1, OnTheWay
<1>6. DOMAIN Place = 1..n
  BY <1>1
<1>7. IsField(Place)
  <2>1. \A i, j \in 1..n : stack[i].tab = stack[j].tab => i = j
    BY <1>1 DEF NeverInsideItself
  <2>2. \A i \in 1..n : stack[i].tab /= None
    BY <1>1
  <2> HIDE DEF n
  <2>3. ASSUME NEW i \in DOMAIN Place
        PROVE  /\ Follow(Place)[i] /= None
               /\ Place[i] <= Len(definition[Follow(Place)[i]])
               /\ definition[Follow(Place)[i]][Place[i]].named
               /\ \A j \in DOMAIN Place : Follow(Place)[i] = Follow(Place)[j] => i = j
    <3>1. i \in 1..n /\ Follow(Place)[i] = stack[i].tab /\ Place[i] = stack[i].row
      BY <1>1, <1>5, <1>6
    <3>2. \A j \in DOMAIN Place : j \in 1..n /\ Follow(Place)[j] = stack[j].tab
      BY <1>5, <1>6
    <3> QED
      BY Zenon, <1>2, <2>1, <2>2, <3>1, <3>2
  <2> QED
    BY Zenon, <2>3 DEF IsField
<1>8. Len(Place) \in 1..depth
  BY <1>1 DEF NeverInsideItself, TypeOK
<1> QED
  BY <1>4, <1>7, <1>8, FieldPlace

\* A field at the place of the cursor or inside it.
LEMMA FieldAtCursor ==
    ASSUME TypeOK, StackInv, NeverInsideItself, stack /= <<>>, NEW p \in AllFields,
           Len(p) >= Len(stack), Agree(p, Place, Len(stack))
    PROVE  /\ MoreRows /\ Row.named
           /\ p /= Place => Row.nested /= None /\ Worth(Row.nested)
<1> DEFINE n == Len(stack)
<1>1. /\ n \in Nat \ {0} /\ Place \in Seq(Nat) /\ Len(Place) = n /\ Top = stack[n]
      /\ DOMAIN stack = 1..n
      /\ \A i \in 1..n : /\ stack[i].tab \in Structures /\ stack[i].row \in 1..(MaxRows + 1)
                         /\ Place[i] = stack[i].row
  BY Cursor DEF Last, Top
<1>2. p \in Seq(1..MaxRows) /\ Len(p) \in 1..depth /\ IsField(p)
  BY FieldPlace
<1>3. DOMAIN p = 1..Len(p) /\ Len(p) \in Nat /\ p \in Seq(Nat)
  BY <1>2, PlaceNumbers
<1>4. \A i \in 1..n : Follow(p)[i] = stack[i].tab
  <2>1. Agree(p, Place, n - 1) /\ n \in 1..Len(stack)
    BY <1>1 DEF Agree
  <2> QED
    BY <1>2, <2>1, OnTheWay
<1>5. n \in DOMAIN p /\ p[n] = Top.row
  BY <1>1, <1>3 DEF Agree
<1>6. MoreRows /\ Row.named
  <2>1. n \in 1..n
    BY <1>1
  <2>2. Follow(p)[n] = Top.tab
    BY <1>1, <1>4, <2>1
  <2>3. /\ p[n] <= Len(definition[Follow(p)[n]])
        /\ definition[Follow(p)[n]][p[n]].named
    BY Zenon, <1>2, <1>5 DEF IsField
  <2> QED
    BY Zenon, <1>5, <2>2, <2>3 DEF MoreRows, Row
<1>7. ASSUME p /= Place PROVE Row.nested /= None /\ Worth(Row.nested)
  <2>1. Len(p) > n
    <3>1. Len(p) = n => p = Place
      BY <1>1, <1>3, SeqEqual DEF Agree
    <3> QED
      BY <1>1, <1>3, <1>7, <3>1
  <2>2. n + 1 \in DOMAIN p /\ (n + 1) - 1 = n /\ n + 1 /= 1
    BY <1>1, <1>3, <2>1
  <2>3. Follow(p)[n + 1] = Into(Top.tab, Top.row)
    <3>1. Follow(p) = [i \in 1..Len(p) |-> IF i = 1 THEN Root ELSE Into(Follow(p)[i - 1], p[i - 1])]
      BY <1>3, FollowDefined
    <3>2. Follow(p)[n + 1] = Into(Follow(p)[n], p[n])
      BY <1>3, <2>2, <3>1
    <3> QED
      BY <1>1, <1>4, <1>5, <3>2
  <2>4. Into(Top.tab, Top.row) = Row.nested
    <3>1. Len(definition[Top.tab]) \in Nat /\ Top.row \in Nat /\ Top.tab /= None
      BY <1>1, Dictionary
    <3> QED
      BY <1>6, <3>1 DEF Into, Row, MoreRows
  <2>5. Row.nested /= None
    BY <1>2, <2>2, <2>3, <2>4 DEF IsField
  <2>6. \A i \in 1..n : stack[i].tab /= Row.nested
    <3> SUFFICES ASSUME NEW i \in 1..n, stack[i].tab = Row.nested PROVE FALSE
      OBVIOUS
    <3>1. i \in DOMAIN p /\ Follow(p)[i] = Follow(p)[n + 1]
      BY <1>1, <1>3, <1>4, <2>1, <2>3, <2>4
    <3>2. i = n + 1
      BY <1>2, <2>2, <3>1 DEF IsField
    <3> QED
      BY <1>1, <3>2
  <2>7. n < depth
    BY <1>1, <1>2, <2>1 DEF TypeOK
  <2> QED
    BY <1>1, <2>5, <2>6, <2>7 DEF Worth, Seen
<1> QED
  BY <1>6, <1>7

-----------------------------------------------------------------------------
(* The steps *)

\* Neither the dictionary nor the depth changes, so neither do the fields.
LEMMA FieldsStable ==
    ASSUME UNCHANGED <<depth, definition>>
    PROVE  AllFields' = AllFields
<1>1. \A tab, i : Into(tab, i)' = Into(tab, i)
  BY DEF Into
<1>2. \A p : Follow(p)' = Follow(p)
  BY <1>1 DEF Follow, Into
<1>3. \A p : IsField(p)' <=> IsField(p)
  BY <1>2 DEF IsField
<1> QED
  BY <1>3 DEF AllFields

LEMMA InitInv == Init => Inv
<1> SUFFICES ASSUME Init PROVE Inv
  OBVIOUS
<1>1. /\ depth \in 1..MaxDepth /\ definition \in Definitions
      /\ stack = <<Frame(Root)>> /\ fields = <<>> /\ at = "call"
  BY DEF Init
<1>2. /\ stack \in Seq(Frames) /\ Len(stack) = 1 /\ DOMAIN stack = {1}
      /\ stack[1].tab = Root /\ stack[1].row = 1 /\ Top = stack[1]
  <2>1. Frame(Root) \in Frames /\ Frame(Root).tab = Root /\ Frame(Root).row = 1
    BY DEF Frame, Frames
  <2> QED
    BY <1>1, <2>1 DEF Top, Last
<1>3. TypeOK
  BY <1>1, <1>2 DEF TypeOK, Frames
<1>4. Len(definition[Root]) \in Nat
  BY <1>3, Dictionary
<1>5. StackInv
  BY <1>1, <1>2, <1>4 DEF StackInv
<1>6. NeverInsideItself
  BY <1>1, <1>2 DEF NeverInsideItself
<1>7. FieldsInv
  <2>1. Place \in Seq(Nat) /\ Len(Place) = 1 /\ Place[1] = 1
    BY <1>2, <1>3, <1>1, Cursor
  <2>2. ASSUME NEW p \in AllFields PROVE ~Before(p, Place)
    <3>1. p \in Seq(1..MaxRows) /\ Len(p) \in 1..depth
      BY <1>3, FieldPlace
    <3>2. p \in Seq(Nat) /\ \A i \in 1..Len(p) : p[i] \in 1..MaxRows
      BY <3>1, PlaceNumbers
    <3>3. ~(Len(p) < Len(Place))
      BY <2>1, <3>1
    <3>4. \A i \in 1..Len(p) : ~(i <= Len(Place) /\ p[i] < Place[i])
      BY <2>1, <3>1, <3>2
    <3> QED
      BY <2>1, <3>2, <3>3, <3>4, BeforeRows
  <2>3. ToSet(fields) = {} /\ DOMAIN fields = {}
    BY <1>1 DEF ToSet
  <2> QED
    BY <1>1, <2>2, <2>3 DEF FieldsInv
<1> QED
  BY <1>3, <1>5, <1>6, <1>7 DEF Inv

LEMMA DefinedInv ==
    ASSUME Inv, Defined
    PROVE  Inv'
<1>1. AllFields' = AllFields
  BY FieldsStable DEF Defined
<1>2. UNCHANGED <<stack, definition, depth, fields>> /\ at' = "run" /\ at = "call"
  BY DEF Defined
<1>3. TypeOK' /\ NeverInsideItself'
  BY <1>2 DEF Inv, TypeOK, NeverInsideItself, Definitions, Rows
<1>4. StackInv'
  BY <1>2 DEF Inv, StackInv, Top
<1>5. FieldsInv'
  BY <1>1, <1>2 DEF Inv, FieldsInv, Place
<1> QED
  BY <1>3, <1>4, <1>5 DEF Inv

LEMMA CallRaisesInv ==
    ASSUME Inv, CallRaises
    PROVE  Inv'
<1>1. /\ stack' = <<>> /\ fields' = <<>> /\ at' = "failed"
      /\ UNCHANGED <<depth, definition>>
  BY DEF CallRaises
<1>2. DOMAIN stack' = {} /\ Len(stack') = 0 /\ DOMAIN fields' = {}
  BY <1>1
<1>3. TypeOK'
  <2>1. /\ <<>> \in Seq([tab : Structures, row : 1..(MaxRows + 1)])
        /\ <<>> \in Seq(Seq(1..MaxRows))
    BY EmptySeq
  <2> QED
    BY <1>1, <2>1 DEF Inv, TypeOK, Definitions, Rows
<1>4. StackInv' /\ FieldsInv'
  BY <1>1, <1>2 DEF StackInv, FieldsInv
<1>5. NeverInsideItself'
  BY <1>1, <1>2 DEF Inv, TypeOK, NeverInsideItself
<1> QED
  BY <1>3, <1>4, <1>5 DEF Inv

\* The top frame goes on to its next row.
LEMMA AdvanceInv ==
    ASSUME TypeOK, StackInv, NeverInsideItself, stack /= <<>>, at = "run", MoreRows,
           stack' = Advanced, UNCHANGED <<depth, definition, at>>
    PROVE  /\ stack' \in Seq(Frames) /\ stack' /= <<>>
           /\ StackInv' /\ NeverInsideItself'
           /\ \A p \in Seq(Nat) :
                Before(p, Place') <=>
                  Before(p, Place) \/ (Len(p) >= Len(stack) /\ Agree(p, Place, Len(stack)))
<1> DEFINE n == Len(stack)
<1>1. /\ n \in Nat \ {0} /\ stack \in Seq(Frames) /\ Place \in Seq(Nat) /\ Len(Place) = n
      /\ \A i \in 1..n : /\ stack[i].tab \in Structures /\ stack[i].row \in 1..(MaxRows + 1)
                         /\ Place[i] = stack[i].row
  BY Cursor
<1>2. Top = stack[n] /\ Top.row + 1 <= Len(definition[Top.tab]) + 1
      /\ Top.row + 1 \in 1..(MaxRows + 1)
  <2>1. Top = stack[n] /\ Top.tab \in Structures /\ Top.row \in Nat
    BY <1>1 DEF Top, Last
  <2>2. Len(definition[Top.tab]) \in 0..MaxRows
    BY <2>1, Dictionary
  <2> QED
    BY <2>1, <2>2 DEF MoreRows
<1> DEFINE frame == [stack[n] EXCEPT !.row = @ + 1]
<1>3. frame \in Frames /\ frame.tab = stack[n].tab /\ frame.row = stack[n].row + 1
  <2>1. stack[n] \in Frames
    BY <1>1
  <2> QED
    BY <1>2, <2>1 DEF Frames
<1>4. stack' = [stack EXCEPT ![n] = frame]
  BY DEF Advanced
<1> HIDE DEF frame
<1>5. /\ stack' \in Seq(Frames) /\ Len(stack') = n /\ DOMAIN stack' = 1..n
      /\ \A i \in 1..n : stack'[i] = IF i = n THEN frame ELSE stack[i]
  BY SMTT(30), <1>1, <1>3, <1>4
<1>6. stack' /= <<>>
  BY <1>1, <1>5
<1>7. \A i \in 1..n : stack'[i].tab = stack[i].tab
  BY <1>3, <1>5
<1>8. StackInv'
  <2>1. stack'[1].tab = Root
    BY <1>1, <1>6, <1>7 DEF StackInv
  <2>2. \A i \in 1..n : stack'[i].row <= Len(definition[stack'[i].tab]) + 1
    <3> SUFFICES ASSUME NEW i \in 1..n
                 PROVE  stack'[i].row <= Len(definition[stack'[i].tab]) + 1
      OBVIOUS
    <3>1. CASE i = n
      BY <1>2, <1>3, <1>5, <3>1
    <3>2. CASE i /= n
      <4>1. stack'[i] = stack[i] /\ i \in DOMAIN stack
        BY <1>1, <1>5, <3>2
      <4> QED
        BY <4>1 DEF StackInv
    <3> QED
      BY <3>1, <3>2
  <2>3. \A i \in 1..(n - 1) : /\ i \in 1..n /\ i + 1 \in 1..n
                              /\ stack'[i] = stack[i] /\ stack'[i + 1].tab = stack[i + 1].tab
    BY <1>1, <1>5, <1>7
  <2>4. ASSUME NEW i \in 1..(n - 1)
        PROVE  /\ stack'[i].row <= Len(definition[stack'[i].tab])
               /\ definition[stack'[i].tab][stack'[i].row].named
               /\ definition[stack'[i].tab][stack'[i].row].nested = stack'[i + 1].tab
    BY SMTT(30), <2>3 DEF StackInv
  <2> QED
    BY <1>1, <1>5, <1>6, <2>1, <2>2, <2>4 DEF StackInv
<1>9. NeverInsideItself'
  BY <1>1, <1>5, <1>7 DEF NeverInsideItself
<1>10. /\ Place' \in Seq(Nat) /\ Len(Place') = n /\ Place'[n] = Place[n] + 1
       /\ Agree(Place', Place, n - 1)
  <2>1. Place' \in [1..n -> Nat] /\ \A i \in 1..n : Place'[i] = stack'[i].row
    <3>1. \A i \in 1..n : stack'[i].row \in Nat
      BY SMTT(30), <1>1, <1>3, <1>5
    <3> QED
      BY <1>5, <3>1 DEF Place
  <2>2. Place' \in Seq(Nat) /\ Len(Place') = n
    BY <1>1, <2>1, NumberSequence
  <2>3. n \in 1..n /\ Place'[n] = Place[n] + 1
    BY <1>1, <1>3, <1>5, <2>1
  <2>4. \A i \in 1..(n - 1) : Place'[i] = Place[i]
    BY <1>1, <1>5, <2>1
  <2> QED
    BY <2>2, <2>3, <2>4 DEF Agree
<1>11. \A p \in Seq(Nat) :
         Before(p, Place') <=> Before(p, Place) \/ (Len(p) >= n /\ Agree(p, Place, n))
  BY <1>1, <1>10, AdvancePasses
<1> QED
  BY <1>5, <1>6, <1>8, <1>9, <1>11

\* Fields are sequences of numbers.
LEMMA FieldNumbers ==
    ASSUME TypeOK, NEW p \in AllFields
    PROVE  p \in Seq(Nat) /\ p \in Seq(Nat \ {0}) /\ Len(p) \in Nat
  BY FieldPlace, PlaceNumbers

LEMMA SkipRowInv ==
    ASSUME Inv, SkipRow
    PROVE  Inv'
<1> USE DEF Inv
<1>1. /\ at = "run" /\ MoreRows /\ ~Row.named /\ stack' = Advanced
      /\ UNCHANGED <<depth, definition, fields, at>>
  BY DEF SkipRow
<1>2. stack /= <<>>
  BY <1>1 DEF StackInv
<1>3. /\ stack' \in Seq(Frames) /\ stack' /= <<>>
      /\ StackInv' /\ NeverInsideItself'
      /\ \A p \in Seq(Nat) :
           Before(p, Place') <=>
             Before(p, Place) \/ (Len(p) >= Len(stack) /\ Agree(p, Place, Len(stack)))
  BY <1>1, <1>2, AdvanceInv
<1>4. TypeOK'
  BY <1>1, <1>3 DEF TypeOK, Frames, Definitions, Rows
<1>5. AllFields' = AllFields
  BY <1>1, FieldsStable
<1>6. \A p \in AllFields : Before(p, Place') <=> Before(p, Place)
  <2>1. \A p \in AllFields : ~(Len(p) >= Len(stack) /\ Agree(p, Place, Len(stack)))
    BY <1>1, <1>2, FieldAtCursor
  <2> QED
    BY <1>3, <2>1, FieldNumbers
<1>7. FieldsInv'
  <2>1. ToSet(fields) = {p \in AllFields : Before(p, Place')}
    BY <1>2, <1>6 DEF FieldsInv
  <2> QED
    BY <1>1, <1>5, <2>1 DEF FieldsInv
<1> QED
  BY <1>3, <1>4, <1>7

\* The field at the cursor is the next in reading order.
LEMMA AppendField ==
    ASSUME Inv, stack /= <<>>, MoreRows, Row.named, fields' = Append(fields, Place)
    PROVE  /\ fields' \in Seq(Seq(1..MaxRows))
           /\ ToSet(fields') = {p \in AllFields : Before(p, Place) \/ p = Place}
           /\ \A i, j \in DOMAIN fields' : i < j => Before(fields'[i], fields'[j])
<1> USE DEF Inv
<1>1. Place \in AllFields /\ Place \in Seq(1..MaxRows)
  BY RowIsField, FieldPlace
<1>2. fields \in Seq(Seq(1..MaxRows)) /\ Len(fields) \in Nat /\ DOMAIN fields = 1..Len(fields)
  BY DEF TypeOK
<1>3. /\ fields' \in Seq(Seq(1..MaxRows))
      /\ DOMAIN fields' = 1..(Len(fields) + 1)
      /\ fields'[Len(fields) + 1] = Place
      /\ \A i \in 1..Len(fields) : fields'[i] = fields[i]
  BY <1>1, <1>2
<1>4. ToSet(fields) = {p \in AllFields : Before(p, Place)}
  BY DEF FieldsInv
<1>5. \A p : p \in ToSet(fields') <=> p \in ToSet(fields) \/ p = Place
  <2>1. \A p : p \in ToSet(fields') <=> \E i \in 1..(Len(fields) + 1) : p = fields'[i]
    BY <1>3 DEF ToSet
  <2>2. \A p : p \in ToSet(fields) <=> \E i \in 1..Len(fields) : p = fields[i]
    BY <1>2 DEF ToSet
  <2>3. \A i : i \in 1..(Len(fields) + 1) <=> i \in 1..Len(fields) \/ i = Len(fields) + 1
    BY <1>2
  <2> QED
    BY <1>3, <2>1, <2>2, <2>3
<1>6. ASSUME NEW i \in DOMAIN fields', NEW j \in DOMAIN fields', i < j
      PROVE  Before(fields'[i], fields'[j])
  <2>1. i \in 1..Len(fields) /\ fields'[i] = fields[i]
    BY <1>2, <1>3, <1>6
  <2>2. CASE j = Len(fields) + 1
    <3>1. fields[i] \in ToSet(fields)
      BY <1>2, <2>1 DEF ToSet
    <3> QED
      BY <1>3, <1>4, <2>1, <2>2, <3>1
  <2>3. CASE j /= Len(fields) + 1
    <3>1. j \in 1..Len(fields) /\ fields'[j] = fields[j]
      BY <1>2, <1>3, <2>3
    <3> QED
      BY <1>2, <1>6, <2>1, <3>1 DEF FieldsInv
  <2> QED
    BY <2>2, <2>3
<1> QED
  BY <1>1, <1>3, <1>4, <1>5, <1>6

LEMMA AddFieldInv ==
    ASSUME Inv, AddField
    PROVE  Inv'
<1> USE DEF Inv
<1>1. /\ at = "run" /\ MoreRows /\ Row.named /\ stack' = Advanced
      /\ fields' = Append(fields, Place)
      /\ Row.nested = None \/ ~Worth(Row.nested)
      /\ UNCHANGED <<depth, definition, at>>
  BY DEF AddField
<1>2. stack /= <<>>
  BY <1>1 DEF StackInv
<1>3. /\ stack' \in Seq(Frames) /\ stack' /= <<>>
      /\ StackInv' /\ NeverInsideItself'
      /\ \A p \in Seq(Nat) :
           Before(p, Place') <=>
             Before(p, Place) \/ (Len(p) >= Len(stack) /\ Agree(p, Place, Len(stack)))
  BY <1>1, <1>2, AdvanceInv
<1>4. /\ fields' \in Seq(Seq(1..MaxRows))
      /\ ToSet(fields') = {p \in AllFields : Before(p, Place) \/ p = Place}
      /\ \A i, j \in DOMAIN fields' : i < j => Before(fields'[i], fields'[j])
  BY <1>1, <1>2, AppendField
<1>5. TypeOK'
  BY <1>1, <1>3, <1>4 DEF TypeOK, Frames, Definitions, Rows
<1>6. AllFields' = AllFields
  BY <1>1, FieldsStable
<1>7. \A p \in AllFields : Before(p, Place') <=> Before(p, Place) \/ p = Place
  <2>1. \A p \in AllFields :
          Len(p) >= Len(stack) /\ Agree(p, Place, Len(stack)) => p = Place
    BY <1>1, <1>2, FieldAtCursor
  <2>2. Len(Place) = Len(stack) /\ Len(stack) \in Nat /\ Agree(Place, Place, Len(stack))
    BY <1>2, Cursor DEF Agree
  <2>3. Len(Place) >= Len(stack)
    BY <2>2
  <2> QED
    BY <1>3, <2>1, <2>2, <2>3, FieldNumbers
<1>8. FieldsInv'
  <2>1. ToSet(fields') = {p \in AllFields : Before(p, Place')}
    BY <1>4, <1>7
  <2> QED
    BY <1>1, <1>4, <1>6, <2>1 DEF FieldsInv
<1> QED
  BY <1>3, <1>5, <1>8

LEMMA ExpandInv ==
    ASSUME Inv, Expand
    PROVE  Inv'
<1> USE DEF Inv
<1> DEFINE n == Len(stack)
           x == Row.nested
<1>1. /\ at = "run" /\ MoreRows /\ Row.named /\ x /= None /\ Worth(x)
      /\ stack' = Append(stack, Frame(x)) /\ at' = "call"
      /\ fields' = Append(fields, Place)
      /\ UNCHANGED <<depth, definition>>
  BY DEF Expand
<1>2. stack /= <<>>
  BY <1>1 DEF StackInv
<1>3. /\ n \in Nat \ {0} /\ stack \in Seq(Frames) /\ DOMAIN stack = 1..n
      /\ Place \in Seq(Nat) /\ Len(Place) = n /\ Top = stack[n]
      /\ \A i \in 1..n : /\ stack[i].tab \in Structures /\ stack[i].row \in 1..(MaxRows + 1)
                         /\ Place[i] = stack[i].row
  BY <1>2, Cursor DEF Top, Last
<1>4. x \in Structures
  <2>1. Top.row \in 1..Len(definition[Top.tab])
    <3>1. Top.tab \in Structures /\ Top.row \in Nat \ {0}
      BY <1>3
    <3>2. Len(definition[Top.tab]) \in Nat
      BY <3>1, Dictionary
    <3> QED
      BY <1>1, <3>1, <3>2 DEF MoreRows
  <2>2. Row \in Rows
    BY <1>3, <2>1, Dictionary DEF Row
  <2>3. Row.nested \in Structures \cup {None}
    <3>1. CASE Row \in [named : {TRUE}, nested : Structures \cup {None}]
      BY <3>1
    <3>2. CASE Row = [named |-> FALSE, nested |-> None]
      BY <3>2
    <3> QED
      BY Zenon, <2>2, <3>1, <3>2 DEF Rows
  <2> QED
    BY <1>1, <2>3
<1>5. Frame(x) \in Frames /\ Frame(x).tab = x /\ Frame(x).row = 1
  BY <1>4 DEF Frame, Frames
<1> DEFINE frame == Frame(x)
<1> HIDE DEF frame
<1>6. /\ stack' \in Seq(Frames) /\ Len(stack') = n + 1 /\ DOMAIN stack' = 1..(n + 1)
      /\ \A i \in 1..(n + 1) : stack'[i] = IF i = n + 1 THEN frame ELSE stack[i]
      /\ frame.tab = x /\ frame.row = 1
  BY <1>1, <1>3, <1>5 DEF frame
<1>7. stack' /= <<>> /\ stack'[n + 1] = frame /\ \A i \in 1..n : stack'[i] = stack[i]
  BY <1>3, <1>6
<1>8. StackInv'
  <2>1. stack'[1].tab = Root
    BY <1>2, <1>3, <1>7 DEF StackInv
  <2>2. Top'.row = 1
    BY <1>6, <1>7 DEF Top, Last
  <2>3. \A i \in 1..(n + 1) : stack'[i].row <= Len(definition[stack'[i].tab]) + 1
    <3> SUFFICES ASSUME NEW i \in 1..(n + 1)
                 PROVE  stack'[i].row <= Len(definition[stack'[i].tab]) + 1
      OBVIOUS
    <3>1. CASE i = n + 1
      <4>1. Len(definition[x]) \in Nat
        BY <1>4, Dictionary
      <4> QED
        BY <1>6, <3>1, <4>1
    <3>2. CASE i /= n + 1
      <4>1. stack'[i] = stack[i] /\ i \in DOMAIN stack
        BY SMTT(30), <1>3, <1>6, <3>2
      <4> QED
        BY <4>1 DEF StackInv
    <3> QED
      BY <3>1, <3>2
  <2>4. ASSUME NEW i \in 1..n
        PROVE  /\ stack'[i].row <= Len(definition[stack'[i].tab])
               /\ definition[stack'[i].tab][stack'[i].row].named
               /\ definition[stack'[i].tab][stack'[i].row].nested = stack'[i + 1].tab
    <3>1. CASE i = n
      BY <1>1, <1>3, <1>6, <1>7, <3>1 DEF MoreRows, Row
    <3>2. CASE i /= n
      <4>1. i \in 1..(n - 1) /\ stack'[i] = stack[i] /\ stack'[i + 1] = stack[i + 1]
        <5>1. i \in 1..(n - 1) /\ i + 1 \in 1..n
          <6>1. n \in Nat
            BY <1>3
          <6> HIDE DEF n
          <6> QED
            BY <3>2, <6>1
        <5> QED
          BY <1>7, <5>1
      <4> QED
        BY <4>1 DEF StackInv
    <3> QED
      BY Zenon, <3>1, <3>2
  <2>5. Len(stack') - 1 = n
    BY <1>3, <1>6
  <2> QED
    BY <1>1, <1>6, <1>7, <2>1, <2>2, <2>3, <2>4, <2>5 DEF StackInv
<1>9. NeverInsideItself'
  <2>1. \A i \in 1..n : stack[i].tab /= x
    BY <1>1, <1>3 DEF Worth, Seen
  <2>2. n + 1 <= depth
    BY <1>1, <1>3 DEF Worth, TypeOK
  <2>3. \A i, j \in 1..n : stack[i].tab = stack[j].tab => i = j
    BY <1>3 DEF NeverInsideItself
  <2>4. \A i \in 1..(n + 1) : i \in 1..n \/ i = n + 1
    BY <1>3
  <2>5. \A i, j \in 1..(n + 1) : stack'[i].tab = stack'[j].tab => i = j
    BY <1>6, <1>7, <2>1, <2>3, <2>4
  <2> QED
    BY <1>1, <1>6, <2>2, <2>5 DEF NeverInsideItself
<1>10. Place' = Append(Place, 1)
  <2>1. Append(Place, 1) \in Seq(Nat) /\ Len(Append(Place, 1)) = n + 1
        /\ \A i \in 1..(n + 1) : Append(Place, 1)[i] = IF i = n + 1 THEN 1 ELSE Place[i]
    BY <1>3
  <2>2. \A i \in 1..(n + 1) : stack'[i].row = IF i = n + 1 THEN 1 ELSE Place[i]
    BY <1>3, <1>6, <1>7
  <2>3. \A i \in 1..(n + 1) : stack'[i].row \in Nat
    <3>1. \A i \in 1..(n + 1) : i /= n + 1 => i \in 1..n
      BY <1>3
    <3>2. \A i \in 1..n : Place[i] \in Nat
      BY <1>3
    <3> QED
      BY <2>2, <3>1, <3>2
  <2>4. Place' \in [1..(n + 1) -> Nat] /\ \A i \in 1..(n + 1) : Place'[i] = stack'[i].row
    BY <1>6, <2>3 DEF Place
  <2>5. Place' \in Seq(Nat) /\ Len(Place') = n + 1
    BY <1>3, <2>4, NumberSequence
  <2> QED
    BY <2>1, <2>2, <2>4, <2>5, SeqEqual
<1>11. /\ fields' \in Seq(Seq(1..MaxRows))
       /\ ToSet(fields') = {p \in AllFields : Before(p, Place) \/ p = Place}
       /\ \A i, j \in DOMAIN fields' : i < j => Before(fields'[i], fields'[j])
  BY <1>1, <1>2, AppendField
<1>12. TypeOK'
  BY <1>1, <1>6, <1>11 DEF TypeOK, Frames, Definitions, Rows
<1>13. AllFields' = AllFields
  BY <1>1, FieldsStable
<1>14. \A p \in AllFields : Before(p, Place') <=> Before(p, Place) \/ p = Place
  BY <1>3, <1>10, FieldNumbers, EnterPasses
<1>15. FieldsInv'
  <2>1. ToSet(fields') = {p \in AllFields : Before(p, Place')}
    BY <1>11, <1>14
  <2> QED
    BY <1>1, <1>11, <1>13, <2>1 DEF FieldsInv
<1> QED
  BY <1>8, <1>9, <1>12, <1>15

\* The whole structure is expanded: the cursor has passed every field.
LEMMA RootReturnsInv ==
    ASSUME Inv, ReturnFields, Len(stack) = 1
    PROVE  Inv'
<1> USE DEF Inv
<1>1. /\ at = "run" /\ ~MoreRows /\ stack' = <<>> /\ at' = "done"
      /\ UNCHANGED <<depth, definition, fields>>
  BY DEF ReturnFields
<1>2. stack /= <<>>
  BY <1>1 DEF StackInv
<1>3. Len(stack') = 0 /\ DOMAIN stack' = {}
  BY <1>1
<1>4. TypeOK'
  <2>1. <<>> \in Seq([tab : Structures, row : 1..(MaxRows + 1)])
    BY EmptySeq
  <2> QED
    BY <1>1, <2>1 DEF TypeOK, Definitions, Rows
<1>5. StackInv' /\ NeverInsideItself'
  BY <1>1, <1>3 DEF StackInv, NeverInsideItself, TypeOK
<1>6. ASSUME NEW p \in AllFields PROVE Before(p, Place)
  <2>1. /\ Place \in Seq(Nat) /\ Len(Place) = 1 /\ Place[1] = Top.row
        /\ Top.tab = Root /\ Top.row \in Nat
    BY <1>2, Cursor DEF Top, Last, StackInv
  <2>2. p \in Seq(1..MaxRows) /\ Len(p) \in 1..depth /\ IsField(p)
    BY FieldPlace
  <2>3. DOMAIN p = 1..Len(p) /\ Len(p) \in Nat \ {0} /\ p \in Seq(Nat) /\ p[1] \in Nat
    BY <2>2, PlaceNumbers
  <2>4. Follow(p)[1] = Root
    <3>1. Follow(p) = [i \in 1..Len(p) |-> IF i = 1 THEN Root ELSE Into(Follow(p)[i - 1], p[i - 1])]
      BY <2>3, FollowDefined
    <3>2. 1 \in 1..Len(p)
      BY <2>3
    <3> QED
      BY <3>1, <3>2
  <2>5. p[1] <= Len(definition[Root])
    BY <2>2, <2>3, <2>4 DEF IsField
  <2>6. Len(definition[Root]) \in Nat
    BY Dictionary
  <2>7. p[1] < Place[1]
    BY <1>1, <2>1, <2>3, <2>5, <2>6 DEF MoreRows
  <2>8. 1 \in 1..Len(p) /\ Agree(p, Place, 1 - 1)
    BY <2>3 DEF Agree
  <2> QED
    <3>1. 1 <= Len(Place)
      BY <2>1
    <3>2. \E i \in 1..Len(p) : i <= Len(Place) /\ p[i] < Place[i] /\ Agree(p, Place, i - 1)
      BY Zenon, <2>7, <2>8, <3>1
    <3> QED
      BY Zenon, <2>1, <2>3, <3>2, BeforeRows
<1>7. FieldsInv'
  <2>1. AllFields' = AllFields
    BY <1>1, FieldsStable
  <2>2. ToSet(fields) = AllFields
    BY <1>2, <1>6 DEF FieldsInv
  <2> QED
    BY <1>1, <2>1, <2>2 DEF FieldsInv
<1> QED
  BY <1>4, <1>5, <1>7

\* A nested structure is expanded: its caller goes on behind it.
LEMMA NestedReturnsInv ==
    ASSUME Inv, ReturnFields, Len(stack) /= 1
    PROVE  Inv'
<1> USE DEF Inv
<1>1. /\ at = "run" /\ at' = "run" /\ ~MoreRows
      /\ stack' = LET caller == Front(stack) IN
                  [caller EXCEPT ![Len(caller)].row = @ + 1]
      /\ UNCHANGED <<depth, definition, fields>>
  BY DEF ReturnFields
<1>2. stack /= <<>>
  BY <1>1 DEF StackInv
<1>3. PICK n \in Nat \ {0} : Len(stack) = n + 1
  <2>1. Len(stack) \in Nat \ {0}
    BY <1>2, Cursor
  <2>2. Len(stack) - 1 \in Nat \ {0} /\ Len(stack) = (Len(stack) - 1) + 1
    BY <2>1
  <2> QED
    BY <2>2
<1>4. /\ stack \in Seq(Frames) /\ DOMAIN stack = 1..(n + 1)
      /\ Place \in Seq(Nat) /\ Len(Place) = n + 1 /\ Top = stack[n + 1]
      /\ \A i \in 1..(n + 1) :
           /\ stack[i].tab \in Structures /\ stack[i].row \in 1..(MaxRows + 1)
           /\ Place[i] = stack[i].row
  BY <1>2, <1>3, Cursor DEF Top, Last
<1>5. \A i \in 1..n :
        /\ stack[i].row <= Len(definition[stack[i].tab])
        /\ definition[stack[i].tab][stack[i].row].named
        /\ definition[stack[i].tab][stack[i].row].nested = stack[i + 1].tab
  BY <1>3 DEF StackInv
<1> DEFINE caller == Front(stack)
           frame == [stack[n] EXCEPT !.row = @ + 1]
<1>6. /\ caller \in Seq(Frames) /\ Len(caller) = n
      /\ \A i \in 1..n : caller[i] = stack[i]
  <2>1. (n + 1) - 1 = n
    OBVIOUS
  <2> QED
    BY <1>3, <1>4, <2>1 DEF Front
<1>7. /\ frame \in Frames /\ frame.tab = stack[n].tab /\ frame.row = stack[n].row + 1
      /\ frame.row <= Len(definition[frame.tab]) + 1
  <2>1. stack[n] \in Frames /\ stack[n].row <= Len(definition[stack[n].tab])
    BY <1>4, <1>5
  <2>2. Len(definition[stack[n].tab]) \in 0..MaxRows
    BY <1>4, Dictionary
  <2>3. stack[n].row + 1 \in 1..(MaxRows + 1)
    BY <1>4, <2>1, <2>2
  <2>4. frame \in Frames /\ frame.tab = stack[n].tab /\ frame.row = stack[n].row + 1
    BY <2>1, <2>3 DEF Frames
  <2>5. stack[n].row + 1 <= Len(definition[stack[n].tab]) + 1
    BY SMTT(30), <1>4, <2>1, <2>2
  <2> HIDE DEF frame
  <2> QED
    BY <2>4, <2>5
<1>8. stack' = [caller EXCEPT ![n] = frame]
  <2>1. caller[n] = stack[n]
    BY <1>6
  <2> QED
    BY <1>1, <1>6, <2>1
<1> HIDE DEF frame, caller
<1>9. /\ stack' \in Seq(Frames) /\ Len(stack') = n /\ DOMAIN stack' = 1..n
      /\ \A i \in 1..n : stack'[i] = IF i = n THEN frame ELSE stack[i]
  BY <1>6, <1>7, <1>8
<1>10. stack' /= <<>> /\ \A i \in 1..n : stack'[i].tab = stack[i].tab
  BY <1>7, <1>9
<1>11. StackInv'
  <2>1. stack'[1].tab = Root
    BY <1>2, <1>10 DEF StackInv
  <2>2. \A i \in 1..n : stack'[i].row <= Len(definition[stack'[i].tab]) + 1
    <3>1. \A i \in 1..n : stack[i].row <= Len(definition[stack[i].tab]) + 1
      BY SMTT(30), <1>4 DEF StackInv
    <3> QED
      BY <1>7, <1>9, <3>1
  <2>3. ASSUME NEW i \in 1..(n - 1)
        PROVE  /\ stack'[i].row <= Len(definition[stack'[i].tab])
               /\ definition[stack'[i].tab][stack'[i].row].named
               /\ definition[stack'[i].tab][stack'[i].row].nested = stack'[i + 1].tab
    <3>1. /\ i \in 1..n /\ i /= n /\ i + 1 \in 1..n
      OBVIOUS
    <3>2. stack'[i] = stack[i] /\ stack'[i + 1].tab = stack[i + 1].tab
      BY <1>9, <1>10, <3>1
    <3> QED
      BY <1>5, <3>1, <3>2
  <2> QED
    BY <1>1, <1>9, <1>10, <2>1, <2>2, <2>3 DEF StackInv, Top
<1>12. NeverInsideItself'
  <2>1. \A i, j \in 1..n : stack[i].tab = stack[j].tab => i = j
    <3>1. \A i \in 1..n : i \in DOMAIN stack
      BY <1>4
    <3> QED
      BY <3>1 DEF NeverInsideItself
  <2>2. n <= depth
    BY <1>3 DEF NeverInsideItself, TypeOK
  <2> QED
    BY <1>1, <1>9, <1>10, <2>1, <2>2 DEF NeverInsideItself
<1>13. TypeOK'
  BY <1>1, <1>9 DEF TypeOK, Frames, Definitions, Rows
<1>14. AllFields' = AllFields
  BY <1>1, FieldsStable
<1>15. /\ Place' \in Seq(Nat) /\ Len(Place') = n /\ Place'[n] = Place[n] + 1
       /\ Agree(Place', Place, n - 1)
  <2>1. \A i \in 1..n : stack[i].row \in Nat /\ stack'[i].row \in Nat
    <3>1. \A i \in 1..n : stack[i].row \in 1..(MaxRows + 1)
      BY <1>4
    <3>2. \A i \in 1..n : stack[i].row \in Nat
      BY <3>1
    <3>3. frame.row \in Nat
      BY <1>7, <3>2
    <3> QED
      BY <1>9, <3>2, <3>3
  <2>2. Place' \in [1..n -> Nat] /\ \A i \in 1..n : Place'[i] = stack'[i].row
    BY <1>9, <2>1 DEF Place
  <2>3. Place' \in Seq(Nat) /\ Len(Place') = n
    BY <2>2, NumberSequence
  <2>4. n \in 1..n /\ Place'[n] = Place[n] + 1
    <3>1. n \in 1..n /\ n \in 1..(n + 1)
      OBVIOUS
    <3>2. stack'[n].row = stack[n].row + 1
      BY <1>7, <1>9, <3>1
    <3> QED
      BY <1>4, <2>2, <3>1, <3>2
  <2>5. ASSUME NEW i \in 1..(n - 1) PROVE Place'[i] = Place[i]
    <3>1. i \in 1..n /\ i \in 1..(n + 1) /\ i /= n
      OBVIOUS
    <3>2. stack'[i] = stack[i]
      BY Zenon, <1>9, <3>1
    <3>3. Place'[i] = stack'[i].row /\ Place[i] = stack[i].row
      BY Zenon, <1>4, <2>2, <3>1
    <3> QED
      BY Zenon, <3>2, <3>3
  <2> QED
    BY <2>3, <2>4, <2>5 DEF Agree
<1>16. ASSUME NEW p \in AllFields, Len(p) > n, Agree(p, Place, n), p[n + 1] >= Place[n + 1]
       PROVE  FALSE
  <2>1. p \in Seq(1..MaxRows) /\ IsField(p)
    BY FieldPlace
  <2>2. /\ DOMAIN p = 1..Len(p) /\ Len(p) \in Nat
        /\ \A i \in 1..Len(p) : p[i] \in 1..MaxRows
    BY <2>1, PlaceNumbers
  <2>3. n + 1 \in 1..Len(stack) /\ Len(p) >= n + 1 /\ (n + 1) - 1 = n
    BY <1>3, <1>16, <2>2
  <2>4. Follow(p)[n + 1] = Top.tab
    <3>1. \A i \in 1..(n + 1) : Follow(p)[i] = stack[i].tab
      BY <1>2, <1>16, <2>1, <2>3, OnTheWay
    <3> QED
      BY <1>4, <3>1
  <2>5. n + 1 \in DOMAIN p /\ p[n + 1] \in Nat
    BY <2>2, <2>3
  <2>6. p[n + 1] <= Len(definition[Top.tab])
    BY <2>1, <2>4, <2>5 DEF IsField
  <2>7. Len(definition[Top.tab]) \in Nat /\ Top.row \in Nat /\ Place[n + 1] = Top.row
    BY <1>4, Dictionary
  <2> QED
    BY <1>1, <1>16, <2>5, <2>6, <2>7 DEF MoreRows
<1>17. \A p \in AllFields : Before(p, Place') <=> Before(p, Place)
  <2> SUFFICES ASSUME NEW p \in AllFields PROVE Before(p, Place') <=> Before(p, Place)
    OBVIOUS
  <2>1. p \in Seq(Nat)
    BY FieldNumbers
  <2>2. Before(p, Place') <=>
          \/ Before(p, Place)
          \/ Len(p) > n /\ Agree(p, Place, n) /\ p[n + 1] >= Place[n + 1]
    BY <1>4, <1>15, <2>1, ReturnPasses
  <2> QED
    BY <1>16, <2>2
<1>18. FieldsInv'
  <2>1. ToSet(fields) = {p \in AllFields : Before(p, Place')}
    BY <1>2, <1>17 DEF FieldsInv
  <2> QED
    BY <1>1, <1>14, <2>1 DEF FieldsInv
<1> QED
  BY <1>11, <1>12, <1>13, <1>18

LEMMA StepInv == Inv /\ [Next]_vars => Inv'
<1> SUFFICES ASSUME Inv, [Next]_vars PROVE Inv'
  OBVIOUS
<1>1. CASE UNCHANGED vars
  <2>1. UNCHANGED <<depth, definition, stack, fields, at>>
    BY <1>1 DEF vars
  <2>2. AllFields' = AllFields
    BY <2>1, FieldsStable
  <2>3. TypeOK' /\ StackInv' /\ NeverInsideItself'
    BY <2>1 DEF Inv, TypeOK, StackInv, NeverInsideItself, Top, Definitions, Rows
  <2>4. FieldsInv'
    BY <2>1, <2>2 DEF Inv, FieldsInv, Place
  <2> QED
    BY <2>3, <2>4 DEF Inv
<1>2. CASE ReturnFields
  BY <1>2, RootReturnsInv, NestedReturnsInv
<1> QED
  BY <1>1, <1>2, DefinedInv, CallRaisesInv, SkipRowInv, AddFieldInv, ExpandInv DEF Next

LEMMA Invariance == Spec => []Inv
  BY InitInv, StepInv, PTL DEF Spec

-----------------------------------------------------------------------------
(* The properties *)

\* The frames, the rows and the result of _resolve() have their types.
THEOREM TypeCorrect == Spec => []TypeOK
<1>1. Inv => TypeOK
  BY DEF Inv
<1> QED
  BY <1>1, Invariance, PTL

\* The recursion of _resolve() never enters a structure it is inside of and
\* never goes deeper than structure_resolution_max_depth, whatever references
\* the dictionary has, cyclic ones included.
THEOREM RecursionBounded == Spec => []NeverInsideItself
<1>1. Inv => NeverInsideItself
  BY DEF Inv
<1> QED
  BY <1>1, Invariance, PTL

\* resolve_structure_fields() returns each field that can be reached within the
\* depth without entering a structure twice, once and in reading order: for
\* every dictionary, every depth and any number of rows.
THEOREM ResolutionExact == Spec => []FieldsExact
<1>1. Inv => FieldsExact
  BY DEF Inv, FieldsInv, FieldsExact
<1> QED
  BY <1>1, Invariance, PTL
=============================================================================

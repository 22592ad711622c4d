---------------------------- MODULE NaturalOrder ----------------------------
(***************************************************************************)
(* Induction without a predicate: of the natural numbers for which         *)
(* something fails there is a least one.  And recursion without an         *)
(* operator: what a recursive function computes at an argument is given by *)
(* functions of that argument and of the value at a smaller one.           *)
(***************************************************************************)
EXTENDS WellFoundedInduction, TLAPS

\* Every set of natural numbers that is not empty has a least element.
LEMMA LeastNatural ==
  ASSUME NEW S \in SUBSET Nat, S # {}
  PROVE  \E x \in S : \A y \in S : x <= y
<1>1. \E x \in S : \A y \in S : ~(<<y, x>> \in OpToRel(<, Nat))
  BY NatLessThanWellFounded, WFMin
<1>2. \A x, y \in Nat : y < x => <<y, x>> \in OpToRel(<, Nat)
  BY DEF OpToRel
<1>3. PICK x \in S : \A y \in S : ~(<<y, x>> \in OpToRel(<, Nat))
  BY <1>1
<1>4. \A y \in S : y \in Nat /\ x \in Nat /\ ~(y < x)
  BY <1>2, <1>3
<1>5. \A y \in S : x <= y
  BY <1>4
<1> QED
  BY <1>5

\* Induction along the natural numbers to N, for the numbers in a set.
LEMMA StrongInduction ==
  ASSUME NEW N \in Int, NEW Good, \A n \in 0 .. N : (0 .. n - 1) \subseteq Good => n \in Good
  PROVE  0 .. N \subseteq Good
<1> DEFINE Fails == {n \in 0 .. N : n \notin Good}
<1> SUFFICES ASSUME Fails # {} PROVE FALSE
  OBVIOUS
<1>1. \A n \in Fails : n \in 0 .. N /\ n \in Nat
  OBVIOUS
<1>2. PICK m \in Fails : \A n \in Fails : m <= n
  <2> HIDE DEF Fails
  <2> QED
    BY <1>1, LeastNatural
<1>3. \A n \in 0 .. m - 1 : n \in 0 .. N /\ ~(m <= n)
  BY <1>1
<1>4. (0 .. m - 1) \subseteq Good
  BY <1>2, <1>3
<1> QED
  BY <1>1, <1>4

LEMMA StepInduction ==
  ASSUME NEW N \in Int, NEW Good, 0 \in Good, \A n \in 0 .. N - 1 : n \in Good => n + 1 \in Good
  PROVE  0 .. N \subseteq Good
<1>1. ASSUME NEW n \in 0 .. N, (0 .. n - 1) \subseteq Good PROVE n \in Good
  <2>1. CASE n = 0
    BY <2>1
  <2>2. CASE n # 0
    <3>1. n - 1 \in 0 .. N - 1 /\ n - 1 \in 0 .. n - 1 /\ (n - 1) + 1 = n
      BY <2>2
    <3> QED
      BY <1>1, <3>1
  <2> QED
    BY <2>1, <2>2
<1> QED
  BY <1>1, StrongInduction

\* What a recursive function has at x, when g is what it has elsewhere: a value
\* of its own in stop, and else what step makes of the value at down[x].
Unfolded(g, x, stop, first, down, step) == IF x \in stop THEN first[x] ELSE step[x][g[down[x]]]

\* down leads to a lower rank, until stop.
Recursion(D, S, N, rank, stop, first, down, step) ==
  /\ N \in Nat /\ rank \in [D -> 0 .. N]
  /\ first \in [D -> S] /\ down \in [D -> D] /\ step \in [D -> [S -> S]]
  /\ \A x \in D : x \in stop \/ rank[down[x]] < rank[x]

\* Then there is the recursive function.
LEMMA RecursionExists ==
  ASSUME NEW D, NEW S, NEW N, NEW rank, NEW stop, NEW first, NEW down, NEW step,
         Recursion(D, S, N, rank, stop, first, down, step)
  PROVE  \E g \in [D -> S] : g = [x \in D |-> Unfolded(g, x, stop, first, down, step)]
<1>0. /\ N \in Nat /\ rank \in [D -> 0 .. N]
      /\ first \in [D -> S] /\ down \in [D -> D] /\ step \in [D -> [S -> S]]
      /\ \A x \in D : x \in stop \/ rank[down[x]] < rank[x]
  BY DEF Recursion
<1> DEFINE Body(g, x) == Unfolded(g, x, stop, first, down, step)
           Up(g, n) == \A x \in D : rank[x] <= n => g[x] = Body(g, x)
           Fails == {n \in 0 .. N : ~ \E g \in [D -> S] : Up(g, n)}
<1>1. \A x \in D : rank[x] \in 0 .. N /\ down[x] \in D /\ first[x] \in S /\ step[x] \in [S -> S]
  BY <1>0
<1>2. \A g \in [D -> S], x \in D : Body(g, x) \in S
  BY <1>1 DEF Unfolded
<1>3. \A g, h \in [D -> S], x \in D : (x \notin stop => g[down[x]] = h[down[x]]) => Body(g, x) = Body(h, x)
  BY DEF Unfolded
<1>4. \A x \in D : rank[x] <= 0 => x \in stop
  BY <1>0, <1>1
<1>5. Up(first, 0)
  BY <1>4 DEF Unfolded
<1>6. \E g \in [D -> S] : Up(g, N)
  <2> SUFFICES ASSUME N \in Fails PROVE FALSE
    BY <1>0
  <2>0. N \in Fails /\ \A n \in Fails : n \in Nat
    BY DEF Up
  <2> HIDE DEF Fails
  <2>1. Fails \in SUBSET Nat /\ Fails # {}
    BY <2>0
  <2>2. PICK m \in Fails : \A y \in Fails : m <= y
    BY <2>1, LeastNatural
  <2>3. m \in 0 .. N /\ ~ \E g \in [D -> S] : Up(g, m)
    BY <2>2 DEF Fails
  <2>4. m # 0
    BY <1>0, <1>5, <2>3
  <2> DEFINE p == m - 1
  <2>5. p \in 0 .. N /\ p + 1 = m /\ ~(m <= p)
    BY <2>3, <2>4
  <2>6. PICK g \in [D -> S] : Up(g, p)
    BY <2>2, <2>5 DEF Fails
  <2> HIDE DEF p
  <2> DEFINE h == [x \in D |-> IF rank[x] <= p THEN g[x] ELSE Body(g, x)]
  <2>7. h \in [D -> S]
    BY <1>2
  <2>8. \A x \in D : rank[x] <= p => h[x] = g[x]
    OBVIOUS
  <2>9. \A x \in D : h[x] = Body(g, x)
    BY <2>6
  <2> HIDE DEF h, Body
  <2>10. ASSUME NEW x \in D, rank[x] <= m PROVE h[x] = Body(h, x)
    <3>1. x \notin stop => rank[down[x]] <= p
        BY <1>0, <1>1, <2>5, <2>10
    <3>2. x \notin stop => h[down[x]] = g[down[x]]
      BY <1>1, <2>8, <3>1
    <3> QED
      BY <1>3, <2>7, <2>9, <3>2
  <2> QED
    BY <2>3, <2>7, <2>10
<1>7. PICK g \in [D -> S] : Up(g, N)
  BY <1>6
<1>8. \A x \in D : g[x] = Body(g, x)
  BY <1>1, <1>7
<1>9. g = [x \in D |-> g[x]]
  OBVIOUS
<1>10. g = [x \in D |-> Body(g, x)]
  BY <1>8, <1>9
<1> QED
  BY <1>10
=============================================================================

---------------------------- MODULE LibraryProofs ----------------------------
(***************************************************************************)
(* Proofs about the list, the descriptors, the bitmap, the two formatters  *)
(* and the string functions, whose runs are those of MCLibrary.            *)
(*                                                                         *)
(* The list: the pointers of lib/list.c always represent the promised      *)
(* order, for any set of lists and of nodes.  ListsLinked alone is not     *)
(* inductive: that a call on one list leaves the others linked, and does   *)
(* not write one pointer twice, needs that a node is in one list once      *)
(* (NodesDistinct).  The first lemmas are about single sequences and two   *)
(* pointer functions: what putting an element in front, at the end, or     *)
(* taking the k-th out does to their elements and links.  The calls then   *)
(* cite them for the list they change, and show that they write no node of *)
(* another one.                                                            *)
(*                                                                         *)
(* The descriptors: what the processor reads is what was stored, bit by    *)
(* bit, for every address, base, limit and attribute.                      *)
(*                                                                         *)
(* The bitmap: the search takes the first run it may, for every size.      *)
(* That the function the search is written as exists, and what it returns, *)
(* is shown from the end of the bitmap backwards: of the places from which *)
(* it holds there is a lowest one, and that is 0.                          *)
(*                                                                         *)
(* The formatters: a number is printed so that it reads back, for ints and *)
(* longs of any size.  A text is cut into blanks, a sign and a prefix,     *)
(* zeros, figures and blanks (NumberLayout); figures denote the number     *)
(* whose remainders they are (ReversedReads), the zeros before them do not *)
(* count (ValueOfZeros), and how long the parts are says where the blanks  *)
(* are (SumsAgree).  Reading such a text takes the sign and the prefix off *)
(* and comes back to the figures (TextReads).  What number gets from a     *)
(* directive is the number the directive denotes (DirectiveNumber,         *)
(* MagnitudeDenotes).                                                      *)
(*                                                                         *)
(* The strings: kernel_itoa, which takes remainders of negative numbers    *)
(* too, has the digits of number (ItoaDigits) and so reads back as well;   *)
(* a copy of bytes is followed byte by byte (MemcpyCopies), for a memory   *)
(* of any size; of the places up to which two strings agree there is a     *)
(* last one (GreatestBelow).                                               *)
(***************************************************************************)
EXTENDS MCLibrary, NaturalOrder, SequenceTheorems, TLAPS

IInv == TypeOK /\ NodesDistinct /\ ListsLinked

LEMMA PrependFacts ==
  ASSUME NEW S, NEW s \in Seq(S), NEW e \in S
  PROVE  /\ <<e>> \o s \in Seq(S)
         /\ Len(<<e>> \o s) = Len(s) + 1
         /\ (<<e>> \o s)[1] = e
         /\ \A i \in 2 .. Len(s) + 1 : (<<e>> \o s)[i] = s[i - 1]
  OBVIOUS

LEMMA AppendFacts ==
  ASSUME NEW S, NEW s \in Seq(S), NEW e \in S
  PROVE  /\ Append(s, e) \in Seq(S)
         /\ Len(Append(s, e)) = Len(s) + 1
         /\ Append(s, e)[Len(s) + 1] = e
         /\ \A i \in 1 .. Len(s) : Append(s, e)[i] = s[i]
  OBVIOUS

LEMMA WithoutFacts ==
  ASSUME NEW S, NEW s \in Seq(S), NEW k \in 1 .. Len(s)
  PROVE  /\ Without(s, k) \in Seq(S)
         /\ Len(Without(s, k)) = Len(s) - 1
         /\ \A i \in 1 .. Len(s) - 1 : Without(s, k)[i] = IF i < k THEN s[i] ELSE s[i + 1]
<1>1. Len(s) \in Nat /\ Len(s) - 1 \in Nat
  OBVIOUS
<1>2. \A j \in 1 .. Len(s) - 1 : (IF j < k THEN s[j] ELSE s[j + 1]) \in S
  OBVIOUS
<1>3. Without(s, k) \in [1 .. Len(s) - 1 -> S]
  BY <1>2 DEF Without
<1> QED
  BY <1>1, <1>3 DEF Without

\* The elements of the three sequences the calls produce.
LEMMA PrependElements ==
  ASSUME NEW s \in Seq(Node), NEW n \in Node, n \notin Elements(s), Distinct(s)
  PROVE  Elements(<<n>> \o s) = Elements(s) \cup {n} /\ Distinct(<<n>> \o s)
<1> DEFINE t == <<n>> \o s
<1>1. /\ Len(s) \in Nat /\ Len(t) = Len(s) + 1 /\ t[1] = n
      /\ \A i \in 2 .. Len(s) + 1 : t[i] = s[i - 1]
  BY PrependFacts
<1>2. \A i \in 1 .. Len(s) : t[i + 1] = s[i] /\ i + 1 \in 1 .. Len(s) + 1
  BY <1>1
<1> HIDE DEF t
<1>3. Elements(t) = Elements(s) \cup {n}
  <2>1. \A i \in 1 .. Len(s) + 1 : i = 1 \/ (i - 1 \in 1 .. Len(s) /\ t[i] = s[i - 1])
    BY <1>1
  <2>2. Elements(t) \subseteq Elements(s) \cup {n}
    BY <1>1, <2>1 DEF Elements
  <2>3. n \in Elements(t)
    <3>1. 1 \in 1 .. Len(t)
      BY <1>1
    <3> QED
      BY <1>1, <3>1 DEF Elements
  <2>4. Elements(s) \subseteq Elements(t)
    BY <1>1, <1>2 DEF Elements
  <2> QED
    BY <2>2, <2>3, <2>4
<1>4. Distinct(t)
  BY <1>1 DEF Elements, Distinct
<1> QED
  BY <1>3, <1>4 DEF t

LEMMA AppendElements ==
  ASSUME NEW s \in Seq(Node), NEW n \in Node, n \notin Elements(s), Distinct(s)
  PROVE  Elements(Append(s, n)) = Elements(s) \cup {n} /\ Distinct(Append(s, n))
<1> DEFINE t == Append(s, n)
<1>1. /\ Len(s) \in Nat /\ Len(t) = Len(s) + 1 /\ t[Len(s) + 1] = n
      /\ \A i \in 1 .. Len(s) : t[i] = s[i]
  BY AppendFacts
<1> HIDE DEF t
<1>2. Elements(t) = Elements(s) \cup {n}
  BY <1>1 DEF Elements
<1>3. Distinct(t)
  BY <1>1 DEF Elements, Distinct
<1> QED
  BY <1>2, <1>3 DEF t

LEMMA WithoutElements ==
  ASSUME NEW s \in Seq(Node), NEW k \in 1 .. Len(s), Distinct(s)
  PROVE  Elements(Without(s, k)) = Elements(s) \ {s[k]} /\ Distinct(Without(s, k))
<1> DEFINE t == Without(s, k)
<1>1. /\ Len(s) \in Nat /\ Len(t) = Len(s) - 1
      /\ \A i \in 1 .. Len(s) - 1 : t[i] = IF i < k THEN s[i] ELSE s[i + 1]
  BY WithoutFacts
<1> HIDE DEF t
<1>2. Elements(t) = Elements(s) \ {s[k]}
  <2>1. ASSUME NEW e \in Elements(t) PROVE e \in Elements(s) \ {s[k]}
    <3>1. PICK i \in 1 .. Len(s) - 1 : e = t[i]
      BY <1>1 DEF Elements
    <3>2. CASE i < k
      BY <1>1, <3>1, <3>2 DEF Elements, Distinct
    <3>3. CASE ~(i < k)
      BY <1>1, <3>1, <3>3 DEF Elements, Distinct
    <3> QED
      BY <3>2, <3>3
  <2>2. ASSUME NEW e \in Elements(s), e # s[k] PROVE e \in Elements(t)
    <3>1. PICK i \in 1 .. Len(s) : e = s[i]
      BY DEF Elements
    <3>2. CASE i < k
      <4>1. i \in 1 .. Len(t) /\ t[i] = e
        BY <1>1, <3>1, <3>2
      <4> QED
        BY <4>1 DEF Elements
    <3>3. CASE i > k
      <4>1. i - 1 \in 1 .. Len(t) /\ t[i - 1] = e
        BY <1>1, <3>1, <3>3
      <4> QED
        BY <4>1 DEF Elements
    <3> QED
      BY <1>1, <2>2, <3>1, <3>2, <3>3
  <2> QED
    BY <2>1, <2>2
<1>3. Distinct(t)
  <2> SUFFICES ASSUME NEW i \in 1 .. Len(s) - 1, NEW j \in 1 .. Len(s) - 1, t[i] = t[j]
               PROVE  i = j
    BY <1>1 DEF Distinct
  <2>1. CASE i < k /\ j < k
    BY <1>1, <2>1 DEF Distinct
  <2>2. CASE i < k /\ ~(j < k)
    <3>1. s[i] = s[j + 1] /\ i \in 1 .. Len(s) /\ j + 1 \in 1 .. Len(s)
      BY <1>1, <2>2
    <3> QED
      BY <1>1, <2>2, <3>1 DEF Distinct
  <2>3. CASE ~(i < k) /\ j < k
    <3>1. s[i + 1] = s[j] /\ i + 1 \in 1 .. Len(s) /\ j \in 1 .. Len(s)
      BY <1>1, <2>3
    <3> QED
      BY <1>1, <2>3, <3>1 DEF Distinct
  <2>4. CASE ~(i < k) /\ ~(j < k)
    <3>1. s[i + 1] = s[j + 1] /\ i + 1 \in 1 .. Len(s) /\ j + 1 \in 1 .. Len(s)
      BY <1>1, <2>4
    <3>2. i + 1 = j + 1
      BY <3>1 DEF Distinct
    <3> QED
      BY <3>2
  <2> QED
    BY <2>1, <2>2, <2>3, <2>4
<1> QED
  BY <1>2, <1>3 DEF t

\* Pointers that change only outside of a sequence keep it linked.
LEMMA LinkedElsewhere ==
  ASSUME NEW s \in Seq(Node), NEW p, NEW q, NEW p1, NEW q1, Linked(s, p, q),
         \A m \in Elements(s) : p1[m] = p[m] /\ q1[m] = q[m]
  PROVE  Linked(s, p1, q1)
  BY DEF Linked, Elements

\* The pointers after each call, for the sequence it produces.
LEMMA PrependLinked ==
  ASSUME NEW s \in Seq(Node), NEW n \in Node, n \notin Elements(s), Distinct(s),
         NEW p, NEW q, NEW p1, NEW q1, Linked(s, p, q),
         p1[n] = Null, q1[n] = IF Len(s) = 0 THEN Null ELSE s[1],
         \A i \in 1 .. Len(s) : /\ p1[s[i]] = IF i = 1 THEN n ELSE p[s[i]]
                               /\ q1[s[i]] = q[s[i]]
  PROVE  Linked(<<n>> \o s, p1, q1)
<1> DEFINE t == <<n>> \o s
<1>1. /\ Len(s) \in Nat /\ Len(t) = Len(s) + 1 /\ t[1] = n
      /\ \A i \in 2 .. Len(s) + 1 : t[i] = s[i - 1]
  BY PrependFacts
<1> HIDE DEF t
<1>2. ASSUME NEW i \in 1 .. Len(s) + 1
      PROVE  /\ p1[t[i]] = IF i = 1 THEN Null ELSE t[i - 1]
             /\ q1[t[i]] = IF i = Len(s) + 1 THEN Null ELSE t[i + 1]
  <2>1. CASE i = 1
    BY <1>1, <2>1
  <2>2. CASE i > 1
    <3> DEFINE j == i - 1
    <3>1. j \in 1 .. Len(s) /\ i = j + 1 /\ t[i] = s[j]
      BY <1>1, <2>2
    <3>2. /\ p[s[j]] = IF j = 1 THEN Null ELSE s[j - 1]
          /\ q[s[j]] = IF j = Len(s) THEN Null ELSE s[j + 1]
      BY <3>1 DEF Linked
    <3>3. /\ p1[s[j]] = IF j = 1 THEN n ELSE s[j - 1]
          /\ q1[s[j]] = IF j = Len(s) THEN Null ELSE s[j + 1]
      BY <3>1, <3>2
    <3>4. t[i - 1] = IF j = 1 THEN n ELSE s[j - 1]
      <4>1. CASE i = 2
        BY <1>1, <4>1
      <4>2. CASE i > 2
        <5>1. i - 1 \in 2 .. Len(s) + 1
          BY <1>1, <3>1, <4>2
        <5> QED
          BY <1>1, <4>2, <5>1
      <4> QED
        BY <2>2, <4>1, <4>2
    <3>5. j # Len(s) => t[i + 1] = s[j + 1]
      <4>1. j # Len(s) => i + 1 \in 2 .. Len(s) + 1 /\ (i + 1) - 1 = j + 1
        BY <1>1, <3>1
      <4> QED
        BY <1>1, <4>1
    <3> QED
      BY <1>1, <2>2, <3>1, <3>3, <3>4, <3>5
  <2> QED
    BY <1>1, <2>1, <2>2
<1> QED
  BY <1>1, <1>2 DEF Linked, t

LEMMA AppendLinked ==
  ASSUME NEW s \in Seq(Node), NEW n \in Node, n \notin Elements(s), Distinct(s),
         NEW p, NEW q, NEW p1, NEW q1, Linked(s, p, q),
         p1[n] = (IF Len(s) = 0 THEN Null ELSE s[Len(s)]), q1[n] = Null,
         \A i \in 1 .. Len(s) : /\ p1[s[i]] = p[s[i]]
                               /\ q1[s[i]] = IF i = Len(s) THEN n ELSE q[s[i]]
  PROVE  Linked(Append(s, n), p1, q1)
<1> DEFINE t == Append(s, n)
<1>1. /\ Len(s) \in Nat /\ Len(t) = Len(s) + 1 /\ t[Len(s) + 1] = n
      /\ \A i \in 1 .. Len(s) : t[i] = s[i]
  BY AppendFacts
<1> HIDE DEF t
<1>2. ASSUME NEW i \in 1 .. Len(s) + 1
      PROVE  /\ p1[t[i]] = IF i = 1 THEN Null ELSE t[i - 1]
             /\ q1[t[i]] = IF i = Len(s) + 1 THEN Null ELSE t[i + 1]
  <2>1. CASE i = Len(s) + 1
    BY <1>1, <2>1
  <2>2. CASE i \in 1 .. Len(s)
    <3>1. /\ p[s[i]] = IF i = 1 THEN Null ELSE s[i - 1]
          /\ q[s[i]] = IF i = Len(s) THEN Null ELSE s[i + 1]
      BY <2>2 DEF Linked
    <3> QED
      BY <1>1, <2>2, <3>1
  <2> QED
    BY <1>1, <2>1, <2>2
<1> QED
  BY <1>1, <1>2 DEF Linked, t

LEMMA WithoutLinked ==
  ASSUME NEW s \in Seq(Node), NEW k \in 1 .. Len(s), Distinct(s),
         NEW p, NEW q, NEW p1, NEW q1, Linked(s, p, q),
         \A m \in Elements(s) \ {s[k]} :
           /\ p1[m] = IF m = q[s[k]] THEN p[s[k]] ELSE p[m]
           /\ q1[m] = IF m = p[s[k]] THEN q[s[k]] ELSE q[m]
  PROVE  Linked(Without(s, k), p1, q1)
<1> DEFINE t == Without(s, k)
<1>1. /\ Len(s) \in Nat /\ Len(t) = Len(s) - 1
      /\ \A i \in 1 .. Len(s) - 1 : t[i] = IF i < k THEN s[i] ELSE s[i + 1]
  BY WithoutFacts
<1> HIDE DEF t
<1>2. \A i \in 1 .. Len(s) : s[i] # Null
  BY NullAssumption
<1>3. /\ p[s[k]] = IF k = 1 THEN Null ELSE s[k - 1]
      /\ q[s[k]] = IF k = Len(s) THEN Null ELSE s[k + 1]
  BY DEF Linked
<1>4. ASSUME NEW j \in 1 .. Len(s), j # k
      PROVE  /\ p1[s[j]] = IF j = k + 1 THEN (IF k = 1 THEN Null ELSE s[k - 1])
                            ELSE IF j = 1 THEN Null ELSE s[j - 1]
             /\ q1[s[j]] = IF j = k - 1 THEN (IF k = Len(s) THEN Null ELSE s[k + 1])
                            ELSE IF j = Len(s) THEN Null ELSE s[j + 1]
  <2>1. s[j] \in Elements(s) \ {s[k]}
    BY <1>4 DEF Elements, Distinct
  <2>2. s[j] = q[s[k]] <=> j = k + 1
    BY <1>1, <1>2, <1>3 DEF Distinct
  <2>3. s[j] = p[s[k]] <=> j = k - 1
    BY <1>1, <1>2, <1>3 DEF Distinct
  <2>4. /\ p[s[j]] = IF j = 1 THEN Null ELSE s[j - 1]
        /\ q[s[j]] = IF j = Len(s) THEN Null ELSE s[j + 1]
    BY DEF Linked
  <2> QED
    BY <1>3, <2>1, <2>2, <2>3, <2>4
<1>5. ASSUME NEW i \in 1 .. Len(s) - 1
      PROVE  /\ p1[t[i]] = IF i = 1 THEN Null ELSE t[i - 1]
             /\ q1[t[i]] = IF i = Len(s) - 1 THEN Null ELSE t[i + 1]
  <2>1. CASE i < k
    <3>1. i \in 1 .. Len(s) /\ i # k /\ t[i] = s[i]
      BY <1>1, <2>1
    <3>2. i # 1 => t[i - 1] = s[i - 1]
      BY <1>1, <2>1
    <3>3. i # Len(s) - 1 => t[i + 1] = IF i = k - 1 THEN s[k + 1] ELSE s[i + 1]
      BY <1>1, <2>1
    <3> QED
      BY <1>1, <1>4, <2>1, <3>1, <3>2, <3>3
  <2>2. CASE ~(i < k)
    <3>1. i + 1 \in 1 .. Len(s) /\ i + 1 # k /\ t[i] = s[i + 1]
      BY <1>1, <2>2
    <3>2. i # 1 => t[i - 1] = IF i = k THEN s[k - 1] ELSE s[i]
      BY <1>1, <2>2
    <3>3. i # Len(s) - 1 => t[i + 1] = s[i + 2]
      BY <1>1, <2>2
    <3>4. /\ p1[s[i + 1]] = IF i = k THEN (IF k = 1 THEN Null ELSE s[k - 1]) ELSE s[i]
          /\ q1[s[i + 1]] = IF i + 1 = Len(s) THEN Null ELSE s[i + 2]
      <4> DEFINE j == i + 1
      <4>1. j \in 1 .. Len(s) /\ j # k /\ j # 1 /\ j # k - 1 /\ (j = k + 1 <=> i = k)
            /\ j - 1 = i /\ j + 1 = i + 2
        BY <1>1, <2>2
      <4> HIDE DEF j
      <4>2. /\ p1[s[j]] = IF i = k THEN (IF k = 1 THEN Null ELSE s[k - 1]) ELSE s[i]
            /\ q1[s[j]] = IF j = Len(s) THEN Null ELSE s[i + 2]
        BY <1>4, <4>1
      <4> QED
        BY <4>2 DEF j
    <3> QED
      BY <1>1, <2>2, <3>1, <3>2, <3>3, <3>4
  <2> QED
    BY <2>1, <2>2
<1> QED
  BY <1>1, <1>5 DEF Linked, t

LEMMA WithoutEnds ==
  ASSUME NEW s \in Seq(Node), NEW k \in 1 .. Len(s), Distinct(s),
         NEW p, NEW q, NEW f, NEW e, NEW c, Linked(s, p, q), Ends(s, f, e, c)
  PROVE  Ends(Without(s, k), IF s[k] = f THEN q[s[k]] ELSE f,
                             IF s[k] = e THEN p[s[k]] ELSE e, c - 1)
<1> DEFINE t == Without(s, k)
<1>a. Len(s) \in Nat \ {0}
  OBVIOUS
<1>b. /\ Len(t) = Len(s) - 1
      /\ \A i \in 1 .. Len(s) - 1 : t[i] = IF i < k THEN s[i] ELSE s[i + 1]
  BY WithoutFacts
<1> HIDE DEF t
<1>1. /\ Len(s) \in Nat \ {0} /\ Len(t) = Len(s) - 1
      /\ \A i \in 1 .. Len(s) - 1 : t[i] = IF i < k THEN s[i] ELSE s[i + 1]
  BY <1>a, <1>b
<1>2. /\ p[s[k]] = IF k = 1 THEN Null ELSE s[k - 1]
      /\ q[s[k]] = IF k = Len(s) THEN Null ELSE s[k + 1]
  BY DEF Linked
<1>3. f = s[1] /\ e = s[Len(s)] /\ c = Len(s)
  BY <1>1 DEF Ends
<1>4. (s[k] = f <=> k = 1) /\ (s[k] = e <=> k = Len(s))
  BY <1>1, <1>3 DEF Distinct
<1>5. (IF s[k] = f THEN q[s[k]] ELSE f) = IF Len(t) = 0 THEN Null ELSE t[1]
  BY <1>1, <1>2, <1>3, <1>4
<1>6. (IF s[k] = e THEN p[s[k]] ELSE e) = IF Len(t) = 0 THEN Null ELSE t[Len(t)]
  BY <1>1, <1>2, <1>3, <1>4
<1> QED
  BY <1>1, <1>3, <1>5, <1>6 DEF Ends, t

-----------------------------------------------------------------------------
(* The list a call changes, and the lists it does not. *)
LEMMA OneListChanges ==
  ASSUME IInv, NEW l \in List, NEW t \in Seq(Node), NEW extra \in SUBSET Node,
         order' = [order EXCEPT ![l] = t],
         Elements(t) \subseteq Elements(order[l]) \cup extra, Distinct(t),
         \A n \in extra : InNoList(n)
  PROVE  /\ order' \in [List -> Seq(Node)]
         /\ NodesDistinct'
         /\ order'[l] = t /\ \A m \in List \ {l} : order'[m] = order[m]
<1>1. /\ order'[l] = t /\ \A m \in List \ {l} : order'[m] = order[m]
      /\ order' \in [List -> Seq(Node)]
  BY DEF IInv, TypeOK
<1>2. \A m \in List : Distinct(order'[m])
  BY <1>1 DEF IInv, NodesDistinct
<1>3. \A m \in List \ {l} : Elements(order'[l]) \cap Elements(order'[m]) = {}
  <2> SUFFICES ASSUME NEW m \in List \ {l}
               PROVE  Elements(t) \cap Elements(order[m]) = {}
    BY <1>1
  <2>1. Elements(order[l]) \cap Elements(order[m]) = {}
    BY DEF IInv, NodesDistinct
  <2>2. extra \cap Elements(order[m]) = {}
    BY DEF InNoList
  <2> QED
    BY <2>1, <2>2
<1>4. \A a, b \in List : a # b => Elements(order'[a]) \cap Elements(order'[b]) = {}
  BY <1>1, <1>3 DEF IInv, NodesDistinct
<1> QED
  BY <1>1, <1>2, <1>4 DEF NodesDistinct

\* A list that is not called keeps its links, if only nodes of the called list
\* and of none are written.
LEMMA OtherListsLinked ==
  ASSUME IInv, NEW l \in List, NEW m \in List, m # l,
         order'[m] = order[m], first'[m] = first[m], last'[m] = last[m], count'[m] = count[m],
         \A n \in Elements(order[m]) : pre'[n] = pre[n] /\ next'[n] = next[n]
  PROVE  Linked(order'[m], pre', next') /\ Ends(order'[m], first'[m], last'[m], count'[m])
<1>1. order[m] \in Seq(Node) /\ Linked(order[m], pre, next)
  BY DEF IInv, TypeOK, ListsLinked
<1>2. Linked(order[m], pre', next')
  BY <1>1, LinkedElsewhere
<1>3. Ends(order[m], first[m], last[m], count[m])
  BY DEF IInv, ListsLinked
<1> QED
  BY <1>2, <1>3

LEMMA InitIInv == Init => IInv
  BY DEF Init, IInv, TypeOK, NodesDistinct, Distinct, Elements, ListsLinked, Linked, Ends, Pointer

\* What the invariant says of one list.
LEMMA OfOneList ==
  ASSUME IInv, NEW l \in List
  PROVE  /\ order[l] \in Seq(Node) /\ Len(order[l]) \in Nat
         /\ Distinct(order[l]) /\ Elements(order[l]) \subseteq Node
         /\ Linked(order[l], pre, next)
         /\ Ends(order[l], first[l], last[l], count[l])
         /\ count[l] = Len(order[l])
         /\ first[l] \in Pointer /\ last[l] \in Pointer
  BY DEF IInv, TypeOK, NodesDistinct, ListsLinked, Ends, Elements

LEMMA InsertFirstIInv ==
  ASSUME IInv, NEW l \in List, NEW n \in Node, list_insert_first(l, n)
  PROVE  IInv'
<1> DEFINE s == order[l]
           t == <<n>> \o s
<1>1. /\ s \in Seq(Node) /\ Len(s) \in Nat /\ Distinct(s) /\ Elements(s) \subseteq Node
      /\ Linked(s, pre, next) /\ count[l] = Len(s) /\ first[l] \in Pointer
      /\ first[l] = IF Len(s) = 0 THEN Null ELSE s[1]
      /\ last[l] = IF Len(s) = 0 THEN Null ELSE s[Len(s)]
      /\ Empty(l) <=> Len(s) = 0
  BY OfOneList DEF Ends, Empty
<1>2. n \notin Elements(s) /\ InNoList(n)
  BY DEF list_insert_first, InNoList
<1>3. /\ t \in Seq(Node) /\ Elements(t) = Elements(s) \cup {n} /\ Distinct(t)
      /\ Len(t) = Len(s) + 1 /\ t[1] = n
      /\ \A i \in 2 .. Len(s) + 1 : t[i] = s[i - 1]
  BY <1>1, <1>2, PrependFacts, PrependElements
<1>4. order' = [order EXCEPT ![l] = t]
  BY DEF list_insert_first
<1> HIDE DEF t
<1>5. /\ order' \in [List -> Seq(Node)] /\ NodesDistinct'
      /\ order'[l] = t /\ \A m \in List \ {l} : order'[m] = order[m]
  <2>1. {n} \in SUBSET Node /\ Elements(t) \subseteq Elements(order[l]) \cup {n}
        /\ \A e \in {n} : InNoList(e)
    BY <1>2, <1>3
  <2> QED
    BY <1>3, <1>4, <2>1, OneListChanges
<1>6. /\ \A m \in Node : pre'[m] = IF m = n THEN Null
                                     ELSE IF ~Empty(l) /\ m = first[l] THEN n ELSE pre[m]
      /\ \A m \in Node : next'[m] = IF m = n THEN first[l] ELSE next[m]
      /\ pre' \in [Node -> Pointer] /\ next' \in [Node -> Pointer]
  BY <1>1 DEF list_insert_first, IInv, TypeOK, Pointer
<1>7. /\ first' \in [List -> Pointer] /\ last' \in [List -> Pointer]
      /\ count' \in [List -> Nat]
      /\ first'[l] = n /\ count'[l] = count[l] + 1
      /\ last'[l] = IF Len(s) = 0 THEN n ELSE s[Len(s)]
      /\ \A m \in List \ {l} : first'[m] = first[m] /\ last'[m] = last[m] /\ count'[m] = count[m]
  BY <1>1 DEF list_insert_first, IInv, TypeOK, Pointer
<1>8. Linked(t, pre', next')
  <2>1. \A i \in 1 .. Len(s) : s[i] \in Elements(s) /\ s[i] \in Node /\ s[i] # n
    BY <1>1, <1>2 DEF Elements
  <2>2. \A i \in 1 .. Len(s) : s[i] = first[l] <=> i = 1
    BY <1>1 DEF Distinct
  <2>3. \A i \in 1 .. Len(s) : /\ pre'[s[i]] = IF i = 1 THEN n ELSE pre[s[i]]
                               /\ next'[s[i]] = next[s[i]]
    BY <1>1, <1>6, <2>1, <2>2
  <2>4. pre'[n] = Null /\ next'[n] = IF Len(s) = 0 THEN Null ELSE s[1]
    BY <1>1, <1>6
  <2> QED
    BY <1>1, <1>2, <2>3, <2>4, PrependLinked DEF t
<1>9. Ends(t, first'[l], last'[l], count'[l])
  BY <1>1, <1>3, <1>7 DEF Ends
<1>10. ASSUME NEW m \in List, m # l
       PROVE  Linked(order'[m], pre', next') /\ Ends(order'[m], first'[m], last'[m], count'[m])
  <2>1. Elements(order[m]) \subseteq Node /\ n \notin Elements(order[m])
    BY <1>2, OfOneList DEF InNoList
  <2>2. ~Empty(l) => first[l] \notin Elements(order[m])
    <3>1. ~Empty(l) => first[l] \in Elements(s)
      BY <1>1 DEF Elements
    <3> QED
      BY <1>10, <3>1 DEF IInv, NodesDistinct
  <2>3. \A e \in Elements(order[m]) : pre'[e] = pre[e] /\ next'[e] = next[e]
    BY <1>6, <2>1, <2>2
  <2> QED
    BY <1>5, <1>7, <1>10, <2>3, OtherListsLinked
<1> QED
  BY <1>5, <1>6, <1>7, <1>8, <1>9, <1>10 DEF IInv, TypeOK, ListsLinked

LEMMA InsertLastIInv ==
  ASSUME IInv, NEW l \in List, NEW n \in Node, list_insert_last(l, n)
  PROVE  IInv'
<1> DEFINE s == order[l]
           t == Append(s, n)
<1>1. /\ s \in Seq(Node) /\ Len(s) \in Nat /\ Distinct(s) /\ Elements(s) \subseteq Node
      /\ Linked(s, pre, next) /\ count[l] = Len(s) /\ last[l] \in Pointer
      /\ first[l] = IF Len(s) = 0 THEN Null ELSE s[1]
      /\ last[l] = IF Len(s) = 0 THEN Null ELSE s[Len(s)]
      /\ Empty(l) <=> Len(s) = 0
  BY OfOneList DEF Ends, Empty
<1>2. n \notin Elements(s) /\ InNoList(n)
  BY DEF list_insert_last, InNoList
<1>3. /\ t \in Seq(Node) /\ Elements(t) = Elements(s) \cup {n} /\ Distinct(t)
      /\ Len(t) = Len(s) + 1 /\ t[Len(s) + 1] = n
      /\ \A i \in 1 .. Len(s) : t[i] = s[i]
  BY <1>1, <1>2, AppendFacts, AppendElements
<1>4. order' = [order EXCEPT ![l] = t]
  BY DEF list_insert_last
<1> HIDE DEF t
<1>5. /\ order' \in [List -> Seq(Node)] /\ NodesDistinct'
      /\ order'[l] = t /\ \A m \in List \ {l} : order'[m] = order[m]
  <2>1. {n} \in SUBSET Node /\ Elements(t) \subseteq Elements(order[l]) \cup {n}
        /\ \A e \in {n} : InNoList(e)
    BY <1>2, <1>3
  <2> QED
    BY <1>3, <1>4, <2>1, OneListChanges
<1>6. /\ \A m \in Node : pre'[m] = IF m = n THEN last[l] ELSE pre[m]
      /\ \A m \in Node : next'[m] = IF m = n THEN Null
                                      ELSE IF ~Empty(l) /\ m = last[l] THEN n ELSE next[m]
      /\ pre' \in [Node -> Pointer] /\ next' \in [Node -> Pointer]
  BY <1>1 DEF list_insert_last, IInv, TypeOK, Pointer
<1>7. /\ first' \in [List -> Pointer] /\ last' \in [List -> Pointer]
      /\ count' \in [List -> Nat]
      /\ last'[l] = n /\ count'[l] = count[l] + 1
      /\ first'[l] = IF Len(s) = 0 THEN n ELSE s[1]
      /\ \A m \in List \ {l} : first'[m] = first[m] /\ last'[m] = last[m] /\ count'[m] = count[m]
  BY <1>1 DEF list_insert_last, IInv, TypeOK, Pointer
<1>8. Linked(t, pre', next')
  <2>1. \A i \in 1 .. Len(s) : s[i] \in Elements(s) /\ s[i] \in Node /\ s[i] # n
    BY <1>1, <1>2 DEF Elements
  <2>2. \A i \in 1 .. Len(s) : s[i] = last[l] <=> i = Len(s)
    BY <1>1 DEF Distinct
  <2>3. \A i \in 1 .. Len(s) : /\ pre'[s[i]] = pre[s[i]]
                               /\ next'[s[i]] = IF i = Len(s) THEN n ELSE next[s[i]]
    BY <1>1, <1>6, <2>1, <2>2
  <2>4. next'[n] = Null /\ pre'[n] = IF Len(s) = 0 THEN Null ELSE s[Len(s)]
    BY <1>1, <1>6
  <2> QED
    BY <1>1, <1>2, <2>3, <2>4, AppendLinked DEF t
<1>9. Ends(t, first'[l], last'[l], count'[l])
  BY <1>1, <1>3, <1>7 DEF Ends
<1>10. ASSUME NEW m \in List, m # l
       PROVE  Linked(order'[m], pre', next') /\ Ends(order'[m], first'[m], last'[m], count'[m])
  <2>1. Elements(order[m]) \subseteq Node /\ n \notin Elements(order[m])
    BY <1>2, OfOneList DEF InNoList
  <2>2. ~Empty(l) => last[l] \notin Elements(order[m])
    <3>1. ~Empty(l) => last[l] \in Elements(s)
      BY <1>1 DEF Elements
    <3> QED
      BY <1>10, <3>1 DEF IInv, NodesDistinct
  <2>3. \A e \in Elements(order[m]) : pre'[e] = pre[e] /\ next'[e] = next[e]
    BY <1>6, <2>1, <2>2
  <2> QED
    BY <1>5, <1>7, <1>10, <2>3, OtherListsLinked
<1> QED
  BY <1>5, <1>6, <1>7, <1>8, <1>9, <1>10 DEF IInv, TypeOK, ListsLinked

LEMMA RemoveIInv ==
  ASSUME IInv, NEW l \in List, NEW k \in 1 .. Len(order[l]), list_remove(l, k)
  PROVE  IInv'
<1> DEFINE s == order[l]
           t == Without(s, k)
           n == s[k]
<1>1. /\ s \in Seq(Node) /\ Len(s) \in Nat \ {0} /\ Distinct(s) /\ Elements(s) \subseteq Node
      /\ Linked(s, pre, next) /\ Ends(s, first[l], last[l], count[l])
      /\ count[l] = Len(s)
      /\ n \in Elements(s)
  BY OfOneList DEF Elements
<1>2. t \in Seq(Node) /\ Elements(t) = Elements(s) \ {n} /\ Distinct(t)
  BY <1>1, WithoutFacts, WithoutElements
<1>3. /\ order' = [order EXCEPT ![l] = t]
      /\ \A m \in Node : next'[m] = IF m = n THEN Null
                                     ELSE IF m = pre[n] THEN next[n] ELSE next[m]
      /\ \A m \in Node : pre'[m] = IF m = n THEN Null
                                    ELSE IF m = next[n] THEN pre[n] ELSE pre[m]
  BY DEF list_remove
<1>4. n \in Node /\ pre[n] \in Pointer /\ next[n] \in Pointer
  BY <1>1 DEF IInv, TypeOK
<1>5. /\ pre' \in [Node -> Pointer] /\ next' \in [Node -> Pointer]
      /\ first' \in [List -> Pointer] /\ last' \in [List -> Pointer]
      /\ count' \in [List -> Nat]
      /\ first'[l] = IF n = first[l] THEN next[n] ELSE first[l]
      /\ last'[l] = IF n = last[l] THEN pre[n] ELSE last[l]
      /\ count'[l] = count[l] - 1
      /\ \A m \in List \ {l} : first'[m] = first[m] /\ last'[m] = last[m] /\ count'[m] = count[m]
  BY <1>1, <1>4 DEF list_remove, IInv, TypeOK, Pointer
<1>6. /\ pre[n] # Null => pre[n] \in Elements(s)
      /\ next[n] # Null => next[n] \in Elements(s)
  <2>1. /\ pre[n]  = IF k = 1 THEN Null ELSE s[k - 1]
        /\ next[n] = IF k = Len(s) THEN Null ELSE s[k + 1]
    BY <1>1 DEF Linked
  <2>2. k # 1 => k - 1 \in 1 .. Len(s)
    BY <1>1
  <2>3. k # Len(s) => k + 1 \in 1 .. Len(s)
    BY <1>1
  <2> QED
    BY <2>1, <2>2, <2>3 DEF Elements
<1> HIDE DEF t, n
<1>7. /\ order' \in [List -> Seq(Node)] /\ NodesDistinct'
      /\ order'[l] = t /\ \A m \in List \ {l} : order'[m] = order[m]
  <2>1. {} \in SUBSET Node /\ Elements(t) \subseteq Elements(order[l]) \cup {}
        /\ \A e \in {} : InNoList(e)
    BY <1>2
  <2> QED
    BY <1>2, <1>3, <2>1, OneListChanges
<1>8. Linked(t, pre', next')
  BY <1>1, <1>3, WithoutLinked DEF t, n
<1>9. Ends(t, first'[l], last'[l], count'[l])
  <2>1. Ends(Without(s, k), IF s[k] = first[l] THEN next[s[k]] ELSE first[l],
                            IF s[k] = last[l] THEN pre[s[k]] ELSE last[l], count[l] - 1)
    BY <1>1, WithoutEnds
  <2>2. /\ first'[l] = IF s[k] = first[l] THEN next[s[k]] ELSE first[l]
        /\ last'[l] = IF s[k] = last[l] THEN pre[s[k]] ELSE last[l]
        /\ count'[l] = count[l] - 1
    BY <1>5 DEF n
  <2> QED
    BY <2>1, <2>2 DEF t
<1>10. ASSUME NEW m \in List, m # l
       PROVE  Linked(order'[m], pre', next') /\ Ends(order'[m], first'[m], last'[m], count'[m])
  <2>1. Elements(order[m]) \subseteq Node /\ Null \notin Elements(order[m])
    BY OfOneList, NullAssumption
  <2>2. Elements(s) \cap Elements(order[m]) = {}
    BY <1>10 DEF IInv, NodesDistinct
  <2>3. \A e \in Elements(order[m]) : pre'[e] = pre[e] /\ next'[e] = next[e]
    BY <1>1, <1>3, <1>6, <2>1, <2>2
  <2> QED
    BY <1>5, <1>7, <1>10, <2>3, OtherListsLinked
<1> QED
  BY <1>5, <1>7, <1>8, <1>9, <1>10 DEF IInv, TypeOK, ListsLinked

\* list_remove_first writes what list_remove of the first node would.
LEMMA RemoveFirstIsRemove ==
  ASSUME IInv, NEW l \in List, list_remove_first(l)
  PROVE  1 \in 1 .. Len(order[l]) /\ list_remove(l, 1)
<1> DEFINE s == order[l]
           n == s[1]
<1>1. /\ s \in Seq(Node) /\ Len(s) \in Nat \ {0} /\ Distinct(s) /\ n \in Node
      /\ first[l] = n /\ last[l] = s[Len(s)]
      /\ pre[n] = Null /\ next[n] = IF 1 = Len(s) THEN Null ELSE s[2]
  <2>1. s \in Seq(Node) /\ Len(s) \in Nat \ {0} /\ Distinct(s) /\ Linked(s, pre, next)
        /\ Ends(s, first[l], last[l], count[l])
    BY OfOneList DEF list_remove_first, Empty
  <2>2. 1 \in 1 .. Len(s) /\ n \in Node
    BY <2>1
  <2>3. first[l] = n /\ last[l] = s[Len(s)]
    BY <2>1 DEF Ends
  <2>4. pre[n] = Null /\ next[n] = IF 1 = Len(s) THEN Null ELSE s[1 + 1]
    BY <2>1, <2>2 DEF Linked
  <2> QED
    BY <2>1, <2>2, <2>3, <2>4
<1>2. /\ n = last[l] <=> 1 = Len(s)
      /\ next[n] = Null <=> 1 = Len(s)
  <2>1. ASSUME NEW c \in Nat \ {0}
        PROVE  1 \in 1 .. c /\ c \in 1 .. c /\ (1 # c => 2 \in 1 .. c)
    OBVIOUS
  <2>2. 1 # Len(s) => s[2] \in Node
    <3>1. s \in Seq(Node) /\ (1 # Len(s) => 2 \in 1 .. Len(s))
      BY <1>1, <2>1, Zenon
    <3> QED
      BY <3>1
  <2> QED
    BY <1>1, <2>1, <2>2, NullAssumption DEF Distinct
<1>3. /\ first' = [first EXCEPT ![l] = next[n]]
      /\ last' = IF next[n] = Null THEN [last EXCEPT ![l] = Null] ELSE last
      /\ pre' = [m \in Node |-> IF m \in {n, next[n]} THEN Null ELSE pre[m]]
      /\ next' = [next EXCEPT ![n] = Null]
      /\ count' = [count EXCEPT ![l] = @ - 1]
      /\ order' = [order EXCEPT ![l] = Without(@, 1)]
  BY <1>1 DEF list_remove_first
<1>4. next' = [m \in Node |-> IF m = n THEN Null ELSE IF m = pre[n] THEN next[n] ELSE next[m]]
  BY <1>1, <1>3, NullAssumption DEF IInv, TypeOK
<1>5. pre' = [m \in Node |-> IF m = n THEN Null ELSE IF m = next[n] THEN pre[n] ELSE pre[m]]
  BY <1>1, <1>3
<1>6. /\ first' = (IF n = first[l] THEN [first EXCEPT ![l] = next[n]] ELSE first)
      /\ last' = (IF n = last[l] THEN [last EXCEPT ![l] = pre[n]] ELSE last)
  BY <1>1, <1>2, <1>3
<1>7. list_remove(l, 1)
  BY <1>3, <1>4, <1>5, <1>6, Zenon DEF list_remove
<1> QED
  BY <1>1, <1>7

\* list_node_init writes no node of any list.
LEMMA InitNodeIInv ==
  ASSUME IInv, NEW n \in Node, list_node_init(n)
  PROVE  IInv'
<1>1. /\ first' = first /\ last' = last /\ count' = count /\ order' = order
      /\ pre' \in [Node -> Pointer] /\ next' \in [Node -> Pointer]
      /\ \A m \in Node \ {n} : pre'[m] = pre[m] /\ next'[m] = next[m]
  BY DEF list_node_init, listVars, IInv, TypeOK, Pointer
<1>2. ASSUME NEW l \in List
      PROVE  Linked(order'[l], pre', next') /\ Ends(order'[l], first'[l], last'[l], count'[l])
  <2>1. /\ order[l] \in Seq(Node) /\ Elements(order[l]) \subseteq Node
        /\ Linked(order[l], pre, next) /\ Ends(order[l], first[l], last[l], count[l])
    BY OfOneList
  <2>2. n \notin Elements(order[l])
    BY DEF list_node_init, InNoList
  <2>3. \A m \in Elements(order[l]) : pre'[m] = pre[m] /\ next'[m] = next[m]
    BY <1>1, <2>1, <2>2
  <2>4. Linked(order[l], pre', next')
    BY <2>1, <2>3, LinkedElsewhere
  <2> QED
    BY <1>1, <2>1, <2>4
<1>3. NodesDistinct'
  BY <1>1 DEF IInv, NodesDistinct
<1> QED
  BY <1>1, <1>2, <1>3 DEF IInv, TypeOK, ListsLinked

LEMMA NextIInv == IInv /\ [Next]_vars => IInv'
<1> SUFFICES ASSUME IInv, [Next]_vars PROVE IInv'
  OBVIOUS
<1>1. ASSUME NEW l \in List, NEW n \in Node, list_insert_first(l, n) PROVE IInv'
  BY <1>1, InsertFirstIInv
<1>2. ASSUME NEW l \in List, NEW n \in Node, list_insert_last(l, n) PROVE IInv'
  BY <1>2, InsertLastIInv
<1>3. ASSUME NEW l \in List, list_remove_first(l) PROVE IInv'
  BY <1>3, RemoveFirstIsRemove, RemoveIInv
<1>4. ASSUME NEW l \in List, NEW i \in 1 .. Len(order[l]), list_remove(l, i) PROVE IInv'
  BY <1>4, RemoveIInv
<1>5. ASSUME NEW n \in Node, list_node_init(n) PROVE IInv'
  BY <1>5, InitNodeIInv
<1>6. CASE UNCHANGED vars
  <2>1. /\ first' = first /\ last' = last /\ count' = count
        /\ pre' = pre /\ next' = next /\ order' = order
    BY <1>6 DEF vars, listVars, nodeVars
  <2> QED
    BY <2>1 DEF IInv, TypeOK, NodesDistinct, ListsLinked
<1> QED
  BY <1>1, <1>2, <1>3, <1>4, <1>5, <1>6 DEF Next

\* The lists of lib/list.c stay linked as their order promises, for any number of
\* lists and nodes and whatever the pointers of a node hold when it is inserted.
THEOREM ListsAlwaysLinked == Spec => []ListsLinked
<1>1. IInv => ListsLinked
  BY DEF IInv
<1> QED
  BY InitIInv, NextIInv, <1>1, PTL DEF Spec

-----------------------------------------------------------------------------
(* The descriptors, bit by bit. *)

LEMMA ShiftedBits ==
  ASSUME NEW S \in SUBSET Int, NEW n \in Int
  PROVE  /\ Shift(S, n) \in SUBSET Int
         /\ \A x \in Int : x \in Shift(S, n) <=> x - n \in S
<1>1. ASSUME NEW x \in Int PROVE x \in Shift(S, n) <=> x - n \in S
  <2>1. ASSUME x - n \in S PROVE x \in Shift(S, n)
    <3>1. (x - n) + n = x
      OBVIOUS
    <3> QED
      BY <2>1, <3>1 DEF Shift
  <2>2. ASSUME x \in Shift(S, n) PROVE x - n \in S
    <3>1. PICK b \in S : x = b + n
      BY <2>2 DEF Shift
    <3>2. x - n = b
      BY <3>1
    <3> QED
      BY <3>2
  <2> QED
    BY <2>1, <2>2
<1> QED
  BY <1>1 DEF Shift

LEMMA FieldBits ==
  ASSUME NEW S \in SUBSET Int, NEW f \in Int, NEW l \in Int
  PROVE  /\ Field(S, f, l) \in SUBSET Int
         /\ \A x \in Int : x \in Field(S, f, l) <=> x + f \in S /\ f <= x + f /\ x + f <= l
<1> DEFINE C == S \cap Bits(f, l)
<1>1. C \in SUBSET Int /\ -f \in Int
  <2>1. C \in SUBSET Int
    OBVIOUS
  <2>2. -f \in Int
    OBVIOUS
  <2> QED
    BY <2>1, <2>2
<1>2. /\ Shift(C, -f) \in SUBSET Int
      /\ \A x \in Int : x \in Shift(C, -f) <=> x - (-f) \in C
  BY <1>1, ShiftedBits
<1>3. \A x \in Int : x - (-f) = x + f
  OBVIOUS
<1>4. \A x \in Int : x + f \in C <=> x + f \in S /\ f <= x + f /\ x + f <= l
  BY DEF Bits
<1> QED
  BY <1>2, <1>3, <1>4 DEF Field

\* A gate of init_idt_entry leads to its handler through the kernel's code
\* segment and disables interrupts on entry, for every 64-bit address.
THEOREM GatesFaithful ==
  ASSUME NEW offset \in SUBSET (0 .. 63)
  PROVE  /\ GateOffset(InterruptGate(offset)) = offset
         /\ GateSelector(InterruptGate(offset)) = {3}
         /\ IsInterruptGate(InterruptGate(offset))
<1> DEFINE g == InterruptGate(offset)
           middle == Field(offset, 16, 31)
           high == Field(offset, 32, 63)
<1>1. /\ middle \in SUBSET Int
      /\ \A x \in Int : x \in middle <=> x + 16 \in offset /\ 16 <= x + 16 /\ x + 16 <= 31
  BY FieldBits
<1>2. /\ high \in SUBSET Int
      /\ \A x \in Int : x \in high <=> x + 32 \in offset /\ 32 <= x + 32 /\ x + 32 <= 63
  BY FieldBits
<1> HIDE DEF middle, high
<1>3. /\ Shift({3}, 16) \in SUBSET Int
      /\ \A x \in Int : x \in Shift({3}, 16) <=> x = 19
  BY ShiftedBits
<1>4. Shift({}, 32) = {}
  BY DEF Shift
<1>5. /\ Shift({1, 2, 3, 7}, 40) \in SUBSET Int
      /\ \A x \in Int : x \in Shift({1, 2, 3, 7}, 40) <=> x \in {41, 42, 43, 47}
  BY ShiftedBits
<1>6. /\ Shift(middle, 48) \in SUBSET Int
      /\ \A x \in Int : x \in Shift(middle, 48) <=> x - 48 \in middle
  BY <1>1, ShiftedBits
<1>7. /\ Shift(high, 64) \in SUBSET Int
      /\ \A x \in Int : x \in Shift(high, 64) <=> x - 64 \in high
  BY <1>2, ShiftedBits
<1>8. g = (offset \cap (0 .. 15)) \cup Shift({3}, 16) \cup Shift({}, 32)
            \cup Shift({1, 2, 3, 7}, 40) \cup Shift(middle, 48) \cup Shift(high, 64)
  BY DEF InterruptGate, init_idt_entry, Bits, middle, high
<1>9. g \in SUBSET Int
  BY <1>3, <1>4, <1>5, <1>6, <1>7, <1>8
<1>10. ASSUME NEW x \in Int
       PROVE  x \in g <=> \/ x \in 0 .. 15 /\ x \in offset
                          \/ x \in {19, 41, 42, 43, 47}
                          \/ x \in 64 - 16 .. 63 /\ x - 32 \in offset
                          \/ x \in 64 .. 95 /\ x - 32 \in offset
  <2>1. x \in Shift(middle, 48) <=> x \in 48 .. 63 /\ x - 32 \in offset
    BY <1>1, <1>6
  <2>2. x \in Shift(high, 64) <=> x \in 64 .. 95 /\ x - 32 \in offset
    BY <1>2, <1>7
  <2> QED
    BY <2>1, <2>2, <1>3, <1>4, <1>5, <1>8
<1> HIDE DEF g
<1>11. GateOffset(g) = offset
  <2>1. /\ Field(g, 0, 15) \in SUBSET Int
        /\ \A x \in Int : x \in Field(g, 0, 15) <=> x + 0 \in g /\ 0 <= x + 0 /\ x + 0 <= 15
    BY <1>9, FieldBits
  <2> DEFINE upper == Field(g, 48, 95)
  <2>2. /\ upper \in SUBSET Int
        /\ \A x \in Int : x \in upper <=> x + 48 \in g /\ 48 <= x + 48 /\ x + 48 <= 95
    BY <1>9, FieldBits
  <2> HIDE DEF upper
  <2>3. /\ Shift(upper, 16) \in SUBSET Int
        /\ \A x \in Int : x \in Shift(upper, 16) <=> x - 16 \in upper
    BY <2>2, ShiftedBits
  <2>4. ASSUME NEW x \in Int PROVE x \in Field(g, 0, 15) <=> x \in offset /\ x <= 15
    BY <2>1, <1>10
  <2>5. ASSUME NEW x \in Int PROVE x \in Shift(upper, 16) <=> x \in offset /\ 16 <= x
    <3>1. x - 16 \in upper <=> (x - 16) + 48 \in g /\ 48 <= (x - 16) + 48 /\ (x - 16) + 48 <= 95
      BY <2>2
    <3>2. (x - 16) + 48 = x + 32 /\ x + 32 \in Int /\ (x + 32) - 32 = x
      OBVIOUS
    <3>3. x + 32 \in g /\ 48 <= x + 32 /\ x + 32 <= 95 <=> x \in offset /\ 16 <= x
      BY <1>10, <3>2
    <3> QED
      BY <2>3, <3>1, <3>2, <3>3
  <2>6. \A x \in Int : x \in GateOffset(g) <=> x \in offset
    BY <2>4, <2>5 DEF GateOffset, upper
  <2>7. GateOffset(g) \in SUBSET Int
    BY <2>1, <2>3 DEF GateOffset, upper
  <2>8. offset \in SUBSET Int
    OBVIOUS
  <2> QED
    BY <2>6, <2>7, <2>8
<1>12. GateSelector(g) = {3}
  <2>1. /\ Field(g, 16, 31) \in SUBSET Int
        /\ \A x \in Int : x \in Field(g, 16, 31) <=> x + 16 \in g /\ 16 <= x + 16 /\ x + 16 <= 31
    BY <1>9, FieldBits
  <2>2. ASSUME NEW x \in Int PROVE x \in Field(g, 16, 31) <=> x = 3
    BY <2>1, <1>10
  <2> QED
    BY <2>1, <2>2 DEF GateSelector
<1>13. IsInterruptGate(g)
  <2>1. /\ Field(g, 40, 47) \in SUBSET Int
        /\ \A x \in Int : x \in Field(g, 40, 47) <=> x + 40 \in g /\ 40 <= x + 40 /\ x + 40 <= 47
    BY <1>9, FieldBits
  <2>2. ASSUME NEW x \in Int PROVE x \in Field(g, 40, 47) <=> x \in {1, 2, 3, 7}
    BY <2>1, <1>10
  <2>3. /\ Field(g, 32, 34) \in SUBSET Int
        /\ \A x \in Int : x \in Field(g, 32, 34) <=> x + 32 \in g /\ 32 <= x + 32 /\ x + 32 <= 34
    BY <1>9, FieldBits
  <2>4. ASSUME NEW x \in Int PROVE x \notin Field(g, 32, 34)
    BY <2>3, <1>10
  <2> QED
    BY <2>1, <2>2, <2>3, <2>4 DEF IsInterruptGate
<1> QED
  BY <1>11, <1>12, <1>13 DEF g

\* A descriptor of a base, of the units of a limit and of attributes, and its bits.
Packed(base, units, attrs) ==
  (units \cap Bits(0, 15))
    \cup Shift(base \cap Bits(0, 23), 16)
    \cup Shift(attrs \cup Shift(units \cap Bits(16, 19), -8), 40)
    \cup Shift(base \cap Bits(24, 31), 32)
HasBit(x, base, units, attrs) ==
  \/ x \in 0 .. 15 /\ x \in units
  \/ x \in 16 .. 39 /\ x - 16 \in base
  \/ x - 40 \in attrs
  \/ x \in 48 .. 51 /\ x - 32 \in units
  \/ x \in 56 .. 63 /\ x - 32 \in base

\* What gdt_entry_set stores, bit by bit: limit, base, attributes, the rest of the
\* limit and the rest of the base.
LEMMA EntryBits ==
  ASSUME NEW base \in SUBSET (0 .. 31), NEW units \in SUBSET (0 .. 19),
         NEW attrs \in SUBSET ((0 .. 7) \cup (12 .. 15)), NEW d,
         d = Packed(base, units, attrs)
  PROVE  /\ d \in SUBSET Int
         /\ \A x \in Int : x \in d <=> HasBit(x, base, units, attrs)
<1> DEFINE low == base \cap Bits(0, 23)
           high == base \cap Bits(24, 31)
           rest == units \cap Bits(16, 19)
           moved == Shift(rest, -8)
           both == attrs \cup moved
<1>12. base \in SUBSET Int /\ units \in SUBSET Int
  OBVIOUS
<1>1. low \in SUBSET Int /\ high \in SUBSET Int
  BY <1>12, Zenon
<1>2. rest \in SUBSET Int
  BY <1>12, Zenon
<1>3. attrs \in SUBSET Int
  OBVIOUS
<1>4. moved \in SUBSET Int /\ \A x \in Int : x \in moved <=> x - (-8) \in rest
  BY <1>2, ShiftedBits
<1>5. both \in SUBSET Int
  BY <1>3, <1>4
<1>6. Shift(both, 40) \in SUBSET Int /\ \A x \in Int : x \in Shift(both, 40) <=> x - 40 \in both
  BY <1>5, ShiftedBits
<1>7. Shift(low, 16) \in SUBSET Int /\ \A x \in Int : x \in Shift(low, 16) <=> x - 16 \in low
  BY <1>1, ShiftedBits
<1>8. Shift(high, 32) \in SUBSET Int /\ \A x \in Int : x \in Shift(high, 32) <=> x - 32 \in high
  BY <1>1, ShiftedBits
<1>9. units \cap Bits(0, 15) \in SUBSET Int
  BY <1>12, Zenon
<1>13. d = (units \cap Bits(0, 15)) \cup Shift(low, 16) \cup Shift(both, 40) \cup Shift(high, 32)
  BY DEF Packed
<1>10. d \in SUBSET Int
  <2> HIDE DEF low, high, both
  <2> QED
    BY <1>6, <1>7, <1>8, <1>9, <1>13
<1>11. ASSUME NEW x \in Int
       PROVE  x \in d <=> HasBit(x, base, units, attrs)
  <2>1. x \in units \cap Bits(0, 15) <=> x \in 0 .. 15 /\ x \in units
    BY DEF Bits
  <2>2. x - 16 \in low <=> x \in 16 .. 39 /\ x - 16 \in base
    BY DEF Bits
  <2>3. x - 32 \in high <=> x \in 56 .. 63 /\ x - 32 \in base
    BY DEF Bits
  <2>4. x - 40 \in moved <=> x \in 48 .. 51 /\ x - 32 \in units
    <3>1. x - 40 \in moved <=> (x - 40) - (-8) \in rest
      <4>1. x - 40 \in Int
        OBVIOUS
      <4> HIDE DEF moved, rest
      <4> QED
        BY <1>4, <4>1, Zenon
    <3>2. (x - 40) - (-8) = x - 32
      OBVIOUS
    <3>3. x - 32 \in rest <=> x \in 48 .. 51 /\ x - 32 \in units
      BY DEF Bits
    <3> QED
      BY <3>1, <3>2, <3>3
  <2>5. x \in Shift(both, 40) <=> x - 40 \in attrs \/ x - 40 \in moved
    BY <1>6
  <2>6. x \in Shift(low, 16) <=> x - 16 \in low
    BY <1>7
  <2>7. x \in Shift(high, 32) <=> x - 32 \in high
    BY <1>8
  <2> HIDE DEF low, high, moved, both
  <2>8. x \in d <=> \/ x \in units \cap Bits(0, 15) \/ x \in Shift(low, 16)
                    \/ x \in Shift(both, 40) \/ x \in Shift(high, 32)
    BY <1>13
  <2> QED
    BY <2>1, <2>2, <2>3, <2>4, <2>5, <2>6, <2>7, <2>8 DEF HasBit
<1> QED
  BY <1>10, <1>11

\* And what the processor reads there: limit, base, attributes.
LEMMA EntryRead ==
  ASSUME NEW base \in SUBSET (0 .. 31), NEW units \in SUBSET (0 .. 19),
         NEW attrs \in SUBSET ((0 .. 7) \cup (12 .. 15)), NEW d,
         d = Packed(base, units, attrs)
  PROVE  /\ SegmentBase(d) = base /\ SegmentAttr(d) = attrs
         /\ Field(d, 0, 15) \cup Shift(Field(d, 48, 51), 16) = units
         /\ 55 \in d <=> 15 \in attrs
<1>1. \A x \in Int : x \in d <=> HasBit(x, base, units, attrs)
  BY EntryBits
<1>8. d \in SUBSET Int
  BY EntryBits
<1>2. base \in SUBSET Int /\ units \in SUBSET Int
  OBVIOUS
<1>3. attrs \in SUBSET Int
  OBVIOUS
<1>4. SegmentBase(d) = base
  <2> DEFINE lower == Field(d, 16, 39)
             upper == Field(d, 56, 63)
  <2>1. /\ lower \in SUBSET Int
        /\ \A x \in Int : x \in lower <=> x + 16 \in d /\ 16 <= x + 16 /\ x + 16 <= 39
    BY <1>8, FieldBits
  <2>2. /\ upper \in SUBSET Int
        /\ \A x \in Int : x \in upper <=> x + 56 \in d /\ 56 <= x + 56 /\ x + 56 <= 63
    BY <1>8, FieldBits
  <2> HIDE DEF lower, upper
  <2>3. /\ Shift(upper, 24) \in SUBSET Int
        /\ \A x \in Int : x \in Shift(upper, 24) <=> x - 24 \in upper
    BY <2>2, ShiftedBits
  <2>4. ASSUME NEW x \in Int PROVE x \in lower <=> x \in base /\ x <= 23
    <3>1. x \in lower <=> x + 16 \in d /\ 16 <= x + 16 /\ x + 16 <= 39
      BY <2>1
    <3>2. x + 16 \in Int /\ (x + 16) - 16 = x
      OBVIOUS
    <3>3. x + 16 \in d <=> HasBit(x + 16, base, units, attrs)
      BY <1>1, <3>2
    <3>4. HasBit(x + 16, base, units, attrs) /\ 16 <= x + 16 /\ x + 16 <= 39 <=> x \in base /\ x <= 23
      BY <3>2 DEF HasBit
    <3> QED
      BY <3>1, <3>3, <3>4
  <2>5. ASSUME NEW x \in Int PROVE x \in Shift(upper, 24) <=> x \in base /\ 23 < x
    <3>1. x - 24 \in upper
            <=> (x - 24) + 56 \in d /\ 56 <= (x - 24) + 56 /\ (x - 24) + 56 <= 63
      <4>1. x - 24 \in Int
        OBVIOUS
      <4> QED
        BY <2>2, <4>1, Zenon
    <3>2. (x - 24) + 56 = x + 32 /\ x + 32 \in Int
      OBVIOUS
    <3>3. x + 32 \in d /\ 56 <= x + 32 /\ x + 32 <= 63 <=> x \in base /\ 23 < x
      <4>1. x + 32 \in d <=> HasBit(x + 32, base, units, attrs)
        BY <1>1, <3>2
      <4>2. HasBit(x + 32, base, units, attrs) /\ 56 <= x + 32 /\ x + 32 <= 63
              <=> x \in base /\ 23 < x
        BY DEF HasBit
      <4> QED
        BY <4>1, <4>2
    <3> QED
      BY <2>3, <3>1, <3>2, <3>3
  <2>6. \A x \in Int : x \in lower \cup Shift(upper, 24) <=> x \in base
    BY <2>4, <2>5
  <2>7. lower \cup Shift(upper, 24) = base
    BY <2>1, <2>3, <2>6, <1>2, <1>3
  <2> QED
    BY <2>7 DEF lower, upper, SegmentBase
<1>5. SegmentAttr(d) = attrs
  <2> DEFINE lower == Field(d, 40, 47)
             upper == Field(d, 52, 55)
  <2>1. /\ lower \in SUBSET Int
        /\ \A x \in Int : x \in lower <=> x + 40 \in d /\ 40 <= x + 40 /\ x + 40 <= 47
    BY <1>8, FieldBits
  <2>2. /\ upper \in SUBSET Int
        /\ \A x \in Int : x \in upper <=> x + 52 \in d /\ 52 <= x + 52 /\ x + 52 <= 55
    BY <1>8, FieldBits
  <2> HIDE DEF lower, upper
  <2>3. /\ Shift(upper, 12) \in SUBSET Int
        /\ \A x \in Int : x \in Shift(upper, 12) <=> x - 12 \in upper
    BY <2>2, ShiftedBits
  <2>4. ASSUME NEW x \in Int PROVE x \in lower <=> x \in attrs /\ x <= 7
    <3>1. x \in lower <=> x + 40 \in d /\ 40 <= x + 40 /\ x + 40 <= 47
      BY <2>1
    <3>2. x + 40 \in Int /\ (x + 40) - 40 = x
      OBVIOUS
    <3>3. x + 40 \in d <=> HasBit(x + 40, base, units, attrs)
      BY <1>1, <3>2
    <3>4. HasBit(x + 40, base, units, attrs) /\ 40 <= x + 40 /\ x + 40 <= 47 <=> x \in attrs /\ x <= 7
      BY <3>2 DEF HasBit
    <3> QED
      BY <3>1, <3>3, <3>4
  <2>5. ASSUME NEW x \in Int PROVE x \in Shift(upper, 12) <=> x \in attrs /\ 7 < x
    <3>1. x - 12 \in upper
            <=> (x - 12) + 52 \in d /\ 52 <= (x - 12) + 52 /\ (x - 12) + 52 <= 55
      <4>1. x - 12 \in Int
        OBVIOUS
      <4> QED
        BY <2>2, <4>1, Zenon
    <3>2. (x - 12) + 52 = x + 40 /\ x + 40 \in Int
      OBVIOUS
    <3>3. x + 40 \in d /\ 52 <= x + 40 /\ x + 40 <= 55 <=> x \in attrs /\ 7 < x
      <4>1. x + 40 \in d <=> HasBit(x + 40, base, units, attrs)
        BY <1>1, <3>2
      <4>2. HasBit(x + 40, base, units, attrs) /\ 52 <= x + 40 /\ x + 40 <= 55
              <=> x \in attrs /\ 7 < x
        BY DEF HasBit
      <4> QED
        BY <4>1, <4>2
    <3> QED
      BY <2>3, <3>1, <3>2, <3>3
  <2>6. \A x \in Int : x \in lower \cup Shift(upper, 12) <=> x \in attrs
    BY <2>4, <2>5
  <2>7. lower \cup Shift(upper, 12) = attrs
    BY <2>1, <2>3, <2>6, <1>2, <1>3
  <2> QED
    BY <2>7 DEF lower, upper, SegmentAttr
<1>6. Field(d, 0, 15) \cup Shift(Field(d, 48, 51), 16) = units
  <2> DEFINE lower == Field(d, 0, 15)
             upper == Field(d, 48, 51)
  <2>1. /\ lower \in SUBSET Int
        /\ \A x \in Int : x \in lower <=> x + 0 \in d /\ 0 <= x + 0 /\ x + 0 <= 15
    BY <1>8, FieldBits
  <2>2. /\ upper \in SUBSET Int
        /\ \A x \in Int : x \in upper <=> x + 48 \in d /\ 48 <= x + 48 /\ x + 48 <= 51
    BY <1>8, FieldBits
  <2> HIDE DEF lower, upper
  <2>3. /\ Shift(upper, 16) \in SUBSET Int
        /\ \A x \in Int : x \in Shift(upper, 16) <=> x - 16 \in upper
    BY <2>2, ShiftedBits
  <2>4. ASSUME NEW x \in Int PROVE x \in lower <=> x \in units /\ x <= 15
    <3>1. x \in lower <=> x + 0 \in d /\ 0 <= x + 0 /\ x + 0 <= 15
      BY <2>1
    <3>2. x + 0 \in Int /\ (x + 0) - 0 = x
      OBVIOUS
    <3>3. x + 0 \in d <=> HasBit(x + 0, base, units, attrs)
      BY <1>1, <3>2
    <3>4. HasBit(x + 0, base, units, attrs) /\ 0 <= x + 0 /\ x + 0 <= 15 <=> x \in units /\ x <= 15
      BY <3>2 DEF HasBit
    <3> QED
      BY <3>1, <3>3, <3>4
  <2>5. ASSUME NEW x \in Int PROVE x \in Shift(upper, 16) <=> x \in units /\ 15 < x
    <3>1. x - 16 \in upper
            <=> (x - 16) + 48 \in d /\ 48 <= (x - 16) + 48 /\ (x - 16) + 48 <= 51
      <4>1. x - 16 \in Int
        OBVIOUS
      <4> QED
        BY <2>2, <4>1, Zenon
    <3>2. (x - 16) + 48 = x + 32 /\ x + 32 \in Int
      OBVIOUS
    <3>3. x + 32 \in d /\ 48 <= x + 32 /\ x + 32 <= 51 <=> x \in units /\ 15 < x
      <4>1. x + 32 \in d <=> HasBit(x + 32, base, units, attrs)
        BY <1>1, <3>2
      <4>2. HasBit(x + 32, base, units, attrs) /\ 48 <= x + 32 /\ x + 32 <= 51
              <=> x \in units /\ 15 < x
        BY DEF HasBit
      <4> QED
        BY <4>1, <4>2
    <3> QED
      BY <2>3, <3>1, <3>2, <3>3
  <2>6. \A x \in Int : x \in lower \cup Shift(upper, 16) <=> x \in units
    BY <2>4, <2>5
  <2>7. lower \cup Shift(upper, 16) = units
    BY <2>1, <2>3, <2>6, <1>2, <1>3
  <2> QED
    BY <2>7 DEF lower, upper
<1>7. 55 \in d <=> 15 \in attrs
  <2>1. HasBit(55, base, units, attrs) <=> 15 \in attrs
    BY DEF HasBit
  <2> QED
    BY <1>1, <2>1
<1> QED
  BY <1>4, <1>5, <1>6, <1>7

\* What the processor reads out of a descriptor of gdt_entry_set is what was
\* asked for, for every 32-bit base and limit and every attribute outside the
\* bits of the limit: the base, the attributes and perhaps the granularity, and a
\* segment that holds the last byte asked for and, if it has more than 20 bits,
\* ends in the same 4 KB.
THEOREM EntriesFaithful ==
  ASSUME NEW base \in SUBSET (0 .. 31), NEW limit \in SUBSET (0 .. 31),
         NEW attr \in SUBSET ((0 .. 7) \cup (12 .. 15))
  PROVE  LET d == gdt_entry_set(base, limit, attr)
             long == \E b \in limit : b > 19
         IN /\ SegmentBase(d) = base
            /\ attr \subseteq SegmentAttr(d) /\ SegmentAttr(d) \subseteq attr \cup {15}
            /\ long => SegmentLast(d) = (limit \cap Bits(12, 31)) \cup Bits(0, 11)
            /\ ~long /\ 15 \notin attr => SegmentLast(d) = limit
<1> DEFINE d == gdt_entry_set(base, limit, attr)
           long == \E b \in limit : b > 19
           units == IF long THEN Field(limit, 12, 31) ELSE limit
           attrs == attr \cup (IF long THEN {15} ELSE {})
<1>1. /\ Field(limit, 12, 31) \in SUBSET Int
      /\ \A x \in Int : x \in Field(limit, 12, 31)
           <=> x + 12 \in limit /\ 12 <= x + 12 /\ x + 12 <= 31
  <2>1. limit \in SUBSET Int
    OBVIOUS
  <2> QED
    BY <2>1, FieldBits
<1>2. Field(limit, 12, 31) \in SUBSET (0 .. 19)
  BY <1>1
<1>3. ~long => limit \in SUBSET (0 .. 19)
  OBVIOUS
<1>4. units \in SUBSET (0 .. 19)
  BY <1>2, <1>3
<1>5. attrs \in SUBSET ((0 .. 7) \cup (12 .. 15))
  OBVIOUS
<1>6. d = Packed(base, units, attrs)
  BY DEF gdt_entry_set, Packed
<1> HIDE DEF d, units, attrs, long
<1>7. /\ SegmentBase(d) = base /\ SegmentAttr(d) = attrs
      /\ Field(d, 0, 15) \cup Shift(Field(d, 48, 51), 16) = units
      /\ 55 \in d <=> 15 \in attrs
  BY <1>4, <1>5, <1>6, EntryRead
<1>8. SegmentLast(d) = IF 15 \in attrs THEN Shift(units, 12) \cup Bits(0, 11) ELSE units
  BY <1>7 DEF SegmentLast
<1>9. attr \subseteq attrs /\ attrs \subseteq attr \cup {15}
  BY DEF attrs
<1>10. long => SegmentLast(d) = (limit \cap Bits(12, 31)) \cup Bits(0, 11)
  <2> SUFFICES ASSUME long PROVE Shift(Field(limit, 12, 31), 12) = limit \cap Bits(12, 31)
    BY <1>8 DEF attrs, units
  <2>1. /\ Shift(Field(limit, 12, 31), 12) \in SUBSET Int
        /\ \A x \in Int : x \in Shift(Field(limit, 12, 31), 12) <=> x - 12 \in Field(limit, 12, 31)
    BY <1>1, ShiftedBits
  <2>2. ASSUME NEW x \in Int
        PROVE  x \in Shift(Field(limit, 12, 31), 12) <=> x \in limit /\ 12 <= x /\ x <= 31
    <3>1. x - 12 \in Int /\ (x - 12) + 12 = x
      OBVIOUS
    <3> QED
      BY <1>1, <2>1, <3>1
  <2>3. limit \in SUBSET Int
    OBVIOUS
  <2> QED
    BY <2>1, <2>2, <2>3 DEF Bits
<1>11. ~long /\ 15 \notin attr => SegmentLast(d) = limit
  BY <1>8 DEF attrs, units
<1> QED
  BY <1>7, <1>9, <1>10, <1>11 DEF d, long

ArgsInRange ==
  /\ part = "segment" => args \in SegmentArgs
  /\ part = "gate" => args \in GateArgs

\* The two theorems for the descriptors and gates of the run.
THEOREM DescriptorsAlwaysFaithful == LibrarySpec => []DescriptorsFaithful
<1>1. LibraryInit => ArgsInRange
  BY DEF LibraryInit, ArgsInRange
<1>2. ArgsInRange /\ [LibraryNext]_allVars => ArgsInRange'
  BY DEF ArgsInRange, LibraryNext, allVars, SegmentArgs, GateArgs, BaseEdges, Edges, Bits
<1>3. ASSUME ArgsInRange PROVE DescriptorsFaithful
  <2>1. ASSUME part = "segment"
        PROVE  /\ args.base \in SUBSET (0 .. 31) /\ args.limit \in SUBSET (0 .. 31)
               /\ args.attr \in SUBSET ((0 .. 7) \cup (12 .. 15))
    <3>1. args \in SegmentArgs
      BY <1>3, <2>1 DEF ArgsInRange
    <3>2. args.base \in SUBSET BaseEdges /\ args.attr \in SUBSET {1, 7, 13, 15}
      BY <3>1 DEF SegmentArgs
    <3>3. args.limit \in {Bits(0, n) : n \in Edges} \cup SUBSET {11, 12, 19, 20}
      BY <3>1 DEF SegmentArgs
    <3>4. \A n \in Edges : Bits(0, n) \in SUBSET (0 .. 31)
      BY DEF Edges, Bits
    <3>5. args.limit \in SUBSET (0 .. 31)
      BY <3>3, <3>4
    <3>6. args.base \in SUBSET (0 .. 31)
      BY <3>2 DEF BaseEdges
    <3>7. args.attr \in SUBSET ((0 .. 7) \cup (12 .. 15))
      BY <3>2
    <3> QED
      BY <3>5, <3>6, <3>7
  <2>2. ASSUME part = "gate" PROVE args.offset \in SUBSET (0 .. 63)
    <3>1. args.offset \in SUBSET {0, 15, 16, 31, 32, 47, 63}
      BY <1>3, <2>2 DEF ArgsInRange, GateArgs
    <3> QED
      BY <3>1
  <2>3. part = "segment" =>
          LET d == gdt_entry_set(args.base, args.limit, args.attr)
              long == \E b \in args.limit : b > 19
          IN /\ SegmentBase(d) = args.base
             /\ args.attr \subseteq SegmentAttr(d) /\ SegmentAttr(d) \subseteq args.attr \cup {15}
             /\ long => SegmentLast(d) = (args.limit \cap Bits(12, 31)) \cup Bits(0, 11)
             /\ ~long /\ 15 \notin args.attr => SegmentLast(d) = args.limit
    BY <2>1, EntriesFaithful
  <2>4. part = "gate" => /\ GateOffset(InterruptGate(args.offset)) = args.offset
                         /\ GateSelector(InterruptGate(args.offset)) = {3}
                         /\ IsInterruptGate(InterruptGate(args.offset))
    BY <2>2, GatesFaithful
  <2> QED
    BY <2>3, <2>4 DEF DescriptorsFaithful
<1> QED
  BY <1>1, <1>2, <1>3, PTL DEF LibrarySpec

-----------------------------------------------------------------------------
(* The search of the bitmap. *)

\* One place of the search, when f tells what the search finds from later ones.
Found(f, s, bit, wanted) ==
  IF s >= bit_count THEN -1
  ELSE IF bitmap_get_bit(s) # bit THEN f[s + 1]
  ELSE IF Stops(s, bit, wanted) = {} THEN s
  ELSE f[Lowest(Stops(s, bit, wanted)) + 1]

\* f is the search from n on.
IsSearch(f, n, bit, wanted) == f = [s \in n .. bit_count + 1 |-> Found(f, s, bit, wanted)]

\* The bit a run stops at is behind its start and not behind the end.
LEMMA StopPlace ==
  ASSUME bit_count \in Nat, NEW s \in Nat, s < bit_count, NEW bit, NEW wanted \in Int,
         Stops(s, bit, wanted) # {}
  PROVE  LET k == Lowest(Stops(s, bit, wanted))
         IN /\ k \in s .. s + wanted - 2 /\ k <= bit_count
            /\ k >= bit_count \/ bitmap_get_bit(k) # bit
<1> DEFINE S == Stops(s, bit, wanted)
           k == Lowest(S)
<1>1. S \in SUBSET Nat /\ S # {}
  BY DEF Stops
<1>2. \A x \in S : x \in s .. s + wanted - 2 /\ (x >= bit_count \/ bitmap_get_bit(x) # bit)
  BY DEF Stops
<1>3. ASSUME bit_count \in s .. s + wanted - 2 PROVE bit_count \in S
  BY <1>3 DEF Stops
<1> HIDE DEF S
<1>4. \E x \in S : \A y \in S : x <= y
  BY <1>1, LeastNatural
<1>5. k \in S /\ \A y \in S : k <= y
  BY <1>4 DEF Lowest
<1>6. k \in s .. s + wanted - 2 /\ (k >= bit_count \/ bitmap_get_bit(k) # bit)
  BY <1>2, <1>5
<1>7. k <= bit_count
  <2> SUFFICES ASSUME k > bit_count PROVE FALSE
    BY <1>6
  <2> HIDE DEF k
  <2>1. bit_count \in s .. s + wanted - 2
    BY <1>6
  <2>2. k <= bit_count
    BY <1>3, <1>5, <2>1
  <2> QED
    BY <1>6, <2>2
<1> QED
  BY <1>6, <1>7 DEF S

\* Only later places are asked.
LEMMA LaterPlaces ==
  ASSUME bit_count \in Nat, NEW s \in Nat, NEW bit, NEW wanted \in Int, NEW f, NEW g,
         \A x \in s + 1 .. bit_count + 1 : f[x] = g[x]
  PROVE  Found(f, s, bit, wanted) = Found(g, s, bit, wanted)
<1>1. CASE s >= bit_count
  BY <1>1 DEF Found
<1>2. CASE s < bit_count /\ bitmap_get_bit(s) # bit
  <2>1. s + 1 \in s + 1 .. bit_count + 1
    BY <1>2
  <2>2. f[s + 1] = g[s + 1]
    BY <2>1
  <2> QED
    BY <1>2, <2>2 DEF Found
<1>3. CASE s < bit_count /\ bitmap_get_bit(s) = bit /\ Stops(s, bit, wanted) = {}
  BY <1>3 DEF Found
<1>4. CASE s < bit_count /\ bitmap_get_bit(s) = bit /\ Stops(s, bit, wanted) # {}
  <2> DEFINE k == Lowest(Stops(s, bit, wanted))
  <2>1. k \in s .. s + wanted - 2 /\ k <= bit_count
    BY <1>4, StopPlace
  <2> HIDE DEF k
  <2>2. k + 1 \in s + 1 .. bit_count + 1
    BY <2>1
  <2>3. f[k + 1] = g[k + 1]
    BY <2>2
  <2> QED
    BY <1>4, <2>3 DEF Found, k
<1> QED
  BY <1>1, <1>2, <1>3, <1>4

\* The search exists, from the end of the bitmap backwards.
LEMMA SearchExists ==
  ASSUME bit_count \in Nat, NEW bit, NEW wanted \in Int
  PROVE  \E f : IsSearch(f, 0, bit, wanted)
<1> DEFINE S == {n \in 0 .. bit_count + 2 : \E f : IsSearch(f, n, bit, wanted)}
<1>1. bit_count + 2 \in S
  <2> DEFINE f == [s \in bit_count + 2 .. bit_count + 1 |-> 0]
  <2>1. bit_count + 2 .. bit_count + 1 = {}
    OBVIOUS
  <2>2. f = [s \in bit_count + 2 .. bit_count + 1 |-> Found(f, s, bit, wanted)]
    BY <2>1
  <2>3. IsSearch(f, bit_count + 2, bit, wanted)
    BY <2>2 DEF IsSearch
  <2> QED
    BY <2>3
<1>2. S \in SUBSET Nat
  OBVIOUS
<1>3. PICK m \in S : \A y \in S : m <= y
  BY <1>1, <1>2, LeastNatural
<1>4. PICK f : IsSearch(f, m, bit, wanted)
  BY <1>3
<1>5. m \in 0 .. bit_count + 2
  BY <1>3
<1>6. CASE m = 0
  BY <1>4, <1>6
<1>7. CASE m # 0
  <2> DEFINE p == m - 1
             g == [s \in p .. bit_count + 1 |-> IF s = p THEN Found(f, p, bit, wanted) ELSE f[s]]
  <2>1. p \in Nat /\ p + 1 = m /\ p \in 0 .. bit_count + 2 /\ ~(m <= p)
    BY <1>5, <1>7
  <2> HIDE DEF p
  <2>2. \A s \in m .. bit_count + 1 : f[s] = Found(f, s, bit, wanted)
    BY <1>4 DEF IsSearch
  <2>3. \A s \in m .. bit_count + 1 : g[s] = f[s]
    BY <1>5, <2>1
  <2>4. ASSUME NEW s \in p .. bit_count + 1
        PROVE  g[s] = Found(g, s, bit, wanted)
    <3>1. s \in Nat /\ (s = p \/ s \in m .. bit_count + 1)
      BY <1>5, <2>1
    <3>2. \A x \in s + 1 .. bit_count + 1 : x \in m .. bit_count + 1
      BY <1>5, <2>1, <3>1
    <3>3. \A x \in s + 1 .. bit_count + 1 : f[x] = g[x]
      BY <2>3, <3>2
    <3> HIDE DEF g
    <3>4. Found(f, s, bit, wanted) = Found(g, s, bit, wanted)
      BY <3>1, <3>3, LaterPlaces
    <3>5. g[s] = Found(f, s, bit, wanted)
      <4>1. CASE s = p
        BY <4>1 DEF g
      <4>2. CASE s \in m .. bit_count + 1
        BY <4>2, <2>2, <2>3
      <4> QED
        BY <3>1, <4>1, <4>2
    <3> QED
      BY <3>4, <3>5
  <2>5. g = [s \in p .. bit_count + 1 |-> g[s]]
    OBVIOUS
  <2> HIDE DEF g
  <2>6. g = [s \in p .. bit_count + 1 |-> Found(g, s, bit, wanted)]
    BY <2>4, <2>5
  <2>7. IsSearch(g, p, bit, wanted)
    BY <2>6 DEF IsSearch
  <2>8. p \in S
    BY <2>1, <2>7
  <2> QED
    BY <1>3, <2>1, <2>8
<1> QED
  BY <1>6, <1>7

LEMMA FirstRunSearches ==
  ASSUME bit_count \in Nat, NEW bit, NEW wanted \in Int
  PROVE  \E f : IsSearch(f, 0, bit, wanted) /\ FirstRun(bit, wanted) = f[0]
<1> DEFINE f == CHOOSE f : IsSearch(f, 0, bit, wanted)
<1>1. IsSearch(f, 0, bit, wanted)
  BY SearchExists
<1>2. FirstRun(bit, wanted) = f[0]
  BY DEF FirstRun, IsSearch, Found
<1> QED
  BY <1>1, <1>2

-----------------------------------------------------------------------------
(* What the search finds. *)

LEMMA BitValue ==
  ASSUME NEW s \in Int
  PROVE  bitmap_get_bit(s) # 0 <=> s \in bits
<1>1. s % 8 \in 0 .. 7
  OBVIOUS
<1>2. (s % 8) + 1 \in {1, 2, 3, 4, 5, 6, 7, 8}
  BY <1>1
<1>3. OneShifted[(s % 8) + 1] # 0
  BY <1>2 DEF OneShifted
<1> QED
  BY <1>3 DEF bitmap_get_bit

LEMMA BitMatches ==
  ASSUME NEW s \in Int, NEW bit \in {0, 1}, bitmap_get_bit(s) = bit
  PROVE  s \in bits <=> bit = 1
  BY BitValue

\* A run of clear bits from t on; a run the search takes, whose last bit it does
\* not look at.
Clear(t, wanted) == t .. t + wanted - 1 \subseteq 0 .. bit_count - 1 /\ (t .. t + wanted - 1) \cap bits = {}
Are(bit, run) == run \subseteq 0 .. bit_count - 1 /\ \A k \in run : k \in bits <=> bit = 1
Starts(bit, t, wanted) == Are(bit, {t} \cup (t .. t + wanted - 2))

\* A run from s on, or none; the first one if it is of clear bits.
Answer(bit, s, wanted, r) ==
  /\ r = -1 \/ (r \in s .. bit_count - 1 /\ Starts(bit, r, wanted))
  /\ bit = 0 => \A t \in s .. bit_count - 1 : r = -1 \/ t < r => ~Clear(t, wanted)

LEMMA AnswerOne ==
  ASSUME bit_count \in Nat, NEW bit \in {0, 1}, NEW wanted \in Nat \ {0}, NEW f, NEW s \in Nat,
         \A x \in s + 1 .. bit_count + 1 : Answer(bit, x, wanted, f[x])
  PROVE  Answer(bit, s, wanted, Found(f, s, bit, wanted))
<1>1. CASE s >= bit_count
  <2>1. s .. bit_count - 1 = {}
    BY <1>1
  <2>2. Found(f, s, bit, wanted) = -1
    BY <1>1 DEF Found
  <2> QED
    BY <2>1, <2>2 DEF Answer
<1>2. CASE s < bit_count /\ bitmap_get_bit(s) # bit
  <2>1. Found(f, s, bit, wanted) = f[s + 1]
    BY <1>2 DEF Found
  <2>2. Answer(bit, s + 1, wanted, f[s + 1])
    BY <1>2
  <2>3. s \in s .. s + wanted - 1 /\ (bit = 0 => s \in bits)
    BY <1>2, BitValue
  <2>4. bit = 0 => ~Clear(s, wanted)
    BY <2>3 DEF Clear
  <2> DEFINE r == f[s + 1]
  <2>5. r = -1 \/ (r \in s + 1 .. bit_count - 1 /\ Starts(bit, r, wanted))
    BY <2>2 DEF Answer
  <2>6. bit = 0 => \A t \in s + 1 .. bit_count - 1 : r = -1 \/ t < r => ~Clear(t, wanted)
    BY <2>2 DEF Answer
  <2> HIDE DEF r
  <2>7. \A t \in s .. bit_count - 1 : t = s \/ t \in s + 1 .. bit_count - 1
    OBVIOUS
  <2>8. r = -1 \/ (r \in s .. bit_count - 1 /\ Starts(bit, r, wanted))
    BY <2>5
  <2>9. Answer(bit, s, wanted, r)
    BY <2>4, <2>6, <2>7, <2>8 DEF Answer
  <2> QED
    BY <2>1, <2>9 DEF r
<1>3. CASE s < bit_count /\ bitmap_get_bit(s) = bit /\ Stops(s, bit, wanted) = {}
  <2>1. Found(f, s, bit, wanted) = s
    BY <1>3 DEF Found
  <2>2. ASSUME NEW x \in s .. s + wanted - 2 PROVE x \in 0 .. bit_count - 1 /\ (x \in bits <=> bit = 1)
    <3>1. ~(x >= bit_count \/ bitmap_get_bit(x) # bit)
      BY <1>3 DEF Stops
    <3> QED
      BY <3>1, BitMatches
  <2>3. s \in 0 .. bit_count - 1 /\ (s \in bits <=> bit = 1)
    BY <1>3, BitMatches
  <2>4. Starts(bit, s, wanted)
    BY <2>2, <2>3 DEF Starts, Are
  <2>5. s \in s .. bit_count - 1 /\ s # -1 /\ \A t \in s .. bit_count - 1 : ~(t < s)
    BY <1>3
  <2> QED
    BY <2>1, <2>4, <2>5 DEF Answer
<1>4. CASE s < bit_count /\ bitmap_get_bit(s) = bit /\ Stops(s, bit, wanted) # {}
  <2> DEFINE k == Lowest(Stops(s, bit, wanted))
             r == f[k + 1]
  <2>1. /\ k \in s .. s + wanted - 2 /\ k <= bit_count
        /\ k >= bit_count \/ bitmap_get_bit(k) # bit
    BY <1>4, StopPlace
  <2>2. Found(f, s, bit, wanted) = r
    BY <1>4 DEF Found
  <2> HIDE DEF k
  <2>3. k \in Nat /\ k + 1 \in s + 1 .. bit_count + 1
    BY <2>1
  <2>4. Answer(bit, k + 1, wanted, r)
    BY <2>3
  <2> HIDE DEF r
  <2>5. r = -1 \/ (r \in k + 1 .. bit_count - 1 /\ Starts(bit, r, wanted))
    BY <2>4 DEF Answer
  <2>6. bit = 0 => \A t \in k + 1 .. bit_count - 1 : r = -1 \/ t < r => ~Clear(t, wanted)
    BY <2>4 DEF Answer
  <2>7. ASSUME bit = 0, NEW t \in s .. k PROVE ~Clear(t, wanted)
    <3>1. k \in t .. t + wanted - 1
      BY <2>1
    <3>2. k \notin 0 .. bit_count - 1 \/ k \in bits
      BY <2>1, <2>3, <2>7, BitValue
    <3> QED
      BY <3>1, <3>2 DEF Clear
  <2>8. \A t \in s .. bit_count - 1 : t \in s .. k \/ t \in k + 1 .. bit_count - 1
    BY <2>3
  <2>9. r = -1 \/ (r \in s .. bit_count - 1 /\ Starts(bit, r, wanted))
    BY <2>1, <2>5
  <2>10. Answer(bit, s, wanted, r)
    BY <2>6, <2>7, <2>8, <2>9 DEF Answer
  <2> QED
    BY <2>2, <2>10
<1> QED
  BY <1>1, <1>2, <1>3, <1>4

LEMMA SearchAnswers ==
  ASSUME bit_count \in Nat, NEW bit \in {0, 1}, NEW wanted \in Nat \ {0}
  PROVE  Answer(bit, 0, wanted, FirstRun(bit, wanted))
<1>1. PICK f : IsSearch(f, 0, bit, wanted) /\ FirstRun(bit, wanted) = f[0]
  BY FirstRunSearches
<1>2. \A s \in 0 .. bit_count + 1 : f[s] = Found(f, s, bit, wanted)
  BY <1>1 DEF IsSearch
<1> DEFINE From(n) == \A x \in n .. bit_count + 1 : Answer(bit, x, wanted, f[x])
           S == {n \in 0 .. bit_count + 2 : From(n)}
<1>3. bit_count + 2 \in S
  <2>1. bit_count + 2 .. bit_count + 1 = {}
    OBVIOUS
  <2> QED
    BY <2>1
<1>4. S \in SUBSET Nat
  OBVIOUS
<1>5. PICK m \in S : \A y \in S : m <= y
  BY <1>3, <1>4, LeastNatural
<1>6. m \in 0 .. bit_count + 2 /\ From(m)
  BY <1>5
<1>7. CASE m = 0
  BY <1>1, <1>6, <1>7
<1>8. CASE m # 0
  <2> DEFINE p == m - 1
  <2>1. p \in Nat /\ p + 1 = m /\ p \in 0 .. bit_count + 1 /\ ~(m <= p)
    BY <1>6, <1>8
  <2> HIDE DEF p
  <2>2. \A x \in p + 1 .. bit_count + 1 : Answer(bit, x, wanted, f[x])
    BY <1>6, <2>1
  <2>3. Answer(bit, p, wanted, f[p])
    BY <1>2, <2>1, <2>2, AnswerOne
  <2>4. \A x \in p .. bit_count + 1 : x = p \/ x \in p + 1 .. bit_count + 1
    BY <2>1
  <2>5. From(p)
    BY <2>2, <2>3, <2>4
  <2>6. p \in 0 .. bit_count + 2
    BY <2>1
  <2>7. p \in S
    BY <2>5, <2>6
  <2> QED
    BY <1>5, <2>1, <2>7
<1> QED
  BY <1>7, <1>8

BitmapInv == bit_count \in Nat /\ AllocTakesRun

\* For a bitmap of any size and runs of any length: the bits of the run a search returns
\* were what was looked for, but for the last one, which bitmap_alloc_nbits does not look
\* at, and the run and no other bit is set; a search that fails changes nothing.  For
\* clear bits only: no run that is long enough is passed over.
THEOREM AllocAlwaysTakesRun == BitmapInit /\ [][BitmapNext]_bitmapVars => []AllocTakesRun
<1>1. BitmapInit => BitmapInv
  BY BitCountsAssumption DEF BitmapInit, BitmapInv, AllocTakesRun, NoCall
<1>2. ASSUME BitmapInv, [BitmapNext]_bitmapVars PROVE BitmapInv'
  <2>1. bit_count \in Nat /\ bit_count' = bit_count
    BY <1>2 DEF BitmapInv, BitmapNext, SetBit, AllocNbits, bitmapVars
  <2>2. CASE UNCHANGED bitmapVars
    BY <1>2, <2>2 DEF BitmapInv, AllocTakesRun, AllWere, InRun, bitmap_is_set, bitmap_get_bit, bitmapVars
  <2>3. CASE \E index \in 0 .. bit_count, wanted \in 0 .. MaxRun, bit \in {0, 1} : SetBit(index, wanted, bit)
    <3>1. call'.op = "set"
      BY <2>3 DEF SetBit
    <3> QED
      BY <2>1, <3>1 DEF BitmapInv, AllocTakesRun
  <2>4. CASE \E bit \in {0, 1}, wanted \in 1 .. MaxRun : AllocNbits(bit, wanted)
    <3>1. PICK bit \in {0, 1}, wanted \in 1 .. MaxRun : AllocNbits(bit, wanted)
      BY <2>4
    <3>0. PICK r : r = FirstRun(bit, wanted)
      OBVIOUS
    <3>2. /\ call'.op = "alloc" /\ call'.count = wanted /\ call'.bit = bit
          /\ call'.before = bits /\ call'.result = r
          /\ bits' = IF r = -1 THEN bits ELSE WithBit(r, wanted, -1 - bit)
      BY <3>0, <3>1 DEF AllocNbits
    <3>3. wanted \in Nat \ {0}
      BY BitCountsAssumption
    <3>4. Answer(bit, 0, wanted, r)
      BY <2>1, <3>0, <3>3, SearchAnswers
    <3>5. \A v, run : AllWere(v, run)' <=> Are(v, run)
      BY <2>1, <3>2 DEF AllWere, Are
    <3>6. bit = 0 => \A s \in 0 .. bit_count - 1 : r = -1 \/ s < r => ~AllWere(0, s .. s + wanted - 1)'
      <4> SUFFICES ASSUME bit = 0, NEW s \in 0 .. bit_count - 1, r = -1 \/ s < r
                   PROVE  ~AllWere(0, s .. s + wanted - 1)'
        OBVIOUS
      <4>1. ~Clear(s, wanted)
        BY <3>4 DEF Answer
      <4>2. ~Are(0, s .. s + wanted - 1)
        BY <4>1 DEF Are, Clear
      <4> QED
        BY <3>5, <4>2
    <3>7. CASE r = -1
      BY <2>1, <3>2, <3>6, <3>7 DEF BitmapInv, AllocTakesRun
    <3>8. CASE r # -1
      <4>1. r \in 0 .. bit_count - 1 /\ Starts(bit, r, wanted)
        BY <3>4, <3>8 DEF Answer
      <4>2. AllWere(bit, {r} \cup (r .. r + wanted - 2))'
        BY <3>5, <4>1 DEF Starts
      <4>3. bits' = bits \cup InRun(r, wanted)
        <5>1. -1 - bit # 0
          OBVIOUS
        <5> QED
          BY <3>2, <3>8, <5>1 DEF WithBit
      <4>4. InRun(r, wanted)' = InRun(r, wanted)
        BY <2>1 DEF InRun
      <4>5. ASSUME NEW k \in InRun(r, wanted) PROVE bitmap_is_set(k)' = 1
        <5>1. k \in Int /\ k \in bits'
          BY <3>3, <4>1, <4>3 DEF InRun
        <5>2. (k % 8) + 1 \in {1, 2, 3, 4, 5, 6, 7, 8}
          <6>1. k % 8 \in 0 .. 7
            BY <5>1
          <6> QED
            BY <6>1
        <5>3. OneShifted[(k % 8) + 1] # 0
          BY <5>2 DEF OneShifted
        <5> QED
          BY <5>1, <5>3 DEF bitmap_is_set, bitmap_get_bit, OneShifted
      <4>6. bits' \ InRun(r, wanted) = bits \ InRun(r, wanted)
        BY <4>3
      <4> QED
        BY <2>1, <3>2, <3>6, <3>8, <4>2, <4>4, <4>5, <4>6 DEF BitmapInv, AllocTakesRun
    <3> QED
      BY <3>7, <3>8
  <2> QED
    BY <1>2, <2>2, <2>3, <2>4 DEF BitmapNext
<1>3. BitmapInv => AllocTakesRun
  BY DEF BitmapInv
<1> QED
  BY <1>1, <1>2, <1>3, PTL

-----------------------------------------------------------------------------
(* Figures: the digit tables, and the number that figures denote. *)

\* The characters of printed numbers.
Chars == {"0", "1", "2", "3", "4", "5", "6", "7", "8", "9", "a", "b", "c", "d", "e", "f",
          "A", "B", "C", "D", "E", "F", "x", "X", "-", "+", Blank}

\* The blank of the padding is no digit, no sign and no x.
LEMMA BlankDiffers ==
  /\ \A c \in {"0", "1", "2", "3", "4", "5", "6", "7", "8", "9"} : c # Blank
  /\ \A c \in {"a", "b", "c", "d", "e", "f", "A", "B", "C", "D", "E", "F"} : c # Blank
  /\ \A c \in {"x", "X", "-", "+"} : c # Blank
  BY Zenon DEF Blank

\* What of a digit table the printing of numbers relies on.
NoFigure == {"x", "X", "-", "+", Blank}
IsTable(T) ==
  /\ T \in Seq(Chars) /\ Len(T) = 16 /\ T[1] = "0"
  /\ \A i, j \in 1 .. 16 : T[i] = T[j] => i = j
  /\ \A i \in 1 .. 16 : T[i] \notin NoFigure
FiguresOf(T) == {T[i] : i \in 1 .. 16}

\* The elements of two sequences, one after the other.
LEMMA Joined ==
  ASSUME NEW S, NEW s \in Seq(S), NEW t \in Seq(S)
  PROVE  /\ s \o t \in Seq(S) /\ Len(s \o t) = Len(s) + Len(t)
         /\ \A i \in 1 .. Len(s) : (s \o t)[i] = s[i]
         /\ \A i \in Len(s) + 1 .. Len(s) + Len(t) : (s \o t)[i] = t[i - Len(s)]
  OBVIOUS

\* The two tables of digits, entry by entry.
LEMMA DigitEntries ==
  /\ \A small \in BOOLEAN : Digits(small) \in Seq(Chars) /\ Len(Digits(small)) = 16
  /\ \A small \in BOOLEAN : LET T == Digits(small)
       IN /\ T[1] = "0" /\ T[2] = "1" /\ T[3] = "2" /\ T[4] = "3" /\ T[5] = "4"
          /\ T[6] = "5" /\ T[7] = "6" /\ T[8] = "7" /\ T[9] = "8" /\ T[10] = "9"
  /\ LET T == Digits(TRUE)
     IN T[11] = "a" /\ T[12] = "b" /\ T[13] = "c" /\ T[14] = "d" /\ T[15] = "e" /\ T[16] = "f"
  /\ LET T == Digits(FALSE)
     IN T[11] = "A" /\ T[12] = "B" /\ T[13] = "C" /\ T[14] = "D" /\ T[15] = "E" /\ T[16] = "F"
<1> DEFINE low == <<"0", "1", "2", "3", "4", "5", "6", "7", "8", "9">>
           small == <<"a", "b", "c", "d", "e", "f">>
           large == <<"A", "B", "C", "D", "E", "F">>
<1>1. low \in Seq(Chars) /\ small \in Seq(Chars) /\ large \in Seq(Chars)
  BY DEF Chars
<1>2. /\ Len(low) = 10 /\ Len(small) = 6 /\ Len(large) = 6
      /\ low[1] = "0" /\ low[2] = "1" /\ low[3] = "2" /\ low[4] = "3" /\ low[5] = "4"
      /\ low[6] = "5" /\ low[7] = "6" /\ low[8] = "7" /\ low[9] = "8" /\ low[10] = "9"
      /\ small[1] = "a" /\ small[2] = "b" /\ small[3] = "c"
      /\ small[4] = "d" /\ small[5] = "e" /\ small[6] = "f"
      /\ large[1] = "A" /\ large[2] = "B" /\ large[3] = "C"
      /\ large[4] = "D" /\ large[5] = "E" /\ large[6] = "F"
  OBVIOUS
<1>3. Digits(TRUE) = low \o small /\ Digits(FALSE) = low \o large
  BY DEF Digits
<1> HIDE DEF low, small, large
<1>4. ASSUME NEW high \in {small, large}
      PROVE  /\ low \o high \in Seq(Chars) /\ Len(low \o high) = 16
             /\ \A i \in 1 .. 10 : (low \o high)[i] = low[i]
             /\ \A i \in 11 .. 16 : (low \o high)[i] = high[i - 10]
  <2>1. high \in Seq(Chars) /\ Len(high) = 6
    BY <1>1, <1>2
  <2> DEFINE both == low \o high
  <2>2. /\ both \in Seq(Chars) /\ Len(both) = Len(low) + Len(high)
        /\ \A i \in 1 .. Len(low) : both[i] = low[i]
        /\ \A i \in Len(low) + 1 .. Len(low) + Len(high) : both[i] = high[i - Len(low)]
    BY <1>1, Joined
  <2> HIDE DEF both
  <2>3. /\ both \in Seq(Chars) /\ Len(both) = 16
        /\ \A i \in 1 .. 10 : both[i] = low[i]
        /\ \A i \in 11 .. 16 : both[i] = high[i - 10]
    BY <1>2, <2>1, <2>2
  <2> QED
    BY <2>3, Zenon DEF both
<1>5. \A b \in BOOLEAN : Digits(b) \in {low \o small, low \o large}
  BY <1>3
<1>6. ASSUME NEW T \in {low \o small, low \o large}
      PROVE  /\ T[1] = "0" /\ T[2] = "1" /\ T[3] = "2" /\ T[4] = "3" /\ T[5] = "4"
             /\ T[6] = "5" /\ T[7] = "6" /\ T[8] = "7" /\ T[9] = "8" /\ T[10] = "9"
  <2>1. \A i \in 1 .. 10 : T[i] = low[i]
    BY <1>4
  <2> QED
    BY <1>2, <2>1
<1>7. LET T == Digits(TRUE)
      IN T[11] = "a" /\ T[12] = "b" /\ T[13] = "c" /\ T[14] = "d" /\ T[15] = "e" /\ T[16] = "f"
  <2> DEFINE T == Digits(TRUE)
  <2>1. \A i \in 11 .. 16 : T[i] = small[i - 10]
    BY <1>3, <1>4
  <2> HIDE DEF T
  <2>2. T[11] = small[1] /\ T[12] = small[2] /\ T[13] = small[3]
    BY <2>1
  <2>3. T[14] = small[4] /\ T[15] = small[5] /\ T[16] = small[6]
    BY <2>1
  <2> QED
    BY <1>2, <2>2, <2>3 DEF T
<1>8. LET T == Digits(FALSE)
      IN T[11] = "A" /\ T[12] = "B" /\ T[13] = "C" /\ T[14] = "D" /\ T[15] = "E" /\ T[16] = "F"
  <2> DEFINE T == Digits(FALSE)
  <2>1. \A i \in 11 .. 16 : T[i] = large[i - 10]
    BY <1>3, <1>4
  <2> HIDE DEF T
  <2>2. T[11] = large[1] /\ T[12] = large[2] /\ T[13] = large[3]
    BY <2>1
  <2>3. T[14] = large[4] /\ T[15] = large[5] /\ T[16] = large[6]
    BY <2>1
  <2> QED
    BY <1>2, <2>2, <2>3 DEF T
<1>9. \A T \in {low \o small, low \o large} : T \in Seq(Chars) /\ Len(T) = 16
  BY <1>4
<1> QED
  BY <1>5, <1>6, <1>7, <1>8, <1>9

\* No digit is in a table twice, and none is a blank, a sign or an x.
LEMMA DigitsAreTable ==
  ASSUME NEW b \in BOOLEAN
  PROVE  IsTable(Digits(b))
<1>1. \A T : /\ T[1] = "0" /\ T[2] = "1" /\ T[3] = "2" /\ T[4] = "3" /\ T[5] = "4"
             /\ T[6] = "5" /\ T[7] = "6" /\ T[8] = "7" /\ T[9] = "8" /\ T[10] = "9"
             /\ \/ T[11] = "a" /\ T[12] = "b" /\ T[13] = "c" /\ T[14] = "d" /\ T[15] = "e" /\ T[16] = "f"
                \/ T[11] = "A" /\ T[12] = "B" /\ T[13] = "C" /\ T[14] = "D" /\ T[15] = "E" /\ T[16] = "F"
             => /\ \A i, j \in 1 .. 16 : T[i] = T[j] => i = j
                /\ \A i \in 1 .. 16 : T[i] \notin NoFigure
  <2> SUFFICES
        ASSUME NEW T, T[1] = "0", T[2] = "1", T[3] = "2", T[4] = "3", T[5] = "4",
               T[6] = "5", T[7] = "6", T[8] = "7", T[9] = "8", T[10] = "9",
               \/ T[11] = "a" /\ T[12] = "b" /\ T[13] = "c" /\ T[14] = "d" /\ T[15] = "e" /\ T[16] = "f"
               \/ T[11] = "A" /\ T[12] = "B" /\ T[13] = "C" /\ T[14] = "D" /\ T[15] = "E" /\ T[16] = "F"
        PROVE  /\ \A i, j \in 1 .. 16 : T[i] = T[j] => i = j
               /\ \A i \in 1 .. 16 : T[i] \notin NoFigure
    OBVIOUS
  <2>1. \A i \in 1 .. 16 : i \in {1, 2, 3, 4, 5, 6, 7, 8, 9, 10, 11, 12, 13, 14, 15, 16}
    OBVIOUS
  <2>2. ASSUME NEW i \in 1 .. 16 PROVE T[i] \notin NoFigure
    BY <2>1, BlankDiffers, SMTT(60) DEF NoFigure
  <2>3. ASSUME NEW i \in 1 .. 16, NEW j \in 1 .. 16, T[i] = T[j] PROVE i = j
    BY <2>1, <2>3, SMTT(60)
  <2> QED
    BY <2>2, <2>3
<1> DEFINE T == Digits(b)
<1>2. /\ T \in Seq(Chars) /\ Len(T) = 16
      /\ T[1] = "0" /\ T[2] = "1" /\ T[3] = "2" /\ T[4] = "3" /\ T[5] = "4"
      /\ T[6] = "5" /\ T[7] = "6" /\ T[8] = "7" /\ T[9] = "8" /\ T[10] = "9"
  BY DigitEntries
<1>3. \/ T[11] = "a" /\ T[12] = "b" /\ T[13] = "c" /\ T[14] = "d" /\ T[15] = "e" /\ T[16] = "f"
      \/ T[11] = "A" /\ T[12] = "B" /\ T[13] = "C" /\ T[14] = "D" /\ T[15] = "E" /\ T[16] = "F"
  <2>1. b = TRUE \/ b = FALSE
    OBVIOUS
  <2> QED
    BY <2>1, DigitEntries, ZenonT(40)
<1> HIDE DEF T
<1>4. /\ \A i, j \in 1 .. 16 : T[i] = T[j] => i = j
      /\ \A i \in 1 .. 16 : T[i] \notin NoFigure
  BY <1>1, <1>2, <1>3
<1> QED
  BY <1>2, <1>4 DEF IsTable, T

\* A digit is found where it is.
LEMMA IndexOfDigit ==
  ASSUME NEW T, IsTable(T), NEW i \in 1 .. 16
  PROVE  IndexIn(T[i], T) = i
<1>1. Len(T) = 16 /\ \A j \in 1 .. 16 : T[i] = T[j] => i = j
  BY DEF IsTable
<1> QED
  BY <1>1 DEF IndexIn

\* What a figure of a number may be.
LEMMA FigureFacts ==
  ASSUME NEW T, IsTable(T), NEW c \in FiguresOf(T)
  PROVE  IndexIn(c, T) \in 1 .. 16 /\ c \in Chars /\ c \notin NoFigure
<1>1. PICK i \in 1 .. 16 : c = T[i]
  BY DEF FiguresOf
<1>2. T \in Seq(Chars) /\ Len(T) = 16 /\ T[i] \notin NoFigure
  BY DEF IsTable
<1>3. T[i] \in Chars
  BY <1>2, ElementOfSeq
<1> QED
  BY <1>1, <1>2, <1>3, IndexOfDigit

IsValue(v, s, base, T) ==
  /\ v \in [0 .. Len(s) -> Nat] /\ v[0] = 0
  /\ \A k \in 1 .. Len(s) : v[k] = v[k - 1] * base + IndexIn(s[k], T) - 1

\* The recursive function of ValueOf exists and does what it says.
LEMMA ValueSteps ==
  ASSUME NEW T, IsTable(T), NEW base \in Nat, NEW s \in Seq(FiguresOf(T))
  PROVE  \E v : IsValue(v, s, base, T) /\ ValueOf(s, base, T) = v[Len(s)]
<1> DEFINE D == 0 .. Len(s)
           N == Len(s)
           Body(f, k) == IF k = 0 THEN 0 ELSE f[k - 1] * base + IndexIn(s[k], T) - 1
           v == CHOOSE f : f = [k \in D |-> Body(f, k)]
           down == [k \in D |-> IF k = 0 THEN 0 ELSE k - 1]
           zero == [k \in D |-> 0]
           rank == [k \in D |-> k]
           step == [k \in D |-> [m \in Nat |-> IF k = 0 THEN 0 ELSE m * base + IndexIn(s[k], T) - 1]]
<1>1. N \in Nat
  OBVIOUS
<1>2. \A k \in 1 .. N : IndexIn(s[k], T) \in 1 .. 16
  BY FigureFacts
<1>3. /\ zero \in [D -> Nat] /\ down \in [D -> D] /\ rank \in [D -> 0 .. N]
      /\ \A k \in D : k \in {0} \/ rank[down[k]] < rank[k]
  BY <1>1
<1>4. \A k \in D, m \in Nat : k # 0 => m * base + IndexIn(s[k], T) - 1 \in Nat
  <2> SUFFICES ASSUME NEW k \in D, NEW m \in Nat, k # 0
               PROVE  m * base + IndexIn(s[k], T) - 1 \in Nat
    OBVIOUS
  <2>1. m * base \in Nat /\ IndexIn(s[k], T) \in 1 .. 16
    BY <1>1, <1>2
  <2> QED
    BY <2>1, SMTT(30)
<1>5. step \in [D -> [Nat -> Nat]]
  BY <1>4
<1>6. \E g \in [D -> Nat] : g = [k \in D |-> Unfolded(g, k, {0}, zero, down, step)]
  <2>1. Recursion(D, Nat, N, rank, {0}, zero, down, step)
    BY <1>1, <1>3, <1>5 DEF Recursion
  <2> HIDE DEF D, N, zero, down, rank, step, v, Body
  <2> QED
    BY <2>1, RecursionExists
<1>7. PICK g \in [D -> Nat] : g = [k \in D |-> Unfolded(g, k, {0}, zero, down, step)]
  BY <1>6
<1>8. \A k \in D : g[k] = Body(g, k)
  <2> SUFFICES ASSUME NEW k \in D PROVE g[k] = Body(g, k)
    OBVIOUS
  <2>1. g[k] = Unfolded(g, k, {0}, zero, down, step)
    BY <1>7
  <2>2. CASE k = 0
    BY <2>1, <2>2 DEF Unfolded
  <2>3. CASE k # 0
    <3>1. down[k] = k - 1 /\ k - 1 \in D /\ g[k - 1] \in Nat
      BY <1>1, <2>3
    <3> QED
      BY <2>1, <2>3, <3>1 DEF Unfolded
  <2> QED
    BY <2>2, <2>3
<1>9. v = [k \in D |-> Body(v, k)]
  <2> HIDE DEF Body, D
  <2>1. g = [k \in D |-> Body(g, k)]
    BY <1>8
  <2> QED
    BY <2>1
<1>10. ValueOf(s, base, T) = v[N]
  BY DEF ValueOf
<1> HIDE DEF v
<1>11. v[0] = 0 /\ \A k \in 1 .. N : v[k] = v[k - 1] * base + IndexIn(s[k], T) - 1
  <2> \A k \in D : v[k] = Body(v, k)
    BY <1>9
  <2> QED
    BY <1>1
<1>12. D \subseteq {k \in D : v[k] \in Nat}
  <2>1. ASSUME NEW k \in 0 .. N - 1, v[k] \in Nat PROVE k + 1 \in D /\ v[k + 1] \in Nat
    <3>1. k + 1 \in 1 .. N /\ (k + 1) - 1 = k
      BY <1>1
    <3>2. v[k + 1] = v[k] * base + IndexIn(s[k + 1], T) - 1
      BY <1>11, <3>1
    <3>3. k + 1 \in D /\ k + 1 # 0
      BY <1>1, <3>1
    <3>4. v[k] * base + IndexIn(s[k + 1], T) - 1 \in Nat
      BY <1>4, <2>1, <3>3
    <3> QED
      BY <3>2, <3>3, <3>4
  <2> DEFINE Good == {k \in D : v[k] \in Nat}
  <2>2. 0 \in Good /\ \A k \in 0 .. N - 1 : k \in Good => k + 1 \in Good
    BY <1>1, <1>11, <2>1
  <2>3. 0 .. N \subseteq Good
    <3> HIDE DEF Good, N
    <3> QED
      BY <1>1, <2>2, StepInduction, SMTT(30)
  <2> QED
    BY <2>3
<1>13. IsValue(v, s, base, T)
  <2> v = [k \in D |-> v[k]]
    BY <1>9
  <2> QED
    BY <1>11, <1>12 DEF IsValue
<1> QED
  BY <1>10, <1>13

\* From n on, t repeats s.
Repeats(s, t, n) == n + Len(s) <= Len(t) /\ \A k \in 1 .. Len(s) : t[n + k] = s[k]

\* Where figures are repeated after a number that is 0, so are the values.
LEMMA ValueRepeats ==
  ASSUME NEW base, NEW T, NEW s, NEW v, IsValue(v, s, base, T), NEW t, NEW w, IsValue(w, t, base, T),
         Len(s) \in Nat, Len(t) \in Nat,
         NEW n \in Nat, w[n] = 0, Repeats(s, t, n)
  PROVE  \A k \in 0 .. Len(s) : w[n + k] = v[k]
<1> DEFINE Good == {k \in 0 .. Len(s) : w[n + k] = v[k]}
<1>1. /\ v[0] = 0 /\ \A k \in 1 .. Len(s) : v[k] = v[k - 1] * base + IndexIn(s[k], T) - 1
      /\ \A k \in 1 .. Len(t) : w[k] = w[k - 1] * base + IndexIn(t[k], T) - 1
  BY DEF IsValue
<1>2. 0 \in Good
  BY <1>1
<1>0. n + Len(s) <= Len(t) /\ \A k \in 1 .. Len(s) : t[n + k] = s[k]
  BY DEF Repeats
<1>3. ASSUME NEW k \in 0 .. Len(s) - 1, k \in Good PROVE k + 1 \in Good
  <2>1. /\ k + 1 \in 1 .. Len(s) /\ (k + 1) - 1 = k /\ w[n + k] = v[k]
        /\ n + (k + 1) \in 1 .. Len(t) /\ (n + (k + 1)) - 1 = n + k
    BY <1>0, <1>3
  <2>2. w[n + (k + 1)] = w[n + k] * base + IndexIn(t[n + (k + 1)], T) - 1
    BY <1>1, <2>1
  <2>3. v[k + 1] = v[k] * base + IndexIn(s[k + 1], T) - 1
    BY <1>1, <2>1
  <2>4. t[n + (k + 1)] = s[k + 1]
    BY <1>0, <2>1
  <2> QED
    BY <2>1, <2>2, <2>3, <2>4
<1>4. 0 .. Len(s) \subseteq Good
  <2>1. Len(s) \in Int /\ \A k \in 0 .. Len(s) - 1 : k \in Good => k + 1 \in Good
    BY <1>3
  <2> HIDE DEF Good
  <2> QED
    BY <1>2, <2>1, StepInduction
<1> QED
  BY <1>4

\* Figures denote a natural number, and no figures denote 0.
LEMMA ValueIsNat ==
  ASSUME NEW T, IsTable(T), NEW base \in Nat, NEW s \in Seq(FiguresOf(T))
  PROVE  ValueOf(s, base, T) \in Nat
<1>1. PICK v : IsValue(v, s, base, T) /\ ValueOf(s, base, T) = v[Len(s)]
  BY ValueSteps
<1>2. v \in [0 .. Len(s) -> Nat] /\ Len(s) \in Nat
  BY <1>1 DEF IsValue
<1> QED
  BY <1>1, <1>2

LEMMA ValueEmpty ==
  ASSUME NEW T, IsTable(T), NEW base \in Nat
  PROVE  ValueOf(<<>>, base, T) = 0
<1>1. <<>> \in Seq(FiguresOf(T)) /\ Len(<<>>) = 0
  OBVIOUS
<1>2. PICK v : IsValue(v, <<>>, base, T) /\ ValueOf(<<>>, base, T) = v[Len(<<>>)]
  BY <1>1, ValueSteps
<1> QED
  BY <1>1, <1>2 DEF IsValue

\* One more figure at the end.
LEMMA ValueAppend ==
  ASSUME NEW T, IsTable(T), NEW base \in Nat, NEW s \in Seq(FiguresOf(T)), NEW c \in FiguresOf(T)
  PROVE  ValueOf(s \o <<c>>, base, T) = ValueOf(s, base, T) * base + IndexIn(c, T) - 1
<1> DEFINE t == s \o <<c>>
<1>1. <<c>> \in Seq(FiguresOf(T)) /\ Len(<<c>>) = 1 /\ <<c>>[1] = c
  OBVIOUS
<1>2. /\ t \in Seq(FiguresOf(T)) /\ Len(t) = Len(s) + Len(<<c>>)
      /\ \A i \in 1 .. Len(s) : t[i] = s[i]
      /\ \A i \in Len(s) + 1 .. Len(s) + Len(<<c>>) : t[i] = <<c>>[i - Len(s)]
  BY <1>1, Joined
<1> HIDE DEF t
<1>3. PICK v : IsValue(v, s, base, T) /\ ValueOf(s, base, T) = v[Len(s)]
  BY ValueSteps
<1>4. PICK w : IsValue(w, t, base, T) /\ ValueOf(t, base, T) = w[Len(t)]
  BY <1>2, ValueSteps
<1>5. Len(s) \in Nat /\ Len(t) = Len(s) + 1 /\ t[Len(s) + 1] = c
  BY <1>1, <1>2
<1>6. w[0] = 0 /\ Repeats(s, t, 0)
  BY <1>2, <1>4, <1>5 DEF IsValue, Repeats
<1>7. \A k \in 0 .. Len(s) : w[0 + k] = v[k]
  BY <1>3, <1>4, <1>5, <1>6, ValueRepeats
<1>8. w[Len(s)] = v[Len(s)]
  BY <1>5, <1>7
<1>9. w[Len(s) + 1] = w[Len(s)] * base + IndexIn(c, T) - 1
  BY <1>4, <1>5 DEF IsValue
<1> QED
  BY <1>3, <1>4, <1>5, <1>8, <1>9 DEF t

\* t is n zeros and s.
ZerosThen(n, s, t) ==
  Len(t) = n + Len(s) /\ (\A i \in 1 .. n : t[i] = "0") /\ \A i \in 1 .. Len(s) : t[n + i] = s[i]

\* Zeros before the figures do not count.
LEMMA ValueOfZeros ==
  ASSUME NEW T, IsTable(T), NEW base \in Nat, NEW s \in Seq(FiguresOf(T)), NEW n \in Nat,
         NEW t \in Seq(FiguresOf(T)), ZerosThen(n, s, t)
  PROVE  ValueOf(t, base, T) = ValueOf(s, base, T)
<1>0. Len(t) = n + Len(s) /\ (\A i \in 1 .. n : t[i] = "0") /\ \A i \in 1 .. Len(s) : t[n + i] = s[i]
  BY DEF ZerosThen
<1>1. PICK v : IsValue(v, s, base, T) /\ ValueOf(s, base, T) = v[Len(s)]
  BY ValueSteps
<1>2. PICK w : IsValue(w, t, base, T) /\ ValueOf(t, base, T) = w[Len(t)]
  BY ValueSteps
<1>3. Len(s) \in Nat /\ Len(t) \in Nat /\ n \in 0 .. Len(t)
  BY <1>0
<1>4. IndexIn("0", T) = 1
  <2>1. T[1] = "0"
    BY DEF IsTable
  <2> QED
    BY <2>1, IndexOfDigit
<1>5. w[0] = 0 /\ \A k \in 1 .. Len(t) : w[k] = w[k - 1] * base + IndexIn(t[k], T) - 1
  BY <1>2 DEF IsValue
<1> DEFINE Good == {k \in 0 .. n : w[k] = 0}
<1>6. 0 \in Good
  BY <1>5
<1>7. ASSUME NEW k \in 0 .. n - 1, k \in Good PROVE k + 1 \in Good
  <2>1. k + 1 \in 1 .. n /\ k + 1 \in 1 .. Len(t) /\ (k + 1) - 1 = k /\ w[k] = 0
    BY <1>3, <1>7
  <2>2. w[k + 1] = w[k] * base + IndexIn(t[k + 1], T) - 1 /\ t[k + 1] = "0"
    BY <1>0, <1>5, <2>1
  <2>3. w[k + 1] = 0
    BY <1>4, <2>1, <2>2
  <2> QED
    BY <2>1, <2>3
<1>8. 0 .. n \subseteq Good
  <2>1. n \in Int /\ \A k \in 0 .. n - 1 : k \in Good => k + 1 \in Good
    BY <1>7
  <2> HIDE DEF Good
  <2> QED
    BY <1>6, <2>1, StepInduction
<1>9. w[n] = 0
  BY <1>8
<1>10. \A k \in 0 .. Len(s) : w[n + k] = v[k]
  <2>1. n + Len(s) <= Len(t) /\ \A k \in 1 .. Len(s) : t[n + k] = s[k]
    BY <1>0, <1>3
  <2> QED
    <3> HIDE DEF Good
    <3>1. IsValue(v, s, base, T) /\ IsValue(w, t, base, T)
      BY <1>1, <1>2
    <3>2. Repeats(s, t, n)
      BY <2>1 DEF Repeats
    <3> QED
      BY <1>3, <1>9, <3>1, <3>2, ValueRepeats
<1>11. w[n + Len(s)] = v[Len(s)]
  BY <1>3, <1>10
<1> QED
  BY <1>0, <1>1, <1>2, <1>11

\* A character several times.
LEMMA TimesFacts ==
  ASSUME NEW S, NEW c \in S, NEW n \in Int
  PROVE  /\ Times(c, n) \in Seq(S) /\ Len(Times(c, n)) = Most(n, 0) /\ Most(n, 0) \in Nat
         /\ \A i \in 1 .. Len(Times(c, n)) : Times(c, n)[i] = c
<1>1. Most(n, 0) \in Nat
  BY DEF Most
<1> DEFINE m == Most(n, 0)
<1>2. Times(c, n) = [i \in 1 .. m |-> c]
  BY DEF Times
<1> HIDE DEF m
<1> QED
  BY <1>1, <1>2 DEF m

\* What is in a reversed sequence, and what becomes of its first element.
LEMMA ReverseFacts ==
  ASSUME NEW S, NEW s \in Seq(S)
  PROVE  /\ Reverse(s) \in Seq(S) /\ Len(Reverse(s)) = Len(s)
         /\ \A i \in 1 .. Len(s) : Reverse(s)[i] = s[(Len(s) - i) + 1]
  BY DEF Reverse

LEMMA ReversePrepend ==
  ASSUME NEW S, NEW s \in Seq(S), NEW c \in S
  PROVE  Reverse(<<c>> \o s) = Reverse(s) \o <<c>>
<1> DEFINE t == <<c>> \o s
           r == Reverse(s)
           u == r \o <<c>>
<1>1. <<c>> \in Seq(S) /\ Len(<<c>>) = 1 /\ <<c>>[1] = c
  OBVIOUS
<1>2. /\ r \in Seq(S) /\ Len(r) = Len(s) /\ Len(s) \in Nat
      /\ \A i \in 1 .. Len(s) : r[i] = s[(Len(s) - i) + 1]
  BY ReverseFacts
<1> HIDE DEF r
<1>3. /\ t \in Seq(S) /\ Len(t) = Len(<<c>>) + Len(s)
      /\ \A i \in 1 .. Len(<<c>>) : t[i] = <<c>>[i]
      /\ \A i \in Len(<<c>>) + 1 .. Len(<<c>>) + Len(s) : t[i] = s[i - Len(<<c>>)]
  BY <1>1, Joined
<1>4. /\ u \in Seq(S) /\ Len(u) = Len(r) + Len(<<c>>)
      /\ \A i \in 1 .. Len(r) : u[i] = r[i]
      /\ \A i \in Len(r) + 1 .. Len(r) + Len(<<c>>) : u[i] = <<c>>[i - Len(r)]
  BY <1>1, <1>2, Joined
<1> HIDE DEF t, u
<1>5. /\ Reverse(t) \in Seq(S) /\ Len(Reverse(t)) = Len(t)
      /\ \A i \in 1 .. Len(t) : Reverse(t)[i] = t[(Len(t) - i) + 1]
  BY <1>3, ReverseFacts
<1>6. Len(t) = Len(s) + 1 /\ Len(u) = Len(s) + 1
  BY <1>1, <1>2, <1>3, <1>4
<1>7. ASSUME NEW i \in 1 .. Len(u) PROVE Reverse(t)[i] = u[i]
  <2>1. CASE i = Len(s) + 1
    <3>1. u[i] = c
      BY <1>1, <1>2, <1>4, <2>1
    <3>2. t[1] = c
      BY <1>1, <1>3
    <3>3. i \in 1 .. Len(t) /\ (Len(t) - i) + 1 = 1
      BY <1>2, <1>6, <2>1
    <3> QED
      BY <1>5, <3>1, <3>2, <3>3
  <2>2. CASE i # Len(s) + 1
    <3>1. i \in 1 .. Len(s) /\ i \in 1 .. Len(r) /\ i \in 1 .. Len(t)
      BY <1>2, <1>6, <2>2
    <3>2. u[i] = s[(Len(s) - i) + 1]
      BY <1>2, <1>4, <3>1
    <3>3. (Len(t) - i) + 1 \in Len(<<c>>) + 1 .. Len(<<c>>) + Len(s)
      BY <1>1, <1>2, <1>6, <3>1
    <3>4. ((Len(t) - i) + 1) - Len(<<c>>) = (Len(s) - i) + 1
      BY <1>1, <1>2, <1>6, <3>1
    <3>5. t[(Len(t) - i) + 1] = s[(Len(s) - i) + 1]
      BY <1>3, <3>3, <3>4
    <3> QED
      BY <1>5, <3>1, <3>2, <3>5
  <2> QED
    BY <2>1, <2>2
<1>8. Reverse(t) = u
  BY <1>4, <1>5, <1>6, <1>7, SeqEqual
<1> QED
  BY <1>8 DEF t, u, r

\* What the loop of number has in tmp when it has taken the digits of m.
IsDigits(rest, base, T) ==
  /\ rest \in [0 .. 2 * LongHalf -> Seq(FiguresOf(T))] /\ rest[0] = <<>>
  /\ \A m \in 1 .. 2 * LongHalf :
       m \div base \in 0 .. m - 1 /\ rest[m] = <<T[(m % base) + 1]>> \o rest[m \div base]

Bases == 2 .. 16

\* Quotient and remainder, and that the number gets shorter by its last digit.
LEMMA DivMod ==
  ASSUME NEW w \in Nat \ {0}, NEW a \in Int
  PROVE  a = (a \div w) * w + (a % w) /\ a \div w \in Int /\ a % w \in 0 .. w - 1
  OBVIOUS

LEMMA ShorterNumber ==
  ASSUME NEW base \in Bases, NEW m \in Nat \ {0}
  PROVE  m \div base \in 0 .. m - 1 /\ (m % base) + 1 \in 1 .. 16
<1>1. base \in Nat \ {0} /\ base >= 2 /\ base <= 16
  BY DEF Bases
<1>2. PICK q : q = m \div base
  OBVIOUS
<1>3. PICK r : r = m % base
  OBVIOUS
<1>4. m = q * base + r /\ q \in Int /\ r \in 0 .. base - 1
  BY <1>1, <1>2, <1>3, DivMod
<1>5. q >= 0
  <2> SUFFICES ASSUME q <= -1 PROVE FALSE
    BY <1>4
  <2>1. (q + 1) * base <= 0
    BY <1>1, <1>4
  <2>2. (q + 1) * base = q * base + base
    BY <1>1, <1>4
  <2> QED
    BY <1>1, <1>4, <2>1, <2>2
<1>6. q * base >= q + q
  BY <1>1, <1>4, <1>5
<1> QED
  BY <1>1, <1>2, <1>3, <1>4, <1>5, <1>6

\* The recursive function of Reversed exists and does what it says.
LEMMA DigitsExist ==
  ASSUME NEW T, IsTable(T), NEW base \in Bases
  PROVE  \E rest : /\ IsDigits(rest, base, T)
                   /\ \A n : Reversed(n, base, T) = IF n = 0 THEN <<"0">> ELSE rest[n]
<1> DEFINE D == 0 .. 2 * LongHalf
           N == 2 * LongHalf
           S == Seq(FiguresOf(T))
           Body(f, m) == IF m = 0 THEN <<>> ELSE <<T[(m % base) + 1]>> \o f[m \div base]
           rest == CHOOSE f : f = [m \in D |-> Body(f, m)]
           down == [m \in D |-> IF m = 0 THEN 0 ELSE m \div base]
           none == [m \in D |-> <<>>]
           rank == [m \in D |-> m]
           step == [m \in D |-> [q \in S |-> IF m = 0 THEN <<>> ELSE <<T[(m % base) + 1]>> \o q]]
<1>1. N \in Nat
  BY WidthAssumption
<1>2. \A m \in D : m # 0 => m \div base \in 0 .. m - 1 /\ m \div base \in D /\ (m % base) + 1 \in 1 .. 16
  BY <1>1, ShorterNumber
<1>3. \A m \in D : m # 0 => T[(m % base) + 1] \in FiguresOf(T)
  BY <1>2 DEF FiguresOf
<1>4. Recursion(D, S, N, rank, {0}, none, down, step)
  <2>1. none \in [D -> S] /\ rank \in [D -> 0 .. N]
    OBVIOUS
  <2>2. down \in [D -> D] /\ \A m \in D : m \in {0} \/ rank[down[m]] < rank[m]
    BY <1>1, <1>2
  <2>3. \A m \in D, q \in S : m # 0 => <<T[(m % base) + 1]>> \o q \in S
    <3> SUFFICES ASSUME NEW m \in D, NEW q \in S, m # 0 PROVE <<T[(m % base) + 1]>> \o q \in S
      OBVIOUS
    <3>1. <<T[(m % base) + 1]>> \in S
      BY <1>3
    <3> QED
      BY <3>1
  <2>4. step \in [D -> [S -> S]]
    BY <2>3
  <2> QED
    BY <1>1, <2>1, <2>2, <2>4 DEF Recursion
<1>5. \E g \in [D -> S] : g = [m \in D |-> Unfolded(g, m, {0}, none, down, step)]
  <2> HIDE DEF D, N, S, none, down, rank, step, rest, Body
  <2> QED
    BY <1>4, RecursionExists
<1>6. PICK g \in [D -> S] : g = [m \in D |-> Unfolded(g, m, {0}, none, down, step)]
  BY <1>5
<1>7. \A m \in D : g[m] = Body(g, m)
  <2> SUFFICES ASSUME NEW m \in D PROVE g[m] = Body(g, m)
    OBVIOUS
  <2>1. g[m] = Unfolded(g, m, {0}, none, down, step)
    BY <1>6
  <2>2. CASE m = 0
    BY <2>1, <2>2 DEF Unfolded
  <2>3. CASE m # 0
    <3>1. down[m] = m \div base /\ m \div base \in D /\ g[m \div base] \in S
      BY <1>2, <2>3
    <3> QED
      BY <2>1, <2>3, <3>1 DEF Unfolded
  <2> QED
    BY <2>2, <2>3
<1>8. rest = [m \in D |-> Body(rest, m)]
  <2> HIDE DEF Body, D
  <2>1. g = [m \in D |-> Body(g, m)]
    BY <1>7
  <2> QED
    BY <2>1
<1>9. \A n : Reversed(n, base, T) = IF n = 0 THEN <<"0">> ELSE rest[n]
  BY DEF Reversed
<1> HIDE DEF rest
<1>10. \A m \in D : rest[m] = Body(rest, m)
  <2> HIDE DEF Body
  <2> QED
    BY <1>8
<1>11. rest[0] = <<>>
  <2>1. 0 \in D
    BY <1>1
  <2> QED
    BY <1>10, <2>1
<1>12. D \subseteq {m \in D : rest[m] \in S}
  <2> DEFINE Good == {m \in D : rest[m] \in S}
  <2>1. ASSUME NEW m \in 0 .. N, (0 .. m - 1) \subseteq Good PROVE m \in Good
    <3>1. CASE m = 0
      <4>1. <<>> \in S
        OBVIOUS
      <4> HIDE DEF S, Body
      <4> QED
        BY <1>11, <3>1, <4>1
    <3>2. CASE m # 0
      <4>1. m \div base \in 0 .. m - 1 /\ T[(m % base) + 1] \in FiguresOf(T)
        BY <1>2, <1>3, <3>2
      <4>2. rest[m \div base] \in S /\ <<T[(m % base) + 1]>> \in S
        BY <2>1, <4>1
      <4>3. rest[m] = <<T[(m % base) + 1]>> \o rest[m \div base]
        BY <1>10, <3>2
      <4> HIDE DEF S
      <4>4. <<T[(m % base) + 1]>> \o rest[m \div base] \in S
        BY <4>2 DEF S
      <4> QED
        BY <4>3, <4>4
    <3> QED
      BY <3>1, <3>2
  <2>2. N \in Int
    BY <1>1
  <2>3. 0 .. N \subseteq Good
    <3> HIDE DEF Good, N
    <3> QED
      BY <2>1, <2>2, StrongInduction
  <2> QED
    BY <2>3
<1>13. ASSUME NEW m \in 1 .. 2 * LongHalf
       PROVE  m \div base \in 0 .. m - 1 /\ rest[m] = <<T[(m % base) + 1]>> \o rest[m \div base]
  <2>1. m \in D /\ m # 0
    BY <1>1
  <2> HIDE DEF D
  <2> QED
    BY <1>2, <1>10, <2>1
<1>14. rest \in [0 .. 2 * LongHalf -> Seq(FiguresOf(T))]
  <2> rest = [m \in D |-> rest[m]]
    BY <1>8
  <2> QED
    BY <1>12
<1> QED
  BY <1>9, <1>11, <1>14, <1>13 DEF IsDigits

\* What do_div leaves is read back from the last figure to the first.
LEMMA DigitsRead ==
  ASSUME NEW T, IsTable(T), NEW base \in Bases, NEW rest, IsDigits(rest, base, T)
  PROVE  \A m \in 0 .. 2 * LongHalf :
           ValueOf(Reverse(rest[m]), base, T) = m /\ (m # 0 => Len(rest[m]) >= 1)
<1> DEFINE Reads(m) == ValueOf(Reverse(rest[m]), base, T) = m /\ (m # 0 => Len(rest[m]) >= 1)
           Good == {m \in 0 .. 2 * LongHalf : Reads(m)}
           S == Seq(FiguresOf(T))
<1>1. 2 * LongHalf \in Nat /\ base \in Nat \ {0}
  BY WidthAssumption DEF Bases
<1>2. /\ \A m \in 0 .. 2 * LongHalf : rest[m] \in S
      /\ rest[0] = <<>>
      /\ \A m \in 1 .. 2 * LongHalf :
           m \div base \in 0 .. m - 1 /\ rest[m] = <<T[(m % base) + 1]>> \o rest[m \div base]
  BY DEF IsDigits
<1>3. Reads(0)
  <2>1. Reverse(<<>>) = <<>>
    BY DEF Reverse
  <2> QED
    BY <1>1, <1>2, <2>1, ValueEmpty
<1>4. ASSUME NEW m \in 0 .. 2 * LongHalf, (0 .. m - 1) \subseteq Good PROVE m \in Good
  <2>1. CASE m = 0
    BY <1>3, <2>1
  <2>2. CASE m # 0
    <3> DEFINE q == m \div base
               r == m % base
               c == T[r + 1]
    <3>1. m \in Nat \ {0} /\ m \in 1 .. 2 * LongHalf
      BY <1>1, <2>2
    <3>2. q \in 0 .. m - 1 /\ rest[m] = <<c>> \o rest[q]
      BY <1>2, <3>1
    <3>3. m = q * base + r
      BY <1>1, <3>1, DivMod
    <3>4. r + 1 \in 1 .. 16 /\ r \in Int
      BY <1>1, <3>1, ShorterNumber
    <3>5. q \in 0 .. 2 * LongHalf
      BY <1>1, <3>1, <3>2
    <3> HIDE DEF q, r
    <3>6. c \in FiguresOf(T) /\ IndexIn(c, T) = r + 1
      BY <3>4, IndexOfDigit DEF FiguresOf
    <3> HIDE DEF c
    <3>7. rest[q] \in S /\ ValueOf(Reverse(rest[q]), base, T) = q
      BY <1>2, <1>4, <3>2, <3>5
    <3>8. Reverse(<<c>> \o rest[q]) = Reverse(rest[q]) \o <<c>>
      BY <3>6, <3>7, ReversePrepend
    <3>9. Reverse(rest[q]) \in S
      BY <3>7, ReverseFacts
    <3>10. ValueOf(Reverse(rest[q]) \o <<c>>, base, T) = q * base + IndexIn(c, T) - 1
      BY <1>1, <3>6, <3>7, <3>9, ValueAppend
    <3>11. q * base + (r + 1) - 1 = m
      BY <1>1, <3>1, <3>2, <3>3, <3>4
    <3>12. Len(<<c>> \o rest[q]) >= 1
      <4>1. <<c>> \in S /\ Len(<<c>>) = 1
        BY <3>6
      <4>2. Len(<<c>> \o rest[q]) = Len(<<c>>) + Len(rest[q]) /\ Len(rest[q]) \in Nat
        BY <3>7, <4>1, Joined
      <4> QED
        BY <4>1, <4>2
    <3> QED
      BY <3>2, <3>6, <3>8, <3>10, <3>11, <3>12
  <2> QED
    BY <2>1, <2>2
<1>5. 0 .. 2 * LongHalf \subseteq Good
  <2>1. 2 * LongHalf \in Int
    BY <1>1
  <2> HIDE DEF Good
  <2> QED
    BY <1>4, <2>1, StrongInduction
<1> QED
  BY <1>5

\* The digits that number has in tmp, from the last one to the first, are those of
\* its argument.
LEMMA ReversedReads ==
  ASSUME NEW T, IsTable(T), NEW base \in Bases, NEW n \in 0 .. 2 * LongHalf
  PROVE  LET tmp == Reversed(n, base, T)
         IN /\ tmp \in Seq(FiguresOf(T)) /\ Len(tmp) >= 1
            /\ ValueOf(Reverse(tmp), base, T) = n
<1> DEFINE tmp == Reversed(n, base, T)
<1> SUFFICES /\ tmp \in Seq(FiguresOf(T)) /\ Len(tmp) >= 1
             /\ ValueOf(Reverse(tmp), base, T) = n
  OBVIOUS
<1>1. PICK rest : /\ IsDigits(rest, base, T)
                  /\ \A m : Reversed(m, base, T) = IF m = 0 THEN <<"0">> ELSE rest[m]
  BY DigitsExist
<1>2. rest[n] \in Seq(FiguresOf(T))
  BY <1>1 DEF IsDigits
<1>3. ValueOf(Reverse(rest[n]), base, T) = n /\ (n # 0 => Len(rest[n]) >= 1)
  BY <1>1, DigitsRead
<1>4. CASE n = 0
  <2>1. tmp = <<"0">>
    BY <1>1, <1>4
  <2>2. T[1] = "0" /\ "0" \in FiguresOf(T) /\ IndexIn("0", T) = 1
    <3>1. T[1] = "0"
      BY DEF IsTable
    <3> QED
      BY <3>1, IndexOfDigit DEF FiguresOf
  <2>3. Reverse(<<"0">>) = <<>> \o <<"0">>
    BY DEF Reverse
  <2>4. base \in Nat /\ <<>> \in Seq(FiguresOf(T))
    BY DEF Bases
  <2>5. ValueOf(<<>> \o <<"0">>, base, T) = ValueOf(<<>>, base, T) * base + IndexIn("0", T) - 1
    BY <2>2, <2>4, ValueAppend
  <2>6. ValueOf(<<>>, base, T) = 0
    BY <2>4, ValueEmpty
  <2>7. tmp \in Seq(FiguresOf(T)) /\ Len(tmp) = 1
    BY <2>1, <2>2
  <2>8. ValueOf(Reverse(tmp), base, T) = 0
    BY <2>1, <2>2, <2>3, <2>4, <2>5, <2>6
  <2> HIDE DEF tmp
  <2> QED
    BY <1>4, <2>7, <2>8
<1>5. CASE n # 0
  <2>1. tmp = rest[n]
    BY <1>1, <1>5
  <2> QED
    BY <1>2, <1>3, <1>5, <2>1
<1> QED
  BY <1>4, <1>5

-----------------------------------------------------------------------------
(* number: the parts it puts together, and where the number is among them. *)

\* The parts that number puts together.
SignOf(num, types) ==
  LET negative == "SIGN" \in types /\ num < 0
  IN CASE negative -> <<"-">>
       [] ~negative /\ "PLUS" \in types -> <<"+">>
       [] ~negative /\ "PLUS" \notin types /\ "SPACE" \in types -> <<Blank>>
       [] OTHER -> <<>>
PrefixOf(base, types) ==
  CASE "SPECIAL" \in types /\ base = 16 -> <<"0", XDigit("SMALL" \in types)>>
    [] "SPECIAL" \in types /\ base = 8  -> <<"0">>
    [] OTHER -> <<>>
Magnitude(num, types) == AsLong(IF "SIGN" \in types /\ num < 0 THEN -num ELSE num)
TmpOf(num, base, types) == Reversed(Magnitude(num, types), base, Digits("SMALL" \in types))
PadIf(cond, c, n) == IF cond THEN Times(c, n) ELSE <<>>

\* The result of number from its parts.
LEMMA NumberParts ==
  ASSUME NEW num, NEW base, NEW field_width, NEW precision, NEW type
  PROVE  LET types == FlagsInEffect(type)
             sign == SignOf(num, types)
             prefix == PrefixOf(base, types)
             tmp == TmpOf(num, base, types)
             size == field_width - Len(sign) - Len(prefix) - Most(Len(tmp), precision)
         IN number(num, base, field_width, precision, type) =
              PadIf(types \cap {"ZEROPAD", "LEFT"} = {}, Blank, size) \o sign \o prefix
                \o PadIf("ZEROPAD" \in types, "0", size)
                \o Times("0", precision - Len(tmp)) \o Reverse(tmp)
                \o PadIf("LEFT" \in types, Blank, size)
  BY Zenon DEF number, SignOf, PrefixOf, TmpOf, Magnitude, PadIf

AreTexts(a, b, c, d, e, f) ==
  /\ a \in Seq(Chars) /\ b \in Seq(Chars) /\ c \in Seq(Chars)
  /\ d \in Seq(Chars) /\ e \in Seq(Chars) /\ f \in Seq(Chars)

\* The parts in the order of number, and the blanks before and after the rest.
LEMMA Regroup ==
  ASSUME NEW lead, NEW mark, NEW c, NEW d, NEW e, NEW f, AreTexts(lead, mark, c, d, e, f)
  PROVE  (lead \o mark) \o c \o d \o e \o f = lead \o ((mark \o c) \o ((d \o e) \o f))
<1>0. /\ lead \in Seq(Chars) /\ mark \in Seq(Chars) /\ c \in Seq(Chars)
      /\ d \in Seq(Chars) /\ e \in Seq(Chars) /\ f \in Seq(Chars)
  BY DEF AreTexts
<1>1. (lead \o mark) \o c = lead \o (mark \o c)
  BY <1>0, SMTT(30)
<1>2. mark \o c \in Seq(Chars) /\ lead \o (mark \o c) \in Seq(Chars) /\ (d \o e) \o f \in Seq(Chars)
  BY <1>0
<1>3. lead \o (mark \o c) \o d \o e \o f = (lead \o (mark \o c)) \o ((d \o e) \o f)
  <2>1. \A x \in Seq(Chars) : x \o d \o e \o f = x \o ((d \o e) \o f)
    <3> TAKE x \in Seq(Chars)
    <3>1. x \o d \o e = x \o (d \o e)
      BY <1>0
    <3>2. PICK de \in Seq(Chars) : de = d \o e
      <4>1. d \o e \in Seq(Chars)
        BY <1>0
      <4> QED
        BY <4>1, Zenon
    <3>3. (x \o de) \o f = x \o (de \o f)
      BY <1>0
    <3> QED
      BY <3>1, <3>2, <3>3, Zenon
  <2> QED
    BY <1>0, <1>2, <2>1, Zenon
<1>4. (lead \o (mark \o c)) \o ((d \o e) \o f) = lead \o ((mark \o c) \o ((d \o e) \o f))
  <2>1. \A x, y \in Seq(Chars) : (lead \o x) \o y = lead \o (x \o y)
    BY <1>0, SMTT(30)
  <2> QED
    BY <1>0, <1>2, <2>1, Zenon
<1> QED
  BY <1>1, <1>3, <1>4, Zenon

\* t is in out from Len(a) + 1 on, with a before it and b after it.
IsMiddle(out, a, t, b) ==
  /\ Len(out) = Len(a) + Len(t) + Len(b)
  /\ SubSeq(out, Len(a) + 1, Len(a) + Len(t)) = t
  /\ \A i \in 1 .. Len(a) : out[i] = a[i]
  /\ \A i \in 1 .. Len(t) : out[Len(a) + i] = t[i]
  /\ \A i \in 1 .. Len(b) : out[Len(a) + Len(t) + i] = b[i]

\* The middle of three sequences.
LEMMA MiddleOf ==
  ASSUME NEW S, NEW a \in Seq(S), NEW t \in Seq(S), NEW b \in Seq(S)
  PROVE  IsMiddle((a \o t) \o b, a, t, b)
<1> DEFINE at == a \o t
           out == at \o b
<1>1. /\ at \in Seq(S) /\ Len(at) = Len(a) + Len(t)
      /\ \A i \in 1 .. Len(a) : at[i] = a[i]
      /\ \A i \in Len(a) + 1 .. Len(a) + Len(t) : at[i] = t[i - Len(a)]
  BY Joined
<1>0. at \in Seq(S)
  BY <1>1
<1> HIDE DEF at
<1>2. /\ out \in Seq(S) /\ Len(out) = Len(at) + Len(b)
      /\ \A i \in 1 .. Len(at) : out[i] = at[i]
      /\ \A i \in Len(at) + 1 .. Len(at) + Len(b) : out[i] = b[i - Len(at)]
  BY <1>0, Joined
<1> HIDE DEF out
<1>3. Len(a) \in Nat /\ Len(t) \in Nat /\ Len(b) \in Nat
  OBVIOUS
<1>4. \A i \in 1 .. Len(a) : out[i] = a[i]
  BY <1>1, <1>2, <1>3
<1>5. ASSUME NEW i \in 1 .. Len(t) PROVE out[Len(a) + i] = t[i]
  <2>1. Len(a) + i \in Len(a) + 1 .. Len(a) + Len(t) /\ (Len(a) + i) - Len(a) = i /\ Len(a) + i \in 1 .. Len(at)
    BY <1>1, <1>3
  <2> QED
    BY <1>1, <1>2, <2>1
<1>6. ASSUME NEW i \in 1 .. Len(b) PROVE out[Len(a) + Len(t) + i] = b[i]
  <2>1. /\ Len(a) + Len(t) + i \in Len(at) + 1 .. Len(at) + Len(b)
        /\ (Len(a) + Len(t) + i) - Len(at) = i
    BY <1>1, <1>3
  <2> QED
    BY <1>2, <2>1
<1>7. SubSeq(out, Len(a) + 1, Len(a) + Len(t)) = t
  <2> DEFINE m == Len(a) + 1
             n == Len(a) + Len(t)
             s == SubSeq(out, m, n)
  <2>1. m \in Int /\ n \in Int /\ n - m + 1 = Len(t) /\ (m <= n => n - m + 1 = Len(t)) /\ (~(m <= n) => Len(t) = 0)
    BY <1>3
  <2>2. \A i \in m .. n : out[i] \in S
    <3>1. \A i \in m .. n : i \in 1 .. Len(out)
      BY <1>1, <1>2, <1>3
    <3> QED
      BY <1>2, <3>1, ElementOfSeq
  <2>3. \A i \in 1 .. Len(t) : m + i - 1 = Len(a) + i
    BY <1>3
  <2> HIDE DEF m, n
  <2>4. /\ s \in Seq(S) /\ Len(s) = IF m <= n THEN n - m + 1 ELSE 0
        /\ \A i \in 1 .. n - m + 1 : s[i] = out[m + i - 1]
    BY <2>1, <2>2, SubSeqProperties
  <2> HIDE DEF s
  <2>5. Len(s) = Len(t) /\ \A i \in 1 .. Len(s) : s[i] = t[i]
    BY <1>5, <2>1, <2>3, <2>4
  <2>6. s = t
    BY <2>4, <2>5, SeqEqual
  <2> QED
    BY <2>6 DEF s, m, n
<1>8. Len(out) = Len(a) + Len(t) + Len(b)
  BY <1>1, <1>2
<1>9. IsMiddle(out, a, t, b)
  BY <1>4, <1>5, <1>6, <1>7, <1>8, Zenon DEF IsMiddle
<1> QED
  BY <1>9 DEF out, at

MarkOf(num, type) ==
  IF "SIGN" \in type /\ num < 0 THEN <<"-">> ELSE IF "PLUS" \in type THEN <<"+">> ELSE <<>>
BlankSign(num, type) ==
  IF ~("SIGN" \in type /\ num < 0) /\ "PLUS" \notin type /\ "SPACE" \in type THEN 1 ELSE 0

\* The blanks before and after a number, its sign and prefix, and its figures.
IsLayout(out, lead, body, tail, num, base, field_width, precision, type) ==
  LET blank == BlankSign(num, type)
      T == Digits("SMALL" \in type)
  IN /\ lead \in Seq({Blank}) /\ tail \in Seq({Blank}) /\ body \in Seq(FiguresOf(T))
     /\ out = (lead \o ((MarkOf(num, type) \o PrefixOf(base, type)) \o body)) \o tail
     /\ ValueOf(body, base, T) = Magnitude(num, type)
     /\ Len(body) >= 1 /\ Len(body) >= precision
     /\ Len(out) >= field_width
     /\ Len(lead) + Len(tail) > blank => Len(out) = field_width
     /\ Len(lead) >= blank
     /\ IF "LEFT" \in type THEN Len(lead) = blank ELSE Len(tail) = 0
     /\ "ZEROPAD" \in type /\ "LEFT" \notin type => Len(lead) = blank

\* A padding loop that runs under a condition.
LEMMA PadFacts ==
  ASSUME NEW S, NEW c \in S, NEW n \in Int, NEW cond
  PROVE  /\ PadIf(cond, c, n) \in Seq(S)
         /\ Len(PadIf(cond, c, n)) = IF cond THEN Most(n, 0) ELSE 0
         /\ \A i \in 1 .. Len(PadIf(cond, c, n)) : PadIf(cond, c, n)[i] = c
<1>1. CASE cond
  <2>1. PadIf(cond, c, n) = Times(c, n)
    BY <1>1 DEF PadIf
  <2>2. /\ Times(c, n) \in Seq(S) /\ Len(Times(c, n)) = Most(n, 0)
        /\ \A i \in 1 .. Len(Times(c, n)) : Times(c, n)[i] = c
    BY TimesFacts
  <2> QED
    BY <1>1, <2>1, <2>2, Zenon
<1>2. CASE ~cond
  <2>1. PadIf(cond, c, n) = <<>>
    BY <1>2 DEF PadIf
  <2> QED
    BY <1>2, <2>1
<1> QED
  BY <1>1, <1>2

\* Zeros in front of figures.
LEMMA ZerosBefore ==
  ASSUME NEW T, IsTable(T), NEW base \in Nat, NEW z, NEW p, NEW r \in Seq(FiguresOf(T)),
         z \in Seq({"0"}), p \in Seq({"0"})
  PROVE  /\ (z \o p) \o r \in Seq(FiguresOf(T)) /\ z \in Seq(FiguresOf(T)) /\ p \in Seq(FiguresOf(T))
         /\ Len((z \o p) \o r) = Len(z) + Len(p) + Len(r)
         /\ ValueOf((z \o p) \o r, base, T) = ValueOf(r, base, T)
<1> DEFINE zp == z \o p
           t == zp \o r
           S == FiguresOf(T)
<1>1. "0" \in S
  <2>1. T[1] = "0"
    BY DEF IsTable
  <2> QED
    BY <2>1 DEF FiguresOf
<1>2. /\ zp \in Seq({"0"}) /\ Len(zp) = Len(z) + Len(p)
  BY Joined
<1> HIDE DEF zp
<1>3. \A i \in 1 .. Len(zp) : zp[i] = "0"
  BY <1>2, ElementOfSeq
<1>4. {"0"} \subseteq S
  BY <1>1
<1>5. zp \in Seq(S) /\ z \in Seq(S) /\ p \in Seq(S)
  BY <1>2, <1>4, SeqMonotonic
<1>6. /\ t \in Seq(S) /\ Len(t) = Len(zp) + Len(r)
      /\ \A i \in 1 .. Len(zp) : t[i] = zp[i]
      /\ \A i \in Len(zp) + 1 .. Len(zp) + Len(r) : t[i] = r[i - Len(zp)]
  <2>1. r \in Seq(S)
    OBVIOUS
  <2> HIDE DEF S
  <2> QED
    BY <1>5, <2>1, Joined
<1> HIDE DEF t
<1>7. Len(zp) \in Nat /\ Len(r) \in Nat
  BY <1>2
<1>8. \A i \in 1 .. Len(zp) : t[i] = "0"
  BY <1>3, <1>6
<1>9. Repeats(r, t, Len(zp))
  <2>1. ASSUME NEW i \in 1 .. Len(r) PROVE t[Len(zp) + i] = r[i]
    <3>1. Len(zp) + i \in Len(zp) + 1 .. Len(zp) + Len(r) /\ (Len(zp) + i) - Len(zp) = i
      BY <1>7
    <3> QED
      BY <1>6, <3>1
  <2> QED
    BY <1>6, <1>7, <2>1 DEF Repeats
<1>10. ValueOf(t, base, T) = ValueOf(r, base, T)
  <2>1. ZerosThen(Len(zp), r, t)
    BY <1>6, <1>8, <1>9 DEF Repeats, ZerosThen
  <2> QED
    BY <1>6, <1>7, <2>1, ValueOfZeros
<1> QED
  BY <1>2, <1>5, <1>6, <1>10 DEF t, zp

\* The flags that number goes by.
LEMMA TypesInEffect ==
  ASSUME NEW type
  PROVE  LET types == FlagsInEffect(type)
         IN /\ \A f : f \in types <=> f \in type /\ ~(f = "ZEROPAD" /\ "LEFT" \in type)
  BY DEF FlagsInEffect

\* The digits in tmp denote the magnitude of the number.
LEMMA NumberArguments ==
  ASSUME NEW num \in Int, NEW base \in {8, 10, 16}, NEW type
  PROVE  LET T == Digits("SMALL" \in type)
             tmp == TmpOf(num, base, type)
         IN /\ IsTable(T) /\ Magnitude(num, type) \in Nat
            /\ tmp \in Seq(FiguresOf(T)) /\ Len(tmp) \in Nat /\ Len(tmp) >= 1
            /\ Reverse(tmp) \in Seq(FiguresOf(T)) /\ Len(Reverse(tmp)) = Len(tmp)
            /\ ValueOf(Reverse(tmp), base, T) = Magnitude(num, type)
<1> DEFINE T == Digits("SMALL" \in type)
           n == Magnitude(num, type)
           tmp == TmpOf(num, base, type)
<1>1. n \in 0 .. 2 * LongHalf
  <2>1. n = num % (2 * LongHalf) \/ n = (-num) % (2 * LongHalf)
    BY DEF Magnitude, AsLong
  <2>2. 2 * LongHalf \in Nat \ {0}
    BY WidthAssumption
  <2> HIDE DEF n
  <2> QED
    BY <2>1, <2>2
<1>2. IsTable(T)
  <2>1. ("SMALL" \in type) \in BOOLEAN
    OBVIOUS
  <2> QED
    BY <2>1, DigitsAreTable
<1>3. base \in Bases
  BY DEF Bases
<1>4. tmp = Reversed(n, base, T)
  BY DEF TmpOf
<1> HIDE DEF n, T
<1>5. tmp \in Seq(FiguresOf(T)) /\ Len(tmp) >= 1 /\ ValueOf(Reverse(tmp), base, T) = n
  BY <1>1, <1>2, <1>3, <1>4, ReversedReads
<1> HIDE DEF tmp
<1>6. Reverse(tmp) \in Seq(FiguresOf(T)) /\ Len(Reverse(tmp)) = Len(tmp)
  BY <1>5, ReverseFacts
<1>7. n \in Nat /\ Len(tmp) \in Nat
  BY <1>1, <1>5, WidthAssumption
<1> QED
  BY <1>2, <1>5, <1>6, <1>7 DEF T, n, tmp

\* The prefix and its length.
LEMMA PrefixFacts ==
  ASSUME NEW base \in {8, 10, 16}, NEW type
  PROVE  /\ PrefixOf(base, type) \in Seq(Chars)
         /\ Len(PrefixOf(base, type)) = IF "SPECIAL" \in type /\ base = 16 THEN 2
                                        ELSE IF "SPECIAL" \in type /\ base = 8 THEN 1 ELSE 0
         /\ Len(PrefixOf(base, type)) = 1 => PrefixOf(base, type) = <<"0">>
         /\ Len(PrefixOf(base, type)) >= 1 => PrefixOf(base, type)[1] = "0"
         /\ Len(PrefixOf(base, type)) >= 2 => PrefixOf(base, type)[2] \in {"x", "X"}
<1>1. XDigit("SMALL" \in type) \in {"x", "X"}
  BY DEF XDigit
<1>2. "0" \in Chars /\ "x" \in Chars /\ "X" \in Chars
  BY DEF Chars
<1>3. CASE "SPECIAL" \in type /\ base = 16
  <2>1. PICK c \in {"x", "X"} : c = XDigit("SMALL" \in type)
    BY <1>1
  <2>2. PrefixOf(base, type) = <<"0", c>>
    BY <1>3, <2>1 DEF PrefixOf
  <2>3. c \in Chars /\ "0" \in Chars
    BY <1>2
  <2>4. <<"0", c>> \in Seq(Chars) /\ Len(<<"0", c>>) = 2 /\ <<"0", c>>[1] = "0" /\ <<"0", c>>[2] = c
    BY <2>3
  <2> QED
    BY <1>3, <2>2, <2>4
<1>4. CASE "SPECIAL" \in type /\ base = 8
  <2>1. PrefixOf(base, type) = <<"0">>
    BY <1>4 DEF PrefixOf
  <2> QED
    BY <1>2, <1>4, <2>1
<1>5. CASE ~("SPECIAL" \in type /\ base = 16) /\ ~("SPECIAL" \in type /\ base = 8)
  <2>1. PrefixOf(base, type) = <<>>
    BY <1>5 DEF PrefixOf
  <2> QED
    BY <1>5, <2>1
<1> QED
  BY <1>3, <1>4, <1>5

\* The sign as number has it is the mark, or a blank for it.
LEMMA SignFacts ==
  ASSUME NEW num, NEW type
  PROVE  LET mark == MarkOf(num, type)
             sign == SignOf(num, type)
         IN /\ mark \in Seq(Chars) /\ sign \in Seq(Chars)
            /\ \/ BlankSign(num, type) = 0 /\ sign = mark
               \/ BlankSign(num, type) = 1 /\ sign = <<Blank>> /\ mark = <<>>
  BY DEF MarkOf, SignOf, BlankSign, Chars

SumsAre(ou, le, co, b, l, bl, mk, pr, bo, z, p, r, si, sg, dg) ==
  /\ {ou, le, co, b, l, bl, mk, pr, bo, z, p, r, si, sg, dg} \subseteq Int
  /\ ou = le + co + b /\ le = l + bl /\ co = mk + pr + bo /\ bo = z + p + r
  /\ mk + bl = sg /\ p + r = dg /\ l + z + b = si

\* The length of the result is the sum of what is taken off size and what is left of it.
LEMMA SumsAgree ==
  ASSUME NEW ou, NEW le, NEW co, NEW b, NEW l, NEW bl, NEW mk, NEW pr, NEW bo, NEW z, NEW p, NEW r,
         NEW si, NEW sg, NEW dg, SumsAre(ou, le, co, b, l, bl, mk, pr, bo, z, p, r, si, sg, dg)
  PROVE  ou = si + sg + pr + dg
  BY DEF SumsAre

\* What number returns, for every number, base, width, precision and flags.
LEMMA NumberLayout ==
  ASSUME NEW num \in Int, NEW base \in {8, 10, 16}, NEW field_width \in Int, NEW precision \in Int, NEW type
  PROVE  \E lead, body, tail :
           IsLayout(number(num, base, field_width, precision, type), lead, body, tail,
                    num, base, field_width, precision, type)
<1> DEFINE types == FlagsInEffect(type)
           T == Digits("SMALL" \in type)
           sign == SignOf(num, types)
           mark == MarkOf(num, type)
           blank == BlankSign(num, type)
           prefix == PrefixOf(base, type)
           tmp == TmpOf(num, base, type)
           digits == Most(Len(tmp), precision)
           size == field_width - Len(sign) - Len(prefix) - digits
           right == "LEFT" \notin type /\ "ZEROPAD" \notin type
           zeros == "LEFT" \notin type /\ "ZEROPAD" \in type
           left == "LEFT" \in type
           L == PadIf(right, Blank, size)
           Z == PadIf(zeros, "0", size)
           P == Times("0", precision - Len(tmp))
           R == Reverse(tmp)
           B == PadIf(left, Blank, size)
           out == number(num, base, field_width, precision, type)
           lead == IF blank = 1 THEN L \o <<Blank>> ELSE L
           body == (Z \o P) \o R
<1>1. \A f : f \in types <=> f \in type /\ ~(f = "ZEROPAD" /\ "LEFT" \in type)
  BY TypesInEffect
<1>2. /\ sign = SignOf(num, type) /\ prefix = PrefixOf(base, types) /\ tmp = TmpOf(num, base, types)
      /\ ("ZEROPAD" \in types) = zeros /\ ("LEFT" \in types) = left
      /\ (types \cap {"ZEROPAD", "LEFT"} = {}) = right
  <2>1. /\ ("SIGN" \in types) = ("SIGN" \in type) /\ ("PLUS" \in types) = ("PLUS" \in type)
        /\ ("SPACE" \in types) = ("SPACE" \in type) /\ ("SPECIAL" \in types) = ("SPECIAL" \in type)
        /\ ("SMALL" \in types) = ("SMALL" \in type)
    BY <1>1
  <2>2. sign = SignOf(num, type) /\ prefix = PrefixOf(base, types) /\ tmp = TmpOf(num, base, types)
    BY <2>1, Zenon DEF SignOf, PrefixOf, TmpOf, Magnitude
  <2>3. ("ZEROPAD" \in types) = zeros /\ ("LEFT" \in types) = left
    BY <1>1
  <2>4. (types \cap {"ZEROPAD", "LEFT"} = {}) = right
    BY <1>1
  <2> QED
    BY <2>2, <2>3, <2>4
<1>3. out = L \o sign \o prefix \o Z \o P \o R \o B
  <2>1. out = PadIf(types \cap {"ZEROPAD", "LEFT"} = {}, Blank, size) \o sign \o prefix
                \o PadIf("ZEROPAD" \in types, "0", size)
                \o P \o R \o PadIf("LEFT" \in types, Blank, size)
    BY <1>2, NumberParts, Zenon
  <2> HIDE DEF types, size, P, R, out, prefix, sign
  <2>2. /\ PadIf(types \cap {"ZEROPAD", "LEFT"} = {}, Blank, size) = L
        /\ PadIf("ZEROPAD" \in types, "0", size) = Z
        /\ PadIf("LEFT" \in types, Blank, size) = B
    BY <1>2 DEF PadIf
  <2> HIDE DEF L, Z, B
  <2> QED
    BY <2>1, <2>2, Zenon
<1>4. /\ IsTable(T) /\ tmp \in Seq(FiguresOf(T)) /\ Len(tmp) \in Nat /\ Len(tmp) >= 1
      /\ R \in Seq(FiguresOf(T)) /\ Len(R) = Len(tmp) /\ ValueOf(R, base, T) = Magnitude(num, type)
  BY NumberArguments
<1>5. /\ mark \in Seq(Chars) /\ sign \in Seq(Chars)
      /\ \/ blank = 0 /\ sign = mark
         \/ blank = 1 /\ sign = <<Blank>> /\ mark = <<>>
  BY <1>2, SignFacts
<1>6. prefix \in Seq(Chars)
  BY PrefixFacts
<1> HIDE DEF T, tmp, R, mark, sign, blank, prefix, types, out
<1>7. digits \in Int /\ digits >= precision /\ (digits = precision \/ digits = Len(tmp)) /\ digits >= Len(tmp)
  BY <1>4 DEF Most
<1> HIDE DEF digits
<1>8. Len(sign) \in Nat /\ Len(prefix) \in Nat /\ Len(mark) \in Nat /\ size \in Int
  BY <1>5, <1>6, <1>7
<1> HIDE DEF size
<1>9. /\ L \in Seq({Blank}) /\ B \in Seq({Blank}) /\ Z \in Seq({"0"}) /\ P \in Seq({"0"})
      /\ Len(L) = IF right THEN Most(size, 0) ELSE 0
      /\ Len(B) = IF left THEN Most(size, 0) ELSE 0
      /\ Len(Z) = IF zeros THEN Most(size, 0) ELSE 0
      /\ Len(P) = Most(precision - Len(tmp), 0)
  <2>1. Blank \in {Blank} /\ "0" \in {"0"} /\ precision - Len(tmp) \in Int
    BY <1>4
  <2> HIDE DEF right, left, zeros
  <2>2. /\ L \in Seq({Blank}) /\ Len(L) = IF right THEN Most(size, 0) ELSE 0
    BY <1>8, <2>1, PadFacts, Zenon
  <2>3. /\ B \in Seq({Blank}) /\ Len(B) = IF left THEN Most(size, 0) ELSE 0
    BY <1>8, <2>1, PadFacts, Zenon
  <2>4. /\ Z \in Seq({"0"}) /\ Len(Z) = IF zeros THEN Most(size, 0) ELSE 0
    BY <1>8, <2>1, PadFacts, Zenon
  <2>5. /\ P \in Seq({"0"}) /\ Len(P) = Most(precision - Len(tmp), 0)
    BY <2>1, TimesFacts, Zenon
  <2> QED
    BY <2>2, <2>3, <2>4, <2>5, Zenon
<1> HIDE DEF L, Z, P, B
<1>10. /\ body \in Seq(FiguresOf(T)) /\ Z \in Seq(FiguresOf(T)) /\ P \in Seq(FiguresOf(T))
       /\ Len(body) = Len(Z) + Len(P) + Len(R) /\ ValueOf(body, base, T) = Magnitude(num, type)
  <2>1. base \in Nat
    OBVIOUS
  <2> QED
    <3>1. /\ IsTable(T) /\ base \in Nat /\ R \in Seq(FiguresOf(T))
          /\ Z \in Seq({"0"}) /\ P \in Seq({"0"})
      BY <1>4, <1>9, <2>1
    <3>2. /\ body \in Seq(FiguresOf(T)) /\ Z \in Seq(FiguresOf(T)) /\ P \in Seq(FiguresOf(T))
          /\ Len(body) = Len(Z) + Len(P) + Len(R) /\ ValueOf(body, base, T) = ValueOf(R, base, T)
      BY <3>1, ZerosBefore, ZenonT(40)
    <3> QED
      BY <1>4, <3>2, Zenon
<1> HIDE DEF body
<1>11. /\ lead \in Seq({Blank}) /\ Len(lead) = Len(L) + blank /\ L \o sign = lead \o mark
  <2>1. CASE blank = 0
    <3>1. lead = L /\ sign = mark
      BY <1>5, <2>1
    <3> QED
      BY <1>9, <2>1, <3>1
  <2>2. CASE blank = 1
    <3>1. lead = L \o <<Blank>> /\ sign = <<Blank>> /\ mark = <<>>
      BY <1>5, <2>2
    <3>2. <<Blank>> \in Seq({Blank}) /\ Len(<<Blank>>) = 1
      OBVIOUS
    <3>3. L \o <<Blank>> \in Seq({Blank}) /\ Len(L \o <<Blank>>) = Len(L) + Len(<<Blank>>)
      BY <1>9, <3>2, Joined
    <3>4. (L \o <<Blank>>) \o <<>> = L \o <<Blank>>
      BY <3>3, ConcatEmptySeq
    <3> QED
      BY <2>2, <3>1, <3>2, <3>3, <3>4
  <2>3. blank = 0 \/ blank = 1
    BY <1>5
  <2> HIDE DEF lead
  <2> QED
    BY <2>1, <2>2, <2>3
<1> HIDE DEF lead
<1>12. /\ lead \in Seq(Chars) /\ B \in Seq(Chars) /\ body \in Seq(Chars) /\ R \in Seq(Chars)
       /\ Z \in Seq(Chars) /\ P \in Seq(Chars)
  <2>1. {Blank} \subseteq Chars
    BY DEF Chars
  <2>2. FiguresOf(T) \subseteq Chars
    BY <1>4, FigureFacts
  <2>3. \A s \in Seq({Blank}) : s \in Seq(Chars)
    BY <2>1, SeqMonotonic
  <2>4. \A s \in Seq(FiguresOf(T)) : s \in Seq(Chars)
    BY <2>2, SeqMonotonic
  <2> QED
    BY <1>4, <1>9, <1>10, <1>11, <2>3, <2>4
<1>13. out = (lead \o ((mark \o prefix) \o body)) \o B
  <2>1. (lead \o mark) \o prefix \o Z \o P \o R = lead \o ((mark \o prefix) \o ((Z \o P) \o R))
    <3>1. AreTexts(lead, mark, prefix, Z, P, R)
      BY <1>5, <1>6, <1>12 DEF AreTexts
    <3> QED
      BY <3>1, Regroup, SMTT(30)
  <2> QED
    BY <1>3, <1>11, <2>1, Zenon DEF body
<1> DEFINE core == (mark \o prefix) \o body
<1>14. core \in Seq(Chars) /\ Len(core) = Len(mark) + Len(prefix) + Len(body)
  <2> DEFINE mp == mark \o prefix
  <2>1. mp \in Seq(Chars) /\ Len(mp) = Len(mark) + Len(prefix)
    BY <1>5, <1>6, Joined
  <2> HIDE DEF mp
  <2>2. mp \o body \in Seq(Chars) /\ Len(mp \o body) = Len(mp) + Len(body)
    BY <1>12, <2>1, Joined
  <2> QED
    BY <2>1, <2>2 DEF mp
<1>15. Len(out) = Len(lead) + Len(core) + Len(B)
  <2> HIDE DEF core
  <2> QED
    <3>1. lead \in Seq(Chars) /\ core \in Seq(Chars) /\ B \in Seq(Chars)
      BY <1>12, <1>14
    <3>2. IsMiddle((lead \o core) \o B, lead, core, B)
      BY <3>1, MiddleOf
    <3>3. Len((lead \o core) \o B) = Len(lead) + Len(core) + Len(B)
      BY <3>2, Zenon DEF IsMiddle
    <3> QED
      BY <1>13, <3>3, Zenon DEF core
<1>16. /\ Len(mark) + blank = Len(sign) /\ blank \in {0, 1}
       /\ Len(P) + Len(R) = digits
       /\ Len(L) + Len(Z) + Len(B) = Most(size, 0)
       /\ Len(L) \in Nat /\ Len(Z) \in Nat /\ Len(B) \in Nat /\ Len(P) \in Nat
  <2>1. Len(mark) + blank = Len(sign) /\ blank \in {0, 1}
    <3>1. CASE blank = 0 /\ sign = mark
      BY <1>8, <3>1
    <3>2. CASE blank = 1 /\ sign = <<Blank>> /\ mark = <<>>
      <4>1. Len(<<Blank>>) = 1 /\ Len(<<>>) = 0
        OBVIOUS
      <4> QED
        BY <3>2, <4>1
    <3> QED
      BY <1>5, <3>1, <3>2
  <2>2. Len(P) + Len(R) = digits
    BY <1>4, <1>7, <1>9 DEF Most, digits
  <2>3. Len(L) + Len(Z) + Len(B) = Most(size, 0)
    BY <1>8, <1>9 DEF Most
  <2>4. Len(L) \in Nat /\ Len(Z) \in Nat /\ Len(B) \in Nat /\ Len(P) \in Nat
    BY <1>9
  <2> QED
    BY <2>1, <2>2, <2>3, <2>4
<1>17. Len(out) = Most(size, 0) + Len(sign) + Len(prefix) + digits
  <2> HIDE DEF core
  <2>1. /\ Len(out) = Len(lead) + Len(core) + Len(B) /\ Len(lead) = Len(L) + blank
        /\ Len(core) = Len(mark) + Len(prefix) + Len(body)
    BY <1>11, <1>14, <1>15, Zenon
  <2>2. Len(body) = Len(Z) + Len(P) + Len(R) /\ Len(R) \in Nat
    BY <1>4, <1>10
  <2>3. Most(size, 0) \in Int
    BY <1>8 DEF Most
  <2>5. /\ Len(out) \in Int /\ Len(lead) \in Int /\ Len(core) \in Int /\ Len(B) \in Int /\ Len(L) \in Int
        /\ blank \in Int /\ Len(mark) \in Int /\ Len(prefix) \in Int /\ Len(body) \in Int
        /\ Len(Z) \in Int /\ Len(P) \in Int /\ Len(R) \in Int /\ Len(sign) \in Int /\ digits \in Int
    BY <1>7, <1>8, <1>16, <2>1, <2>2
  <2>6. SumsAre(Len(out), Len(lead), Len(core), Len(B), Len(L), blank, Len(mark), Len(prefix), Len(body),
                Len(Z), Len(P), Len(R), Most(size, 0), Len(sign), digits)
    BY <1>16, <2>1, <2>2, <2>3, <2>5 DEF SumsAre
  <2> QED
    BY <2>6, SumsAgree
<1>18. size = field_width - Len(sign) - Len(prefix) - digits
  BY DEF size
<1>19. Len(out) >= field_width /\ (size > 0 => Len(out) = field_width)
  BY <1>7, <1>8, <1>17, <1>18 DEF Most
<1>20. /\ Len(lead) + Len(B) > blank => size > 0
       /\ Len(lead) >= blank
       /\ IF left THEN Len(lead) = blank ELSE Len(B) = 0
       /\ zeros => Len(lead) = blank
  BY <1>8, <1>9, <1>11, <1>16 DEF Most
<1>21. Len(body) >= 1 /\ Len(body) >= precision
  BY <1>4, <1>7, <1>10, <1>16
<1>22. IsLayout(out, lead, body, B, num, base, field_width, precision, type)
  <2> HIDE DEF core
  <2>1. /\ lead \in Seq({Blank}) /\ B \in Seq({Blank}) /\ body \in Seq(FiguresOf(T))
        /\ out = (lead \o ((mark \o prefix) \o body)) \o B
        /\ ValueOf(body, base, T) = Magnitude(num, type)
    BY <1>9, <1>10, <1>11, <1>13
  <2>2. Len(lead) + Len(B) > blank => Len(out) = field_width
    BY <1>19, <1>20
  <2>3. /\ Len(body) >= 1 /\ Len(body) >= precision /\ Len(out) >= field_width
        /\ Len(lead) >= blank
        /\ IF left THEN Len(lead) = blank ELSE Len(B) = 0
        /\ zeros => Len(lead) = blank
    BY <1>19, <1>20, <1>21
  <2> QED
    BY <2>1, <2>2, <2>3, Zenon DEF IsLayout, T, mark, prefix, blank
<1> QED
  BY <1>22 DEF out

-----------------------------------------------------------------------------
(* Directives: what vsprintf gives number for each, and that it reads back. *)

\* A format that is a single directive.
LEMMA OneDirective ==
  ASSUME NEW d, d.conv # "literal"
  PROVE  vsprintf(<<d>>) = Directive(d)
<1> DEFINE seqs == [k \in 1 .. Len(<<d>>) |-> IF <<d>>[k].conv = "literal" THEN <<d>>[k].text
                                             ELSE Directive(<<d>>[k])]
           Body(f, i) == IF i = 1 THEN seqs[i] ELSE f[i - 1] \o seqs[i]
           flatten == CHOOSE f : f = [i \in 1 .. Len(seqs) |-> Body(f, i)]
<1>1. Len(<<d>>) = 1 /\ <<d>>[1] = d
  OBVIOUS
<1>2. Len(seqs) = 1 /\ seqs[1] = Directive(d)
  BY <1>1
<1>3. vsprintf(<<d>>) = FlattenSeq(seqs)
  BY DEF vsprintf
<1> HIDE DEF seqs
<1>4. FlattenSeq(seqs) = flatten[1]
  BY <1>2 DEF FlattenSeq
<1>5. flatten = [i \in 1 .. Len(seqs) |-> Body(flatten, i)]
  <2> DEFINE g == [i \in 1 .. Len(seqs) |-> seqs[1]]
  <2>1. \A i \in 1 .. Len(seqs) : i = 1
    BY <1>2
  <2>2. g = [i \in 1 .. Len(seqs) |-> Body(g, i)]
    BY <2>1
  <2> HIDE DEF Body, g
  <2> QED
    BY <2>2
<1> HIDE DEF flatten
<1>6. flatten[1] = seqs[1]
  BY <1>2, <1>5
<1> QED
  BY <1>2, <1>3, <1>4, <1>6

\* A number below w, and one that has wrapped once, modulo w.
LEMMA ModSmall ==
  ASSUME NEW w \in Nat \ {0}, NEW a \in 0 .. w - 1
  PROVE  a % w = a
  OBVIOUS

LEMMA ModWrap ==
  ASSUME NEW w \in Nat \ {0}, NEW a \in 0 .. w - 1
  PROVE  (a - w) % w = a
<1> DEFINE x == a - w
<1>1. x = (x \div w) * w + (x % w) /\ x \div w \in Int /\ x % w \in 0 .. w - 1
  BY DivMod
<1> DEFINE q == x \div w
           r == x % w
<1>2. a - w = q * w + r /\ q \in Int /\ r \in 0 .. w - 1
  BY <1>1
<1> HIDE DEF x, q, r
<1>3. q = -1
  <2>1. (q + 1) * w = q * w + w
    BY <1>2
  <2>2. (q + 1) * w = a - r /\ a - r < w /\ a - r > -w
    BY <1>2, <2>1
  <2>3. CASE q + 1 >= 1
    <3>1. (q + 1) * w >= w
      BY <1>2, <2>3
    <3> QED
      BY <1>2, <2>2, <3>1
  <2>4. CASE q + 1 <= -1
    <3>1. (q + 1) * w <= -w
      BY <1>2, <2>4
    <3> QED
      BY <1>2, <2>2, <3>1
  <2> QED
    BY <1>2, <2>3, <2>4
<1>4. r = a
  BY <1>2, <1>3
<1> QED
  BY <1>4 DEF x, r

\* The directives that FormatFaithful is about: an argument as wide as a long, any of
\* the flags of a format, any width and precision.
FormatFlags == {"LEFT", "PLUS", "SPACE", "SPECIAL", "ZEROPAD"}
IsDirective(d) ==
  /\ d.conv \in Numeric /\ d.flags \subseteq FormatFlags
  /\ d.width \in Int /\ d.precision \in Int /\ d.arg \in 0 .. 2 * LongHalf - 1

\* The long that Directive gives number for d.
LongOf(d) ==
  LET long == Signed(d.arg, LongHalf)
      int == Signed(AsInt(d.arg), IntHalf)
  IN CASE d.qualifier = "l" \/ d.conv = "p" -> long
       [] d.qualifier # "l" /\ d.conv \in {"d", "i", "u"} -> int
       [] OTHER -> AsInt(d.arg)
TypeOf(d) ==
  d.flags \cup (IF d.width < -1 THEN {"LEFT"} ELSE {})
    \cup (CASE d.conv = "p" /\ d.width = -1 -> {"ZEROPAD"}
            [] d.conv = "x" -> {"SMALL"}
            [] d.conv \in {"d", "i"} -> {"SIGN"}
            [] OTHER -> {})

\* The cases of vsprintf that print a number, as one call of number.
LEMMA DirectiveNumber ==
  ASSUME NEW d, IsDirective(d)
  PROVE  /\ Directive(d) = number(LongOf(d), Base(d.conv), Width(d),
                                  IF d.precision < -1 THEN 0 ELSE d.precision, TypeOf(d))
         /\ LongOf(d) \in Int /\ Base(d.conv) \in {8, 10, 16} /\ Width(d) \in Int
<1> DEFINE flags == d.flags \cup IF d.width < -1 THEN {"LEFT"} ELSE {}
           field_width == IF d.width < -1 THEN -d.width ELSE d.width
           precision == IF d.precision < -1 THEN 0 ELSE d.precision
           int == Signed(AsInt(d.arg), IntHalf)
           long == Signed(d.arg, LongHalf)
           unsigned == IF d.qualifier = "l" THEN long ELSE AsInt(d.arg)
           signed == IF d.qualifier = "l" THEN long ELSE int
<1>1. /\ d.conv \in {"d", "i", "u", "o", "x", "X", "p"}
      /\ d.width \in Int /\ d.precision \in Int /\ d.arg \in 0 .. 2 * LongHalf - 1
  BY DEF IsDirective, Numeric
<1>2. (field_width = -1) = (d.width = -1)
  BY <1>1
<1>3. Directive(d) =
        CASE d.conv = "o" -> number(unsigned, 8, field_width, precision, flags)
          [] d.conv = "p" -> IF field_width = -1
                          THEN number(long, 16, PointerDigits, precision, flags \cup {"ZEROPAD"})
                          ELSE number(long, 16, field_width, precision, flags)
          [] d.conv = "x" -> number(unsigned, 16, field_width, precision, flags \cup {"SMALL"})
          [] d.conv = "X" -> number(unsigned, 16, field_width, precision, flags)
          [] d.conv \in {"d", "i"} -> number(signed, 10, field_width, precision, flags \cup {"SIGN"})
          [] d.conv = "u" -> number(signed, 10, field_width, precision, flags)
  BY <1>1 DEF Directive
<1> HIDE DEF flags, field_width, precision, int, long
<1>4. TypeOf(d) = flags \cup (CASE d.conv = "p" /\ d.width = -1 -> {"ZEROPAD"}
            [] d.conv = "x" -> {"SMALL"}
            [] d.conv \in {"d", "i"} -> {"SIGN"}
            [] OTHER -> {})
  BY Zenon DEF TypeOf, flags
<1>5. flags \cup {} = flags
  OBVIOUS
<1>6. d.conv \in {"o", "X", "u"} => TypeOf(d) = flags
  BY <1>4, <1>5
<1>7. /\ d.conv = "x" => TypeOf(d) = flags \cup {"SMALL"}
      /\ d.conv \in {"d", "i"} => TypeOf(d) = flags \cup {"SIGN"}
      /\ d.conv = "p" /\ d.width = -1 => TypeOf(d) = flags \cup {"ZEROPAD"}
      /\ d.conv = "p" /\ d.width # -1 => TypeOf(d) = flags
  BY <1>4, <1>5
<1>8. /\ d.conv = "p" /\ d.width = -1 => Width(d) = PointerDigits
      /\ ~(d.conv = "p" /\ d.width = -1) => Width(d) = field_width
  BY <1>1 DEF Width, field_width
<1>9. /\ d.conv \in {"d", "i", "u"} => LongOf(d) = signed
      /\ d.conv \in {"o", "x", "X"} => LongOf(d) = unsigned
      /\ d.conv = "p" => LongOf(d) = long
  BY DEF LongOf, int, long
<1>10. /\ d.conv = "o" => Base(d.conv) = 8
       /\ d.conv \in {"x", "X", "p"} => Base(d.conv) = 16
       /\ d.conv \in {"d", "i", "u"} => Base(d.conv) = 10
  BY DEF Base
<1>11. Directive(d) = number(LongOf(d), Base(d.conv), Width(d), precision, TypeOf(d))
  <2> HIDE DEF signed, unsigned
  <2>1. CASE d.conv = "p"
    BY <1>2, <1>3, <1>7, <1>8, <1>9, <1>10, <2>1
  <2>2. CASE d.conv \in {"o", "X", "u"}
    BY <1>3, <1>6, <1>8, <1>9, <1>10, <2>2
  <2>3. CASE d.conv \in {"d", "i", "x"}
    BY <1>3, <1>7, <1>8, <1>9, <1>10, <2>3
  <2> QED
    BY <1>1, <2>1, <2>2, <2>3
<1>12. int \in Int /\ long \in Int /\ AsInt(d.arg) \in Int
  BY <1>1, WidthAssumption DEF int, long, Signed, AsInt
<1>13. LongOf(d) \in Int /\ Base(d.conv) \in {8, 10, 16}
  BY <1>1, <1>9, <1>10, <1>12
<1>14. Width(d) \in Int
  BY <1>1, <1>8, WidthAssumption DEF field_width
<1> QED
  BY <1>11, <1>13, <1>14 DEF precision

\* The flags of that call.
LEMMA TypeFacts ==
  ASSUME NEW d, IsDirective(d)
  PROVE  LET type == TypeOf(d)
         IN /\ "SIGN" \in type <=> d.conv \in {"d", "i"}
            /\ "SMALL" \in type <=> d.conv = "x"
            /\ "LEFT" \in type <=> ToLeft(d)
            /\ \A f \in {"PLUS", "SPACE", "SPECIAL"} : f \in type <=> f \in d.flags
            /\ "ZEROPAD" \in d.flags => "ZEROPAD" \in type
<1>1. d.flags \subseteq FormatFlags /\ d.conv \in Numeric
  BY DEF IsDirective
<1>2. PICK more : more = CASE d.conv = "p" /\ d.width = -1 -> {"ZEROPAD"}
                           [] d.conv = "x" -> {"SMALL"}
                           [] d.conv \in {"d", "i"} -> {"SIGN"}
                           [] OTHER -> {}
  OBVIOUS
<1>3. TypeOf(d) = d.flags \cup (IF d.width < -1 THEN {"LEFT"} ELSE {}) \cup more
  BY <1>2, Zenon DEF TypeOf
<1>4. /\ "SIGN" \in more <=> d.conv \in {"d", "i"}
      /\ "SMALL" \in more <=> d.conv = "x"
      /\ \A f \in {"PLUS", "SPACE", "SPECIAL", "LEFT"} : f \notin more
  BY <1>2
<1>5. "SIGN" \notin d.flags /\ "SMALL" \notin d.flags
  BY <1>1 DEF FormatFlags
<1>6. "LEFT" \in TypeOf(d) <=> ToLeft(d)
  BY <1>3, <1>4 DEF ToLeft
<1> QED
  BY <1>3, <1>4, <1>5, <1>6

\* What number prints as the sign and the magnitude is the number that was asked for.
LEMMA MagnitudeDenotes ==
  ASSUME NEW d, IsDirective(d), ~ReadAsSigned(d)
  PROVE  LET n == Magnitude(LongOf(d), TypeOf(d))
         IN Denoted(d) = IF "SIGN" \in TypeOf(d) /\ LongOf(d) < 0 THEN -n ELSE n
<1> DEFINE num == LongOf(d)
           n == Magnitude(num, TypeOf(d))
           wide == d.qualifier = "l" \/ d.conv = "p"
           int == AsInt(d.arg)
<1>1. /\ d.conv \in {"d", "i", "u", "o", "x", "X", "p"} /\ d.arg \in 0 .. 2 * LongHalf - 1
  BY DEF IsDirective, Numeric
<1>2. /\ IntHalf \in Nat \ {0} /\ LongHalf \in Nat \ {0} /\ IntHalf <= LongHalf
      /\ 2 * LongHalf \in Nat \ {0} /\ 2 * IntHalf \in Nat \ {0}
  BY WidthAssumption
<1>3. int \in 0 .. 2 * IntHalf - 1
  BY <1>1, <1>2 DEF AsInt
<1>4. "SIGN" \in TypeOf(d) <=> d.conv \in {"d", "i"}
  BY TypeFacts
<1>5. \A a \in 0 .. 2 * LongHalf - 1 : AsLong(a) = a /\ AsLong(a - 2 * LongHalf) = a
  BY <1>2, ModSmall, ModWrap DEF AsLong
<1>6. n = IF "SIGN" \in TypeOf(d) /\ num < 0 THEN AsLong(-num) ELSE AsLong(num)
  BY DEF Magnitude
<1> HIDE DEF num, n, int
<1>7. CASE d.conv \in {"d", "i"}
  <2>1. num = IF wide THEN Signed(d.arg, LongHalf) ELSE Signed(int, IntHalf)
    BY <1>7 DEF num, LongOf, int
  <2>2. Denoted(d) = num
    BY <1>7, <2>1 DEF Denoted, int
  <2>3. num \in -LongHalf .. LongHalf - 1
    BY <1>1, <1>2, <1>3, <2>1 DEF Signed
  <2>4. CASE num < 0
    <3>1. -num \in 0 .. 2 * LongHalf - 1
      BY <1>2, <2>3, <2>4
    <3>2. n = -num
      BY <1>4, <1>5, <1>6, <1>7, <2>4, <3>1
    <3> QED
      BY <1>4, <1>7, <2>2, <2>3, <2>4, <3>2 DEF n, num
  <2>5. CASE ~(num < 0)
    <3>1. num \in 0 .. 2 * LongHalf - 1
      BY <1>2, <2>3, <2>5
    <3>2. n = num
      BY <1>5, <1>6, <2>5, <3>1
    <3> QED
      BY <2>2, <2>5, <3>2 DEF n, num
  <2> QED
    BY <2>4, <2>5
<1>8. CASE d.conv \notin {"d", "i"}
  <2>1. n = AsLong(num)
    BY <1>4, <1>6, <1>8
  <2>2. CASE wide
    <3>1. num = Signed(d.arg, LongHalf)
      BY <1>1, <2>2 DEF num, LongOf
    <3>2. num = d.arg \/ num = d.arg - 2 * LongHalf
      BY <3>1 DEF Signed
    <3>3. n = d.arg
      BY <1>1, <1>5, <2>1, <3>2
    <3>4. Denoted(d) = d.arg
      BY <1>8, <2>2 DEF Denoted
    <3> QED
      BY <1>4, <1>8, <3>3, <3>4 DEF n, num
  <2>3. CASE ~wide
    <3>1. num = int
      <4>1. CASE d.conv = "u"
        <5>1. ~(int >= IntHalf)
          BY <2>3, <4>1 DEF ReadAsSigned, int
        <5> QED
          BY <2>3, <4>1, <5>1 DEF num, LongOf, Signed, int
      <4>2. CASE d.conv # "u"
        BY <1>8, <2>3, <4>2 DEF num, LongOf, int
      <4> QED
        BY <4>1, <4>2
    <3>2. int \in 0 .. 2 * LongHalf - 1
      BY <1>2, <1>3
    <3>3. n = int
      BY <1>5, <2>1, <3>1, <3>2
    <3>4. Denoted(d) = int
      BY <1>8, <2>3 DEF Denoted, int
    <3> QED
      BY <1>4, <1>8, <3>3, <3>4 DEF n, num
  <2> QED
    BY <2>2, <2>3
<1> QED
  BY <1>7, <1>8

\* What is behind the first of two sequences.
LEMMA SuffixOf ==
  ASSUME NEW S, NEW a \in Seq(S), NEW b \in Seq(S)
  PROVE  SubSeq(a \o b, Len(a) + 1, Len(a \o b)) = b
<1>1. <<>> \in Seq(S)
  OBVIOUS
<1>2. SubSeq((a \o b) \o <<>>, Len(a) + 1, Len(a) + Len(b)) = b
  <2>1. IsMiddle((a \o b) \o <<>>, a, b, <<>>)
    BY <1>1, MiddleOf
  <2> QED
    BY <2>1, Zenon DEF IsMiddle
<1>3. a \o b \in Seq(S) /\ Len(a \o b) = Len(a) + Len(b)
  BY Joined
<1>4. (a \o b) \o <<>> = a \o b
  BY <1>3, ConcatEmptySeq
<1> QED
  BY <1>2, <1>3, <1>4, Zenon

\* The figures of a number that is printed with mark and prefix.
LEMMA FiguresOfText ==
  ASSUME NEW d, IsDirective(d), NEW T, IsTable(T), NEW body \in Seq(FiguresOf(T)), Len(body) >= 1,
         NEW mark \in {<<>>, <<"-">>, <<"+">>}
  PROVE  LET prefix == PrefixOf(Base(d.conv), TypeOf(d))
             text == (mark \o prefix) \o body
         IN /\ text \in Seq(Chars) /\ Len(text) >= 1 /\ (\A i \in 1 .. Len(text) : text[i] # Blank)
            /\ text[1] = "-" <=> mark = <<"-">>
            /\ text[1] = "+" <=> mark = <<"+">>
            /\ \/ Figures(text, d) = body
               \/ Figures(text, d) = <<"0">> \o body
<1> DEFINE prefix == PrefixOf(Base(d.conv), TypeOf(d))
           pb == prefix \o body
           text == (mark \o prefix) \o body
           special == "SPECIAL" \in d.flags
           base == Base(d.conv)
<1>1. base \in {8, 10, 16} /\ ("SPECIAL" \in TypeOf(d) <=> special)
  BY DirectiveNumber, TypeFacts
<1>2. /\ prefix \in Seq(Chars)
      /\ Len(prefix) = IF special /\ base = 16 THEN 2 ELSE IF special /\ base = 8 THEN 1 ELSE 0
      /\ Len(prefix) = 1 => prefix = <<"0">>
      /\ Len(prefix) >= 1 => prefix[1] = "0"
      /\ Len(prefix) >= 2 => prefix[2] \in {"x", "X"}
  BY <1>1, PrefixFacts, ZenonT(60)
<1>3. /\ \A c \in FiguresOf(T) : c \in Chars /\ c # "-" /\ c # "+" /\ c # Blank
  BY FigureFacts DEF NoFigure
<1>4. /\ body \in Seq(Chars) /\ \A i \in 1 .. Len(body) : body[i] # "-" /\ body[i] # "+" /\ body[i] # Blank
  <2>1. FiguresOf(T) \subseteq Chars
    BY <1>3
  <2>2. body \in Seq(Chars)
    BY <2>1, SeqMonotonic
  <2>3. \A i \in 1 .. Len(body) : body[i] \in FiguresOf(T)
    BY ElementOfSeq
  <2> QED
    BY <1>3, <2>2, <2>3
<1>5. /\ mark \in Seq(Chars) /\ Len(mark) \in {0, 1} /\ (Len(mark) = 0 <=> mark = <<>>)
  <2>1. CASE mark = <<>>
    BY <2>1
  <2>2. CASE mark # <<>>
    <3>1. PICK c \in {"-", "+"} : mark = <<c>>
      BY <2>2
    <3>2. c \in Chars
      BY DEF Chars
    <3> QED
      BY <3>1, <3>2
  <2> QED
    BY <2>1, <2>2
<1> HIDE DEF prefix, base, special
<1>6. /\ pb \in Seq(Chars) /\ Len(pb) = Len(prefix) + Len(body)
      /\ \A i \in 1 .. Len(prefix) : pb[i] = prefix[i]
      /\ \A i \in Len(prefix) + 1 .. Len(prefix) + Len(body) : pb[i] = body[i - Len(prefix)]
  <2>1. prefix \in Seq(Chars) /\ body \in Seq(Chars)
    BY <1>2, <1>4
  <2> QED
    BY <2>1, Joined
<1>7. text = mark \o pb
  <2>1. \A x, y, z \in Seq(Chars) : (x \o y) \o z = x \o (y \o z)
    OBVIOUS
  <2> QED
    BY <1>2, <1>4, <1>5, <2>1, Zenon
<1>8. SubSeq(pb, Len(prefix) + 1, Len(pb)) = body
  BY <1>2, <1>4, SuffixOf
<1>9. prefix = <<>> => pb = body
  BY <1>4, ConcatEmptySeq
<1>10. Len(prefix) = 1 => prefix = <<"0">>
  BY <1>2
<1> HIDE DEF text, pb
<1>11. Len(prefix) = 0 => prefix = <<>>
  BY <1>2
<1>12. \A i \in 1 .. Len(prefix) : prefix[i] # Blank /\ prefix[i] # "-" /\ prefix[i] # "+"
  <2>1. \A i \in 1 .. Len(prefix) : i = 1 \/ i = 2
    BY <1>2
  <2> QED
    BY <1>2, <2>1, BlankDiffers
<1>13. /\ Len(pb) >= 1 /\ Len(pb) \in Nat
       /\ \A i \in 1 .. Len(pb) : pb[i] # Blank /\ pb[i] # "-" /\ pb[i] # "+"
  <2>1. Len(prefix) \in Nat /\ Len(body) \in Nat
    BY <1>2
  <2>2. ASSUME NEW i \in 1 .. Len(pb) PROVE pb[i] # Blank /\ pb[i] # "-" /\ pb[i] # "+"
    <3>1. CASE i \in 1 .. Len(prefix)
      BY <1>6, <1>12, <3>1
    <3>2. CASE i \notin 1 .. Len(prefix)
      <4>1. i \in Len(prefix) + 1 .. Len(prefix) + Len(body) /\ i - Len(prefix) \in 1 .. Len(body)
        BY <1>6, <2>1, <3>2
      <4> QED
        BY <1>4, <1>6, <4>1
    <3> QED
      BY <3>1, <3>2
  <2> QED
    BY <1>6, <2>1, <2>2
<1> DEFINE unsigned == IF text[1] \in {"-", "+"} THEN Tail(text) ELSE text
<1>14. /\ text \in Seq(Chars) /\ Len(text) >= 1 /\ (\A i \in 1 .. Len(text) : text[i] # Blank)
       /\ text[1] = "-" <=> mark = <<"-">>
       /\ text[1] = "+" <=> mark = <<"+">>
       /\ unsigned = pb
  <2>1. CASE mark = <<>>
    <3>1. text = pb
      BY <1>6, <1>7, <2>1, ConcatEmptySeq
    <3>2. mark # <<"-">> /\ mark # <<"+">>
      BY <2>1
    <3>3. text[1] # "-" /\ text[1] # "+"
      BY <1>13, <3>1
    <3> QED
      BY <1>6, <1>13, <3>1, <3>2, <3>3
  <2>2. CASE mark # <<>>
    <3>1. PICK c \in {"-", "+"} : mark = <<c>>
      BY <2>2
    <3>2. <<c>> \in Seq(Chars) /\ Len(<<c>>) = 1 /\ <<c>>[1] = c
      BY <3>1 DEF Chars
    <3>3. /\ text \in Seq(Chars) /\ Len(text) = Len(<<c>>) + Len(pb)
          /\ \A i \in 1 .. Len(<<c>>) : text[i] = <<c>>[i]
          /\ \A i \in Len(<<c>>) + 1 .. Len(<<c>>) + Len(pb) : text[i] = pb[i - Len(<<c>>)]
      BY <1>6, <1>7, <3>1, <3>2, Joined
    <3>4. text[1] = c /\ Len(text) = 1 + Len(pb)
      BY <3>2, <3>3
    <3>5. Tail(text) = pb
      <4>1. Len(Tail(text)) = Len(text) - 1 /\ \A i \in 1 .. Len(Tail(text)) : Tail(text)[i] = text[i + 1]
        BY <1>13, <3>3, <3>4, HeadTailProperties
      <4>2. Tail(text) \in Seq(Chars)
        BY <1>13, <3>3, <3>4, HeadTailProperties
      <4>3. \A i \in 1 .. Len(Tail(text)) : Tail(text)[i] = pb[i]
        BY <1>13, <3>2, <3>3, <3>4, <4>1
      <4>4. Len(Tail(text)) = Len(pb)
        BY <1>13, <3>4, <4>1
      <4> QED
        BY <1>6, <4>2, <4>3, <4>4, SeqEqual
    <3>6. c # Blank
      BY <3>1, BlankDiffers
    <3>7. ASSUME NEW i \in 1 .. Len(text) PROVE text[i] # Blank
      <4>1. CASE i = 1
        BY <3>4, <3>6, <4>1
      <4>2. CASE i # 1
        <5>1. i - 1 \in 1 .. Len(pb) /\ text[i] = pb[i - 1]
          BY <1>13, <3>2, <3>3, <3>4, <4>2
        <5> QED
          BY <1>13, <5>1
      <4> QED
        BY <4>1, <4>2
    <3>8. (c = "-" <=> mark = <<"-">>) /\ (c = "+" <=> mark = <<"+">>)
      BY <3>1
    <3> QED
      BY <1>13, <3>1, <3>3, <3>4, <3>5, <3>7, <3>8
  <2> QED
    BY <2>1, <2>2
<1>15. Figures(text, d) = IF special /\ base = 16 THEN SubSeq(pb, 3, Len(pb)) ELSE pb
  BY <1>14, Zenon DEF Figures, special, base
<1>16. Figures(text, d) = body \/ Figures(text, d) = <<"0">> \o body
  <2>1. CASE special /\ base = 16
    <3>1. Len(prefix) + 1 = 3
      BY <1>2, <2>1
    <3> QED
      BY <1>8, <1>15, <2>1, <3>1
  <2>2. CASE ~(special /\ base = 16)
    <3>1. Len(prefix) = 1 \/ Len(prefix) = 0
      BY <1>2, <2>2
    <3>2. Figures(text, d) = pb
      BY <1>15, <2>2
    <3> QED
      BY <1>9, <1>10, <1>11, <3>1, <3>2 DEF pb
  <2> QED
    BY <2>1, <2>2
<1> QED
  BY <1>14, <1>16 DEF text, prefix

\* Reading a number back gives what was asked for, with as many figures as was asked for.
LEMMA TextReads ==
  ASSUME NEW d, IsDirective(d), ~ReadAsSigned(d), NEW body,
         LET T == Digits("SMALL" \in TypeOf(d))
         IN /\ body \in Seq(FiguresOf(T)) /\ Len(body) >= 1 /\ Len(body) >= d.precision
            /\ ValueOf(body, Base(d.conv), T) = Magnitude(LongOf(d), TypeOf(d))
  PROVE  LET mark == MarkOf(LongOf(d), TypeOf(d))
             text == (mark \o PrefixOf(Base(d.conv), TypeOf(d))) \o body
         IN /\ text \in Seq(Chars) /\ Len(text) >= 1 /\ (\A i \in 1 .. Len(text) : text[i] # Blank)
            /\ text[1] = "-" <=> mark = <<"-">>
            /\ text[1] = "+" <=> mark = <<"+">>
            /\ ReadBack(text, d) = Denoted(d)
            /\ Len(Figures(text, d)) >= d.precision
<1> DEFINE T == Digits("SMALL" \in TypeOf(d))
           num == LongOf(d)
           mark == MarkOf(num, TypeOf(d))
           prefix == PrefixOf(Base(d.conv), TypeOf(d))
           text == (mark \o prefix) \o body
           n == Magnitude(num, TypeOf(d))
           base == Base(d.conv)
<1>1. /\ body \in Seq(FiguresOf(T)) /\ Len(body) >= 1 /\ Len(body) >= d.precision /\ ValueOf(body, base, T) = n
  OBVIOUS
<1>2. ("SMALL" \in TypeOf(d)) \in BOOLEAN /\ (("SMALL" \in TypeOf(d)) = (d.conv = "x"))
  BY TypeFacts
<1>3. IsTable(T) /\ T = Digits(d.conv = "x")
  BY <1>2, DigitsAreTable
<1>4. base \in {8, 10, 16} /\ base \in Nat /\ num \in Int /\ d.precision \in Int
  BY DirectiveNumber DEF IsDirective
<1>5. mark \in {<<>>, <<"-">>, <<"+">>} /\ (mark = <<"-">> <=> "SIGN" \in TypeOf(d) /\ num < 0)
  BY DEF MarkOf
<1>6. Denoted(d) = IF "SIGN" \in TypeOf(d) /\ num < 0 THEN -n ELSE n
  BY MagnitudeDenotes
<1> HIDE DEF T, num, mark, n, base
<1>7. /\ text \in Seq(Chars) /\ Len(text) >= 1 /\ (\A i \in 1 .. Len(text) : text[i] # Blank)
      /\ text[1] = "-" <=> mark = <<"-">>
      /\ text[1] = "+" <=> mark = <<"+">>
      /\ \/ Figures(text, d) = body
         \/ Figures(text, d) = <<"0">> \o body
  BY <1>1, <1>3, <1>5, FiguresOfText
<1> HIDE DEF text
<1>8. /\ ValueOf(Figures(text, d), base, T) = n /\ Len(Figures(text, d)) >= Len(body) /\ Len(body) \in Int
      /\ Len(Figures(text, d)) \in Int
  <2>1. CASE Figures(text, d) = body
    BY <1>1, <2>1
  <2>2. CASE Figures(text, d) = <<"0">> \o body
    <3> DEFINE t == <<"0">> \o body
    <3>1. "0" \in FiguresOf(T)
      <4>1. T[1] = "0"
        BY <1>3 DEF IsTable
      <4> QED
        BY <4>1 DEF FiguresOf
    <3>2. <<"0">> \in Seq(FiguresOf(T)) /\ Len(<<"0">>) = 1 /\ <<"0">>[1] = "0"
      BY <3>1
    <3>3. body \in Seq(FiguresOf(T)) /\ Len(body) \in Nat
      BY <1>1
    <3>4. /\ t \in Seq(FiguresOf(T)) /\ Len(t) = Len(<<"0">>) + Len(body)
          /\ \A i \in 1 .. Len(<<"0">>) : t[i] = <<"0">>[i]
          /\ \A i \in Len(<<"0">>) + 1 .. Len(<<"0">>) + Len(body) : t[i] = body[i - Len(<<"0">>)]
      BY <3>2, <3>3, Joined
    <3> HIDE DEF t
    <3>5. \A i \in 1 .. 1 : t[i] = "0"
      BY <3>2, <3>4
    <3>6. ASSUME NEW i \in 1 .. Len(body) PROVE t[1 + i] = body[i]
      <4>1. 1 + i \in Len(<<"0">>) + 1 .. Len(<<"0">>) + Len(body) /\ (1 + i) - Len(<<"0">>) = i
        BY <3>2, <3>3
      <4> QED
        BY <3>4, <4>1
    <3>7. Len(t) = 1 + Len(body)
      BY <3>2, <3>4
    <3>8. ValueOf(t, base, T) = ValueOf(body, base, T)
      <4>1. ZerosThen(1, body, t)
        BY <3>5, <3>6, <3>7 DEF ZerosThen
      <4> QED
        BY <1>3, <1>4, <3>3, <3>4, <4>1, ValueOfZeros
    <3> QED
      BY <1>1, <2>2, <3>3, <3>7, <3>8 DEF t
  <2> QED
    BY <1>7, <2>1, <2>2
<1>9. ReadBack(text, d) = IF text[1] = "-" THEN -n ELSE n
  BY <1>3, <1>8, Zenon DEF ReadBack, base
<1>10. ReadBack(text, d) = Denoted(d)
  BY <1>5, <1>6, <1>7, <1>9, Zenon
<1>11. Len(Figures(text, d)) >= d.precision
  BY <1>1, <1>4, <1>8
<1> QED
  BY <1>7, <1>10, <1>11, Zenon DEF text, mark, prefix, num

\* What number and vsprintf print for a directive with any argument, flags, width and
\* precision reads back as the number it denotes, padded as its flags ask, but for %u of
\* an int that is read as signed.
THEOREM NumbersPrinted ==
  ASSUME NEW d, IsDirective(d), ~ReadAsSigned(d)
  PROVE  NumberPrinted(d)
<1> DEFINE num == LongOf(d)
           type == TypeOf(d)
           base == Base(d.conv)
           mark == MarkOf(num, type)
           prefix == PrefixOf(base, type)
           blank == BlankSign(num, type)
           precision == IF d.precision < -1 THEN 0 ELSE d.precision
           out == vsprintf(<<d>>)
<1>1. out = number(num, base, Width(d), precision, type)
  <2>1. d.conv # "literal"
    BY DEF IsDirective, Numeric
  <2> QED
    BY <2>1, OneDirective, DirectiveNumber
<1>2. num \in Int /\ base \in {8, 10, 16} /\ Width(d) \in Int /\ precision \in Int /\ precision >= d.precision
  BY DirectiveNumber DEF IsDirective
<1>3. PICK lead, body, tail : IsLayout(out, lead, body, tail, num, base, Width(d), precision, type)
  BY <1>1, <1>2, NumberLayout
<1> DEFINE T == Digits("SMALL" \in type)
           text == (mark \o prefix) \o body
<1>4. /\ lead \in Seq({Blank}) /\ tail \in Seq({Blank}) /\ body \in Seq(FiguresOf(T))
      /\ out = (lead \o text) \o tail
      /\ ValueOf(body, base, T) = Magnitude(num, type)
      /\ Len(body) >= 1 /\ Len(body) >= precision
      /\ Len(out) >= Width(d)
      /\ Len(lead) + Len(tail) > blank => Len(out) = Width(d)
      /\ Len(lead) >= blank
      /\ IF "LEFT" \in type THEN Len(lead) = blank ELSE Len(tail) = 0
      /\ "ZEROPAD" \in type /\ "LEFT" \notin type => Len(lead) = blank
  BY <1>3, Zenon DEF IsLayout
<1>5. Len(body) >= d.precision
  <2>1. Len(body) \in Nat /\ d.precision \in Int
    BY <1>4 DEF IsDirective
  <2> QED
    BY <1>2, <1>4, <2>1
<1>6. /\ text \in Seq(Chars) /\ Len(text) >= 1 /\ (\A i \in 1 .. Len(text) : text[i] # Blank)
      /\ text[1] = "-" <=> mark = <<"-">>
      /\ text[1] = "+" <=> mark = <<"+">>
      /\ ReadBack(text, d) = Denoted(d)
      /\ Len(Figures(text, d)) >= d.precision
  BY <1>4, <1>5, TextReads
<1>7. lead \in Seq(Chars) /\ tail \in Seq(Chars)
  <2>1. {Blank} \subseteq Chars
    BY DEF Chars
  <2> QED
    BY <1>4, <2>1, SeqMonotonic
<1>8. /\ "LEFT" \in type <=> ToLeft(d)
      /\ "PLUS" \in type <=> "PLUS" \in d.flags
      /\ "SPACE" \in type <=> "SPACE" \in d.flags
      /\ "ZEROPAD" \in d.flags => "ZEROPAD" \in type
  BY TypeFacts
<1>9. blank = IF "SPACE" \in d.flags /\ text[1] \notin {"-", "+"} THEN 1 ELSE 0
  <2>1. blank = IF mark = <<>> /\ "SPACE" \in type THEN 1 ELSE 0
    BY DEF BlankSign, MarkOf
  <2>2. mark \in {<<>>, <<"-">>, <<"+">>}
    BY DEF MarkOf
  <2> HIDE DEF mark, blank, text
  <2>3. mark = <<>> <=> mark # <<"-">> /\ mark # <<"+">>
    BY <2>2
  <2>4. mark = <<>> <=> text[1] \notin {"-", "+"}
    BY <1>6, <2>3, Zenon
  <2> QED
    BY <1>8, <2>1, <2>4
<1> HIDE DEF num, type, base, mark, prefix, blank, precision, out, T, text
<1>10. /\ Len(out) = Len(lead) + Len(text) + Len(tail)
       /\ SubSeq(out, Len(lead) + 1, Len(lead) + Len(text)) = text
       /\ \A i \in 1 .. Len(lead) : out[i] = lead[i]
       /\ \A i \in 1 .. Len(text) : out[Len(lead) + i] = text[i]
       /\ \A i \in 1 .. Len(tail) : out[Len(lead) + Len(text) + i] = tail[i]
  <2>1. lead \in Seq(Chars) /\ text \in Seq(Chars) /\ tail \in Seq(Chars)
    BY <1>6, <1>7
  <2>2. IsMiddle((lead \o text) \o tail, lead, text, tail)
    BY <2>1, MiddleOf
  <2>3. IsMiddle(out, lead, text, tail)
    BY <1>4, <2>2, Zenon
  <2> QED
    BY <2>3 DEF IsMiddle
<1>11. Len(lead) \in Nat /\ Len(text) \in Nat /\ Len(tail) \in Nat
  BY <1>6, <1>7
<1> DEFINE from == Len(lead) + 1
           to == Len(lead) + Len(text)
<1>12. from \in 1 .. Len(out) /\ to \in 1 .. Len(out)
  BY <1>6, <1>10, <1>11
<1>13. ASSUME NEW i \in 1 .. Len(out) PROVE out[i] = Blank <=> i \notin from .. to
  <2>1. CASE i \in 1 .. Len(lead)
    <3>1. lead[i] = Blank
      BY <1>4, <2>1, ElementOfSeq
    <3> QED
      BY <1>10, <1>11, <2>1, <3>1
  <2>2. CASE i \in from .. to
    <3>1. i - Len(lead) \in 1 .. Len(text) /\ Len(lead) + (i - Len(lead)) = i
      BY <1>11, <2>2
    <3>2. out[i] = text[i - Len(lead)]
      BY <1>10, <3>1
    <3> QED
      BY <1>6, <2>2, <3>1, <3>2
  <2>3. CASE i \in to + 1 .. Len(out)
    <3>1. i - to \in 1 .. Len(tail) /\ Len(lead) + Len(text) + (i - to) = i
      BY <1>10, <1>11, <2>3
    <3>2. out[i] = tail[i - to]
      BY <1>10, <3>1
    <3>3. tail[i - to] = Blank
      BY <1>4, <3>1, ElementOfSeq
    <3> QED
      BY <1>11, <2>3, <3>2, <3>3
  <2> QED
    BY <1>11, <2>1, <2>2, <2>3
<1> DEFINE sign == IF "SPACE" \in d.flags /\ text[1] \notin {"-", "+"} THEN 1 ELSE 0
           blanks == Len(out) - Len(text)
<1>14. blank = sign /\ sign \in {0, 1}
  BY <1>9
<1>15. blanks = Len(lead) + Len(tail)
  BY <1>10, <1>11
<1> HIDE DEF sign
<1>16. /\ Len(out) >= Width(d) /\ blanks >= sign /\ (blanks > sign => Len(out) = Width(d))
  BY <1>4, <1>11, <1>14, <1>15
<1>17. IF ToLeft(d) THEN from = 1 + sign ELSE to = Len(out)
  BY <1>4, <1>8, <1>10, <1>11, <1>14
<1>18. "ZEROPAD" \in d.flags /\ ~ToLeft(d) => blanks = sign
  BY <1>4, <1>8, <1>11, <1>14, <1>15
<1>19. SubSeq(out, from, to) = text
  BY <1>10
<1> HIDE DEF from, to
<1>20. \E f, t \in 1 .. Len(out) :
       LET tx == SubSeq(out, f, t)
           bl == Len(out) - Len(tx)
           sg == IF "SPACE" \in d.flags /\ tx[1] \notin {"-", "+"} THEN 1 ELSE 0
       IN /\ \A i \in 1 .. Len(out) : out[i] = Blank <=> i \notin f .. t
          /\ ReadBack(tx, d) = Denoted(d)
          /\ Len(out) >= Width(d) /\ Len(Figures(tx, d)) >= d.precision
          /\ bl >= sg /\ (bl > sg => Len(out) = Width(d))
          /\ IF ToLeft(d) THEN f = 1 + sg ELSE t = Len(out)
          /\ "ZEROPAD" \in d.flags /\ ~ToLeft(d) => bl = sg
  <2> USE <1>12
  <2> WITNESS from \in 1 .. Len(out), to \in 1 .. Len(out)
  <2> QED
    BY <1>6, <1>13, <1>16, <1>17, <1>18, <1>19, Zenon DEF sign
<1> QED
  BY <1>20, Zenon DEF NumberPrinted, out

-----------------------------------------------------------------------------
(* Texts, and the directives of MCLibrary. *)

IsTextDirective(d, S) ==
  /\ d.conv \in {"c", "s"} /\ d.width \in Int /\ d.precision \in Int
  /\ d.text \in Seq(S) /\ (d.conv = "c" => d.text # <<>>)

\* What the cases c and s of vsprintf print is the start of the text, as much as the
\* precision allows, with blanks up to the width on the side the flags ask for, for
\* any text, width and precision.
THEOREM TextsPrinted ==
  ASSUME NEW S, NEW d, IsTextDirective(d, S)
  PROVE  TextPrinted(d)
<1> DEFINE out == vsprintf(<<d>>)
           flags == d.flags \cup IF d.width < -1 THEN {"LEFT"} ELSE {}
           precision == IF d.precision < -1 THEN 0 ELSE d.precision
           kept == CASE d.conv = "c" -> 1
                     [] d.conv = "s" /\ d.precision < -1 -> 0
                     [] d.conv = "s" /\ d.precision \in 0 .. Len(d.text) -> d.precision
                     [] OTHER -> Len(d.text)
           text == SubSeq(d.text, 1, kept)
           blanks == Times(Blank, Len(out) - Len(text))
           C == S \cup {Blank}
<1>1. /\ d.conv \in {"c", "s"} /\ d.width \in Int /\ d.precision \in Int
      /\ d.text \in Seq(S) /\ Len(d.text) \in Nat /\ (d.conv = "c" => d.text # <<>>)
  BY DEF IsTextDirective
<1>2. kept \in 0 .. Len(d.text)
  <2>1. d.conv = "c" => Len(d.text) >= 1
    BY <1>1
  <2> QED
    BY <1>1, <2>1
<1>3. Width(d) \in Int /\ ("LEFT" \in flags <=> ToLeft(d))
  BY <1>1 DEF Width, ToLeft
<1>4. out = Padded(text, Width(d), flags)
  <2>1. d.conv # "literal" /\ d.conv # "p"
    BY <1>1
  <2>2. out = Directive(d)
    BY <2>1, OneDirective
  <2>3. Width(d) = IF d.width < -1 THEN -d.width ELSE d.width
    BY <2>1 DEF Width
  <2>4. CASE d.conv = "c"
    <3>1. Directive(d) = Padded(<<d.text[1]>>, Width(d), flags)
      BY <2>3, <2>4 DEF Directive
    <3>2. text = <<d.text[1]>>
      <4>1. Len(d.text) >= 1
        BY <1>1, <2>4
      <4>2. kept = 1
        BY <2>4
      <4> DEFINE one == SubSeq(d.text, 1, 1)
                 same == <<d.text[1]>>
      <4>3. d.text[1] \in S
        BY <1>1, <4>1, ElementOfSeq
      <4>4. one \in Seq(S) /\ Len(one) = 1 /\ one[1] = d.text[1]
        BY <1>1, <4>1
      <4>5. same \in Seq(S) /\ Len(same) = 1 /\ same[1] = d.text[1]
        BY <4>3
      <4>6. text = one
        BY <4>2
      <4> HIDE DEF one, same
      <4>7. one = same
        BY <4>4, <4>5, SeqEqual
      <4> QED
        BY <4>6, <4>7 DEF same
    <3> QED
      BY <2>2, <3>1, <3>2
  <2>5. CASE d.conv = "s"
    <3>1. Directive(d) = Padded(IF precision < 0 THEN d.text
                                ELSE SubSeq(d.text, 1, Least(precision, Len(d.text))), Width(d), flags)
      BY <2>3, <2>5 DEF Directive
    <3>2. CASE precision < 0
      <4>1. kept = Len(d.text)
        BY <1>1, <2>5, <3>2
      <4>2. text = d.text
        BY <1>1, <4>1
      <4> QED
        BY <2>2, <3>1, <3>2, <4>2
    <3>3. CASE ~(precision < 0)
      <4>1. kept = Least(precision, Len(d.text))
        BY <1>1, <2>5, <3>3 DEF Least
      <4> QED
        BY <2>2, <3>1, <3>3, <4>1
    <3> QED
      BY <3>2, <3>3
  <2> QED
    BY <1>1, <2>4, <2>5
<1>5. text \in Seq(S) /\ Len(text) \in Nat
  BY <1>1, <1>2
<1> HIDE DEF flags, kept, text
<1>6. text \in Seq(C) /\ Blank \in C
  BY <1>5, SeqMonotonic
<1> DEFINE filler == Times(Blank, Width(d) - Len(text))
<1>7. /\ filler \in Seq(C) /\ Len(filler) = Most(Width(d) - Len(text), 0)
  <2>1. Width(d) - Len(text) \in Int
    BY <1>3, <1>5
  <2> QED
    BY <1>6, <2>1, TimesFacts
<1>8. out = IF ToLeft(d) THEN text \o filler ELSE filler \o text
  BY <1>3, <1>4 DEF Padded
<1> HIDE DEF C, filler
<1>9. Len(out) = Len(text) + Len(filler) /\ Len(filler) \in Nat
  <2>1. Len(text \o filler) = Len(text) + Len(filler) /\ Len(filler \o text) = Len(filler) + Len(text)
    BY <1>6, <1>7, Joined
  <2>2. Len(filler) \in Nat
    BY <1>7
  <2> QED
    BY <1>5, <1>8, <2>1, <2>2
<1> HIDE DEF out
<1>10. Len(out) = Most(Width(d), Len(text))
  BY <1>3, <1>5, <1>7, <1>9 DEF Most
<1>11. blanks = filler
  <2>1. Len(out) - Len(text) = Len(filler)
    BY <1>5, <1>9
  <2>2. Most(Len(filler), 0) = Most(Width(d) - Len(text), 0)
    BY <1>3, <1>5, <1>7, <1>9 DEF Most
  <2> QED
    BY <2>1, <2>2 DEF filler, Times
<1> QED
  BY <1>8, <1>10, <1>11, Zenon DEF TextPrinted, out, text, kept

ArgsPrintable ==
  /\ part = "number" => IsDirective(args) /\ ~ReadAsSigned(args)
  /\ part = "text" => IsTextDirective(args, {"a", "b", "c"})

\* The arguments of the two parts that print are directives.
LEMMA PrintableInit ==
  LibraryInit => ArgsPrintable
<1> SUFFICES ASSUME LibraryInit PROVE ArgsPrintable
  OBVIOUS
<1>1. CASE part = "number"
  <2>1. args \in NumberArgs /\ ~ReadAsSigned(args)
    BY <1>1 DEF LibraryInit
  <2>2. /\ args.conv \in Numeric /\ args.flags \subseteq FormatFlags
        /\ args.width \in {-6, -1, 2, 7} /\ args.precision \in {-3, -1, 2, 4}
        /\ args.arg \in 0 .. 2 * LongHalf - 1
    BY <2>1 DEF NumberArgs, FormatFlags
  <2>3. IsDirective(args)
    BY <2>2 DEF IsDirective
  <2> QED
    BY <1>1, <2>1, <2>3 DEF ArgsPrintable
<1>2. CASE part = "text"
  <2>1. args \in TextArgs
    BY <1>2 DEF LibraryInit
  <2>0. PICK none : none = ""
    OBVIOUS
  <2>4. args \in [conv : {"c", "s"}, flags : SUBSET {"LEFT", "ZEROPAD"}, width : {-6, -1, 0, 2, 7},
                  precision : {-3, -1, 0, 2, 4}, text : {<<"a">>, <<"a", "b", "c">>}, arg : {0},
                  qualifier : {none}]
    BY <2>0, <2>1, Zenon DEF TextArgs
  <2>2. /\ args.conv \in {"c", "s"} /\ args.width \in Int /\ args.precision \in Int
        /\ args.text \in {<<"a">>, <<"a", "b", "c">>}
    BY <2>4
  <2>3. args.text \in Seq({"a", "b", "c"}) /\ args.text # <<>>
    <3>1. CASE args.text = <<"a">>
      BY <3>1
    <3>2. CASE args.text = <<"a", "b", "c">>
      BY <3>2
    <3> QED
      BY <2>2, <3>1, <3>2
  <2> QED
    BY <1>2, <2>2, <2>3 DEF ArgsPrintable, IsTextDirective
<1>3. CASE part # "number" /\ part # "text"
  BY <1>3 DEF ArgsPrintable
<1> QED
  BY <1>1, <1>2, <1>3

\* vsprintf prints the directives of the run faithfully, for every width of an int
\* and of a long.
THEOREM FormatAlwaysFaithful == LibrarySpec => []FormatFaithful
<1>1. LibraryInit => ArgsPrintable
  BY PrintableInit
<1>2. ArgsPrintable /\ [LibraryNext]_allVars => ArgsPrintable'
  <2>1. [LibraryNext]_allVars => UNCHANGED <<part, args>>
    BY DEF LibraryNext, allVars
  <2> QED
    BY <2>1 DEF ArgsPrintable
<1>3. ArgsPrintable => FormatFaithful
  BY NumbersPrinted, TextsPrinted DEF ArgsPrintable, FormatFaithful
<1> QED
  BY <1>1, <1>2, <1>3, PTL DEF LibrarySpec

-----------------------------------------------------------------------------
(* kernel_itoa: its digits, taken by signed remainders, read back. *)

\* The digits in tmp are digits of the base.
LEMMA DigitsLow ==
  ASSUME NEW T, IsTable(T), NEW base \in Bases, NEW rest, IsDigits(rest, base, T)
  PROVE  \A m \in 0 .. 2 * LongHalf : rest[m] \in Seq({T[i] : i \in 1 .. base})
<1> DEFINE S == Seq({T[i] : i \in 1 .. base})
           Good == {m \in 0 .. 2 * LongHalf : rest[m] \in S}
<1>1. 2 * LongHalf \in Int /\ base \in Nat \ {0}
  BY WidthAssumption DEF Bases
<1>2. /\ rest[0] = <<>>
      /\ \A m \in 1 .. 2 * LongHalf :
           m \div base \in 0 .. m - 1 /\ rest[m] = <<T[(m % base) + 1]>> \o rest[m \div base]
  BY DEF IsDigits
<1>3. ASSUME NEW m \in 0 .. 2 * LongHalf, (0 .. m - 1) \subseteq Good PROVE m \in Good
  <2>1. CASE m = 0
    <3>1. <<>> \in S
      OBVIOUS
    <3> QED
      BY <1>2, <2>1, <3>1
  <2>2. CASE m # 0
    <3>1. m \in 1 .. 2 * LongHalf
      BY <2>2
    <3>2. (m % base) + 1 \in 1 .. base
      BY <1>1, <3>1
    <3>3. <<T[(m % base) + 1]>> \in S /\ rest[m \div base] \in S
      <4>1. T[(m % base) + 1] \in {T[i] : i \in 1 .. base}
        BY <3>2
      <4>2. m \div base \in Good
        BY <1>2, <1>3, <3>1
      <4> QED
        BY <4>1, <4>2
    <3>4. rest[m] = <<T[(m % base) + 1]>> \o rest[m \div base]
      BY <1>2, <3>1
    <3>5. rest[m] \in S
      BY <3>3, <3>4
    <3> QED
      BY <3>5
  <2> QED
    BY <2>1, <2>2
<1>4. 0 .. 2 * LongHalf \subseteq Good
  <2>1. \A m \in 0 .. 2 * LongHalf : (0 .. m - 1) \subseteq Good => m \in Good
    BY <1>3
  <2> HIDE DEF Good
  <2> QED
    BY <1>1, <2>1, StrongInduction
<1> QED
  BY <1>4

\* The last digit of a number, and the digits of its quotient.
LEMMA ReversedStep ==
  ASSUME NEW T, IsTable(T), NEW base \in Bases, NEW n \in 0 .. 2 * LongHalf
  PROVE  /\ Reversed(n, base, T) \in Seq({T[i] : i \in 1 .. base})
         /\ n \div base \in 0 .. n
         /\ n # 0 => n \div base \in 0 .. n - 1
         /\ Reversed(n, base, T) =
              <<T[(n % base) + 1]>> \o IF n \div base = 0 THEN <<>> ELSE Reversed(n \div base, base, T)
<1>1. PICK rest : /\ IsDigits(rest, base, T)
                  /\ \A m : Reversed(m, base, T) = IF m = 0 THEN <<"0">> ELSE rest[m]
  BY DigitsExist
<1>2. rest[n] \in Seq({T[i] : i \in 1 .. base})
  BY <1>1, DigitsLow
<1>3. T[1] = "0" /\ base \in Nat \ {0} /\ base >= 2
  BY DEF IsTable, Bases
<1>4. CASE n = 0
  <2>1. Reversed(n, base, T) = <<"0">>
    BY <1>1, <1>4
  <2>2. n \div base = 0 /\ n % base = 0
    BY <1>3, <1>4
  <2>3. <<"0">> \in Seq({T[i] : i \in 1 .. base})
    BY <1>3
  <2>4. <<"0">> \o <<>> = <<"0">>
    BY <2>3, ConcatEmptySeq
  <2>5. T[(n % base) + 1] = "0"
    BY <1>3, <2>2
  <2>6. Reversed(n, base, T) \in Seq({T[i] : i \in 1 .. base})
    BY <2>1, <2>3
  <2>7. n \div base \in 0 .. n
    BY <1>4, <2>2
  <2>8. Reversed(n, base, T) =
          <<T[(n % base) + 1]>> \o IF n \div base = 0 THEN <<>> ELSE Reversed(n \div base, base, T)
    BY <2>1, <2>2, <2>4, <2>5, Zenon
  <2> QED
    BY <1>4, <2>6, <2>7, <2>8, Zenon
<1>5. CASE n # 0
  <2>1. n \in 1 .. 2 * LongHalf
    BY <1>5
  <2>2. n \div base \in 0 .. n - 1 /\ rest[n] = <<T[(n % base) + 1]>> \o rest[n \div base] /\ rest[0] = <<>>
    BY <1>1, <2>1 DEF IsDigits
  <2>3. Reversed(n, base, T) = rest[n]
    BY <1>1, <1>5
  <2>4. rest[n \div base] = IF n \div base = 0 THEN <<>> ELSE Reversed(n \div base, base, T)
    BY <1>1, <2>2
  <2> QED
    BY <1>2, <2>1, <2>2, <2>3, <2>4
<1> QED
  BY <1>4, <1>5

Abs(n) == IF n < 0 THEN -n ELSE n

\* kernel_itoa takes the digits of a number by signed remainders, and they are those of
\* its magnitude.
LEMMA QuotientFacts ==
  ASSUME NEW base \in Nat \ {0}, NEW n \in Int
  PROVE  /\ Abs(n) \in Nat /\ Quotient(n, base) \in Int
         /\ Abs(Quotient(n, base)) = Abs(n) \div base
         /\ Abs(n - base * Quotient(n, base)) = Abs(n) % base
         /\ Quotient(n, base) = 0 <=> Abs(n) \div base = 0
<1> DEFINE a == Abs(n)
           q == a \div base
           r == a % base
<1>1. a \in Nat /\ (n = a \/ n = -a) /\ (n < 0 => n = -a) /\ (~(n < 0) => n = a)
  BY DEF Abs
<1>2. a = q * base + r /\ q \in Int /\ r \in 0 .. base - 1
  <2> HIDE DEF a
  <2> QED
    BY <1>1, DivMod
<1>3. q >= 0
  BY <1>1
<1>4. Quotient(n, base) = IF n < 0 THEN -q ELSE q
  BY <1>1 DEF Quotient, Abs
<1> HIDE DEF a, q, r
<1>5. base * q = q * base /\ base * (-q) = -(q * base)
  BY <1>2
<1>6. n - base * Quotient(n, base) = IF n < 0 THEN -r ELSE r
  BY <1>1, <1>2, <1>4, <1>5
<1>7. Abs(Quotient(n, base)) = q /\ Abs(n - base * Quotient(n, base)) = r
  BY <1>2, <1>3, <1>4, <1>6 DEF Abs
<1>8. Quotient(n, base) \in Int /\ (Quotient(n, base) = 0 <=> q = 0)
  BY <1>2, <1>4
<1> QED
  BY <1>1, <1>7, <1>8 DEF a, q, r

ItoaReversed(reversed, base) ==
  \A n \in -(2 * IntHalf) .. 2 * IntHalf : reversed[n] = Reversed(Abs(n), base, Digits(FALSE))

\* The recursive function of kernel_itoa has the digits of the magnitude.
LEMMA ItoaDigits ==
  ASSUME NEW base \in {2, 8, 10, 16}
  PROVE  \E reversed :
           /\ ItoaReversed(reversed, base)
           /\ \A num : kernel_itoa(num, base) =
                IF num < 0 /\ base = 10 THEN <<"-">> \o Reverse(reversed[num])
                ELSE Reverse(reversed[AsInt(num)])
<1> DEFINE T == Digits(FALSE)
           D == -(2 * IntHalf) .. 2 * IntHalf
           num2ch(r) == Digits(FALSE)[(IF r < 0 THEN -r ELSE r) + 1]
           Body(f, n) == <<num2ch(n - base * Quotient(n, base))>>
                           \o IF Quotient(n, base) = 0 THEN <<>> ELSE f[Quotient(n, base)]
           reversed == CHOOSE f : f = [n \in D |-> Body(f, n)]
           Rev(n) == Reversed(Abs(n), base, T)
           g == [n \in D |-> Rev(n)]
<1>1. /\ base \in Bases /\ base \in Nat \ {0} /\ IsTable(T)
      /\ 2 * IntHalf \in Nat /\ 2 * IntHalf <= 2 * LongHalf /\ 2 * LongHalf \in Nat
  <2>1. base \in Bases /\ base \in Nat \ {0}
    BY DEF Bases
  <2>2. IsTable(T)
    <3> FALSE \in BOOLEAN
      OBVIOUS
    <3> QED
      BY DigitsAreTable
  <2>3. 2 * IntHalf \in Nat /\ 2 * IntHalf <= 2 * LongHalf /\ 2 * LongHalf \in Nat
    BY WidthAssumption
  <2> QED
    BY <2>1, <2>2, <2>3, Zenon
<1>2. ASSUME NEW n \in D
      PROVE  /\ Abs(n) \in 0 .. 2 * IntHalf /\ Abs(n) \in Nat
             /\ Quotient(n, base) \in D
             /\ Abs(Quotient(n, base)) = Abs(n) \div base
             /\ (Quotient(n, base) = 0 <=> Abs(n) \div base = 0)
             /\ (Abs(n) # 0 => Abs(n) \div base \in 0 .. Abs(n) - 1)
             /\ Rev(n) = <<num2ch(n - base * Quotient(n, base))>>
                           \o IF Quotient(n, base) = 0 THEN <<>> ELSE Rev(Quotient(n, base))
  <2>1. n \in Int /\ Abs(n) \in 0 .. 2 * IntHalf /\ Abs(n) \in 0 .. 2 * LongHalf
    BY <1>1 DEF Abs
  <2>2. /\ Quotient(n, base) \in Int
        /\ Abs(Quotient(n, base)) = Abs(n) \div base
        /\ Abs(n - base * Quotient(n, base)) = Abs(n) % base
        /\ Quotient(n, base) = 0 <=> Abs(n) \div base = 0
    BY <1>1, <2>1, QuotientFacts
  <2>3. /\ Abs(n) \div base \in 0 .. Abs(n)
        /\ Abs(n) # 0 => Abs(n) \div base \in 0 .. Abs(n) - 1
        /\ Rev(n) = <<T[(Abs(n) % base) + 1]>>
                      \o IF Abs(n) \div base = 0 THEN <<>> ELSE Reversed(Abs(n) \div base, base, T)
    BY <1>1, <2>1, ReversedStep
  <2>4. num2ch(n - base * Quotient(n, base)) = T[(Abs(n) % base) + 1]
    BY <2>2, Zenon DEF Abs
  <2>5. Quotient(n, base) \in D
    <3>1. \A x \in Int : Abs(x) <= 2 * IntHalf => x \in D
      BY <1>1 DEF Abs
    <3>2. Abs(Quotient(n, base)) <= 2 * IntHalf
      BY <1>1, <2>1, <2>2, <2>3
    <3> QED
      BY <2>2, <3>1, <3>2
  <2>6. Rev(n) = <<num2ch(n - base * Quotient(n, base))>>
                   \o IF Quotient(n, base) = 0 THEN <<>> ELSE Rev(Quotient(n, base))
    BY <2>2, <2>3, <2>4, Zenon
  <2>7. Abs(n) \in Nat
    BY <2>1
  <2> HIDE DEF D, Rev
  <2> QED
    BY <2>1, <2>2, <2>3, <2>5, <2>6, <2>7, Zenon
<1>3. reversed = [n \in D |-> Body(reversed, n)]
  <2>1. ASSUME NEW n \in D PROVE g[n] = Body(g, n)
    <3>1. g[n] = Rev(n) /\ g[Quotient(n, base)] = Rev(Quotient(n, base))
      BY <1>2, <2>1
    <3> QED
      BY <1>2, <2>1, <3>1, Zenon
  <2> HIDE DEF Body, D
  <2>2. g = [n \in D |-> g[n]]
    OBVIOUS
  <2>3. g = [n \in D |-> Body(g, n)]
    BY <2>1, <2>2
  <2> HIDE DEF g
  <2> QED
    BY <2>3
<1>4. \A num : kernel_itoa(num, base) =
                IF num < 0 /\ base = 10 THEN <<"-">> \o Reverse(reversed[num])
                ELSE Reverse(reversed[AsInt(num)])
  BY DEF kernel_itoa
<1> HIDE DEF reversed
<1>5. \A n \in D : reversed[n] = Body(reversed, n)
  <2> HIDE DEF Body
  <2> QED
    BY <1>3
<1> DEFINE Good == {m \in 0 .. 2 * IntHalf : \A n \in D : Abs(n) = m => reversed[n] = Rev(n)}
<1>6. ASSUME NEW m \in 0 .. 2 * IntHalf, (0 .. m - 1) \subseteq Good PROVE m \in Good
  <2>1. ASSUME NEW n \in D, Abs(n) = m PROVE reversed[n] = Rev(n)
    <3>1. reversed[n] = <<num2ch(n - base * Quotient(n, base))>>
                          \o IF Quotient(n, base) = 0 THEN <<>> ELSE reversed[Quotient(n, base)]
      BY <1>5
    <3>2. Quotient(n, base) # 0 => reversed[Quotient(n, base)] = Rev(Quotient(n, base))
      <4>1. SUFFICES ASSUME Quotient(n, base) # 0
                     PROVE  reversed[Quotient(n, base)] = Rev(Quotient(n, base))
        OBVIOUS
      <4>2. Abs(n) \div base # 0 /\ Abs(n) \in Nat
        BY <1>2, <4>1
      <4>3. Abs(n) # 0
        BY <1>1, <4>2
      <4>4. Abs(Quotient(n, base)) \in 0 .. m - 1 /\ Quotient(n, base) \in D
        BY <1>2, <2>1, <4>3
      <4>5. Abs(Quotient(n, base)) \in Good
        BY <1>6, <4>4
      <4> QED
        BY <4>4, <4>5
    <3>3. Rev(n) = <<num2ch(n - base * Quotient(n, base))>>
                     \o IF Quotient(n, base) = 0 THEN <<>> ELSE Rev(Quotient(n, base))
      BY <1>2
    <3> QED
      BY <3>1, <3>2, <3>3, Zenon
  <2> QED
    BY <2>1
<1>7. 0 .. 2 * IntHalf \subseteq Good
  <2>1. \A m \in 0 .. 2 * IntHalf : (0 .. m - 1) \subseteq Good => m \in Good
    BY <1>6
  <2>2. 2 * IntHalf \in Int
    BY <1>1
  <2> HIDE DEF Good
  <2> QED
    BY <2>1, <2>2, StrongInduction
<1>8. ItoaReversed(reversed, base)
  <2>1. ASSUME NEW n \in D PROVE reversed[n] = Rev(n)
    <3>1. Abs(n) \in Good
      BY <1>2, <1>7
    <3> QED
      BY <3>1
  <2> QED
    BY <2>1 DEF ItoaReversed
<1> QED
  BY <1>4, <1>8

Ints == -IntHalf .. IntHalf - 1
Radix == {2, 8, 10, 16}

\* The values of an int, and of the unsigned one it is written as.
LEMMA IntFacts ==
  ASSUME NEW num \in Ints
  PROVE  /\ num \in Int /\ AsInt(num) \in 0 .. 2 * IntHalf - 1
         /\ AsInt(num) = IF num < 0 THEN num + 2 * IntHalf ELSE num
         /\ num < 0 => -num \in 1 .. IntHalf
<1>1. IntHalf \in Nat \ {0} /\ num \in Int /\ 2 * IntHalf \in Nat \ {0}
  BY WidthAssumption DEF Ints
<1> DEFINE w == 2 * IntHalf
<1>2. w \in Nat \ {0} /\ w = 2 * IntHalf
  BY <1>1
<1> HIDE DEF w
<1>3. num = (num \div w) * w + (num % w) /\ num \div w \in Int /\ num % w \in 0 .. w - 1
  BY <1>1, <1>2, DivMod
<1> DEFINE q == num \div w
           r == num % w
<1>4. q \in Int /\ r \in 0 .. w - 1 /\ num = q * w + r
  BY <1>3
<1>5. r = num % (2 * IntHalf)
  BY <1>2
<1> HIDE DEF q, r
<1>6. r = IF num < 0 THEN num + w ELSE num
  <2>1. num >= -w /\ num < w
    BY <1>1, <1>2 DEF Ints
  <2>2. q = 0 \/ q = -1
    <3>1. CASE q >= 1
      <4>1. q * w >= w
        BY <1>2, <1>4, <3>1
      <4> QED
        BY <1>2, <1>4, <2>1, <4>1
    <3>2. CASE q <= -2
      <4>1. q * w <= -2 * w
        BY <1>2, <1>4, <3>2
      <4> QED
        BY <1>2, <1>4, <2>1, <4>1
    <3> QED
      BY <1>4, <3>1, <3>2
  <2> QED
    BY <1>1, <1>2, <1>4, <2>2
<1>7. AsInt(num) = r
  BY <1>5 DEF AsInt
<1>8. num < 0 => -num \in 1 .. IntHalf
  BY <1>1 DEF Ints
<1> QED
  BY <1>1, <1>2, <1>4, <1>6, <1>7, <1>8

\* kernel_itoa writes a sign and the digits of the magnitude, last to first.
LEMMA ItoaText ==
  ASSUME NEW base \in Radix, NEW num \in Ints
  PROVE  kernel_itoa(num, base) =
           IF num < 0 /\ base = 10 THEN <<"-">> \o Reverse(Reversed(-num, base, Digits(FALSE)))
           ELSE Reverse(Reversed(AsInt(num), base, Digits(FALSE)))
<1>1. PICK reversed :
        /\ ItoaReversed(reversed, base)
        /\ kernel_itoa(num, base) =
             IF num < 0 /\ base = 10 THEN <<"-">> \o Reverse(reversed[num])
             ELSE Reverse(reversed[AsInt(num)])
  BY ItoaDigits DEF Radix
<1>2. num \in Int /\ AsInt(num) \in 0 .. 2 * IntHalf - 1 /\ IntHalf \in Nat
  BY IntFacts, WidthAssumption
<1>3. /\ num \in -(2 * IntHalf) .. 2 * IntHalf
      /\ AsInt(num) \in -(2 * IntHalf) .. 2 * IntHalf
  BY <1>2 DEF Ints
<1>4. num < 0 => Abs(num) = -num
  BY DEF Abs
<1>5. Abs(AsInt(num)) = AsInt(num)
  BY <1>2 DEF Abs
<1>6. /\ reversed[num] = Reversed(Abs(num), base, Digits(FALSE))
      /\ reversed[AsInt(num)] = Reversed(AsInt(num), base, Digits(FALSE))
  <2>1. \A n \in -(2 * IntHalf) .. 2 * IntHalf : reversed[n] = Reversed(Abs(n), base, Digits(FALSE))
    BY <1>1 DEF ItoaReversed
  <2> QED
    BY <1>3, <1>5, <2>1, Zenon
<1> QED
  BY <1>1, <1>4, <1>6, Zenon

\* The figures of kernel_itoa: those of base 10 are digits of skip_atoi.
LEMMA ItoaFigures ==
  ASSUME NEW base \in Radix, NEW n \in 0 .. 2 * IntHalf
  PROVE  LET T == Digits(FALSE)
             figures == Reverse(Reversed(n, base, T))
         IN /\ figures \in Seq(FiguresOf(T)) /\ Len(figures) \in Nat /\ Len(figures) >= 1
            /\ ValueOf(figures, base, T) = n
            /\ base = 10 => figures \in Seq({T[i] : i \in 1 .. 10})
<1> DEFINE T == Digits(FALSE)
           tmp == Reversed(n, base, T)
           figures == Reverse(tmp)
<1>1. IsTable(T) /\ base \in Bases
  <2>1. FALSE \in BOOLEAN
    OBVIOUS
  <2>2. base \in Bases
    BY DEF Radix, Bases
  <2> QED
    BY <2>1, <2>2, DigitsAreTable
<1>2. n \in 0 .. 2 * LongHalf
  BY WidthAssumption
<1> HIDE DEF T
<1>3. tmp \in Seq(FiguresOf(T)) /\ Len(tmp) >= 1 /\ ValueOf(Reverse(tmp), base, T) = n
  BY <1>1, <1>2, ReversedReads
<1>4. base = 10 => tmp \in Seq({T[i] : i \in 1 .. 10})
  BY <1>1, <1>2, ReversedStep
<1> HIDE DEF tmp
<1>5. figures \in Seq(FiguresOf(T)) /\ Len(figures) = Len(tmp) /\ Len(tmp) \in Nat
  BY <1>3, ReverseFacts
<1>6. base = 10 => figures \in Seq({T[i] : i \in 1 .. 10})
  <2> DEFINE S == {T[i] : i \in 1 .. 10}
  <2>1. SUFFICES ASSUME base = 10 PROVE figures \in Seq(S)
    OBVIOUS
  <2>2. tmp \in Seq(S)
    BY <1>4, <2>1
  <2> HIDE DEF S
  <2> QED
    BY <2>2, ReverseFacts
<1>7. Len(figures) \in Nat /\ Len(figures) >= 1 /\ ValueOf(figures, base, T) = n
  <2>1. ValueOf(figures, base, T) = n
    BY <1>3
  <2>2. Len(figures) \in Nat /\ Len(figures) >= 1
    <3> HIDE DEF figures
    <3> QED
      BY <1>3, <1>5
  <2> QED
    BY <2>1, <2>2, Zenon
<1> QED
  BY <1>5, <1>6, <1>7, Zenon DEF T, tmp

\* A text that consists of figures is read to its end.
LEMMA AtoiOfFigures ==
  ASSUME NEW text \in Seq({Digits(FALSE)[i] : i \in 1 .. 10})
  PROVE  skip_atoi(text) = ValueOf(text, 10, Digits(FALSE))
<1> DEFINE IsDigit(c) == \E i \in 1 .. 10 : Digits(FALSE)[i] = c
           IsEnd(k) == /\ \A i \in 1 .. k : IsDigit(text[i])
                       /\ k < Len(text) => ~IsDigit(text[k + 1])
           n == CHOOSE k \in 0 .. Len(text) : IsEnd(k)
<1>1. \A i \in 1 .. Len(text) : IsDigit(text[i])
  <2> DEFINE S == {Digits(FALSE)[i] : i \in 1 .. 10}
  <2>1. \A c \in S : IsDigit(c)
    OBVIOUS
  <2>2. text \in Seq(S)
    OBVIOUS
  <2> HIDE DEF S, IsDigit
  <2>3. \A i \in 1 .. Len(text) : text[i] \in S
    BY <2>2
  <2> QED
    BY <2>1, <2>3
<1>2. Len(text) \in Nat
  OBVIOUS
<1> HIDE DEF IsDigit
<1>3. n = Len(text)
  <2>1. Len(text) \in 0 .. Len(text) /\ IsEnd(Len(text))
    BY <1>1, <1>2
  <2>2. \A k \in 0 .. Len(text) : IsEnd(k) => k = Len(text)
    <3> SUFFICES ASSUME NEW k \in 0 .. Len(text), IsEnd(k), k # Len(text) PROVE FALSE
      OBVIOUS
    <3>1. k + 1 \in 1 .. Len(text) /\ k < Len(text)
      BY <1>2
    <3> QED
      BY <1>1, <3>1
  <2> HIDE DEF IsEnd
  <2> QED
    BY <2>1, <2>2
<1>4. skip_atoi(text) = ValueOf(SubSeq(text, 1, n), 10, Digits(FALSE))
  BY DEF skip_atoi, IsDigit
<1> HIDE DEF n
<1>5. SubSeq(text, 1, n) = text
  BY <1>3, SubSeqFull
<1> QED
  BY <1>4, <1>5, Zenon

\* What kernel_itoa writes reads back.
LEMMA ItoaReads ==
  ASSUME NEW base \in Radix, NEW num \in Ints
  PROVE  ItoaReadsBack(num, base)
<1> DEFINE T == Digits(FALSE)
           text == kernel_itoa(num, base)
           minus == num < 0 /\ base = 10
           n == IF minus THEN -num ELSE AsInt(num)
           figures == Reverse(Reversed(n, base, T))
<1>1. IsTable(T)
  <2>1. FALSE \in BOOLEAN
    OBVIOUS
  <2> QED
    BY <2>1, DigitsAreTable
<1>2. num \in Int /\ IntHalf \in Nat /\ n \in 0 .. 2 * IntHalf /\ (base = 10 => n = IF num < 0 THEN -num ELSE num)
  BY IntFacts, WidthAssumption
<1>3. /\ figures \in Seq(FiguresOf(T)) /\ Len(figures) \in Nat /\ Len(figures) >= 1
      /\ ValueOf(figures, base, T) = n
      /\ base = 10 => figures \in Seq({T[i] : i \in 1 .. 10})
  <2> HIDE DEF n
  <2> QED
    BY <1>2, ItoaFigures
<1>4. text = IF minus THEN <<"-">> \o figures ELSE figures
  BY ItoaText, Zenon
<1> HIDE DEF T, figures, text
<1>5. figures[1] # "-"
  <2>1. figures[1] \in FiguresOf(T)
    BY <1>3
  <2> QED
    BY <1>1, <2>1, FigureFacts DEF NoFigure
<1>6. ASSUME minus PROVE text[1] = "-" /\ Tail(text) = figures
  <2>1. text = <<"-">> \o figures
    BY <1>4, <1>6, Zenon
  <2>2. figures \in Seq(Chars \cup FiguresOf(T)) /\ "-" \in Chars \cup FiguresOf(T)
    BY <1>3 DEF Chars
  <2> QED
    BY <2>1, <2>2
<1>7. ASSUME ~minus PROVE text = figures
  BY <1>4, <1>7, Zenon
<1> DEFINE figs == IF text[1] = "-" THEN Tail(text) ELSE text
<1>8. figs = figures /\ (text[1] = "-" <=> minus)
  BY <1>5, <1>6, <1>7, Zenon
<1>9. Denotes(text, base) = IF text[1] = "-" THEN -ValueOf(figs, base, T) ELSE ValueOf(figs, base, T)
  BY Zenon DEF Denotes, T
<1> HIDE DEF figs
<1>10. Denotes(text, base) = IF minus THEN -n ELSE n
  BY <1>3, <1>8, <1>9, Zenon
<1>11. Denotes(text, base) = IF base = 10 THEN num ELSE AsInt(num)
  BY <1>2, <1>10
<1>12. ASSUME base = 10, num >= 0 PROVE skip_atoi(text) = num
  <2>1. ~minus /\ n = num
    BY <1>2, <1>12
  <2>2. text = figures
    BY <1>7, <2>1
  <2>3. skip_atoi(figures) = ValueOf(figures, 10, T)
    BY <1>3, <1>12, AtoiOfFigures DEF T
  <2> HIDE DEF n, minus
  <2> QED
    BY <1>3, <1>12, <2>1, <2>2, <2>3, Zenon
<1> QED
  BY <1>11, <1>12 DEF ItoaReadsBack, text

\* Every value of an int reads back from what kernel_itoa writes, in each base it
\* knows, and skip_atoi reads those that are not negative; for every width of an int.
THEOREM ItoaReadsAlways ==
  \A num \in -IntHalf .. IntHalf - 1, base \in {2, 8, 10, 16} : ItoaReadsBack(num, base)
  BY ItoaReads DEF Ints, Radix

-----------------------------------------------------------------------------
(* The formatter of lib/klib.c prints what that of device/printk.c prints. *)

\* The empty sequence before and behind another.
LEMMA ConcatNothing ==
  ASSUME NEW S, NEW s \in Seq(S)
  PROVE  s \o <<>> = s /\ <<>> \o s = s
  BY ConcatEmptySeq

\* A number without a width, a precision and flags is its sign and its digits.
LEMMA PlainNumber ==
  ASSUME NEW num \in Int, NEW base \in {10, 16}, NEW type \in {{}, {"SIGN"}}
  PROVE  number(num, base, -1, -1, type) =
           (IF "SIGN" \in type /\ num < 0 THEN <<"-">> ELSE <<>>) \o Reverse(TmpOf(num, base, type))
<1> DEFINE types == FlagsInEffect(type)
           sign == SignOf(num, types)
           prefix == PrefixOf(base, types)
           tmp == TmpOf(num, base, types)
           size == -1 - Len(sign) - Len(prefix) - Most(Len(tmp), -1)
           r == Reverse(tmp)
<1>1. types = type
  BY DEF FlagsInEffect
<1>2. sign = IF "SIGN" \in type /\ num < 0 THEN <<"-">> ELSE <<>>
  <2>1. "PLUS" \notin type /\ "SPACE" \notin type
    OBVIOUS
  <2> QED
    BY <1>1, <2>1, Zenon DEF SignOf
<1>3. prefix = <<>>
  <2>1. "SPECIAL" \notin type
    OBVIOUS
  <2> QED
    BY <1>1, <2>1, Zenon DEF PrefixOf
<1>4. "LEFT" \notin types /\ "ZEROPAD" \notin types
  BY <1>1
<1>5. /\ tmp \in Seq(FiguresOf(Digits("SMALL" \in type))) /\ Len(tmp) \in Nat
      /\ r \in Seq(FiguresOf(Digits("SMALL" \in type)))
  <2>1. base \in {8, 10, 16}
    OBVIOUS
  <2> QED
    BY <1>1, <2>1, NumberArguments
<1>6. number(num, base, -1, -1, type) =
              PadIf(types \cap {"ZEROPAD", "LEFT"} = {}, Blank, size) \o sign \o prefix
                \o PadIf("ZEROPAD" \in types, "0", size)
                \o Times("0", -1 - Len(tmp)) \o r
                \o PadIf("LEFT" \in types, Blank, size)
  BY NumberParts
<1>7. Len(sign) \in Nat /\ Len(prefix) = 0
  <2>1. Len(sign) \in {0, 1}
    BY <1>2
  <2>2. Len(prefix) = 0
    BY <1>3
  <2> QED
    BY <2>1, <2>2
<1> HIDE DEF types, sign, prefix, tmp, r
<1>8. size \in Int /\ size < 0 /\ -1 - Len(tmp) \in Int /\ -1 - Len(tmp) < 0
  <2>1. PICK m \in Nat : m = Most(Len(tmp), -1)
    BY <1>5 DEF Most
  <2>2. size = -1 - Len(sign) - 0 - m
    BY <1>7, <2>1
  <2>3. size \in Int /\ size < 0
    <3> HIDE DEF size
    <3> QED
      BY <1>7, <2>2
  <2>4. -1 - Len(tmp) \in Int /\ -1 - Len(tmp) < 0
    BY <1>5
  <2> QED
    BY <2>3, <2>4
<1> HIDE DEF size
<1>9. ASSUME NEW c, NEW n \in Int, n < 0 PROVE Times(c, n) = <<>>
  <2>1. Most(n, 0) = 0
    BY <1>9 DEF Most
  <2>2. Times(c, n) = [i \in 1 .. 0 |-> c]
    BY <2>1, Zenon DEF Times
  <2> QED
    BY <2>2
<1>10. PadIf(types \cap {"ZEROPAD", "LEFT"} = {}, Blank, size) = <<>>
  BY <1>8, <1>9, Zenon DEF PadIf
<1>11. PadIf("ZEROPAD" \in types, "0", size) = <<>> /\ PadIf("LEFT" \in types, Blank, size) = <<>>
  BY <1>4, Zenon DEF PadIf
<1>12. Times("0", -1 - Len(tmp)) = <<>>
  BY <1>8, <1>9, Zenon
<1>13. number(num, base, -1, -1, type) = <<>> \o sign \o <<>> \o <<>> \o <<>> \o r \o <<>>
  BY <1>3, <1>6, <1>10, <1>11, <1>12, Zenon
<1> DEFINE S == FiguresOf(Digits("SMALL" \in type)) \cup {"-"}
<1>14. sign \in Seq(S) /\ r \in Seq(S)
  <2>1. r \in Seq(S)
    BY <1>5, SeqMonotonic
  <2>2. <<"-">> \in Seq(S) /\ <<>> \in Seq(S)
    BY DEF S
  <2>3. sign \in Seq(S)
    BY <1>2, <2>2, Zenon
  <2> QED
    BY <2>1, <2>3
<1> HIDE DEF S
<1>15. <<>> \o sign \o <<>> \o <<>> \o <<>> \o r \o <<>> = sign \o r
  <2>1. sign \o r \in Seq(S) /\ <<>> \o sign = sign /\ sign \o <<>> = sign
    BY <1>14, ConcatNothing
  <2>2. (sign \o r) \o <<>> = sign \o r
    BY <2>1, ConcatNothing
  <2> QED
    BY <2>1, <2>2, Zenon
<1> QED
  BY <1>1, <1>2, <1>13, <1>15, Zenon DEF r, tmp

\* An argument and the int that va_arg takes from it.
LEMMA IntOfArg ==
  ASSUME NEW arg \in Int
  PROVE  LET int == Signed(AsInt(arg), IntHalf)
         IN int \in Ints /\ AsInt(int) = AsInt(arg)
<1> DEFINE int == Signed(AsInt(arg), IntHalf)
<1>1. IntHalf \in Nat \ {0} /\ 2 * IntHalf \in Nat \ {0}
  BY WidthAssumption
<1>2. AsInt(arg) \in 0 .. 2 * IntHalf - 1
  <2> DEFINE w == 2 * IntHalf
  <2>1. w \in Nat \ {0}
    BY <1>1
  <2> HIDE DEF w
  <2>2. arg % w \in 0 .. w - 1
    BY <2>1, DivMod
  <2> QED
    BY <2>2 DEF AsInt, w
<1>3. PICK a \in 0 .. 2 * IntHalf - 1 : a = AsInt(arg)
  BY <1>2
<1>4. int \in Ints
  BY <1>1, <1>3 DEF Signed, Ints
<1>5. AsInt(int) = IF int < 0 THEN int + 2 * IntHalf ELSE int
  BY <1>4, IntFacts
<1>6. AsInt(int) = a
  BY <1>1, <1>3, <1>5 DEF Signed
<1> QED
  BY <1>3, <1>4, <1>6

\* A long as small as an int is printed by number as itself.
LEMMA AsLongSmall ==
  ASSUME NEW n \in 0 .. 2 * IntHalf - 1
  PROVE  AsLong(n) = n
<1>1. n \in 0 .. 2 * LongHalf - 1 /\ 2 * LongHalf \in Nat \ {0}
  BY WidthAssumption
<1> DEFINE w == 2 * LongHalf
<1>2. w \in Nat \ {0} /\ n \in 0 .. w - 1
  BY <1>1
<1> HIDE DEF w
<1>3. n % w = n
  BY <1>2, ModSmall
<1> QED
  BY <1>3 DEF AsLong, w

\* kernel_itoa writes what number writes.
LEMMA ItoaIsNumber ==
  ASSUME NEW arg \in Int
  PROVE  LET int == Signed(AsInt(arg), IntHalf)
         IN /\ number(int, 10, -1, -1, {"SIGN"}) = kernel_itoa(int, 10)
            /\ number(AsInt(arg), 16, -1, -1, {}) = kernel_itoa(int, 16)
<1> DEFINE int == Signed(AsInt(arg), IntHalf)
           T == Digits(FALSE)
<1>1. int \in Ints /\ AsInt(int) = AsInt(arg)
  BY IntOfArg
<1> HIDE DEF int
<1>2. /\ int \in Int /\ AsInt(int) \in 0 .. 2 * IntHalf - 1 /\ AsInt(int) \in Int
      /\ AsInt(int) = IF int < 0 THEN int + 2 * IntHalf ELSE int
      /\ int < 0 => -int \in 1 .. IntHalf
      /\ int < 0 => -int \in 0 .. 2 * IntHalf - 1
  <2>1. /\ int \in Int /\ AsInt(int) \in 0 .. 2 * IntHalf - 1
        /\ AsInt(int) = IF int < 0 THEN int + 2 * IntHalf ELSE int
        /\ int < 0 => -int \in 1 .. IntHalf
    BY <1>1, IntFacts
  <2> QED
    BY <2>1, WidthAssumption
<1>3. number(int, 10, -1, -1, {"SIGN"}) = kernel_itoa(int, 10)
  <2>1. number(int, 10, -1, -1, {"SIGN"}) =
          (IF int < 0 THEN <<"-">> ELSE <<>>) \o Reverse(TmpOf(int, 10, {"SIGN"}))
    <3>1. "SIGN" \in {"SIGN"}
      OBVIOUS
    <3> QED
      BY <1>2, <3>1, PlainNumber
  <2>2. TmpOf(int, 10, {"SIGN"}) = Reversed(IF int < 0 THEN -int ELSE int, 10, T)
    <3>1. ("SMALL" \in {"SIGN"}) = FALSE /\ ("SIGN" \in {"SIGN"}) = TRUE
      OBVIOUS
    <3>2. AsLong(IF int < 0 THEN -int ELSE int) = IF int < 0 THEN -int ELSE int
      BY <1>2, AsLongSmall
    <3> QED
      BY <3>1, <3>2, Zenon DEF TmpOf, Magnitude
  <2>3. kernel_itoa(int, 10) = IF int < 0 /\ 10 = 10 THEN <<"-">> \o Reverse(Reversed(-int, 10, T))
                               ELSE Reverse(Reversed(AsInt(int), 10, T))
    <3>1. 10 \in Radix
      BY DEF Radix
    <3> QED
      BY <1>1, <3>1, ItoaText
  <2>4. CASE int < 0
    BY <2>1, <2>2, <2>3, <2>4, Zenon
  <2>5. CASE ~(int < 0)
    <3>1. AsInt(int) = int /\ int \in 0 .. 2 * IntHalf
      BY <1>2, <2>5, WidthAssumption
    <3>2. Reverse(Reversed(int, 10, T)) \in Seq(FiguresOf(T))
      <4>1. 10 \in Radix
        BY DEF Radix
      <4> QED
        BY <3>1, <4>1, ItoaFigures
    <3>3. <<>> \o Reverse(Reversed(int, 10, T)) = Reverse(Reversed(int, 10, T))
      BY <3>2, ConcatNothing
    <3> QED
      BY <2>1, <2>2, <2>3, <2>5, <3>1, <3>3, Zenon
  <2> QED
    BY <2>4, <2>5
<1>4. number(AsInt(arg), 16, -1, -1, {}) = kernel_itoa(int, 16)
  <2>1. number(AsInt(int), 16, -1, -1, {}) = <<>> \o Reverse(TmpOf(AsInt(int), 16, {}))
    <3>1. "SIGN" \notin {}
      OBVIOUS
    <3> QED
      BY <1>2, <3>1, PlainNumber
  <2>2. TmpOf(AsInt(int), 16, {}) = Reversed(AsInt(int), 16, T)
    <3>1. ("SMALL" \in {}) = FALSE /\ ("SIGN" \in {}) = FALSE
      OBVIOUS
    <3>2. AsLong(AsInt(int)) = AsInt(int)
      BY <1>2, AsLongSmall
    <3> QED
      BY <3>1, <3>2, Zenon DEF TmpOf, Magnitude
  <2>3. kernel_itoa(int, 16) = Reverse(Reversed(AsInt(int), 16, T))
    <3>1. 16 \in Radix /\ 16 # 10
      BY DEF Radix
    <3> QED
      BY <1>1, <3>1, ItoaText
  <2>4. Reverse(Reversed(AsInt(int), 16, T)) \in Seq(FiguresOf(T))
    <3>1. 16 \in Radix
      BY DEF Radix
    <3>2. AsInt(int) \in 0 .. 2 * IntHalf
      BY <1>2, WidthAssumption
    <3> QED
      BY <3>1, <3>2, ItoaFigures
  <2>5. <<>> \o Reverse(Reversed(AsInt(int), 16, T)) = Reverse(Reversed(AsInt(int), 16, T))
    BY <2>4, ConcatNothing
  <2> QED
    BY <1>1, <2>1, <2>2, <2>3, <2>5, Zenon
<1> QED
  BY <1>3, <1>4 DEF int

\* The directives that print numbers, with the qualifiers in Q.
NumberDirectives(Q) ==
  [conv : Numeric, flags : SUBSET FormatFlags, width : Int, precision : Int, qualifier : Q,
   arg : 0 .. 2 * LongHalf - 1]

\* Without flags, width and precision, kernel_vsprintf prints %d and %x as vsprintf prints
\* %d and %X, for every argument.
THEOREM NumbersAgree ==
  ASSUME NEW Q, NEW d \in NumberDirectives(Q)
  PROVE  FormattersAgree(d)
<1> DEFINE int == Signed(AsInt(d.arg), IntHalf)
           x == [d EXCEPT !.conv = "x"]
<1>1. SUFFICES ASSUME d.flags = {}, d.width = -1, d.precision = -1, d.qualifier # "l"
               PROVE  /\ d.conv \in {"c", "d", "s"} => kernel_directive(d) = Directive(d)
                      /\ d.conv = "X" => kernel_directive(x) = Directive(d)
  <2>1. d.qualifier = "" => d.qualifier # "l"
    BY Zenon
  <2> QED
    BY <2>1, Zenon DEF FormattersAgree
<1>2. /\ d.conv \in Numeric /\ d.arg \in 0 .. 2 * LongHalf - 1 /\ d.arg \in Int
      /\ x.conv = "x" /\ x.arg = d.arg
  BY DEF NumberDirectives
<1>3. IsDirective(d)
  <2>1. d.flags \subseteq FormatFlags
    BY <1>1
  <2>2. d.width \in Int /\ d.precision \in Int
    BY <1>1
  <2> QED
    BY <1>2, <2>1, <2>2, Zenon DEF IsDirective
<1>4. /\ Directive(d) = number(LongOf(d), Base(d.conv), Width(d),
                               IF d.precision < -1 THEN 0 ELSE d.precision, TypeOf(d))
  BY <1>3, DirectiveNumber
<1>5. (IF d.precision < -1 THEN 0 ELSE d.precision) = -1 /\ ~(d.width < -1)
  BY <1>1
<1>6. /\ number(int, 10, -1, -1, {"SIGN"}) = kernel_itoa(int, 10)
      /\ number(AsInt(d.arg), 16, -1, -1, {}) = kernel_itoa(int, 16)
  BY <1>2, ItoaIsNumber
<1>7. ASSUME d.conv = "d" PROVE kernel_directive(d) = Directive(d)
  <2>1. kernel_directive(d) = kernel_itoa(int, 10)
    BY <1>7, Zenon DEF kernel_directive
  <2>2. LongOf(d) = int
    BY <1>1, <1>7 DEF LongOf
  <2>3. Base(d.conv) = 10
    BY <1>7 DEF Base
  <2>4. Width(d) = -1
    BY <1>1, <1>7 DEF Width
  <2>5. TypeOf(d) = {"SIGN"}
    <3>1. TypeOf(d) = d.flags \cup {} \cup {"SIGN"}
      BY <1>5, <1>7 DEF TypeOf
    <3> QED
      BY <1>1, <3>1
  <2> QED
    BY <1>4, <1>5, <1>6, <2>1, <2>2, <2>3, <2>4, <2>5, Zenon
<1>8. ASSUME d.conv = "X" PROVE kernel_directive(x) = Directive(d)
  <2>1. kernel_directive(x) = kernel_itoa(int, 16)
    <3> HIDE DEF x
    <3> QED
      BY <1>2, Zenon DEF kernel_directive
  <2>2. LongOf(d) = AsInt(d.arg)
    BY <1>1, <1>8 DEF LongOf
  <2>3. Base(d.conv) = 16
    BY <1>8 DEF Base
  <2>4. Width(d) = -1
    BY <1>1, <1>8 DEF Width
  <2>5. TypeOf(d) = {}
    <3>1. TypeOf(d) = d.flags \cup {} \cup {}
      BY <1>5, <1>8 DEF TypeOf
    <3> QED
      BY <1>1, <3>1
  <2> QED
    BY <1>4, <1>5, <1>6, <2>1, <2>2, <2>3, <2>4, <2>5, Zenon
<1>9. d.conv \notin {"c", "s"}
  BY <1>2 DEF Numeric
<1> QED
  BY <1>7, <1>8, <1>9

\* Without flags, width and precision, kernel_vsprintf prints %c and %s as vsprintf does,
\* for every text.
THEOREM TextsAgree ==
  ASSUME NEW S, NEW d, IsTextDirective(d, S)
  PROVE  FormattersAgree(d)
<1>1. SUFFICES ASSUME d.flags = {}, d.width = -1, d.precision = -1
               PROVE  d.conv \in {"c", "d", "s"} => kernel_directive(d) = Directive(d)
  <2>1. d.conv # "X"
    BY DEF IsTextDirective
  <2> QED
    BY <2>1, Zenon DEF FormattersAgree
<1>2. d.conv \in {"c", "s"} /\ d.text \in Seq(S) /\ (d.conv = "c" => d.text # <<>>)
  BY DEF IsTextDirective
<1>3. ~(d.width < -1) /\ ~(d.precision < -1) /\ d.precision < 0
  BY <1>1
<1> DEFINE flags == d.flags \cup IF d.width < -1 THEN {"LEFT"} ELSE {}
<1>4. "LEFT" \notin flags
  BY <1>1, <1>3
<1>5. ASSUME NEW s \in Seq(S) PROVE Padded(s, -1, flags) = s
  <2>1. Padded(s, -1, flags) = Times(Blank, -1 - Len(s)) \o s
    BY <1>4, Zenon DEF Padded
  <2>2. Most(-1 - Len(s), 0) = 0
    BY DEF Most
  <2>3. Times(Blank, -1 - Len(s)) = [i \in 1 .. 0 |-> Blank]
    BY <2>2, Zenon DEF Times
  <2>4. [i \in 1 .. 0 |-> Blank] = <<>>
    OBVIOUS
  <2>5. <<>> \o s = s
    BY ConcatNothing
  <2> QED
    BY <2>1, <2>3, <2>4, <2>5, Zenon
<1>6. ASSUME d.conv = "c" PROVE kernel_directive(d) = Directive(d)
  <2>1. kernel_directive(d) = <<d.text[1]>>
    BY <1>6, Zenon DEF kernel_directive
  <2>2. Directive(d) = Padded(<<d.text[1]>>, -1, flags)
    BY <1>1, <1>3, <1>6, Zenon DEF Directive
  <2>3. <<d.text[1]>> \in Seq(S)
    BY <1>2, <1>6
  <2> QED
    BY <1>5, <2>1, <2>2, <2>3, Zenon
<1>7. ASSUME d.conv = "s" PROVE kernel_directive(d) = Directive(d)
  <2>1. kernel_directive(d) = d.text
    BY <1>7, Zenon DEF kernel_directive
  <2>2. Directive(d) = Padded(d.text, -1, flags)
    BY <1>1, <1>3, <1>7, Zenon DEF Directive
  <2> QED
    BY <1>2, <1>5, <2>1, <2>2, Zenon
<1> QED
  BY <1>2, <1>6, <1>7

-----------------------------------------------------------------------------
(* kernel_memcpy: the bytes arrive. *)

\* A memory of M bytes and two ranges of it.
IsMove(memory, M, S, dest, src, size) ==
  /\ M \in Nat /\ memory \in [0 .. M - 1 -> S] /\ dest \in Nat /\ src \in Nat /\ size \in Nat
  /\ dest + size <= M /\ src + size <= M

\* The memory when n bytes have been copied.
IsCopy(after, memory, M, S, dest, src, size) ==
  /\ after \in [0 .. size -> [0 .. M - 1 -> S]] /\ after[0] = memory
  /\ \A n \in 1 .. size : after[n] = [after[n - 1] EXCEPT ![dest + n - 1] = after[n - 1][src + n - 1]]

\* The recursive function of kernel_memcpy exists and copies byte by byte.
LEMMA MemcpyExists ==
  ASSUME NEW memory, NEW M, NEW S, NEW dest, NEW src, NEW size, IsMove(memory, M, S, dest, src, size)
  PROVE  \E after : /\ IsCopy(after, memory, M, S, dest, src, size)
                    /\ kernel_memcpy(memory, dest, src, size) = after[size]
<1> DEFINE D == 0 .. size
           F == [0 .. M - 1 -> S]
           Body(f, n) == IF n = 0 THEN memory
                         ELSE [f[n - 1] EXCEPT ![dest + n - 1] = f[n - 1][src + n - 1]]
           after == CHOOSE f : f = [n \in D |-> Body(f, n)]
           down == [n \in D |-> IF n = 0 THEN 0 ELSE n - 1]
           start == [n \in D |-> memory]
           rank == [n \in D |-> n]
           step == [n \in D |-> [m \in F |-> IF n = 0 THEN m ELSE [m EXCEPT ![dest + n - 1] = m[src + n - 1]]]]
<1>1. /\ M \in Nat /\ memory \in F /\ dest \in Nat /\ src \in Nat /\ size \in Nat
      /\ dest + size <= M /\ src + size <= M
  BY DEF IsMove
<1>2. kernel_memcpy(memory, dest, src, size) = after[size]
  BY DEF kernel_memcpy
<1>3. /\ start \in [D -> F] /\ down \in [D -> D] /\ rank \in [D -> 0 .. size]
      /\ \A n \in D : n \in {0} \/ rank[down[n]] < rank[n]
  BY <1>1
<1>4. ASSUME NEW n \in D, n # 0, NEW m \in F
      PROVE  [m EXCEPT ![dest + n - 1] = m[src + n - 1]] \in F
  <2>1. dest + n - 1 \in 0 .. M - 1 /\ src + n - 1 \in 0 .. M - 1
    BY <1>1, <1>4
  <2>2. m[src + n - 1] \in S
    BY <2>1
  <2> QED
    BY <2>2
<1>5. step \in [D -> [F -> F]]
  <2>1. \A n \in D, m \in F : (IF n = 0 THEN m ELSE [m EXCEPT ![dest + n - 1] = m[src + n - 1]]) \in F
    BY <1>4
  <2> HIDE DEF D, F
  <2> QED
    BY <2>1
<1>6. Recursion(D, F, size, rank, {0}, start, down, step)
  BY <1>1, <1>3, <1>5 DEF Recursion
<1>7. PICK g \in [D -> F] : g = [n \in D |-> Unfolded(g, n, {0}, start, down, step)]
  <2> HIDE DEF D, F, rank, start, down, step
  <2> QED
    BY <1>6, RecursionExists
<1>8. \A n \in D : g[n] = Body(g, n)
  <2> SUFFICES ASSUME NEW n \in D PROVE g[n] = Body(g, n)
    OBVIOUS
  <2>1. g[n] = Unfolded(g, n, {0}, start, down, step)
    BY <1>7
  <2>2. CASE n = 0
    <3>1. Unfolded(g, n, {0}, start, down, step) = memory
      BY <2>2 DEF Unfolded
    <3> QED
      BY <2>1, <2>2, <3>1
  <2>3. CASE n # 0
    <3>1. down[n] = n - 1 /\ g[n - 1] \in F
      BY <1>1, <2>3
    <3>2. Unfolded(g, n, {0}, start, down, step) = step[n][g[n - 1]]
      BY <2>3, <3>1, Zenon DEF Unfolded
    <3>3. step[n][g[n - 1]] = [g[n - 1] EXCEPT ![dest + n - 1] = g[n - 1][src + n - 1]]
      <4> HIDE DEF F
      <4> QED
        BY <2>3, <3>1
    <3> QED
      BY <2>1, <2>3, <3>2, <3>3, Zenon
  <2> QED
    BY <2>2, <2>3
<1>9. after = [n \in D |-> Body(after, n)]
  <2> HIDE DEF Body, D
  <2>1. g = [n \in D |-> Body(g, n)]
    BY <1>7, <1>8
  <2> QED
    BY <2>1
<1> HIDE DEF after
<1>10. \A n \in D : after[n] = Body(after, n)
  <2> HIDE DEF Body, D
  <2> QED
    BY <1>9
<1>11. after[0] = memory
  <2>1. 0 \in D
    BY <1>1
  <2>2. after[0] = IF 0 = 0 THEN memory
                   ELSE [after[0 - 1] EXCEPT ![dest + 0 - 1] = after[0 - 1][src + 0 - 1]]
    BY <1>10, <2>1, Zenon
  <2> QED
    BY <2>2, Zenon
<1>12. \A n \in 1 .. size : after[n] = [after[n - 1] EXCEPT ![dest + n - 1] = after[n - 1][src + n - 1]]
  <2> SUFFICES ASSUME NEW n \in 1 .. size
               PROVE  after[n] = [after[n - 1] EXCEPT ![dest + n - 1] = after[n - 1][src + n - 1]]
    OBVIOUS
  <2>1. n \in D /\ n # 0
    BY <1>1
  <2> QED
    BY <1>10, <2>1, Zenon
<1> DEFINE Good == {n \in D : after[n] \in F}
<1>13. D \subseteq Good
  <2>1. 0 \in Good
    BY <1>1, <1>11
  <2>2. ASSUME NEW n \in 0 .. size - 1, n \in Good PROVE n + 1 \in Good
    <3>1. n + 1 \in D /\ n + 1 # 0 /\ (n + 1) - 1 = n /\ n + 1 \in 1 .. size
      BY <1>1
    <3>2. after[n + 1] = [after[n] EXCEPT ![dest + (n + 1) - 1] = after[n][src + (n + 1) - 1]]
      BY <1>12, <3>1
    <3>3. after[n] \in F
      BY <2>2
    <3>4. [after[n] EXCEPT ![dest + (n + 1) - 1] = after[n][src + (n + 1) - 1]] \in F
      BY <1>4, <3>1, <3>3
    <3> QED
      BY <3>1, <3>2, <3>4
  <2>3. size \in Int /\ \A n \in 0 .. size - 1 : n \in Good => n + 1 \in Good
    BY <1>1, <2>2
  <2> HIDE DEF Good
  <2> QED
    BY <2>1, <2>3, StepInduction
<1>14. after \in [D -> F]
  <2>1. \A n \in D : after[n] \in F
    BY <1>13
  <2> HIDE DEF D, F, Body
  <2> QED
    BY <1>9, <2>1
<1> QED
  BY <1>2, <1>11, <1>12, <1>14 DEF IsCopy

\* What the copy leaves alone, and what it copies when it does not read behind itself.
Apart(dest, src, size) == dest <= src \/ dest >= src + size

\* After n turns of the loop n bytes have been copied.
LEMMA MemcpyCopies ==
  ASSUME NEW memory, NEW M, NEW S, NEW dest, NEW src, NEW size, IsMove(memory, M, S, dest, src, size)
  PROVE  LET after == kernel_memcpy(memory, dest, src, size)
         IN /\ after \in [0 .. M - 1 -> S]
            /\ \A i \in 0 .. M - 1 : i \notin dest .. dest + size - 1 => after[i] = memory[i]
            /\ Apart(dest, src, size) => \A k \in 0 .. size - 1 : after[dest + k] = memory[src + k]
<1>1. /\ M \in Nat /\ memory \in [0 .. M - 1 -> S] /\ dest \in Nat /\ src \in Nat /\ size \in Nat
      /\ dest + size <= M /\ src + size <= M
  BY DEF IsMove
<1>2. PICK after : /\ IsCopy(after, memory, M, S, dest, src, size)
                   /\ kernel_memcpy(memory, dest, src, size) = after[size]
  BY MemcpyExists
<1>3. /\ after \in [0 .. size -> [0 .. M - 1 -> S]] /\ after[0] = memory
      /\ \A n \in 1 .. size : after[n] = [after[n - 1] EXCEPT ![dest + n - 1] = after[n - 1][src + n - 1]]
  BY <1>2 DEF IsCopy
<1> DEFINE Kept(n) == \A i \in 0 .. M - 1 : i \notin dest .. dest + n - 1 => after[n][i] = memory[i]
           Copied(n) == Apart(dest, src, size) => \A k \in 0 .. n - 1 : after[n][dest + k] = memory[src + k]
           Good == {n \in 0 .. size : Kept(n) /\ Copied(n)}
<1>4. 0 \in Good
  BY <1>1, <1>3
<1>5. ASSUME NEW n \in 0 .. size - 1, n \in Good PROVE n + 1 \in Good
  <2>1. Kept(n) /\ Copied(n)
    BY <1>5
  <2>2. n \in Nat /\ n + 1 \in 0 .. size /\ n + 1 \in 1 .. size /\ n \in 0 .. size
    BY <1>1
  <2>3. after[n + 1] = [after[n] EXCEPT ![dest + n] = after[n][src + n]]
    <3>1. (n + 1) - 1 = n /\ dest + (n + 1) - 1 = dest + n /\ src + (n + 1) - 1 = src + n
      BY <1>1, <2>2
    <3> QED
      BY <1>3, <2>2, <3>1
  <2>4. after[n] \in [0 .. M - 1 -> S] /\ dest + n \in 0 .. M - 1 /\ src + n \in 0 .. M - 1
    BY <1>1, <1>3, <2>2
  <2> DEFINE old == after[n]
             new == after[n + 1]
  <2>5. \A i \in 0 .. M - 1 : new[i] = IF i = dest + n THEN old[src + n] ELSE old[i]
    BY <2>3, <2>4
  <2> HIDE DEF new
  <2>6. \A i \in 0 .. M - 1 : i \notin dest .. dest + (n + 1) - 1 => new[i] = memory[i]
    <3> SUFFICES ASSUME NEW i \in 0 .. M - 1, i \notin dest .. dest + (n + 1) - 1
                 PROVE  new[i] = memory[i]
      OBVIOUS
    <3>1. i # dest + n /\ i \notin dest .. dest + n - 1
      BY <1>1, <2>2
    <3> QED
      BY <2>1, <2>5, <3>1
  <2>7. ASSUME Apart(dest, src, size), NEW k \in 0 .. (n + 1) - 1 PROVE new[dest + k] = memory[src + k]
    <3>1. CASE k = n
      <4>1. src + n \notin dest .. dest + n - 1
        BY <1>1, <2>2, <2>7 DEF Apart
      <4>2. old[src + n] = memory[src + n]
        BY <2>1, <2>4, <4>1
      <4> QED
        BY <2>4, <2>5, <3>1, <4>2
    <3>2. CASE k # n
      <4>1. k \in 0 .. n - 1 /\ dest + k # dest + n /\ dest + k \in 0 .. M - 1
        BY <1>1, <2>2, <3>2
      <4>2. old[dest + k] = memory[src + k]
        BY <2>1, <2>7, <4>1
      <4> QED
        BY <2>5, <4>1, <4>2
    <3> QED
      BY <3>1, <3>2
  <2> QED
    BY <2>2, <2>6, <2>7 DEF new
<1>6. 0 .. size \subseteq Good
  <2>1. size \in Int /\ \A n \in 0 .. size - 1 : n \in Good => n + 1 \in Good
    BY <1>1, <1>5
  <2> HIDE DEF Good
  <2> QED
    BY <1>4, <2>1, StepInduction
<1>7. size \in 0 .. size /\ after[size] \in [0 .. M - 1 -> S]
  BY <1>1, <1>3
<1>8. Kept(size) /\ Copied(size)
  BY <1>6, <1>7
<1> QED
  BY <1>2, <1>7, <1>8

\* kernel_memcpy copies every byte, unless it moves them up onto themselves, and
\* touches no byte outside of the destination, in a memory of any size and contents.
THEOREM MemcpyAlwaysMoves ==
  ASSUME NEW memory, NEW M, NEW S, NEW dest, NEW src, NEW size, IsMove(memory, M, S, dest, src, size)
  PROVE  MemcpyMoves(memory, dest, src, size)
<1> DEFINE after == kernel_memcpy(memory, dest, src, size)
           filled == kernel_memset(after, src, 9, size)
           D == 0 .. M - 1
<1>1. /\ M \in Nat /\ memory \in [D -> S] /\ dest \in Nat /\ src \in Nat /\ size \in Nat
      /\ dest + size <= M /\ src + size <= M
  BY DEF IsMove
<1>2. /\ after \in [D -> S]
      /\ \A i \in D : i \notin dest .. dest + size - 1 => after[i] = memory[i]
      /\ Apart(dest, src, size) => \A k \in 0 .. size - 1 : after[dest + k] = memory[src + k]
  BY MemcpyCopies
<1> HIDE DEF after
<1>3. \A i \in D : filled[i] = IF i \in src .. src + size - 1 THEN 9 ELSE after[i]
  BY <1>2 DEF kernel_memset
<1> HIDE DEF filled
<1>4. ASSUME NEW f, NEW g, Bytes(f, dest, size) = Bytes(g, src, size)
      PROVE  kernel_memcmp(Bytes(f, dest, size), Bytes(g, src, size), size) = 0
  BY <1>4, Zenon DEF kernel_memcmp
<1>5. ASSUME NEW f, \A k \in 0 .. size - 1 : f[dest + k] = memory[src + k]
      PROVE  Bytes(f, dest, size) = Bytes(memory, src, size)
  <2>1. ASSUME NEW i \in 1 .. size PROVE f[dest + i - 1] = memory[src + i - 1]
    <3>1. i - 1 \in 0 .. size - 1 /\ dest + (i - 1) = dest + i - 1 /\ src + (i - 1) = src + i - 1
      BY <1>1
    <3> QED
      BY <1>5, <3>1
  <2> QED
    BY <2>1 DEF Bytes
<1>6. Apart(dest, src, size) => Bytes(after, dest, size) = Bytes(memory, src, size)
  BY <1>2, <1>5
<1>7. dest + size <= src \/ dest >= src + size => Bytes(filled, dest, size) = Bytes(memory, src, size)
  <2> SUFFICES ASSUME dest + size <= src \/ dest >= src + size, NEW k \in 0 .. size - 1
               PROVE  filled[dest + k] = memory[src + k]
    BY <1>5
  <2>1. dest + k \in D /\ dest + k \notin src .. src + size - 1 /\ Apart(dest, src, size)
    BY <1>1 DEF Apart
  <2>2. filled[dest + k] = after[dest + k]
    BY <1>3, <2>1
  <2> QED
    BY <1>2, <2>1, <2>2
<1>8. ASSUME NEW i \in DOMAIN memory \ UNION {dest .. dest + size - 1, src .. src + size - 1}
      PROVE  filled[i] = memory[i]
  <2>1. i \in D /\ i \notin dest .. dest + size - 1 /\ i \notin src .. src + size - 1
    BY <1>1
  <2> QED
    BY <1>2, <1>3, <2>1
<1> QED
  BY <1>4, <1>6, <1>7, <1>8, Zenon DEF MemcpyMoves, Apart, after, filled

-----------------------------------------------------------------------------
(* The copies and the comparison of strings. *)

\* A set of naturals with a bound has a greatest element.
LEMMA GreatestBelow ==
  ASSUME NEW N \in Nat, NEW A \in SUBSET (0 .. N), A # {}
  PROVE  \E x \in A : \A y \in A : y <= x
<1> DEFINE B == {N - i : i \in A}
<1>1. B \in SUBSET Nat /\ B # {}
  <2>1. \A i \in A : i \in 0 .. N /\ N - i \in Nat
    OBVIOUS
  <2>2. PICK x \in A : TRUE
    OBVIOUS
  <2>3. N - x \in B
    BY <2>2
  <2> QED
    BY <2>1, <2>3
<1>2. PICK b \in B : \A y \in B : b <= y
  <2> HIDE DEF B
  <2> QED
    BY <1>1, LeastNatural
<1>3. PICK x \in A : b = N - x
  OBVIOUS
<1>4. \A y \in A : y \in Int /\ x \in Int /\ N - x <= N - y
  BY <1>2, <1>3
<1>5. \A y \in A : y <= x
  BY <1>4
<1> QED
  BY <1>5

\* What is stored is a 0 or the character of src at that place.
LEMMA StoredFacts ==
  ASSUME NEW S, NEW src \in Seq(S), NEW n \in 0 .. Len(src), NEW end \in Int
  PROVE  LET stores == Stored(src, n, end)
         IN /\ DOMAIN stores = {end} \cup 0 .. n - 1
            /\ \A i \in DOMAIN stores :
                 stores[i] = 0 \/ (i \in 0 .. Len(src) - 1 /\ stores[i] = src[i + 1])
<1> DEFINE stores == Stored(src, n, end)
<1>1. /\ DOMAIN stores = {end} \cup 0 .. n - 1
      /\ \A i \in {end} \cup 0 .. n - 1 : stores[i] = IF i = end THEN 0 ELSE CharAt(src, i)
  BY DEF Stored
<1> HIDE DEF stores
<1>2. \A i \in 0 .. n - 1 : CharAt(src, i) = src[i + 1] /\ i \in 0 .. Len(src) - 1
  BY DEF CharAt
<1>3. \A i \in DOMAIN stores : stores[i] = 0 \/ (i \in 0 .. Len(src) - 1 /\ stores[i] = src[i + 1])
  BY <1>1, <1>2
<1> QED
  BY <1>1, <1>3 DEF stores

\* kernel_strcpy stores within the string that was at its destination, kernel_strncpy at
\* most one byte outside of size, and both only what is in src and a 0; for strings of
\* any length.
THEOREM CopiesAlwaysStay ==
  ASSUME NEW S, NEW dest \in Seq(S), NEW src \in Seq(S), NEW size \in Nat
  PROVE  CopiesStay(dest, src, size)
<1>1. DOMAIN kernel_strcpy(dest, src) \subseteq 0 .. Len(dest)
  <2> DEFINE n == Least(Len(dest), Len(src))
  <2>1. n \in 0 .. Len(src) /\ n \in 0 .. Len(dest) /\ n \in Int
    BY DEF Least
  <2>2. kernel_strcpy(dest, src) = Stored(src, n, n)
    BY DEF kernel_strcpy
  <2> HIDE DEF n
  <2>3. DOMAIN Stored(src, n, n) = {n} \cup 0 .. n - 1
    BY <2>1, StoredFacts
  <2> QED
    BY <2>1, <2>2, <2>3
<1>2. LET stores == kernel_strncpy(src, size)
      IN /\ DOMAIN stores \subseteq -1 .. size
         /\ \A i \in DOMAIN stores :
              stores[i] = 0 \/ (i \in 0 .. Len(src) - 1 /\ stores[i] = src[i + 1])
  <2> DEFINE n == Least(size, Len(src))
             m == IF n = size - 1 THEN n - 1 ELSE n
  <2>1. CASE size = 0
    <3>1. kernel_strncpy(src, size) = <<>>
      BY <2>1, Zenon DEF kernel_strncpy
    <3>2. DOMAIN <<>> = {}
      OBVIOUS
    <3> QED
      BY <3>1, <3>2
  <2>2. CASE size # 0
    <3>1. n \in 0 .. Len(src) /\ n \in Int /\ n <= size
      BY DEF Least
    <3>2. m \in Int /\ m \in -1 .. size
      <4> HIDE DEF n
      <4> QED
        BY <2>2, <3>1
    <3>3. kernel_strncpy(src, size) = Stored(src, n, m)
      BY <2>2, Zenon DEF kernel_strncpy
    <3> HIDE DEF n, m
    <3> DEFINE stores == Stored(src, n, m)
    <3>4. /\ DOMAIN stores = {m} \cup 0 .. n - 1
          /\ \A i \in DOMAIN stores :
               stores[i] = 0 \/ (i \in 0 .. Len(src) - 1 /\ stores[i] = src[i + 1])
      BY <3>1, <3>2, StoredFacts
    <3> HIDE DEF stores
    <3>5. DOMAIN stores \subseteq -1 .. size
      BY <3>1, <3>2, <3>4
    <3> QED
      BY <3>3, <3>4, <3>5 DEF stores
  <2> QED
    BY <2>1, <2>2
<1> QED
  BY <1>1, <1>2 DEF CopiesStay

\* Unless size is 0, kernel_strncmp finds two strings equal exactly when one starts the
\* other, whatever size is.
LEMMA ComparesWhole ==
  ASSUME NEW S, 0 \notin S, NEW s1 \in Seq(S), NEW s2 \in Seq(S), NEW size \in Nat, size > 0
  PROVE  kernel_strncmp(s1, s2, size) = 0 <=> (Prefix(s1, s2) \/ Prefix(s2, s1))
<1> DEFINE least == Least(Len(s1), Len(s2))
           same == {i \in 0 .. least : \A j \in 0 .. i - 1 : s1[j + 1] = s2[j + 1]}
           longest == CHOOSE i \in same : \A j \in same : j <= i
           a == CharAt(s1, longest)
           b == CharAt(s2, longest)
<1>2. kernel_strncmp(s1, s2, size) = IF 0 \in {a, b} \/ a = b THEN 0 ELSE 1
  <2> DEFINE stop == IF size = 0 THEN 0 ELSE longest
  <2>1. kernel_strncmp(s1, s2, size) =
          IF 0 \in {CharAt(s1, stop), CharAt(s2, stop)} \/ CharAt(s1, stop) = CharAt(s2, stop)
          THEN 0 ELSE 1
    BY DEF kernel_strncmp
  <2>2. stop = longest
    OBVIOUS
  <2> HIDE DEF stop, longest
  <2> QED
    BY <2>1, <2>2, Zenon
<1>3. least \in Nat /\ least <= Len(s1) /\ least <= Len(s2) /\ (least = Len(s1) \/ least = Len(s2))
  BY DEF Least
<1> HIDE DEF least
<1>4. longest \in same /\ \A j \in same : j <= longest
  <2>1. same \in SUBSET (0 .. least) /\ 0 \in same
    BY <1>3
  <2> HIDE DEF same
  <2>2. \E i \in same : \A j \in same : j <= i
    BY <1>3, <2>1, GreatestBelow
  <2> QED
    BY <2>2
<1> HIDE DEF longest
<1>5. /\ longest \in 0 .. least /\ \A j \in 0 .. longest - 1 : s1[j + 1] = s2[j + 1]
  BY <1>4
<1>6. \A i \in 1 .. longest : s1[i] = s2[i]
  <2> SUFFICES ASSUME NEW i \in 1 .. longest PROVE s1[i] = s2[i]
    OBVIOUS
  <2>1. i - 1 \in 0 .. longest - 1 /\ (i - 1) + 1 = i
    BY <1>3, <1>5
  <2> QED
    BY <1>5, <2>1
<1>7. ASSUME NEW s \in Seq(S), NEW t \in Seq(S), Len(s) <= Len(t), \A i \in 1 .. Len(s) : s[i] = t[i]
      PROVE  Prefix(s, t)
  <2> DEFINE u == SubSeq(t, 1, Len(s))
  <2>1. u \in Seq(S) /\ Len(u) = Len(s) /\ \A i \in 1 .. Len(s) : u[i] = t[i]
    BY <1>7
  <2> HIDE DEF u
  <2>2. u = s
    BY <1>7, <2>1, SeqEqual
  <2> QED
    BY <1>7, <2>2 DEF Prefix, u
<1>8. CASE longest = least
  <2>1. 0 \in {a, b}
    BY <1>3, <1>8 DEF CharAt
  <2>2. Prefix(s1, s2) \/ Prefix(s2, s1)
    <3>1. CASE least = Len(s1)
      BY <1>3, <1>6, <1>7, <1>8, <3>1
    <3>2. CASE least = Len(s2)
      <4>1. \A i \in 1 .. Len(s2) : s2[i] = s1[i]
        BY <1>6, <1>8, <3>2
      <4> QED
        BY <1>3, <1>7, <3>2, <4>1
    <3> QED
      BY <1>3, <3>1, <3>2
  <2> QED
    BY <1>2, <2>1, <2>2
<1>9. CASE longest # least
  <2>1. longest + 1 \in 0 .. least /\ longest < Len(s1) /\ longest < Len(s2) /\ longest \in Nat
    BY <1>3, <1>5, <1>9
  <2>2. a = s1[longest + 1] /\ b = s2[longest + 1] /\ a \in S /\ b \in S
    <3>1. a = s1[longest + 1] /\ b = s2[longest + 1]
      BY <2>1 DEF CharAt
    <3>2. longest + 1 \in 1 .. Len(s1) /\ longest + 1 \in 1 .. Len(s2)
      BY <2>1
    <3> QED
      BY <3>1, <3>2
  <2>3. a # b
    <3> SUFFICES ASSUME a = b PROVE FALSE
      OBVIOUS
    <3>1. \A j \in 0 .. (longest + 1) - 1 : s1[j + 1] = s2[j + 1]
      <4>1. s1[longest + 1] = s2[longest + 1]
        BY <2>2
      <4>2. \A j \in 0 .. (longest + 1) - 1 : j \in 0 .. longest - 1 \/ j = longest
        BY <2>1
      <4> HIDE DEF a, b
      <4> QED
        BY <1>5, <4>1, <4>2
    <3>2. longest + 1 \in same
      BY <2>1, <3>1
    <3> HIDE DEF same
    <3> QED
      BY <1>4, <2>1, <3>2
  <2>4. kernel_strncmp(s1, s2, size) = 1
    BY <1>2, <2>2, <2>3
  <2>5. ASSUME NEW s \in Seq(S), NEW t \in Seq(S), Prefix(s, t), longest < Len(s)
        PROVE  s[longest + 1] = t[longest + 1]
    <3> DEFINE u == SubSeq(t, 1, Len(s))
    <3>1. Len(s) <= Len(t) /\ u = s /\ longest + 1 \in 1 .. Len(s)
      BY <2>1, <2>5 DEF Prefix
    <3>2. u[longest + 1] = t[longest + 1]
      BY <3>1
    <3> QED
      BY <3>1, <3>2
  <2>6. ~Prefix(s1, s2) /\ ~Prefix(s2, s1)
    <3> HIDE DEF a, b
    <3> QED
      BY <2>1, <2>2, <2>3, <2>5
  <2> QED
    BY <2>4, <2>6
<1> QED
  BY <1>8, <1>9

\* What starts a string is cut to what starts the cut string.
LEMMA CutPrefix ==
  ASSUME NEW S, NEW s \in Seq(S), NEW t \in Seq(S), NEW size \in Nat, Prefix(s, t)
  PROVE  Prefix(Upto(s, size), Upto(t, size))
<1> DEFINE m == Least(size, Len(s))
           n == Least(size, Len(t))
           u == SubSeq(t, 1, Len(s))
<1>1. Len(s) <= Len(t) /\ u = s
  BY DEF Prefix
<1>2. m \in Nat /\ n \in Nat /\ m <= n /\ m <= Len(s) /\ n <= Len(t) /\ Len(s) \in Nat /\ Len(t) \in Nat
  BY <1>1 DEF Least
<1>3. \A i \in 1 .. Len(s) : s[i] = t[i]
  <2>1. \A i \in 1 .. Len(s) : u[i] = t[i]
    BY <1>1
  <2> QED
    BY <1>1, <2>1
<1> HIDE DEF m, n, u
<1> DEFINE a == SubSeq(s, 1, m)
           b == SubSeq(t, 1, n)
           c == SubSeq(b, 1, m)
<1>4. a \in Seq(S) /\ Len(a) = m /\ \A i \in 1 .. m : a[i] = s[i]
  BY <1>2
<1>5. b \in Seq(S) /\ Len(b) = n /\ \A i \in 1 .. n : b[i] = t[i]
  BY <1>2
<1> HIDE DEF a, b
<1>6. c \in Seq(S) /\ Len(c) = m /\ \A i \in 1 .. m : c[i] = b[i]
  BY <1>2, <1>5
<1> HIDE DEF c
<1>7. \A i \in 1 .. m : c[i] = a[i]
  <2>1. \A i \in 1 .. m : i \in 1 .. n /\ i \in 1 .. Len(s)
    BY <1>2
  <2> QED
    BY <1>3, <1>4, <1>5, <1>6, <2>1
<1>8. c = a
  BY <1>4, <1>6, <1>7, SeqEqual
<1> QED
  BY <1>2, <1>4, <1>5, <1>8 DEF Prefix, Upto, a, b, c, m, n

\* For strings of any length and any size, kernel_strncmp finds a string equal to what it
\* starts with, and two strings different that differ in what may be compared.
THEOREM AlwaysComparesPrefixes ==
  ASSUME NEW S, 0 \notin S, NEW s1 \in Seq(S), NEW s2 \in Seq(S), NEW size \in Nat
  PROVE  ComparesPrefixes(s1, s2, size)
<1>1. CASE size > 0
  <2>1. kernel_strncmp(s1, s2, size) = 0 <=> (Prefix(s1, s2) \/ Prefix(s2, s1))
    BY <1>1, ComparesWhole
  <2>2. /\ Prefix(s1, s2) => Prefix(Upto(s1, size), Upto(s2, size))
        /\ Prefix(s2, s1) => Prefix(Upto(s2, size), Upto(s1, size))
    BY CutPrefix
  <2> QED
    BY <2>1, <2>2 DEF ComparesPrefixes
<1>2. CASE size = 0
  <2>1. ASSUME NEW s \in Seq(S), NEW t \in Seq(S)
        PROVE  Prefix(Upto(s, size), Upto(t, size))
    <3>1. Upto(s, size) = <<>> /\ Upto(t, size) = <<>>
      BY <1>2 DEF Upto, Least
    <3> QED
      BY <3>1 DEF Prefix
  <2>2. ASSUME NEW s \in Seq(S), NEW t \in Seq(S), Prefix(s, t)
        PROVE  CharAt(s, 0) = 0 \/ CharAt(s, 0) = CharAt(t, 0)
    <3> SUFFICES ASSUME Len(s) > 0 PROVE s[1] = t[1] /\ Len(t) > 0
      BY DEF CharAt
    <3>1. Len(s) <= Len(t) /\ SubSeq(t, 1, Len(s)) = s
      BY <2>2 DEF Prefix
    <3>2. SubSeq(t, 1, Len(s))[1] = t[1]
      BY <3>1
    <3> QED
      BY <3>1, <3>2
  <2>3. kernel_strncmp(s1, s2, size) =
          IF 0 \in {CharAt(s1, 0), CharAt(s2, 0)} \/ CharAt(s1, 0) = CharAt(s2, 0) THEN 0 ELSE 1
    BY <1>2, Zenon DEF kernel_strncmp
  <2>4. Prefix(s1, s2) \/ Prefix(s2, s1) => kernel_strncmp(s1, s2, size) = 0
    BY <2>2, <2>3
  <2> QED
    BY <2>1, <2>4 DEF ComparesPrefixes
<1> QED
  BY <1>1, <1>2

\* What the functions of lib/klib.c are called with.
ArgsFit ==
  /\ part = "number" => \E Q : args \in NumberDirectives(Q)
  /\ part = "text" => IsTextDirective(args, {"a", "b", "c"})
  /\ part = "itoa" => args.num \in Ints /\ args.base \in Radix
  /\ part = "move" => IsMove([i \in 0 .. 4 |-> i], 5, 0 .. 4, args.dest, args.src, args.size)
  /\ part = "strings" => args.dest \in Seq({1, 2}) /\ args.src \in Seq({1, 2}) /\ args.size \in Nat

\* The functions of lib/klib.c keep what StringsKept says of them, for every width of an int.
THEOREM StringsAlwaysKept == LibrarySpec => []StringsKept
<1>1. LibraryInit => ArgsFit
  <2> SUFFICES ASSUME LibraryInit PROVE ArgsFit
    OBVIOUS
  <2>1. CASE part = "number"
    <3>1. args \in NumberArgs
      BY <2>1 DEF LibraryInit
    <3>2. PICK Q : args \in [conv : Numeric, flags : SUBSET FormatFlags, width : {-6, -1, 2, 7},
                             precision : {-3, -1, 2, 4}, qualifier : Q,
                             arg : {0, 1, 7, 8, 9, 10, 15, 16, 31, 32, 63} \cap 0 .. 2 * LongHalf - 1]
      BY <3>1, Zenon DEF NumberArgs, FormatFlags
    <3>3. args \in NumberDirectives(Q)
      BY <3>2 DEF NumberDirectives
    <3> QED
      BY <2>1, <3>3 DEF ArgsFit
  <2>2. CASE part = "text"
    <3>1. ArgsPrintable
      BY PrintableInit
    <3> QED
      BY <2>2, <3>1 DEF ArgsFit, ArgsPrintable
  <2>3. CASE part = "itoa"
    BY <2>3 DEF LibraryInit, ItoaArgs, ArgsFit, Ints, Radix
  <2>4. CASE part = "move"
    <3>1. args \in MoveArgs
      BY <2>4 DEF LibraryInit
    <3>2. /\ args.dest \in 0 .. 4 /\ args.src \in 0 .. 4 /\ args.size \in 0 .. 5
          /\ args.dest + args.size <= 5 /\ args.src + args.size <= 5
      BY <3>1 DEF MoveArgs
    <3>3. [i \in 0 .. 4 |-> i] \in [0 .. 5 - 1 -> 0 .. 4]
      OBVIOUS
    <3>4. /\ args.dest \in Nat /\ args.src \in Nat /\ args.size \in Nat /\ 5 \in Nat
      BY <3>2
    <3>5. IsMove([i \in 0 .. 4 |-> i], 5, 0 .. 4, args.dest, args.src, args.size)
      BY <3>2, <3>3, <3>4 DEF IsMove
    <3> QED
      BY <2>4, <3>5 DEF ArgsFit
  <2>5. CASE part = "strings"
    <3>1. args \in [dest : Texts, src : Texts, size : 0 .. 4]
      BY <2>5 DEF LibraryInit, StringArgs
    <3>2. ASSUME NEW s \in Texts PROVE s \in Seq({1, 2})
      <4>1. PICK n \in 0 .. 3 : s \in [1 .. n -> {1, 2}]
        BY DEF Texts
      <4>2. n \in Nat
        OBVIOUS
      <4> QED
        BY <4>1, <4>2
    <3>3. args.dest \in Texts /\ args.src \in Texts /\ args.size \in Nat
      BY <3>1
    <3> QED
      BY <2>5, <3>2, <3>3 DEF ArgsFit
  <2> QED
    BY <2>1, <2>2, <2>3, <2>4, <2>5 DEF ArgsFit
<1>2. ArgsFit /\ [LibraryNext]_allVars => ArgsFit'
  <2>1. [LibraryNext]_allVars => UNCHANGED <<part, args>>
    BY DEF LibraryNext, allVars
  <2> QED
    BY <2>1 DEF ArgsFit
<1>3. ArgsFit => StringsKept
  <2> SUFFICES ASSUME ArgsFit PROVE StringsKept
    OBVIOUS
  <2>1. part \in {"number", "text"} => FormattersAgree(args)
    <3>1. CASE part = "number"
      <4>1. PICK Q : args \in NumberDirectives(Q)
        BY <3>1 DEF ArgsFit
      <4>2. FormattersAgree(args)
        BY <4>1, NumbersAgree
      <4> QED
        BY <4>2
    <3>2. CASE part = "text"
      <4>1. IsTextDirective(args, {"a", "b", "c"})
        BY <3>2 DEF ArgsFit
      <4>2. FormattersAgree(args)
        BY <4>1, TextsAgree
      <4> QED
        BY <4>2
    <3> QED
      BY <3>1, <3>2
  <2>2. part = "itoa" => ItoaReadsBack(args.num, args.base)
    BY ItoaReads DEF ArgsFit
  <2>3. part = "move" => MemcpyMoves([i \in 0 .. 4 |-> i], args.dest, args.src, args.size)
    BY MemcpyAlwaysMoves DEF ArgsFit
  <2>4. ASSUME part = "strings"
        PROVE  /\ CopiesStay(args.dest, args.src, args.size)
               /\ ComparesPrefixes(args.dest, args.src, args.size)
    <3>1. args.dest \in Seq({1, 2}) /\ args.src \in Seq({1, 2}) /\ args.size \in Nat
      BY <2>4 DEF ArgsFit
    <3>2. 0 \notin {1, 2}
      OBVIOUS
    <3>3. CopiesStay(args.dest, args.src, args.size)
      BY <3>1, CopiesAlwaysStay
    <3>4. ComparesPrefixes(args.dest, args.src, args.size)
      BY <3>1, <3>2, AlwaysComparesPrefixes
    <3> QED
      BY <3>3, <3>4
  <2> QED
    BY <2>1, <2>2, <2>3, <2>4 DEF StringsKept
<1> QED
  BY <1>1, <1>2, <1>3, PTL DEF LibrarySpec
=============================================================================

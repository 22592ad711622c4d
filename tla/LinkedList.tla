----------------------------- MODULE LinkedList -----------------------------
(***************************************************************************)
(* The intrusive doubly linked list of lib/list.c: lists whose nodes are   *)
(* owned by the caller, and move from one list to another.                 *)
(*                                                                         *)
(* The functions trust their caller: a node that is inserted, or given to  *)
(* list_node_init, is in no list, and a node is removed from the list it   *)
(* is in ("it is not checked whether the node is in the list").  The       *)
(* guards say so.  Nodes need not be initialised: their pointers may hold  *)
(* anything at first.                                                      *)
(***************************************************************************)
EXTENDS Integers, Sequences

CONSTANTS List, Node, Null

ASSUME NullAssumption == Null \notin Node

VARIABLES
  first, last, count,  \* the fields of each list
  pre, next,           \* the fields of each node
  order                \* history: the nodes of each list in the promised order

listVars == <<first, last, count>>
nodeVars == <<pre, next>>
vars == <<listVars, nodeVars, order>>

Pointer == Node \cup {Null}

\* list_init
Init ==
  /\ first = [l \in List |-> Null] /\ last = [l \in List |-> Null]
  /\ count = [l \in List |-> 0]
  /\ pre \in [Node -> Pointer] /\ next \in [Node -> Pointer]
  /\ order = [l \in List |-> <<>>]

Elements(s) == {s[i] : i \in 1 .. Len(s)}
InNoList(n) == \A l \in List : n \notin Elements(order[l])

\* s without its i-th element
Without(s, i) == [j \in 1 .. Len(s) - 1 |-> IF j < i THEN s[j] ELSE s[j + 1]]

Empty(l) == count[l] = 0

-----------------------------------------------------------------------------
list_insert_first(l, n) ==
  /\ InNoList(n)
  /\ next' = [next EXCEPT ![n] = first[l]]
  /\ pre' = [m \in Node |-> IF m = n THEN Null
                            ELSE IF ~Empty(l) /\ m = first[l] THEN n ELSE pre[m]]
  /\ first' = [first EXCEPT ![l] = n]
  /\ last' = IF Empty(l) THEN [last EXCEPT ![l] = n] ELSE last
  /\ count' = [count EXCEPT ![l] = @ + 1]
  /\ order' = [order EXCEPT ![l] = <<n>> \o @]

list_insert_last(l, n) ==
  /\ InNoList(n)
  /\ pre' = [pre EXCEPT ![n] = last[l]]
  /\ next' = [m \in Node |-> IF m = n THEN Null
                             ELSE IF ~Empty(l) /\ m = last[l] THEN n ELSE next[m]]
  /\ first' = IF Empty(l) THEN [first EXCEPT ![l] = n] ELSE first
  /\ last' = [last EXCEPT ![l] = n]
  /\ count' = [count EXCEPT ![l] = @ + 1]
  /\ order' = [order EXCEPT ![l] = Append(@, n)]

\* An empty list is left as it is.
list_remove_first(l) ==
  /\ ~Empty(l)
  /\ LET removed == first[l]
     IN /\ first' = [first EXCEPT ![l] = next[removed]]
        /\ last' = IF next[removed] = Null THEN [last EXCEPT ![l] = Null] ELSE last
        /\ pre' = [m \in Node |-> IF m \in {removed, next[removed]} THEN Null ELSE pre[m]]
        /\ next' = [next EXCEPT ![removed] = Null]
  /\ count' = [count EXCEPT ![l] = @ - 1]
  /\ order' = [order EXCEPT ![l] = Without(@, 1)]

\* A mutant: the node after the removed one keeps its pre.
RemoveHalf(l, i) ==
  LET n == order[l][i]
  IN /\ first' = IF n = first[l] THEN [first EXCEPT ![l] = next[n]] ELSE first
     /\ last' = IF n = last[l] THEN [last EXCEPT ![l] = pre[n]] ELSE last
     /\ next' = [m \in Node |-> IF m = n THEN Null
                                ELSE IF m = pre[n] THEN next[n] ELSE next[m]]
     /\ pre' = [pre EXCEPT ![n] = Null]
     /\ count' = [count EXCEPT ![l] = @ - 1]
     /\ order' = [order EXCEPT ![l] = Without(@, i)]

\* The i-th node of the list is removed.
list_remove(l, i) ==
  LET n == order[l][i]
  IN /\ first' = IF n = first[l] THEN [first EXCEPT ![l] = next[n]] ELSE first
     /\ last' = IF n = last[l] THEN [last EXCEPT ![l] = pre[n]] ELSE last
     /\ next' = [m \in Node |-> IF m = n THEN Null
                                ELSE IF m = pre[n] THEN next[n] ELSE next[m]]
     /\ pre' = [m \in Node |-> IF m = n THEN Null
                               ELSE IF m = next[n] THEN pre[n] ELSE pre[m]]
     /\ count' = [count EXCEPT ![l] = @ - 1]
     /\ order' = [order EXCEPT ![l] = Without(@, i)]

list_node_init(n) ==
  /\ InNoList(n)
  /\ pre' = [pre EXCEPT ![n] = Null] /\ next' = [next EXCEPT ![n] = Null]
  /\ UNCHANGED <<listVars, order>>

Next ==
  \/ \E l \in List :
       \/ \E n \in Node : list_insert_first(l, n) \/ list_insert_last(l, n)
       \/ list_remove_first(l)
       \/ \E i \in 1 .. Len(order[l]) : list_remove(l, i)
  \/ \E n \in Node : list_node_init(n)

Spec == Init /\ [][Next]_vars

-----------------------------------------------------------------------------
TypeOK ==
  /\ first \in [List -> Pointer] /\ last \in [List -> Pointer] /\ count \in [List -> Nat]
  /\ pre \in [Node -> Pointer] /\ next \in [Node -> Pointer]
  /\ order \in [List -> Seq(Node)]

\* A node is in one list, once.
Distinct(s) == \A i, j \in 1 .. Len(s) : s[i] = s[j] => i = j
NodesDistinct ==
  /\ \A l \in List : Distinct(order[l])
  /\ \A l, m \in List : l # m => Elements(order[l]) \cap Elements(order[m]) = {}

Linked(s, p, q) ==
  \A i \in 1 .. Len(s) : /\ p[s[i]] = IF i = 1 THEN Null ELSE s[i - 1]
                         /\ q[s[i]] = IF i = Len(s) THEN Null ELSE s[i + 1]
Ends(s, f, t, c) ==
  /\ c = Len(s)
  /\ f = IF Len(s) = 0 THEN Null ELSE s[1]
  /\ t = IF Len(s) = 0 THEN Null ELSE s[Len(s)]

\* The pointers and the count of a list say what the comments of lib/list.c
\* promise of it: first and last are its ends, next leads from each node to the
\* following one and pre back, both end in null, and count is their number,
\* after any calls on any lists.
ListsLinked ==
  \A l \in List : Linked(order[l], pre, next) /\ Ends(order[l], first[l], last[l], count[l])
=============================================================================

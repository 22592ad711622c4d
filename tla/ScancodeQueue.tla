---------------------------- MODULE ScancodeQueue ----------------------------
(***************************************************************************)
(* What the path from the keyboard controller to the tty task promises:    *)
(* a first-in first-out queue of at most Capacity bytes.  A byte offered   *)
(* while the queue is full is lost, silently; no byte is invented,         *)
(* reordered, delivered twice, or lost in any other way.                   *)
(*                                                                         *)
(* The interrupt controller, the interrupt flag, the handlers and the ring *)
(* are not visible here.  KeyboardPath implements this specification.      *)
(***************************************************************************)
EXTENDS Integers, Sequences

CONSTANTS Byte, NoByte, Capacity

VARIABLES
  in,    \* the byte the controller offers, or NoByte
  q,     \* the bytes accepted and not taken yet
  out    \* the last byte taken

vars == <<in, q, out>>

Init == in = NoByte /\ q = <<>> /\ out \in Byte

Offer(c) ==
  /\ in = NoByte
  /\ in' = c
  /\ UNCHANGED <<q, out>>

Accept ==
  /\ in # NoByte
  /\ q' = IF Len(q) < Capacity THEN Append(q, in) ELSE q
  /\ in' = NoByte
  /\ UNCHANGED out

Take ==
  /\ q # <<>>
  /\ out' = Head(q)
  /\ q' = Tail(q)
  /\ UNCHANGED in

Next == (\E c \in Byte : Offer(c)) \/ Accept \/ Take

Spec == Init /\ [][Next]_vars
=============================================================================

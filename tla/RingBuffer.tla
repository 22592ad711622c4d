----------------------------- MODULE RingBuffer -----------------------------
(***************************************************************************)
(* The ring buffer of lib/buffer.c, as operators over a record that holds  *)
(* the fields of buffer_t.  The code has it twice, for bytes (buffer_t,    *)
(* the keyboard ring) and for ints (buffer32_t, the tty rings): the two    *)
(* differ in the type of an element only, so one module stands for both.   *)
(*                                                                         *)
(* data is the array the ring was given, indexed from 0; its size is the   *)
(* size of the array the caller owns, whereas the size FIELD is what       *)
(* buffer_init stored.                                                     *)
(***************************************************************************)
EXTENDS Integers, Sequences

\* buffer_t with no call of buffer_init yet: the object has static storage.
Uninitialised(size, zero) ==
  [data |-> [i \in 0 .. size - 1 |-> zero],
   size |-> 0, read |-> 0, write |-> 0, count |-> 0]

\* Mutants: each comparison off by one.
EmptyBelowZero(b) == b.count < 0
FullBeyondSize(b) == b.count > b.size

BufferEmpty(b) == b.count <= 0
BufferFull(b)  == b.count >= b.size

\* The position a cursor takes after it is incremented.
Wrap(b, position) == IF position >= b.size THEN 0 ELSE position

\* A mutant: a full ring gives up its oldest element.
PutOverwrites(b, c) ==
  [b EXCEPT !.data[b.write] = c,
            !.write = Wrap(b, b.write + 1),
            !.read  = IF BufferFull(b) THEN Wrap(b, b.read + 1) ELSE @,
            !.count = IF BufferFull(b) THEN @ ELSE @ + 1]

\* buffer_put: a full ring is left as it is, and the caller is told -1.
BufferPut(b, c) ==
  IF BufferFull(b)
  THEN b
  ELSE [b EXCEPT !.data[b.write] = c,
                 !.write = Wrap(b, b.write + 1),
                 !.count = b.count + 1]

\* buffer_get: the element at the read position, and the ring without it.
\* On an empty ring the call returns -1 and writes nothing to its result.
BufferFront(b) == b.data[b.read]
BufferGet(b) ==
  IF BufferEmpty(b)
  THEN b
  ELSE [b EXCEPT !.read = Wrap(b, b.read + 1), !.count = b.count - 1]

-----------------------------------------------------------------------------
(* What a ring stands for: the sequence of the count elements from the read *)
(* position on.                                                             *)

Rings(Value, size) ==
  [data : [0 .. size - 1 -> Value], size : {size},
   read : 0 .. size - 1, write : 0 .. size - 1, count : 0 .. size]

\* The index of the i-th element held, i in 1 .. count (count + 1 is the
\* index the next element goes to).
Slot(b, i) ==
  IF b.read + i - 1 < b.size THEN b.read + i - 1 ELSE b.read + i - 1 - b.size

Contents(b) == [i \in 1 .. b.count |-> b.data[Slot(b, i)]]

\* The two positions are count elements apart.
PositionsAgree(b) == b.write = Slot(b, b.count + 1)

WellFormed(b, Value, size) ==
  b \in Rings(Value, size) /\ PositionsAgree(b)
=============================================================================

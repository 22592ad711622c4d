------------------------------- MODULE Bitmap -------------------------------
(***************************************************************************)
(* The bitmap of lib/bitmap.c under any calls.  The bits are those of the  *)
(* whole bytes bitmap_init clears or fills; bit_count of them are in use.  *)
(*                                                                         *)
(* bitmap_get_bit returns the bit where it stands in its byte, 1 << index  *)
(* % 8 and not 1, and bitmap_alloc_nbits compares this with its argument.  *)
(* bitmap_set_bit sets for any value that is not 0, so ~bit, which is -1   *)
(* or -2, sets whatever was looked for.                                    *)
(***************************************************************************)
EXTENDS Integers, Sequences

CONSTANTS BitCounts,  \* the sizes a bitmap is made with
          MaxRun      \* the longest run asked for

ASSUME BitCountsAssumption == BitCounts \subseteq Nat /\ MaxRun \in Nat

VARIABLES bit_count,
          bits,   \* the set of the indices whose bit is 1
          call    \* history: the last call, with the bits before it and its result

bitmapVars == <<bit_count, bits, call>>

bitmap_byte_count(n) == (n + 8 - 1) \div 8

NoCall == [op |-> "init", index |-> 0, count |-> 0, bit |-> 0, before |-> {}, result |-> 0]

\* bitmap_init
BitmapInit ==
  /\ bit_count \in BitCounts
  /\ \E init_bit \in {0, 1} :
       bits = IF init_bit = 0 THEN {} ELSE 0 .. 8 * bitmap_byte_count(bit_count) - 1
  /\ call = NoCall

OneShifted == <<1, 2, 4, 8, 16, 32, 64, 128>>
bitmap_get_bit(index) == IF index \in bits THEN OneShifted[(index % 8) + 1] ELSE 0
bitmap_is_set(index) == IF bitmap_get_bit(index) # 0 THEN 1 ELSE 0

InRun(index, count) == {i \in index .. index + count - 1 : i < bit_count}

\* A mutant: the end of the bitmap is not looked at.
WithBitUnclipped(index, count, bit) ==
  IF bit # 0 THEN bits \cup (index .. index + count - 1) ELSE bits \ (index .. index + count - 1)

\* The bits that bitmap_set_bit leaves.
WithBit(index, count, bit) ==
  IF bit # 0 THEN bits \cup InRun(index, count) ELSE bits \ InRun(index, count)

SetBit(index, count, bit) ==
  /\ bits' = WithBit(index, count, bit)
  /\ call' = [op |-> "set", index |-> index, count |-> count, bit |-> bit,
              before |-> bits, result |-> 0]
  /\ UNCHANGED bit_count

\* Where the loop over i of bitmap_alloc_nbits stops, for a run from s: it looks
\* at count - 1 bits, the first one of which is s itself.
Stops(s, bit, count) ==
  {k \in s .. s + count - 2 : k >= bit_count \/ bitmap_get_bit(k) # bit}
Lowest(S) == CHOOSE k \in S : \A m \in S : k <= m

\* A mutant: the search goes on behind the whole length of the run that failed.
FirstRunStriding(bit, count) ==
  LET from[s \in 0 .. bit_count + count + 1] ==
        IF s >= bit_count THEN -1
        ELSE IF bitmap_get_bit(s) # bit THEN from[s + 1]
        ELSE IF Stops(s, bit, count) = {} THEN s
        ELSE from[s + count]
  IN from[0]

\* The index the search finds, or -1.
FirstRun(bit, count) ==
  LET from[s \in 0 .. bit_count + 1] ==
        IF s >= bit_count THEN -1
        ELSE IF bitmap_get_bit(s) # bit THEN from[s + 1]
        ELSE IF Stops(s, bit, count) = {} THEN s
        ELSE from[Lowest(Stops(s, bit, count)) + 1]
  IN from[0]

\* bitmap_alloc_nbits
AllocNbits(bit, count) ==
  LET found == FirstRun(bit, count)
  IN /\ bits' = IF found = -1 THEN bits ELSE WithBit(found, count, -1 - bit)
     /\ call' = [op |-> "alloc", index |-> 0, count |-> count, bit |-> bit,
                 before |-> bits, result |-> found]
     /\ UNCHANGED bit_count

BitmapNext ==
  \/ \E index \in 0 .. bit_count, count \in 0 .. MaxRun, bit \in {0, 1} : SetBit(index, count, bit)
  \/ \E bit \in {0, 1}, count \in 1 .. MaxRun : AllocNbits(bit, count)

-----------------------------------------------------------------------------
\* Before the call, all bits of the run were in use and equal to bit.
AllWere(bit, run) ==
  run \subseteq 0 .. bit_count - 1 /\ \A k \in run : k \in call.before <=> bit = 1

\* What a search keeps of its promise ("allocate some consecutive bits of the given
\* value, return the first index"): all bits of the run it returns but the last were
\* what was looked for, and the run and no other bit is set; a search that fails
\* changes nothing.  A search for clear bits passes over no run that is long enough,
\* and fails only when there is none.  The code does not keep the rest: the last bit
\* of a run is not looked at, so it may be in use or behind the end, and a search for
\* bits that are set fails where there is a run of them.
AllocTakesRun ==
  call.op = "alloc" =>
    LET found == call.result
        run == InRun(found, call.count)
        Enough(s) == AllWere(0, s .. s + call.count - 1)
    IN /\ IF found = -1 THEN bits = call.before
          ELSE /\ AllWere(call.bit, {found} \cup (found .. found + call.count - 2))
               /\ bits \ run = call.before \ run /\ \A k \in run : bitmap_is_set(k) = 1
       /\ call.bit = 0 =>
            \A s \in 0 .. bit_count - 1 : found = -1 \/ s < found => ~Enough(s)
=============================================================================

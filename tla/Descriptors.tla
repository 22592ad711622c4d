---------------------------- MODULE Descriptors ----------------------------
(***************************************************************************)
(* The packing of segment descriptors (cpu/gdt.c) and of interrupt gates   *)
(* (interupt/idt.c).  A number is the set of its bits that are 1, so a     *)
(* field that is shifted and masked is a set that is shifted and cut, and  *)
(* 64 bits are no wider than 16.                                           *)
(***************************************************************************)
EXTENDS Integers

Bits(f, l) == f .. l
Shift(bits, n) == {b + n : b \in bits}
Field(bits, f, l) == Shift(bits \cap Bits(f, l), -f)

\* A mutant: the division by 0x1000 is forgotten.
SetUndivided(base, limit, attr) ==
  LET long == \E b \in limit : b > 19
  IN (limit \cap Bits(0, 15))
       \cup Shift(base \cap Bits(0, 23), 16)
       \cup Shift(attr \cup (IF long THEN {15} ELSE {}) \cup Shift(limit \cap Bits(16, 19), -8), 40)
       \cup Shift(base \cap Bits(24, 31), 32)

\* The fields of gdt_entry_t; base and limit are sets of bits of 0 .. 31.
\* A limit of more than 20 bits is divided by 0x1000, and bit 15 set.
gdt_entry_set(base, limit, attr) ==
  LET long == \E b \in limit : b > 19
      units == IF long THEN Field(limit, 12, 31) ELSE limit
      attrs == attr \cup (IF long THEN {15} ELSE {})
  IN (units \cap Bits(0, 15))
       \cup Shift(base \cap Bits(0, 23), 16)
       \cup Shift(attrs \cup Shift(units \cap Bits(16, 19), -8), 40)
       \cup Shift(base \cap Bits(24, 31), 32)

\* How the processor reads it: the base, and the last byte of the segment.
SegmentBase(d) == Field(d, 16, 39) \cup Shift(Field(d, 56, 63), 24)
SegmentLast(d) ==
  LET limit == Field(d, 0, 15) \cup Shift(Field(d, 48, 51), 16)
  IN IF 55 \in d THEN Shift(limit, 12) \cup Bits(0, 11) ELSE limit
SegmentAttr(d) == Field(d, 40, 47) \cup Shift(Field(d, 52, 55), 12)

\* The bits of an attribute.
Present == {7}
UserLevel == {5, 6}
Normal == {4}
CodeSegment == {3}
ReadWrite == {1}
Long == {13}

Flat(attr) == gdt_entry_set({}, Bits(0, 31), attr)

\* What init_gdt leaves in the entries that have a selector, all 128 entries
\* having been cleared.
KernelGdt ==
  LET data == Present \cup Normal \cup ReadWrite \cup Long
      code == data \cup CodeSegment
  IN [i \in 0 .. 127 |->
       CASE i = 1            -> Flat(code)
         [] i = 3            -> Flat(code \cup UserLevel)
         [] i = 4            -> Flat(data \cup UserLevel)
         [] i \in {2, 5, 6, 7} -> Flat(data)
         [] OTHER            -> gdt_entry_set({}, {}, {})]

\* The 16 bytes of idt_entry_t that init_idt_entry stores.
init_idt_entry(selector, offset, ist, attr) ==
  (offset \cap Bits(0, 15)) \cup Shift(selector, 16) \cup Shift(ist, 32)
    \cup Shift(attr, 40) \cup Shift(Field(offset, 16, 31), 48)
    \cup Shift(Field(offset, 32, 63), 64)

\* GATE_P_PRESENT | GATE_DPL0 | GATE_TYPE_INTERRUPT, and SELECTOR_KERNEL_CODE
InterruptGate(offset) == init_idt_entry({3}, offset, {}, {1, 2, 3, 7})

GateOffset(g) == Field(g, 0, 15) \cup Shift(Field(g, 48, 95), 16)
GateSelector(g) == Field(g, 16, 31)
IsInterruptGate(g) == Field(g, 40, 47) = {1, 2, 3, 7} /\ Field(g, 32, 34) = {}
=============================================================================

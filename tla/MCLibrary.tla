----------------------------- MODULE MCLibrary -----------------------------
(***************************************************************************)
(* The parts of the kernel that are called and do not run: the lists and   *)
(* the bitmap of lib/, which keep state, and the functions of cpu/gdt.c,   *)
(* interupt/idt.c, device/printk.c and lib/klib.c, which map arguments to  *)
(* results.  They share nothing, so one part is exercised at a time: a     *)
(* list or the bitmap by any sequence of calls, a function by one call     *)
(* with any of the arguments below.                                        *)
(***************************************************************************)
EXTENDS LinkedList, Bitmap, Descriptors, Strings, FiniteSets

VARIABLES part,  \* the part that is exercised
          args   \* the arguments of the function that is called

allVars == <<vars, bitmapVars, part, args>>

\* Bases and limits of segments with their bits on both sides of the fields' borders.
Edges == {0, 11, 12, 15, 16, 19, 20, 23, 24, 31}
BaseEdges == {0, 15, 16, 23, 24, 31}
SegmentArgs == [base : SUBSET BaseEdges, limit : {Bits(0, n) : n \in Edges} \cup SUBSET {11, 12, 19, 20},
                attr : SUBSET {1, 7, 13, 15}]
GateArgs == [offset : SUBSET {0, 15, 16, 31, 32, 47, 63}]
NumberArgs == [conv : Numeric, flags : SUBSET {"LEFT", "PLUS", "SPACE", "SPECIAL", "ZEROPAD"},
               width : {-6, -1, 2, 7}, precision : {-3, -1, 2, 4}, qualifier : {"", "l"},
               arg : {0, 1, 7, 8, 9, 10, 15, 16, 31, 32, 63} \cap 0 .. 2 * LongHalf - 1]
TextArgs == [conv : {"c", "s"}, flags : SUBSET {"LEFT", "ZEROPAD"}, width : {-6, -1, 0, 2, 7},
             precision : {-3, -1, 0, 2, 4}, text : {<<"a">>, <<"a", "b", "c">>}, arg : {0}, qualifier : {""}]
Texts == UNION {[1 .. n -> {1, 2}] : n \in 0 .. 3}
ItoaArgs == [num : -IntHalf .. IntHalf - 1, base : {2, 8, 10, 16}]
MoveArgs == {a \in [dest : 0 .. 4, src : 0 .. 4, size : 0 .. 5] :
               a.dest + a.size <= 5 /\ a.src + a.size <= 5}
StringArgs == [dest : Texts, src : Texts, size : 0 .. 4]

Idle == <<>>
ListsIdle ==
  /\ first = [l \in List |-> Null] /\ last = first /\ count = [l \in List |-> 0]
  /\ pre = [n \in Node |-> Null] /\ next = pre /\ order = [l \in List |-> <<>>]
BitmapIdle == bit_count = 0 /\ bits = {} /\ call = NoCall

LibraryInit ==
  \/ part = "lists" /\ Init /\ BitmapIdle /\ args = Idle
  \/ part = "bitmap" /\ BitmapInit /\ ListsIdle /\ args = Idle
  \/ /\ ListsIdle /\ BitmapIdle
     /\ \/ part = "segment" /\ args \in SegmentArgs
        \/ part = "gate" /\ args \in GateArgs
        \/ part = "number" /\ args \in NumberArgs /\ ~ReadAsSigned(args)
        \/ part = "text" /\ args \in TextArgs
        \/ part = "itoa" /\ args \in ItoaArgs
        \/ part = "move" /\ args \in MoveArgs
        \/ part = "strings" /\ args \in StringArgs

LibraryNext ==
  /\ UNCHANGED <<part, args>>
  /\ \/ part = "lists" /\ Next /\ UNCHANGED bitmapVars
     \/ part = "bitmap" /\ BitmapNext /\ UNCHANGED vars

LibrarySpec == LibraryInit /\ [][LibraryNext]_allVars

-----------------------------------------------------------------------------
\* What the processor reads out of a descriptor of gdt_entry_set is the base and
\* the attributes that were asked for, and a segment that holds the last byte
\* asked for and, if it is longer, ends in the same 4 KB.  A gate of
\* init_idt_entry leads to its handler, with interrupts disabled on entry.
DescriptorsFaithful ==
  /\ part = "segment" =>
       LET d == gdt_entry_set(args.base, args.limit, args.attr)
           long == \E b \in args.limit : b > 19
       IN /\ SegmentBase(d) = args.base
          /\ args.attr \subseteq SegmentAttr(d) /\ SegmentAttr(d) \subseteq args.attr \cup {15}
          /\ long => SegmentLast(d) = (args.limit \cap Bits(12, 31)) \cup Bits(0, 11)
          /\ ~long /\ 15 \notin args.attr => SegmentLast(d) = args.limit
  /\ part = "gate" =>
       LET g == InterruptGate(args.offset)
       IN GateOffset(g) = args.offset /\ GateSelector(g) = {3} /\ IsInterruptGate(g)

\* Every directive of vsprintf prints what it denotes, on the width and with the
\* precision its flags ask for (NumberPrinted and TextPrinted say how).
FormatFaithful ==
  /\ part = "number" => NumberPrinted(args)
  /\ part = "text" => TextPrinted(args)

\* What lib/klib.c keeps of its promises: numbers read back, its formatter prints
\* what that of device/printk.c prints, copies arrive, stores stay within one byte
\* of the destination, a comparison stops where a string ends and finds a difference
\* among the first size characters.
StringsKept ==
  /\ part \in {"number", "text"} => FormattersAgree(args)
  /\ part = "itoa" => ItoaReadsBack(args.num, args.base)
  /\ part = "move" => MemcpyMoves([i \in 0 .. 4 |-> i], args.dest, args.src, args.size)
  /\ part = "strings" => /\ CopiesStay(args.dest, args.src, args.size)
                         /\ ComparesPrefixes(args.dest, args.src, args.size)
=============================================================================

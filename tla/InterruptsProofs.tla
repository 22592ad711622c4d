-------------------------- MODULE InterruptsProofs --------------------------
(***************************************************************************)
(* Proofs about Interrupts, for any lines, masks, exceptions, delays and    *)
(* widths, in three invariants.                                            *)
(*                                                                         *)
(* Inv: what a handler that comes back leaves behind.  The flag is clear in *)
(* every handler, so that no line interrupts one (FlagClear); a second     *)
(* frame is therefore of an exception or an NMI, whose handler reports and *)
(* never returns (NestedReport); what is left is one frame, of the timer   *)
(* or the keyboard, over a task that is as it was (TaskKept).              *)
(*                                                                         *)
(* Prepared: what the start has done when it has come to a step            *)
(* (MachineInv), so that the flag is set in a kernel that is ready only,    *)
(* and every frame has its reason (FramesExplained).                       *)
(*                                                                         *)
(* DelayCounted: the ticks that milli_delay waits for.                     *)
(***************************************************************************)
EXTENDS Interrupts, NaturalOrder, TLAPS

Frame == [cause : 0 .. 17, vector : Nat, told : BOOLEAN]

TypesOK ==
  /\ frames \in Seq(Frame)
  /\ depth \in Int /\ irr \subseteq 0 .. 15

FlagClear == frames = <<>> \/ ~intr
NestedReport == \A i \in DOMAIN frames : i > 1 => Handler(frames[i].vector) = "report"
BufferOwned == doing \in {"print", "glyph"} => buf = "task"
TaskKept ==
  /\ frames = <<>> => depth = Called(doing) /\ BufferOwned
  /\ Len(frames) = 1 /\ Handler(frames[1].vector) # "report"
       => depth = Called(doing) + 20 /\ BufferOwned

Inv == TypesOK /\ FlagClear /\ NestedReport /\ TaskKept

-----------------------------------------------------------------------------
(* Natural numbers. *)

LEMMA Remainder ==
  ASSUME NEW w \in Nat \ {0}, NEW q \in Int, NEW r \in 0 .. w - 1
  PROVE  (w * q + r) % w = r
  OBVIOUS

LEMMA Quotient ==
  ASSUME NEW w \in Nat \ {0}, NEW a \in Int
  PROVE  a = w * (a \div w) + (a % w) /\ a \div w \in Int /\ a % w \in 0 .. w - 1
  OBVIOUS

LEMMA NextRemainder ==
  ASSUME NEW w \in Nat \ {0}, NEW a \in Int
  PROVE  ((a % w) + 1) % w = (a + 1) % w
<1> DEFINE q == a \div w
           r == a % w
<1>1. a = w * q + r /\ q \in Int /\ r \in 0 .. w - 1
  BY Quotient
<1> HIDE DEF q, r
<1>2. CASE r < w - 1
  <2>1. a + 1 = w * q + (r + 1)
    BY <1>1
  <2>2. (a + 1) % w = r + 1
    BY <1>1, <1>2, <2>1, Remainder
  <2> QED BY <1>1, <1>2, <2>2 DEF r
<1>3. CASE r = w - 1
  <2>1. a + 1 = w * (q + 1) + 0
    BY <1>1, <1>3
  <2>2. (a + 1) % w = 0
    BY <1>1, <1>3, <2>1, Remainder
  <2> QED BY <1>1, <1>3, <2>2 DEF r
<1> QED
  BY <1>1, <1>2, <1>3

\* What went round the counter can only make the difference smaller.
LEMMA DifferenceAtMost ==
  ASSUME NEW w \in Nat \ {0}, NEW b \in Nat, NEW p \in Nat
  PROVE  /\ (((b + p) % w) - b) % w \in Nat
         /\ (((b + p) % w) - b) % w <= p
<1> DEFINE q == (b + p) \div w
           r == (b + p) % w
           k == p \div w
           s == p % w
<1>0. b + p \in Int
  OBVIOUS
<1>1. b + p = w * q + r /\ q \in Int /\ r \in 0 .. w - 1
  BY <1>0, Quotient
<1>2. p = w * k + s /\ k \in Int /\ s \in 0 .. w - 1
  BY Quotient
<1>3. k >= 0 /\ s <= p
  BY <1>2
<1> HIDE DEF q, r, k, s
<1>4. r - b = w * (k - q) + s
  BY <1>1, <1>2
<1>5. (r - b) % w = s
  BY <1>2, <1>4, <1>1, Remainder
<1> QED
  BY <1>2, <1>3, <1>5 DEF r

-----------------------------------------------------------------------------
(* The 8259A and the frames. *)

\* Some line has the highest priority.
LEMMA FirstOfLines ==
  ASSUME NEW lines \in SUBSET (0 .. 15), lines # {}
  PROVE  First(lines) \in lines
<1> DEFINE Ranks == {Rank(l) : l \in lines}
<1>1. \A l \in lines : Rank(l) \in Nat
  BY DEF Rank, CASCADE, Slave
<1>2. Ranks \in SUBSET Nat /\ Ranks # {}
  BY <1>1
<1>3. PICK least \in Ranks : \A r \in Ranks : least <= r
  <2> HIDE DEF Ranks
  <2> QED
    BY <1>2, LeastNatural
<1>4. PICK l \in lines : Rank(l) = least
  OBVIOUS
<1>5. \A k \in lines : Rank(l) <= Rank(k)
  BY <1>3, <1>4
<1> QED
  BY <1>5 DEF First

LEMMA VectorsOfLines == \A l \in 0 .. 15 : VectorOf(l) \in Nat
  BY DEF VectorOf, Slave

\* A frame whose handler comes back has no error code.
LEMMA PushedForLine ==
  ASSUME NEW v, Handler(v) # "report"
  PROVE  Pushed(v) + Saved = 20
  BY DEF Handler, Pushed, HasErrorCode, Saved

\* The first frame is pushed over a task that is as it was; a further one is of
\* a handler that reports.
LEMMA EnterInv ==
  ASSUME Inv, NEW v \in Nat, NEW cause \in 0 .. 17, Enter(v, cause),
         frames = <<>> \/ Handler(v) = "report", irr' \subseteq 0 .. 15
  PROVE  Inv'
<1> DEFINE f == [cause |-> cause, vector |-> v, told |-> FALSE]
<1>1. f \in Frame
  BY DEF Frame
<1>2. frames' = Append(frames, f) /\ depth' = depth + Pushed(v) + Saved /\ ~intr'
      /\ doing' = doing /\ buf' = buf
  BY DEF Enter
<1>3. TypesOK'
  BY <1>1, <1>2 DEF Inv, TypesOK, Pushed, Saved
<1>4. FlagClear'
  BY <1>2 DEF FlagClear
<1> HIDE DEF f
<1>5. /\ Len(frames') = Len(frames) + 1 /\ frames'[Len(frames')] = f
      /\ \A i \in 1 .. Len(frames) : frames'[i] = frames[i]
      /\ DOMAIN frames' = 1 .. Len(frames') /\ Len(frames) \in Nat
      /\ DOMAIN frames = 1 .. Len(frames) /\ (Len(frames) = 0 <=> frames = <<>>)
  BY <1>1, <1>2 DEF Inv, TypesOK
<1>6. f.vector = v
  BY DEF f
<1>7. NestedReport'
  BY <1>5, <1>6 DEF Inv, NestedReport
<1>8. TaskKept'
  <2>1. frames' # <<>>
    BY <1>5, <1>3 DEF TypesOK
  <2>2. ASSUME Len(frames') = 1, Handler(frames'[1].vector) # "report"
        PROVE  depth' = Called(doing)' + 20 /\ BufferOwned'
    <3>1. frames = <<>> /\ Pushed(v) + Saved = 20
      BY <2>2, <1>5, <1>6, PushedForLine
    <3>2. depth = Called(doing) /\ BufferOwned /\ Called(doing)' = Called(doing)
      BY <3>1, <1>2 DEF Inv, TaskKept
    <3>3. BufferOwned'
      BY <3>2, <1>2 DEF BufferOwned
    <3>4. depth' = depth + (Pushed(v) + Saved)
      BY <1>2 DEF Inv, TypesOK, Pushed, Saved
    <3> QED
      BY <3>1, <3>2, <3>3, <3>4
  <2> QED
    BY <2>1, <2>2 DEF TaskKept
<1> QED
  BY <1>3, <1>4, <1>7, <1>8 DEF Inv

\* The handlers of the timer and of the keyboard return to the task.
LEMMA ReturnsToTask ==
  ASSUME Inv, Return, frames # <<>>, Handler(Last(frames).vector) # "report"
  PROVE  Len(frames) = 1 /\ frames' = <<>> /\ Last(frames) = frames[1] /\ DOMAIN frames = {1}
<1>1. Len(frames) \in Nat \ {0} /\ DOMAIN frames = 1 .. Len(frames)
  BY DEF Inv, TypesOK
<1>2. Len(frames) = 1
  BY <1>1 DEF Inv, NestedReport, Last
<1> QED
  BY <1>1, <1>2 DEF Return, Front, Last, Inv, TypesOK

\* The handlers of the timer and of the keyboard take their frame away.
LEMMA ReturnInv ==
  ASSUME Inv, Return, frames # <<>>, Handler(Last(frames).vector) # "report"
  PROVE  Inv'
<1>1. Len(frames) = 1 /\ frames' = <<>> /\ Handler(frames[1].vector) # "report"
  BY ReturnsToTask
<1>2. depth = Called(doing) + 20 /\ BufferOwned
  BY <1>1 DEF Inv, TaskKept
<1>3. depth' = depth - 20 /\ doing' = doing /\ buf' = buf /\ irr' = irr
  BY DEF Return, Restored, Popped, Inv, TypesOK
<1>4. Called(doing) \in Int
  BY DEF Called
<1>5. depth' = Called(doing)' /\ BufferOwned'
  BY <1>2, <1>3, <1>4 DEF BufferOwned, Called
<1>6. TypesOK' /\ FlagClear' /\ NestedReport'
  BY <1>1, <1>3 DEF Inv, TypesOK, FlagClear, NestedReport
<1>7. TaskKept'
  BY <1>1, <1>5 DEF TaskKept
<1> QED
  BY <1>6, <1>7 DEF Inv

-----------------------------------------------------------------------------
(* The steps. *)

\* A step of the start or of a device, which leaves frames and task alone.
LEMMA OtherStepInv ==
  ASSUME Inv, UNCHANGED <<frames, depth, doing, buf>>, irr' \subseteq 0 .. 15, FlagClear'
  PROVE  Inv'
<1>1. TypesOK' /\ NestedReport'
  BY DEF Inv, TypesOK, NestedReport
<1>2. TaskKept'
  BY DEF Inv, TaskKept, BufferOwned, Called
<1> QED
  BY <1>1, <1>2 DEF Inv

LEMMA BootStepInv == Inv /\ BootStep => Inv'
<1> SUFFICES ASSUME Inv, BootStep PROVE Inv'
  OBVIOUS
<1>1. frames = <<>> /\ UNCHANGED <<frames, depth, taskVars>>
  BY DEF BootStep, StartsUp, init_idt, init_8259A, Inits, irq_enable_global, KernelStep
<1>2. irr' = irr \/ irr' = {}
  BY DEF BootStep, StartsUp, init_idt, init_8259A, Inits, irq_enable_global, picVars
<1>3. FlagClear' /\ irr' \subseteq 0 .. 15
  BY <1>1, <1>2 DEF FlagClear, Inv, TypesOK
<1> QED
  BY <1>1, <1>3, OtherStepInv DEF taskVars

LEMMA AcknowledgeInv == Inv /\ Acknowledge => Inv'
<1> SUFFICES ASSUME Inv, Acknowledge PROVE Inv'
  OBVIOUS
<1> DEFINE open == Deliverable(irr, isr, imr)
           l    == First(open)
<1>1. frames = <<>>
  BY DEF Inv, FlagClear, Acknowledge
<1>2. open \in SUBSET (0 .. 15) /\ irr \subseteq 0 .. 15
  BY DEF Inv, TypesOK, Deliverable
<1>3. CASE open # {}
  <2>1. irr' = irr \ {l} /\ Enter(VectorOf(l), l)
    BY <1>3 DEF Acknowledge
  <2>2. l \in 0 .. 15
    <3> HIDE DEF open
    <3> QED
      BY <1>2, <1>3, FirstOfLines
  <2> HIDE DEF l
  <2>3. VectorOf(l) \in Nat /\ l \in 0 .. 17 /\ irr' \subseteq 0 .. 15
    BY <2>1, <2>2, <1>2, VectorsOfLines
  <2> QED
    BY <1>1, <2>1, <2>3, EnterInv
<1>4. CASE open = {}
  <2>1. irr' = irr /\ Enter(VectorOf(7), SPURIOUS)
    BY <1>4 DEF Acknowledge
  <2>2. VectorOf(7) \in Nat /\ SPURIOUS \in 0 .. 17
    BY VectorsOfLines DEF SPURIOUS
  <2> QED
    BY <1>1, <1>2, <2>1, <2>2, EnterInv
<1> QED
  BY <1>3, <1>4

\* An exception or an NMI, wherever it comes.
LEMMA ExceptionInv ==
  ASSUME Inv, NEW v \in 0 .. 31, Enter(v, EXCEPTION), UNCHANGED irr
  PROVE  Inv'
<1>1. Handler(v) = "report" /\ v \in Nat /\ EXCEPTION \in 0 .. 17
  BY DEF Handler, EXCEPTION
<1> QED
  BY <1>1, EnterInv DEF Inv, TypesOK

LEMMA HandlerStepInv == Inv /\ HandlerStep => Inv'
<1> SUFFICES ASSUME Inv, HandlerStep PROVE Inv'
  OBVIOUS
<1>1. CASE do_handler_timer \/ do_handler_keyboard
  <2>1. frames # <<>> /\ Handler(Last(frames).vector) # "report" /\ Return
    BY <1>1 DEF do_handler_timer, do_handler_keyboard, Handling
  <2> QED
    BY <2>1, ReturnInv
<1>2. CASE Report
  <2> DEFINE n == Len(frames)
  <2>1. /\ frames # <<>> /\ frames' = [frames EXCEPT ![n].told = TRUE]
        /\ Handler(Last(frames).vector) = "report"
        /\ UNCHANGED <<intr, irr, depth, doing>>
    BY <1>2 DEF Report, Handling, startVars, picVars
  <2>2. n \in Nat \ {0} /\ n \in DOMAIN frames /\ DOMAIN frames = 1 .. n /\ frames[n] \in Frame
        /\ Last(frames) = frames[n]
    BY <2>1 DEF Inv, TypesOK, Last
  <2>3. /\ frames' \in Seq(Frame) /\ Len(frames') = n
        /\ \A i \in DOMAIN frames : frames'[i].vector = frames[i].vector
    <3>1. PICK e \in Frame : e.vector = frames[n].vector /\ frames' = [frames EXCEPT ![n] = e]
      <4>1. [frames[n] EXCEPT !.told = TRUE] \in Frame
            /\ [frames[n] EXCEPT !.told = TRUE].vector = frames[n].vector
        BY <2>2 DEF Frame
      <4> QED
        BY <2>1, <4>1
    <3> QED
      BY <2>2, <3>1 DEF Inv, TypesOK
  <2>4. TypesOK' /\ FlagClear'
    BY <2>1, <2>2, <2>3 DEF Inv, TypesOK, FlagClear
  <2>5. NestedReport'
    BY <2>2, <2>3 DEF Inv, NestedReport
  <2>6. TaskKept'
    <3>1. frames' # <<>>
      BY <2>2, <2>3
    <3>2. Len(frames') = 1 => Handler(frames'[1].vector) = "report"
      BY <2>1, <2>2, <2>3
    <3> QED
      BY <3>1, <3>2 DEF TaskKept
  <2> QED
    BY <2>4, <2>5, <2>6 DEF Inv
<1>3. CASE DumpRegs
  <2>1. UNCHANGED <<frames, depth, doing, buf, intr, irr>>
    BY <1>3 DEF DumpRegs, picVars, taskVars
  <2>2. FlagClear' /\ irr' \subseteq 0 .. 15
    BY <2>1 DEF Inv, FlagClear, TypesOK
  <2> QED
    BY <2>1, <2>2, OtherStepInv
<1>4. CASE DumpRegsFaults
  BY <1>4, ExceptionInv DEF DumpRegsFaults
<1> QED
  BY <1>1, <1>2, <1>3, <1>4 DEF HandlerStep

\* A step of the task itself.
LEMMA TaskMoves ==
  ASSUME Inv, NEW from, NEW to, Task(from, to),
         to \in {"print", "glyph"} => buf' = "task"
  PROVE  Inv'
<1>1. frames = <<>> /\ frames' = <<>> /\ doing = from /\ doing' = to /\ irr' = irr
      /\ depth' = depth + Called(to) - Called(from)
  BY DEF Task, InTask
<1>2. depth = Called(from) /\ Called(from) \in Int /\ Called(to) \in Int
  BY <1>1 DEF Inv, TaskKept, Called
<1>3. depth' = Called(to)
  BY <1>1, <1>2
<1>4. TypesOK' /\ FlagClear' /\ NestedReport'
  BY <1>1, <1>2, <1>3 DEF Inv, TypesOK, FlagClear, NestedReport
<1>5. TaskKept'
  BY <1>1, <1>3 DEF TaskKept, BufferOwned, Called
<1> QED
  BY <1>4, <1>5 DEF Inv

LEMMA TaskStepInv == Inv /\ TaskStep => Inv'
<1> SUFFICES ASSUME Inv, TaskStep PROVE Inv'
  OBVIOUS
<1>0. InTask /\ doing \in {"print", "glyph"} => buf = "task"
  BY DEF InTask, Inv, TaskKept, BufferOwned
<1>1. CASE kprintf
  BY <1>1, TaskMoves DEF kprintf
<1>2. CASE PrintDone
  BY <1>2, TaskMoves DEF PrintDone
<1>3. CASE putchar
  <2>1. Task("print", "glyph") /\ buf' = buf /\ InTask /\ doing = "print"
    BY <1>3 DEF putchar, Task
  <2> QED
    BY <1>0, <2>1, TaskMoves
<1>4. CASE PutcharDone
  <2>1. Task("glyph", "print") /\ buf' = buf /\ InTask /\ doing = "glyph"
    BY <1>4 DEF PutcharDone, Task
  <2> QED
    BY <1>0, <2>1, TaskMoves
<1>5. CASE PutcharFaults
  BY <1>5, ExceptionInv DEF PutcharFaults
<1>6. CASE Poll
  BY <1>6, TaskMoves DEF Poll
<1>7. CASE WriteMask
  BY <1>7, TaskMoves DEF WriteMask
<1>8. ASSUME NEW flag \in BOOLEAN, SetFlag(flag) PROVE Inv'
  BY <1>8, TaskMoves DEF SetFlag
<1>9. ASSUME NEW op \in {"enable", "disable"}, NEW v \in Calls, ReadMask(op, v) PROVE Inv'
  BY <1>9, TaskMoves DEF ReadMask
<1>10. ASSUME NEW ms \in Delays \cup {-1}, milli_delay(ms) PROVE Inv'
  BY <1>10, TaskMoves DEF milli_delay
<1>11. ASSUME NEW v \in Faults, Fault(v) PROVE Inv'
  BY <1>11, ExceptionInv, LinesAssumption DEF Fault
<1> QED
  BY <1>1, <1>2, <1>3, <1>4, <1>5, <1>6, <1>7, <1>8, <1>9, <1>10, <1>11 DEF TaskStep

LEMMA NextInv == Inv /\ [Next]_vars => Inv'
<1> SUFFICES ASSUME Inv, [Next]_vars PROVE Inv'
  OBVIOUS
<1>1. CASE Nmi
  BY <1>1, ExceptionInv DEF Nmi
<1>2. ASSUME NEW l \in Raised, Raise(l) PROVE Inv'
  <2>1. UNCHANGED <<frames, depth, doing, buf, intr>> /\ irr' = irr \cup {l}
    BY <1>2 DEF Raise, startVars, taskVars
  <2>2. FlagClear' /\ irr' \subseteq 0 .. 15
    BY <2>1, LinesAssumption DEF Inv, FlagClear, TypesOK
  <2> QED
    BY <2>1, <2>2, OtherStepInv
<1>3. CASE UNCHANGED vars
  <2>1. UNCHANGED <<frames, depth, doing, buf, intr, irr>>
    BY <1>3 DEF vars, startVars, picVars, cpuVars, taskVars
  <2>2. FlagClear' /\ irr' \subseteq 0 .. 15
    BY <2>1 DEF Inv, FlagClear, TypesOK
  <2> QED
    BY <2>1, <2>2, OtherStepInv
<1> QED
  BY <1>1, <1>2, <1>3, BootStepInv, HandlerStepInv, TaskStepInv, AcknowledgeInv DEF Next

LEMMA InitInv == Init => Inv
<1> SUFFICES ASSUME Init PROVE Inv
  OBVIOUS
<1>1. frames = <<>> /\ depth = 0 /\ doing = "idle" /\ irr = {}
  BY DEF Init
<1> QED
  BY <1>1 DEF Inv, TypesOK, FlagClear, NestedReport, TaskKept, BufferOwned, Called

LEMMA InvAlways == Spec => []Inv
  BY InitInv, NextInv, PTL DEF Spec

-----------------------------------------------------------------------------
\* However many interrupts of whatever lines a task has seen, its stack is as
\* deep as its own calls make it.
THEOREM StackAlwaysBalanced == Spec => []StackBalanced
<1>1. Inv => StackBalanced
  BY DEF Inv, TaskKept, StackBalanced, InTask
<1> QED
  BY <1>1, InvAlways, PTL

\* A task that prints finds its own text in the buffer of kprintf, whatever the
\* handlers print.
THEOREM PrintsAlwaysWhole == Spec => []PrintNotResumed
<1>1. Inv => PrintNotResumed
  BY DEF Inv, TaskKept, BufferOwned, PrintNotResumed, InTask
<1> QED
  BY <1>1, InvAlways, PTL

-----------------------------------------------------------------------------
(* Descriptors and page tables of the start. *)

\* The bits of the attribute of a flat segment, above its limit.
LEMMA FlatBits ==
  ASSUME NEW attr \in SUBSET (0 .. 15), NEW b \in 40 .. 47 \cup {53, 54}
  PROVE  b \in Flat(attr) <=> b - 40 \in attr
<1>1. \E x \in Bits(0, 31) : x > 19
  BY DEF Bits
<1>2. Field(Bits(0, 31), 12, 31) = 0 .. 19
  <2>1. ASSUME NEW x \in 0 .. 19 PROVE x \in Field(Bits(0, 31), 12, 31)
    <3>1. x + 12 \in Bits(0, 31) \cap Bits(12, 31) /\ x = (x + 12) + (-12)
      BY <2>1 DEF Bits
    <3> QED
      BY <3>1 DEF Field, Shift
  <2>2. ASSUME NEW x \in Field(Bits(0, 31), 12, 31) PROVE x \in 0 .. 19
    BY <2>2 DEF Field, Shift, Bits
  <2> QED
    BY <2>1, <2>2
<1> DEFINE high == attr \cup {15} \cup Shift((0 .. 19) \cap Bits(16, 19), -8)
<1>3. Flat(attr) = ((0 .. 19) \cap Bits(0, 15)) \cup Shift({} \cap Bits(0, 23), 16)
                     \cup Shift(high, 40) \cup Shift({} \cap Bits(24, 31), 32)
  BY <1>1, <1>2 DEF Flat, gdt_entry_set
<1>4. b \in Flat(attr) <=> b \in Shift(high, 40)
  BY <1>3 DEF Shift, Bits
<1>5. high \in SUBSET Int
  <2>1. Shift((0 .. 19) \cap Bits(16, 19), -8) \subseteq Int
    BY DEF Shift, Bits
  <2>2. ASSUME NEW x \in high PROVE x \in Int
    BY <2>1, <2>2
  <2> QED
    BY <2>2
<1>6. b \in Shift(high, 40) <=> b - 40 \in high
  <2> HIDE DEF high
  <2> QED
    BY <1>5 DEF Shift
<1>7. b - 40 \in high <=> b - 40 \in attr
  BY DEF Shift, Bits
<1> QED
  BY <1>4, <1>6, <1>7

\* What init_gdt gives the kernel's code and its data and stack.
LEMMA KernelDescriptors ==
  /\ IsCode64(Entry(KernelGdt, 8))
  /\ \A sel \in {16, 48, 56} : IsData(Entry(KernelGdt, sel))
<1> DEFINE data == Present \cup Normal \cup ReadWrite \cup Long
           code == data \cup CodeSegment
<1>1. data = {7, 4, 1, 13} /\ code = {7, 4, 1, 13, 3}
  BY DEF Present, Normal, ReadWrite, Long, CodeSegment
<1>2. data \in SUBSET (0 .. 15) /\ code \in SUBSET (0 .. 15)
  BY <1>1
<1>3. Entry(KernelGdt, 8) = Flat(code)
  <2>1. 8 \div 8 = 1
    OBVIOUS
  <2> HIDE DEF data
  <2> QED
    BY <2>1 DEF Entry, KernelGdt, data
<1>4. ASSUME NEW sel \in {16, 48, 56} PROVE Entry(KernelGdt, sel) = Flat(data)
  <2>1. sel \div 8 \in {2, 6, 7}
    OBVIOUS
  <2> QED
    BY <2>1 DEF Entry, KernelGdt
<1> HIDE DEF data, code
<1>5. IsCode64(Flat(code))
  BY <1>1, <1>2, FlatBits DEF IsCode64, IsCode
<1>6. IsData(Flat(data))
  BY <1>1, <1>2, FlatBits DEF IsData
<1> QED
  BY <1>3, <1>4, <1>5, <1>6

\* The two tables of the loader.
LEMMA LoaderDescriptors ==
  /\ IsCode(Entry(Gdt32, 8)) /\ IsData(Entry(Gdt32, 16))
  /\ IsCode64(Entry(Gdt64, 8)) /\ IsData(Entry(Gdt64, 16))
<1>1. 8 \div 8 = 1 /\ 16 \div 8 = 2
  OBVIOUS
<1>2. Entry(Gdt64, 8) = {43, 44, 47, 53} /\ Entry(Gdt64, 16) = {41, 44, 47}
  BY <1>1 DEF Entry, Gdt64
<1>3. Entry(Gdt32, 16) = Bits(0, 15) \cup {41, 44, 47} \cup Bits(48, 51) \cup {54, 55}
  BY <1>1 DEF Entry, Gdt32
<1>4. Entry(Gdt32, 8) = Entry(Gdt32, 16) \cup {43}
  BY <1>1 DEF Entry, Gdt32
<1> QED
  BY <1>2, <1>3, <1>4 DEF IsCode, IsCode64, IsData, Bits

\* The pages that the start runs from, while the loader's tables are in use and
\* under the kernel's own.
LEMMA LoaderPages ==
  ASSUME clean, tables = LoaderTables \/ tables = Over(KernelTables, LoaderTables)
  PROVE  Physical(144, Low) = 0
<1>1. /\ {144, 145, 146} \subseteq DOMAIN tables
      /\ \A f \in {144, 145, 146} : tables[f] = LoaderTables[f]
  BY DEF LoaderTables, KernelTables, Over
<1>2. /\ LoaderTables[144] = [i \in {0, 256} |-> Table(145)]
      /\ LoaderTables[145] = [i \in {0} |-> Table(146)]
      /\ LoaderTables[146] = [i \in 0 .. 5 |-> Page(i)]
  BY DEF LoaderTables
<1>3. tables[144][0].frame = 145 /\ tables[145][0].frame = 146 /\ tables[146][0].page = 0
  BY <1>1, <1>2 DEF Table, Page
<1>4. 0 \in DOMAIN tables[144] /\ 0 \in DOMAIN tables[145] /\ 0 \in DOMAIN tables[146]
  BY <1>1, <1>2
<1> QED
  BY <1>1, <1>3, <1>4 DEF Physical, Low

LEMMA LoaderPagesDirty ==
  ASSUME ~clean, tables = LoaderTables
  PROVE  Physical(144, Low) # 0
<1>1. tables[144] = <<>>
  BY DEF LoaderTables
<1>2. DOMAIN <<>> = {}
  OBVIOUS
<1> QED
  BY <1>1, <1>2 DEF Physical, Low, Nowhere

LEMMA KernelPages ==
  ASSUME tables = Over(KernelTables, LoaderTables)
  PROVE  /\ Physical(257, Low) = 0 /\ Physical(257, High) = 0
         /\ \A i \in 0 .. 7 : Physical(257, Framebuffer(i)) = CardPage(i)
<1>1. /\ {257, 258, 259} \subseteq DOMAIN tables
      /\ \A f \in {257, 258, 259} : tables[f] = KernelTables[f]
  BY DEF KernelTables, LoaderTables, Over
<1>2. /\ KernelTables[257] = [i \in {0, 256} |-> Table(258)]
      /\ KernelTables[258] = [i \in {0} |-> Table(259)]
      /\ KernelTables[259] = [i \in 0 .. 12 |-> Page(IF i < 5 THEN i ELSE 1792 + i - 5)]
  BY DEF KernelTables
<1>3. ASSUME NEW i \in {0, 256}, NEW j \in 0 .. 12
      PROVE  Physical(257, <<i, 0, j>>) = IF j < 5 THEN j ELSE 1792 + j - 5
  <2>1. tables[257][i].frame = 258 /\ tables[258][0].frame = 259
        /\ tables[259][j].page = IF j < 5 THEN j ELSE 1792 + j - 5
    BY <1>1, <1>2 DEF Table, Page
  <2>2. i \in DOMAIN tables[257] /\ 0 \in DOMAIN tables[258] /\ j \in DOMAIN tables[259]
    BY <1>1, <1>2
  <2> QED
    BY <1>1, <2>1, <2>2 DEF Physical
<1> QED
  BY <1>3 DEF Low, High, Framebuffer, CardPage

-----------------------------------------------------------------------------
(* The start. *)

Place(step) ==
  CASE step = "cli" -> 1 [] step = "lgdt32" -> 2 [] step = "lidt" -> 3 [] step = "a20" -> 4
    [] step = "pe" -> 5 [] step = "jump32" -> 6 [] step = "seg32" -> 7 [] step = "cpuid" -> 8
    [] step = "tables" -> 9 [] step = "lgdt64" -> 10 [] step = "pae" -> 11 [] step = "cr3" -> 12
    [] step = "lme" -> 13 [] step = "pg" -> 14 [] step = "jump64" -> 15 [] step = "seg64" -> 16
    [] step = "read" -> 17 [] step = "enter" -> 18 [] step = "head" -> 19 [] step = "switch" -> 20
    [] step = "entry64" -> 21 [] step = "gdt" -> 22 [] step = "segments" -> 23
    [] step = "idt" -> 24 [] step = "pic" -> 25 [] step = "screen" -> 26 [] step = "memory" -> 27
    [] step = "time" -> 28 [] step = "sti" -> 29 [] step = "main" -> 30 [] OTHER -> 0


\* What the processor and memory hold when the start has come to a step.  It
\* does not come past the far jump to 64 bits on a machine whose memory was
\* not zero.
MachineInv ==
  /\ Place(at) > 0 \/ Down
  /\ Place(at) > 4 => a20
  /\ Place(at) \in 3 .. 10 => gdt = Gdt32
  /\ Place(at) \in 11 .. 22 => gdt = Gdt64
  /\ Place(at) > 22 => gdt = KernelGdt
  /\ Place(at) > 11 => "PAE" \in cr
  /\ Place(at) > 13 => "LME" \in cr
  /\ Place(at) > 0 => ("PG" \in cr <=> Place(at) > 14)
  /\ Place(at) \in 13 .. 19 => cr3 = 144
  /\ Place(at) > 19 => cr3 = 257
  /\ Place(at) \in 10 .. 17 => tables = LoaderTables
  /\ Place(at) > 17 => tables = Over(KernelTables, LoaderTables)
  /\ Place(at) > 15 => clean /\ cs.sel = 8
  /\ Place(at) > 23 => ss.sel = 56
  /\ Place(at) > 24 => idt = "kernel"

\* head.S and the kernel lie above 1 Mbyte; the kernel runs at its high addresses.
LEMMA Places ==
  ASSUME Place(at) > 0
  PROVE  /\ InKernel(at) <=> Place(at) > 18
         /\ AtHigh(at) <=> Place(at) > 20
         /\ ~Down
<1>1. ~Down
  BY DEF Place, Down
<1>2. \/ Place(at) \in 1 .. 18 /\ ~InKernel(at)
      \/ Place(at) \in 19 .. 20 /\ InKernel(at) /\ at \in {"head", "switch"}
      \/ Place(at) \in 21 .. 30 /\ InKernel(at) /\ at \notin {"head", "switch"}
  BY DEF Place, InKernel
<1> QED
  BY <1>1, <1>2 DEF AtHigh

\* Each step finds its code and its stack, but for dirty memory.
LEMMA CleanIsReached ==
  ASSUME MachineInv, clean, Place(at) > 0
  PROVE  Reached(at)
<1>1. InKernel(at) => a20
  BY Places DEF MachineInv, Place
<1>2. ASSUME "PG" \in cr
      PROVE  Physical(cr3, IF AtHigh(at) THEN High ELSE Low) = 0 /\ Physical(cr3, Low) = 0
  <2>1. Place(at) > 14 /\ Place(at) \in Int
    BY <1>2, SMTT(30) DEF MachineInv, Place
  <2>2. CASE Place(at) <= 19
    <3>1. cr3 = 144 /\ (tables = LoaderTables \/ tables = Over(KernelTables, LoaderTables))
      BY <2>1, <2>2 DEF MachineInv
    <3> QED
      BY <2>2, <2>1, <3>1, LoaderPages, Places
  <2>3. CASE Place(at) > 19
    <3>1. cr3 = 257 /\ tables = Over(KernelTables, LoaderTables)
      BY <2>1, <2>3 DEF MachineInv
    <3> QED
      BY <3>1, KernelPages
  <2> QED
    BY SMTT(30), <2>1, <2>2, <2>3
<1> QED
  BY <1>1, <1>2, SMTT(30) DEF Reached

LEMMA DirtyIsNotReached ==
  ASSUME MachineInv, ~clean, at = "jump64"
  PROVE  ~Reached(at)
<1>1. Place(at) = 15
  BY DEF Place
<1>2. "PG" \in cr /\ cr3 = 144 /\ tables = LoaderTables
  BY <1>1, SMTT(30) DEF MachineInv
<1> QED
  BY <1>2, LoaderPagesDirty DEF Reached

\* Each step finds the registers and descriptors it needs.
LEMMA StartStepInv ==
  ASSUME MachineInv, StartStep
  PROVE  /\ MachineInv' /\ clean' = clean
         /\ at' = "unreached" => ~clean
         /\ at' # "halted" /\ Place(at) \in 1 .. 23 /\ Place(at') \in 0 .. 24
         /\ IF at = "cli" THEN ~intr' ELSE intr' = intr
<1> USE DEF Then, Place, MachineInv, Down
<1>24. LoaderTables' = LoaderTables /\ clean' = clean
  BY SMTT(30) DEF LoaderTables, StartStep, Cli, Lgdt32, Lidt, EnableA20, ProtectedMode, JumpTo32, Segments32,
    if_enter_long_mode, StoreTables, Lgdt64, SetPae, LoadCr3, SetLme,
    SetPaging, JumpTo64, Segments64, ReadImage, EnterKernel,
    LoadKernelCr3, Switch, GoToKernel, init_gdt, SetSegments
<1>25. clean => Reached(at)
  BY CleanIsReached DEF StartStep, Cli, Lgdt32, Lidt, EnableA20, ProtectedMode, JumpTo32, Segments32,
    if_enter_long_mode, StoreTables, Lgdt64, SetPae, LoadCr3, SetLme,
    SetPaging, JumpTo64, Segments64, ReadImage, EnterKernel,
    LoadKernelCr3, Switch, GoToKernel, init_gdt, SetSegments
<1>1. CASE Cli
  BY <1>1, <1>24, <1>25 DEF Cli, machineVars
<1>2. CASE Lgdt32
  BY <1>2, <1>24, <1>25 DEF Lgdt32, machineVars
<1>3. CASE Lidt
  BY <1>3, <1>24, <1>25 DEF Lidt, machineVars
<1>4. CASE EnableA20
  BY <1>4, <1>24, <1>25 DEF EnableA20, machineVars
<1>5. CASE ProtectedMode
  BY <1>5, <1>24, <1>25 DEF ProtectedMode, machineVars
<1>6. CASE JumpTo32
  BY <1>6, <1>24, <1>25, LoaderDescriptors DEF JumpTo32, machineVars, Load
<1>7. CASE Segments32
  BY <1>7, <1>24, <1>25, LoaderDescriptors DEF Segments32, machineVars, Load
<1>8. CASE if_enter_long_mode
  BY <1>8, <1>24, <1>25 DEF if_enter_long_mode, machineVars
<1>9. CASE StoreTables
  BY <1>9, <1>24, <1>25 DEF StoreTables, machineVars
<1>10. CASE Lgdt64
  BY <1>10, <1>24, <1>25 DEF Lgdt64, machineVars
<1>11. CASE SetPae
  BY <1>11, <1>24, <1>25 DEF SetPae, machineVars
<1>12. CASE LoadCr3
  BY <1>12, <1>24, <1>25 DEF LoadCr3, machineVars
<1>13. CASE SetLme
  BY <1>13, <1>24, <1>25 DEF SetLme, machineVars
<1>14. CASE SetPaging
  BY <1>14, <1>24, <1>25 DEF SetPaging, machineVars
<1>15. CASE JumpTo64
  BY <1>15, <1>24, <1>25, LoaderDescriptors, DirtyIsNotReached DEF JumpTo64, machineVars, Load
<1>16. CASE Segments64
  BY <1>16, <1>24, <1>25, LoaderDescriptors DEF Segments64, machineVars, Load
<1>17. CASE ReadImage
  BY <1>17, <1>24, <1>25 DEF ReadImage, machineVars
<1>18. CASE EnterKernel
  BY <1>18, <1>24, <1>25 DEF EnterKernel, machineVars
<1>19. CASE LoadKernelCr3
  BY <1>19, <1>24, <1>25 DEF LoadKernelCr3, machineVars
<1>20. CASE Switch
  BY <1>20, <1>24, <1>25, LoaderDescriptors DEF Switch, machineVars, Load
<1>21. CASE GoToKernel
  BY <1>21, <1>24, <1>25, LoaderDescriptors DEF GoToKernel, machineVars, Load
<1>22. CASE init_gdt
  BY <1>22, <1>24, <1>25 DEF init_gdt, machineVars
<1>23. CASE SetSegments
  BY <1>23, <1>24, <1>25, KernelDescriptors DEF SetSegments, machineVars, Load
<1> QED
  BY <1>1, <1>2, <1>3, <1>4, <1>5, <1>6, <1>7, <1>8, <1>9, <1>10, <1>11, <1>12,
     <1>13, <1>14, <1>15, <1>16, <1>17, <1>18, <1>19, <1>20, <1>21, <1>22, <1>23, ZenonT(40) DEF StartStep

-----------------------------------------------------------------------------
(* The kernel is ready when the flag is set.  The first parts say how far the  *)
(* start has come; MasksTrue, that a mask is what the calls have asked for, as *)
(* no handler changes one between inb and outb; WireTrue, that the processor   *)
(* is only promised what is there, unless a line was masked with the flag set. *)

FlagInMain == intr => Place(at) \in {0, 1, 30}
PicReady == Place(at) > 0 => (remapped <=> Place(at) > 25)
ResetExplained == at = "unreached" => ~clean
MasksTrue ==
  /\ IF remapped THEN imr = asked ELSE asked = InitialMask
  /\ asked \subseteq 0 .. 15
  /\ doing = "mask" => /\ remapped /\ reg.op \in {"enable", "disable"} /\ reg.vector \in Int /\ reg.vector >= 32
                       /\ reg.mask = imr \cap Side(reg.vector)
WireTrue == intr /\ wire => Deliverable(irr, isr, imr) # {} \/ exposed
EdgesKept == EdgeLostOnlyEarly /\ CASCADE \notin irr /\ (obf /\ ~remapped => early)

\* Why there is a frame: an exception; or, in a kernel that is ready for it, a
\* line that has a handler of its own or was opened, or a line that was masked.
FrameExplained(i) ==
  LET f == frames[i] IN
    \/ f.cause = EXCEPTION /\ f.vector \in 0 .. 31
    \/ /\ \/ f.cause \in (0 .. 15) \ ({CASCADE} \cup asked) /\ f.vector = 32 + f.cause
          \/ f.cause = SPURIOUS /\ f.vector = 39 /\ exposed
       /\ Place(at) \in {0, 30} /\ Returnable /\ (at # "faulted" \/ i < Len(frames))
FramesExplained == \A i \in DOMAIN frames : FrameExplained(i)
HaltReported == at = "halted" => frames # <<>> /\ Handler(Last(frames).vector) = "report"

Prepared ==
  /\ MachineInv /\ FlagInMain /\ PicReady /\ ResetExplained
  /\ MasksTrue /\ WireTrue /\ EdgesKept /\ FramesExplained /\ HaltReported

\* The machine, for a step of the running kernel.
LEMMA MachineKept ==
  ASSUME MachineInv, UNCHANGED <<machineVars, clean>>,
         at' = at \/ at' \in {"faulted", "halted"}
  PROVE  MachineInv' /\ (Returnable' <=> Returnable)
<1>1. LoaderTables' = LoaderTables
  BY DEF LoaderTables
<1>2. CASE at' = at
  BY <1>1, <1>2 DEF MachineInv, machineVars, Down, Returnable
<1>3. CASE at' \in {"faulted", "halted"}
  <2>1. Place(at') = 0 /\ Down'
    BY <1>3 DEF Place, Down
  <2> QED
    BY <2>1 DEF MachineInv, machineVars, Returnable
<1> QED
  BY <1>2, <1>3

\* A frame is added and the others are as they were.
LEMMA EnterFrames ==
  ASSUME Inv, NEW v, NEW cause, Enter(v, cause)
  PROVE  /\ DOMAIN frames' = 1 .. Len(frames) + 1 /\ Len(frames') = Len(frames) + 1
         /\ DOMAIN frames = 1 .. Len(frames) /\ Len(frames) \in Nat
         /\ \A i \in DOMAIN frames : frames'[i] = frames[i]
         /\ frames'[Len(frames) + 1] = [cause |-> cause, vector |-> v, told |-> FALSE]
         /\ frames' # <<>> /\ Last(frames') = frames'[Len(frames) + 1]
<1> DEFINE f == [cause |-> cause, vector |-> v, told |-> FALSE]
<1>1. frames' = Append(frames, f) /\ frames \in Seq(Frame)
  BY DEF Enter, Inv, TypesOK
<1> HIDE DEF f
<1>2. /\ DOMAIN frames' = 1 .. Len(frames) + 1 /\ Len(frames') = Len(frames) + 1
      /\ DOMAIN frames = 1 .. Len(frames) /\ Len(frames) \in Nat
      /\ \A i \in DOMAIN frames : frames'[i] = frames[i]
      /\ frames'[Len(frames) + 1] = f
  BY <1>1
<1>3. frames' # <<>>
  BY <1>2
<1>4. Last(frames') = frames'[Len(frames) + 1]
  BY <1>2 DEF Last
<1> QED
  BY <1>2, <1>3, <1>4 DEF f

\* An exception explains itself.
LEMMA ExceptionPrepared ==
  ASSUME Inv, Prepared, NEW v \in 0 .. 31, Enter(v, EXCEPTION), UNCHANGED <<irr, isr, imr, wire>>,
         at # "halted"
  PROVE  Prepared'
<1>1. (at' = at \/ at' = "faulted") /\ UNCHANGED <<machineVars, clean, remapped, obf, early, doing, reg, asked, exposed>>
      /\ ~intr'
  BY DEF Enter
<1>2. MachineInv' /\ (Returnable' <=> Returnable)
  BY <1>1, MachineKept DEF Prepared
<1>3. Place("faulted") = 0
  BY DEF Place
<1>4. FlagInMain' /\ PicReady' /\ ResetExplained' /\ WireTrue'
  BY <1>1, <1>3 DEF Prepared, FlagInMain, PicReady, ResetExplained, WireTrue
<1>5. MasksTrue'
  BY <1>1 DEF Prepared, MasksTrue
<1> DEFINE f == [cause |-> EXCEPTION, vector |-> v, told |-> FALSE]
<1>6. /\ DOMAIN frames' = 1 .. Len(frames) + 1 /\ Len(frames') = Len(frames) + 1
      /\ DOMAIN frames = 1 .. Len(frames) /\ Len(frames) \in Nat
      /\ \A i \in DOMAIN frames : frames'[i] = frames[i]
      /\ frames'[Len(frames) + 1] = f
  BY EnterFrames
<1>7. f.cause = EXCEPTION /\ f.vector = v
  OBVIOUS
<1> HIDE DEF f
<1>8. EdgesKept'
  BY <1>1, <1>6 DEF Prepared, EdgesKept, EdgeLostOnlyEarly
<1>9. FramesExplained'
  <2> SUFFICES ASSUME NEW i \in DOMAIN frames' PROVE FrameExplained(i)'
    BY DEF FramesExplained
  <2>1. CASE i = Len(frames) + 1
    BY <1>6, <1>7, <2>1 DEF FrameExplained
  <2>2. CASE i \in DOMAIN frames
    <3>1. FrameExplained(i) /\ frames'[i] = frames[i] /\ i < Len(frames') /\ Place(at') \in {0, Place(at)}
      BY <1>1, <1>3, <1>6, <2>2 DEF Prepared, FramesExplained
    <3> QED
      BY <1>1, <1>2, <3>1 DEF FrameExplained
  <2> QED
    BY <1>6, <2>1, <2>2
<1>10. HaltReported'
  BY <1>1 DEF HaltReported
<1> QED
  BY <1>2, <1>4, <1>5, <1>8, <1>9, <1>10 DEF Prepared

\* A step that leaves the frames and what they are explained with alone.
LEMMA FramesKept ==
  ASSUME Prepared, UNCHANGED <<frames, machineVars, asked, exposed>>,
         at' = at \/ at' = "halted"
  PROVE  FramesExplained'
<1>1. Place(at') \in {0, Place(at)} /\ (at' = "faulted" => at = "faulted")
  BY DEF Place
<1>2. ASSUME NEW i \in DOMAIN frames PROVE FrameExplained(i)'
  <2>1. FrameExplained(i)
    BY DEF Prepared, FramesExplained
  <2> QED
    BY <1>1, <2>1 DEF FrameExplained, Returnable, machineVars
<1> QED
  BY <1>2, SMTT(30) DEF FramesExplained

LEMMA NoFrames == ASSUME frames = <<>> PROVE FramesExplained /\ DOMAIN frames = {}
  BY DEF FramesExplained

\* Where the flag is set, everything an interrupt needs is there.
LEMMA InMain ==
  ASSUME Prepared, intr, ~Down, at # "cli"
  PROVE  at = "main" /\ Place(at) = 30 /\ remapped /\ imr = asked /\ GateReached /\ Returnable
<1>0. (Place(at) = 1 => at = "cli") /\ (Place(at) = 30 => at = "main")
  BY DEF Place
<1>1. Place(at) \in {0, 1, 30}
  BY DEF Prepared, FlagInMain
<1>2. at = "main" /\ Place(at) = 30
  BY <1>0, <1>1 DEF Prepared, MachineInv
<1>3. remapped /\ imr = asked
  BY <1>2 DEF Prepared, PicReady, MasksTrue
<1>4. clean /\ gdt = KernelGdt /\ cs.sel = 8 /\ ss.sel = 56 /\ idt = "kernel"
  BY <1>2 DEF Prepared, MachineInv
<1>5. Reached(at) /\ AtHigh(at)
  BY <1>2, <1>4, CleanIsReached, Places DEF Prepared
<1> QED
  BY <1>2, <1>3, <1>4, <1>5, KernelDescriptors DEF GateReached, Returnable

LEMMA AcknowledgePrepared == Inv /\ Prepared /\ Acknowledge => Prepared'
<1> SUFFICES ASSUME Inv, Prepared, Acknowledge PROVE Prepared'
  OBVIOUS
<1> DEFINE open == Deliverable(irr, isr, imr)
           l    == First(open)
<1>1. frames = <<>> /\ Len(frames) = 0
  BY DEF Inv, FlagClear, Acknowledge
<1>2. at = "main" /\ Place(at) = 30 /\ remapped /\ imr = asked /\ GateReached /\ Returnable
  BY InMain DEF Acknowledge
<1>3. PICK v, cause :
        /\ Enter(v, cause) /\ imr' = imr
        /\ \/ cause \in irr \ imr /\ irr' = irr \ {cause} /\ v = VectorOf(cause)
           \/ cause = SPURIOUS /\ v = VectorOf(7) /\ irr' = irr /\ exposed
  <2>1. CASE open # {}
    <3>1. open \in SUBSET (0 .. 15) /\ open \subseteq irr \ imr
      BY DEF Deliverable, Inv, TypesOK
    <3>2. l \in irr \ imr
      <4> HIDE DEF open
      <4> QED
        BY <2>1, <3>1, FirstOfLines
    <3> QED
      BY <2>1, <3>2 DEF Acknowledge
  <2>2. CASE open = {}
    <3>1. exposed
      BY <2>2 DEF Acknowledge, Prepared, WireTrue
    <3> QED
      BY <2>2, <3>1 DEF Acknowledge
  <2> QED
    BY <2>1, <2>2
<1>4. at' = at /\ UNCHANGED <<machineVars, clean, remapped, obf, early, doing, reg, asked, exposed>>
      /\ ~intr'
  BY <1>1, <1>2, <1>3, BoundsAssumption DEF Enter
<1>5. MachineInv' /\ Returnable'
  BY <1>2, <1>4, MachineKept DEF Prepared
<1>6. FlagInMain' /\ PicReady' /\ ResetExplained' /\ WireTrue' /\ HaltReported'
  BY <1>2, <1>4 DEF Prepared, FlagInMain, PicReady, ResetExplained, WireTrue, HaltReported
<1>7. MasksTrue'
  BY <1>3, <1>4 DEF Prepared, MasksTrue
<1>8. /\ DOMAIN frames' = {1} /\ Len(frames') = 1
      /\ frames'[1] = [cause |-> cause, vector |-> v, told |-> FALSE]
  BY <1>1, <1>3, EnterFrames
<1>9. EdgesKept'
  BY <1>2, <1>3, <1>4, <1>8, NoFrames, <1>1 DEF Prepared, EdgesKept, EdgeLostOnlyEarly
<1>10. FramesExplained'
  <2>1. \/ cause \in (0 .. 15) \ ({CASCADE} \cup asked) /\ v = 32 + cause
        \/ cause = SPURIOUS /\ v = 39 /\ exposed
    <3>1. CASE cause \in irr \ imr /\ v = VectorOf(cause)
      <4>1. cause \in 0 .. 15 /\ cause # CASCADE /\ cause \notin asked
        BY <1>2, <3>1 DEF Prepared, EdgesKept, Inv, TypesOK
      <4> QED
        BY <1>2, <3>1, <4>1 DEF VectorOf
    <3>2. CASE cause = SPURIOUS /\ v = VectorOf(7) /\ exposed
      BY <1>2, <3>2 DEF VectorOf
    <3> QED
      BY <1>3, <3>1, <3>2
  <2>2. FrameExplained(1)'
    BY <1>2, <1>4, <1>5, <1>8, <2>1 DEF FrameExplained
  <2> QED
    BY <1>8, <2>2 DEF FramesExplained
<1> QED
  BY <1>5, <1>6, <1>7, <1>9, <1>10 DEF Prepared

LEMMA ReturnPrepared == Inv /\ Prepared /\ (do_handler_timer \/ do_handler_keyboard) => Prepared'
<1> SUFFICES ASSUME Inv, Prepared, do_handler_timer \/ do_handler_keyboard PROVE Prepared'
  OBVIOUS
<1>1. /\ frames # <<>> /\ Handler(Last(frames).vector) # "report" /\ Return /\ ~Down
      /\ obf' = FALSE \/ (obf' = obf /\ Handler(Last(frames).vector) = "timer")
  BY DEF do_handler_timer, do_handler_keyboard, Handling
<1>2. Len(frames) = 1 /\ frames' = <<>> /\ Last(frames) = frames[1] /\ DOMAIN frames = {1}
  BY <1>1, ReturnsToTask
<1>3. UNCHANGED <<at, machineVars, clean, irr, imr, remapped, early, doing, reg, asked, exposed>>
      /\ Settle
  BY <1>1 DEF Return
<1>4. FrameExplained(1)
  BY <1>2 DEF Prepared, FramesExplained
<1>5. frames[1].vector \in {32, 33}
  BY <1>1, <1>2 DEF Handler
<1>6. Place(at) \in {0, 30}
  <2>1. frames[1].vector \notin 0 .. 31
    BY <1>5
  <2> QED
    BY <1>4, <2>1 DEF FrameExplained
<1>7. MachineInv'
  BY <1>3, MachineKept DEF Prepared
<1>8. FlagInMain' /\ PicReady' /\ ResetExplained' /\ WireTrue' /\ HaltReported'
  BY <1>1, <1>3, <1>6 DEF Prepared, FlagInMain, PicReady, ResetExplained, WireTrue, HaltReported, Settle,
    Wire, Down
<1>9. MasksTrue'
  BY <1>3 DEF Prepared, MasksTrue
<1>10. EdgesKept'
  <2>1. obf' => obf /\ frames[1].vector = 32
    BY <1>1, <1>2 DEF Handler
  <2>2. obf' => frames[1].cause # KEYBOARD
    BY <2>1, <1>4 DEF FrameExplained, EXCEPTION, SPURIOUS, KEYBOARD
  <2> QED
    BY <1>2, <1>3, <2>1, <2>2 DEF Prepared, EdgesKept, EdgeLostOnlyEarly
<1>11. FramesExplained'
  BY <1>2 DEF FramesExplained
<1> QED
  BY <1>7, <1>8, <1>9, <1>10, <1>11 DEF Prepared

LEMMA ReportPrepared == Inv /\ Prepared /\ (Report \/ DumpRegs) => Prepared'
<1> SUFFICES ASSUME Inv, Prepared, Report \/ DumpRegs PROVE Prepared'
  OBVIOUS
<1> DEFINE n == Len(frames)
<1>1. /\ frames # <<>> /\ Handler(Last(frames).vector) = "report" /\ ~Down
      /\ UNCHANGED <<machineVars, clean, intr, irr, isr, imr, wire, remapped, obf, early, doing, reg, asked, exposed>>
  BY DEF Report, DumpRegs, Handling, startVars, picVars, taskVars
<1>2. n \in Nat \ {0} /\ DOMAIN frames = 1 .. n /\ Last(frames) = frames[n] /\ frames[n] \in Frame
  BY <1>1 DEF Inv, TypesOK, Last
<1>3. at' = at \/ at' = "halted"
  BY DEF Report, DumpRegs, startVars
<1>4. /\ DOMAIN frames' = 1 .. n /\ Len(frames') = n /\ frames' # <<>>
      /\ \A i \in 1 .. n : frames'[i].cause = frames[i].cause /\ frames'[i].vector = frames[i].vector
      /\ Last(frames') = frames'[n]
  <2>1. CASE DumpRegs
    BY <1>1, <1>2, <2>1, SMTT(30) DEF DumpRegs
  <2>2. CASE Report
    <3>1. PICK e \in Frame : /\ e.vector = frames[n].vector /\ e.cause = frames[n].cause
                             /\ frames' = [frames EXCEPT ![n] = e]
      <4>1. [frames[n] EXCEPT !.told = TRUE] \in Frame
            /\ [frames[n] EXCEPT !.told = TRUE].vector = frames[n].vector
            /\ [frames[n] EXCEPT !.told = TRUE].cause = frames[n].cause
        BY <1>2 DEF Frame
      <4>2. frames' = [frames EXCEPT ![n] = [frames[n] EXCEPT !.told = TRUE]]
        BY <1>2, <2>2 DEF Report
      <4> QED
        BY <4>1, <4>2
    <3>2. frames' \in Seq(Frame) /\ Len(frames') = n /\ DOMAIN frames' = 1 .. n
      BY <1>2, <3>1 DEF Inv, TypesOK
    <3> QED
      BY <1>2, <3>1, <3>2 DEF Last
  <2> QED
    BY <2>1, <2>2
<1>5. Place("halted") = 0
  BY DEF Place
<1>6. MachineInv' /\ (Returnable' <=> Returnable)
  BY <1>1, <1>3, MachineKept DEF Prepared
<1>7. FlagInMain' /\ PicReady' /\ ResetExplained' /\ WireTrue' /\ MasksTrue'
  BY <1>1, <1>3, <1>5 DEF Prepared, FlagInMain, PicReady, ResetExplained, WireTrue, MasksTrue
<1>8. HaltReported'
  BY <1>1, <1>2, <1>4 DEF HaltReported
<1>9. EdgesKept'
  BY <1>1, <1>2, <1>4 DEF Prepared, EdgesKept, EdgeLostOnlyEarly
<1>10. FramesExplained'
  <2>1. ASSUME NEW i \in 1 .. n PROVE FrameExplained(i)'
    <3>1. FrameExplained(i)
      BY <1>2 DEF Prepared, FramesExplained
    <3> QED
      BY <1>1, <1>3, <1>4, <1>5, <1>6, <3>1 DEF FrameExplained, Down
  <2> QED
    BY <1>4, <2>1 DEF FramesExplained
<1> QED
  BY <1>6, <1>7, <1>8, <1>9, <1>10 DEF Prepared

LEMMA BootPrepared == Inv /\ Prepared /\ BootStep => Prepared'
<1> SUFFICES ASSUME Inv, Prepared, BootStep PROVE Prepared'
  OBVIOUS
<1>1. frames = <<>> /\ frames' = <<>> /\ UNCHANGED <<obf, early, doing, reg, asked, exposed>>
  BY DEF BootStep, StartsUp, init_idt, init_8259A, Inits, irq_enable_global, KernelStep, picVars, taskVars
<1>2. FramesExplained'
  BY <1>1 DEF FramesExplained
<1>3. CASE StartsUp
  <2>1. StartStep /\ UNCHANGED <<irr, imr, remapped>> /\ Settle
    BY <1>3 DEF StartsUp
  <2>2. /\ MachineInv' /\ clean' = clean
        /\ at' = "unreached" => ~clean
        /\ at' # "halted" /\ Place(at) \in 1 .. 23 /\ Place(at') \in 0 .. 24
        /\ IF at = "cli" THEN ~intr' ELSE intr' = intr
    BY <2>1, StartStepInv DEF Prepared
  <2>3. ResetExplained' /\ HaltReported'
    BY <2>2 DEF ResetExplained, HaltReported
  <2>4. PicReady' /\ FlagInMain'
    <3>1. at # "cli" => Place(at) # 1
      BY DEF Place
    <3> QED
      BY <2>1, <2>2, <3>1 DEF Prepared, PicReady, FlagInMain
  <2>5. MasksTrue' /\ EdgesKept' /\ WireTrue'
    BY <1>1, <2>1 DEF Prepared, MasksTrue, EdgesKept, EdgeLostOnlyEarly, WireTrue, Settle, Wire
  <2> QED
    BY <1>2, <2>2, <2>3, <2>4, <2>5 DEF Prepared
<1>4. ASSUME NEW step, NEW next, KernelStep(step, next), Place(step) > 23
      PROVE  at' = next /\ UNCHANGED <<clean>> /\ (step # "sti" => intr' = intr)
             /\ LoaderTables' = LoaderTables
  <2>1. at = step /\ clean
    BY <1>4 DEF KernelStep, Then, Prepared, MachineInv, Place
  <2>2. Reached(step)
    BY <2>1, <1>4, CleanIsReached, Places DEF Prepared, Place
  <2> QED
    BY <1>4, <2>1, <2>2 DEF KernelStep, Then, LoaderTables, Place
<1>5. CASE init_idt
  <2>1. KernelStep("idt", "pic") /\ Place("idt") = 24 /\ at = "idt"
    BY <1>5 DEF init_idt, Place, KernelStep, Then
  <2>2. at' = "pic" /\ UNCHANGED <<clean, intr>> /\ LoaderTables' = LoaderTables
    BY <1>4, <2>1
  <2>3. Place(at') = 25 /\ Place(at) = 24
    BY <2>1, <2>2 DEF Place
  <2>4. MachineInv'
    BY <1>5, <2>2, <2>3 DEF init_idt, Prepared, MachineInv
  <2>5. FlagInMain' /\ PicReady' /\ ResetExplained' /\ HaltReported'
    BY <1>5, <2>2, <2>3 DEF init_idt, picVars, Prepared, FlagInMain, PicReady, ResetExplained, HaltReported
  <2>6. MasksTrue' /\ EdgesKept' /\ WireTrue'
    BY <1>1, <1>5, <2>2 DEF init_idt, picVars, Prepared, MasksTrue, EdgesKept, EdgeLostOnlyEarly, WireTrue
  <2> QED
    BY <1>2, <2>4, <2>5, <2>6 DEF Prepared
<1>6. CASE init_8259A
  <2>1. KernelStep("pic", "screen") /\ Place("pic") = 25 /\ at = "pic"
    BY <1>6 DEF init_8259A, Place, KernelStep, Then
  <2>2. at' = "screen" /\ UNCHANGED <<clean, intr>> /\ LoaderTables' = LoaderTables
    BY <1>4, <2>1
  <2>3. Place(at') = 26 /\ Place(at) = 25 /\ ~remapped
    <3>1. Place(at') = 26 /\ Place(at) = 25
      BY <2>1, <2>2 DEF Place
    <3> QED
      BY <3>1 DEF Prepared, PicReady
  <2>4. MachineInv'
    BY <1>6, <2>2, <2>3 DEF init_8259A, machineVars, Prepared, MachineInv
  <2>5. FlagInMain' /\ PicReady' /\ ResetExplained' /\ HaltReported'
    BY <1>6, <2>2, <2>3 DEF init_8259A, Prepared, FlagInMain, PicReady, ResetExplained, HaltReported
  <2>6. MasksTrue' /\ WireTrue'
    BY <1>1, <1>6, <2>3 DEF init_8259A, Prepared, MasksTrue, WireTrue, Settle, Wire
  <2>7. EdgesKept'
    BY <1>1, <1>6, <2>3 DEF init_8259A, Prepared, EdgesKept, EdgeLostOnlyEarly
  <2> QED
    BY <1>2, <2>4, <2>5, <2>6, <2>7 DEF Prepared
<1>7. CASE Inits \/ irq_enable_global
  <2>1. PICK step, next :
          /\ KernelStep(step, next)
          /\ <<step, next>> \in {<<"screen", "memory">>, <<"memory", "time">>, <<"time", "sti">>, <<"sti", "main">>}
          /\ UNCHANGED <<machineVars, irr, isr, imr, remapped>> /\ Settle
    BY <1>7 DEF Inits, irq_enable_global
  <2>2. /\ Place(step) \in 26 .. 29 /\ Place(next) = Place(step) + 1 /\ at = step
        /\ IF step = "sti" THEN Place(step) = 29 ELSE Place(step) < 29
    <3>1. at = step
      BY <2>1 DEF KernelStep, Then
    <3>2. /\ Place("screen") = 26 /\ Place("memory") = 27 /\ Place("time") = 28 /\ Place("sti") = 29
          /\ Place("main") = 30
      BY DEF Place
    <3> QED
      BY <2>1, <3>1, <3>2
  <2>3. at' = next /\ UNCHANGED clean /\ (step # "sti" => intr' = intr) /\ LoaderTables' = LoaderTables
    BY <1>4, <2>1, <2>2
  <2>4. MachineInv'
    BY <2>1, <2>2, <2>3 DEF machineVars, Prepared, MachineInv
  <2>5. next \notin {"unreached", "halted"}
    BY <2>1
  <2>6. FlagInMain' /\ PicReady' /\ ResetExplained' /\ HaltReported'
    BY <2>1, <2>2, <2>3, <2>5 DEF Prepared, FlagInMain, PicReady, ResetExplained, HaltReported
  <2>7. MasksTrue' /\ EdgesKept' /\ WireTrue'
    BY <1>1, <2>1 DEF Prepared, MasksTrue, EdgesKept, EdgeLostOnlyEarly, WireTrue, Settle, Wire
  <2> QED
    BY <1>2, <2>4, <2>6, <2>7 DEF Prepared
<1> QED
  BY <1>3, <1>5, <1>6, <1>7 DEF BootStep

\* A step of the task that changes no mask.
LEMMA TaskPrepared ==
  ASSUME Prepared, NEW from, NEW to, Task(from, to), UNCHANGED <<imr, asked, exposed>>, Settle,
         to = "mask" => /\ reg'.op \in {"enable", "disable"} /\ reg'.vector \in Int /\ reg'.vector >= 32
                        /\ reg'.mask = imr \cap Side(reg'.vector)
  PROVE  Prepared'
<1>1. /\ at = "main" /\ frames = <<>> /\ frames' = <<>> /\ doing' = to
      /\ UNCHANGED <<at, machineVars, clean, irr, isr, remapped, obf, early>>
  BY DEF Task, InTask
<1>2. Place("main") = 30
  BY DEF Place
<1>3. MachineInv'
  BY <1>1, MachineKept DEF Prepared
<1>4. remapped
  BY <1>1, <1>2 DEF Prepared, PicReady
<1>5. FlagInMain' /\ PicReady' /\ ResetExplained' /\ HaltReported' /\ FramesExplained'
  BY <1>1, <1>2 DEF Prepared, FlagInMain, PicReady, ResetExplained, HaltReported, FramesExplained
<1>6. WireTrue'
  BY DEF WireTrue, Settle, Wire
<1>7. MasksTrue'
  BY <1>1, <1>4 DEF Prepared, MasksTrue
<1>8. EdgesKept'
  BY <1>1 DEF Prepared, EdgesKept, EdgeLostOnlyEarly
<1> QED
  BY <1>3, <1>5, <1>6, <1>7, <1>8 DEF Prepared

\* A mask that was read stays true until it is written, for no handler writes
\* one; a request that is masked meanwhile was exposed.
LEMMA WriteMaskPrepared == Inv /\ Prepared /\ WriteMask => Prepared'
<1> SUFFICES ASSUME Inv, Prepared, WriteMask PROVE Prepared'
  OBVIOUS
<1> DEFINE v == reg.vector
<1>1. /\ at = "main" /\ frames = <<>> /\ frames' = <<>> /\ doing = "mask" /\ doing' = "idle"
      /\ UNCHANGED <<at, machineVars, clean, irr, isr, remapped, obf, early, intr>>
  BY DEF WriteMask, Task, InTask
<1>2. Place("main") = 30
  BY DEF Place
<1>3. MachineInv'
  BY <1>1, MachineKept DEF Prepared
<1>4. remapped /\ imr = asked /\ asked \subseteq 0 .. 15 /\ v \in Int /\ v >= 32
      /\ reg.op \in {"enable", "disable"} /\ reg.mask = imr \cap Side(v)
  BY <1>1, <1>2 DEF Prepared, MasksTrue
<1>5. FlagInMain' /\ PicReady' /\ ResetExplained' /\ HaltReported' /\ FramesExplained'
  BY <1>1, <1>2 DEF Prepared, FlagInMain, PicReady, ResetExplained, HaltReported, FramesExplained
<1> DEFINE line == v - 32
<1>6. line \in 0 .. 15 => line \in Side(v) /\ Bit(v) = {line}
  BY <1>4 DEF Side, Bit, Slave
<1>7. line \notin 0 .. 15 => Bit(v) = {} /\ {line} \cap (0 .. 15) = {}
  BY <1>4 DEF Side, Bit, Slave
<1>8. /\ imr' = asked' /\ asked' \subseteq 0 .. 15
      /\ \/ imr' \subseteq imr /\ (exposed' <=> exposed)
         \/ (exposed' <=> exposed \/ intr)
  <2>1. CASE reg.op = "enable"
    <3>1. imr' = (imr \ Side(v)) \cup (reg.mask \ Bit(v)) /\ asked' = asked \ {line} /\ (exposed' <=> exposed)
      BY <2>1 DEF WriteMask
    <3> HIDE DEF line
    <3>2. (imr \ Side(v)) \cup ((imr \cap Side(v)) \ Bit(v)) = imr \ {line}
      BY <1>4, <1>6, <1>7
    <3> QED
      BY <1>4, <3>1, <3>2
  <2>2. CASE reg.op = "disable"
    <3>1. /\ imr' = (imr \ Side(v)) \cup (reg.mask \cup Bit(v))
          /\ asked' = asked \cup ({line} \cap (0 .. 15)) /\ (exposed' <=> exposed \/ intr)
      BY <2>2 DEF WriteMask
    <3> HIDE DEF line
    <3>2. (imr \ Side(v)) \cup ((imr \cap Side(v)) \cup Bit(v)) = imr \cup ({line} \cap (0 .. 15))
      BY <1>4, <1>6, <1>7
    <3> QED
      BY <1>4, <3>1, <3>2
  <2> QED
    BY <1>4, <2>1, <2>2
<1>9. MasksTrue'
  BY <1>1, <1>4, <1>8 DEF MasksTrue
<1>10. WireTrue'
  <2>1. wire' = (wire \/ Deliverable(irr, isr, imr') # {})
    BY DEF WriteMask, Wire
  <2>2. CASE imr' \subseteq imr /\ (exposed' <=> exposed)
    <3>1. Deliverable(irr, isr, imr) \subseteq Deliverable(irr, isr, imr')
      BY <2>2 DEF Deliverable
    <3> QED
      BY <1>1, <2>1, <2>2, <3>1 DEF Prepared, WireTrue
  <2>3. CASE (exposed' <=> exposed \/ intr)
    BY <1>1, <2>1, <2>3 DEF WireTrue
  <2> QED
    BY <1>8, <2>2, <2>3
<1>11. EdgesKept'
  BY <1>1 DEF Prepared, EdgesKept, EdgeLostOnlyEarly
<1> QED
  BY <1>3, <1>5, <1>9, <1>10, <1>11 DEF Prepared

LEMMA RaisePrepared == ASSUME Inv, Prepared, NEW l \in Raised, Raise(l) PROVE Prepared'
<1>1. /\ UNCHANGED <<at, machineVars, clean, intr, isr, imr, remapped, frames, doing, reg, asked, exposed>>
      /\ irr' = irr \cup {l} /\ l \in (0 .. 15) \ {CASCADE}
  BY LinesAssumption DEF Raise, startVars, taskVars, CASCADE
<1>2. MachineInv' /\ FramesExplained'
  BY <1>1, MachineKept, FramesKept DEF Prepared
<1>3. FlagInMain' /\ PicReady' /\ ResetExplained' /\ HaltReported' /\ MasksTrue'
  BY <1>1 DEF Prepared, FlagInMain, PicReady, ResetExplained, HaltReported, MasksTrue
<1>4. WireTrue'
  <2>1. Deliverable(irr, isr, imr) \subseteq Deliverable(irr', isr, imr)
    BY <1>1 DEF Deliverable
  <2> QED
    BY <1>1, <2>1 DEF Raise, Prepared, WireTrue, Wire
<1>5. EdgesKept'
  <2>1. obf' => obf \/ l = KEYBOARD
    BY DEF Raise
  <2>2. (early => early') /\ (l = KEYBOARD /\ ~remapped => early')
    BY DEF Raise
  <2> QED
    BY <1>1, <2>1, <2>2 DEF Prepared, EdgesKept, EdgeLostOnlyEarly
<1> QED
  BY <1>2, <1>3, <1>4, <1>5 DEF Prepared

LEMMA TaskStepPrepared == Inv /\ Prepared /\ TaskStep => Prepared'
<1> SUFFICES ASSUME Inv, Prepared, TaskStep PROVE Prepared'
  OBVIOUS
<1>0. \A from, to : Task(from, to) => at = "main"
  BY DEF Task, InTask
<1>1. CASE kprintf \/ PrintDone \/ putchar \/ PutcharDone \/ Poll
  BY <1>1, TaskPrepared DEF kprintf, PrintDone, putchar, PutcharDone, Poll
<1>2. CASE PutcharFaults
  BY <1>2, ExceptionPrepared DEF PutcharFaults, InTask
<1>3. CASE WriteMask
  BY <1>3, WriteMaskPrepared
<1>4. ASSUME NEW flag \in BOOLEAN, SetFlag(flag) PROVE Prepared'
  BY <1>4, TaskPrepared DEF SetFlag
<1>5. ASSUME NEW op \in {"enable", "disable"}, NEW v \in Calls, ReadMask(op, v) PROVE Prepared'
  <2> DEFINE to == IF v < 32 THEN "idle" ELSE "mask"
  <2>1. /\ Task("idle", to) /\ UNCHANGED <<imr, asked, exposed>> /\ Settle
        /\ to = "mask" => reg' = [op |-> op, vector |-> v, mask |-> imr \cap Side(v)]
    BY <1>5 DEF ReadMask
  <2>2. v \in Int /\ (to = "mask" => v >= 32)
    BY LinesAssumption
  <2> HIDE DEF to
  <2> QED
    BY <2>1, <2>2, TaskPrepared
<1>6. ASSUME NEW ms \in Delays \cup {-1}, milli_delay(ms) PROVE Prepared'
  BY <1>6, TaskPrepared DEF milli_delay
<1>7. ASSUME NEW v \in Faults, Fault(v) PROVE Prepared'
  BY <1>7, ExceptionPrepared, LinesAssumption DEF Fault, InTask
<1> QED
  BY <1>1, <1>2, <1>3, <1>4, <1>5, <1>6, <1>7 DEF TaskStep

LEMMA NextPrepared == Inv /\ Prepared /\ [Next]_vars => Prepared'
<1> SUFFICES ASSUME Inv, Prepared, [Next]_vars PROVE Prepared'
  OBVIOUS
<1>1. CASE Nmi \/ DumpRegsFaults
  BY <1>1, ExceptionPrepared DEF Nmi, DumpRegsFaults, Handling, Down
<1>2. CASE UNCHANGED vars
  <2>1. MachineInv' /\ FramesExplained'
    BY <1>2, MachineKept, FramesKept DEF Prepared, vars, startVars, taskVars, cpuVars, picVars
  <2>2. FlagInMain' /\ PicReady' /\ ResetExplained' /\ HaltReported' /\ MasksTrue' /\ WireTrue' /\ EdgesKept'
    BY <1>2 DEF Prepared, vars, startVars, taskVars, cpuVars, picVars, FlagInMain, PicReady, ResetExplained,
      HaltReported, MasksTrue, WireTrue, EdgesKept, EdgeLostOnlyEarly
  <2> QED
    BY <2>1, <2>2 DEF Prepared
<1> QED
  BY <1>1, <1>2, BootPrepared, AcknowledgePrepared, ReturnPrepared, ReportPrepared, TaskStepPrepared,
    RaisePrepared DEF Next, HandlerStep

LEMMA InitPrepared == Init => Prepared
<1> SUFFICES ASSUME Init PROVE Prepared
  OBVIOUS
<1>1. Place(at) = 1 /\ at = "cli"
  BY DEF Init, StartInit, Place
<1>2. MachineInv
  BY <1>1, SMTT(30) DEF Init, StartInit, MachineInv
<1>3. FlagInMain /\ PicReady /\ ResetExplained /\ HaltReported /\ WireTrue /\ EdgesKept /\ FramesExplained
  BY <1>1 DEF Init, StartInit, FlagInMain, PicReady, ResetExplained, HaltReported, WireTrue, EdgesKept,
    EdgeLostOnlyEarly, FramesExplained
<1>4. MasksTrue
  BY DEF Init, MasksTrue, InitialMask
<1> QED
  BY <1>2, <1>3, <1>4 DEF Prepared

LEMMA PreparedAlways == Spec => []Prepared
<1>1. Inv /\ Prepared /\ [Next]_vars => Prepared'
  BY NextPrepared
<1> QED
  BY <1>1, InitPrepared, InvAlways, PTL DEF Spec

-----------------------------------------------------------------------------(* The theorems. *)

LEMMA HandlerOfLine ==
  \A c \in 0 .. 15 : /\ Handler(32 + c) = "timer" <=> c = TIMER
                     /\ Handler(32 + c) = "keyboard" <=> c = KEYBOARD
                     /\ Handler(32 + c) = "report" <=> c \notin {TIMER, KEYBOARD}
  BY DEF Handler, TIMER, KEYBOARD

\* From real mode to the switch of address spaces, no step of the loader, of
\* head.S or of init_gdt resets a machine whose memory was zero, and the
\* kernel's tables map the frame buffer where init_screen takes it to be.
THEOREM NeverReset == Spec => []NoReset
<1>1. Prepared => NoReset
  <2> SUFFICES ASSUME Prepared, at = "switch"
               PROVE  \A i \in 0 .. 7 : Physical(cr3, Framebuffer(i)) = CardPage(i)
    BY DEF NoReset, Prepared, ResetExplained
  <2>1. Place(at) = 20
    BY DEF Place
  <2> QED
    BY <2>1, KernelPages DEF Prepared, MachineInv
<1> QED
  BY <1>1, PreparedAlways, PTL

\* Whenever a line interrupts the kernel, its gate, its vector and the segments
\* that iretq loads are in place: irq_enable_global comes after all of them.
THEOREM InterruptsAlwaysPrepared == Spec => []InterruptsPrepared
<1>1. Prepared => InterruptsPrepared
  <2> SUFFICES ASSUME Prepared, NEW i \in DOMAIN frames, frames[i].cause \in 0 .. 15
               PROVE  /\ at # "faulted" \/ i < Len(frames)
                      /\ frames[i].vector = 32 + frames[i].cause
                      /\ Returnable
    BY HandlerOfLine DEF InterruptsPrepared
  <2>1. FrameExplained(i)
    BY DEF Prepared, FramesExplained
  <2> QED
    BY <2>1, SMTT(30) DEF FrameExplained, EXCEPTION, SPURIOUS
<1> QED
  BY <1>1, PreparedAlways, PTL

\* No interleaving of keys, masks and handlers leaves a byte in the keyboard
\* unannounced, but for one that came before init_8259A.
THEOREM EdgesLostOnlyEarly == Spec => []EdgeLostOnlyEarly
<1>1. Prepared => EdgeLostOnlyEarly
  BY DEF Prepared, EdgesKept
<1> QED
  BY <1>1, PreparedAlways, PTL

\* The frame HaltExplained speaks of is one whose handler reports.
LEMMA FirstReport ==
  ASSUME Inv, NEW n \in DOMAIN frames, Handler(frames[n].vector) = "report"
  PROVE  LET i == SelectInSeq(frames, LAMBDA f : Handler(f.vector) = "report")
         IN i \in DOMAIN frames /\ Handler(frames[i].vector) = "report"
<1> DEFINE I == {i \in 1 .. Len(frames) : Handler(frames[i].vector) = "report"}
<1>1. n \in I /\ I \in SUBSET Nat /\ DOMAIN frames = 1 .. Len(frames)
  BY DEF Inv, TypesOK
<1>2. Min(I) \in I
  <2> HIDE DEF I
  <2>1. PICK x \in I : \A y \in I : x <= y
    BY <1>1, LeastNatural
  <2> QED
    BY <2>1 DEF Min
<1>3. SelectInSeq(frames, LAMBDA f : Handler(f.vector) = "report") = Min(I)
  BY <1>1 DEF SelectInSeq
<1> QED
  BY <1>1, <1>2, <1>3

\* do_default_handler halts the machine for an exception, for a line that
\* irq_enable opened though it has no handler, or for the spurious interrupt
\* after an irq_disable with the flag set; for nothing else.
THEOREM HaltsExplained == Spec => []HaltExplained
<1>1. Inv /\ Prepared => HaltExplained
  <2> SUFFICES ASSUME Inv, Prepared, at = "halted" PROVE HaltExplained
    BY DEF HaltExplained
  <2> DEFINE first == SelectInSeq(frames, LAMBDA f : Handler(f.vector) = "report")
  <2>1. Len(frames) \in DOMAIN frames /\ Handler(frames[Len(frames)].vector) = "report"
    BY DEF Prepared, HaltReported, Inv, TypesOK, Last
  <2>2. first \in DOMAIN frames /\ Handler(frames[first].vector) = "report"
    BY <2>1, FirstReport
  <2> HIDE DEF first
  <2>3. FrameExplained(first)
    BY <2>2 DEF Prepared, FramesExplained
  <2>4. \/ frames[first].cause = EXCEPTION
        \/ frames[first].cause = SPURIOUS /\ exposed
        \/ frames[first].cause \in InitialMask \ asked
    <3>1. CASE frames[first].cause \in (0 .. 15) \ ({CASCADE} \cup asked)
               /\ frames[first].vector = 32 + frames[first].cause
      <4>1. frames[first].cause \notin {TIMER, KEYBOARD}
        BY <2>2, <3>1, HandlerOfLine
      <4> QED
        BY <3>1, <4>1 DEF TIMER, KEYBOARD, CASCADE, InitialMask
    <3> QED
      BY <2>3, <3>1 DEF FrameExplained
  <2> QED
    BY <2>4 DEF HaltExplained, first
<1> QED
  BY <1>1, InvAlways, PreparedAlways, PTL

-----------------------------------------------------------------------------
(* The invariant of milli_delay: until the delay is over, the counter has gone *)
(* on by the ticks that passed.  What a tick adds after that is not counted.   *)

DelayCounted ==
  /\ sys_tick \in 0 .. LongRange - 1
  /\ doing = "delay" =>
       /\ delay \in [ms : Int, t : Int, began : 0 .. LongRange - 1, passed : Nat]
       /\ delay.began < IntHalf =>
            /\ delay.t = delay.began
            /\ \/ Elapsed >= delay.ms
               \/ sys_tick = (delay.began + delay.passed) % LongRange

LEMMA IntOfSmall ==
  ASSUME NEW x \in Int, 0 <= x, x < IntHalf
  PROVE  AsInt(x) = x
<1>1. x % (2 * IntHalf) = x
  BY BoundsAssumption
<1> QED
  BY <1>1 DEF AsInt

\* A step that is none of the timer's and begins no delay.
LEMMA DelayKept ==
  ASSUME DelayCounted, UNCHANGED <<sys_tick, delay>>, doing' = "delay" => doing = "delay"
  PROVE  DelayCounted'
  BY DEF DelayCounted, Elapsed

LEMMA TickCounted ==
  ASSUME Inv, DelayCounted, do_handler_timer
  PROVE  DelayCounted'
<1>1. sys_tick' = (sys_tick + 1) % LongRange /\ doing' = doing
  BY DEF do_handler_timer, Return
<1>2. sys_tick' \in 0 .. LongRange - 1
  BY <1>1, BoundsAssumption DEF DelayCounted
<1>3. CASE doing = "delay" /\ Elapsed < delay.ms
  <2>1. delay \in [ms : Int, t : Int, began : 0 .. LongRange - 1, passed : Nat]
    BY <1>3 DEF DelayCounted
  <2>2. delay' = [delay EXCEPT !.passed = delay.passed + 1]
    BY <1>3 DEF do_handler_timer
  <2>3. /\ delay' \in [ms : Int, t : Int, began : 0 .. LongRange - 1, passed : Nat]
        /\ delay'.ms = delay.ms /\ delay'.t = delay.t /\ delay'.began = delay.began
        /\ delay'.passed = delay.passed + 1
    BY <2>1, <2>2
  <2>4. ASSUME delay.began < IntHalf
        PROVE  sys_tick' = (delay'.began + delay'.passed) % LongRange
    <3>1. ~(Elapsed >= delay.ms)
      BY <1>3, <2>1 DEF Elapsed
    <3>2. sys_tick = (delay.began + delay.passed) % LongRange
      BY <1>3, <2>4, <3>1 DEF DelayCounted
    <3>3. sys_tick' = ((delay.began + delay.passed) + 1) % LongRange
      BY <1>1, <2>1, <3>2, NextRemainder, BoundsAssumption
    <3>4. delay'.began + delay'.passed = (delay.began + delay.passed) + 1
      BY <2>1, <2>3
    <3> QED
      BY <3>3, <3>4
  <2> QED
    BY <1>1, <1>2, <1>3, <2>3, <2>4 DEF DelayCounted
<1>4. CASE ~(doing = "delay" /\ Elapsed < delay.ms)
  <2>1. delay' = delay
    BY <1>4 DEF do_handler_timer
  <2>2. doing = "delay" => Elapsed >= delay.ms /\ Elapsed' >= delay'.ms
    BY <1>4, <2>1 DEF DelayCounted, Elapsed
  <2> QED
    BY <1>1, <1>2, <2>1, <2>2 DEF DelayCounted
<1> QED
  BY <1>3, <1>4

LEMMA DelayBegins ==
  ASSUME DelayCounted, NEW ms \in Delays \cup {-1}, milli_delay(ms)
  PROVE  DelayCounted'
<1>1. /\ delay' = [ms |-> ms, t |-> AsInt(sys_tick), began |-> sys_tick, passed |-> 0]
      /\ sys_tick' = sys_tick
  BY DEF milli_delay, Task
<1>2. sys_tick \in 0 .. LongRange - 1 /\ ms \in Int /\ LongRange \in Nat \ {0} /\ IntHalf \in Nat \ {0}
  BY LinesAssumption, BoundsAssumption DEF DelayCounted
<1>3. AsInt(sys_tick) \in Int
  BY <1>2 DEF AsInt
<1>4. delay'.began < IntHalf => delay'.t = delay'.began
  BY <1>1, <1>2, IntOfSmall
<1>5. (delay'.began + delay'.passed) % LongRange = sys_tick
  BY <1>1, <1>2
<1>6. delay' \in [ms : Int, t : Int, began : 0 .. LongRange - 1, passed : Nat]
  BY <1>1, <1>2, <1>3
<1> QED
  BY <1>1, <1>2, <1>4, <1>5, <1>6 DEF DelayCounted

LEMMA NextDelay == Inv /\ DelayCounted /\ [Next]_vars => DelayCounted'
<1> SUFFICES ASSUME Inv, DelayCounted, [Next]_vars PROVE DelayCounted'
  OBVIOUS
<1>1. CASE do_handler_timer
  BY <1>1, TickCounted
<1>2. ASSUME NEW ms \in Delays \cup {-1}, milli_delay(ms) PROVE DelayCounted'
  BY <1>2, DelayBegins
<1>3. CASE do_handler_keyboard \/ Report \/ DumpRegs \/ DumpRegsFaults \/ Nmi \/ Acknowledge \/ BootStep
  BY <1>3, DelayKept DEF do_handler_keyboard, Return, Report, DumpRegs, DumpRegsFaults, Nmi, Acknowledge,
    Enter, BootStep, StartsUp, init_idt, init_8259A, Inits, irq_enable_global, KernelStep, taskVars
<1>4. ASSUME NEW l \in Raised, Raise(l) PROVE DelayCounted'
  BY <1>4, DelayKept DEF Raise, taskVars
<1>5. CASE kprintf \/ PrintDone \/ putchar \/ PutcharDone \/ PutcharFaults \/ WriteMask
  BY <1>5, DelayKept DEF kprintf, PrintDone, putchar, PutcharDone, PutcharFaults, WriteMask, Task, Enter
<1>6. CASE Poll
  BY <1>6 DEF Poll, Task, DelayCounted
<1>7. ASSUME NEW flag \in BOOLEAN, SetFlag(flag) PROVE DelayCounted'
  BY <1>7, DelayKept DEF SetFlag, Task
<1>8. ASSUME NEW op \in {"enable", "disable"}, NEW v \in Calls, ReadMask(op, v) PROVE DelayCounted'
  <2>1. UNCHANGED <<sys_tick, delay>> /\ doing' \in {"idle", "mask"}
    BY <1>8 DEF ReadMask, Task
  <2> QED
    BY <2>1, DelayKept
<1>9. ASSUME NEW v \in Faults, Fault(v) PROVE DelayCounted'
  BY <1>9, DelayKept DEF Fault, Enter
<1>10. CASE UNCHANGED vars
  BY <1>10, DelayKept DEF vars, taskVars
<1> QED
  BY <1>1, <1>2, <1>3, <1>4, <1>5, <1>6, <1>7, <1>8, <1>9, <1>10 DEF Next, HandlerStep, TaskStep

LEMMA DelayAlwaysCounted == Spec => []DelayCounted
<1>1. Init => DelayCounted
  BY BoundsAssumption DEF Init, DelayCounted
<1>2. Inv /\ DelayCounted /\ [Next]_vars => DelayCounted'
  BY NextDelay
<1> QED
  BY <1>1, <1>2, InvAlways, PTL DEF Spec

\* The test of the loop is about ticks that passed.
LEMMA OverMeansElapsed ==
  ASSUME DelayCounted, doing = "delay", DelayOver, delay.began < IntHalf
  PROVE  Elapsed >= delay.ms
<1>1. delay \in [ms : Int, t : Int, began : 0 .. LongRange - 1, passed : Nat]
      /\ LongRange \in Nat \ {0} /\ delay.t = delay.began
  BY BoundsAssumption DEF DelayCounted
<1>2. CASE sys_tick = (delay.began + delay.passed) % LongRange
  <2> DEFINE ticks == (sys_tick - delay.t) % LongRange
  <2>1. ticks \in Nat /\ ticks <= delay.passed
    BY <1>1, <1>2, DifferenceAtMost
  <2>2. (ticks * 1000) \div 100 >= delay.ms
    BY DEF DelayOver
  <2> HIDE DEF ticks
  <2> QED
    BY <1>1, <2>1, <2>2 DEF Elapsed
<1> QED
  BY <1>2 DEF DelayCounted

\* milli_delay never returns early, whatever the widths of its counters and
\* however often the tick counter goes round while it waits.
THEOREM DelaysLongEnough == Spec => DelayLongEnough
<1>1. DelayCounted /\ [Next]_vars =>
        [doing = "delay" /\ doing' = "idle" /\ delay.began < IntHalf => Elapsed >= delay.ms]_vars
  <2> SUFFICES ASSUME DelayCounted, Next, doing = "delay", doing' = "idle", delay.began < IntHalf
               PROVE  Elapsed >= delay.ms
    OBVIOUS
  <2>1. Poll
    BY DEF Next, BootStep, StartsUp, init_idt, init_8259A, Inits, irq_enable_global, KernelStep, taskVars,
      HandlerStep, do_handler_timer, do_handler_keyboard, Return, Report, DumpRegs, DumpRegsFaults, Nmi,
      Acknowledge, Enter, Raise, TaskStep, kprintf, PrintDone, putchar, PutcharDone, PutcharFaults, WriteMask,
      SetFlag, ReadMask, milli_delay, Fault, Task
  <2> QED
    BY <2>1, OverMeansElapsed DEF Poll
<1> QED
  BY <1>1, DelayAlwaysCounted, PTL DEF Spec, DelayLongEnough
=============================================================================

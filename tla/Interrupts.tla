----------------------------- MODULE Interrupts -----------------------------
(***************************************************************************)
(* kernel_init from init_idt on, the two 8259As, every interrupt and       *)
(* exception, and a task of the kernel at work: it prints, masks and       *)
(* unmasks lines, sets the flag and waits with milli_delay.                *)
(*                                                                         *)
(* The processor takes an interrupt after an instruction, from what the    *)
(* INTR wire was during it: an instruction that masks the line it stands   *)
(* for is still followed by the interrupt, and the 8259A, with nothing to  *)
(* deliver, answers with line 7.                                           *)
(***************************************************************************)
EXTENDS Startup, Sequences, FiniteSets, SequencesExt

CONSTANTS
  Raised,   \* the lines whose devices ask for interrupts
  Calls,    \* arguments of irq_enable and irq_disable
  Faults,   \* vectors of the exceptions a task may cause
  Delays,   \* arguments of milli_delay, beside a negative one
  IntHalf, LongRange,  \* how many an int is not below 0, and a u64: 2^31, 2^64
  MaxNest   \* handlers the stack has room for

VARIABLES
  irr, isr, imr,  \* the lines requested, in service, masked (slave: 8 .. 15)
  remapped,       \* the 8259As are initialised
  wire,           \* INTR
  obf,            \* the keyboard holds a byte, and its line
  frames,         \* the handlers that run, the innermost last
  depth,          \* words of the stack in use, below the task's
  doing,          \* what the task is in
  reg,            \* the mask between inb and outb
  locals,         \* the locals of a leaf function, below the stack pointer
  buf,            \* whose text is in the buffer of kprintf
  sys_tick, delay,
  asked,          \* history: the mask the calls so far have asked for
  exposed,        \* history: a line was masked with the flag set
  early           \* history: a byte came before init_8259A

picVars == <<irr, isr, imr, remapped, wire, obf, early>>
cpuVars == <<intr, frames, depth>>
taskVars == <<doing, reg, locals, buf, delay, asked, exposed>>
vars == <<startVars, picVars, cpuVars, taskVars, sys_tick>>

\* No device has line 2, where the slave is.
ASSUME LinesAssumption ==
  /\ Raised \subseteq (0 .. 15) \ {2} /\ Faults \subseteq 0 .. 31
  /\ Calls \subseteq Int /\ Delays \subseteq Int
ASSUME BoundsAssumption ==
  /\ IntHalf \in Nat \ {0} /\ LongRange \in Nat /\ LongRange > 2 * IntHalf
  /\ MaxNest \in Nat \ {0}

-----------------------------------------------------------------------------
(* The 8259As. *)

TIMER == 0
KEYBOARD == 1
CASCADE == 2
Slave == 8 .. 15

\* Causes of a frame that are no line.
SPURIOUS == 16
EXCEPTION == 17

\* The place of a line in the order of priorities.
Rank(l) == IF l <= CASCADE THEN l ELSE IF l \in Slave THEN l - 6 ELSE l + 7

\* A line is delivered when it is open, and the slave's way to the master too,
\* and no line of its own or a higher priority is in service.
Deliverable(requests, service, mask) ==
  {l \in requests \ mask :
     /\ l \in Slave => CASCADE \notin mask
     /\ \A s \in service : Rank(l) < Rank(s)}
First(lines) == CHOOSE l \in lines : \A k \in lines : Rank(l) <= Rank(k)

\* The vectors of ICW2; before, those the BIOS gave.
VectorOf(l) == IF remapped THEN 32 + l ELSE IF l \in Slave THEN 104 + l ELSE 8 + l

Wire(requests, service, mask) == Deliverable(requests, service, mask) # {}
Settle == wire' = Wire(irr', isr', imr')

\* A non-specific EOI to the master and one to the slave.
Ended(service) == IF service = {} THEN {} ELSE {First(service)}
Eoi(service) == service \ (Ended(service \ Slave) \cup Ended(service \cap Slave))

\* The masks init_8259A ends with: lines 0, 1 and 2 are open.
InitialMask == 3 .. 15

-----------------------------------------------------------------------------
(* Gates and stack frames. *)

\* A mutant: no irq_install for the keyboard.
HandlerTimerOnly(v) == IF v = 32 THEN "timer" ELSE "report"

\* What init_idt installs where: a handler that reports and halts, of its own
\* or for an unknown cause, but for two vectors.
Handler(v) == CASE v = 32 -> "timer" [] v = 33 -> "keyboard" [] OTHER -> "report"

HasErrorCode(v) == v \in {8, 10, 11, 12, 13, 14, 17}

\* Words of the stack: the processor's, those of the entry code, iretq's.
Pushed(v) == IF HasErrorCode(v) THEN 6 ELSE 5
Saved == 15
\* A mutant: a pop is missing.
RestoredOneLess == 14
Restored == 15
Popped == 5

\* Words that a call of the task has on the stack.
Called(d) == CASE d \in {"idle", "mask"} -> 0 [] d \in {"print", "delay"} -> 2 [] OTHER -> 4

Down == at \in {"halted", "unreached", "faulted", "paused"}
InTask == at = "main" /\ frames = <<>>

GateReached == idt = "kernel" /\ IsCode64(Entry(gdt, 8)) /\ AtHigh(at) /\ Reached(at)
Returnable == IsCode64(Entry(gdt, cs.sel)) /\ IsData(Entry(gdt, ss.sel))

\* The processor stores a frame where the stack ends: a leaf function of the
\* task has its locals there (no Makefile gives -mno-red-zone).
Enter(v, cause) ==
  /\ frames' = Append(frames, [cause |-> cause, vector |-> v, told |-> FALSE])
  /\ at' = IF GateReached /\ Len(frames) < MaxNest THEN at ELSE "faulted"
  /\ depth' = depth + Pushed(v) + Saved
  /\ intr' = FALSE
  /\ locals' = IF locals = "none" THEN "none" ELSE "lost"
  /\ UNCHANGED <<clean, longMode, machineVars, remapped, obf, early, doing, reg, buf, delay,
                 asked, exposed, sys_tick>>

-----------------------------------------------------------------------------
Init ==
  /\ StartInit
  /\ irr = {} /\ isr = {} /\ imr = {} /\ remapped = FALSE /\ wire = FALSE
  /\ obf = FALSE /\ early = FALSE
  /\ frames = <<>> /\ depth = 0
  /\ doing = "idle" /\ reg = [op |-> "none"] /\ locals = "none" /\ buf = "none"
  /\ sys_tick = 0 /\ delay = [ms |-> 0]
  /\ asked = InitialMask /\ exposed = FALSE

(* The devices. *)

\* A line goes up: the 8259A keeps the edge.  The keyboard's stays up until its
\* byte is read, so there is no other edge before.
Raise(l) ==
  /\ ~Down /\ at # "cli" /\ l \notin irr
  /\ l = KEYBOARD => ~obf
  /\ irr' = irr \cup {l}
  /\ obf' = (obf \/ (l = KEYBOARD))
  /\ early' = (early \/ (l = KEYBOARD /\ ~remapped))
  /\ wire' = (wire \/ Wire(irr', isr, imr))
  /\ UNCHANGED <<startVars, isr, imr, remapped, frames, depth, taskVars, sys_tick>>

\* The processor takes the interrupt.  If the request has been masked since,
\* the 8259A answers with line 7, which is not in service then.
Acknowledge ==
  /\ ~Down /\ at # "cli" /\ intr /\ wire
  /\ LET open == Deliverable(irr, isr, imr)
         l    == First(open)
     IN IF open # {}
          THEN /\ irr' = irr \ {l}
               /\ isr' = isr \cup {l} \cup (IF l \in Slave THEN {CASCADE} ELSE {})
               /\ Enter(VectorOf(l), l)
          ELSE UNCHANGED <<irr, isr>> /\ Enter(VectorOf(7), SPURIOUS)
  /\ UNCHANGED imr /\ Settle

\* An exception of the task, or an NMI wherever it comes.
Fault(v) ==
  /\ InTask
  /\ Enter(v, EXCEPTION) /\ UNCHANGED <<irr, isr, imr, wire>>
Nmi ==
  /\ ~Down /\ at # "cli"
  /\ Enter(2, EXCEPTION) /\ UNCHANGED <<irr, isr, imr, wire>>

-----------------------------------------------------------------------------
(* The handlers, which run with the flag clear. *)

Handling(h) == ~Down /\ frames # <<>> /\ Handler(Last(frames).vector) = h

\* pop the registers, iretq
Return ==
  /\ frames' = Front(frames)
  /\ depth' = depth - Restored - Popped
  /\ intr' = (Len(frames) = 1)
  /\ UNCHANGED <<at, machineVars, clean, longMode, irr, imr, remapped, early, doing, reg, locals,
                 buf, asked, exposed>>
  /\ Settle

\* The milliseconds since milli_delay was called, counted no further than
\* asked for: 1000 over HZ to a tick.
Elapsed == (delay.passed * 1000) \div 100

\* Mutants: the timer's handler prints the ticks; it ends nothing.
TimerPrints ==
  /\ Handling("timer")
  /\ sys_tick' = (sys_tick + 1) % LongRange
  /\ isr' = Eoi(isr) /\ buf' = "handler"
  /\ frames' = Front(frames) /\ depth' = depth - Restored - Popped /\ intr' = (Len(frames) = 1)
  /\ UNCHANGED <<at, machineVars, clean, longMode, irr, imr, remapped, obf, early, doing, reg,
                 locals, delay, asked, exposed>>
  /\ Settle
TimerWithoutEoi ==
  /\ Handling("timer")
  /\ sys_tick' = (sys_tick + 1) % LongRange
  /\ UNCHANGED <<isr, obf, delay>> /\ Return

do_handler_timer ==
  /\ Handling("timer")
  /\ sys_tick' = (sys_tick + 1) % LongRange
  /\ delay' = IF doing = "delay" /\ Elapsed < delay.ms
                THEN [delay EXCEPT !.passed = @ + 1] ELSE delay
  /\ isr' = Eoi(isr)
  /\ UNCHANGED obf /\ Return

\* A mutant: port 0x60 is not read.
KeyboardUnread ==
  /\ Handling("keyboard")
  /\ isr' = Eoi(isr \ {KEYBOARD})
  /\ UNCHANGED <<obf, sys_tick, delay>> /\ Return

do_handler_keyboard ==
  /\ Handling("keyboard")
  /\ obf' = FALSE
  /\ isr' = Eoi(isr \ {KEYBOARD})
  /\ UNCHANGED <<sys_tick, delay>> /\ Return

\* do_default_handler prints, first a message and then the registers, through
\* a pointer to them that the entry code does not pass.
Report ==
  /\ Handling("report") /\ ~Last(frames).told
  /\ frames' = [frames EXCEPT ![Len(frames)].told = TRUE]
  /\ buf' = "handler"
  /\ UNCHANGED <<startVars, picVars, depth, doing, reg, locals, delay, asked, exposed, sys_tick>>
DumpRegs ==
  /\ Handling("report") /\ Last(frames).told
  /\ at' = "halted"
  /\ UNCHANGED <<clean, longMode, machineVars, intr, picVars, frames, depth, taskVars, sys_tick>>
DumpRegsFaults ==
  /\ Handling("report") /\ Last(frames).told
  /\ Enter(14, EXCEPTION) /\ UNCHANGED <<irr, isr, imr, wire>>

HandlerStep == do_handler_timer \/ do_handler_keyboard \/ Report \/ DumpRegs \/ DumpRegsFaults

-----------------------------------------------------------------------------
(* kernel_init from init_idt on; each call is a step. *)

StartsUp ==
  /\ frames = <<>> /\ StartStep
  /\ UNCHANGED <<irr, isr, imr, remapped, obf, early, frames, depth, taskVars, sys_tick>>
  /\ Settle

KernelStep(step, next) ==
  /\ frames = <<>> /\ Then(step, next, TRUE)
  /\ UNCHANGED <<frames, depth, taskVars, sys_tick>>

init_idt ==
  /\ KernelStep("idt", "pic")
  /\ idt' = "kernel"
  /\ UNCHANGED <<cr, cr3, tables, gdt, cs, ss, a20, picVars>>

\* ICW1 forgets requests and edges: a line that is up stays unnoticed.
init_8259A ==
  /\ KernelStep("pic", "screen")
  /\ irr' = {} /\ isr' = {} /\ imr' = InitialMask /\ remapped' = TRUE
  /\ UNCHANGED <<machineVars, obf, early>> /\ Settle

\* init_screen, init_memory and init_time touch none of this.
Inits ==
  /\ \/ KernelStep("screen", "memory") \/ KernelStep("memory", "time") \/ KernelStep("time", "sti")
  /\ UNCHANGED <<machineVars, irr, isr, imr, remapped, obf, early>> /\ Settle

irq_enable_global ==
  /\ KernelStep("sti", "main")
  /\ intr' = TRUE
  /\ UNCHANGED <<machineVars, irr, isr, imr, remapped, obf, early>> /\ Settle

BootStep == StartsUp \/ init_idt \/ init_8259A \/ Inits \/ irq_enable_global

-----------------------------------------------------------------------------
(* The task. *)

Task(from, to) ==
  /\ InTask /\ doing = from
  /\ doing' = to
  /\ depth' = depth + Called(to) - Called(from)
  /\ UNCHANGED <<at, machineVars, clean, longMode, irr, isr, remapped, obf, early, frames, sys_tick>>

\* kprintf: vsprintf into buf, then character by character.
kprintf ==
  /\ Task("idle", "print")
  /\ buf' = "task"
  /\ UNCHANGED <<intr, imr, reg, locals, delay, asked, exposed>> /\ Settle
PrintDone ==
  /\ Task("print", "idle")
  /\ buf' = "none"
  /\ UNCHANGED <<intr, imr, reg, locals, delay, asked, exposed>> /\ Settle

\* putchar calls nothing, so its parameters and locals lie below the stack
\* pointer.
putchar ==
  /\ Task("print", "glyph")
  /\ locals' = "live"
  /\ UNCHANGED <<intr, imr, reg, buf, delay, asked, exposed>> /\ Settle
PutcharDone ==
  /\ Task("glyph", "print")
  /\ locals' = "none"
  /\ UNCHANGED <<intr, imr, reg, buf, delay, asked, exposed>> /\ Settle
\* Where it stores with locals that are lost is anywhere; a place without a
\* page is an exception.
PutcharFaults ==
  /\ InTask /\ locals = "lost"
  /\ Enter(14, EXCEPTION) /\ UNCHANGED <<irr, isr, imr, wire>>

\* cli and sti
SetFlag(flag) ==
  /\ Task("idle", "idle") /\ intr # flag
  /\ intr' = flag
  /\ UNCHANGED <<imr, reg, locals, buf, delay, asked, exposed>> /\ Settle

\* The mask register of the 8259A a vector belongs to, and the bit for it:
\* shifted out of the byte beyond the last line.
Side(v) == IF v - 32 < 8 THEN 0 .. 7 ELSE Slave
Bit(v)  == {v - 32} \cap Side(v)

\* irq_enable and irq_disable: a vector below the first is not for them.
ReadMask(op, v) ==
  /\ Task("idle", IF v < 32 THEN "idle" ELSE "mask")
  /\ reg' = IF v < 32 THEN reg ELSE [op |-> op, vector |-> v, mask |-> imr \cap Side(v)]
  /\ UNCHANGED <<intr, imr, locals, buf, delay, asked, exposed>> /\ Settle

WriteMask ==
  /\ Task("mask", "idle")
  /\ LET v == reg.vector
         mask == IF reg.op = "enable" THEN reg.mask \ Bit(v) ELSE reg.mask \cup Bit(v)
     IN /\ imr' = (imr \ Side(v)) \cup mask
        /\ asked' = IF reg.op = "enable" THEN asked \ {v - 32} ELSE asked \cup ({v - 32} \cap (0 .. 15))
        /\ exposed' = (exposed \/ (reg.op = "disable" /\ intr))
        /\ wire' = (wire \/ Wire(irr, isr, imr'))
  /\ reg' = [op |-> "none"]
  /\ UNCHANGED <<intr, locals, buf, delay>>

\* int t = get_ticks()
AsInt(x) == LET w == x % (2 * IntHalf) IN IF w < IntHalf THEN w ELSE w - 2 * IntHalf

milli_delay(ms) ==
  /\ Task("idle", "delay")
  /\ delay' = [ms |-> ms, t |-> AsInt(sys_tick), began |-> sys_tick, passed |-> 0]
  /\ UNCHANGED <<intr, imr, reg, locals, buf, asked, exposed>> /\ Settle

\* The test of the loop, in 64 bits without a sign: a negative milli_sec is
\* more than any difference.  The product stays within 64 bits for the first
\* 2^54 ticks, five million years, and is not cut.
\* A mutant: the division rounds up.
DelayOverRounded ==
  LET ticks == (sys_tick - delay.t) % LongRange
  IN delay.ms >= 0 /\ (ticks * 1000 + 999) \div 100 >= delay.ms

DelayOver ==
  LET ticks == (sys_tick - delay.t) % LongRange
  IN delay.ms >= 0 /\ (ticks * 1000) \div 100 >= delay.ms
Poll ==
  /\ Task("delay", "idle") /\ DelayOver
  /\ delay' = [ms |-> 0]
  /\ UNCHANGED <<intr, imr, reg, locals, buf, asked, exposed>> /\ Settle

TaskStep ==
  \/ kprintf \/ PrintDone \/ putchar \/ PutcharDone \/ PutcharFaults \/ Poll \/ WriteMask
  \/ \E flag \in BOOLEAN : SetFlag(flag)
  \/ \E op \in {"enable", "disable"}, v \in Calls : ReadMask(op, v)
  \/ \E ms \in Delays \cup {-1} : milli_delay(ms)
  \/ \E v \in Faults : Fault(v)

Next ==
  \/ BootStep \/ HandlerStep \/ TaskStep \/ Acknowledge \/ Nmi
  \/ \E l \in Raised : Raise(l)

Spec == Init /\ [][Next]_vars

\* The timer's pulses go on, the processor takes what it is offered, and
\* handlers go on.  The loop of milli_delay makes its test many times in a tick:
\* one that is true in tick after tick is made.
FairSpec ==
  /\ Spec
  /\ WF_vars(Raise(TIMER)) /\ WF_vars(Acknowledge)
  /\ WF_vars(HandlerStep) /\ SF_vars(Poll)

-----------------------------------------------------------------------------
\* The kernel is reached from every machine whose memory below the loader's
\* page tables was zero: each step finds its code, its stack, its descriptors.
\* When its page tables are in use, the addresses init_screen gives the frame
\* buffer lead to the card.
NoReset ==
  /\ at = "unreached" => ~clean
  /\ at = "switch" => \A i \in 0 .. 7 : Physical(cr3, Framebuffer(i)) = CardPage(i)

\* An interrupt of a device finds its handler, at its vector, with a code and
\* a stack selector that iretq can load again; none resets the machine.
InterruptsPrepared ==
  \A i \in DOMAIN frames :
    frames[i].cause \in 0 .. 15 =>
      /\ at # "faulted" \/ i < Len(frames)
      /\ frames[i].vector = 32 + frames[i].cause
      /\ frames[i].cause = TIMER <=> Handler(frames[i].vector) = "timer"
      /\ frames[i].cause = KEYBOARD <=> Handler(frames[i].vector) = "keyboard"
      /\ Returnable

\* Back in the task, the stack is as the interrupt found it.
StackBalanced == InTask => depth = Called(doing)

\* The machine halts for an exception, for a line that was opened without a
\* handler, or because a line was masked with the flag set.
HaltExplained ==
  at = "halted" =>
    LET first == SelectInSeq(frames, LAMBDA f : Handler(f.vector) = "report")
        cause == frames[first].cause
    IN \/ cause = EXCEPTION
       \/ cause = SPURIOUS /\ exposed
       \/ cause \in InitialMask \ asked

\* The text a task prints is its own to the end: who prints over it never
\* gives the processor back.
PrintNotResumed == InTask /\ doing \in {"print", "glyph"} => buf = "task"

\* A byte of the keyboard waits unannounced only if it came before init_8259A.
EdgeLostOnlyEarly ==
  obf => \/ KEYBOARD \in irr \/ early
         \/ \E i \in DOMAIN frames : frames[i].cause = KEYBOARD

\* A function that is interrupted goes on with the locals it had.
LocalsKept == InTask => locals # "lost"

\* milli_delay returns after the ticks asked for, if called in the first
\* 2^31 ticks.
DelayLongEnough ==
  [][doing = "delay" /\ doing' = "idle" /\ delay.began < IntHalf
       => Elapsed >= delay.ms]_vars

\* It does return, with the flag set and the timer's line open.
DelayEnds ==
  InTask /\ doing = "delay" /\ intr /\ TIMER \notin imr /\ delay.ms >= 0
    ~> doing # "delay" \/ Down
=============================================================================

---------------------------- MODULE KeyboardPath ----------------------------
(***************************************************************************)
(* The path of a scancode from the keyboard controller to the tty task:    *)
(* the controller's output byte, the master 8259A, the interrupt flag of   *)
(* the one CPU, the timer and keyboard interrupt handlers                  *)
(* (interupt/irq.c, interupt/irq_handler.asm), the byte ring kb_buf, and   *)
(* the task that initialises the ring (init_keyboard) and empties it       *)
(* (get_byte_from_kbuf) while those handlers interrupt it.                 *)
(*                                                                         *)
(* A step of the task is one store or load of kb_buf that an interrupt can *)
(* separate from the next in the unoptimised build of the Makefiles.  The  *)
(* handlers run with interrupts disabled, and are split where another      *)
(* party (the controller, the 8259A) can see the difference.  The slave    *)
(* 8259A is fully masked (init_8259A writes 0xff), so the EOIs sent to it  *)
(* have no effect and are left out.                                        *)
(***************************************************************************)
EXTENDS RingBuffer, FiniteSets

CONSTANTS
  Code,        \* the scancodes the keyboard may send
  NoByte,      \* the controller's output register when it holds nothing
  BufferSize,  \* buffer_size of device/keyboard.c
  TickLimit,   \* sys_tick wraps here (2^64 in the code)
  EarlyKeys    \* may a key be hit before init_keyboard is done?

Byte == Code \cup {0}

ASSUME BufferSizeAssumption == BufferSize \in Nat \ {0}
ASSUME TickLimitAssumption  == TickLimit \in Nat \ {0}
ASSUME NoByteAssumption     == NoByte \notin Byte
ASSUME EarlyKeysAssumption  == EarlyKeys \in BOOLEAN

VARIABLES
  obf,          \* the output byte of the keyboard controller (port 0x60)
  irr, isr,     \* request and in-service registers of the master 8259A
  intr,         \* the interrupt flag of the CPU
  frames,       \* where each interrupt handler on the stack is, innermost first
  pc,           \* where the task is
  kb_buf,       \* the ring
  reg,          \* the register between a load and the store that follows it
  scan_code,    \* the byte get_byte_from_kbuf returns
  key_pressed,
  sys_tick

ioVars   == <<obf, irr, isr>>
cpuVars  == <<intr, frames>>
taskVars == <<pc, reg, scan_code>>
vars == <<ioVars, cpuVars, taskVars, kb_buf, key_pressed, sys_tick>>

TIMER    == 0
KEYBOARD == 1

\* The lines open after init_8259A: the master's mask is 0xf8.
MasterMask == 248
Unmasked == {n \in 0 .. 7 : (MasterMask \div 2^n) % 2 = 0}

Boot     == {"sti", "init_count", "init_size", "init_write", "init_load", "init_read"}
Critical == {"get", "wrap", "load", "store", "get_sti"}
Labels   == Boot \cup {"poll", "cli"} \cup Critical
HandlerLabels == {"tick", "kbd_eoi", "kbd_read", "eoi"}

Init ==
  /\ obf = NoByte /\ irr = {} /\ isr = {}
  /\ intr = FALSE /\ frames = <<>>
  /\ pc = "sti" /\ reg = 0 /\ scan_code \in Byte
  /\ kb_buf = Uninitialised(BufferSize, 0)
  /\ key_pressed = 0 /\ sys_tick = 0

-----------------------------------------------------------------------------
(* The devices. *)

\* The controller fills its output byte; the edge on line 1 is latched.
Present(c) ==
  /\ EarlyKeys \/ pc \notin Boot
  /\ obf = NoByte
  /\ obf' = c
  /\ irr' = irr \cup {KEYBOARD}
  /\ UNCHANGED <<isr, cpuVars, taskVars, kb_buf, key_pressed, sys_tick>>

\* The 8253 raises line 0.  Its period (10 ms) is longer than the handler of
\* the tick before; a tick that finds the last one still pending is lost.
TimerTick ==
  /\ TIMER \notin isr
  /\ irr' = irr \cup {TIMER}
  /\ UNCHANGED <<obf, isr, cpuVars, taskVars, kb_buf, key_pressed, sys_tick>>

-----------------------------------------------------------------------------
(* Interrupt delivery, and the two handlers. *)

Handler(n) == IF n = TIMER THEN "tick" ELSE "kbd_eoi"

\* The line the 8259A offers the CPU: the highest-priority one that is open
\* and pending, if no line of its priority or above is in service.
Offered(n) ==
  /\ n \in irr \cap Unmasked
  /\ \A m \in irr \cap Unmasked : n <= m
  /\ \A m \in isr : n < m

\* A mutant: a trap gate, and no cli in the entry code.
FlagLeftSet == TRUE

\* irq_install makes every entry an interrupt gate, and the entry code
\* begins with cli: a handler starts with the flag clear.
FlagInHandler == FALSE

Interrupt(n) ==
  /\ intr
  /\ Offered(n)
  /\ irr' = irr \ {n}
  /\ isr' = isr \cup {n}
  /\ frames' = <<Handler(n)>> \o frames
  /\ intr' = FlagInHandler
  /\ UNCHANGED <<obf, taskVars, kb_buf, key_pressed, sys_tick>>

InHandler(label) == frames # <<>> /\ Head(frames) = label
HandlerGoto(label) == frames' = <<label>> \o Tail(frames)

\* do_handler_timer, up to its EOI
Tick ==
  /\ InHandler("tick")
  /\ sys_tick' = (sys_tick + 1) % TickLimit
  /\ HandlerGoto("eoi")
  /\ UNCHANGED <<ioVars, intr, taskVars, kb_buf, key_pressed>>

\* outb(0x20, 0x61): a specific EOI for line 1
KeyboardEoi ==
  /\ InHandler("kbd_eoi")
  /\ isr' = isr \ {KEYBOARD}
  /\ HandlerGoto("kbd_read")
  /\ UNCHANGED <<obf, irr, intr, taskVars, kb_buf, key_pressed, sys_tick>>

\* A mutant: the port is read only if there is room.
KeyboardReadIfRoom ==
  /\ InHandler("kbd_read")
  /\ kb_buf' = BufferPut(kb_buf, obf)
  /\ obf' = IF BufferFull(kb_buf) THEN obf ELSE NoByte
  /\ key_pressed' = 1
  /\ HandlerGoto("eoi")
  /\ UNCHANGED <<irr, isr, intr, taskVars, sys_tick>>

\* buffer_put(&kb_buf, inb(0x60)), its result ignored: the port is read
\* whether or not there is room
KeyboardRead ==
  /\ InHandler("kbd_read")
  /\ kb_buf' = BufferPut(kb_buf, obf)
  /\ obf' = NoByte
  /\ key_pressed' = 1
  /\ HandlerGoto("eoi")
  /\ UNCHANGED <<irr, isr, intr, taskVars, sys_tick>>

\* A mutant: the handlers return without the last EOI.
ReturnWithoutEoi ==
  /\ InHandler("eoi")
  /\ frames' = Tail(frames)
  /\ intr' = TRUE
  /\ UNCHANGED <<ioVars, taskVars, kb_buf, key_pressed, sys_tick>>

\* outb(0x20, 0x20): the highest-priority line in service is done; then iretq
\* restores the flags the interrupt found, which had interrupts enabled
EoiAndReturn ==
  /\ InHandler("eoi")
  /\ isr' = {n \in isr : \E m \in isr : m < n}
  /\ frames' = Tail(frames)
  /\ intr' = TRUE
  /\ UNCHANGED <<obf, irr, taskVars, kb_buf, key_pressed, sys_tick>>

HandlerStep == Tick \/ KeyboardEoi \/ KeyboardRead \/ EoiAndReturn
-----------------------------------------------------------------------------
(* The task: kernel_init from irq_enable_global on, then the calls of       *)
(* get_byte_from_kbuf.                                                      *)

TaskAt(label) == frames = <<>> /\ pc = label

EnableGlobal ==
  /\ TaskAt("sti")
  /\ intr' = TRUE
  /\ pc' = "init_count"
  /\ UNCHANGED <<ioVars, frames, reg, scan_code, kb_buf, key_pressed, sys_tick>>

\* buffer_init(&kb_buf, ...), store by store; the last line of it is
\* write := 0, then a load of write, then the store of read
InitCount ==
  /\ TaskAt("init_count")
  /\ kb_buf' = [kb_buf EXCEPT !.count = 0]
  /\ pc' = "init_size"
  /\ UNCHANGED <<ioVars, cpuVars, reg, scan_code, key_pressed, sys_tick>>

InitSize ==
  /\ TaskAt("init_size")
  /\ kb_buf' = [kb_buf EXCEPT !.size = BufferSize]
  /\ pc' = "init_write"
  /\ UNCHANGED <<ioVars, cpuVars, reg, scan_code, key_pressed, sys_tick>>

InitWrite ==
  /\ TaskAt("init_write")
  /\ kb_buf' = [kb_buf EXCEPT !.write = 0]
  /\ pc' = "init_load"
  /\ UNCHANGED <<ioVars, cpuVars, reg, scan_code, key_pressed, sys_tick>>

InitLoad ==
  /\ TaskAt("init_load")
  /\ reg' = kb_buf.write
  /\ pc' = "init_read"
  /\ UNCHANGED <<ioVars, cpuVars, scan_code, kb_buf, key_pressed, sys_tick>>

InitRead ==
  /\ TaskAt("init_read")
  /\ kb_buf' = [kb_buf EXCEPT !.read = reg]
  /\ pc' = "poll"
  /\ UNCHANGED <<ioVars, cpuVars, reg, scan_code, key_pressed, sys_tick>>

\* while (kb_buf.count <= 0) {}
Poll ==
  /\ TaskAt("poll")
  /\ ~BufferEmpty(kb_buf)
  /\ pc' = "cli"
  /\ UNCHANGED <<ioVars, cpuVars, reg, scan_code, kb_buf, key_pressed, sys_tick>>

\* A mutant: get_byte_from_kbuf without irq_disable_global.
DisableNothing ==
  /\ TaskAt("cli")
  /\ pc' = "get"
  /\ UNCHANGED <<ioVars, cpuVars, reg, scan_code, kb_buf, key_pressed, sys_tick>>

DisableGlobal ==
  /\ TaskAt("cli")
  /\ intr' = FALSE
  /\ pc' = "get"
  /\ UNCHANGED <<ioVars, frames, reg, scan_code, kb_buf, key_pressed, sys_tick>>

\* buffer_get up to the increment of read.  On an empty ring scan_code is
\* never written: it is whatever the stack held.
Fetch ==
  /\ TaskAt("get")
  /\ scan_code' \in IF BufferEmpty(kb_buf) THEN Byte ELSE {BufferFront(kb_buf)}
  /\ kb_buf' = IF BufferEmpty(kb_buf) THEN kb_buf ELSE [kb_buf EXCEPT !.read = @ + 1]
  /\ pc' = IF BufferEmpty(kb_buf) THEN "get_sti" ELSE "wrap"
  /\ UNCHANGED <<ioVars, cpuVars, reg, key_pressed, sys_tick>>

WrapRead ==
  /\ TaskAt("wrap")
  /\ kb_buf' = [kb_buf EXCEPT !.read = Wrap(kb_buf, @)]
  /\ pc' = "load"
  /\ UNCHANGED <<ioVars, cpuVars, reg, scan_code, key_pressed, sys_tick>>

LoadCount ==
  /\ TaskAt("load")
  /\ reg' = kb_buf.count
  /\ pc' = "store"
  /\ UNCHANGED <<ioVars, cpuVars, scan_code, kb_buf, key_pressed, sys_tick>>

StoreCount ==
  /\ TaskAt("store")
  /\ kb_buf' = [kb_buf EXCEPT !.count = reg - 1]
  /\ pc' = "get_sti"
  /\ UNCHANGED <<ioVars, cpuVars, reg, scan_code, key_pressed, sys_tick>>

\* A mutant: get_byte_from_kbuf without irq_enable_global.
ReturnDisabled ==
  /\ TaskAt("get_sti")
  /\ pc' = "poll"
  /\ UNCHANGED <<ioVars, cpuVars, reg, scan_code, kb_buf, key_pressed, sys_tick>>

\* irq_enable_global, and the return to keyboard_read, which comes back for
\* the next byte
EnableAndReturn ==
  /\ TaskAt("get_sti")
  /\ intr' = TRUE
  /\ pc' = "poll"
  /\ UNCHANGED <<ioVars, frames, reg, scan_code, kb_buf, key_pressed, sys_tick>>

BootStep ==
  EnableGlobal \/ InitCount \/ InitSize \/ InitWrite \/ InitLoad \/ InitRead
GetStep ==
  Poll \/ DisableGlobal \/ Fetch \/ WrapRead \/ LoadCount \/ StoreCount
    \/ EnableAndReturn
TaskStep == BootStep \/ GetStep

-----------------------------------------------------------------------------
Next ==
  \/ \E c \in Code : Present(c)
  \/ TimerTick
  \/ \E n \in {TIMER, KEYBOARD} : Interrupt(n)
  \/ HandlerStep
  \/ TaskStep

Spec == Init /\ [][Next]_vars

\* A handler, once begun, goes on.  A line offered again and again is
\* acknowledged, and a task that keeps getting the CPU back goes on: the
\* devices are slower than the CPU.  The devices themselves owe nothing.
Fairness ==
  /\ WF_vars(HandlerStep)
  /\ SF_vars(Interrupt(TIMER))
  /\ SF_vars(Interrupt(KEYBOARD))
  /\ SF_vars(TaskStep)

FairSpec == Spec /\ Fairness

-----------------------------------------------------------------------------
(* Properties. *)

\* kb_buf between any two of its stores
KbBufs ==
  [data : [0 .. BufferSize - 1 -> Byte], size : {0, BufferSize},
   read : 0 .. BufferSize, write : 0 .. BufferSize - 1, count : 0 .. BufferSize]

TypeOK ==
  /\ obf \in Byte \cup {NoByte}
  /\ irr \subseteq {TIMER, KEYBOARD}
  /\ isr \subseteq {TIMER, KEYBOARD}
  /\ intr \in BOOLEAN
  /\ frames \in Seq(HandlerLabels)
  /\ pc \in Labels
  /\ kb_buf \in KbBufs
  /\ reg \in 0 .. BufferSize
  /\ scan_code \in Byte
  /\ key_pressed \in {0, 1}
  /\ sys_tick \in 0 .. TickLimit - 1

\* The ring as it is once the buffer_get under way, if any, is complete.
Stored ==
  CASE pc = "wrap" -> [kb_buf EXCEPT !.read = Wrap(kb_buf, @), !.count = @ - 1]
    [] pc \in {"load", "store"} -> [kb_buf EXCEPT !.count = @ - 1]
    [] OTHER -> kb_buf

\* Handlers do not interrupt one another, and none runs while the task is
\* between its cli and its sti: the only protection the unlocked updates of
\* kb_buf in buffer_get and buffer_put have.
HandlersExcluded ==
  /\ Len(frames) <= 1
  /\ frames # <<>> => ~intr
  /\ pc \in Critical => frames = <<>> /\ ~intr

\* When no handler runs no line is in service.  A line left in service would
\* silence itself and every line below it for good; the keyboard handler
\* acknowledges its line twice over (0x61 before the read, 0x20 after it).
EoiComplete == frames = <<>> => isr = {}

\* A byte in the controller has its interrupt pending, or the handler that
\* will read it running, and no request is pending without a byte.  The line
\* is edge triggered: a byte for which neither held would stay there, and
\* keep every later key from being reported.
ByteSignalled ==
  (obf # NoByte) <=>
    (KEYBOARD \in irr \/ \E i \in 1 .. Len(frames) : frames[i] \in {"kbd_eoi", "kbd_read"})

\* "read, write: the current positions; count: the amount of data held"
\* (include/buffer.h): after init_keyboard the positions are count elements
\* apart, whatever interrupts the task and wherever.
RingConsistent == pc \notin Boot => WellFormed(Stored, Byte, BufferSize)

\* get_byte_from_kbuf ignores the result of buffer_get: the count it polled
\* with interrupts enabled must still be positive when it gets the byte, or
\* it returns an uninitialised one.
GetFinds == pc \in {"cli", "get"} => kb_buf.count > 0

\* The path implements the lossy first-in first-out queue.
Queue == INSTANCE ScancodeQueue
  WITH in <- obf, q <- Contents(Stored), out <- scan_code, Capacity <- BufferSize
ImplementsQueue == Queue!Spec

\* A byte offered while the ring has room is one the task gets.
OfferedByteArrives ==
  \A c \in Code : (obf = c /\ Stored.count < BufferSize) ~> (scan_code = c)

\* The controller never stays full: a full ring costs the byte, not the
\* keyboard.
ControllerServed == (obf # NoByte) ~> (obf = NoByte)
=============================================================================

# A TLA+ model of vinix

vinix is a small x86-64 kernel: a boot sector and a loader in assembly, and a
kernel in C that sets up interrupts, takes keys from the keyboard and echoes
them on a linear frame buffer. It has no tests. This directory holds TLA+
specifications of the parts that do something over time, the TLC runs that check
them on small instances, and proofs, checked by TLAPS, of the properties that
matter most. Paths below are relative to the root of the repository.

## 1. Inventory

| component | source | state | operations | what is hard | what makes it correct |
|---|---|---|---|---|---|
| Ring buffers | `lib/buffer.c` | array, size, read, write, count | init, put, get | shared by a task and a handler without a lock; full and empty; three fields that say two things | the positions stay `count` elements apart; contents are a queue |
| Keyboard byte path | `interupt/irq.c`, `interupt/idt.c`, `interupt/irq_handler.asm`, `device/keyboard.c:27-54` | controller byte, 8259A registers, interrupt flag, `kb_buf` | interrupt delivery, two handlers, init_keyboard, get_byte_from_kbuf | a handler between any two stores of the task; edge-triggered requests; two EOIs; a full ring | lossy FIFO; no line dead; no uninitialised byte |
| Keyboard decoder | `device/keyboard.c:60-281`, `include/keymap.h` | modifiers, locks, the position inside a code | keyboard_read | codes of 1, 2, 4 and 6 bytes; bursts; repeating keys; both sides of the keyboard | modifiers and locks follow the user; codes stay in step |
| TTY task | `device/tty.c` | out_buffer, p_tty | init_tty, read, write, put_key | a task that alternates between two rings | what is shown is what was typed, in order |
| Console cursor | `device/printk.c` | XPosition, YPosition, blanks of a tab to come | one turn of the loop per character | tabs and backspaces at the edges | next character in a cell of the screen |
| Formatting | `device/printk.c:163-402` | none | vsprintf, number, skip_atoi | flags that exclude one another; one `size` that three padding loops use up; the lowest number; an int in a long | what is printed reads back, on the width and the side asked for |
| Spin lock | `include/spinlock.h` | the lock word, saved flags | lock, unlock, the irq macros | several CPUs; handlers on the holder's CPU; the word below 0 | mutual exclusion; no self-deadlock |
| Boot | `boot/boot.asm`, `boot/loader.asm` | disk controller, fixed addresses | read sectors, E820, VBE, long mode | slow or failing disks; BIOS answers cut short | the image is what is on the disk |
| Mode switches | `boot/loader.asm`, `init/head.S`, `cpu/gdt.c` | control registers, descriptor and page tables, cs, ss, A20 | some twenty steps from `cli` to `init_gdt` | each step needs earlier ones; tables are replaced under running code; no handler yet | every step finds its code, stack and descriptors |
| Memory map | `mm/memory.c` | the table at 0x7e00 | init_memory | no count is handed over, nothing clears the memory behind the map | the sum misses no usable RAM, and counts no other when the end of the map is marked |
| Linked list | `lib/list.c` | first, last, count; pre, next | insert first/last, remove first/any | one node, one node left, first, last | both directions, both ends and the count agree |
| Interrupt set-up | `interupt/idt.c`, `interupt/irq.c`, `interupt/irq_handler.asm` | IDT, both 8259As, the stack of frames | init_idt, init_8259A, irq_enable, irq_disable, every handler | unexpected vectors halt; a line masked while it asks; frames on a stack in use | a device's interrupt finds its handler and its way back; the machine halts only for a reason |
| Clock | `device/time.c` | sys_tick | tick, milli_delay | an int, a u64, a product and a quotient | a delay is long enough and ends |
| Bitmap | `lib/bitmap.c` | bits | init, set, get, alloc_nbits | runs of bits, the end | a search passes over no run and takes what it looked for |
| Descriptors | `cpu/gdt.c`, `interupt/idt.c` | none | gdt_entry_set, init_idt_entry | split fields; two units of the limit | the processor reads what was asked for |
| Strings | `lib/klib.c` | none | strcpy, strncpy, strncmp, mem*, itoa | ends, sizes, overlap, the lowest number | copies arrive, numbers read back |

How they interact: the devices raise lines of the 8259A; the entry code of
`irq_handler.asm` calls a handler with the interrupt flag clear; the keyboard
handler puts the byte into `kb_buf`; the only task polls `kb_buf.count`, takes
bytes with interrupts disabled, decodes them, puts keys into `out_buffer` of the
tty, and, once `kb_buf` is empty, writes them with kprintf, which moves the
cursor and stores pixels. The loader hands the memory map over by leaving it at a
fixed address. Lists, the bitmap, the spin lock, the functions of `lib/klib.c` and
milli_delay have no user yet.

Not modelled, and why:
- `spin_trylock`: it has no return statement when it has taken the lock, so what
  it returns is up to the compiler; nothing calls it.
- the inline assembly of `include/lib.h` (strings, memory, a circular list) and
  the macros of `include/mmu.h`: nothing calls or uses them. `do_div` is in `Format`.
- `include/font.h`, colours, glyphs, messages: data.
- the setting of the video mode and the routines of the boot sector and the loader
  that write to the text screen: output only.
- `lib/screen.asm` (not built), `device/kprint.c` (commented out), and the stubs
  `task/`, `fs/`, `net/`, `tools/`, which are empty.

## 2. The modules

| module | models | extends |
|---|---|---|
| `RingBuffer` | `lib/buffer.c` as operators on the record of fields, and what a ring stands for (`Contents`) | |
| `ScancodeQueue` | abstract: a lossy FIFO of bounded capacity | |
| `KeyboardPath` | the byte path; implements `ScancodeQueue` | `RingBuffer` |
| `Keymap` | `include/keymap.h`, and scan code set 1 as the keyboard sends it | |
| `TtyTask` | the decoder, the tty task and the user | `Keymap` |
| `Console` | the loop of kprintf and kprintf_color | |
| `Spinlock` | the spin lock and its irq macros | |
| `Boot` | boot sector, loader, disk, BIOS, init_memory | |
| `Descriptors` | the packing of segment descriptors and interrupt gates; `init_gdt` | |
| `Startup` | from the loader's `cli` to the end of `init_gdt`, and what the processor asks of each step | `Descriptors` |
| `Interrupts` | `kernel_init` from `init_idt` on, both 8259As, every vector, a task that prints, masks and waits | `Startup` |
| `LinkedList` | `lib/list.c` | |
| `Bitmap` | `lib/bitmap.c` | |
| `Format` | `number` and `vsprintf` as operators, and what a printed directive must read as | |
| `Strings` | `lib/klib.c` as operators | `Format` |
| `MCLibrary` | one part of the library exercised at a time | `LinkedList`, `Bitmap`, `Descriptors`, `Strings` |
| `KeyboardPathProofs`, `TtyTaskProofs`, `ConsoleProofs`, `SpinlockProofs`, `BootProofs`, `InterruptsProofs`, `LibraryProofs` | theorems (of the ring in `KeyboardPathProofs`; of list, descriptors, bitmap, formatting and strings in `LibraryProofs`) | the module named (`MCLibrary` for the last), and TLAPS |
| `NaturalOrder` | a set of naturals that is not empty has a least element; induction and recursion without an operator | TLAPS |

Each configuration `X.cfg` or `XSomething.cfg` gives module `X` its constants
(`Library.cfg` those of `MCLibrary`).
`PROJECT.json` maps every definition to its lines of source.

### KeyboardPath and ScancodeQueue

State: the controller's output byte `obf`; `irr` and `isr` of the master 8259A;
the flag `intr`; the stack of running handlers `frames`; the task's `pc`, the
register between a load and a store `reg`, and `scan_code`; the fields of
`kb_buf`. The task's actions are the single loads and stores of `buffer_init`
(`InitCount` ... `InitRead`) and `buffer_get` (`Fetch`, `WrapRead`, `LoadCount`,
`StoreCount`) as an unoptimised build (the Makefiles give no -O) executes them,
and an interrupt may come between any two while the flag is set. The handlers run
with the flag clear, so they are split only where a device can see the
difference: the first EOI, the read of port 0x60, the last EOI with `iretq`. The
8259A delivers the highest open pending line unless one of its priority or above
is in service; a non-specific EOI ends the highest line in service.

The slave 8259A is left out here: its mask is 0xff (`irq.c:107`, although the
comment above it says that IRQ 14 is opened), so the EOIs sent to it do nothing;
`Interrupts` has both. An interrupt leaves the task's locals as they were, as if
the kernel were compiled with `-mno-red-zone`; `Interrupts` shows what happens
when it is not.

`ImplementsQueue` says that, with `obf`, the contents of the ring, and
`scan_code` for `in`, `q` and `out`, every behaviour is one of
`ScancodeQueue`. The ring is read through `Stored`, the value it has when the
`buffer_get` under way is complete; the byte is taken at `Fetch`.

### TtyTask and Keymap

The byte path is one action, `Arrive` (the queue of `ScancodeQueue`). A step of
the task is the taking of one byte (`ReadFirst` ... `ReadFourth`, `ReadE1`), the
rest of the loop body (`Decode`: lookup, modifiers, locks, numpad, flags,
in_process), or one turn of the write loop. `key` and `make` are variables
because they outlive an iteration; `make` starts as `Garbage`, and a `Pause`
before any other key makes the code test it. The user presses and releases keys,
and history variables keep what was meant (`typed`, `presses`) and whether a
buffer ever overflowed. `p_tty` is not initialised in the code: `InitTty` stores
through a pointer to mapped memory or to an unmapped page.

A key is its name; its flags are a set. `FLAG_EXT` is membership in `ExtKeys`.
The printed value is the low byte, which holds none of the flags.

### Console

One action per kind of character; a tab is one action for its first blank and
`TabGoesOn` for the others, since the two wrap tests run after each blank.
`halted` is a store beyond the 16 Mbyte that `init/head.S` maps for the frame
buffer, which ends in the page fault handler.

### Spinlock

Nothing in the kernel takes a lock yet; the clients are the ones the macros are
made for: a task on each CPU that uses `spin_lock_irqsave` or `spin_lock_irq`,
with the flag set or clear as its caller likes, and a handler on each CPU that
uses `spin_lock`. The word is an unbounded integer in the model; `LockBounded`
is the reason why 64 bits are enough.

### Boot

Three actors: the program (boot sector, loader and `init_memory` run one after
the other), the disk controller and the BIOS. `Prompt` says whether the
controller has the next sector ready at once. The memory map may end with
`ebx = 0` or with a carry flag, after any entry; the VBE call may fail, and then
nothing marks the end of the table. The loader clears none of the memory behind the
map and hands no count over, so the entries behind it are, in `Init`, whatever memory
held, usable ranges included. An entry of the VBE block read as a memory range has a
type above 4 ("VESA"). `EndMarked` says that an entry with a type above 4, of that block
or by chance, comes before the first one behind the map that reads as usable.

### LinkedList

The two obligations of the caller (a node that is inserted is in no list, a node
that is removed is in that list) are guards, since the code trusts them.
`order` is the history variable the pointers are compared with. `list_node_init`
may be called for a node that is in no list.

### Descriptors and Startup

A 64-bit number is the set of its bits that are 1, so that shifting and masking
are operators on small sets and no number is wider than TLC's. `Startup` has one
action per step of the code, each with what the processor asks of it (`can` in
`Then`) and with `Reached`: the code of the step and the stack are where the page
tables in use say. A step that fails has no handler and resets the machine
(`at = "unreached"`). Physical memory is counted in pages of 2 Mbyte. The loader
stores page table entries of 32 bits; the upper halves are whatever the memory
held, so `clean` says whether it held zeros.

### Interrupts

`frames` is the stack of interrupts under way; `depth` counts the words on the
stack, so that what the entry code pushes and pops has to agree. `Acknowledge`
takes what the INTR wire said during the last instruction: a line that this
instruction masked is still acknowledged, and answered with line 7 (the spurious
interrupt). `Settle` recomputes the wire after a step; `WriteMask` and `Raise` only
raise it, since the instruction still sees what it said before. A
handler that reports (`do_default_handler`) is two steps, its message and its dump
of registers; the dump goes through a pointer nobody passes, so it may cause
another exception. The task is a client of what the kernel offers, not code of
the kernel: it calls kprintf, irq_enable, irq_disable, sti, cli and milli_delay
in any order. `locals` are those of a function that calls nothing, such as
putchar. The history variables `asked`, `exposed` and `early` say which lines
were opened on purpose, whether one was masked with the flag set, and whether a
key came before `init_8259A`.

### Bitmap, Format, Strings and MCLibrary

`Bitmap` keeps the last call with the bits before it, so that the result can be
compared with them. `bitmap_get_bit` gives the bit in its place, which is why
`bitmap_alloc_nbits` does not find runs of bits that are 1 except at a byte
boundary, and no runs of three and more. `AllocTakesRun` is what the code keeps: all
bits of the run but the last, which it does not look at, were what was looked for,
nothing but the run is set, and a search for bits that are 0 passes over no run.

`Format` takes a directive as the record of what its text says (conversion,
flags, width, precision, qualifier) and its argument as the content of the slot
`va_arg` reads; the result is a sequence of characters. An int has `2 * IntHalf`
values and a long `2 * LongHalf`. `NumberPrinted` reads the characters back, and says
where the blanks are (-1 stands for a width or precision that is absent; one of -1
from a `*` would be a width of 1 to the left, or no precision): on the side the flags ask for, only up to the width, but for the
one that stands for a plus. `%u` of an int of 2^31 or more prints the 64-bit number it extends to
(`ReadAsSigned`), which is left out of the arguments. `Strings` takes memory as a
function from offsets. `kernel_strncpy` stores its final 0 over the last
character it copied, or one byte behind `size`, which is why `CopiesStay` allows
one byte on either side. `kernel_strncmp` never counts `size` down: `ComparesPrefixes`
says that a string equals what it starts with, and differs from one that differs in the
first `size` characters. Of strings that differ behind them it says nothing, since the
code does not keep the other half of its comment, that at most `size` are compared.

## 3. The runs

Passing runs:

| run | bounds | what it shows |
|---|---|---|
| `keyboard_path` | two codes, ring of 3, ticks mod 2 | the byte path is the lossy queue, its lines never die, each byte with room arrives |
| `tty_paced` | 13 keys of all kinds, 4 events, user waits | modifiers, locks, screen and framing |
| `tty_burst` | 5 keys, 5 events, rings of 4 and 2, two keys repeat | bursts and overflow; completeness once the user stops |
| `console` | the screen of the code: 180 x 56 cells | cursor, tabs, drawing |
| `spinlock` | 3 CPUs, 6 contexts | exclusion, no self-deadlock, bounded word, progress |
| `boot` | 2 + 2 sectors of 2 words, up to 4 ranges, 2 fit the table, 3 are read, any memory behind them | image, sum, termination |
| `interrupts` | lines 0, 1 and 14; masks of 31, 32 and 46; int and u64 of 4 and 8 values (`IntHalf`, `LongRange`); 2 frames | the start, interrupts and exceptions anywhere, masks, spurious interrupts, delays |
| `library` | 2 lists, 3 nodes; bitmaps of 0, 5 and 8 bits, runs up to 4; int of 4 bits, long of 6; arguments at their borders | lists, bitmap, descriptors, formatting, strings |

Why the bounds are enough. A ring of 3 has empty, partly filled, full and every
position of the wrap, and two codes tell reordering and duplication apart; the
code's 100 differ in nothing the operators look at, and the proofs are for every
size. Ticks are counted modulo 2 because only the fact of a tick matters. Four
key events are enough to hold one key, use another and release both; each kind
of code (1, 2, 4 and 6 bytes) and each case of the decoder has a key in
`tty_paced`. `tty_burst` fills both rings. The console runs on the real
geometry. Three CPUs give two waiters beside a holder, with a handler on each.
In `interrupts`, line 0 has a handler that counts, 1 one that reads a byte, 14 none
and a way through the slave; the masks asked for are of a vector that is none, of
a line of the master and of one of the slave. An int of 4 values and a u64 of
8 wrap within the run, as those of the code do; the delay of 15 ms is not a whole number of
ticks. The stack has room for 2 frames, one more than the flag lets in, so that
an NMI or an exception in a handler happens; a third one is a fault, after which
the machine stops. In `library`, each field of a descriptor has bits on both sides
of its borders, numbers are 0, the lowest, the highest and powers of the bases, widths and
precisions are absent, smaller and larger than the number, and from a `*`; the
bitmaps are empty, end inside a byte and at its end. In `boot`, 2 of up to 4 ranges
fit and 3 are read, the same order as 25, 32 and what a BIOS may report. `CHECK_DEADLOCK FALSE` is used where the machine really
stops: after a page fault or a reset, after boot, where a library function has been
called once, and where the task waits inside a code
whose last byte was lost.

Runs that find the code in disagreement with its own comments:

| run | what happens |
|---|---|
| `early_ring` | interrupts are on before `init_keyboard`: a key in the middle of `buffer_init` is counted, then both positions are reset, and `count` never agrees with them again |
| `tty_sticky` | `key` is reset once per call, not per key: after PrintScreen or Pause, the keys of the same burst are lost |
| `boot_slow_disk` | the disk status is looked at once for all sectors |
| `red_zone` | an interrupt stores its frame over the locals of a function that calls nothing: no Makefile gives `-mno-red-zone` |

`tty_paced` and `tty_burst` leave out a PrintScreen or Pause followed by a key in one
burst, which `tty_sticky` is about, the right Alt key, and Num Lock, whose case
in the decoder is empty (`keyboard.c:183-186`): `num_lock` keeps its initial 1,
against the comment "the value of these keys depends on the Numlock".
With Num Lock among the keys, `LocksTrack` would fail. Caps Lock does not repeat
while it is held: if it did, each repetition would toggle the lock.

Other disagreements, modelled as the code has them and listed as findings without
a run of their own:
- the right Alt key assigns `alt_l` (`keyboard.c:176`): with both Alt keys held and one
  released, `ModifiersTrack` fails;
- a backspace in column 0 multiplies by the cell size twice (`printk.c:50`;
  `DrawsOnScreen` says that this is the only way to draw elsewhere);
- an entry left over behind the memory map that reads as usable is added to the sum
  (`memory.c:24`; `TotalWithinRam` says that this is the only way for it to be too large);
- `bitmap_alloc_nbits` looks at the first bit of a run twice and at the last one never, and
  compares a bit in its place with 1 (`bitmap.c:66`; `AllocTakesRun` is what is left);
- `kernel_strncmp` ignores its `size` (`klib.c:56`; `ComparesPrefixes` is what is left);
- `irq.c:106` says IRQ 14 is opened where 0xff masks it.

Beside them, read and not modelled: `irq_frame_t` is not in the order of the
pushes; `init_memory` prints a 64-bit sum with `%x`; the kernel's .bss is never
cleared. A pointer `p_tty` that leads nowhere, a disk that fails, a list of video modes
that runs over the loader and a key before `init_8259A` are outcomes the properties
allow, each named in its property.

### Fairness

- `KeyboardPath`: weak fairness of the handler in progress (interrupts are off,
  nothing else runs); strong fairness of an interrupt line and of the task, since
  each is interrupted again and again: the CPU is faster than the timer (10 ms)
  and the keyboard. The devices owe nothing: no key ever has to come.
- `TtyTask`: the keyboard sends what it has and the only task goes on. The user
  owes nothing.
- `Spinlock`: every context that has begun goes on; nobody has to begin. That is
  why a particular waiter is not promised the lock, only that someone gets it.
- `Boot`: the program runs alone, and a disk answers with data or an error.
- `Interrupts`: the timer goes on, the processor takes what INTR offers, and a
  handler goes on, all weakly. The loop of milli_delay makes its test thousands
  of times in a tick, so a test that is true again and again is made while it is
  true: strong fairness of `Poll`. No other call of the task has to come, and none
  has to end; `DelayEnds` is stated for a flag that is set and a line that is open.

### Mutants

Every property of a passing run is paired in `PROJECT.json` with a mutant, an
operator that stands beside the definition it changes and makes a mistake the
code could have made (a dropped cli, a missing EOI, a test after instead of
before, a cursor one too far). Under each the property is violated.

## 4. The proofs

| module | theorems | assumptions and hypotheses |
|---|---|---|
| `KeyboardPathProofs` | put and get keep a ring well formed, append to and take from its contents; `TypeOK`, `HandlersExcluded`, `EoiComplete`, `ByteSignalled`, `GetFinds`, `RingConsistent`, `ImplementsQueue` | any size and any codes; the last two: `EarlyKeys = FALSE` |
| `TtyTaskProofs` | `TypeOK`, `FrameSync`, `ModifiersTrack`, `LocksTrack`, `EchoFaithful`, `EchoInOrder` | any keys of the keyboard, capacities and number of events; from the third on: `Unhurried`, and no right Alt key or `LocksPlain`, see below |
| `ConsoleProofs` | `CursorOnScreen`, `TabStops`, `DrawsOnScreen` | a screen at least one cell large; the second: rows as wide as a tab; the third: as many rows of pixels mapped below the screen as a cell is wide |
| `SpinlockProofs` | `TypeOK`, `MutualExclusion`, `NoSelfDeadlock`, `LockBounded` | a finite set of CPUs, any number |
| `BootProofs` | `ImageIntact`, `TotalWithinRam`, `TotalCoversRam` | any sector size and counts, any memory map and table, anything in memory behind the map; the first: `Prompt = TRUE`; the second says nothing unless `EndMarked`; the third: a map reported whole that fits the table, with types up to 4 |
| `InterruptsProofs` | `NoReset`, `InterruptsPrepared`, `StackBalanced`, `HaltExplained`, `PrintNotResumed`, `EdgeLostOnlyEarly`, `DelayLongEnough` | lines 0 to 15, exceptions below vector 32, any delays and widths of int and u64 |
| `LibraryProofs` | `ListsLinked`, `DescriptorsFaithful`, `AllocTakesRun`, `FormatFaithful`, `StringsKept`; and for every argument, not only those of the run: the descriptor and the gate (`EntriesFaithful`, `GatesFaithful`), the directives (`NumbersPrinted`, `TextsPrinted`), the agreement of the two printers (`NumbersAgree`, `TextsAgree`), the numbers of kernel_itoa (`ItoaReadsAlways`), copies and comparisons (`MemcpyAlwaysMoves`, `CopiesAlwaysStay`, `AlwaysComparesPrefixes`) | `Null` is no node; bitmaps of any size; an int no wider than a long; a `%u` that is not `ReadAsSigned`; strings without a 0 in them |

Each hypothesis above is an exception the code really has: the run named with it
below, or the case where it fails, is what the code does without it. The values
the code has (a screen of 1440 x 900 with 8 x 16 cells, 16 Mbyte mapped, rings of
100) satisfy those of `ConsoleProofs` and of the ring.

### Byte path

The properties are not inductive as they stand; four invariants make
them so, the first three of which, with `TypeOK`, are proved together as
`DisciplineInv` (each needs ranges or labels from another):
- `FramesInv`: at most one handler, and then the flag is clear; the task is inside
  its critical section, or before the first sti, only with the flag clear and no
  handler; which line is in service at each label of a handler. The interrupt gate
  and the cli are what carries it. `HandlersExcluded` and `EoiComplete` follow.
- `SignalInv`: `ByteSignalled` for a single handler, and that while the handler is
  before its read no second request is pending. The handler acknowledges before it
  reads, so a second edge would be possible; there is none because the controller
  presents no other byte before the first one is read.
- `CursorInv`: `read` reaches `size` only between its increment and its wrap; from
  the poll to the store the count is positive, and at the store `reg` is the count
  that is there. It holds with early keys too. `GetFinds` follows.
- `RingInv` (with `EarlyKeys = FALSE`): during the boot no byte is under way and
  all fields are 0; after it the ring is consistent. The run `early_ring` shows
  that it fails when keys come early.

The refinement maps each step: `Present` to `Offer`, `KeyboardRead` to `Accept`
(by `PutAppends`), `Fetch` to `Take` (by `GetTakes`), all others to stutters,
because the contents of `Stored` are the same before and after.

### Decoder and tty task

`PathInv` looks forward from the state the task is in. The bytes under way
(`Rest`, those in `kb_buf` and then those on the wire) lead the decoder (`Run`), one byte at a
time, from its present state (`Link`) to one between two codes whose modifiers are the keys held,
whose locks are the presses so far and whose output is what was typed (`Goal`). It is
stated as the existence of that run, so it needs no recursion: a key event
appends the states its one code leads through, a byte taken removes the first,
and a byte that moves from the wire to `kb_buf` changes nothing. `FrameSync` follows without
any hypothesis: inside a code the run has at least one byte to go.
What each key's code leads to comes from the tables of `keymap.h`, entry
by entry: a key is found at one code only, its break code is the make code with bit 7,
and none of them is taken for a prefix.

What the other properties need besides, and why:
- `Unhurried`: the user waits for the task (`Paced`), or has neither PrintScreen nor
  Pause. `key` keeps the value of such a key until `keyboard_read` is called again (`tty_sticky`).
- `ModifiersTrack`: no right Alt key, since it sets `alt_l`.
- `LocksPlain`, for `LocksTrack` and what is shown: no Num Lock key, whose case is
  empty, and locks that do not repeat while they are held.

`EchoFaithful` adds that what was taken and not yet shown is in `out_buffer`, while
that has never been full; `EchoInOrder` that a full one leaves characters out and
moves none: the positions in `typed` of what is shown stay increasing when
an element is appended to both or to `typed` alone.

### Console

`CursorOnScreen` is inductive as it stands: the two wrap tests bound any
position that is not negative (`MoveToOnScreen`), and no character leaves a negative
one, the backspace because its pixel offsets, wrong as they are, are products of
naturals. `TabStops` needs more (`TabInv`): a tab that has wrapped is
in the row below and ends before that row's first stop, so at most one wrap lies between
its first blank and its stop; on rows narrower than a tab there may be two.
`DrawsOnScreen`: a cell that lies on the screen has all its pixels on it and all of them
mapped. A backspace at the left edge takes its pixel for a cell, so it stores to the right
of the row's end, up to `XCharSize` rows of pixels further on: that many rows more
have to be mapped (`ScreenMapped`) for it to find a page in any row but the first.

### Spin lock

`WordInv`: the word is at most 1, and at most 0 when someone is in;
a decrement that leaves it at 0 or more therefore found it free, which gives
`MutualExclusion`. `FlagInv`: the flag of a CPU is clear while its task or its
handler is with the lock, so no handler starts over a task that holds it.
`CountInv`: the word is no further below 1 than the number of contexts that are in
or wait in the loop, since each of them has decremented it once; with at most all
contexts in that set, `LockBounded` follows.

### Boot

`ImageInv` says of each stage of the program what the disk has been asked for. While words
are read (`Sending`), the sector and the word the controller is at tell how many are
stored and that each is in its place, so the counter in cx runs out with the last word of the
last sector and not before. That the controller always has the next word when the
program reads is `Prompt`; without it, `boot_slow_disk`.

`MapInv`: an entry of the table is the range of that number if one was stored there, but
for those under the VBE block; an entry behind the map is that block or what memory held.
`SumInv`: after i entries the sum is at most the usable memory among the first i ranges
stored if the end is marked, since the loop then ends before it adds an entry left over;
and at least that, whatever memory held, when the table holds all of the map. Without the
mark the first half fails, as it does in the code. The usable memory is a recursive function; that its values are naturals and do not
decrease is shown with `NaturalOrder`, as said below.

### Interrupts

Three invariants. `Inv` is about handlers that come back. `FlagClear`: the
flag is clear in every handler, so no line interrupts one. `NestedReport`: a second
frame is therefore of an exception or an NMI, whose handler never returns. `TaskKept`:
with no frame, or one of the timer or the keyboard, the stack is as deep as the
task's calls and those 20 words, and the buffer of kprintf is the task's. That one
of the deliverable lines has the highest priority (`FirstOfLines`) rests on the
order of the naturals. `StackBalanced` and `PrintNotResumed` follow.

`Prepared` gives each step of the start a place in their order and says what each place
has done for good: the tables in memory, the registers that point to them, the
descriptors the segment registers hold, the mode bits. The
proof that a step finds its code walks the page tables the step has loaded (`LoaderPages`,
`KernelPages`) and reads the descriptors bit by bit. The flag is set in a kernel that
is ready only, so each frame of a line has the vector, the handler and the selectors
`init_idt` and `init_8259A` prepared, and a frame that reports has a reason
(`FrameExplained`): a masked line asked before its mask was
written, or the line was opened. `NoReset`, `InterruptsPrepared`,
`EdgeLostOnlyEarly` and `HaltExplained` follow.

`DelayCounted`: until the delay is over, the counter is what it was at the
beginning plus the ticks passed, modulo its range. The u64 may wrap meanwhile: the
difference the loop takes is then less than the ticks passed, never more. The int the
beginning is kept in must not be negative, which is what `began < IntHalf` inside
the property says.

### Library

List: `IInv == TypeOK /\ NodesDistinct /\ ListsLinked`. `ListsLinked` alone is
not inductive: a patch of one list's neighbours must not touch another list, which
needs the lists to be disjoint and their nodes distinct. Lemmas on sequences
(prepend, append, without) give the elements and the links of the changed list;
`OtherListsLinked` covers the rest.

Descriptors: a number is the set of its bits, so what a shift, a mask and a sum of disjoint
fields do is one lemma each (`ShiftedBits`, `FieldBits`, `EntryBits`), and a field
reads back as the bits put there. The run has the arguments at the fields' borders, the
theorems have all of them.

Bitmap: the search is a recursive function over the places of the bitmap. That it
exists, and that it returns a place from which all but the last of `count`
bits are what was looked for, for clear bits the first such place from which they may
all be clear, is shown from the end backwards: of the places from which it holds
there is a lowest one, and that is 0.

Formatting: `NumberLayout` cuts what `number` returns into blanks, a sign with a
prefix, figures and blanks. Three facts carry it:
- Figures denote a number (`ValueOf`, which is `skip_atoi` in any base). Those that
  the loop over `do_div` leaves denote the number it began with (`ReversedReads`, by
  induction along the quotients), and the zeros that `precision` or `ZEROPAD` put
  before them do not count (`ValueOfZeros`).
- `size` is what the width leaves for the padding: the lengths of the parts add up to it
  or to more (`SumsAgree`), which is why only one of the three padding loops has
  anything to do, and why there are blanks beside the one of `SPACE` only if the width is exact.
- No digit is a blank, a sign or an `x` (`IsTable`), so reading a text takes off what is
  before the figures and nothing else (`TextReads`).

`DirectiveNumber` and `MagnitudeDenotes` say what `vsprintf` passes to `number` for a
directive and that it is what the directive denotes: an int in the lower part of a long,
a negative number through its magnitude modulo the width of a long. That fails for
an `%u` of an int with its highest bit set, the case `ReadAsSigned` leaves out.

Strings: `kernel_itoa` takes remainders of the negative number itself, so the lowest
one needs no magnitude; quotient and remainder are those of the magnitude with a sign
(`QuotientFacts`), so its digits are those of `number` (`ItoaDigits`). They read back,
and `skip_atoi` stops behind the last of them. The two formatters agree because without
flags, width and precision there is nothing but the sign and the digits (`PlainNumber`).
`kernel_memcpy` is followed byte by byte (`MemcpyCopies`): after n bytes the first n are at
the destination and the next one to be read is as it was, unless the destination lies behind the
source and within it. Of the places up to which two strings agree there is a last one
(`GreatestBelow`), and there either one of them ends or they differ.

Induction and recursion. The library's induction theorems cannot be used, since they take the
predicate as a parameter. `LeastNatural` takes a set instead, the numbers for which
a statement fails; it follows from the well-foundedness of < on the naturals. That
is enough where a function of one number is defined by its value before or after
(`UsableUpTo`, the search of the bitmap), and where something is the first of its
kind (the highest line, the first frame that reports). `StrongInduction` and
`StepInduction` are the same with the set of numbers for which it holds. A recursive function
is a CHOOSE, so what it computes is known only once there is one: `RecursionExists` gives it
wherever each step leads to a lower rank (the digits of a number, the value of
figures, the bytes of a copy).

### Only model-checked

- Liveness: `OfferedByteArrives`, `ControllerServed`, `EchoComplete`, `LockTaken`,
  `ComesUp`, `DelayEnds`. Fairness and ENABLED are out of the prover's reach.
- `LockWordBounded` bounds the word by the number of contexts; that 2^63 is more than any
  machine has is left to the reader.

All invariants and action properties that the passing runs check are theorems too, as is
the refinement of `ScancodeQueue`; TLC keeps them on the small instances, where the mutants break them.

## 5. Plan

Done, in this order: byte path with its refinement; decoder and tty task;
console cursor; spin lock; boot and memory map; linked list; the start and the
interrupts; bitmap, formatting, strings and descriptors; the proofs above.

Next:
1. A composition of `TtyTask` with `ScancodeQueue`, which the byte path implements, and
   with `Console`.
2. A sequence of directives in one format, with what `%n` stores.

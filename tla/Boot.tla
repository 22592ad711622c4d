-------------------------------- MODULE Boot --------------------------------
(***************************************************************************)
(* From the boot sector to the kernel: boot/boot.asm reads the loader,     *)
(* boot/loader.asm has the BIOS write the memory map and the VBE blocks to *)
(* fixed addresses, switches to long mode and reads the kernel, and        *)
(* mm/memory.c adds up the memory map the loader left behind.              *)
(*                                                                         *)
(* Three actors: the program, the disk controller, which has a sector      *)
(* ready when it is ready, and the BIOS, which answers as it likes.  A     *)
(* word of the disk is <<sector, index>>; an entry of the memory map keeps *)
(* its type and its length (two 32-bit halves in the code, put together    *)
(* without loss).  The messages, A20 and the register set-up are left out, *)
(* and so are the contents of the VBE blocks.                              *)
(***************************************************************************)
EXTENDS Integers, Sequences

CONSTANTS
  LoaderSectors,  \* 10, from sector 1
  KernelSectors,  \* 100, from sector 20
  Words,          \* 256, the words of a sector
  Prompt,         \* is the next sector ready when the last one has been read?
  Lengths,        \* the lengths of a memory range, reported or left over
  Types,          \* its types: 1 is usable RAM, and above 4 the sum ends
  MaxRanges,      \* bound on the number of ranges the BIOS reports
  TableRoom,      \* 25, the whole entries between 0x7e00 and 0x8000
  TableRead,      \* 32, the entries init_memory looks at
  MaxModes,       \* bound on the number of video modes found
  ModeRoom        \* 14, the mode blocks between 0x9200 and 0xa000

ASSUME SectorsAssumption == LoaderSectors \in 1 .. 255 /\ KernelSectors \in 1 .. 255
ASSUME WordsAssumption   == Words \in Nat \ {0}
ASSUME RangesAssumption == Lengths \subseteq Nat /\ Types \subseteq Nat
ASSUME TableAssumption   == TableRoom \in Nat /\ TableRead \in Nat /\ TableRoom < TableRead

VARIABLES
  pc,
  disk,      \* the controller: state, next sector and word, sectors still to send
  counter,   \* cx, the words still to be read
  image,     \* the words stored by the transfer under way, or by the last one
  ranges,    \* the memory of the machine, as the BIOS reports it
  table,     \* the entries from 0x7e00 on
  mapped,    \* di: the entries stored so far
  whole,     \* history: did the BIOS report every range before it failed?
  longMode,  \* does the CPU have a long mode?
  i, TotalMem

diskVars == <<disk, counter, image>>
mapVars  == <<ranges, table, mapped, whole>>
sumVars  == <<i, TotalMem>>
vars == <<pc, diskVars, mapVars, longMode, sumVars>>

LoaderLba == 1
KernelLba == 20

MemoryRange == [type : Types, length : Lengths]
\* An entry the VBE block has been laid over ("VESA" and what follows, as
\* length and type).
Overlaid == [type |-> 512, length |-> 1]

\* A word read from the data port when there is no data: no word of a sector.
Garbage == <<0, 0>>

Idle == [state |-> "idle", sector |-> 0, word |-> 1, left |-> 0]

\* Nobody clears the memory from 0x7e00 on: an entry that nothing is stored to
\* reads as whatever was there, usable memory included.
Init ==
  /\ pc = "boot"
  /\ disk = Idle /\ counter = 0 /\ image = <<>>
  /\ ranges \in UNION {[1 .. n -> MemoryRange] : n \in 1 .. MaxRanges}
  /\ table \in [0 .. TableRead -> MemoryRange] /\ mapped = 0 /\ whole = FALSE
  /\ longMode \in BOOLEAN
  /\ i = 0 /\ TotalMem = 0

-----------------------------------------------------------------------------
(* ReadLBA16 and ReadLBA28: the command, the wait, the words. *)

\* The bytes for the ports 0x1f3 to 0x1f6, and what the controller makes of
\* them.
LbaPorts(lba) ==
  <<lba % 256, (lba \div 256) % 256, (lba \div 65536) % 256, 224 + ((lba \div 16777216) % 16)>>
Addressed(ports) ==
  ports[1] + 256 * ports[2] + 65536 * ports[3] + 16777216 * (ports[4] % 16)

\* The steps 1 to 3: sector count (its low byte), address and command 0x20.
Command(lba, sectors, from, to) ==
  /\ pc = from
  /\ disk' = [state |-> "busy", sector |-> Addressed(LbaPorts(lba)), word |-> 1,
              left |-> sectors % 256]
  /\ counter' = sectors * Words
  /\ image' = <<>>
  /\ pc' = to
  /\ UNCHANGED <<mapVars, longMode, sumVars>>

ReadLoader == Command(LoaderLba, LoaderSectors, "boot", "wait_loader")
ReadKernel == Command(KernelLba, KernelSectors, "load", "wait_kernel")

\* The controller: it gets hold of the sector, or gives up.  The error bit is
\* not among those .not_ready looks at, so a failure is waited for for ever.
DiskReady ==
  /\ disk.state = "busy"
  /\ disk' = [disk EXCEPT !.state = "drq"]
  /\ UNCHANGED <<pc, counter, image, mapVars, longMode, sumVars>>

DiskFails ==
  /\ disk.state = "busy"
  /\ disk' = [disk EXCEPT !.state = "error"]
  /\ UNCHANGED <<pc, counter, image, mapVars, longMode, sumVars>>

\* Mutants: the wait is for both bits clear; the status is not looked at.
BothClear(from, to) ==
  /\ pc = from
  /\ disk.state = "idle"
  /\ pc' = to
  /\ UNCHANGED <<diskVars, mapVars, longMode, sumVars>>
NotLookedAt(from, to) ==
  /\ pc = from
  /\ pc' = to
  /\ UNCHANGED <<diskVars, mapVars, longMode, sumVars>>

\* .not_ready: until BSY is clear and DRQ set
NotReady(from, to) ==
  /\ pc = from
  /\ disk.state = "drq"
  /\ pc' = to
  /\ UNCHANGED <<diskVars, mapVars, longMode, sumVars>>

LoaderReady == NotReady("wait_loader", "read_loader")
KernelReady == NotReady("wait_kernel", "read_kernel")

\* What a read of the data port does to the controller.
AfterWord ==
  IF disk.word < Words THEN [disk EXCEPT !.word = @ + 1]
  ELSE IF disk.left = 1 THEN Idle
  ELSE [state |-> IF Prompt THEN "drq" ELSE "busy",
        sector |-> disk.sector + 1, word |-> 1, left |-> disk.left - 1]

\* .go_on_read: one word after the other for all sectors, with no look at the
\* status between two sectors.  A read with no data to give gives anything.
GoOnRead(from, to) ==
  /\ pc = from
  /\ IF disk.state = "drq"
     THEN image' = Append(image, <<disk.sector, disk.word>>) /\ disk' = AfterWord
     ELSE image' = Append(image, Garbage) /\ UNCHANGED disk
  /\ counter' = counter - 1
  /\ pc' = IF counter' = 0 THEN to ELSE from
  /\ UNCHANGED <<mapVars, longMode, sumVars>>

\* Each ends in a jump to what it has read.
LoadLoader == GoOnRead("read_loader", "memory")
LoadKernel == GoOnRead("read_kernel", "sum")

-----------------------------------------------------------------------------
(* The loader: ReadMem and ReadSVGA. *)

\* int 15h, ax = 0xe820: an entry is stored, and ebx is 0 when the BIOS has no
\* other one.  Some BIOSes say so with the carry flag of the next call instead.
GetMemStruct ==
  /\ pc = "memory"
  /\ mapped < Len(ranges)
  /\ table' = IF mapped <= TableRead
              THEN [table EXCEPT ![mapped] = ranges[mapped + 1]] ELSE table
  /\ mapped' = mapped + 1
  /\ whole' = (mapped' = Len(ranges))
  /\ \/ mapped' = Len(ranges) /\ pc' = "video"
     \/ UNCHANGED pc
  /\ UNCHANGED <<ranges, diskVars, longMode, sumVars>>

\* The carry flag: MemStructNumber, which the kernel does not look at, becomes
\* 0, and the entries stored so far stay.
GetMemFail ==
  /\ pc = "memory"
  /\ pc' = "video"
  /\ UNCHANGED <<diskVars, mapVars, longMode, sumVars>>

\* int 10h, ax = 0x4f00: the VBE block is stored at 0x8000.  Then one block for
\* each mode of a list whose address is read at 0x900e, where nothing has
\* stored one; the block after the last one with room lies over the loader
\* itself.
GetSvgaInfo ==
  /\ pc = "video"
  /\ table' = [e \in DOMAIN table |-> IF e < TableRoom THEN table[e] ELSE Overlaid]
  /\ \E modes \in 0 .. MaxModes : pc' = IF modes <= ModeRoom THEN "switch" ELSE "overwritten"
  /\ UNCHANGED <<ranges, mapped, whole, diskVars, longMode, sumVars>>

GetSvgaFail ==
  /\ pc = "video"
  /\ pc' = "switch"
  /\ UNCHANGED <<diskVars, mapVars, longMode, sumVars>>

\* if_enter_long_mode
SwitchMode ==
  /\ pc = "switch"
  /\ pc' = IF longMode THEN "load" ELSE "paused"
  /\ UNCHANGED <<diskVars, mapVars, longMode, sumVars>>

-----------------------------------------------------------------------------
(* The kernel: init_memory. *)

\* Mutants: every range is added; the entry is left before it is added.
SumAll ==
  /\ pc = "sum"
  /\ TotalMem' = TotalMem + table[i].length
  /\ i' = i + 1
  /\ pc' = IF table[i + 1].type > 4 \/ i + 1 = TableRead THEN "done" ELSE "sum"
  /\ UNCHANGED <<diskVars, mapVars, longMode>>
SumAfterAdvance ==
  /\ pc = "sum"
  /\ TotalMem' = TotalMem + (IF table[i + 1].type = 1 THEN table[i + 1].length ELSE 0)
  /\ i' = i + 1
  /\ pc' = IF table[i + 1].type > 4 \/ i + 1 = TableRead THEN "done" ELSE "sum"
  /\ UNCHANGED <<diskVars, mapVars, longMode>>

SumEntry ==
  /\ pc = "sum"
  /\ TotalMem' = TotalMem + (IF table[i].type = 1 THEN table[i].length ELSE 0)
  /\ i' = i + 1
  /\ pc' = IF table[i + 1].type > 4 \/ i + 1 = TableRead THEN "done" ELSE "sum"
  /\ UNCHANGED <<diskVars, mapVars, longMode>>

-----------------------------------------------------------------------------
ProgramStep ==
  \/ ReadLoader \/ LoaderReady \/ LoadLoader
  \/ GetMemStruct \/ GetMemFail \/ GetSvgaInfo \/ GetSvgaFail \/ SwitchMode
  \/ ReadKernel \/ KernelReady \/ LoadKernel
  \/ SumEntry

Next == ProgramStep \/ DiskReady \/ DiskFails

Spec == Init /\ [][Next]_vars

\* The program runs alone, and a disk answers, one way or the other.
FairSpec == Spec /\ WF_vars(ProgramStep) /\ WF_vars(DiskReady \/ DiskFails)

-----------------------------------------------------------------------------
Sectors(lba, sectors) ==
  [w \in 1 .. sectors * Words |-> <<lba + (w - 1) \div Words, ((w - 1) % Words) + 1>>]

\* The loader runs what the boot sector found on the disk, and the kernel what
\* the loader found there: every word in its place.  "If it is not ready, go
\* on waiting" (boot/boot.asm, boot/loader.asm).
ImageIntact ==
  /\ pc \in {"memory", "video", "switch", "paused", "overwritten"}
       => image = Sectors(LoaderLba, LoaderSectors)
  /\ pc \in {"sum", "done"} => image = Sectors(KernelLba, KernelSectors)

\* "OS Can Used Total RAM" (mm/memory.c): whatever memory holds behind the map,
\* no usable range is missed when the BIOS reports all of them, in types up to 4
\* and in no more ranges than there is room for.  The loader and the kernel agree
\* on where the table is and on what ends it, with no count passed between them.
Usable(range) == IF range.type = 1 THEN range.length ELSE 0
UsableUpTo[n \in 0 .. Len(ranges)] == IF n = 0 THEN 0 ELSE UsableUpTo[n - 1] + Usable(ranges[n])
TotalCoversRam ==
  pc = "done" /\ whole /\ Len(ranges) <= TableRoom /\ (\A r \in 1 .. Len(ranges) : ranges[r].type <= 4)
    => TotalMem >= UsableUpTo[Len(ranges)]

\* Behind the entries stored, an entry with a type above 4 comes before any that
\* reads as usable: the VBE block or, by chance, what memory held.  init_memory
\* looks at the type of each entry but the first for that.
EndMarked ==
  \A e \in mapped .. TableRead - 1 :
    table[e].type = 1 => \E k \in mapped .. e : k > 0 /\ table[k].type > 4

\* For maps of any size, whole or cut short, and whatever the VBE block leaves of
\* them: init_memory counts a range that is not usable, one twice or one that is
\* not there only if an entry left over behind the map reads as usable and nothing
\* marks the end before it.  The code does not exclude that.
TotalWithinRam ==
  EndMarked => TotalMem <= UsableUpTo[mapped]

\* The machine comes up, or stops in one of the ways it has: a disk that fails,
\* a CPU without long mode, or a mode list that runs over the loader.
ComesUp == <>(pc \in {"done", "paused", "overwritten"} \/ disk.state = "error")
=============================================================================

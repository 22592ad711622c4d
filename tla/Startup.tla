------------------------------ MODULE Startup -------------------------------
(***************************************************************************)
(* The way from real mode to kernel_init: the end of boot/loader.asm,      *)
(* init/head.S, and init_gdt of cpu/gdt.c.  A step that the processor      *)
(* cannot execute, or whose code, stack or descriptor it does not find, is *)
(* an exception; there is no handler yet, so the machine starts again.     *)
(*                                                                         *)
(* Physical memory is counted in pages of 2 Mbyte, an address is the page  *)
(* it lies in, and a linear page is its three table indices.  A descriptor *)
(* or an attribute is the set of its bits that are 1.                      *)
(***************************************************************************)
EXTENDS Descriptors

VARIABLES
  at,       \* the step to come, or "reset"
  cr,       \* which of PE, PAE, LME, PG are set
  cr3,      \* the root table
  tables,   \* the page tables in memory, by 4 Kbyte frame
  gdt,      \* the descriptors GDTR leads to
  cs, ss,   \* [sel, desc]: what they hold, and the descriptor they loaded
  idt,      \* the table IDTR leads to
  a20,      \* address line 20 is not held at 0
  intr,     \* the interrupt flag
  clean,    \* the memory under the loader's tables was zero at power on
  longMode  \* what cpuid answers

machineVars == <<cr, cr3, tables, gdt, cs, ss, idt, a20>>
startVars == <<at, machineVars, clean, longMode, intr>>

-----------------------------------------------------------------------------
(* Segment descriptors: those of the loader, and what is asked of them. *)

\* The two tables of loader.asm, .gdt32 and .gdt64.
Gdt32 ==
  LET flat32 == Bits(0, 15) \cup {41, 44, 47} \cup Bits(48, 51) \cup {54, 55}
      stack  == Bits(10, 14) \cup {41, 44, 47, 54}
  IN [i \in 0 .. 3 |-> CASE i = 0 -> {} [] i = 1 -> flat32 \cup {43}
                         [] i = 2 -> flat32 [] i = 3 -> stack]
Gdt64 == [i \in 0 .. 2 |-> CASE i = 0 -> {} [] i = 1 -> {43, 44, 47, 53}
                             [] i = 2 -> {41, 44, 47}]

\* What the processor asks of a descriptor at privilege level 0.
IsCode(d) == {43, 44, 47} \subseteq d /\ d \cap {45, 46} = {}
IsCode64(d) == IsCode(d) /\ 53 \in d /\ 54 \notin d
IsData(d) == {41, 44, 47} \subseteq d /\ d \cap {43, 45, 46} = {}
Entry(table, sel) == IF sel \div 8 \in DOMAIN table THEN table[sel \div 8] ELSE {}

-----------------------------------------------------------------------------
(* Page tables. *)

Table(frame) == [frame |-> frame]
Page(page)   == [page |-> page]

\* The tables of the loader at 0x90000, 0x91000 and 0x92000.  It stores the
\* low halves of the entries; the high halves are what was there.
LoaderTables ==
  [f \in {144, 145, 146} |->
     IF ~clean THEN <<>>
     ELSE CASE f = 144 -> [i \in {0, 256} |-> Table(145)]
            [] f = 145 -> [i \in {0} |-> Table(146)]
            [] f = 146 -> [i \in 0 .. 5 |-> Page(i)]]

\* A mutant: no entry for the addresses the kernel is linked for.
TablesLowOnly ==
  [f \in {257, 258, 259} |->
     CASE f = 257 -> [i \in {0} |-> Table(258)]
       [] f = 258 -> [i \in {0} |-> Table(259)]
       [] f = 259 -> [i \in 0 .. 12 |-> Page(IF i < 5 THEN i ELSE 1792 + i - 5)]]

\* The tables of head.S at 0x101000, 0x102000 and 0x103000.
KernelTables ==
  [f \in {257, 258, 259} |->
     CASE f = 257 -> [i \in {0, 256} |-> Table(258)]
       [] f = 258 -> [i \in {0} |-> Table(259)]
       [] f = 259 -> [i \in 0 .. 12 |-> Page(IF i < 5 THEN i ELSE 1792 + i - 5)]]

\* Memory with some tables stored over what was there.
Over(new, old) ==
  [f \in DOMAIN new \cup DOMAIN old |-> IF f \in DOMAIN new THEN new[f] ELSE old[f]]

Nowhere == -1

\* The physical page of a linear page, once paging is on.
Physical(root, linear) ==
  LET Has(f, i) == f \in DOMAIN tables /\ i \in DOMAIN tables[f]
      l4 == tables[root][linear[1]]
      l3 == tables[l4.frame][linear[2]]
  IN IF Has(root, linear[1]) /\ Has(l4.frame, linear[2]) /\ Has(l3.frame, linear[3])
       THEN tables[l3.frame][linear[3]].page
       ELSE Nowhere

Low  == <<0, 0, 0>>     \* the first 2 Mbyte where they are
High == <<256, 0, 0>>   \* the same, at the addresses the kernel is linked for

\* The pages of Pos.FB_addr, 0xffff800000a00000, and of the frame buffer.
Framebuffer(i) == <<256, 0, 5 + i>>
CardPage(i)    == 1792 + i

-----------------------------------------------------------------------------
\* The code of head.S and of the kernel lies above 1 Mbyte.
InKernel(step) == step \notin {"cli", "lgdt32", "lidt", "a20", "pe", "jump32", "seg32",
  "cpuid", "tables", "lgdt64", "pae", "cr3", "lme", "pg", "jump64", "seg64", "read", "enter"}
AtHigh(step) == InKernel(step) /\ step \notin {"head", "switch"}

\* The instructions of a step and the stack (always below 0x7c00) are where
\* the program was loaded to, the first physical page.
Reached(step) ==
  /\ "PG" \in cr => /\ Physical(cr3, IF AtHigh(step) THEN High ELSE Low) = 0
                    /\ Physical(cr3, Low) = 0
  /\ InKernel(step) => a20

StartInit ==
  /\ at = "cli"
  /\ cr = {} /\ cr3 = 0 /\ tables = <<>>
  /\ gdt = <<>> /\ cs = [sel |-> 0, desc |-> {}] /\ ss = cs
  /\ idt = "bios"
  /\ intr = TRUE
  /\ a20 \in BOOLEAN /\ clean \in BOOLEAN /\ longMode \in BOOLEAN

\* A step, and the one that follows it.  If it is not there or cannot be
\* executed, the machine starts again, for there is no handler yet; what the
\* step does then is of no interest.
Then(step, next, can) ==
  /\ at = step
  /\ at' = IF Reached(step) /\ can THEN next ELSE "unreached"
  /\ UNCHANGED <<clean, longMode>>
  /\ step \notin {"cli", "sti"} => UNCHANGED intr

Load(reg, selector) == reg' = [sel |-> selector, desc |-> Entry(gdt, selector)]

\* A mutant: protected mode is entered with the flag set.
CliForgotten == Then("cli", "lgdt32", TRUE) /\ UNCHANGED <<machineVars, intr>>
Cli == Then("cli", "lgdt32", TRUE) /\ intr' = FALSE /\ UNCHANGED machineVars
Lgdt32 ==
  /\ Then("lgdt32", "lidt", TRUE)
  /\ gdt' = Gdt32 /\ UNCHANGED <<cr, cr3, tables, cs, ss, idt, a20>>
Lidt ==
  /\ Then("lidt", "a20", TRUE)
  /\ idt' = "loader" /\ UNCHANGED <<cr, cr3, tables, gdt, cs, ss, a20>>
EnableA20 ==
  /\ Then("a20", "pe", TRUE)
  /\ a20' = TRUE /\ UNCHANGED <<cr, cr3, tables, gdt, cs, ss, idt>>
ProtectedMode ==
  /\ Then("pe", "jump32", TRUE)
  /\ cr' = cr \cup {"PE"} /\ UNCHANGED <<cr3, tables, gdt, cs, ss, idt, a20>>
JumpTo32 ==
  /\ Then("jump32", "seg32", IsCode(Entry(gdt, 8)))
  /\ Load(cs, 8) /\ UNCHANGED <<cr, cr3, tables, gdt, ss, idt, a20>>
Segments32 ==
  /\ Then("seg32", "cpuid", IsData(Entry(gdt, 16)))
  /\ Load(ss, 16) /\ UNCHANGED <<cr, cr3, tables, gdt, cs, idt, a20>>
if_enter_long_mode ==
  /\ Then("cpuid", IF longMode THEN "tables" ELSE "paused", TRUE)
  /\ UNCHANGED machineVars
StoreTables ==
  /\ Then("tables", "lgdt64", TRUE)
  /\ tables' = LoaderTables /\ UNCHANGED <<cr, cr3, gdt, cs, ss, idt, a20>>
Lgdt64 ==
  /\ Then("lgdt64", "pae", TRUE)
  /\ gdt' = Gdt64 /\ UNCHANGED <<cr, cr3, tables, cs, ss, idt, a20>>
SetPae ==
  /\ Then("pae", "cr3", TRUE)
  /\ cr' = cr \cup {"PAE"} /\ UNCHANGED <<cr3, tables, gdt, cs, ss, idt, a20>>
LoadCr3 ==
  /\ Then("cr3", "lme", TRUE)
  /\ cr3' = 144 /\ UNCHANGED <<cr, tables, gdt, cs, ss, idt, a20>>
SetLme ==
  /\ Then("lme", "pg", "PG" \notin cr)
  /\ cr' = cr \cup {"LME"} /\ UNCHANGED <<cr3, tables, gdt, cs, ss, idt, a20>>
\* With LME set, paging cannot be switched on without PAE.
SetPaging ==
  /\ Then("pg", "jump64", "LME" \in cr => "PAE" \in cr)
  /\ cr' = cr \cup {"PE", "PG"} /\ UNCHANGED <<cr3, tables, gdt, cs, ss, idt, a20>>
JumpTo64 ==
  /\ Then("jump64", "seg64", {"LME", "PG"} \subseteq cr /\ IsCode64(Entry(gdt, 8)))
  /\ Load(cs, 8) /\ UNCHANGED <<cr, cr3, tables, gdt, ss, idt, a20>>
Segments64 ==
  /\ Then("seg64", "read", IsData(Entry(gdt, 16)))
  /\ Load(ss, 16) /\ UNCHANGED <<cr, cr3, tables, gdt, cs, idt, a20>>
\* The kernel's image, its page tables in it, is read to 1 Mbyte.
ReadImage ==
  /\ Then("read", "enter", TRUE)
  /\ tables' = IF a20 THEN Over(KernelTables, tables) ELSE tables
  /\ UNCHANGED <<cr, cr3, gdt, cs, ss, idt, a20>>
EnterKernel == Then("enter", "head", TRUE) /\ UNCHANGED machineVars
\* _start: the new root, and two far returns to the same selector.
LoadKernelCr3 ==
  /\ Then("head", "switch", TRUE)
  /\ cr3' = 257 /\ UNCHANGED <<cr, tables, gdt, cs, ss, idt, a20>>
Switch ==
  /\ Then("switch", "entry64", IsCode64(Entry(gdt, 8)))
  /\ Load(cs, 8) /\ UNCHANGED <<cr, cr3, tables, gdt, ss, idt, a20>>
GoToKernel ==
  /\ Then("entry64", "gdt", IsCode64(Entry(gdt, 8)))
  /\ Load(cs, 8) /\ UNCHANGED <<cr, cr3, tables, gdt, ss, idt, a20>>
\* init_gdt up to lgdt: cs goes on with the descriptor it loaded before.
init_gdt ==
  /\ Then("gdt", "segments", TRUE)
  /\ gdt' = KernelGdt /\ UNCHANGED <<cr, cr3, tables, cs, ss, idt, a20>>
\* ds, es and fs get selector 0x10, gs 0x30 and ss 0x38.
SetSegments ==
  /\ Then("segments", "idt", \A sel \in {16, 48, 56} : IsData(Entry(gdt, sel)))
  /\ Load(ss, 56) /\ UNCHANGED <<cr, cr3, tables, gdt, cs, idt, a20>>

StartStep ==
  \/ Cli \/ Lgdt32 \/ Lidt \/ EnableA20 \/ ProtectedMode \/ JumpTo32 \/ Segments32
  \/ if_enter_long_mode \/ StoreTables \/ Lgdt64 \/ SetPae \/ LoadCr3 \/ SetLme
  \/ SetPaging \/ JumpTo64 \/ Segments64 \/ ReadImage \/ EnterKernel
  \/ LoadKernelCr3 \/ Switch \/ GoToKernel \/ init_gdt \/ SetSegments
=============================================================================

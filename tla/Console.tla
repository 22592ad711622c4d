------------------------------- MODULE Console -------------------------------
(***************************************************************************)
(* The screen cursor of device/printk.c: what kprintf and kprintf_color    *)
(* (two copies of one loop) do to Pos, and the pixels putchar stores to,   *)
(* character by character.  The text is arbitrary; colours and glyphs are  *)
(* left out.                                                               *)
(*                                                                         *)
(* XPosition and YPosition count character cells, XCharSize and YCharSize  *)
(* are the pixels of a cell; putchar is given pixels.                      *)
(***************************************************************************)
EXTENDS Integers

CONSTANTS
  XResolution, YResolution,  \* the screen, in pixels
  XCharSize, YCharSize,      \* a character cell, in pixels
  TabWidth,                  \* 8 in the code
  MappedPixels               \* the pixels from FB_addr on that have a page

ASSUME SizesAssumption ==
  /\ XResolution \in Nat /\ YResolution \in Nat
  /\ XCharSize \in Nat \ {0} /\ YCharSize \in Nat \ {0}
  /\ XResolution >= XCharSize /\ YResolution >= YCharSize
  /\ TabWidth \in Nat \ {0} /\ MappedPixels \in Nat

VARIABLES
  XPosition, YPosition,
  line,     \* the cells of a tab that are still to be drawn
  drawn,    \* the pixel putchar was last given
  halted    \* a store of putchar had no page

vars == <<XPosition, YPosition, line, drawn, halted>>

Columns == XResolution \div XCharSize
Rows    == YResolution \div YCharSize

Init ==
  /\ XPosition = 0 /\ YPosition = 0 /\ line = 0
  /\ drawn = [x |-> 0, y |-> 0] /\ halted = FALSE

\* The two tests that end every turn of the loop, given the position the
\* character left.
MoveTo(x, y) ==
  LET row == IF x >= Columns THEN y + 1 ELSE y
  IN /\ XPosition' = IF x >= Columns THEN 0 ELSE x
     /\ YPosition' = IF row >= Rows THEN 0 ELSE row

\* putchar on the cell (x, y): XCharSize by YCharSize pixels from this one on,
\* the last of them being the furthest in memory.
LastPixel(p) == XResolution * (p.y + YCharSize - 1) + p.x + XCharSize - 1
PutChar(x, y) ==
  /\ drawn' = [x |-> x * XCharSize, y |-> y * YCharSize]
  /\ halted' = (LastPixel(drawn') >= MappedPixels)

NewChar == ~halted /\ line = 0

\* A mutant: the cursor moves before the character is drawn.
PrintableAhead ==
  /\ NewChar
  /\ PutChar(XPosition + 1, YPosition)
  /\ MoveTo(XPosition + 1, YPosition)
  /\ UNCHANGED line

Printable ==
  /\ NewChar
  /\ PutChar(XPosition, YPosition)
  /\ MoveTo(XPosition + 1, YPosition)
  /\ UNCHANGED line

Newline ==
  /\ NewChar
  /\ MoveTo(0, YPosition + 1)
  /\ UNCHANGED <<line, drawn, halted>>

\* A mutant: no test for column 0.
BackspaceAnywhere ==
  /\ NewChar
  /\ PutChar(XPosition - 1, YPosition)
  /\ MoveTo(XPosition - 1, YPosition)
  /\ UNCHANGED line

\* Left of column 0 lies the last column of the row above, and above row 0
\* the last row; the code multiplies both by the size of a cell.
Backspace ==
  /\ NewChar
  /\ LET wraps == XPosition - 1 < 0
         x == IF wraps THEN (Columns - 1) * XCharSize ELSE XPosition - 1
         y == IF ~wraps THEN YPosition
              ELSE IF YPosition - 1 < 0 THEN (Rows - 1) * YCharSize ELSE YPosition - 1
     IN PutChar(x, y) /\ MoveTo(x, y)
  /\ UNCHANGED line

\* The blanks of a tab, up to the next multiple of TabWidth: the first one with
\* the tab itself, the others a turn of the loop each.
TabBlank(blanks) ==
  /\ ~halted
  /\ line' = blanks - 1
  /\ PutChar(XPosition, YPosition)
  /\ MoveTo(XPosition + 1, YPosition)

\* A mutant: every tab is TabWidth blanks.
TabOfTabWidth == line = 0 /\ TabBlank(TabWidth)

Tab == line = 0 /\ TabBlank(((XPosition + TabWidth) \div TabWidth) * TabWidth - XPosition)
TabGoesOn == line > 0 /\ TabBlank(line)

Next == Printable \/ Newline \/ Backspace \/ Tab \/ TabGoesOn

Spec == Init /\ [][Next]_vars

-----------------------------------------------------------------------------
TypeOK ==
  /\ XPosition \in Nat /\ YPosition \in Nat /\ line \in 0 .. TabWidth - 1
  /\ drawn \in [x : Nat, y : Nat] /\ halted \in BOOLEAN

\* Whatever is printed, backspaces past the left and the upper edge included,
\* the next character starts in a cell of the screen.
CursorOnScreen == XPosition \in 0 .. Columns - 1 /\ YPosition \in 0 .. Rows - 1

\* putchar draws in the cells of the screen only: "add \n \b \t"
\* (device/printk.c) says that all three are handled.
DrawnOnScreen ==
  drawn.x \in 0 .. XResolution - XCharSize /\ drawn.y \in 0 .. YResolution - YCharSize

\* What is drawn is on the screen as long as no backspace meets the left edge,
\* and a store has no page only when one meets it in the first row.
AtLeftEdge == Backspace /\ XPosition = 0
DrawsOnScreenStep ==
  /\ drawn' # drawn /\ ~AtLeftEdge => DrawnOnScreen'
  /\ halted' # halted => AtLeftEdge /\ YPosition = 0
DrawsOnScreen == [][DrawsOnScreenStep]_vars

\* A tab, however it meets the right edge, draws as many blanks as are missing
\* to the tab stop: the cursor and the blanks to come are at a stop together,
\* counted in the row the tab began in, or in the next one.
TabStops ==
  line > 0 => \/ (XPosition + line) % TabWidth = 0
              \/ (XPosition + line + Columns) % TabWidth = 0
=============================================================================

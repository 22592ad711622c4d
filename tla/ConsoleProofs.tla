--------------------------- MODULE ConsoleProofs ---------------------------
(***************************************************************************)
(* Proofs about the cursor, for every screen at least one character cell   *)
(* large.  It stays on the screen: the two tests that end every turn of    *)
(* the loop in kprintf only bound the position from above, and what has to *)
(* be shown beside them is that no character takes it below 0.  A tab ends *)
(* at a stop, if a row is as wide as a tab.  And what is drawn is on the   *)
(* screen and in mapped memory, unless a backspace meets the left edge.    *)
(***************************************************************************)
EXTENDS Console, TLAPS

LEMMA DivPositive ==
  ASSUME NEW a \in Nat, NEW b \in Nat \ {0}, a >= b
  PROVE  a \div b \in Nat \ {0}
  OBVIOUS

\* The screen has a cell.
LEMMA CellsOnScreen == Columns \in Nat \ {0} /\ Rows \in Nat \ {0}
<1>1. Columns \in Nat \ {0}
  BY SizesAssumption, DivPositive DEF Columns
<1>2. Rows \in Nat \ {0}
  BY SizesAssumption, DivPositive DEF Rows
<1> QED
  BY <1>1, <1>2

\* The two wrap tests, from any position that is not negative.
LEMMA MoveToOnScreen ==
  ASSUME NEW x \in Nat, NEW y \in Nat, MoveTo(x, y)
  PROVE  CursorOnScreen'
<1> DEFINE row == IF x >= Columns THEN y + 1 ELSE y
<1>1. Columns \in Nat \ {0} /\ Rows \in Nat \ {0} /\ row \in Nat
  BY CellsOnScreen
<1>2. XPosition' = (IF x >= Columns THEN 0 ELSE x) /\ YPosition' = (IF row >= Rows THEN 0 ELSE row)
  BY DEF MoveTo
<1>3. XPosition' \in 0 .. Columns - 1
  BY <1>1, <1>2
<1>4. YPosition' \in 0 .. Rows - 1
  BY <1>1, <1>2
<1>5. CursorOnScreen' <=> XPosition' \in 0 .. Columns - 1 /\ YPosition' \in 0 .. Rows - 1
  BY DEF CursorOnScreen, Columns, Rows
<1> QED
  BY <1>3, <1>4, <1>5

\* Where a backspace goes is not negative.
LEMMA BackspaceOnScreen == CursorOnScreen /\ Backspace => CursorOnScreen'
<1> SUFFICES ASSUME CursorOnScreen, Backspace
             PROVE  CursorOnScreen'
  OBVIOUS
<1> DEFINE wraps == XPosition - 1 < 0
           x == IF wraps THEN (Columns - 1) * XCharSize ELSE XPosition - 1
           y == IF ~wraps THEN YPosition
                ELSE IF YPosition - 1 < 0 THEN (Rows - 1) * YCharSize ELSE YPosition - 1
<1>1. XPosition \in Nat /\ YPosition \in Nat
  BY CellsOnScreen DEF CursorOnScreen
<1>2. (Columns - 1) * XCharSize \in Nat /\ (Rows - 1) * YCharSize \in Nat
  <2>1. \A m, n \in Nat : m * n \in Nat
    OBVIOUS
  <2> QED
    BY <2>1, CellsOnScreen, SizesAssumption
<1>3. x \in Nat
  <2> HIDE DEF wraps
  <2>1. CASE wraps
    BY <2>1, <1>2
  <2>2. CASE ~wraps
    BY <2>2, <1>1 DEF wraps
  <2> QED
    BY <2>1, <2>2
<1>4. y \in Nat
  BY <1>1, <1>2
<1>5. MoveTo(x, y)
  BY DEF Backspace
<1> HIDE DEF x, y
<1> QED
  BY <1>3, <1>4, <1>5, MoveToOnScreen

LEMMA NextOnScreen == CursorOnScreen /\ [Next]_vars => CursorOnScreen'
<1> SUFFICES ASSUME CursorOnScreen, [Next]_vars
             PROVE  CursorOnScreen'
  OBVIOUS
<1>1. XPosition \in Nat /\ XPosition + 1 \in Nat /\ YPosition \in Nat /\ YPosition + 1 \in Nat
  BY CellsOnScreen DEF CursorOnScreen
<1>2. CASE Printable
  BY <1>1, <1>2, MoveToOnScreen DEF Printable
<1>3. CASE Newline
  BY <1>1, <1>3, MoveToOnScreen DEF Newline
<1>4. CASE Backspace
  BY <1>4, BackspaceOnScreen
<1>5. CASE Tab
  BY <1>1, <1>5, MoveToOnScreen DEF Tab, TabBlank
<1>6. CASE TabGoesOn
  BY <1>1, <1>6, MoveToOnScreen DEF TabGoesOn, TabBlank
<1>7. CASE UNCHANGED vars
  BY <1>7 DEF CursorOnScreen, vars, Columns, Rows
<1> QED
  BY <1>2, <1>3, <1>4, <1>5, <1>6, <1>7 DEF Next

\* Whatever kprintf is given to print, the next character starts in a cell of
\* the screen.
THEOREM CursorStaysOnScreen == Spec => []CursorOnScreen
<1>1. Init => CursorOnScreen
  BY CellsOnScreen DEF Init, CursorOnScreen
<1> QED
  BY <1>1, NextOnScreen, PTL DEF Spec

-----------------------------------------------------------------------------
(* Products and remainders. *)

LEMMA ProductMonotone ==
  ASSUME NEW a \in Int, NEW b \in Int, NEW k \in Nat, a <= b
  PROVE  a * k <= b * k
  OBVIOUS

LEMMA ProductNatural == ASSUME NEW a \in Nat, NEW b \in Nat PROVE a * b \in Nat
  OBVIOUS

LEMMA QuotientBelow ==
  ASSUME NEW a \in Nat, NEW b \in Nat \ {0}
  PROVE  (a \div b) * b <= a
  OBVIOUS

\* The last cell that begins before a limit ends before it.
LEMMA CellFits ==
  ASSUME NEW resolution \in Nat, NEW size \in Nat \ {0}, NEW c \in 0 .. (resolution \div size) - 1
  PROVE  c * size \in 0 .. resolution - size
<1>1. (resolution \div size) * size <= resolution /\ resolution \div size \in Int
  BY QuotientBelow
<1>2. (c + 1) * size <= (resolution \div size) * size
  BY <1>1, ProductMonotone
<1>3. (c + 1) * size = c * size + size /\ c * size \in Nat
  BY ProductNatural
<1> QED
  BY <1>1, <1>2, <1>3

LEMMA Remainder ==
  ASSUME NEW w \in Nat \ {0}, NEW q \in Int, NEW r \in 0 .. w - 1
  PROVE  (w * q + r) % w = r
  OBVIOUS

\* The blanks of a tab: at least one, at most a tab's width, up to a stop.
LEMMA NextMultiple ==
  ASSUME NEW a \in Nat, NEW t \in Nat \ {0}
  PROVE  /\ ((a + t) \div t) * t - a \in 1 .. t
         /\ (((a + t) \div t) * t) % t = 0
<1> DEFINE q == (a + t) \div t
           r == (a + t) % t
<1>1. a + t \in Int
  OBVIOUS
<1>2. a + t = t * q + r /\ q \in Int /\ r \in 0 .. t - 1
  BY <1>1
<1> HIDE DEF q, r
<1>3. q * t = t * q + 0 /\ q * t = a + t - r
  BY <1>2
<1>4. (t * q + 0) % t = 0
  <2>1. 0 \in 0 .. t - 1
    OBVIOUS
  <2> QED
    BY <1>2, <2>1, Remainder
<1> QED
  BY <1>2, <1>3, <1>4 DEF q

-----------------------------------------------------------------------------
(* Tab stops. *)

\* The blanks of one tab wrap at most once when a row is as wide as a tab.
RowHoldsTab == Columns >= TabWidth

\* What is inductive: a tab that has wrapped ends before the next stop.
TabInv ==
  line > 0 => \/ (XPosition + line) % TabWidth = 0
              \/ /\ (XPosition + line + Columns) % TabWidth = 0
                 /\ XPosition + line < TabWidth

PositionInv == CursorOnScreen /\ line \in 0 .. TabWidth - 1 /\ halted \in BOOLEAN

TabsInv == PositionInv /\ TabInv

LEMMA PositionInit == Init => PositionInv
<1> SUFFICES ASSUME Init PROVE PositionInv
  OBVIOUS
<1>1. CursorOnScreen
  BY CellsOnScreen DEF Init, CursorOnScreen
<1>2. line \in 0 .. TabWidth - 1
  BY SizesAssumption DEF Init
<1>3. halted \in BOOLEAN
  BY DEF Init
<1> QED
  BY <1>1, <1>2, <1>3 DEF PositionInv

\* A blank of a tab leaves fewer to draw.
LEMMA PositionNext == PositionInv /\ [Next]_vars => PositionInv'
<1> SUFFICES ASSUME PositionInv, [Next]_vars PROVE PositionInv'
  OBVIOUS
<1>1. CursorOnScreen'
  BY NextOnScreen DEF PositionInv
<1>2. line \in 0 .. TabWidth - 1 /\ halted \in BOOLEAN /\ XPosition \in Nat
  BY CellsOnScreen DEF PositionInv, CursorOnScreen
<1>3. line' \in 0 .. TabWidth - 1 /\ halted' \in BOOLEAN
  <2>1. CASE Printable
    BY <1>2, <2>1 DEF Printable, PutChar
  <2>2. CASE Newline
    BY <1>2, <2>2 DEF Newline
  <2>3. CASE Backspace
    BY <1>2, <2>3 DEF Backspace, PutChar
  <2>4. CASE Tab
    <3> DEFINE blanks == ((XPosition + TabWidth) \div TabWidth) * TabWidth - XPosition
    <3>1. blanks \in 1 .. TabWidth
      BY <1>2, NextMultiple, SizesAssumption
    <3>2. line' = blanks - 1 /\ halted' \in BOOLEAN
      BY <2>4 DEF Tab, TabBlank, PutChar
    <3> HIDE DEF blanks
    <3> QED
      BY <3>1, <3>2, SizesAssumption
  <2>5. CASE TabGoesOn
    BY <1>2, <2>5, SizesAssumption DEF TabGoesOn, TabBlank, PutChar
  <2>6. CASE UNCHANGED vars
    BY <1>2, <2>6 DEF vars
  <2> QED
    BY <2>1, <2>2, <2>3, <2>4, <2>5, <2>6 DEF Next
<1> QED
  BY <1>1, <1>3 DEF PositionInv

\* One blank, drawn at a column where the sum already is at a stop.
LEMMA BlankKeepsStop ==
  ASSUME NEW n \in 1 .. TabWidth, PositionInv, RowHoldsTab,
         line' = n - 1, MoveTo(XPosition + 1, YPosition),
         \/ (XPosition + n) % TabWidth = 0
         \/ (XPosition + n + Columns) % TabWidth = 0 /\ XPosition + n < TabWidth
  PROVE  TabInv'
<1>1. XPosition \in 0 .. Columns - 1 /\ Columns \in Nat \ {0} /\ TabWidth \in Nat \ {0}
  BY CellsOnScreen, SizesAssumption DEF PositionInv, CursorOnScreen
<1>2. Columns >= TabWidth
  BY DEF RowHoldsTab
<1>3. XPosition' = IF XPosition + 1 >= Columns THEN 0 ELSE XPosition + 1
  BY DEF MoveTo
<1>4. TabInv' <=> (line' > 0 => \/ (XPosition' + line') % TabWidth = 0
                                \/ /\ (XPosition' + line' + Columns) % TabWidth = 0
                                   /\ XPosition' + line' < TabWidth)
  BY DEF TabInv, Columns
<1>5. CASE XPosition + 1 < Columns
  <2>1. XPosition' + line' = XPosition + n
    BY <1>1, <1>3, <1>5
  <2> QED
    BY <1>4, <2>1
<1>6. CASE XPosition + 1 >= Columns
  <2>1. XPosition + 1 = Columns
    BY <1>1, <1>6
  <2>2. XPosition' = 0 /\ XPosition' + line' + Columns = XPosition + n /\ XPosition' + line' < TabWidth
    BY <1>1, <1>3, <2>1
  <2>3. ~(XPosition + n < TabWidth)
    BY <1>1, <1>2, <2>1
  <2> QED
    BY <1>4, <2>2, <2>3
<1> QED
  BY <1>1, <1>5, <1>6

LEMMA TabsNext == RowHoldsTab /\ TabsInv /\ [Next]_vars => TabInv'
<1> SUFFICES ASSUME RowHoldsTab, TabsInv, [Next]_vars PROVE TabInv'
  OBVIOUS
<1>1. PositionInv /\ TabInv
  BY DEF TabsInv
<1>2. line \in 0 .. TabWidth - 1 /\ XPosition \in Nat /\ TabWidth \in Nat \ {0}
  BY <1>1, CellsOnScreen, SizesAssumption DEF PositionInv, CursorOnScreen
<1>3. CASE line = 0 /\ line' = line
  BY <1>3 DEF TabInv
<1>4. CASE Tab
  <2> DEFINE n == ((XPosition + TabWidth) \div TabWidth) * TabWidth - XPosition
  <2>1. n \in 1 .. TabWidth /\ (n + XPosition) % TabWidth = 0
    <3>1. ((XPosition + TabWidth) \div TabWidth) * TabWidth \in Int
      BY <1>2, NextMultiple
    <3>2. n + XPosition = ((XPosition + TabWidth) \div TabWidth) * TabWidth
      BY <1>2, <3>1
    <3> QED
      BY <1>2, <3>2, NextMultiple
  <2>2. line' = n - 1 /\ MoveTo(XPosition + 1, YPosition)
    BY <1>4 DEF Tab, TabBlank
  <2> HIDE DEF n
  <2>3. XPosition + n = n + XPosition
    BY <1>2, <2>1
  <2> QED
    BY <1>1, <2>1, <2>2, <2>3, BlankKeepsStop
<1>5. CASE TabGoesOn
  <2>1. line \in 1 .. TabWidth
    BY <1>2, <1>5 DEF TabGoesOn
  <2>2. line' = line - 1 /\ MoveTo(XPosition + 1, YPosition)
    BY <1>5 DEF TabGoesOn, TabBlank
  <2>3. \/ (XPosition + line) % TabWidth = 0
        \/ (XPosition + line + Columns) % TabWidth = 0 /\ XPosition + line < TabWidth
    BY <1>1, <2>1 DEF TabInv
  <2> QED
    BY <1>1, <2>1, <2>2, <2>3, BlankKeepsStop
<1>6. CASE UNCHANGED vars
  BY <1>1, <1>6 DEF TabInv, vars, Columns
<1> QED
  BY <1>3, <1>4, <1>5, <1>6 DEF Next, Printable, Newline, Backspace, NewChar

\* On every screen with a row at least a tab wide, a tab of kprintf draws the
\* blanks that are missing to the tab stop, however it meets the right edge.
THEOREM TabsReachStops == RowHoldsTab => (Spec => []TabStops)
<1> SUFFICES ASSUME RowHoldsTab PROVE Spec => []TabStops
  OBVIOUS
<1>1. Init => TabsInv
  BY PositionInit DEF Init, TabsInv, TabInv
<1>2. TabsInv /\ [Next]_vars => TabsInv'
  BY PositionNext, TabsNext DEF TabsInv
<1>3. TabsInv => TabStops
  BY DEF TabsInv, TabInv, TabStops
<1> QED
  BY <1>1, <1>2, <1>3, PTL DEF Spec

-----------------------------------------------------------------------------
(* What is drawn. *)

\* Memory is mapped for the screen and for as many rows of pixels more as a cell
\* is wide (init/head.S maps 16 Mbyte from the frame buffer's address on).
ScreenMapped == XResolution * YResolution + XResolution * XCharSize <= MappedPixels

\* A cell of the screen lies on it with all its pixels, and all of them have
\* a page.
LEMMA CellDrawn ==
  ASSUME NEW c \in 0 .. Columns - 1, NEW r \in 0 .. Rows - 1, ScreenMapped, PutChar(c, r)
  PROVE  DrawnOnScreen' /\ halted' = FALSE
<1>1. c * XCharSize \in 0 .. XResolution - XCharSize
  BY SizesAssumption, CellFits DEF Columns
<1>2. r * YCharSize \in 0 .. YResolution - YCharSize
  BY SizesAssumption, CellFits DEF Rows
<1> DEFINE x == c * XCharSize
           y == r * YCharSize
<1>3. drawn' = [x |-> x, y |-> y] /\ halted' = (LastPixel(drawn') >= MappedPixels)
  BY DEF PutChar
<1> HIDE DEF x, y
<1>4. drawn'.x = x /\ drawn'.y = y
  BY <1>3
<1>5. LastPixel(drawn') = XResolution * (y + YCharSize - 1) + x + XCharSize - 1
  BY <1>4 DEF LastPixel
<1>6. x \in 0 .. XResolution - XCharSize /\ y \in 0 .. YResolution - YCharSize
  BY <1>1, <1>2 DEF x, y
<1>7. y + YCharSize - 1 <= YResolution - 1 /\ y + YCharSize - 1 \in Nat
  BY <1>6, SizesAssumption
<1>8. XResolution * (y + YCharSize - 1) <= XResolution * (YResolution - 1)
  <2>1. (y + YCharSize - 1) * XResolution <= (YResolution - 1) * XResolution
    BY <1>7, SizesAssumption, ProductMonotone
  <2> QED
    BY <1>7, <2>1, SizesAssumption
<1>9. XResolution * (YResolution - 1) = XResolution * YResolution - XResolution
  BY SizesAssumption
<1>10. XResolution * YResolution \in Nat /\ XResolution * XCharSize \in Nat
       /\ XResolution * (y + YCharSize - 1) \in Nat
  BY <1>7, SizesAssumption, ProductNatural
<1>11. LastPixel(drawn') < MappedPixels /\ LastPixel(drawn') \in Int
  BY <1>5, <1>6, <1>8, <1>9, <1>10, SizesAssumption DEF ScreenMapped
<1>12. halted' = FALSE
  <2>1. (LastPixel(drawn') >= MappedPixels) = FALSE
    BY <1>11, SizesAssumption
  <2> QED
    BY <1>3, <2>1, Zenon
<1>13. DrawnOnScreen'
  BY <1>4, <1>6 DEF DrawnOnScreen
<1> QED
  BY <1>12, <1>13

\* A backspace at the left edge of a row below the first one draws outside the
\* row, but inside what is mapped.
LEMMA EdgeMapped ==
  ASSUME NEW r \in 0 .. Rows - 2, ScreenMapped, PutChar((Columns - 1) * XCharSize, r)
  PROVE  halted' = FALSE
<1> DEFINE c == (Columns - 1) * XCharSize
           x == c * XCharSize
           y == r * YCharSize
<1>1. Columns \in Nat \ {0} /\ Rows \in Nat \ {0} /\ r \in 0 .. Rows - 1
  BY CellsOnScreen
<1>2. c \in 0 .. XResolution - XCharSize
  <2>1. Columns - 1 \in 0 .. (XResolution \div XCharSize) - 1
    BY <1>1 DEF Columns
  <2> QED
    BY <2>1, SizesAssumption, CellFits
<1>3. y \in 0 .. YResolution - YCharSize
  BY <1>1, SizesAssumption, CellFits DEF Rows
<1>4. drawn' = [x |-> x, y |-> y] /\ halted' = (LastPixel(drawn') >= MappedPixels)
  BY DEF PutChar
<1> HIDE DEF c
<1>5. x \in Nat /\ x <= (XResolution - XCharSize) * XCharSize
  BY <1>2, SizesAssumption, ProductMonotone, ProductNatural
<1>6. (XResolution - XCharSize) * XCharSize = XResolution * XCharSize - XCharSize * XCharSize
      /\ XCharSize * XCharSize >= XCharSize
  <2>1. 1 * XCharSize <= XCharSize * XCharSize
    BY SizesAssumption, ProductMonotone
  <2> QED
    BY <2>1, SizesAssumption
<1> HIDE DEF x, y
<1>7. LastPixel(drawn') = XResolution * (y + YCharSize - 1) + x + XCharSize - 1
  BY <1>4 DEF LastPixel
<1>8. y + YCharSize - 1 <= YResolution - 1 /\ y + YCharSize - 1 \in Nat
  BY <1>3, SizesAssumption
<1>9. XResolution * (y + YCharSize - 1) <= XResolution * (YResolution - 1)
  <2>1. (y + YCharSize - 1) * XResolution <= (YResolution - 1) * XResolution
    BY <1>8, SizesAssumption, ProductMonotone
  <2> QED
    BY <1>8, <2>1, SizesAssumption
<1>10. XResolution * (YResolution - 1) = XResolution * YResolution - XResolution
  BY SizesAssumption
<1>11. XResolution * YResolution \in Nat /\ XResolution * XCharSize \in Nat
       /\ XResolution * (y + YCharSize - 1) \in Nat /\ XCharSize * XCharSize \in Nat
  BY <1>8, SizesAssumption, ProductNatural
<1>12. LastPixel(drawn') < MappedPixels /\ LastPixel(drawn') \in Int
  BY <1>5, <1>6, <1>7, <1>9, <1>10, <1>11, SizesAssumption DEF ScreenMapped
<1>13. (LastPixel(drawn') >= MappedPixels) = FALSE
  BY <1>12, SizesAssumption
<1> QED
  BY <1>4, <1>13, Zenon

LEMMA DrawsStep == ScreenMapped /\ PositionInv /\ [Next]_vars => [DrawsOnScreenStep]_vars
<1> SUFFICES ASSUME ScreenMapped, PositionInv, Next PROVE DrawsOnScreenStep
  BY DEF vars
<1>1. /\ XPosition \in 0 .. Columns - 1 /\ YPosition \in 0 .. Rows - 1
      /\ Columns \in Nat \ {0} /\ Rows \in Nat \ {0} /\ halted \in BOOLEAN
  BY CellsOnScreen DEF PositionInv, CursorOnScreen
<1>2. ASSUME PutChar(XPosition, YPosition), ~halted PROVE DrawsOnScreenStep
  BY <1>1, <1>2, CellDrawn DEF DrawsOnScreenStep
<1>3. CASE Printable
  BY <1>2, <1>3 DEF Printable, NewChar
<1>4. CASE Tab \/ TabGoesOn
  BY <1>2, <1>4 DEF Tab, TabGoesOn, TabBlank
<1>5. CASE Newline
  BY <1>5 DEF Newline, DrawsOnScreenStep
<1>6. CASE Backspace /\ XPosition > 0
  <2>1. ~(XPosition - 1 < 0) /\ XPosition - 1 \in 0 .. Columns - 1
    BY <1>1, <1>6
  <2>2. PutChar(XPosition - 1, YPosition) /\ ~halted
    BY <1>6, <2>1 DEF Backspace, NewChar
  <2>3. DrawnOnScreen' /\ halted' = FALSE
    BY <1>1, <2>1, <2>2, CellDrawn
  <2> QED
    BY <1>1, <2>2, <2>3 DEF DrawsOnScreenStep
<1>7. CASE Backspace /\ XPosition = 0
  <2>1. AtLeftEdge
    BY <1>7 DEF AtLeftEdge
  <2>2. CASE YPosition = 0
    BY <2>1, <2>2 DEF DrawsOnScreenStep
  <2>3. CASE YPosition > 0
    <3>1. XPosition - 1 < 0 /\ ~(YPosition - 1 < 0) /\ YPosition - 1 \in 0 .. Rows - 2
      BY <1>1, <1>7, <2>3
    <3>2. PutChar((Columns - 1) * XCharSize, YPosition - 1) /\ ~halted
      BY <1>7, <3>1 DEF Backspace, NewChar
    <3>3. halted' = FALSE
      BY <3>1, <3>2, EdgeMapped
    <3> QED
      BY <1>1, <2>1, <3>2, <3>3 DEF DrawsOnScreenStep
  <2> QED
    BY <1>1, <2>2, <2>3
<1> QED
  BY <1>1, <1>3, <1>4, <1>5, <1>6, <1>7 DEF Next

\* On every screen that is mapped, putchar draws outside the screen only for a
\* backspace at the left edge, and meets a page that is not there only for one
\* in the first row.
THEOREM DrawingStays == ScreenMapped => (Spec => DrawsOnScreen)
<1> SUFFICES ASSUME ScreenMapped PROVE Spec => DrawsOnScreen
  OBVIOUS
<1>1. Init => PositionInv
  BY PositionInit
<1>2. PositionInv /\ [Next]_vars => PositionInv'
  BY PositionNext
<1>3. PositionInv /\ [Next]_vars => [DrawsOnScreenStep]_vars
  BY DrawsStep
<1> QED
  BY <1>1, <1>2, <1>3, PTL DEF Spec, DrawsOnScreen
=============================================================================

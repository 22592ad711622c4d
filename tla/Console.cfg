\* The screen of the code: 1440 by 900 pixels, from an address on of which
\* init/head.S maps 16 Mbyte.  The machine halts on a page fault.
SPECIFICATION Spec
CHECK_DEADLOCK FALSE
CONSTANTS
  XResolution = 1440
  YResolution = 900
  XCharSize = 8
  YCharSize = 16
  TabWidth = 8
  MappedPixels = 4194304
INVARIANTS
  CursorOnScreen
  TabStops
PROPERTY DrawsOnScreen

\* Keys hit faster than the task reads and writes them; p_tty anywhere.
\* A page fault on p_tty halts the machine, and after an overflow of kb_buf
\* the task may wait inside a code for a byte that was lost.
CHECK_DEADLOCK FALSE
SPECIFICATION FairSpec
CONSTANTS
  Keys = {"a", "SHIFT_L", "SHIFT_R", "CAPS_LOCK", "HOME"}
  KbCapacity = 4
  OutCapacity = 2
  MaxEvents = 5
  Paced = FALSE
  Typematic = {"a", "SHIFT_R"}
  TtyTargets = {"mapped", "unmapped"}
INVARIANTS
  TypeOK
  EchoInOrder
PROPERTY EchoComplete

\* The build of the Makefiles: an interrupt in a function that calls nothing.
SPECIFICATION Spec
CHECK_DEADLOCK FALSE
CONSTANTS
  Raised = {0, 1, 14}
  Calls = {31, 32, 46}
  Faults = {14}
  Delays = {15}
  IntHalf = 2
  LongRange = 8
  MaxNest = 2
INVARIANT LocalsKept

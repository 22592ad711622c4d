\* Timer, keyboard and disk lines; masks of both 8259As; int of 2 bits, u64 of 3.
SPECIFICATION FairSpec
CHECK_DEADLOCK FALSE
CONSTANTS
  Raised = {0, 1, 14}
  Calls = {31, 32, 46}
  Faults = {14}
  Delays = {15}
  IntHalf = 2
  LongRange = 8
  MaxNest = 2
INVARIANTS
  NoReset
  InterruptsPrepared
  StackBalanced
  HaltExplained
  PrintNotResumed
  EdgeLostOnlyEarly
PROPERTIES
  DelayLongEnough
  DelayEnds

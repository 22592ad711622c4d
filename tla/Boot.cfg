\* Two ranges fit the table, the kernel reads three, the BIOS has up to four.
SPECIFICATION FairSpec
CHECK_DEADLOCK FALSE
CONSTANTS
  LoaderSectors = 2
  KernelSectors = 2
  Words = 2
  Prompt = TRUE
  Lengths = {2}
  Types = {1, 2, 5}
  MaxRanges = 4
  TableRoom = 2
  TableRead = 3
  MaxModes = 2
  ModeRoom = 1
INVARIANTS
  ImageIntact
  TotalCoversRam
  TotalWithinRam
PROPERTY ComesUp

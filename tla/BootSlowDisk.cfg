\* A disk that needs time between two sectors.
SPECIFICATION Spec
CHECK_DEADLOCK FALSE
CONSTANTS
  LoaderSectors = 2
  KernelSectors = 2
  Words = 2
  Prompt = FALSE
  Lengths = {2}
  Types = {1, 2, 5}
  MaxRanges = 1
  TableRoom = 2
  TableRead = 3
  MaxModes = 2
  ModeRoom = 1
INVARIANT ImageIntact

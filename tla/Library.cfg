\* Two lists that share three nodes; bitmaps of no, part of one and one whole byte;
\* ints of 4 bits and longs of 6.
SPECIFICATION LibrarySpec
CONSTANTS
  List = {l1, l2}
  Node = {n1, n2, n3}
  Null = Null
  BitCounts = {0, 5, 8}
  MaxRun = 4
  IntHalf = 8
  LongHalf = 32
  PointerDigits = 2
CHECK_DEADLOCK FALSE
INVARIANTS
  ListsLinked
  AllocTakesRun
  DescriptorsFaithful
  FormatFaithful
  StringsKept

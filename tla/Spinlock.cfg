\* Three CPUs, each with a task and a handler.
SPECIFICATION FairSpec
CONSTANTS
  CPU = {c1, c2, c3}
INVARIANTS
  MutualExclusion
  NoSelfDeadlock
  LockBounded
PROPERTIES
  LockTaken

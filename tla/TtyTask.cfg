\* One key after the other, all kinds of keys.
SPECIFICATION Spec
CONSTANTS
  Keys = {"a", "1", "SHIFT_L", "SHIFT_R", "CTRL_R", "CAPS_LOCK", "PAD_7", "PAD_PLUS", "PAD_ENTER", "HOME", "PRINTSCREEN", "PAUSEBREAK", "ENTER"}
  KbCapacity = 6
  OutCapacity = 2
  MaxEvents = 4
  Paced = TRUE
  Typematic = {}
  TtyTargets = {"mapped"}
INVARIANTS
  ModifiersTrack
  LocksTrack
  EchoFaithful
  FrameSync

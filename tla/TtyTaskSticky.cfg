\* A key hit before keyboard_read returns from PrintScreen.
SPECIFICATION Spec
CONSTANTS
  Keys = {"PRINTSCREEN", "a"}
  KbCapacity = 8
  OutCapacity = 2
  MaxEvents = 3
  Paced = FALSE
  Typematic = {}
  TtyTargets = {"mapped"}
INVARIANT EchoFaithful

SPECIFICATION Spec
CONSTANTS
  ctrl = ctrl
  x = x
  s = s
  kbd1 = kbd1
  kbd2 = kbd2
  Keyboards = {kbd1, kbd2}
  Keys = {ctrl, x, s}
  Modifiers = {ctrl}
  NoKey = NoKey
  NoDev = NoDev
  Sequences <- EmacsSequences
  Grabs <- EmacsGrabs
  StartHeld = {}
  MaxPresses = 2
  MaxBacklog = 2
  MaxPlugs = 0
  MaxReplay = 8
  MayFail <- NoneFail
INVARIANT PressIsNew
CHECK_DEADLOCK FALSE

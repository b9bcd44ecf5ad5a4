SPECIFICATION Spec
CONSTANTS
  ctrl = ctrl
  x = x
  s = s
  kbd1 = kbd1
  kbd2 = kbd2
  Keyboards = {kbd1}
  Keys = {ctrl, x, s}
  Modifiers = {ctrl}
  NoKey = NoKey
  NoDev = NoDev
  Sequences <- EmacsSequences
  Grabs <- EmacsGrabs
  StartHeld = {s}
  MaxPresses = 4
  MaxBacklog = 3
  MaxPlugs = 1
  MaxReplay = 4
  MayFail <- GrabFails
INVARIANTS TypeOK PressIsNew NoStuckKeys
PROPERTIES WholeGesture KeepsPromise
CHECK_DEADLOCK FALSE

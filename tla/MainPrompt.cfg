SPECIFICATION Spec
CONSTANTS
  ctrl = ctrl
  x = x
  s = s
  kbd1 = kbd1
  kbd2 = kbd2
  Keyboards = {kbd1}
  Keys = {ctrl, x, s}
  Modifiers = {ctrl}
  NoKey = NoKey
  NoDev = NoDev
  Sequences <- ManySequences
  Grabs <- ManyGrabs
  StartHeld = {}
  MaxPresses = 5
  MaxBacklog = 1
  MaxPlugs = 0
  MaxReplay = 8
  MayFail <- NoneFail
INVARIANTS ExactlyOnce AsTyped
CHECK_DEADLOCK FALSE

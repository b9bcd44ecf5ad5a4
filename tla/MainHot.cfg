SPECIFICATION FairSpec
CONSTANTS
  ctrl = ctrl
  x = x
  s = s
  kbd1 = kbd1
  kbd2 = kbd2
  Keyboards = {kbd1, kbd2}
  Keys = {ctrl, x, s}
  Modifiers = {ctrl}
  NoKey = NoKey
  NoDev = NoDev
  Sequences <- EmacsSequences
  Grabs <- OrphanGrabs
  StartHeld = {}
  MaxPresses = 2
  MaxBacklog = 3
  MaxPlugs = 3
  MaxReplay = 8
  MayFail <- MostFail
INVARIANTS KeyboardFreed AtRest Listening
PROPERTIES KeyboardReturned ReplayDrains
CHECK_DEADLOCK FALSE

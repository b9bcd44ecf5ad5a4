SPECIFICATION Spec
CONSTANTS
  core = core
  coreTest = coreTest
  kbd = kbd
  mouse = mouse
  virt = virt
  adrift = adrift
  secondTest = secondTest
  NoSym = NoSym
  NoDev = NoDev
  Unicode = {"alpha", "beta"}
  MaxSpare = 2
  Fallback = 252
  Desc <- MCDesc
  Fixed = {core, coreTest, mouse, virt}
  Layouts <- MCLayouts
  Typed <- MCTyped
  MaxPlugs = 2
  MaxCrashes = 1
INVARIANTS TypeOK Heard NotItself SparesFree SameModifiers LeavesMap
PROPERTY UserFileKept
CHECK_DEADLOCK FALSE

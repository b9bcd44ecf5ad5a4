SPECIFICATION FairSpec
CONSTANTS
  a = a
  b = b
  Nothing = Nothing
  Quit = Quit
  Kinds = {a, b}
  MaxWait = 2
  MaxBacklog = 3
  MaxSignals = 2
INVARIANTS TypeOK Wakeful
PROPERTIES Awaits QuitSeen
CHECK_DEADLOCK FALSE

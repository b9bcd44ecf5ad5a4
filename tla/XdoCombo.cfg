SPECIFICATION Spec
CONSTANTS
  kx = kx
  kslash = kslash
  kshift = kshift
  spare1 = spare1
  spare2 = spare2
  spare3 = spare3
  spare4 = spare4
  spare5 = spare5
  x = x
  slash = slash
  question = question
  shift = shift
  alpha = alpha
  beta = beta
  gamma = gamma
  NoSym = NoSym
  NoAct = NoAct
  ShiftKey = kshift
  Layout <- Keyboard
  Spare <- FiveSpare
  Lines <- ComboLines
  Unmatched <- Retyped
  MaxReplay = 8
  Lag = 2
  MaxLines = 1
  MaxReplays = 1
  MaxPlugs = 0
INVARIANT AllReleased
CHECK_DEADLOCK FALSE

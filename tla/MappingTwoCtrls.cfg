SPECIFICATION Spec
CONSTANTS
  NoSym = NoSym
  Unparsed = Unparsed
  Words <- MCWords
  Number <- MCNumber
  Escape <- MCEscape
  Lower <- MCLower
  Alnum <- MCAlnum
  XKeysym <- MCXKeysym
  Texts <- MCTexts
  Meant <- MCMeant
  Parsed <- MCParsed
  NameSym <- MCNameSym
  Nameless = {"0xffffff"}
  SymCode <- MCSymCode
  KeycodeMod <- MCKeycodeMod
  Files <- CtrlsFiles
  MaxSeq = 16
  MaxLines = 1
  Unicode = {}
  MaxSpare = 5
  Fallback = 252
INVARIANT GrabsCover
CHECK_DEADLOCK FALSE

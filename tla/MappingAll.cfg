SPECIFICATION Spec
CONSTANTS
  NoSym = NoSym
  Unparsed = Unparsed
  Words <- MCWords
  Number <- MCNumber
  Escape <- MCEscape
  Lower <- MCLower
  Alnum <- MCAlnum
  XKeysym <- MCXKeysym
  Texts <- MCTexts
  Meant <- MCMeant
  Parsed <- MCParsed
  NameSym <- MCNameSym
  Nameless = {"0xffffff"}
  SymCode <- MCSymCode
  KeycodeMod <- MCKeycodeMod
  Files <- MCFiles
  MaxSeq = 16
  MaxLines = 3
  Unicode = {}
  MaxSpare = 5
  Fallback = 252
INVARIANTS TypeOK GrabsCover LastWins AsWritten
CHECK_DEADLOCK FALSE

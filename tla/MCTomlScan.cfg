SPECIFICATION Spec
CONSTANTS
  Texts <- MCTexts
  Control <- MCControl
  ShortHex = 1
  LongHex = 2
  BadCodes <- MCBadCodes
INVARIANTS
  ScannedStringsDecode
  LinesAreCounted

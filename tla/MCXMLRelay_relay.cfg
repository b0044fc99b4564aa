SPECIFICATION RelaySpec
CONSTANTS
  NullString = NullString
  Letters <- MCLetters
  Digits <- MCDigits
  Others <- MCOthers
  Texts <- MCTexts
  Garbage <- MCGarbage
  MaxTexts = 3
INVARIANTS
  NeverNull
  ParsedAsMeant
  RelayFaithful
CHECK_DEADLOCK FALSE

SPECIFICATION Spec
CONSTANTS
  Letters <- MCLetters
  Digits <- MCDigits
  Others <- MCOthers
  Docs <- PlainDocs
INVARIANT
  NullMarksEnd

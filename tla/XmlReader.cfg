SPECIFICATION FairSpec
CONSTANTS
  Letters <- MCLetters
  Digits <- MCDigits
  Others <- MCOthers
  Docs <- MCDocs
INVARIANTS
  TypeOK
  ReadsWhatWasWritten
  AttributesAsScanned
  ReaderInv
PROPERTIES
  Ends
  MakesProgress

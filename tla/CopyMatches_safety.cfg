SPECIFICATION Spec
CONSTANTS
  Segments <- MCSegments
  Jobs = {"j1", "j2"}
  Prefix <- MCPrefix
  Overwrite <- MCOverwrite
  Matched <- MCMatched
  Earlier <- MCEarlier
  Foreign = Foreign
  NoObject = NoObject
INVARIANTS
  CopiedIsThere
  SkippedForCause
  ReportIsWhole
PROPERTY ReplacesOwnOnly
CHECK_DEADLOCK FALSE

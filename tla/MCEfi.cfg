CONSTANTS
  Chunk = 2
  Texts <- MCTexts
  ExitCodes <- MCExitCodes
  PtrSize = 2
  Argvs <- MCArgvs
SPECIFICATION Spec
INVARIANTS WideStringOK ShowsText StatusTellsResult ArgvExact
PROPERTIES Returns CaughtByOwnTry
CHECK_DEADLOCK FALSE

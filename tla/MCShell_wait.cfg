SPECIFICATION FairSpec
CONSTANTS
  Pids = {1, 2, 3, 4, 5, 6, 7, 8}
  Programs <- MCPrograms
  Scripts <- MCScripts
  TypedLines <- MCTypedLines
  MaxTyped = 2
  MaxLine = 5
PROPERTY
  ForegroundDone
CHECK_DEADLOCK FALSE

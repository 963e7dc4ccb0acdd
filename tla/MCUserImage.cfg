SPECIFICATION Spec
CONSTANTS
  Fan = 4
  PAGE_SIZE = 2
  NumFrames = 40
  Procs = {1, 2, 3}
  Shell = 1
  NumVma = 8
  Binaries <- MCBinaries
  HeapGap = 8
  USTACK = 256
  USTACK_SIZE = 4
  Touched <- MCTouched
  FramesPerCall = 13
INVARIANTS
  TypeOK
  VmasPrivate
  TablesExact
  ImageReadsRight
PROPERTY ChildInheritsPages
CHECK_DEADLOCK FALSE

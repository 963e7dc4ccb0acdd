SPECIFICATION Spec
CONSTANTS
  p1 = p1
  p2 = p2
  Procs = {p1, p2}
  MAX_FDS = 5
  Tar <- MCTar
  ReadSizes = {2}
  OpenEntries = {1, 4}
  CloseFds = {3}
SYMMETRY PcbSymmetry
INVARIANTS TypeOK FreeFdsAreClean
PROPERTY ImplementsFileView

SPECIFICATION Spec
CONSTANTS
  p1 = p1
  p2 = p2
  p3 = p3
  Procs = {p1, p2, p3}
  VPages = {1, 2, 3}
  Image = {1}
  StackTop = 2
  Values = {0, 1}
  NumFrames = 4
SYMMETRY PcbSymmetry
INVARIANTS TypeOK RefCountExact WritableIsExclusive
PROPERTY ImplementsPrivateMemory
CHECK_DEADLOCK FALSE

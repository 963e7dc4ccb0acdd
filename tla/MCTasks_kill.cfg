SPECIFICATION Spec
CONSTANTS
  NUM_PCB = 4
  SLICE = 1
  SleepSecs = {0, 1}
  KillPids = {0, 1, 2, 3}
  MaxLines = 1
INVARIANTS NoLostChildExit LinksAcyclic
CONSTRAINT KernelTasksIntact

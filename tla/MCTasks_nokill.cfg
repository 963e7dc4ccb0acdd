SPECIFICATION Spec
CONSTANTS
  NUM_PCB = 5
  SLICE = 1
  SleepSecs = {0, 1}
  KillPids = {}
  MaxLines = 2
INVARIANTS TypeOK ListsSound NoLostChildExit NoLostLine LinksAcyclic

SPECIFICATION Spec
CONSTANTS
  NUM_PCB = 5
  SLICE = 0
  SleepSecs = {1}
  KillPids = {}
  MaxLines = 0
PROPERTY WaitingParentIsWoken

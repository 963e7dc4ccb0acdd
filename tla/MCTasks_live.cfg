SPECIFICATION FairSpec
CONSTANTS
  NUM_PCB = 4
  SLICE = 1
  SleepSecs = {1, 2}
  KillPids = {}
  MaxLines = 1
PROPERTIES ReadyRuns SleeperWakes

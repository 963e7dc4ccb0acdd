SPECIFICATION Spec
CONSTANTS
  Procs = {1, 2, 3}
  Shell = 1
  Names <- MCNames
  MaxNames = 4
  Dirs <- MCDirs
  Files <- MCFiles
INVARIANTS TypeOK PathsMeanWalks

SPECIFICATION FairSpec
CONSTANTS
  Modes = {"service", "portable"}
  MaxActs = 4
  MaxRuns = 2
  MaxRestarts = 1
  MaxInbox = 1
  Troubles = {"crash", "other", "gone"}
INVARIANTS
  TypeOK
  BusyMeansWork
PROPERTIES
  ExitEnds
  ShowsRunning
CHECK_DEADLOCK FALSE

SPECIFICATION FairSpec
CONSTANTS
  Callers = {c1}
  Worker = worker
  Watcher = watcher
  Stopper = stopper
  Nobody = nobody
  Endpoints = {e1}
  MaxDebounce = 2
INVARIANTS
  TypeOK
  PausedMeansIdle
  NoLostWakeup
PROPERTIES
  PauseReturns
  EveryChangeSeen
  FullScanRuns
  StopTerminates
  ImplementsGate

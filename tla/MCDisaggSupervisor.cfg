CONSTANTS
  MaxRestarts = 1
  Procs <- Engines
  Parents <- Forking
  Main = main
  Watcher = watcher
  Threads = {main, watcher}
  NoProc = none
SPECIFICATION Spec
CHECK_DEADLOCK FALSE
INVARIANTS
  CleanStop
PROPERTIES
  PairRecovers
  ImplementsLease

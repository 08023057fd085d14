CONSTANTS
  MaxRestarts = 2
  Procs = {0, 1, 2}
  Parents = {0, 1, 2}
  Main = main
  Watcher = watcher
  Threads = {main, watcher}
  NoProc = none
SPECIFICATION Spec
CHECK_DEADLOCK FALSE
INVARIANTS
  KilledOnReturn
  ExclusiveBackend
  CleanStop
PROPERTIES
  WatcherQuits
  StopReturns
  RecoversOrGivesUp
  ImplementsLease

SPECIFICATION FairSpec
CONSTANTS
  w1 = w1
  w2 = w2
  w3 = w3
  Workers <- ThreeWorkers
  Main = main
  Syncs = 2
  LoadsAcquire = TRUE
  MaxTasks = 2
INVARIANTS
  TypeOK
  TaskStaysValid
  PhasesAligned
PROPERTIES
  RunsOnEveryWorker
  RunReturns
CHECK_DEADLOCK FALSE

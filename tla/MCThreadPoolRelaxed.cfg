SPECIFICATION FairSpec
CONSTANTS
  w1 = w1
  w2 = w2
  w3 = w3
  Workers <- TwoWorkers
  Main = main
  Syncs = 1
  LoadsAcquire = FALSE
  MaxTasks = 1
PROPERTY
  RunsOnEveryWorker
CHECK_DEADLOCK FALSE

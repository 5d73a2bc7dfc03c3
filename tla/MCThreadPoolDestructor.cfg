SPECIFICATION FairSpec
CONSTANTS
  w1 = w1
  w2 = w2
  w3 = w3
  Workers <- TwoWorkers
  Main = main
  Syncs = 1
  LoadsAcquire = TRUE
  MaxTasks = 1
PROPERTY
  DestructorReturns
CHECK_DEADLOCK FALSE

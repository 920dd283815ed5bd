SPECIFICATION FairSpec
CONSTANTS
  LoopCount = 2
  Tasks <- RealTasks
  Commands = {0, 1, 4}
  MaxCmds = 3
  MaxFaults = 1
  CanShutDown = TRUE
  Detaches = FALSE
CHECK_DEADLOCK FALSE
PROPERTIES
  RequestServed
  ComesToRest
  CompletionPublished
  ShutdownEnds

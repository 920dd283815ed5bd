SPECIFICATION Spec
CONSTANTS
  LoopCount = 2
  Tasks <- RealTasks
  Commands = {0, 1, 4, 150, 250}
  MaxCmds = 3
  MaxFaults = 1
  CanShutDown = FALSE
  Detaches = FALSE
INVARIANTS
  AtMostOneMoveAfterPause
  PublishedBeforeNextTask

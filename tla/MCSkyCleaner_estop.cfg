SPECIFICATION Spec
CONSTANTS
  LoopCount = 2
  Tasks <- RealTasks
  Commands = {0, 1}
  MaxCmds = 2
  MaxFaults = 0
  CanShutDown = FALSE
  Detaches = TRUE
PROPERTY EStopEndsMotion

SPECIFICATION Spec
CONSTANTS
  LoopCount = 2
  Tasks <- RealTasks
  Commands = {0, 4, 250}
  MaxCmds = 5
  MaxFaults = 0
  CanShutDown = FALSE
  Detaches = TRUE
PROPERTY ZeroPauses

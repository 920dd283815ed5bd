SPECIFICATION Spec
CONSTANTS
  LoopCount = 2
  Tasks <- RealTasks
  Commands = {150, 250}
  MaxCmds = 2
  MaxFaults = 0
  CanShutDown = FALSE
  Detaches = TRUE
INVARIANT CompletedAfterLastStep

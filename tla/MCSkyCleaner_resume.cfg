SPECIFICATION HearSpec
CONSTANTS
  LoopCount = 2
  Tasks <- RealTasks
  Commands = {0, 1, 4}
  MaxCmds = 3
  MaxFaults = 0
  CanShutDown = FALSE
  Detaches = TRUE
PROPERTY ResumeHeard

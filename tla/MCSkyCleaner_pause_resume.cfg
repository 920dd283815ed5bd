SPECIFICATION Spec
CONSTANTS
  LoopCount = 2
  Tasks <- RealTasks
  Commands = {0, 1, 3, 4}
  MaxCmds = 3
  MaxFaults = 2
  CanShutDown = FALSE
  Detaches = FALSE
INVARIANTS
  TypeOK
  AtMostOneMoveAfterPause
  CompletedMeansAllSteps
  HundredMeansAllSteps
  CompletedMeansReleased
PROPERTY StepsInOrder

SPECIFICATION FairPanelSpec
CONSTANTS
  LoopCount = 1
  Tasks <- RealTasks
  Commands <- FewValues
  Typed = {50}
  MaxCmds = 1
  MaxFaults = 1
  CanShutDown = FALSE
  Detaches = FALSE
PROPERTIES
  ShownProgressGrows
  HundredShown

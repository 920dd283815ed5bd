SPECIFICATION Spec
CONSTANTS
  Files <- FileNames
  Arguments <- MCFlags
  MaxFaults = 2
CHECK_DEADLOCK FALSE
INVARIANTS
  TypeOK
  StartedOnce
  InOrder
  SimulationDriven
PROPERTIES
  Settles

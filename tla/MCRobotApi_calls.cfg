SPECIFICATION Spec
CONSTANTS
  Threads = {t1}
  None = None
  Junk = Junk
  Ints <- MCTimes
  Refs <- MCRefs
  Speeds <- MCSpeeds
  ChannelArgs = {1}
  Outputs = {5}
  Families <- MCCalls
  MaxRestarts = 0
INVARIANTS
  MotionUsable
  NumbersMatch
CHECK_DEADLOCK FALSE

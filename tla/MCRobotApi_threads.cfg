SPECIFICATION FairSpec
CONSTANTS
  Threads = {t1, t2}
  None = None
  Junk = Junk
  Ints <- MCFewTimes
  Refs <- MCFewRefs
  Speeds <- MCFewSpeeds
  ChannelArgs = {0, 1, 3}
  Outputs <- MCFewOutputs
  Families <- MCThreads
  MaxRestarts = 1
INVARIANTS
  TypeOK
  CoordTracks
  ModeTracks
  NotAllStranded
PROPERTIES
  OutputFitsMode
  CallReturns
  ErrorFreesAll
CHECK_DEADLOCK FALSE

SPECIFICATION FairSpec
CONSTANTS
  ConnectTries = 2
  GrantTries = 4
  MaxChanges = 3
  MaxEvents = 3
INVARIANT TypeOK
INVARIANT AccessIsAuthority
INVARIANT StandbyIsState
INVARIANT SafetyRestored
INVARIANT ReadyHasAuthority
PROPERTY InitReturns

CHECK_DEADLOCK FALSE

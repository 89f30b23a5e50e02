CONSTANTS
  Roles = {TRUE, FALSE}
  RestartCap = 1
  MaxCallbacks = 2
  MaxCalls = 3
SPECIFICATION FairSpec
INVARIANTS PortOpen NewPeerStarts
PROPERTIES FailedPeerReplaced RestartHeard RetriesEnd QuitCompletes
CHECK_DEADLOCK FALSE

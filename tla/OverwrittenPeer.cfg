CONSTANTS
  Roles = {TRUE}
  RestartCap = 2
  MaxCallbacks = 2
  MaxCalls = 1
SPECIFICATION Spec
PROPERTY SparesReplacement
CHECK_DEADLOCK FALSE

CONSTANTS
  SessionIDs = {g1}
  Players = {a}
  Objects = {o1, o2}
  Requested = {1}
  DefaultMaxPlayers = 3
  MaxSessionPlayers = 1
  MaxTotalSessions = 1
  MaxTotalPlayers = 1
  PlayerTimeout = 0
  SessionEmptyTimeout = 1
  Nil = Nil
SPECIFICATION Spec
PROPERTY ReapAlwaysVerified
CHECK_DEADLOCK FALSE

CONSTANTS
  SessionIDs = {g1, g2}
  Players = {a, b}
  Objects = {o1, o2}
  Requested = {0, 1}
  DefaultMaxPlayers = 3
  MaxSessionPlayers = 2
  MaxTotalSessions = 2
  MaxTotalPlayers = 2
  PlayerTimeout = 0
  SessionEmptyTimeout = 1
  Nil = Nil
SPECIFICATION FairSpecNoDelete
INVARIANT NoOrphanReaped
PROPERTIES ImplementsDirectory SilentPlayersReaped EmptySessionsReaped
CHECK_DEADLOCK FALSE

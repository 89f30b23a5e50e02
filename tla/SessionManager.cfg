CONSTANTS
  SessionIDs = {g1, g2}
  Players = {a, b, c}
  Objects = {o1, o2}
  Requested = {0}
  DefaultMaxPlayers = 3
  MaxSessionPlayers = 2
  MaxTotalSessions = 2
  MaxTotalPlayers = 2
  PlayerTimeout = 1
  SessionEmptyTimeout = 2
  Nil = Nil
SYMMETRY Interchangeable
SPECIFICATION Spec
INVARIANTS IndexAgrees CountersExact WithinCapacity SafetyInv
PROPERTY ReapOnlyStale
CHECK_DEADLOCK FALSE
CONSTRAINT UntilOrphanReaped

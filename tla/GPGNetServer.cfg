CONSTANTS
  Messages = {m1, m2, m3}
  MaxQueued = 2
  MaxGames = 2
SPECIFICATION FairSpec
INVARIANTS NoneStranded ClosedOnce QueueInv FirstGameWaits
PROPERTIES LobbyFlushes ShutsDown
CHECK_DEADLOCK FALSE

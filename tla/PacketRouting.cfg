CONSTANTS
  Players = {p1, p2}
  Tcp = {p2}
  Sessions = {s1}
  Router = Router
  Reaper = Reaper
  Api = Api
  Manager = Manager
  Nil = Nil
SPECIFICATION FairSpec
INVARIANTS NoLockCycle BroadcastStaysInSession
PROPERTIES NobodyStuck
CHECK_DEADLOCK FALSE

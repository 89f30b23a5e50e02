CONSTANTS
  Players = {p1}
  Hosts = {h1, h2}
  Conns = {c1, c2, c3}
  owner <- OnePlayer
  MaxTCPConns = 2
  MaxRestarts = 1
  MaxUnread = 1
  Nil = Nil
SPECIFICATION Spec
SYMMETRY Interchangeable
INVARIANTS TypeOK PinMatchesConn ConnsCounted

CONSTANTS
  Players = {p1}
  Hosts = {h1}
  Conns = {c1, c2, c3}
  owner <- OnePlayer
  MaxTCPConns = 2
  MaxRestarts = 0
  MaxUnread = 1
  Nil = Nil
SPECIFICATION FairSpec
PROPERTIES HandlersEnd UsesCurrentConn

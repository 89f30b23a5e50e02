CONSTANTS
  Host = Host
  Joiners = {Guest}
  Configs <- MCConfigs
SPECIFICATION FairSpec
INVARIANTS HostFound PeersAgree
PROPERTIES UsesDirectory LobbyOpens JoinReturns RelayForgets
CHECK_DEADLOCK FALSE

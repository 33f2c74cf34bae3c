CONSTANTS
  Empty = Empty
  Junk = Junk
  NoFrame = NoFrame
  Nil = Nil
  None = None
  Buckets = 2
  BurnWindow = {10, 20}
  Sources <- MCSources
  Priority <- MCPriority
  LoopOf <- MCLoopOf
  Games <- MCGames
  Library <- MCLibrary
  Score <- MCScore
  Builtin <- MCBuiltin
  Unreadable = {"torn"}
  Refused = {"bad"}
  MaxRel = 4
  Top = 1
  Ration = 2
  Senders <- MCSenders
  GameOf <- MCGameOf
  Scenarios <- MCScenarios
SPECIFICATION FairSpec
INVARIANTS BestOfSession PlayerShown
PROPERTIES Authoritative DeviceFollows ProfileLands
CHECK_DEADLOCK FALSE

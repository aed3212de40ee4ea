SPECIFICATION FairPartsSpec
CONSTANTS
  Parts = {"sessions", "wire", "fluid"}

  c1 = c1
  c2 = c2
  hub = hub
  r1 = r1
  r2 = r2
  s1 = s1
  None = None
  Conn <- OneConn
  Inst <- HubAndRound
  Hub = hub
  Landing = hub
  Fresh <- OneFresh
  Lobbies <- NoFresh
  LobbyOf <- NoLobby
  Starter <- OneStarter
  MinPlayers = 1

  k1 = k1  k2 = k2
  Closer <- TwoClosers
  QueueSize = 2
  MaxFrames = 5

  Width = 4
  Height = 3
  MaxLevel = 2
  DropOff = 1
  Infinite = TRUE
  MaxFlowEdits = 1

INVARIANT NoLimbo
PROPERTIES ImplementsPresence Progress WireProgress ComesToRest
CHECK_DEADLOCK FALSE

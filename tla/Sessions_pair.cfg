SPECIFICATION Spec
CONSTANTS
  c1 = c1
  c2 = c2
  hub = hub
  r1 = r1
  r2 = r2
  s1 = s1
  None = None
  Conn <- TwoConns
  Inst <- HubAndRound
  Hub = hub
  Landing = hub
  Fresh <- OneFresh
  Lobbies <- NoFresh
  LobbyOf <- NoLobby
  Starter <- OneStarter
  MinPlayers = 2
SYMMETRY ConnSymmetry
CONSTRAINT StartsUndisturbed
INVARIANT IInv

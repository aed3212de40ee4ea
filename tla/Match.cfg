SPECIFICATION PartsSpec
CONSTANTS
  Parts = {"economy", "arena", "edit", "watchers", "fluid", "chests", "gate"}

  ann = ann  abe = abe  bob = bob
  Shopper = {ann, abe, bob}
  Side = {1, 2}
  SideOf <- Sides
  TierPrices <- TwoTiers
  TrapPrices <- OneTrap
  ToolPrices <- TwoTools
  ForgeFactor <- Factors
  ArmorPrice = 1
  GoodsPrice = 1
  GoodsPerStack = 1
  GenInterval = 1
  PileCap = 2
  ScanInterval = 1
  Mortal = {ann}
  Buyer = {ann, abe}
  LastRoundTick = 2

  m1 = m1  f1 = f1  h1 = h1  a1 = a1
  Builder = {ann, bob}
  Stone = {m1}
  BedHalf = {f1, h1}
  AirCell = {a1}
  Beside <- Beds
  MaxAllowed = 1
  MaxTowers = 1

  Editor = {ann}
  Place = {arena1}
  Cells <- TwoCells
  Material = {"air", "north", "south"}
  KindOf <- TwoWays
  Air = "air"
  MaxBlocks = 2
  MaxUndo = 1
  MaxEdits = 2
  MaxLives = 2

  Client = {w1}
  HubInst = hub
  ArenaInst = {arena1}
  RoundInst = {round1}
  Plugin = {plugin}
  Game = thegame
  Nowhere = nowhere
  NotedAtOnce = TRUE
  MaxMoves = 5
  MaxPanics = 1

  Width = 3
  Height = 2
  MaxLevel = 2
  DropOff = 1
  Infinite = TRUE
  MaxFlowEdits = 2

  Owner = {o1, o2}
  Flusher = {f1, f2}
  MaxChestEdits = 2

  v1 = v1  v2 = v2
  Visitor = {v1, v2}
  Address = {"ip"}
  AddressOf <- OneAddress
  AccountName = {ann, bob}
  AuthMaxAttempts = 2
  IpSprayFactor = 2
  AuthBanDuration = 1
  BanLengths = {1}
  LastSecond = 2
CONSTRAINTS FewShops OneDigs FewRoles
INVARIANTS NothingForFree BlocksAccounted UndoRestores  QuietIsSettled GuessesBounded
PROPERTY NeverOlder
CHECK_DEADLOCK FALSE

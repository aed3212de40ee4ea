SPECIFICATION PartsSpec
CONSTANTS
  Parts = {"inventory", "entities", "archery", "vitals", "effects", "digging"}

  Viewer = {p1}
  Kind = {"skull", "kit"}
  NoDrop = {"kit"}
  MaxStack <- Sizes
  Piece <- Pieces
  Stock <- Stocks
  MaxMade <- Supply
  GridSlots = 1
  ArmorSlots = 1
  MainSlots = 1
  HotSlots = 1
  ChestSlots = 1
  Foreign = FALSE

  Watcher = {eve}
  Dropper = {d1, d2}
  StackMax = 2
  MaxSpawns = 2
  MaxUnits = 3

  ArrowRoom = {hub, arena}
  HubRoom = hub
  Bystander = {t1}
  Mates = {}
  Width = 2
  DrawRate = 4
  EatTicks = 2
  FlightTicks = 2
  StuckTicks = 2
  Infinity = FALSE
  MaxArrows = 1
  LastArrowTick = 3

  ann = ann  bob = bob
  Fighter = {ann}
  Striker = {bob}
  MaxHealth = 2
  InvulnTicks = 2
  BurnInvuln = 1
  Damages = {1, 2}
  AbsorptionPool = 1
  FireTicks = 1
  LastFightTick = 2

  Drinker = {ann}
  Gifts <- SomeGifts
  LastMoment = 2

  Digger = {"a"}
  DigRoom = {"game", "hub"}
  Place = {1, 2}
  BlockInfo <- TwoBlocks
  ToolSpeed <- TwoTools
  Protects = {"hub"}
  Movers = "reader"
  LastDigTick = 3
CONSTRAINT BriefHub
INVARIANTS  UnitsConserved  OneBlowPerWindow StrongestInForce 
CHECK_DEADLOCK FALSE

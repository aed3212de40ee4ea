SPECIFICATION PartsSpec
CONSTANTS
  Parts = {"walk", "team", "pursue", "dig", "fight",
           "motion", "watch", "pace", "ladder"}

  Grounds <- SomeGrounds
  Lanes <- OneLane
  Length <- TenLong
  MaxLeap = 3
  LeapCost = 0
  PlaceGap = 3
  Hops = TRUE
  StuckTicks = 60

  Bots = {1, 2, 3}
  EnemyBeds = {"b1"}
  PlanEvery = 2
  TeamEvery = 2
  MaxEvents = 2

  MinBlocks = 1
  WantBlocks = 2
  Spare = 1
  Pack = 1
  Gaps <- Lacks
  Legs = 1
  GiveUpTicks = 2
  RaidRest = 2
  RoleSet = {"attacker", "pusher", "defender"}
  MaxWallet = 1
  MaxTurns = 6

  Sides <- BedSides
  SideOrder <- SideRank
  DigTime <- DigTimes
  HardDig = 1
  MaxDig = 3
  GiveUpFor = 1
  FleeFor = 2
  PushGap = 2
  TowerMax = 2
  MaxOthers = 1

  Foes = {"p", "q"}
  StandOff = 1
  IgnoreFor = 5
  RetreatFor = 2
  TargetEvery = 2
  DrawTicks = 1
  ShotGap = 1
  React = 1
  FightParts = {"archer", "defender"}
  MaxMoves = 1

  Shoves <- TwoShoves
  Walks = {62}
  MaxShoves = 2
  MaxTicks = 4

  Teleporters = {"reader"}
  Pushers = {"loop", "foe"}
  MaxPendingTeleports = 2
  MaxOutstanding = 2
  MaxWatchEvents = 3
  MaxStrides = 2

  TimerTolerance = 2
  TimerMaxBank = 3
  Burst = 3
  PerTick = 2
  MaxLag = 3
  LastPace = 5

  Visit = {"v1", "v2"}
  MaxRecords = 3
  MaxCrashes = 1
ACTION_CONSTRAINT RaidersStay
INVARIANTS MovesAreMade RolesSettle  DugInEarnest 
              LoggedBansBind
CHECK_DEADLOCK FALSE

SPECIFICATION FairPartsSpec
CONSTANTS
  Parts = {"round", "wire", "table", "banlist", "limit", "keepalive", "display", "path"}

  Player <- TwoPlayers
  Teams = 2
  TeamSize = 1
  MinPlayers = 2
  Countdown = 1
  RespawnDelay = 1

  k1 = k1  k2 = k2
  Closer <- TwoClosers
  QueueSize = 2
  MaxFrames = 5

  Banned = {n1, n2}
  Clerk = {c1, c2}
  BanTerm = {1}
  LastBanHour = 1
  MaxRows = 2

  Culprit = {"ann", "bob"}
  Moderator = {"m1", "m2"}
  Terms = {1, 2}
  Shift = 0
  LastHour = 3

  Ip = {"i1", "i2"}
  MaxConns = 3
  MaxConnsPerIP = 2
  ConnRatePerIP = 2
  RateWindow = 3
  SweepInterval = 4
  LastTick = 5

  KeepAliveInterval = 2
  KeepAliveTimeout = 3
  LastBeat = 12

  Viewer = {u1, u2}
  Inst = {hub, arena, other}
  Playing = {arena, other}
  Groups <- HudGroups
  Tag <- HudTags
  Shows <- HudShows
  MaxLines = 2
  MaxMoves = 1
  MaxTicks = 1

  Courses <- SomeCourses
  Lanes <- TwoLanes
  Length <- SixLong
  Levels <- SevenHigh
  MaxBlocks = 3
  MaxLeap = 2
  LeapCost = 0
  PathBudget = 200
  MaxKnocks = 2
CONSTRAINTS OneBed OneFalls OneLeaves NobodyStranded
ACTION_CONSTRAINT AfterTheEnd
INVARIANTS RInv WireSafety LastOrderBinds BansLast  HonestKept ClientInStep WalksOnGround
PROPERTIES PicksHonoured RespawnsHappen
CHECK_DEADLOCK FALSE

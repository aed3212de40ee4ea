SPECIFICATION PartsSpec
CONSTANTS
  Parts = {"sync"}

  p1 = p1
  p2 = p2
  air = air
  stone = stone
  w1 = w1
  w2 = w2
  m1 = m1
  m2 = m2
  None = None
  Pos <- OnePos
  Column <- OnePos
  Section <- OnePos
  ColumnOf <- OwnColumn
  SectionOf <- OwnColumn
  Block <- Blocks
  Writer <- OneWriter
  Client <- OneClient
  Jobs <- Singles
  MaxVersion = 2
  Row <- BlastRow
  Target = {t1}
  Kept = {4}
  Resistance <- Losses
  Strengths = {3, 5}
  Radius = 3
  Fuse = 2
  ChainFuses = {1}
  MaxTnt = 2
  MaxOther = 1
INVARIANT RespawnInStep
CHECK_DEADLOCK FALSE

SPECIFICATION PartsSpec
CONSTANTS
  Parts = {"sync", "blast"}

  p1 = p1  p2 = p2  air = air  stone = stone  w1 = w1  w2 = w2  m1 = m1  m2 = m2
  None = None
  Pos <- TwoPos
  Column <- TwoPos
  Section <- TwoPos
  ColumnOf <- OwnColumn
  SectionOf <- OwnColumn
  Block <- Blocks
  Writer <- TwoWriters
  Client <- TwoClients
  Jobs <- Lists
  MaxVersion = 1

  Row <- BlastRow
  Target = {t1}
  Kept = {4}
  Resistance <- Losses
  Strengths = {3, 5}
  Radius = 3
  Fuse = 2
  ChainFuses = {1}
  MaxTnt = 2
  MaxOther = 1
SYMMETRY ActorSymmetry
INVARIANTS SyncInv 
CHECK_DEADLOCK FALSE

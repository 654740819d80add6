SPECIFICATION FairSpec
CONSTANTS
  N = 4
  Points = {p1, p2}
  Blank = Blank
  SlowIrq = FALSE
  UnderrunExits <- BothHandlers
INVARIANTS
  TypeOK
  WriterOwnsGrant
  LaserSafe
  PlayingHasTick
PROPERTIES
  ImplementsStream
  KeepsLevels
  PlayingDrains

SPECIFICATION FairSpec
CONSTANTS
  CornerMax = 8
  One = 16
  IntRange = 8
  MinSize = 4
  MaxDelay = 3
  TooClose = 2
  LineMax = 6
  Broken = Broken
  CardFails = TRUE
  Shows <- McShows
INVARIANTS
  TypeOK
  CornersHit
  OneAxisTorn
  ScriptInOrder
PROPERTIES
  LockKeepsEdge
  MovesKeepApart
  OthersKeepDelay
  ScriptEnds

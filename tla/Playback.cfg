SPECIFICATION FairSpec
CONSTANTS
  Frames <- AllFiles
  NoFile = NoFile
  Small = 2
  Chunk = 2
  Capacity = 4
  Low = 2
  Catalog <- AllCatalog
  Rates <- McRates
  BootRate = 5
  CardFails = TRUE
  UnderrunExits <- BothHandlers
INVARIANTS
  TypeOK
  PointsInOrder
  FramesWhole
  StopHolds
PROPERTIES
  KeepsFrameRate
  KeepsLevels
  FileStarts

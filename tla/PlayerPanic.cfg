SPECIFICATION Spec
CONSTANTS
  Frames <- BadFiles
  NoFile = NoFile
  Small = 2
  Chunk = 2
  Capacity = 4
  Low = 2
  Catalog <- BadCatalog
  Rates <- McRates
  BootRate = 5
  CardFails = TRUE
  UnderrunExits <- BothHandlers
INVARIANT
  NoPanic

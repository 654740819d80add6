SPECIFICATION FairSpec
CONSTANTS
  Indices = 3
  Offsets = 2
  Open = Open
  Close = Close
  Payloads <- TinyPayloads
  RecvAt = 1
  LineLoses = TRUE
INVARIANTS
  TypeOK
  EveryPacketOnce
  PacketsIntact
PROPERTIES
  PacketsServed

SPECIFICATION Spec
CONSTANTS
  Indices = 3
  Offsets = 3
  Open = Open
  Close = Close
  Payloads <- McPayloads
  RecvAt = 1
  LineLoses = FALSE
INVARIANTS
  LightEngineIsStub

SPECIFICATION FairSpec
CONSTANTS
  N = 3
  Points = {p1, p2}
  Blank = Blank
  SlowIrq = FALSE
  UnderrunExits <- AsmHandler
INVARIANT
  UnderrunKeepsControl

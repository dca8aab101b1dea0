SPECIFICATION Spec
CONSTANTS
  Paths = {p1, p2}
  Handles = {h1, h2, h3}
  FaultyCalls = {}
  Sizes = {65537}
  MaxCopies = 1
  Partial <- MCPartial
INVARIANTS
  SizeOnlyBlursProgress
CHECK_DEADLOCK FALSE

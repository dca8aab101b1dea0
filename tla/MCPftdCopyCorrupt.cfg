SPECIFICATION Spec
CONSTANTS
  Paths = {p1, p2}
  Handles = {h1, h2, h3}
  FaultyCalls = {}
  Sizes = {513}
  MaxCopies = 1
  Partial <- MCPartial
INVARIANTS
  NoCorruptFileLeft
CHECK_DEADLOCK FALSE

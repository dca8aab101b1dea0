SPECIFICATION FairSpec
CONSTANTS
  Paths = {p1, p2}
  Handles = {h1, h2}
  FaultyCalls = {"find", "open", "create", "read", "write", "close", "unlink"}
  Sizes = {0, 513}
  MaxCopies = 2
  Partial <- MCPartial
INVARIANTS
  CopyInv
  OkMeansCopied
  FailedCopyCleansUp
  HandlesReturned
  CriticalIsTruthful
  NoDivideError
  BarFullAtEnd
PROPERTIES
  Answered
  ImplementsContract
CHECK_DEADLOCK FALSE

SPECIFICATION Spec
CONSTANTS
  a = a
  b = b
  m = m
  Names = {a, b, m}
  Missing = {m}
  Far = {}
  FaultyOps = {"delete"}
  StartKinds = {"absent", "file", "fulldir"}
  MaxPieces = 1
  Requests <- DeleteRequests
  Pieces <- PlainPieces
  MaxTries = 1
  MaxCalls = 1
INVARIANTS
  UnknownOnlyAfterFault
CHECK_DEADLOCK FALSE

SPECIFICATION Spec
CONSTANTS
  a = a
  b = b
  m = m
  Names = {a, b, m}
  Missing = {m}
  Far = {}
  FaultyOps = {}
  StartKinds = {"absent", "file"}
  MaxPieces = 2
  Requests <- RenameRequest
  Pieces <- PlainPieces
  MaxTries = 2
  MaxCalls = 1
INVARIANTS
  OnlyTheSyncIsRetried
CHECK_DEADLOCK FALSE

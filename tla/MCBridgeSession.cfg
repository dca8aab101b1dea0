SPECIFICATION FairSpec
CONSTANTS
  a = a
  b = b
  m = m
  Names = {a, b, m}
  Missing = {m}
  Far = {}
  FaultyOps = {"list", "rmdir", "rename", "copy"}
  StartKinds = {"absent", "file", "fulldir"}
  MaxPieces = 2
  Requests <- SessionRequests
  Pieces <- PlainPieces
  MaxTries = 2
  MaxCalls = 2
INVARIANTS
  SessionInv
  AnswerMatchesRequest
  FaultStaysInItsCommand
  TransfersAreWhole
PROPERTIES
  OkMeansDone
  CallsEnd
CHECK_DEADLOCK FALSE

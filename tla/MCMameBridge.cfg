SPECIFICATION FairSpec
CONSTANTS
  Handlers = {h1, h2}
  Detect = detect
  Nobody = nobody
INVARIANTS
  BridgeInv
  DetectSurvives
PROPERTIES
  SocketStableInUse
  StatusIsConsistent
  Connects
  Disconnects
  RequestsEnd

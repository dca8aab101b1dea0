SPECIFICATION Spec
CONSTANTS
  W = 256
  Z = 90
  A5 = 165
  Mixes = {105, 150, 165}
  Requests <- Asked
  Responses <- Told
  MaxLen = 60000
  RomMaxLen = 2
  NoBlock = NoBlock
  NoByte = NoByte
  Programs = {"bridge", "server"}
  MaxTries = 2
  MaxCalls = 2
  MaxEvents = 1
  MaxNoise = 5
INVARIANTS
  RepliesAreOwn
PROPERTIES
  SentBlocksAreTaken
  TransmitsAreTaken
CHECK_DEADLOCK FALSE

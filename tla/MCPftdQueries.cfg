SPECIFICATION FairSpec
CONSTANTS
  NameLens <- MCNameLens
  Word <- MCWord
  Geometries <- MCGeometries
  DateWords <- MCDateWords
  TimeWords <- MCTimeWords
  Dates <- MCDates
  Times <- MCTimes
  FaultyCalls <- MCFaultyCalls
INVARIANTS
  QueriesInv
  ListFits
  SpaceExact
  SetAnswersTruthfully
PROPERTIES
  Answered

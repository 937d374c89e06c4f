SPECIFICATION Spec
CONSTANTS
  NodeLists <- MCNodeLists
  Subjects <- MCSubjects
  Others <- MCOthers
  EventLists <- MCEventLists
  NoSelector = NoSelector
  MaxFaults = 1
INVARIANTS
  TypeOK
  VerdictsWereTrue
  NothingMissedUnlessFailed
  OwnConflictOnlyIfBoundMeanwhile
  OwnRequestsCountOnlyAtHome
  AnalysesAgree
  CategoriesFitNodes
  DespairIsJustified

SPECIFICATION Spec
CONSTANTS
  NodeLists <- MCNodeLists
  Subjects <- MCSubjects
  Others <- MCOthers
  EventLists <- MCEventLists
  NoSelector = NoSelector
  MaxFaults = 0
INVARIANT ShortageIsCategorised

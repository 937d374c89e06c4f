SPECIFICATION ReportsSpec
CONSTANTS
  Pods <- MCPods
  MaxPods = 4
  Asked = {"", "all", "n1"}
  TopLimit = 2
  PatternMin = 2
  PatternLimit = 1
  CriticalLimit = 2
  MaxFollowed = 3
  Threshold = 8
  EventsLimit = 2
INVARIANTS
  TypeOK
  TalliesAgree
  CutsLeaveTheLeast
  PatternsFaithful
  ReportAddsUp
  WorstFirst
  NewestEventsShown
  ReportsAgree

SPECIFICATION ArtboardSpec
CONSTANTS
  None = None
  Root = "root"
  Count = 5
  Rules <- MCRules
  Targets <- MCTargets
  Files <- AllFiles
  Components <- AllTargets
  Roots <- OnlyRoot
  Graphs <- AllGraphs
INVARIANTS
  DependentsFollow
  SortIsComplete
  HitsFollowList
  GroupsInPlace
CHECK_DEADLOCK FALSE

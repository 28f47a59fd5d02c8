SPECIFICATION LayersSpec
CONSTANTS
  Empty = Empty
  Null = Null
  Atomic <- MCAtomic
  Files <- MCFiles
  Profile = "profile"
  Projects <- MCProjects
  MaxDepth = 3
  Members <- MCMembers
INVARIANT LeavesOnly
CHECK_DEADLOCK FALSE

SPECIFICATION Spec
CONSTANTS
  Capacity = 4
  Viewport = 2
  MaxWrites = 2
  Roots = {"main", "other"}
  Profiles <- MCProfiles
  Snapshots = {"s1", "s2"}
  Buckets = {"tech", "all"}
  Artifacts = {"m1"}
  RootSnapshots <- MCRootSnapshots
  SnapshotBuckets <- MCSnapshotBuckets
  ProfileArtifacts <- MCProfileArtifacts
  NoChoice = NoChoice
  MaxJobs = 2
  Empty = Empty
  Null = Null
  Atomic <- MCAtomic
  Commands <- MCCommands
  Confirmed = {"live"}
  Profiled = {"backtest"}
  Filters <- MCFilters
  NoFilter = NoFilter
  Lower <- MCLower
  Paper = "trading/paper"
  Conflicts <- MCConflicts
  Values = {0, 1}
  Tours <- MCTours
INVARIANTS OutputKept StartedAsReviewed
PROPERTIES PromotionSafe CancelledEnds
CHECK_DEADLOCK FALSE

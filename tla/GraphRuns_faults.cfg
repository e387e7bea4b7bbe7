SPECIFICATION FairSpec
CONSTANTS
  Request = {r1, r2}
  NoRun = NoRun
INVARIANTS
  LockHasReleaser
  ActiveRunHasOwner
  CompletedHasVersion
PROPERTIES
  ExecutedAtMostOnce
  JobsSettle
  LockIsFreed
CHECK_DEADLOCK FALSE

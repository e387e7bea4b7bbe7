SPECIFICATION FairSpec
CONSTANTS
  Request = {r1, r2}
  User = {u1}
  City = {c1, c2}
  NoJob = NoJob
  QuotaPerUser = 1
  EnqueuePerHour = 1
  MaxCities = 2
  MaxHour = 1
INVARIANTS
  SlotIsJustified
  ActiveJobHasOwner
  HourlyCap
  TwinsOverlapped
PROPERTIES
  PreparedAtMostOnce
  JobSettles
CHECK_DEADLOCK FALSE

SPECIFICATION OrderlySpec
CONSTANTS
  Request = {r1, r2, r3}
  User = {u1, u2}
  City = {c1, c2}
  NoJob = NoJob
  QuotaPerUser = 1
  EnqueuePerHour = 2
  MaxCities = 2
  MaxHour = 0
SYMMETRY Symmetry
INVARIANT FreeCityLimit
INVARIANT OnePipeline
CHECK_DEADLOCK FALSE

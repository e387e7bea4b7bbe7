SPECIFICATION HealthySpec
CONSTANTS
  Request = {r1, r2}
  NoRun = NoRun
INVARIANT
  SingleActiveRun
CHECK_DEADLOCK FALSE

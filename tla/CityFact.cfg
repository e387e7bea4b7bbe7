SPECIFICATION OneChangeFairSpec
CONSTANTS
  Run = {q1, q2}
  NoRun = NoRun
  MaxRetries = 1
INVARIANTS
  HangExplained
PROPERTIES
 
  FactSettles
  VersionsAreALog
CHECK_DEADLOCK FALSE

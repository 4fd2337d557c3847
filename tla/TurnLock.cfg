\* Two runs, two faults, and time for a lock to go stale.
CONSTANTS
  Runs = {r1, r2}
  NoRun = NoRun
  Budget = 3
  StaleAge = 4
  Poll = 1
  RetryAfter = 1
  MaxTime = 7
  MaxFaults = 2
SPECIFICATION FairSpec
INVARIANTS
  TypeOK
  RunsTakeTurns
PROPERTY RunsEnd
CHECK_DEADLOCK FALSE

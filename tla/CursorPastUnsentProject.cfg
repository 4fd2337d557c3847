\* A transcript whose Turns ran in two Projects, and a deadline between its requests.
CONSTANTS
  t1 = t1
  t2 = t2
  t3 = t3
  NoTurn = NoTurn
  Turns = {t1, t2}
  NumFiles = 1
  Owner <- OwnerOfThree
  ProjectOf <- TwoProjects
  Hooks = {h1}
  ReportsPerPayload = 1
  ReadLimit = 3
  Entries = 1
  MaxNoise = 0
  MaxFaults = 1
SPECIFICATION Spec
INVARIANT CursorSafe

\* One line in the file, two Projects, and one event of any kind.
CONSTANTS
  Passes = {p1, p2}
  NoPass = before
  Projects = {j1, j2}
  NoRow = NoRow
  ChunkLines = 1
  MaxSeal = 1
  MaxLines = 1
  MaxEvents = 1
SPECIFICATION FairSpec
INVARIANT TypeOK
INVARIANT Tracked
INVARIANT NamedExist
PROPERTY GarbageCollected
CHECK_DEADLOCK FALSE

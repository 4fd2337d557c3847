\* A file that grows to four lines under two passes beside the sweep.
CONSTANTS
  Passes = {p1, p2}
  NoPass = before
  Projects = {j1}
  NoRow = NoRow
  ChunkLines = 2
  MaxSeal = 1
  MaxLines = 4
  MaxEvents = 0
SPECIFICATION Spec
INVARIANT ChunkedIsExact
PROPERTY NeverBelowSealed
SYMMETRY PassSymmetry
CHECK_DEADLOCK FALSE

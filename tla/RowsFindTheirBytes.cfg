\* The sweep beside two passes that both reuse the whole-file key.
CONSTANTS
  Passes = {p1, p2}
  NoPass = before
  Projects = {j1}
  NoRow = NoRow
  ChunkLines = 2
  MaxSeal = 1
  MaxLines = 1
  MaxEvents = 0
SPECIFICATION Spec
INVARIANT RowsFindTheirBytes
CHECK_DEADLOCK FALSE

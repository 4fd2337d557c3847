\* Two hooks overlapping on a Session of two transcripts, with every fault.
CONSTANTS
  t1 = t1
  t2 = t2
  t3 = t3
  NoTurn = NoTurn
  Turns = {t1, t3}
  NumFiles = 2
  Owner <- OwnerOfThree
  ProjectOf <- OneProject
  Hooks = {h1, h2}
  ReportsPerPayload = 1
  ReadLimit = 3
  Entries = 1
  MaxNoise = 0
  MaxFaults = 2
SYMMETRY HookSymmetry
SPECIFICATION Spec
INVARIANTS
  TypeOK
  CursorSafe
  MarkerAfterFlush
  FlushInv
  CursorInv

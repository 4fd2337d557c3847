\* Turns of two entries, against the ledger; every Turn is filed once the faults stop.
CONSTANTS
  t1 = t1
  t2 = t2
  t3 = t3
  NoTurn = NoTurn
  Turns = {t1, t2}
  NumFiles = 1
  Owner <- OwnerOfThree
  ProjectOf <- OneProject
  Hooks = {h1}
  ReportsPerPayload = 1
  ReadLimit = 2
  Entries = 2
  MaxNoise = 1
  MaxFaults = 1
SPECIFICATION FairSpec
PROPERTIES
  ImplementsLedger
  EveryTurnFiled

\* Two drains of one queue, beside the hooks of two events past a cap of one, with the clock running.
CONSTANTS
  NumEvents = 2
  Drains <- TwoDrains
  MaxQueued = 1
  Ttl = 0
  Retries = 0
  MaxTime = 1
  MaxFaults = 1
SPECIFICATION FairSpec
INVARIANTS
  TypeOK
  CapHolds
  DroppedForNewer
  NoEventVanishes
PROPERTY EventSettles

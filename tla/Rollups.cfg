\* Three connections and three Turns, on two sides of a midnight.
CONSTANTS
  Messages = {m1, m2, m3}
  m1 = m1
  m2 = m2
  m3 = m3
  s1 = s1
  s2 = s2
  opus = opus
  Reported <- MCReported
  Devices = {d1, d2}
  NoDevice = no_device
  Absent = absent
  Unwritten = unwritten
  Zones = {0, 1}
  DayLength = 2
  Txs = {t1, t2, t3}
  RateLists <- MCRateLists
  NoModel = any_model
  MaxWrites = 3
SPECIFICATION Spec
INVARIANTS TypeOK Exact PricedAlike
SYMMETRY Interchangeable
CHECK_DEADLOCK FALSE

\* One person, two Org ids and two requests at a time.
CONSTANTS
  Orgs = {o1, o2}
  People = {u1}
  Operator = operator
  Nobody = nobody
  Tabs = {t1, t2}
  Plans <- OperatorsPlans
  MaxEvents = 5
SPECIFICATION Spec
INVARIANTS TypeOK OneWaiting InIsTold GraceFromTheMove
PROPERTY DeletedWaiting
SYMMETRY Interchangeable
CHECK_DEADLOCK FALSE

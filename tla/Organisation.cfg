\* Three people, one Org and two requests at a time.
CONSTANTS
  Orgs = {o1}
  Users = {u1, u2, u3}
  Tabs = {t1, t2}
  Ceilings = {2}
  NoCeiling = none
  Nobody = nobody
  MaxEvents = 2
SPECIFICATION Spec
INVARIANTS TypeOK OwnerKept ClosedIsOver
PROPERTIES SeatsHold Admitted
SYMMETRY Interchangeable
CHECK_DEADLOCK FALSE

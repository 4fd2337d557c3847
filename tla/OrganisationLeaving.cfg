\* Two people with two Orgs: leaving one for the other, and deletions to their end.
CONSTANTS
  Orgs = {o1, o2}
  Users = {u1, u2}
  Tabs = {t1, t2}
  Ceilings = {}
  NoCeiling = none
  Nobody = nobody
  MaxEvents = 2
SPECIFICATION LeavingSpec
PROPERTIES SomewhereToGo DeletionsFinish
CHECK_DEADLOCK FALSE

SPECIFICATION Spec
CONSTANTS
  t1 = t1
  t2 = t2
  Users = {u1, u2}
  NoUser = NoUser
  MaxLogins = 2
  Tabs = {t1, t2}
  Intervals = {1}
  Backoff = 1
  Longest = 2
  Ever = 2
  Pace = 2
  MaxLapses = 1
  MaxSlug = 2
  MaxStates = 2
  Callers = {w1}
  Crews <- OneTab
PROPERTIES LoginRepairs
CHECK_DEADLOCK FALSE

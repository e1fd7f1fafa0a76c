\* With no login left to import and no account state left to make, the
\* instance stops.
SPECIFICATION Spec
CONSTANTS
  t1 = t1
  t2 = t2
  Users = {u1, u2}
  NoUser = NoUser
  MaxLogins = 2
  Tabs = {t1, t2}
  Intervals = {1}
  Backoff = 1
  Longest = 1
  Ever = 1
  Pace = 1
  MaxLapses = 0
  MaxSlug = 2
  MaxStates = 2
  Callers = {w1, w2}
  Crews <- NoTabs
SYMMETRY KeySymmetry
INVARIANTS TypeOK KeysOwn RefusalsFresh
CHECK_DEADLOCK FALSE

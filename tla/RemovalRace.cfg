\* The last account is removed while its key is being refreshed.  With no
\* account and no token left to issue, the instance stops.
CONSTANTS
  a = a
  b = b
  Users = {a, b}
  NoUser = NoUser
  Slugs = {1, 2}
  NoSlug = 0
  Named <- OwnNames
  AutoName <- OwnAutoNames
  NoToken = NoToken
  Workers = {w1, w2}
  Jobs = {"key", "remove"}
  Overlap = FALSE
  KeepOne = FALSE
  MaxTokens = 3
  Failing = {}
  MaxFaults = 0
SYMMETRY WorkerSymmetry
SPECIFICATION Spec
PROPERTY NoResurrection
CHECK_DEADLOCK FALSE

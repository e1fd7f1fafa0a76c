\* Every job but a quota fetch at once, overlapping refreshes included.
\* With no account and no token left to issue, the instance stops.
CONSTANTS
  a = a
  b = b
  Users = {a, b}
  NoUser = NoUser
  Slugs = {1, 2}
  NoSlug = 0
  Named <- OwnNames
  AutoName <- OwnAutoNames
  NoToken = NoToken
  Workers = {w1, w2}
  Jobs = {"key", "global", "activate", "remove", "look"}
  Overlap = TRUE
  KeepOne = FALSE
  MaxTokens = 4
  Failing = {"login", "switch", "crash"}
  MaxFaults = 2
SYMMETRY WorkerSymmetry
SPECIFICATION Spec
INVARIANTS TypeOK FilesOwnIdentity
CHECK_DEADLOCK FALSE

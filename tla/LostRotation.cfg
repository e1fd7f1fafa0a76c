\* A key refresh and a quota fetch of one account at the same time.
CONSTANTS
  a = a
  b = b
  Users = {a, b}
  NoUser = NoUser
  Slugs = {1, 2}
  NoSlug = 0
  Named <- OwnNames
  AutoName <- OwnAutoNames
  NoToken = NoToken
  Workers = {w1, w2}
  Jobs = {"key", "quota"}
  Overlap = TRUE
  KeepOne = TRUE
  MaxTokens = 3
  Failing = {}
  MaxFaults = 0
SYMMETRY WorkerSymmetry
SPECIFICATION Spec
INVARIANT AccountsUsable

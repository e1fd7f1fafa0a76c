\* Everything but the global refresh; one refresh per account at a time.
CONSTANTS
  a = a
  b = b
  Users = {a, b}
  NoUser = NoUser
  Slugs = {1, 2}
  NoSlug = 0
  Named <- OwnNames
  AutoName <- OwnAutoNames
  NoToken = NoToken
  Workers = {w1, w2}
  Jobs = {"key", "quota", "activate", "remove"}
  Overlap = FALSE
  KeepOne = TRUE
  MaxTokens = 5
  Failing = {"switch", "answer"}
  MaxFaults = 1
SYMMETRY WorkerSymmetry
SPECIFICATION Spec
INVARIANTS ActivationFollowsCurrent AccountsUsable ActivationUsable
PROPERTY NoResurrection

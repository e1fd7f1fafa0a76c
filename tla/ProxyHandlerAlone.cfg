\* One request after the other over three accounts, and one administrative
\* operation (a login, a switch, a removal in its three steps, or one of the
\* offered configurations) between any two of their steps.
CONSTANTS
  Slugs = {1, 2, 3}
  NoSlug = 0
  CursorCycle = 6
  AdminBudget = 1
  Requests = {r1}
  TryCap = 3
  Pins = {0, 2}
  FirstSlugs = {{1}, {1, 2}}
  FirstConfigs <- Starts
  Offered <- Changes
SPECIFICATION MCFairSpec
INVARIANTS TypeOK FailedAreExcluded TwoSendsPerAccount LoopBookkeeping
PROPERTIES FailoverKept LeaversBlameNobody PassedOnQuotaCools EveryRequestAnswered

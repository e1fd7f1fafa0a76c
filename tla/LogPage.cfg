\* Three requests end around a ring of two entries, the server restarts once,
\* and one thing happens at the page or one fetch fails.
CONSTANTS
  Capacity = 2
  Kinds = {"ok", "error"}
  NoEntry = NoEntry
  Grain = 4
  DecimalUnit = 3
  MaxPushes = 3
  MaxRestarts = 1
  PageLimit = 1
  AnyKind = AnyKind
  NoAnswer = NoAnswer
  MaxEvents = 1
SPECIFICATION FairSpec
INVARIANTS TypeOK SnapshotExact
PROPERTY CursorFollows

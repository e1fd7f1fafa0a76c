SPECIFICATION Spec
CONSTANTS
  Blocks <- MCBlocks
  Chars = {"a", "b"}
  Stops <- MCStops
  Texts <- MCTexts
  Protocols = {"anthropic", "openai"}
  Modes = {TRUE, FALSE}
  MaxUnits = 6
INVARIANTS TypeOK TextKept TrimmedAlike RelayedWhole
PROPERTIES StreamClosed
CHECK_DEADLOCK FALSE

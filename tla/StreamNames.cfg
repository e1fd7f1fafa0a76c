SPECIFICATION Spec
CONSTANTS
  Blocks <- MCBlocks
  Chars = {"a", "b"}
  Stops <- MCStops
  Texts <- MCTexts
  Protocols = {"anthropic"}
  Modes = {TRUE, FALSE}
  MaxUnits = 5
INVARIANTS EventsWellFormed
CHECK_DEADLOCK FALSE

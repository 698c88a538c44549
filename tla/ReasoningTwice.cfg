SPECIFICATION ReasoningSpec
CONSTANTS
  Turns = {1}
  Texts = {"x"}
  MaxSteps = 2
  MaxChunks = 2
  Anchor = 1
  MaxTroubles = 0
INVARIANT
  NeverShownTwice
CHECK_DEADLOCK FALSE

CONSTANTS
  MAX_LEN = 2
  Samples = {0, 1, 2}
  MAX_TYPED = 5
SPECIFICATION FairSpec
INVARIANTS TakenOnce EchoedInTurn
PROPERTY InputEmptied
CHECK_DEADLOCK FALSE

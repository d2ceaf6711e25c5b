SPECIFICATION FairSpec
CONSTANTS
  Requests = {s1, s2}
  MaxAdapters = 2
  Pieces = 2
  Plans <- MCPlans
INVARIANTS PieceAnswersOnce
PROPERTIES EveryRequestSettles LinkIsReleased
CHECK_DEADLOCK FALSE

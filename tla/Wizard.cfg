SPECIFICATION FairSpec
CONSTANTS
  w1 = w1
  w2 = w2
  Workers = {w1, w2}
  Nobody = nobody
  Kinds = {"template", "wizard"}
  Trouble = 3
INVARIANTS
  SentMeansShown
PROPERTIES
  CardMovesOn
  EventuallyAnswered
CHECK_DEADLOCK FALSE

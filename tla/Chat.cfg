SPECIFICATION FairSpec
CONSTANTS
  c1 = c1
  c2 = c2
  m1 = m1
  m2 = m2
  w1 = w1
  w2 = w2
  Commands = {c1, c2}
  Messages = {m1, m2}
  Requests <- Meetings
  Workers = {w1, w2}
  Nobody = nobody
  MaxTries = 2
  MaxVersion = 2
  Trouble = 1
INVARIANTS
  AtMostOnce
  ToldTheTruth
PROPERTIES
  EventuallyAnswered
CHECK_DEADLOCK FALSE

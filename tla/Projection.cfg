SPECIFICATION FairSpec
CONSTANTS
  Daemon = daemon
  Operators = {cli}
  Nobody = nobody
  NoOne = noone
  ann = ann
  bob = bob
  People <- Both
  MaxVersion = 2
  MaxAttempt = 2
  MaxLife = 2
  MaxTries = 2
  MaxGen = 1
  Trouble = 1
INVARIANTS
  Mirrored
PROPERTIES
  IsLeasedQueue
  Drains
CHECK_DEADLOCK FALSE

SPECIFICATION FairSpec
CONSTANTS
  ann = ann
  bob = bob
  w1 = w1
  w2 = w2
  People = {ann, bob}
  Workers = {w1, w2}
  Nobody = nobody
  Scopes <- SmallScopes
  MaxAttempt = 2
  MaxDone = 2
  MaxTries = 2
INVARIANTS
  OutcomeIsTrue
PROPERTIES
  DoneByTheOwner
  CompletionFound
CHECK_DEADLOCK FALSE

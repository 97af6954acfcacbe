SPECIFICATION FairContextSpec
CONSTANTS
  guide = guide
  f1 = f1
  f2 = f2
  p1 = p1
  p2 = p2
  w1 = w1
  w2 = w2
  root = root
  Sources = {guide}
  Admins = {root}
  Files = {f1, f2}
  Pages = {p1, p2}
  Workers = {w1, w2}
  Nobody = nobody
  Scopes <- SmallScopes
  MaxVersion = 2
  MaxTries = 2
  MaxFiles = 2
INVARIANTS
  OneDraft
PROPERTIES
  NoLostSelection
  AgentsReadThePlan
  EventuallyOver
CHECK_DEADLOCK FALSE

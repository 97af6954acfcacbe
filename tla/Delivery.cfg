SPECIFICATION FairSpec
CONSTANTS
  i1 = i1
  i2 = i2
  c1 = c1
  d1 = d1
  t1 = t1
  t2 = t2
  ann = ann
  bob = bob
  Instances = {i1, i2}
  Central = {c1}
  Devices = {d1}
  Threads = {t1, t2}
  People = {ann, bob}
  OwnerOf <- OwnDevice
  Nobody = nobody
  Scopes <- SmallScopes
  MaxAttempt = 2
  Limit = 1
INVARIANTS
  OwnResults
  NoneLost
PROPERTIES
  Served
CHECK_DEADLOCK FALSE

SPECIFICATION SessionsSpec
CONSTANTS
  desk = desk
  phone = phone
  ann = ann
  Browsers = {desk, phone}
  People = {ann}
  OwnerOf <- Sitting
  StateLife = 1
  SessionLife = 2
  PreviewLife = 1
  MaxStates = 1
  MaxSessions = 2
  MaxLogins = 3
  MaxPreviews = 1
  MaxTime = 3
  Visits = 2
SYMMETRY Symmetric
INVARIANTS
  OneSessionPerSignIn
  AuditIsTrue
CHECK_DEADLOCK FALSE

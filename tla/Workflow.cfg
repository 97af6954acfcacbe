SPECIFICATION FairSpec
CONSTANTS
  a = a
  b = b
  c = c
  ann = ann
  bob = bob
  v = v
  w = w
  Keys = {a, b, c}
  NoKey = NoKey
  NoWorker = NoWorker
  People = {ann, bob}
  Workers = {v, w}
  Accepts <- BothServeAll
  Drafts <- AnyDraft
  Edits <- FutureEdits
  MaxAttempt = 2
  Budget = 2
INVARIANTS
  FrontierExact
  StatusAgrees
  FreshInputs
PROPERTIES
  TerminalFrozen
  PauseDrains
  HistoryFrozen
  RefusedForGood
  ConfirmMatchesPreview
  Settles
CHECK_DEADLOCK FALSE

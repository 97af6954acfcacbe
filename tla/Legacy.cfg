SPECIFICATION LegacyFairSpec
CONSTANTS
  a = a
  k = k
  r = r
  g = g
  c = c
  ann = ann
  bob = bob
  own = own
  Node = {a, k, r, g, c}
  Human = {k, r, g}
  Gate = {g, c}
  Ticket = {r}
  Assignee <- WhoDoes
  Owner = own
  NoOne = noone
  Rank <- Order
  Budget <- Once
  MaxUnblocks = 1
  MaxPending = 1
  Plans <- Small
  Edits <- Grown
INVARIANTS
  FreshWork
  AskedOnce
  WithConsent
PROPERTIES
  NobodyForgotten
CHECK_DEADLOCK FALSE

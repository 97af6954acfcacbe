SPECIFICATION Spec
CONSTANTS
  x = x
  y = y
  lead = lead
  hand = hand
  topic = topic
  Keys = {x, y}
  NoKey = NoKey
  People = {lead, hand}
  Roles = {lead, hand}
  Params = {topic}
  Authors = {ann, bob}
  Starters = {zoe}
  Documents <- Library
  Turns = 5
  Trouble = 1
SYMMETRY Symmetric
INVARIANTS
  LogTellsTheLife
  EveryRoleAnswered
CHECK_DEADLOCK FALSE

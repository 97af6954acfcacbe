SPECIFICATION StoreSpec
CONSTANTS
  p = p
  x = x
  y = y
  once = once
  twice = twice
  Commands = {x, y, once, twice}
  Previews = {p}
  NoPreview = NoPreview
  PreviewOf <- Confirms
SYMMETRY Symmetric
INVARIANTS
  CommitsAreWhole
PROPERTIES
  Serializable
CHECK_DEADLOCK FALSE

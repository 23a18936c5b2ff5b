SPECIFICATION Spec
CONSTANTS
  k1 = k1
  h1 = h1
  Keys = {k1}
  Drained <- MCAll
  Bound = {}
  Idents = {"local", "cloud"}
  Hooks = {h1}
  MaxFlips = 1
  MaxCatalog = 1
  MaxFaults = 1
  Stops = TRUE
INVARIANT StoppedStaysEmpty
INVARIANT NoMemberMissed
CHECK_DEADLOCK FALSE

SPECIFICATION FairSpec
CONSTANTS
  k1 = k1
  h1 = h1
  Keys = {k1}
  Drained <- MCAll
  Bound = {k1}
  Idents = {"cloud"}
  Hooks = {h1}
  MaxFlips = 0
  MaxCatalog = 2
  MaxFaults = 0
  Stops = TRUE
PROPERTY MembersRegistered
PROPERTY NonMembersReleased
PROPERTY StopReturns
CHECK_DEADLOCK FALSE

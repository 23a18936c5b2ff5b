SPECIFICATION FairSpec
CONSTANTS
  i1 = i1
  i2 = i2
  n1 = n1
  g1 = g1
  k1 = k1
  w1 = w1
  Items = {i1, i2}
  Nodes = {n1}
  NodeOf <- MCNodeOf
  Graphs = {g1}
  GraphOf <- MCGraphOf
  Keys = {k1}
  KeyOf <- MCKeyOf
  SizeOf <- MCSizeOf
  CharsOf <- MCCharsOf
  Workers = {w1}
  ChannelSize = 1
  LeaseSize = 2
  BatchSize = 2
  Limit = 2
  Reports = {0, 2, 9}
  Holders = 1
  CancelsStart = TRUE
  MaxFaults = 1
  MaxLatches = 1
INVARIANTS
  OnePlace
  
  PaidIsKept
  OnlyOversizeIsMarked
  PermitsBalanced
PROPERTIES
  PushedIsReleased
  StopEnds
  PoolSpec
CHECK_DEADLOCK FALSE

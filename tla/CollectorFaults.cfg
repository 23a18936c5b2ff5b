SPECIFICATION Spec
CONSTANTS
  n1 = n1
  Nodes = {n1}
  Enabled <- MCEmbedOnly
  Partial = TRUE
  PollMayFail = TRUE
  ChannelSize = 2
  RelSize = 1
  maxDrainSkips = 1
  MaxCollects = 1
  MaxGen = 1
  MaxFaults = 1
INVARIANT WatermarkMeansDrained
INVARIANT OneJobUnlessPruned
INVARIANT StampStandsAtRest
CHECK_DEADLOCK FALSE

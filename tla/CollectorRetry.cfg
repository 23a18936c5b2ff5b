SPECIFICATION FairSpec
CONSTANTS
  n1 = n1
  Nodes = {n1}
  Enabled <- MCEmbedOnly
  Partial = FALSE
  PollMayFail = FALSE
  ChannelSize = 2
  RelSize = 2
  maxDrainSkips = 1
  MaxCollects = 1
  MaxGen = 2
  MaxFaults = 1
PROPERTY GapsDrain
PROPERTY HealFires
CHECK_DEADLOCK FALSE

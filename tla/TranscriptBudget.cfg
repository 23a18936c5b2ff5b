\* A corpus larger than the in-flight budget: producers wait for a slot.
SPECIFICATION FairSpec
CONSTANTS
  f1 = f1
  f2 = f2
  f3 = f3
  p1 = p1
  p2 = p2
  Files = {f1, f2, f3}
  OverCap = {}
  Passes = {p1}
  BatchSize = 1
  Concurrency = 3
  Escalation = 2
  MaxWrites = 0
  MaxFaults = 1
  MaxSchema = 1
PROPERTIES
  PassEnds

\* One pass at a time over the corpus.
SPECIFICATION FairSpec
CONSTANTS
  f1 = f1
  f2 = f2
  f3 = f3
  p1 = p1
  p2 = p2
  Files = {f1, f2}
  OverCap = {}
  Passes = {p1}
  BatchSize = 2
  Concurrency = 2
  Escalation = 2
  MaxWrites = 1
  MaxFaults = 1
  MaxSchema = 2
INVARIANTS
  CursorNeverAhead
  TempsReaped
PROPERTIES
  NoSilentSkip
  SessionsShip

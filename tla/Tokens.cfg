\* Two processes that share one login.
SPECIFICATION FairSpec
CONSTANTS
  c1 = c1
  c2 = c2
  p1 = p1
  p2 = p2
  None = None
  Procs = {p1, p2}
  Callers = {c1, c2}
  ProcOf <- MCProcOf
  Attempts = 2
  MaxEvents = 2
INVARIANTS
  StrandNeedsOverlap
PROPERTIES
  RejectedNotServed
  Recovers

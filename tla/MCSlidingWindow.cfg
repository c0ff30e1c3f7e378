\* Windows of two requests and three ticks: requests of one window can be made
\* and leave it together or apart.
CONSTANTS
  c1 = c1
  c2 = c2
  c3 = c3
  Callers = {c1, c2, c3}
  MaxReqs = 2
  Window = 3
SPECIFICATION FairSpec
INVARIANTS
  TypeOK
  RateBounded
  RefusalJustified
PROPERTY WaitersLeave

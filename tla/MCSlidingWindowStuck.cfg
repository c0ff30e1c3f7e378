\* The window of MCSlidingWindow.cfg, with as few callers as fill it.
CONSTANTS
  c1 = c1
  c2 = c2
  c3 = c3
  Callers = {c1, c2}
  MaxReqs = 2
  Window = 2
SPECIFICATION FairSpec
PROPERTY WindowReopens

\* Two children that come and go; one connection waits at a time.
CONSTANTS
  Pids = {p1, p2}
  MaxChildren = 2
  ExtraChildren = 0
  MaxIdleChildren = 1
  KillLimit = 0
  MaxBacklog = 1
  MaxTorn = 0
SPECIFICATION Spec
PROPERTY ConnectionAccepted
CHECK_DEADLOCK FALSE

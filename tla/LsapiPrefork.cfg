\* Two children, and a third process id to see one too many.  One child may die
\* between its state and its counter.
CONSTANTS
  Pids = {p1, p2, p3}
  MaxChildren = 2
  ExtraChildren = 0
  MaxIdleChildren = 1
  KillLimit = 0
  MaxBacklog = 1
  MaxTorn = 1
SPECIFICATION SafeSpec
INVARIANTS
  TypeOK
  ChildrenTracked
  RoomForChild
  CountersExact
SYMMETRY Symmetry
CHECK_DEADLOCK FALSE

\* One worker sleeps or finishes while the other takes a third task; submit()
\* races shutdown() and a second shutdown().  Three names of one type go round
\* eight ids.
CONSTANTS
  Workers = {w1, w2}
  Callers = {c1, c2}
  Tasks = {t1, t2, t3}
  NoTask = NoTask
  Names = {"a", "b", "c"}
  Types = {1, 3}
  IdSpace = 8
  MaxCalls = 3
SPECIFICATION MSpec
INVARIANTS
  NoLostWakeup
  DrainedOnReturn
  ManagerTypeOK
  ManagerOutlivesTasks
  MetricsExact
PROPERTIES
  ImplementsTaskQueue
  ShutdownReturns
CHECK_DEADLOCK FALSE

\* Four requests for three bots, two of which may be parallel tools of a turn.
SPECIFICATION Spec
CONSTANTS
  Tasks = {t1, t2, t3, t4}
  Bots = {b1, b2, b3}
  NoTask = NoTask
INVARIANTS
  OneTurnPerBot
  BookIsExact
  NoDeadlock
PROPERTIES
  QueuedIsServed
CHECK_DEADLOCK FALSE

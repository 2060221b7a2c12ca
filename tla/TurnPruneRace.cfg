\* A turn claims its blank room between the snapshot and the prune.
CONSTANTS
  Doors = {d1, d2}
  Turns = {t1}
  Compactions = {}
  Cancels = {}
  Followers = {}
  Prunes = {p1}
  NoTurn = NoTurn
  NoDoor = NoDoor
  MaxEvents = 1
SPECIFICATION Spec
PROPERTY HeldDoorIsKept
CHECK_DEADLOCK FALSE

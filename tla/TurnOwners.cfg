\* All that may want one door: two turns, two compactions, a cancel request,
\* deletion.
SPECIFICATION FairSpec
CONSTANTS
  Doors = {d1}
  Turns = {t1, t2}
  Compactions = {c1, c2}
  Cancels = {k1}
  Followers = {}
  Prunes = {}
  NoTurn = NoTurn
  NoDoor = NoDoor
  MaxEvents = 0
INVARIANTS
  OneOwnerPerDoor
  CompletedTurnIsRecorded
PROPERTY CancelLands
CHECK_DEADLOCK FALSE

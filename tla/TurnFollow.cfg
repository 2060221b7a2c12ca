\* Two turns of one door, one after the other, with a follower, a cancel request
\* and a prune that come at any moment.
SPECIFICATION Spec
CONSTANTS
  Doors = {d1}
  Turns = {t1, t2}
  Compactions = {}
  Cancels = {k1}
  Followers = {f1}
  Prunes = {p1}
  NoTurn = NoTurn
  NoDoor = NoDoor
  MaxEvents = 1
SYMMETRY Symmetric
INVARIANTS
  FollowersMissNothing
  OneEnding
  CancelHitsItsTurn
  OnlyStalePruneTakes
CHECK_DEADLOCK FALSE

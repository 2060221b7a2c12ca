\* Three processes initialize, open and bootstrap the DM of one bot, each dying or
\* failing anywhere and starting again.
SPECIFICATION Spec
CONSTANTS
  Procs = {p1, p2, p3}
  Bots = {b1}
  RootIds = {i1, i2}
  Attempts = {a1, a2}
  NoId = NoId
INVARIANTS
  HandshakeHolds
PROPERTIES
  SettledIsForever
  CallsReturn

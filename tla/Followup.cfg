\* Two processes: a server and a CLI that act on one bot's follow-up at once.
SPECIFICATION Spec
CONSTANTS
  Procs = {p1, p2}
  Texts = {t1, t2}
  NoText = NoText
  MaxPendings = 2
  MaxRevision = 2
  MaxSpans = 3
  MaxRows = 4
SYMMETRY Symmetric
INVARIANTS
  Loadable
  OneRowPerRevision
  PostedIsApproved
  StatusIsEarned
PROPERTIES
  TerminalIsFinal
CHECK_DEADLOCK FALSE

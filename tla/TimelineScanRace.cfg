\* Expected: SeqsAreGapless is violated.
SPECIFICATION TimelineSpec
CONSTANTS
  Handles = {h1, h2}
  ProcOf <- MCProcOf
  Views = {"g", "d"}
  NoHandle = NoHandle
  MaxEvents = 4
  MaxTears = 1
INVARIANT SeqsAreGapless
CHECK_DEADLOCK FALSE

\* Both instances, checked against the store's own properties and against the
\* abstract log of its readers.
SPECIFICATION ScenarioSpec
CONSTANTS
  Doors = {g1}
  Bots = {b1, b2}
  Readers = {r1}
  Compactors = {c1, c2}
  PageLimit = 1
  MaxResyncs = 2
  MaxSeq = 5
  MaxTime = 2
  Second = {b2, c2}
  ReadSeq = 4
  ReadTime = 1
INVARIANTS
  NothingLost
  RowsAreOrdered
PROPERTIES
  SeqNeverReused
  AppendOnlyGeneration
  AssembledIsSnapshot
  ImplementsLog

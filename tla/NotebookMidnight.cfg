\* Expected: OpenTaskIsCatalogued is violated.
SPECIFICATION NotebookSpec
CONSTANTS
  NoteBots = {"p", "q"}
  Privileged = "thyca"
  Team = "team"
  NoteKinds = {"open", "said"}
  Ttls = {2}
  NoteWindows <- MCNoteWindows
  MaxNotes = 2
  MaxDay = 3
  HabitDays = 2
  MaxNoteFaults = 1
INVARIANT OpenTaskIsCatalogued
CHECK_DEADLOCK FALSE

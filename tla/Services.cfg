\* Each instance is small, and large enough for its hazards: see the README.
SPECIFICATION PartSpec
CONSTANTS
  HostedBots = {"a"}
  Thyca = "a"
  Schedule <- MCSchedule
  NoSchedule = NoSchedule
  DayLength = 2
  IdleAfter = 1
  ReviewEvery = 4
  TailRows = 2
  MaxTime = 4
  MaxTurnRows = 3
  MaxEdits = 1
  Writers = {"v", "w"}
  TeamBots = {"a"}
  Models = {"m", "n"}
  NoModel = NoModel
  Inherit = Inherit
  NoWriter = NoWriter
  MaxWrites = 3
  ExecIds = {1, 2, 3}
  Callers = {"p"}
  AllSeeing = "thyca"
  Tools = {"plain", "bash", "detach"}
  ToolsOf <- MCToolsOf
  Keyed = {"bash"}
  RetainCap = 1
  MaxKills = 1
  Servers = {"s1", "s2"}
  ServerSeq <- MCServerSeq
  Offers <- MCOffers
  Versions = {"v1", "v2"}
  Absent = Absent
  McpTurns = {"t", "u"}
  MaxMcpEdits = 2
  MaxMcpFaults = 2
  NoteBots = {"p", "q"}
  Privileged = "thyca"
  Team = "team"
  NoteKinds = {"open", "seen"}
  Ttls = {2}
  NoteWindows <- MCNoteWindows
  MaxNotes = 2
  MaxDay = 3
  HabitDays = 2
  MaxNoteFaults = 1
  Bots = {b1, b2}
  Editors = {e1, e2}
  UserTitles = {u1}
  AutoTitle = AutoTitle
  NoTitle = NoTitle
  MaxTurns = 3
INVARIANTS
  HousekeepingSafe
  TeamConfigSafe
  GatewayHolds
  ServersHold
  NotebookHolds
  OneAttempt
CHECK_DEADLOCK FALSE

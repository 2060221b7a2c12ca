\* Each instance is small, and large enough for its hazards: see the README.
SPECIFICATION PartSpec
CONSTANTS
  Bots = {"a", "b"}
  Thyca = "a"
  Rooms = {"g", "d"}
  NoBot = NoBot
  Dm <- MCDm
  MaxSends = 2
  MaxHops = 2
  LogMax = 1
  MaxArtifacts = 1
  Agents = {"b"}
  Guests = {"b"}
  Windows = {"g", "d"}
  MaxSpans = 2
  CallName <- MCCallName
  User = "user"
  Roster <- MCRoster
  MaxRows = 4
  MaxFailures = 1
  Handles = {h1, h2}
  ProcOf <- MCProcOf
  Views = {"g", "d"}
  NoHandle = NoHandle
  MaxEvents = 3
  MaxTears = 1
  CallSeq <- MCCallSeq
  MaxTurns = 3
  MaxRounds = 2
  MaxJobs = 2
  MaxTorn = 1
  Backstop = 5
  Trigger = 4
  Target = 3
  Signal = 1
  TailBudget = 2
  Peers = {"p", "q"}
  Works = {"w"}
  Origins = {"here", "away"}
  Here = "here"
  NoWork = NoWork
  NoPeer = NoPeer
  MaxListed = 3
  MaxCalls = 2
  MaxAsides = 1
  MaxMail = 2
  MaxOthers = 1
  MaxCompactions = 1
  Hosts = {"p", "q"}
  Chats = {"g"}
  Goals = {"k"}
  Acts = {1, 2}
  NoHost = NoHost
  MaxBegun = 2
  MaxMints = 2
  MaxEntries = 2
  MaxRewindows = 1
  MaxDamage = 1
INVARIANTS
  BusSafe
  StatusHonest
  RoomTurnSafe
  TimelineSafe
  SessionSafe
  TasksAreHonest
  RegistrySafe
PROPERTIES
  ImplementsMail
CHECK_DEADLOCK FALSE

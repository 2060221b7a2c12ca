---------------------------- MODULE MCBotRuntime ----------------------------
(***************************************************************************)
(* Instances for TLC of what makes up a bot's turn: the bus, the status,   *)
(* the room's rows, the journal, the session, the task index and the       *)
(* workspace registry.  Each is a component of its own, and their states   *)
(* have nothing in common, so one run explores them side by side: a        *)
(* behaviour is of one component, chosen at the start, and the others stay *)
(* as they are.                                                            *)
(***************************************************************************)
EXTENDS BotBusRefinement, AgentStatus, RoomTurn, WorkspaceTimeline, SessionLoop, BotTasks,
    WorkspaceStore

VARIABLE part     \* the component whose instance this behaviour is of

partVars ==
    <<part, busVars, statusVars, roomVars, timelineVars, sessionVars, tasksVars, storeVars>>

\* The bus: b's DM and a group.
MCDm == [r \in Rooms |-> IF r = "d" THEN "b" ELSE NoBot]
\* The status: two invocations with one public id.
MCCallName == [i \in 1..2 |-> "c"]
\* The room: the roster, in the order in which it answers.
MCRoster == <<"a", "b">>
\* The journal: two handles of one process.
MCProcOf == [h \in Handles |-> "p"]
\* The room: a recall is a matter of one bot alone, here of the second.
OneRecall == recalls \subseteq {"b"}
\* The session: a reply calls up to two tools.
MCCallSeq == <<"c1", "c2">>

\* An instance that is not run starts in one state only.
PartInit ==
    /\ part \in {"bus", "status", "room", "timeline", "session", "tasks", "store"}
    /\ BusInit
    /\ part # "bus" => members = [r \in Rooms |-> IF Dm[r] \in Bots THEN {Dm[r]} ELSE Bots]
    /\ StatusInit
    /\ RoomTurnInit
    /\ part # "room" => paused = {}
    /\ TimelineInit
    /\ SessionInit
    /\ TasksInit
    /\ StoreInit

PartNext ==
    \/ part = "bus" /\ BusNext
       /\ UNCHANGED <<part, statusVars, roomVars, timelineVars, sessionVars, tasksVars, storeVars>>
    \/ part = "status" /\ StatusNext
       /\ UNCHANGED <<part, busVars, roomVars, timelineVars, sessionVars, tasksVars, storeVars>>
    \/ part = "room" /\ RoomTurnNext /\ OneRecall'
       /\ UNCHANGED <<part, busVars, statusVars, timelineVars, sessionVars, tasksVars, storeVars>>
    \/ part = "timeline" /\ TimelineNext
       /\ UNCHANGED <<part, busVars, statusVars, roomVars, sessionVars, tasksVars, storeVars>>
    \/ part = "session" /\ SessionNext
       /\ UNCHANGED <<part, busVars, statusVars, roomVars, timelineVars, tasksVars, storeVars>>
    \/ part = "tasks" /\ TasksNext
       /\ UNCHANGED <<part, busVars, statusVars, roomVars, timelineVars, sessionVars, storeVars>>
    \/ part = "store" /\ StoreNext
       /\ UNCHANGED <<part, busVars, statusVars, roomVars, timelineVars, sessionVars, tasksVars>>

PartSpec == PartInit /\ [][PartNext]_partVars
=============================================================================

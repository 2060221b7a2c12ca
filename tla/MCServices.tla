----------------------------- MODULE MCServices -----------------------------
(***************************************************************************)
(* Instances for TLC of what serves the bots: housekeeping, configuration, *)
(* the tool gateway, the MCP servers, the memories and the naming step.    *)
(* Each is a component of its own and their states have nothing in common, *)
(* so one run explores them side by side: a behaviour is of one component, *)
(* chosen at the start, and the others stay as they are.                   *)
(***************************************************************************)
EXTENDS Housekeeping, TeamConfig, ToolGateway, McpServers, MemoryNotebook, DoorNaming

VARIABLE part     \* the component whose instance this behaviour is of

partVars ==
    <<part, housekeepingVars, teamVars, gatewayVars, mcpVars, notebookVars, vars>>

\* Housekeeping: a schedule for the second day, which is a Sunday, at minute 0.
MCSchedule == [b \in HostedBots |->
    [minute |-> {Part(0, 0, 1)}, dom |-> {Part(2, 2, 1)}, dow |-> {Part(6, 7, 1)},
     anyDom |-> FALSE, anyDow |-> FALSE]]
\* Of three calls two share the lock of bash.
MCToolsOf == <<{"bash", "detach"}, {"bash"}, {"plain"}>>
\* Two servers, the first of which offers a name of the second too.
MCServerSeq == <<"s1", "s2">>
MCOffers(s) == IF s = "s1" THEN {"n", "m"} ELSE {"n"}
\* A group of two bots and the DM of one of them.
MCNoteWindows == {[dm |-> Team, members |-> {"p", "q"}], [dm |-> "p", members |-> {"p"}]}

\* An instance that is not run starts in one state only.
PartInit ==
    /\ part \in {"house", "config", "gateway", "mcp", "notes", "naming"}
    /\ HousekeepingInit
    /\ TeamInit
    /\ part # "config" => config.models = {} /\ config.default = "m" /\ folder = {}
    /\ GatewayInit
    /\ McpInit
    /\ part # "mcp" => wanted = [s \in Servers |-> Absent]
    /\ NotebookInit
    /\ Init
    /\ part # "naming" => metadata.participants = Bots

PartNext ==
    \/ part = "house" /\ HousekeepingNext
       /\ UNCHANGED <<part, teamVars, gatewayVars, mcpVars, notebookVars, vars>>
    \/ part = "config" /\ TeamNext
       /\ UNCHANGED <<part, housekeepingVars, gatewayVars, mcpVars, notebookVars, vars>>
    \/ part = "gateway" /\ GatewayNext
       /\ UNCHANGED <<part, housekeepingVars, teamVars, mcpVars, notebookVars, vars>>
    \/ part = "mcp" /\ McpNext
       /\ UNCHANGED <<part, housekeepingVars, teamVars, gatewayVars, notebookVars, vars>>
    \/ part = "notes" /\ NotebookNext
       /\ UNCHANGED <<part, housekeepingVars, teamVars, gatewayVars, mcpVars, vars>>
    \/ part = "naming" /\ Next
       /\ UNCHANGED <<part, housekeepingVars, teamVars, gatewayVars, mcpVars, notebookVars>>

PartSpec == PartInit /\ [][PartNext]_partVars

=============================================================================

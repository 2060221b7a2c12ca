------------------------------ MODULE McpServers ------------------------------
(***************************************************************************)
(* The MCP servers (tools/mcp.py) and the tools that the registry offers   *)
(* for them (app/toolchain.py, app/chat_app.py _sync_mcp).  Every turn     *)
(* brings the live servers in line with the configuration it has read:     *)
(* servers that went or changed are stopped one after the other, missing   *)
(* ones are started one after the other, then names are registered.  One   *)
(* sync runs at a time, under the MCP lock; the tools of other turns are   *)
(* called between any two of its steps.                                    *)
(*                                                                         *)
(* Two servers may offer a tool under the same generated name: the first   *)
(* live one has it.                                                        *)
(***************************************************************************)
EXTENDS Naturals, Sequences, SequencesExt, FiniteSets

CONSTANTS
    Servers,
    ServerSeq,     \* the order of the servers in the configuration
    Offers(_),     \* the generated tool names of a server
    Versions,      \* versions of a server's command, arguments, environment
    Absent,        \* the server is not configured
    McpTurns,      \* turns
    MaxMcpEdits,   \* bound: edits of the configuration
    MaxMcpFaults   \* bound: starts that fail and servers that die

ASSUME McpAssumption ==
    /\ Absent \notin Versions \cup Servers
    /\ ToSet(ServerSeq) = Servers
    /\ MaxMcpEdits \in Nat /\ MaxMcpFaults \in Nat

VARIABLES
    wanted,      \* wanted[s]: the configured version, or Absent
    live,        \* MCPManager._live: [server, version, up], in order
    offered,     \* offered[n]: the process a registered name calls, or NoProc
    sync,        \* sync[t]: the turn's snapshot and how far its sync is
    mcpEdits, mcpFaults,
    lastWanted   \* history: the configuration that the last sync was given

mcpVars == <<wanted, live, offered, sync, mcpEdits, mcpFaults, lastWanted>>

Names == UNION {Offers(s) : s \in Servers}
NoProc == [server |-> Absent, version |-> Absent, up |-> FALSE]
NoSync == [step |-> "idle", want |-> [s \in Servers |-> Absent], todo |-> {},
           removed |-> {}]

McpInit ==
    /\ wanted \in [Servers -> Versions \cup {Absent}]
    /\ live = <<>>
    /\ offered = [n \in Names |-> NoProc]
    /\ sync = [t \in McpTurns |-> NoSync]
    /\ mcpEdits = 0
    /\ mcpFaults = 0
    /\ lastWanted = [s \in Servers |-> Absent]

\* MCPManager._configs: what a server was started with, dead or alive.
Launched(s) == {live[i].version : i \in {k \in DOMAIN live : live[k].server = s}}

\* _canonical_tools: the process that has a name is the first one offering it.
Canonical(procs, n) ==
    LET mine == {i \in DOMAIN procs : n \in Offers(procs[i].server)}
    IN IF mine = {} THEN NoProc
       ELSE procs[CHOOSE i \in mine : \A k \in mine : i <= k]

-----------------------------------------------------------------------------
EditConfig(s, v) ==
    /\ mcpEdits < MaxMcpEdits /\ v # wanted[s]
    /\ mcpEdits' = mcpEdits + 1
    /\ wanted' = [wanted EXCEPT ![s] = v]
    /\ UNCHANGED <<live, offered, sync, mcpFaults, lastWanted>>

\* The turn reads the configuration before it waits for the lock.
ReadConfig(t) ==
    /\ sync[t].step = "idle"
    /\ sync' = [sync EXCEPT ![t] = [NoSync EXCEPT !.step = "waiting", !.want = wanted]]
    /\ UNCHANGED <<wanted, live, offered, mcpEdits, mcpFaults, lastWanted>>

\* sync: the servers to stop are the live ones whose configuration is not the
\* one they were started with.
Stale(want) == {s \in Servers : Launched(s) \ {want[s]} # {}}
BeginSync(t) ==
    /\ sync[t].step = "waiting"
    /\ \A u \in McpTurns : sync[u].step \in {"idle", "waiting"}
    /\ sync' = [sync EXCEPT ![t].step = "stopping", ![t].todo = Stale(sync[t].want)]
    /\ lastWanted' = sync[t].want
    /\ UNCHANGED <<wanted, live, offered, mcpEdits, mcpFaults>>

\* MUTANT of RemovedWith: the names of a server that goes stay registered.
RemovedWithNone(s) == {}
\* aclose of one server, in the order of the live ones: whatever it raises,
\* the server is gone for the manager, and all the names it offers are to be
\* unregistered.
RemovedWith(s) == Offers(s)
StopServer(t) ==
    /\ sync[t].step = "stopping"
    /\ \E i \in DOMAIN live :
        LET p == live[i] IN
        /\ p.server \in sync[t].todo
        /\ \A k \in 1..(i - 1) : live[k].server \notin sync[t].todo
        /\ live' = RemoveAt(live, i)
        /\ sync' = [sync EXCEPT ![t].todo = @ \ {p.server},
                                ![t].removed = @ \cup RemovedWith(p.server)]
        /\ offered' = [n \in Names |->
                IF offered[n].server = p.server THEN [offered[n] EXCEPT !.up = FALSE]
                ELSE offered[n]]
    /\ UNCHANGED <<wanted, mcpEdits, mcpFaults, lastWanted>>

StopsDone(t) ==
    /\ sync[t].step = "stopping" /\ sync[t].todo = {}
    /\ sync' = [sync EXCEPT ![t].step = "starting",
            ![t].todo = {s \in Servers : sync[t].want[s] # Absent /\ Launched(s) = {}}]
    /\ UNCHANGED <<wanted, live, offered, mcpEdits, mcpFaults, lastWanted>>

\* _spawn_one, in the order of the configuration: a server that does not start
\* is left out, and tried again by the next sync.
StartServer(t, starts) ==
    /\ sync[t].step = "starting"
    /\ starts \/ mcpFaults < MaxMcpFaults
    /\ mcpFaults' = IF starts THEN mcpFaults ELSE mcpFaults + 1
    /\ \E i \in DOMAIN ServerSeq :
        LET s == ServerSeq[i] IN
        /\ s \in sync[t].todo
        /\ \A k \in 1..(i - 1) : ServerSeq[k] \notin sync[t].todo
        /\ live' = IF starts
                   THEN Append(live, [server |-> s, version |-> sync[t].want[s], up |-> TRUE])
                   ELSE live
        /\ sync' = [sync EXCEPT ![t].todo = @ \ {s}]
    /\ UNCHANGED <<wanted, offered, mcpEdits, lastWanted>>

\* _sync_mcp: the removed names go, then install_mcp_specs adds the names that
\* the registry does not have.
Register(t) ==
    /\ sync[t].step = "starting" /\ sync[t].todo = {}
    /\ offered' = [n \in Names |->
            IF offered[n].server # Absent /\ n \notin sync[t].removed
            THEN offered[n] ELSE Canonical(live, n)]
    /\ sync' = [sync EXCEPT ![t] = NoSync]
    /\ UNCHANGED <<wanted, live, mcpEdits, mcpFaults, lastWanted>>

\* A server's process ends: it stays in the table, its calls fail.
ServerDies(s) ==
    /\ mcpFaults < MaxMcpFaults
    /\ \E i \in DOMAIN live : live[i].server = s /\ live[i].up
    /\ mcpFaults' = mcpFaults + 1
    /\ live' = [i \in DOMAIN live |->
            IF live[i].server = s THEN [live[i] EXCEPT !.up = FALSE] ELSE live[i]]
    /\ offered' = [n \in Names |->
            IF offered[n].server = s THEN [offered[n] EXCEPT !.up = FALSE] ELSE offered[n]]
    /\ UNCHANGED <<wanted, sync, mcpEdits, lastWanted>>

McpNext ==
    \/ \E s \in Servers, v \in Versions \cup {Absent} : EditConfig(s, v)
    \/ \E t \in McpTurns :
        \/ ReadConfig(t) \/ BeginSync(t) \/ StopServer(t) \/ StopsDone(t)
        \/ \E starts \in BOOLEAN : StartServer(t, starts)
        \/ Register(t)
    \/ \E s \in Servers : ServerDies(s)

McpSpec == McpInit /\ [][McpNext]_mcpVars

-----------------------------------------------------------------------------
(* Properties.                                                             *)

NobodySyncs == \A t \in McpTurns : sync[t].step \in {"idle", "waiting"}

\* Between syncs the registry offers what the live servers offer, each name
\* bound to the process that has it: no name calls a server that a sync has
\* stopped or replaced, and no live server's tool is missing, even when two
\* servers share a name and one of them goes, changes or comes back.
RegistryMatchesServers == NobodySyncs => \A n \in Names : offered[n] = Canonical(live, n)

\* Between syncs a server is live at most once, and only in the version that the
\* last sync was given, however servers failed to start or to stop.
ServersMatchSnapshot ==
    NobodySyncs => \A s \in Servers :
        /\ Cardinality({i \in DOMAIN live : live[i].server = s}) <= 1
        /\ Launched(s) \subseteq {lastWanted[s]} \ {Absent}

ServersHold == RegistryMatchesServers /\ ServersMatchSnapshot

\* chat_app.py:376: a sync converges the servers "to the current config file":
\* the configuration a sync was given is not older than an earlier sync's.
\* Two turns that read it before and after an edit sync in the other order.
SyncIsCurrent ==
    [][\A t \in McpTurns : (sync[t].step = "waiting" /\ sync'[t].step = "stopping")
            => sync[t].want = wanted]_mcpVars
=============================================================================

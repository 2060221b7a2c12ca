----------------------------- MODULE ToolGateway -----------------------------
(***************************************************************************)
(* Tool calls (tools/gateway/, tools/task_store.py, tools/builtin/bash.py, *)
(* tools/registry.py).  A call takes its resource lock, gets an execution  *)
(* record, and its handler runs as a task of its own; a bash handler       *)
(* starts a process.  The call is answered with the handler's result, with *)
(* an id when the handler outlives the soft timeout or detaches its        *)
(* process, or never, when its turn is cancelled.  An id can be read and   *)
(* killed until its settled record is evicted.                             *)
(*                                                                         *)
(* Everything runs on one event loop; an action is a stretch of one        *)
(* coroutine or callback up to its next await.  There are fewer resource   *)
(* locks than the 200 past which _evict_locks drops some.                  *)
(***************************************************************************)
EXTENDS Integers, FiniteSets, FiniteSetsExt, Sequences

CONSTANTS
    ExecIds,      \* the calls, in the order of their submission: 1..n
    Callers,      \* the bots whose turns submit calls
    AllSeeing,    \* the caller that sees every execution: thyca or the user
    Tools,        \* "plain": an own handler; "bash"; "detach": bash background
    ToolsOf,      \* bound: the tools that a call may be of
    Keyed,        \* the resource locks: keys of tools that take one
    RetainCap,    \* _RETAIN_CAP: records kept before settled ones are evicted
    MaxKills      \* bound: kills

ASSUME ToolGatewayAssumption ==
    /\ IsFiniteSet(ExecIds) /\ ExecIds = 1..Cardinality(ExecIds)
    /\ AllSeeing \notin Callers
    /\ Tools \subseteq {"plain", "bash", "detach"} /\ ToolsOf \in [ExecIds -> SUBSET Tools]
    /\ RetainCap \in Nat /\ MaxKills \in Nat

VARIABLES
    call,        \* call[e]: its tool, its owner and where its coroutine stands
    holder,      \* holder[t]: the call that holds t's resource lock, 0 if none
    waiters,     \* waiters[t]: calls that wait for it, first come first served
    record,      \* _executions: record[e], NoRecord when it has none
    stored,      \* TaskStore._tasks: ids whose entry is kept
    handler,     \* handler[e]: the task of the handler and how it ended
    process,     \* process[e]: the shell process
    known,       \* BackgroundProcs._procs: ids whose process is kept
    asks,        \* kills so far
    killer,      \* the id whose kill awaits its settle, 0 if none
    shut,        \* the shutdown: "no", "closing" while it awaits its victims, "done"
    late,        \* history: the calls whose handler started after it began
    kills        \* history: ids whose kill was answered

gatewayVars == <<call, holder, waiters, record, stored, handler, process, known,
                 asks, killer, shut, late, kills>>

NoRecord == [kind |-> "none", status |-> "none", exposed |-> FALSE, at |-> 0]
NoCall == [tool |-> "none", owner |-> AllSeeing, step |-> "new"]

GatewayInit ==
    /\ call = [e \in ExecIds |-> NoCall]
    /\ holder = [t \in Keyed |-> 0]
    /\ waiters = [t \in Keyed |-> <<>>]
    /\ record = [e \in ExecIds |-> NoRecord]
    /\ stored = {}
    /\ handler = [e \in ExecIds |-> "none"]
    /\ process = [e \in ExecIds |-> "none"]
    /\ known = {}
    /\ asks = 0
    /\ killer = 0
    /\ shut = "no"
    /\ late = {}
    /\ kills = {}

\* The lock of a tool: bash has one, whichever way it is called.
Key(t) == IF t = "detach" THEN "bash" ELSE t
Tracked(rec) == {e \in ExecIds : rec[e] # NoRecord}
Ended(e) == handler[e] \in {"ok", "error", "cancelled"}
\* Execution.finish: the first call wins.
Finished(rec, e, error) ==
    IF rec[e].status # "running" THEN rec
    ELSE [rec EXCEPT ![e].status = IF error THEN "failed" ELSE "done", ![e].at = Max({rec[d].at : d \in ExecIds}) + 1]

-----------------------------------------------------------------------------
(* Submitting: the policy, an unknown tool and bad arguments are answered  *)
(* at once and leave nothing behind; they are not modelled further.        *)

\* _run and _track up to the wait: record, handler task and its entry.  The bash
\* handler goes on to BackgroundProcs.start, which awaits the spawn of the shell.
Started(e, tool) ==
    /\ record' = [record EXCEPT ![e] =
            [kind |-> "task", status |-> "running", exposed |-> FALSE, at |-> 0]]
    /\ stored' = stored \cup {e}
    /\ handler' = [handler EXCEPT ![e] = "running"]
    /\ process' = IF tool = "plain" THEN process ELSE [process EXCEPT ![e] = "spawning"]
    /\ late' = IF shut = "no" THEN late ELSE late \cup {e}

Submit(b, t) ==
    /\ shut # "done"         \* the loop is stopped
    /\ \E e \in ExecIds :
        /\ t \in ToolsOf[e]
        /\ call[e].step = "new" /\ \A d \in 1..(e - 1) : call[d].step # "new"
        /\ IF Key(t) \in Keyed /\ (holder[Key(t)] # 0 \/ waiters[Key(t)] # <<>>)
           THEN /\ waiters' = [waiters EXCEPT ![Key(t)] = Append(@, e)]
                /\ call' = [call EXCEPT ![e] = [tool |-> t, owner |-> b, step |-> "locking"]]
                /\ UNCHANGED <<holder, record, stored, handler, process, late>>
           ELSE /\ Started(e, t)
                /\ holder' = IF Key(t) \in Keyed THEN [holder EXCEPT ![Key(t)] = e] ELSE holder
                /\ call' = [call EXCEPT ![e] = [tool |-> t, owner |-> b, step |-> "waiting"]]
                /\ UNCHANGED waiters
    /\ UNCHANGED <<known, asks, killer, shut, kills>>

\* The lock comes to the first waiter.
Granted(e) ==
    LET t == Key(call[e].tool) IN
    /\ call[e].step = "locking"
    /\ holder[t] = 0 /\ Head(waiters[t]) = e
    /\ holder' = [holder EXCEPT ![t] = e]
    /\ waiters' = [waiters EXCEPT ![t] = Tail(@)]
    /\ call' = [call EXCEPT ![e].step = "waiting"]
    /\ Started(e, call[e].tool)
    /\ UNCHANGED <<known, asks, killer, shut, kills>>

\* submit returns and gives its lock back.
Answer(e, step) ==
    LET t == Key(call[e].tool) IN
    /\ call' = [call EXCEPT ![e].step = step]
    /\ holder' = IF t \in Keyed THEN [holder EXCEPT ![t] = 0] ELSE holder

\* _drop: the record, its entry, and with a process the kill of it.
DropsProcesses(es) ==
    /\ process' = [e \in ExecIds |->
            IF e \in es /\ record[e].kind = "proc" /\ process[e] = "running"
            THEN "killed" ELSE process[e]]
    /\ known' = known \ {e \in es : record[e].kind = "proc"}
Dropped(es) == stored' = stored \ es /\ DropsProcesses(es)
Untracked(rec, es) == [e \in ExecIds |-> IF e \in es THEN NoRecord ELSE rec[e]]

\* The record of a call whose id is given out; a shutdown has cleared them all.
Exposed(e, kind) ==
    IF record[e] = NoRecord THEN record
    ELSE [record EXCEPT ![e].kind = kind, ![e].exposed = TRUE]

\* MUTANT of Evictable: a running record is evicted too.
EvictableAll(rec) == Tracked(rec)
\* _evict_settled: the oldest settled records past the cap, never a running one.
Evictable(rec) == {e \in Tracked(rec) : rec[e].status # "running"}
Evicted(rec) ==
    LET over == Cardinality(Tracked(rec)) - RetainCap
    IN {e \in Evictable(rec) :
            over > Cardinality({d \in Evictable(rec) :
                rec[d].at < rec[e].at \/ (rec[d].at = rec[e].at /\ d < e)})}

-----------------------------------------------------------------------------
(* The handler and its process.                                            *)

\* TaskStore._settle forgets an entry that was never exposed; the settle callback
\* of an exposed one finishes its record.
Settled(e, error) ==
    /\ stored' = IF record[e].exposed THEN stored ELSE stored \ {e}
    /\ record' = IF record[e].exposed THEN Finished(record, e, error) ELSE record

\* BackgroundProcs.start registers the shell that was spawned.  A command in the
\* foreground attaches it to the record and waits; one in the background returns
\* Detached, which is no result for a call that is tracked by now.
Spawned(e) ==
    /\ process[e] = "spawning"
    /\ process' = [process EXCEPT ![e] = "running"]
    /\ known' = known \cup {e}
    /\ IF call[e].tool = "bash"
       THEN /\ record' = IF record[e] # NoRecord
                         THEN [record EXCEPT ![e].kind = "proc"] ELSE record
            /\ UNCHANGED <<handler, stored>>
       ELSE /\ handler' = [handler EXCEPT ![e] = "ok"]
            /\ Settled(e, TRUE)
    /\ UNCHANGED <<call, holder, waiters, asks, killer, shut, late, kills>>

\* The shell ends by itself, by its hard timeout or by a kill; a detached
\* one settles its record with that (_settle_proc).
ProcessEnds(e) ==
    /\ process[e] \in {"running", "killed"}
    /\ process' = [process EXCEPT ![e] = "exited"]
    /\ record' = IF call[e].tool = "detach" /\ record[e].kind = "proc"
                 THEN Finished(record, e, process[e] = "killed") ELSE record
    /\ UNCHANGED <<call, holder, waiters, stored, handler, known, asks, killer, shut, late, kills>>

\* The handler ends: with the result of the command, or because it refuses the
\* command or the spawn fails.
HandlerEnds(e, how) ==
    /\ handler[e] = "running"
    /\ \/ call[e].tool \notin {"bash", "detach"}
       \/ call[e].tool = "bash" /\ process[e] = "exited" /\ how = "ok"
       \/ process[e] = "spawning" /\ how = "error"
    /\ handler' = [handler EXCEPT ![e] = how]
    /\ process' = IF process[e] = "spawning" THEN [process EXCEPT ![e] = "none"] ELSE process
    /\ Settled(e, how # "ok")
    /\ UNCHANGED <<call, holder, waiters, known, asks, killer, shut, late, kills>>

-----------------------------------------------------------------------------
(* Answering.                                                              *)

\* The handler was in time: its result, or the id of a detached process.
AnswerResult(e) ==
    /\ call[e].step = "waiting" /\ Ended(e)
    /\ IF call[e].tool = "detach" /\ handler[e] = "ok"
       THEN LET rec == Exposed(e, "proc")
                gone == Evicted(rec)
            IN /\ record' = Untracked(
                    IF process[e] = "exited" THEN Finished(rec, e, FALSE) ELSE rec, gone)
               /\ stored' = stored \ ({e} \cup gone)
               /\ DropsProcesses(gone)
               /\ Answer(e, "id")
       ELSE /\ Dropped({e})
            /\ record' = Untracked(record, {e})
            /\ Answer(e, "result")
    /\ UNCHANGED <<waiters, handler, asks, killer, shut, late, kills>>

\* The soft timeout: the handler goes on, the answer carries its id, and the
\* lock is given back although the handler still runs.
SoftTimeout(e) ==
    /\ call[e].step = "waiting" /\ handler[e] = "running"
    /\ LET rec == Exposed(e, record[e].kind)
       IN /\ record' = Untracked(rec, Evicted(rec))
          /\ Dropped(Evicted(rec))
    /\ Answer(e, "tracked")
    /\ UNCHANGED <<waiters, handler, asks, killer, shut, late, kills>>

\* The turn is cancelled while it waits: the record goes, an attached
\* process is killed, the handler goes on unseen.
CancelCall(e) ==
    /\ IF call[e].step = "locking"
       THEN /\ waiters' = [waiters EXCEPT ![Key(call[e].tool)] =
                    SelectSeq(@, LAMBDA d : d # e)]
            /\ call' = [call EXCEPT ![e].step = "cancelled"]
            /\ UNCHANGED <<holder, record, stored, process, known>>
       ELSE /\ call[e].step = "waiting"
            /\ Dropped({e})
            /\ record' = Untracked(record, {e})
            /\ Answer(e, "cancelled")
            /\ UNCHANGED waiters
    /\ UNCHANGED <<handler, asks, killer, shut, late, kills>>

-----------------------------------------------------------------------------
(* tool_read, tool_kill and shutdown.                                      *)

\* _lookup: a bot finds its own executions only.
Finds(b, e) == record[e] # NoRecord /\ (b = AllSeeing \/ call[e].owner = b)

\* What a read or a kill of an id comes to: its process, or its stored entry.
LeadsTo(e) == IF record[e].kind = "proc" THEN e \in known ELSE e \in stored

\* kill: SIGKILL to the process group, or a cancellation that the handler may
\* still survive; then it waits for the settle, five seconds at most.  asyncio
\* kills the shell of a spawn that is cancelled.
Kill(b, e) ==
    /\ call[e].step \in {"id", "tracked"} /\ killer = 0
    /\ asks < MaxKills /\ asks' = asks + 1
    /\ Finds(b, e) /\ LeadsTo(e) /\ record[e].status = "running"
    /\ killer' = e
    /\ \/ /\ record[e].kind = "proc" /\ process[e] = "running"
          /\ process' = [process EXCEPT ![e] = "killed"]
          /\ UNCHANGED <<handler, record>>
       \/ /\ IF record[e].kind = "proc" THEN process[e] # "running" ELSE call[e].tool = "plain"
          /\ UNCHANGED <<handler, process, record>>
       \/ /\ record[e].kind = "task"
          /\ handler' = [handler EXCEPT ![e] = "cancelled"]
          /\ process' = IF process[e] = "spawning" THEN [process EXCEPT ![e] = "none"]
                                                  ELSE process
          /\ record' = Finished(record, e, TRUE)
    /\ UNCHANGED <<call, holder, waiters, stored, known, shut, late, kills>>

Killed(e) ==
    /\ killer = e
    /\ record' = Finished(record, e, TRUE)
    /\ killer' = 0
    /\ kills' = kills \cup {e}
    /\ UNCHANGED <<call, holder, waiters, stored, handler, process, known, asks, shut, late>>

\* Running task executions are cancelled, which handlers of their own may survive,
\* and every known process is killed; ...
Victims == {e \in ExecIds : /\ record[e].kind = "task" /\ record[e].status = "running"
                            /\ handler[e] = "running"}
Shutdown(cancelled) ==
    /\ shut = "no" /\ shut' = "closing"
    /\ {e \in Victims : call[e].tool # "plain"} \subseteq cancelled
    /\ handler' = [e \in ExecIds |-> IF e \in cancelled THEN "cancelled" ELSE handler[e]]
    /\ process' = [e \in ExecIds |->
            CASE e \in known /\ process[e] = "running" -> "killed"
              [] e \in cancelled /\ process[e] = "spawning" -> "none"
              [] OTHER -> process[e]]
    /\ stored' = stored \ {e \in cancelled : ~record[e].exposed}
    /\ record' = [e \in ExecIds |->
            IF e \in cancelled /\ record[e].exposed
            THEN [record[e] EXCEPT !.status = "failed", !.at = Max({record[d].at : d \in ExecIds}) + 1]
            ELSE record[e]]
    /\ UNCHANGED <<call, holder, waiters, known, asks, killer, late, kills>>

\* ... when they have ended, or have had their time, the records go.
ShutdownEnds ==
    /\ shut = "closing" /\ shut' = "done"
    /\ record' = [e \in ExecIds |-> NoRecord]
    /\ UNCHANGED <<call, holder, waiters, stored, handler, process, known, asks, killer,
                   late, kills>>

GatewayNext ==
    \/ \E b \in Callers, t \in Tools : Submit(b, t)
    \/ \E e \in ExecIds :
        \/ Granted(e) \/ Spawned(e) \/ ProcessEnds(e)
        \/ \E how \in {"ok", "error"} : HandlerEnds(e, how)
        \/ AnswerResult(e) \/ SoftTimeout(e) \/ CancelCall(e) \/ Killed(e)
        \/ \E b \in Callers \cup {AllSeeing} : Kill(b, e)
    \/ \E cancelled \in SUBSET Victims : Shutdown(cancelled)
    \/ ShutdownEnds

GatewaySpec == GatewayInit /\ [][GatewayNext]_gatewayVars

-----------------------------------------------------------------------------
(* Properties.                                                             *)

\* Two calls of one resource never run inside their locks at the same time,
\* and a resource whose calls have all gone is free.
ResourceIsExclusive ==
    \A t \in Keyed :
        LET inside == {e \in ExecIds : Key(call[e].tool) = t /\ call[e].step = "waiting"}
        IN Cardinality(inside) <= 1 /\ (holder[t] # 0 => holder[t] \in inside)

\* What an id was given out for can be read and killed as long as it runs and
\* no kill of it was answered, and what a settled id came to as long as it is
\* kept: its record leads to the entry of its handler or to its process.  But the
\* process of a background command that passed the soft timeout while its shell was
\* spawned is not what its id leads to.
IdLeadsSomewhere ==
    \A e \in ExecIds :
        /\ record[e].exposed => LeadsTo(e)
        /\ (/\ shut # "done" /\ call[e].step \in {"id", "tracked"} /\ e \notin kills
            /\ \/ handler[e] = "running"
               \/ process[e] = "running" /\ ~(call[e].tool = "detach" /\ call[e].step = "tracked"))
           => record[e].exposed

\* A process that runs is in the table that kill_all goes through.  One that runs
\* when a shutdown has begun is of a call whose turn was cancelled (so that it has no
\* record) while the shell was being spawned, or of one that started later.
ProcessesAreKnown ==
    \A e \in ExecIds : process[e] = "running" =>
        /\ e \in known
        /\ shut # "no" => call[e].step = "cancelled" \/ e \in late

GatewayHolds == ResourceIsExclusive /\ IdLeadsSomewhere /\ ProcessesAreKnown
=============================================================================

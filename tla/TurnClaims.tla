------------------------------ MODULE TurnClaims ------------------------------
(***************************************************************************)
(* The turns in flight: TurnState and TurnHub of thyca/serve/turn_state.py, *)
(* the thread/event-loop bridge of thyca/app/loop_turns.py, and the callers *)
(* that meet there: a turn (workspace_turns.py), a cancel request and a     *)
(* follower (chat_app.py), a compaction, a delete and the pruning of blank  *)
(* doors (conversation_admin/service.py).                                   *)
(*                                                                          *)
(* Each caller is a thread of the HTTP server; what it does under one lock  *)
(* is one action.  The body of a turn is a task of the one event loop; what *)
(* it does between two awaits, and a callback of the loop, is one action.   *)
(* The doors are group rooms: a bot's DM is never pruned.                   *)
(***************************************************************************)
EXTENDS Naturals, Sequences, FiniteSets

CONSTANTS
  Doors,        \* the conversations
  Turns,        \* the requests for a turn
  Compactions,  \* the requests for a compaction
  Cancels,      \* the requests to cancel the turn of a door
  Followers,    \* the clients that follow the turn of a door
  Prunes,       \* the requests for a new group room: each prunes blank doors
  NoTurn,       \* not a turn
  NoDoor,       \* not a door
  MaxEvents     \* bound: the events of one turn

ASSUME NoTurnAssumption == NoTurn \notin Turns
ASSUME NoDoorAssumption == NoDoor \notin Doors

VARIABLES
  door,       \* per door: "unborn", "present", "gone"
  rows,       \* per door: its public rows, <<turn, "user">> or <<turn, "reply">>
  turns,      \* per door: the turn that holds it, TurnState._turns
  compacts,   \* the doors held by a compaction, TurnState._compacts
  turnAt,     \* per turn: where its thread is
  attached,   \* per turn: its _Turn.job is set
  cancel,     \* per turn: job.cancel
  task,       \* per turn: job.task and the place of its coroutine
  kill,       \* per turn: task.cancel is among the callbacks of the loop
  cfut,       \* per turn: job.cfut
  delivering, \* per turn: a delivery that one of its tools started still runs
  items,      \* per turn: hub._items
  closed,     \* per turn: hub._closed
  subs,       \* per turn: hub._subs, named by their followers
  compactAt,  \* per compaction: where its thread is
  cancelAt,   \* per cancel request: where its thread is
  cancelOf,   \* per cancel request: the turn it found (history)
  followAt,   \* per follower: where its thread is
  followed,   \* per follower: the turn whose hub it holds
  received,   \* per follower: all that was ever put into its queue
  pruneAt,    \* per prune: where its thread is
  keep,       \* per prune: the doors it was told to spare
  todo,       \* per prune: the listed doors it has not looked at
  blank,      \* per prune: the door it found blank, NoDoor if none
  doorOf      \* per request: the door it is about

registryVars == <<turns, compacts>>
storeVars == <<door, rows>>
jobVars == <<attached, cancel, task, kill, cfut, delivering>>
hubVars == <<items, closed, subs, received>>
compactVars == <<compactAt>>
cancelVars == <<cancelAt, cancelOf>>
followVars == <<followAt, followed>>
pruneVars == <<pruneAt, keep, todo, blank>>
vars == <<registryVars, storeVars, turnAt, jobVars, hubVars, compactVars,
          cancelVars, followVars, pruneVars, doorOf>>

\* What ends a hub's log, and what ends a subscriber's queue.
Terminals == {"completed", "failed", "cancelled"}
Sentinel == "sentinel"

Requests == Turns \cup Compactions \cup Cancels \cup Followers

Init ==
  /\ door \in [Doors -> {"unborn", "present"}]
  /\ rows = [d \in Doors |-> {}]
  /\ turns = [d \in Doors |-> NoTurn]
  /\ compacts = {}
  /\ turnAt = [t \in Turns |-> "new"]
  /\ attached = [t \in Turns |-> FALSE]
  /\ cancel = [t \in Turns |-> FALSE]
  /\ task = [t \in Turns |-> "none"]
  /\ kill = [t \in Turns |-> FALSE]
  /\ cfut = [t \in Turns |-> "pending"]
  /\ delivering = [t \in Turns |-> FALSE]
  /\ items = [t \in Turns |-> << >>]
  /\ closed = [t \in Turns |-> FALSE]
  /\ subs = [t \in Turns |-> {}]
  /\ compactAt = [c \in Compactions |-> "new"]
  /\ cancelAt = [k \in Cancels |-> "new"]
  /\ cancelOf = [k \in Cancels |-> NoTurn]
  /\ followAt = [f \in Followers |-> "new"]
  /\ followed = [f \in Followers |-> NoTurn]
  /\ received = [f \in Followers |-> << >>]
  /\ pruneAt = [p \in Prunes |-> "new"]
  /\ keep = [p \in Prunes |-> {}]
  /\ todo = [p \in Prunes |-> {}]
  /\ blank = [p \in Prunes |-> NoDoor]
  /\ doorOf \in [Requests -> Doors]

-----------------------------------------------------------------------------
(* Locks and the hub                                                       *)

\* ChatApp._claim_lock is free.  A turn that has released its claim and a
\* compaction that has loaded its room hold it for one more step.
ClaimLockFree ==
  /\ \A t \in Turns : turnAt[t] # "released"
  /\ \A c \in Compactions : compactAt[c] # "loaded"

\* The lock of the shared SessionManager is free: no prune is under way.
ManagerLockFree == \A p \in Prunes : pruneAt[p] # "pruning"

\* TurnHub.publish: to the log and to every subscriber, unless it is closed.
Publish(t, item) ==
  /\ items' = IF closed[t] THEN items ELSE [items EXCEPT ![t] = Append(@, item)]
  /\ received' = [f \in Followers |->
       IF ~closed[t] /\ f \in subs[t] THEN Append(received[f], item) ELSE received[f]]

-----------------------------------------------------------------------------
(* The thread of a turn                                                    *)

\* ChatApp.turn and WorkspaceTurnService.run up to the claim: the room is
\* loaded, its bots resolved.  A door that is not there refuses the turn.
Load(t) ==
  /\ turnAt[t] = "new"
  /\ turnAt' = [turnAt EXCEPT ![t] =
       IF door[doorOf[t]] = "present" THEN "loaded" ELSE "refused"]
  /\ UNCHANGED <<registryVars, storeVars, jobVars, hubVars, compactVars,
                 cancelVars, followVars, pruneVars, doorOf>>

\* MUTANT of Held: a compaction does not hold its door against a turn.
HeldByTurn(d) == turns[d] # NoTurn

\* A turn or a compaction holds the door.
Held(d) == turns[d] # NoTurn \/ d \in compacts

\* TurnState.claim and _LoopTurns.begin under the claim lock.
Claim(t) ==
  LET d == doorOf[t] IN
  /\ turnAt[t] = "loaded"
  /\ ClaimLockFree
  /\ \/ /\ Held(d)
        /\ turnAt' = [turnAt EXCEPT ![t] = "refused"]
        /\ UNCHANGED <<turns, attached>>
     \/ /\ ~Held(d)
        /\ turnAt' = [turnAt EXCEPT ![t] = "claimed"]
        /\ turns' = [turns EXCEPT ![d] = t]
        /\ attached' = [attached EXCEPT ![t] = TRUE]
  /\ UNCHANGED <<compacts, storeVars, cancel, task, kill, cfut, delivering, hubVars,
                 compactVars, cancelVars, followVars, pruneVars, doorOf>>

\* _LoopTurns.submit: the spawn is posted to the loop, the thread waits for cfut.
Submit(t) ==
  /\ turnAt[t] = "claimed"
  /\ turnAt' = [turnAt EXCEPT ![t] = "waiting"]
  /\ task' = [task EXCEPT ![t] = "posted"]
  /\ UNCHANGED <<registryVars, storeVars, attached, cancel, kill, cfut, delivering,
                 hubVars, compactVars, cancelVars, followVars, pruneVars, doorOf>>

\* MUTANT of Outcome: a turn that failed is reported as completed.
OutcomeOfFailure(result) == IF result = "failed" THEN "completed" ELSE result

\* The terminal item for what cfut.result() returned or raised.
Outcome(result) == result

PublishTerminal(t) ==
  /\ turnAt[t] = "waiting"
  /\ cfut[t] # "pending"
  /\ turnAt' = [turnAt EXCEPT ![t] = "published"]
  /\ Publish(t, Outcome(cfut[t]))
  /\ UNCHANGED <<registryVars, storeVars, jobVars, closed, subs, compactVars,
                 cancelVars, followVars, pruneVars, doorOf>>

\* _LoopTurns.end and the first half of TurnState.release, under the claim lock.
Release(t) ==
  /\ turnAt[t] = "published"
  /\ ClaimLockFree
  /\ turnAt' = [turnAt EXCEPT ![t] = "released"]
  /\ attached' = [attached EXCEPT ![t] = FALSE]
  /\ turns' = [turns EXCEPT ![doorOf[t]] = NoTurn]
  /\ UNCHANGED <<compacts, storeVars, cancel, task, kill, cfut, delivering, hubVars,
                 compactVars, cancelVars, followVars, pruneVars, doorOf>>

\* The other half, the registry's lock given back: TurnHub.close.
Close(t) ==
  /\ turnAt[t] = "released"
  /\ turnAt' = [turnAt EXCEPT ![t] = "done"]
  /\ closed' = [closed EXCEPT ![t] = TRUE]
  /\ subs' = [subs EXCEPT ![t] = {}]
  /\ received' = [f \in Followers |->
       IF f \in subs[t] THEN Append(received[f], Sentinel) ELSE received[f]]
  /\ UNCHANGED <<registryVars, storeVars, jobVars, items, compactVars,
                 cancelVars, followVars, pruneVars, doorOf>>

-----------------------------------------------------------------------------
(* The task of a turn, on the event loop                                   *)

\* The task is created and its coroutine has not ended.
Alive == {"queued", "running", "recorded", "replied"}
Ended == {"returned", "failed", "cancelled"}

\* What a step of the coroutine leaves alone.
taskFrame == <<registryVars, turnAt, attached, cancel, kill, cfut,
               compactVars, cancelVars, followVars, pruneVars, doorOf>>

\* MUTANT of Spawn: the flag of a cancel that came before the spawn is not read.
SpawnUnchecked(t) ==
  /\ task[t] = "posted"
  /\ task' = [task EXCEPT ![t] = "queued"]
  /\ UNCHANGED <<registryVars, storeVars, turnAt, attached, cancel, kill, cfut, delivering,
                 hubVars, compactVars, cancelVars, followVars, pruneVars, doorOf>>

\* spawn, under job.lock: a turn that is cancelled already never gets a task.
Spawn(t) ==
  /\ task[t] = "posted"
  /\ \/ /\ cancel[t]
        /\ task' = [task EXCEPT ![t] = "dropped"]
        /\ cfut' = [cfut EXCEPT ![t] = "cancelled"]
     \/ /\ ~cancel[t]
        /\ task' = [task EXCEPT ![t] = "queued"]
        /\ UNCHANGED cfut
  /\ UNCHANGED <<registryVars, storeVars, turnAt, attached, cancel, kill, delivering,
                 hubVars, compactVars, cancelVars, followVars, pruneVars, doorOf>>

\* _leased: the lease of the bot is granted and the door is loaded afresh.
Enter(t) ==
  /\ task[t] = "queued"
  /\ task' = [task EXCEPT ![t] =
       IF door[doorOf[t]] = "present" THEN "running" ELSE "failed"]
  /\ UNCHANGED <<taskFrame, storeVars, delivering, hubVars>>

\* _run_bot_turn writes the user's row, or the bot's reply; a door that is gone
\* takes no row, and the turn fails.
Record(t, from, kind, to) ==
  /\ task[t] = from
  /\ \/ /\ door[doorOf[t]] = "present"
        /\ rows' = [rows EXCEPT ![doorOf[t]] = @ \cup {<<t, kind>>}]
        /\ task' = [task EXCEPT ![t] = to]
     \/ /\ door[doorOf[t]] # "present"
        /\ task' = [task EXCEPT ![t] = "failed"]
        /\ UNCHANGED rows
  /\ UNCHANGED <<taskFrame, door, delivering, hubVars>>

RecordUser(t) == Record(t, "running", "user", "recorded")
RecordReply(t) == Record(t, "recorded", "reply", "replied")

\* The bot's rounds publish events through the sink of the turn.
Emit(t) ==
  /\ task[t] \in {"recorded", "replied"}
  /\ Len(items[t]) < MaxEvents
  /\ Publish(t, "event")
  /\ UNCHANGED <<taskFrame, storeVars, task, delivering, closed, subs>>

\* A tool asks another bot.  The delivery runs on when the tool is too slow or
\* the turn is cancelled, and it publishes through the same sink.
StartDelivery(t) ==
  /\ task[t] = "recorded"
  /\ ~delivering[t]
  /\ delivering' = [delivering EXCEPT ![t] = TRUE]
  /\ UNCHANGED <<taskFrame, storeVars, task, hubVars>>

DeliveryEmits(t) ==
  /\ delivering[t]
  /\ Len(items[t]) < MaxEvents
  /\ Publish(t, "event")
  /\ UNCHANGED <<taskFrame, storeVars, task, delivering, closed, subs>>

DeliveryEnds(t) ==
  /\ delivering[t]
  /\ delivering' = [delivering EXCEPT ![t] = FALSE]
  /\ UNCHANGED <<taskFrame, storeVars, task, hubVars>>

\* The provider, a tool or the store raises, the lease is refused, the bot is gone.
Fail(t) ==
  /\ task[t] \in Alive
  /\ task' = [task EXCEPT ![t] = "failed"]
  /\ UNCHANGED <<taskFrame, storeVars, delivering, hubVars>>

\* The title is settled (DoorNaming) and the detail of the room returned.
Return(t) ==
  /\ task[t] = "replied"
  /\ task' = [task EXCEPT ![t] = "returned"]
  /\ UNCHANGED <<taskFrame, storeVars, delivering, hubVars>>

\* MUTANT of CancelTask: what is cancelled is the task of the door's turn by now.
CancelTaskOfDoor(t) ==
  LET u == turns[doorOf[t]] IN
  /\ kill[t]
  /\ kill' = [kill EXCEPT ![t] = FALSE]
  /\ task' = IF u # NoTurn /\ task[u] \in Alive
             THEN [task EXCEPT ![u] = "cancelled"] ELSE task
  /\ UNCHANGED <<registryVars, storeVars, turnAt, attached, cancel, cfut, delivering,
                 hubVars, compactVars, cancelVars, followVars, pruneVars, doorOf>>

\* The posted task.cancel runs: CancelledError at the await the coroutine is at.
CancelTask(t) ==
  /\ kill[t]
  /\ kill' = [kill EXCEPT ![t] = FALSE]
  /\ task' = IF task[t] \in Alive THEN [task EXCEPT ![t] = "cancelled"] ELSE task
  /\ UNCHANGED <<registryVars, storeVars, turnAt, attached, cancel, cfut, delivering,
                 hubVars, compactVars, cancelVars, followVars, pruneVars, doorOf>>

\* MUTANT of Done: the future of a task that raised gets a result.
DoneWithResult(t) ==
  /\ task[t] \in Ended
  /\ cfut[t] = "pending"
  /\ cfut' = [cfut EXCEPT ![t] = IF task[t] = "cancelled" THEN task[t] ELSE "completed"]
  /\ UNCHANGED <<registryVars, storeVars, turnAt, attached, cancel, task, kill, delivering,
                 hubVars, compactVars, cancelVars, followVars, pruneVars, doorOf>>

\* The task's done callback settles the future that the thread waits for.
Done(t) ==
  /\ task[t] \in Ended
  /\ cfut[t] = "pending"
  /\ cfut' = [cfut EXCEPT ![t] = IF task[t] = "returned" THEN "completed" ELSE task[t]]
  /\ UNCHANGED <<registryVars, storeVars, turnAt, attached, cancel, task, kill, delivering,
                 hubVars, compactVars, cancelVars, followVars, pruneVars, doorOf>>

-----------------------------------------------------------------------------
(* Cancel requests                                                         *)

\* ChatApp.cancel up to its wait: the job is flagged under job.lock, and its
\* task, if there is one, is to be cancelled by the loop.  An idle door is
\* refused, or a private follow-up cancelled instead.
RequestCancel(k) ==
  LET t == turns[doorOf[k]] IN
  /\ cancelAt[k] = "new"
  /\ ClaimLockFree
  /\ \/ /\ t = NoTurn
        /\ cancelAt' = [cancelAt EXCEPT ![k] = "idle"]
        /\ UNCHANGED <<cancelOf, cancel, kill>>
     \/ /\ t # NoTurn
        /\ cancelAt' = [cancelAt EXCEPT ![k] = "polling"]
        /\ cancelOf' = [cancelOf EXCEPT ![k] = t]
        /\ IF attached[t]
           THEN /\ cancel' = [cancel EXCEPT ![t] = TRUE]
                /\ kill' = [kill EXCEPT ![t] = @ \/ task[t] \in Alive \cup Ended]
           ELSE UNCHANGED <<cancel, kill>>
  /\ UNCHANGED <<registryVars, storeVars, turnAt, attached, task, cfut, delivering,
                 hubVars, compactVars, followVars, pruneVars, doorOf>>

\* It polls for the door to be free, until its deadline.
EndCancel(k) ==
  /\ cancelAt[k] = "polling"
  /\ \/ /\ turns[doorOf[k]] = NoTurn
        /\ cancelAt' = [cancelAt EXCEPT ![k] = "ok"]
     \/ cancelAt' = [cancelAt EXCEPT ![k] = "in flight"]
  /\ UNCHANGED <<registryVars, storeVars, turnAt, jobVars, hubVars, compactVars,
                 cancelOf, followVars, pruneVars, doorOf>>

-----------------------------------------------------------------------------
(* Followers                                                               *)

\* follow_hub: the hub of the turn that holds the door now.
FollowHub(f) ==
  LET t == turns[doorOf[f]] IN
  /\ followAt[f] = "new"
  /\ followAt' = [followAt EXCEPT ![f] = IF t = NoTurn THEN "idle" ELSE "found"]
  /\ followed' = [followed EXCEPT ![f] = t]
  /\ UNCHANGED <<registryVars, storeVars, turnAt, jobVars, hubVars, compactVars,
                 cancelVars, pruneVars, doorOf>>

\* MUTANT of Replay: the log of a hub that has closed has no end.
ReplayOpen(t) == items[t]

\* What a new subscriber finds in its queue.
Replay(t) == IF closed[t] THEN Append(items[t], Sentinel) ELSE items[t]

\* TurnHub.subscribe: the log is replayed; the queue of an open hub is kept up.
Subscribe(f) ==
  LET t == followed[f] IN
  /\ followAt[f] = "found"
  /\ followAt' = [followAt EXCEPT ![f] = "subscribed"]
  /\ received' = [received EXCEPT ![f] = Replay(t)]
  /\ subs' = IF closed[t] THEN subs ELSE [subs EXCEPT ![t] = @ \cup {f}]
  /\ UNCHANGED <<registryVars, storeVars, turnAt, jobVars, items, closed, compactVars,
                 cancelVars, followed, pruneVars, doorOf>>

\* The client disconnects, or its stream has ended: TurnHub.drop.
Drop(f) ==
  /\ followAt[f] = "subscribed"
  /\ followAt' = [followAt EXCEPT ![f] = "dropped"]
  /\ subs' = [subs EXCEPT ![followed[f]] = @ \ {f}]
  /\ UNCHANGED <<registryVars, storeVars, turnAt, jobVars, items, closed, received,
                 compactVars, cancelVars, followed, pruneVars, doorOf>>

-----------------------------------------------------------------------------
(* Compactions                                                             *)

compactFrame == <<storeVars, turns, turnAt, jobVars, hubVars, cancelVars, followVars,
                  pruneVars, doorOf>>

\* compact_session takes the claim lock and loads the room.
LoadToCompact(c) ==
  /\ compactAt[c] = "new"
  /\ ClaimLockFree
  /\ compactAt' = [compactAt EXCEPT ![c] =
       IF door[doorOf[c]] = "present" THEN "loaded" ELSE "refused"]
  /\ UNCHANGED <<compactFrame, compacts>>

\* begin_compact; the claim lock is given back.
BeginCompact(c) ==
  /\ compactAt[c] = "loaded"
  /\ \/ /\ Held(doorOf[c])
        /\ compactAt' = [compactAt EXCEPT ![c] = "refused"]
        /\ UNCHANGED compacts
     \/ /\ ~Held(doorOf[c])
        /\ compactAt' = [compactAt EXCEPT ![c] = "compacting"]
        /\ compacts' = compacts \cup {doorOf[c]}
  /\ UNCHANGED compactFrame

\* The bots' contexts are compacted, or it failed: end_compact.
EndCompact(c) ==
  /\ compactAt[c] = "compacting"
  /\ compactAt' = [compactAt EXCEPT ![c] = "done"]
  /\ compacts' = compacts \ {doorOf[c]}
  /\ UNCHANGED compactFrame

-----------------------------------------------------------------------------
(* Deleting and pruning doors                                              *)

doorFrame == <<registryVars, turnAt, jobVars, hubVars, compactVars, cancelVars,
               followVars, doorOf>>

Remove(d) ==
  /\ door' = [door EXCEPT ![d] = "gone"]
  /\ rows' = [rows EXCEPT ![d] = {}]

\* delete_unclaimed: check and delete under the registry's lock, and under that
\* of the manager.  A door that is held is refused, one that is gone is no error.
Delete(d) ==
  /\ door[d] = "present"
  /\ ~Held(d)
  /\ ManagerLockFree
  /\ Remove(d)
  /\ UNCHANGED <<doorFrame, pruneVars>>

\* _create_group_session: the turns in flight, TurnState.snapshot.
Snapshot(p) ==
  /\ pruneAt[p] = "new"
  /\ pruneAt' = [pruneAt EXCEPT ![p] = "snapshot"]
  /\ keep' = [keep EXCEPT ![p] = {d \in Doors : turns[d] # NoTurn}]
  /\ UNCHANGED <<doorFrame, storeVars, todo, blank>>

\* discard_empty takes the manager's lock and lists the doors.
BeginPrune(p) ==
  /\ pruneAt[p] = "snapshot"
  /\ ManagerLockFree
  /\ pruneAt' = [pruneAt EXCEPT ![p] = "pruning"]
  /\ todo' = [todo EXCEPT ![p] = {d \in Doors : door[d] = "present"}]
  /\ UNCHANGED <<doorFrame, storeVars, keep, blank>>

\* MUTANT of LoadToPrune: a blank door is taken whatever was to be kept.
LoadToPruneAny(p, d) ==
  /\ pruneAt[p] = "pruning"
  /\ blank[p] = NoDoor
  /\ d \in todo[p]
  /\ todo' = [todo EXCEPT ![p] = @ \ {d}]
  /\ blank' = [blank EXCEPT ![p] = IF rows[d] # {} THEN NoDoor ELSE d]
  /\ UNCHANGED <<doorFrame, storeVars, pruneAt, keep>>

\* One listed door is loaded: it is spared, or blank and to be deleted.
LoadToPrune(p, d) ==
  /\ pruneAt[p] = "pruning"
  /\ blank[p] = NoDoor
  /\ d \in todo[p]
  /\ todo' = [todo EXCEPT ![p] = @ \ {d}]
  /\ blank' = [blank EXCEPT ![p] = IF d \in keep[p] \/ rows[d] # {} THEN NoDoor ELSE d]
  /\ UNCHANGED <<doorFrame, storeVars, pruneAt, keep>>

PruneBlank(p) ==
  /\ blank[p] # NoDoor
  /\ Remove(blank[p])
  /\ blank' = [blank EXCEPT ![p] = NoDoor]
  /\ UNCHANGED <<doorFrame, pruneAt, keep, todo>>

EndPrune(p) ==
  /\ pruneAt[p] = "pruning"
  /\ todo[p] = {} /\ blank[p] = NoDoor
  /\ pruneAt' = [pruneAt EXCEPT ![p] = "pruned"]
  /\ UNCHANGED <<doorFrame, storeVars, keep, todo, blank>>

\* The new room, under an id that nothing had.
Create(p, d) ==
  /\ pruneAt[p] = "pruned"
  /\ door[d] = "unborn"
  /\ door' = [door EXCEPT ![d] = "present"]
  /\ pruneAt' = [pruneAt EXCEPT ![p] = "done"]
  /\ UNCHANGED <<doorFrame, rows, keep, todo, blank>>

-----------------------------------------------------------------------------

TurnThread(t) ==
  Load(t) \/ Claim(t) \/ Submit(t) \/ PublishTerminal(t) \/ Release(t) \/ Close(t)

TurnTask(t) ==
  \/ Spawn(t) \/ Enter(t) \/ RecordUser(t) \/ RecordReply(t) \/ Emit(t) \/ Fail(t)
  \/ Return(t) \/ CancelTask(t) \/ Done(t)
  \/ StartDelivery(t) \/ DeliveryEmits(t) \/ DeliveryEnds(t)

Prune(p) ==
  \/ Snapshot(p) \/ BeginPrune(p) \/ PruneBlank(p) \/ EndPrune(p)
  \/ \E d \in Doors : LoadToPrune(p, d) \/ Create(p, d)

Next ==
  \/ \E t \in Turns : TurnThread(t) \/ TurnTask(t)
  \/ \E k \in Cancels : RequestCancel(k) \/ EndCancel(k)
  \/ \E f \in Followers : FollowHub(f) \/ Subscribe(f) \/ Drop(f)
  \/ \E c \in Compactions : LoadToCompact(c) \/ BeginCompact(c) \/ EndCompact(c)
  \/ \E d \in Doors : Delete(d)
  \/ \E p \in Prunes : Prune(p)

Spec == Init /\ [][Next]_vars

\* The loop runs what was posted to it, threads run, and the claim lock is handed
\* on.  Nothing is assumed of the turn's own work, the provider and the tools.
Fairness ==
  /\ \A t \in Turns :
       /\ WF_vars(Submit(t)) /\ WF_vars(Spawn(t)) /\ WF_vars(CancelTask(t))
       /\ WF_vars(Done(t)) /\ WF_vars(PublishTerminal(t))
       /\ WF_vars(Release(t)) /\ WF_vars(Close(t))
  /\ \A c \in Compactions : WF_vars(BeginCompact(c))

FairSpec == Spec /\ Fairness

-----------------------------------------------------------------------------
(* Properties                                                              *)

InFlight == {"claimed", "waiting", "published"}
TurnPlaces == {"new", "loaded", "refused", "released", "done"} \cup InFlight
TaskPlaces == {"none", "posted", "dropped"} \cup Alive \cup Ended
Items == Terminals \cup {"event"}
QueueItems == Items \cup {Sentinel}
CompactPlaces == {"new", "loaded", "refused", "compacting", "done"}
CancelPlaces == {"new", "idle", "polling", "ok", "in flight"}
FollowPlaces == {"new", "idle", "found", "subscribed", "dropped"}
PrunePlaces == {"new", "snapshot", "pruning", "pruned", "done"}

\* The type of every variable.
TypeOK ==
  /\ door \in [Doors -> {"unborn", "present", "gone"}]
  /\ rows \in [Doors -> SUBSET (Turns \X {"user", "reply"})]
  /\ turns \in [Doors -> Turns \cup {NoTurn}]
  /\ compacts \subseteq Doors
  /\ turnAt \in [Turns -> TurnPlaces]
  /\ attached \in [Turns -> BOOLEAN]
  /\ cancel \in [Turns -> BOOLEAN]
  /\ task \in [Turns -> TaskPlaces]
  /\ kill \in [Turns -> BOOLEAN]
  /\ cfut \in [Turns -> Terminals \cup {"pending"}]
  /\ delivering \in [Turns -> BOOLEAN]
  /\ items \in [Turns -> Seq(Items)]
  /\ closed \in [Turns -> BOOLEAN]
  /\ subs \in [Turns -> SUBSET Followers]
  /\ compactAt \in [Compactions -> CompactPlaces]
  /\ cancelAt \in [Cancels -> CancelPlaces]
  /\ cancelOf \in [Cancels -> Turns \cup {NoTurn}]
  /\ followAt \in [Followers -> FollowPlaces]
  /\ followed \in [Followers -> Turns \cup {NoTurn}]
  /\ received \in [Followers -> Seq(QueueItems)]
  /\ pruneAt \in [Prunes -> PrunePlaces]
  /\ keep \in [Prunes -> SUBSET Doors]
  /\ todo \in [Prunes -> SUBSET Doors]
  /\ blank \in [Prunes -> Doors \cup {NoDoor}]
  /\ doorOf \in [Requests -> Doors]

\* A door is held by one party: a turn in flight owns its registry entry, with
\* its job attached, a compaction under way its mark, and never two of them.
OneOwnerPerDoor ==
  /\ \A t \in Turns : turnAt[t] \in InFlight <=> turns[doorOf[t]] = t
  /\ \A t \in Turns : turnAt[t] \in InFlight <=> attached[t]
  /\ \A c \in Compactions : compactAt[c] = "compacting" =>
       /\ doorOf[c] \in compacts
       /\ \A b \in Compactions \ {c} : compactAt[b] = "compacting" => doorOf[b] # doorOf[c]
  /\ \A d \in compacts : turns[d] = NoTurn

\* No door goes while a turn or a compaction holds it: what conversation_admin/
\* service.py:75 says of a prune, and false of one whose snapshot of the turns is old.
HeldDoorIsKept ==
  [][\A d \in Doors : door[d] = "present" /\ door'[d] # "present" => ~Held(d)]_vars

\* What a prune may do nevertheless: a turn at work loses its door only to a
\* prune whose snapshot of the turns in flight was taken before its claim.
OnlyStalePruneTakes ==
  \A t \in Turns :
    turnAt[t] = "waiting" /\ task[t] \in {"recorded", "replied"} /\ door[doorOf[t]] = "gone"
    => \E p \in Prunes : pruneAt[p] \in {"pruning", "pruned", "done"} /\ doorOf[t] \notin keep[p]

\* When a turn is reported as completed its door is there, with the user's row
\* and the reply, until the claim is given back.
CompletedTurnIsRecorded ==
  \A t \in Turns : turnAt[t] = "published" /\ cfut[t] = "completed" =>
    /\ door[doorOf[t]] = "present"
    /\ {<<t, "user">>, <<t, "reply">>} \subseteq rows[doorOf[t]]

\* However late it came, a follower's queue holds the whole log of the turn, in
\* order and without repeats, and its end once the hub is closed: none is left
\* waiting on a hub that says nothing any more.
FollowersMissNothing ==
  \A f \in Followers : followAt[f] = "subscribed" =>
    LET t == followed[f] IN
    received[f] = IF closed[t] THEN Append(items[t], Sentinel) ELSE items[t]

\* A hub tells one ending, that of the turn's future, and tells it before the
\* claim is given back; until then it tells none.
Endings(t) == {i \in DOMAIN items[t] : items[t][i] \in Terminals}

OneEnding ==
  \A t \in Turns :
    IF turnAt[t] \in {"published", "released", "done"}
    THEN \E i \in DOMAIN items[t] : Endings(t) = {i} /\ items[t][i] = cfut[t]
    ELSE Endings(t) = {}

\* Only a turn that a request found in flight is ever cancelled: a request that
\* comes late does not hit the next turn of the door.
CancelHitsItsTurn ==
  \A t \in Turns : cancel[t] \/ kill[t] \/ cfut[t] = "cancelled" =>
    \E k \in Cancels : cancelOf[k] = t

\* A cancelled turn ends and gives its door back, though its work never would:
\* no request is lost between the claim, the spawn and the task.
CancelLands == \A k \in Cancels, t \in Turns : cancelOf[k] = t ~> turnAt[t] = "done"
===============================================================================

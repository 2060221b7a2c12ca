---------------------------- MODULE WorkspaceLease ----------------------------
(***************************************************************************)
(* WorkspaceRegistry of thyca/bots/workspace.py: one bot runs one turn at  *)
(* a time, across all its windows.  A turn takes the lease of its bot, an  *)
(* asyncio.Lock, and the tools of the turn may take the leases of other    *)
(* bots (an agent-to-agent delivery is a turn of the recipient).  The      *)
(* tools of one reply run in parallel (asyncio.gather in agents/act.py)    *)
(* and inherit the owner token of their turn, so one owner may wait for    *)
(* several bots.  A tool that takes too long is left running on its own:   *)
(* the turn goes on without it (tools/gateway).                            *)
(*                                                                         *)
(* A task here is one `async with registry.lease(bot)`.  Everything runs on *)
(* one event loop: what a coroutine does between two awaits is one action. *)
(***************************************************************************)
EXTENDS Naturals, FiniteSets, SequencesExt

CONSTANTS
  Tasks,   \* the requests for a lease
  Bots,    \* the bots
  NoTask   \* not a task: no parent, no owner

ASSUME NoTaskAssumption == NoTask \notin Tasks
ASSUME TasksAreFinite == IsFiniteSet(Tasks)

VARIABLES
  state,     \* per task: "new", "queued", "holding", "done"
  bot,       \* per task: the bot it asks for
  parent,    \* per task: the turn whose tool asks, NoTask for a turn of its own
  token,     \* per task: its _LeaseOwner, named by the outermost task
  attached,  \* per task: its parent awaits it
  locked,    \* per bot: lease.lock.locked()
  waiters,   \* per bot: the queue of the lock
  owner,     \* per bot: lease.owner
  waiting    \* per owner and bot: the counted wait-for edges, _waiting

taskVars == <<state, bot, parent, token, attached>>
vars == <<taskVars, locked, waiters, owner, waiting>>

Init ==
  /\ state = [t \in Tasks |-> "new"]
  /\ bot \in [Tasks -> Bots]
  /\ parent = [t \in Tasks |-> NoTask]
  /\ token = [t \in Tasks |-> t]
  /\ attached = [t \in Tasks |-> FALSE]
  /\ locked = [b \in Bots |-> FALSE]
  /\ waiters = [b \in Bots |-> << >>]
  /\ owner = [b \in Bots |-> NoTask]
  /\ waiting = [o \in Tasks |-> [b \in Bots |-> 0]]

-----------------------------------------------------------------------------

\* The owners that o waits for when its pending edges are `pending`.
Blockers(pending, o) == {owner[b] : b \in {c \in Bots : pending[o][c] > 0}} \ {NoTask}

\* MUTANT of WaitCycle: only a bot of one's own is a cycle.
WaitCycleOfOne(pending, o) == o \in Blockers(pending, o)

\* _wait_cycle: from the lease owners o waits for, through those they wait for,
\* o is reached again, that is, o is in every set closed under waiting.
WaitCycle(pending, o) ==
  \A reached \in SUBSET Tasks :
    /\ Blockers(pending, o) \subseteq reached
    /\ \A x \in reached : Blockers(pending, x) \subseteq reached
    => o \in reached

WithEdge(o, b) == [waiting EXCEPT ![o][b] = @ + 1]
WithoutEdge(o, b) == [waiting EXCEPT ![o][b] = @ - 1]

\* asyncio.Lock.acquire does not wait: the lock is free and nobody queues.
Free(b) == ~locked[b] /\ waiters[b] = << >>

Take(t, b, o) ==
  /\ state' = [state EXCEPT ![t] = "holding"]
  /\ locked' = [locked EXCEPT ![b] = TRUE]
  /\ owner' = [owner EXCEPT ![b] = o]

\* The request of t on behalf of owner o: a conflict when o holds the bot or
\* when waiting would close a cycle; else the lease at once, or a place in the
\* queue with a wait-for edge.
Acquire(t, b, o) ==
  LET conflict == owner[b] = o \/ WaitCycle(WithEdge(o, b), o)
  IN \/ /\ conflict
        /\ state' = [state EXCEPT ![t] = "done"]
        /\ UNCHANGED <<locked, waiters, owner, waiting>>
     \/ /\ ~conflict /\ Free(b)
        /\ Take(t, b, o)
        /\ UNCHANGED <<waiters, waiting>>
     \/ /\ ~conflict /\ ~Free(b)
        /\ state' = [state EXCEPT ![t] = "queued"]
        /\ waiters' = [waiters EXCEPT ![b] = Append(@, t)]
        /\ waiting' = WithEdge(o, b)
        /\ UNCHANGED <<locked, owner>>

\* A turn of its own (a user turn, a scheduled turn, a wake): a fresh owner.
RequestTurn(t) ==
  /\ state[t] = "new"
  /\ Acquire(t, bot[t], token[t])
  /\ UNCHANGED <<bot, parent, token, attached>>

\* The scheduler asks with skip_busy: a held lease is not waited for.
SkipBusy(t) ==
  /\ state[t] = "new"
  /\ locked[bot[t]]
  /\ state' = [state EXCEPT ![t] = "done"]
  /\ UNCHANGED <<bot, parent, token, attached, locked, waiters, owner, waiting>>

\* A tool of the turn p asks, under the owner of p, which awaits it; a tool that
\* outlived its turn still asks under that owner, awaited by nobody.
RequestNested(t, p) ==
  /\ state[t] = "new" /\ state[p] \in {"holding", "done"}
  /\ parent' = [parent EXCEPT ![t] = p]
  /\ token' = [token EXCEPT ![t] = token[p]]
  /\ attached' = [attached EXCEPT ![t] = state[p] = "holding"]
  /\ Acquire(t, bot[t], token[p])
  /\ UNCHANGED bot

\* The tool passes its soft timeout, or the turn is cancelled: it runs on alone.
Detach(t) ==
  /\ attached[t] /\ state[t] \in {"queued", "holding"}
  /\ attached' = [attached EXCEPT ![t] = FALSE]
  /\ UNCHANGED <<state, bot, parent, token, locked, waiters, owner, waiting>>

\* The lock was released and t is at the head of its queue: its coroutine
\* resumes, drops the edge and becomes the owner.
Wake(t) ==
  LET b == bot[t]
  IN /\ state[t] = "queued"
     /\ ~locked[b] /\ Head(waiters[b]) = t
     /\ Take(t, b, token[t])
     /\ waiters' = [waiters EXCEPT ![b] = Tail(@)]
     /\ waiting' = WithoutEdge(token[t], b)
     /\ UNCHANGED <<bot, parent, token, attached>>

\* MUTANT of CancelQueued: the finally of the holder runs for a waiter too.
CancelQueuedReleasing(t) ==
  LET b == bot[t]
  IN /\ state[t] = "queued"
     /\ state' = [state EXCEPT ![t] = "done"]
     /\ \E i \in DOMAIN waiters[b] :
          /\ waiters[b][i] = t
          /\ waiters' = [waiters EXCEPT ![b] = RemoveAt(@, i)]
     /\ waiting' = WithoutEdge(token[t], b)
     /\ locked' = [locked EXCEPT ![b] = FALSE]
     /\ owner' = [owner EXCEPT ![b] = NoTask]
     /\ UNCHANGED <<bot, parent, token, attached>>

\* Cancellation while queued drops only this request: its place in the queue,
\* and its edge.
CancelQueued(t) ==
  LET b == bot[t]
  IN /\ state[t] = "queued"
     /\ state' = [state EXCEPT ![t] = "done"]
     /\ \E i \in DOMAIN waiters[b] :
          /\ waiters[b][i] = t
          /\ waiters' = [waiters EXCEPT ![b] = RemoveAt(@, i)]
     /\ waiting' = WithoutEdge(token[t], b)
     /\ UNCHANGED <<bot, parent, token, attached, locked, owner>>

Awaited(t) == {c \in Tasks : /\ parent[c] = t /\ attached[c]
                             /\ state[c] \in {"queued", "holding"}}

\* MUTANT of Release: the owner is not reset.
ReleaseKeepingOwner(t) ==
  /\ state[t] = "holding"
  /\ Awaited(t) = {}
  /\ state' = [state EXCEPT ![t] = "done"]
  /\ locked' = [locked EXCEPT ![bot[t]] = FALSE]
  /\ UNCHANGED <<bot, parent, token, attached, owner, waiters, waiting>>

\* The turn ends, however it ends: the lease is released.
Release(t) ==
  LET b == bot[t]
  IN /\ state[t] = "holding"
     /\ Awaited(t) = {}
     /\ state' = [state EXCEPT ![t] = "done"]
     /\ owner' = [owner EXCEPT ![b] = NoTask]
     /\ locked' = [locked EXCEPT ![b] = FALSE]
     /\ UNCHANGED <<bot, parent, token, attached, waiters, waiting>>

Next ==
  \E t \in Tasks :
    \/ RequestTurn(t) \/ SkipBusy(t)
    \/ \E p \in Tasks : RequestNested(t, p)
    \/ Detach(t) \/ Wake(t) \/ CancelQueued(t) \/ Release(t)

\* A woken coroutine runs, and a turn with nothing left to await ends (the
\* model and the tools have timeouts); nothing is cancelled by obligation.
Fairness == \A t \in Tasks : WF_vars(Wake(t)) /\ WF_vars(Release(t))

Spec == Init /\ [][Next]_vars /\ Fairness

-----------------------------------------------------------------------------
(* Properties                                                              *)

\* Every variable has its type.
TypeOK ==
  /\ state \in [Tasks -> {"new", "queued", "holding", "done"}]
  /\ bot \in [Tasks -> Bots]
  /\ parent \in [Tasks -> Tasks \cup {NoTask}]
  /\ token \in [Tasks -> Tasks]
  /\ attached \in [Tasks -> BOOLEAN]
  /\ locked \in [Bots -> BOOLEAN]
  /\ waiters \in [Bots -> Seq(Tasks)]
  /\ owner \in [Bots -> Tasks \cup {NoTask}]
  /\ waiting \in [Tasks -> [Bots -> Nat]]

Holders(b) == {t \in Tasks : state[t] = "holding" /\ bot[t] = b}

\* One bot, one turn: whatever is queued, cancelled, woken and released in the
\* meantime, two turns never hold the lease of one bot.
OneTurnPerBot == \A s, t \in Tasks : \A b \in Bots : {s, t} \subseteq Holders(b) => s = t

\* The lease's owner is the owner of the turn that holds it, and there is none
\* while the lock is between its old holder and the next: holds(), which lets a
\* turn reuse its lease, and the cycle search both rely on it.
OwnerIsHolder ==
  \A b \in Bots :
    /\ locked[b] <=> Holders(b) # {}
    /\ \A t \in Holders(b) : owner[b] = token[t]
    /\ Holders(b) = {} => owner[b] = NoTask

\* The counted edges are the queued requests: parallel requests of one owner
\* keep theirs when a sibling is granted or cancelled, and none is left behind.
EdgesAreWaiters ==
  \A o \in Tasks : \A b \in Bots :
    waiting[o][b] =
      Cardinality({t \in Tasks : state[t] = "queued" /\ token[t] = o /\ bot[t] = b})

\* Who holds and who waits is what the leases say.
BookIsExact == OwnerIsHolder /\ EdgesAreWaiters

\* The turns whose end t waits for: the holder of the bot it is queued for, or
\* the tools it awaits.
WaitsFor(t) ==
  CASE state[t] = "queued" -> Holders(bot[t])
    [] state[t] = "holding" -> Awaited(t)
    [] OTHER -> {}

\* Turns never wait for one another in a circle: every non-empty set of waiting
\* turns has one that waits for something outside the set.
NoDeadlock ==
  \A S \in SUBSET {t \in Tasks : state[t] \in {"queued", "holding"}} :
    S # {} => \E t \in S : WaitsFor(t) \cap S = {}

\* Every queued request is granted, unless it is cancelled: the cycle search
\* refuses enough, and the queue is fair.
QueuedIsServed == \A t \in Tasks : (state[t] = "queued") ~> (state[t] # "queued")
===============================================================================

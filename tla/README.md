# Thyca: TLA+ models and proofs

Thyca is a personal assistant: one Python process that runs a *team* of bots, each with its own
persona, memory and work window, talks to them through a local HTTP server and a web page, and keeps
their conversations in a SQLite store. What is hard in it is not the arithmetic: it is that an HTTP
server's threads, one asyncio event loop, a scheduler, background sweeps and sometimes a second
process read and write the same rooms, leases and files, and that many of the operations are spread
over several transactions, awaits or files.

This directory holds TLA+ modules that model those parts, the TLC configurations that check them on
small instances, and TLAPS proofs. Paths below are relative to `src/thyca/`.

    tlc -workers 2 -config Store.cfg MCConversationStoreRefinement   # one of the runs below
    tlapm ConversationStoreProofs.tla                                # all proofs of a module

## 1. Inventory

For each part: its state; its operations; with whom it interacts; what is hard; what makes it correct.
"→ X" names the module that models it.

**Conversation store: rows, pages, compaction** (`conversations/store/agent.py`, `admin.py`,
`database.py`, `read_adapter.py`, `write_adapter.py`) → `ConversationStore`.
State: the SQLite tables `conversations` (lifecycle, generation, two high-waters, metadata) and
`messages` (seq, logical_seq, payload, created_at). Operations: create_group, append (by a bot, by the
server), metadata, read a page, assemble_history, compact_through_seq, purge_before, delete.
Called by every turn, the HTTP threads, the sweep and the retention job. Each operation is one
transaction under a file lock, but compaction releases the lock while a model summarizes, and a
history is read page by page. Correct when: keys never collide and a door is never found corrupt;
compaction loses, repeats and reorders nothing; what assemble_history returns is the conversation at
one moment; a cursor never dangles silently.

**Conversation store: lifecycle** (`conversations/store/lifecycle.py`, `rootfs.py`, `runtime.py`) →
`StoreLifecycle`. State: the lock file, marker files and their temporaries, the database's root_state
and the rows of the DMs. Operations: ensure_runtime_store, initialize_root, bootstrap_dm, audit_root,
delete of a DM. Several processes start at once, die between any two steps, and the last COMMIT may
raise although it is durable. Correct when: what a call reported ready is ready; nothing half made is
ever adopted; ready is for ever; no deadlock between the two locks.

**Door metadata and naming** (`app/naming.py`, `conversations/store/turn_pipeline.py`,
`conversations/runtime/store.py`, `title.py`, part of `app/conversation_admin`) → `DoorNaming`.
State: title, title_source, naming_attempted, participants: one JSON column. The naming step of a turn
runs on the event loop while renames and roster edits arrive on HTTP threads. Correct when: a title is
asked of the model once, and the user's title is not overwritten.

**Workspace leases** (`bots/workspace.py`, `app/workspace_turns.py`) → `WorkspaceLease`.
State: per bot an asyncio.Lock with its owner; the counted wait-for edges. Operations: lease, with
nested requests of a turn's tools, cancellation, release. Called by user turns, scheduled turns,
agent-to-agent deliveries, wakes. Correct when: one bot runs one turn; no circle of waiting turns;
nobody queued is forgotten.

**Turn claims and event hub** (`serve/turn_state.py`, `app/loop_turns.py`, `app/chat_app.py`,
`app/workspace_turns.py`) → `TurnClaims`. State: the registry of turns and compactions, a job per turn
(task, cancel flag, future), a replaying hub per turn. HTTP threads claim, wait, publish the end and
release; the loop runs the turn; cancel, follow, compact, delete and the pruning of blank rooms arrive on
other threads. Correct when: a window has one claimant and keeps its door; a cancel that comes before the task is
spawned is not lost, and one that comes late hits nothing else; a subscriber gets each item once and the end.

**Private follow-ups and consent** (`bots/private_followups.py`, `app/private_followups.py`,
`app/bot_posting`, two tools of `bots/channel_tools.py`) → `PrivateFollowup`. State: per bot a JSON file of pendings
(status, proposal and its revision, approval, idempotency keys), and the rows of the DM and of the origin room.
In a group the bot asks something that it then discusses in its DM; there it may propose a redacted text,
which reaches the group only when the user presses a button of the card that shows it. Approving is three
transactions: stage, post, finalize. All of it runs on one event loop, but the REPL and the server may be two
processes on one root. Correct when: what is posted is what was approved, once, whatever crashes and is retried;
an ended pending stays ended; and the file can be loaded again.

**Bot bus and agent-to-agent delivery** (`bots/bus.py`, `artifacts.py`, `exchanges.py`, `bots/tools/`,
`app/a2a_delivery`) → `BotBus`. State: mailboxes, hop budgets, a bounded log of what is not yet a row, the kept bodies.
A tool of the sender's turn sends and delivers; the recipient may begin a turn of its own and read its mailbox
while the delivery waits for its lease. Correct when: an envelope is the text of one turn and the mailbox context of one, in
order; a room shows whole exchanges; a DM's mail stays in the DM.

**Live status** (`bots/status.py`) → `AgentStatus`. State: a record per running turn, a latch per bot and room. Events
come from the loop, messages, deletions and listings from HTTP threads. Correct when: the cards show what runs, and a question
to the user is shown until it is answered.

**Room context of a turn** (`bots/room_context.py`, `bots/runtime.py`) → `RoomTurn`. State: per bot a cursor with a count and a
fingerprint, and the one-shot recall after a compaction. Correct when: a cursor passes no row that its bot did not read, and
nothing is read twice without a reason.

**Journal of a workspace** (`bots/timeline.py`, with `CanonicalSessionStore`) → `WorkspaceTimeline`. State: one append-only
file per bot from which each window's transcript is projected; handles that remember its size and last seq. Correct when: the file
stays readable, and its projection is the transcript.

**Session, agent loop and session compaction** (`agents/`, `conversations/runtime/`) → `SessionLoop`. State: the transcript, the
rows in memory of the running turn, its stage, the compactions that await a summary. A tool outlives its turn, and a summary comes back
to a transcript that has changed. Correct when: compactions forget and repeat no row; every request pairs calls with results;
no session is too long to go on.

**Tasks and work items in the prompt** (`bots/tasks.py`, `work_items.py`, `workspace_context.py`) → `BotTasks`. No state: a derivation
from the transcript, the queued mail and the follow-up. Correct when: it shows exactly what is open and, of the mail, what the turn may read, once, and only where it may.

**Workspace registry** (`bots/workspace_store.py`, and its callers in `bots/runtime.py` and `bots/channel_tools.py`) →
`WorkspaceStore`. State: per bot a JSON file with a binding per window and the owners of its tasks; every update is under the file's
lock, but a turn makes several. Correct when: a window keeps its stream, and a task its owner.

**Scheduler and background jobs** (`bots/scheduler.py`, `serve/server.py`, `app/background_jobs`) → `Housekeeping`. State: the pass of
the scheduler thread, what was reviewed when. Due runs meet busy leases; the sweep awaits a model between a copy of a
transcript and its compaction. Correct when: nothing is compacted before the extractor had the tail of the transcript, no minute fires twice, and no
profile is taken for reviewed that could have been shown and was not.

**Configuration, models and bots** (`configs/`, `serve/config_api.py`, `bots/registry.py`, `settings.py`) → `TeamConfig`. State:
config.json, the bots' settings and cards, two kinds of lock. Writers are threads and processes, and die between two files. Correct when: a
model that is referred to is registered, a conditional write is on top of what it was based on, no deleted bot comes back.

**Tool gateway** (`tools/gateway/`, `tools/task_store.py`, `tools/builtin/bash.py`, `tools/registry.py`) → `ToolGateway`. State: execution
records, stored results, resource locks, handlers and processes that outlive their call. Correct when: a resource has one user, an id that was given out leads
somewhere, and a shutdown finds every process but those that are being spawned for nobody.

**MCP servers** (`tools/mcp.py`, `app/toolchain.py`, `_sync_mcp` of `app/chat_app.py`) → `McpServers`. State: the live servers and the
registered names; every turn syncs them, step by step, under one lock, while tools of other turns are called. Correct when: between syncs
a name leads to the server that has it, and none is missing.

**Memories** (`memories/`) → `MemoryNotebook`. State: daily files and a SQLite index that is made from them when a mutation is
refreshed. Three paths of reading, each with its own code for who may read what. Correct when: they agree, and what is forgotten comes out of none.

**Conversation administration** (`app/conversation_admin`) has no state of its own: its operations are in `DoorNaming`, `TurnClaims`, `SessionLoop` and `AgentStatus`.

Not modelled: *language model clients* (encoders and stream parsers of external services: pure I/O); *HTTP routing, bridge and traces*
(payload shapes; what they share is in `turn_state.py` and the stores, which are modelled); *core types* (values without operations
that change state); *skills and seeds* (text that is copied and read); *command line and onboarding* (terminal I/O and
wiring); the *web page* (it shows the server's state).

## 2. Plan

Done, in the order in which it was built:

| module | composes / is composed in | abstract specification / theorem |
|---|---|---|
| `ConversationStore` | `ConversationStoreRefinement` | `ConversationLog`; all safety proved |
| `StoreLifecycle` | | all safety proved |
| `WorkspaceLease` | | all safety proved |
| `DoorNaming` | `MCServices` | all safety proved |
| `TurnClaims` | | all safety proved; what a prune may do is proved as `OnlyStalePruneTakes` |
| `PrivateFollowup` | | all safety proved |
| `BotBus` | `BotBusRefinement`, `MCBotRuntime` | `BotMail`; all safety proved |
| `WorkspaceTimeline` | `MCBotRuntime` | all safety proved for the handles of one process |
| `RoomTurn` | `MCBotRuntime` | all safety proved |
| `SessionLoop` | `MCBotRuntime` | all safety proved |
| `BotTasks` | `MCBotRuntime` | all safety proved |
| `AgentStatus`, `WorkspaceStore` | `MCBotRuntime` | all safety proved |
| `Housekeeping`, `TeamConfig`, `ToolGateway`, `McpServers`, `MemoryNotebook` | `MCServices` | all safety proved |

What is left, most important first:

1. An abstract transcript that `WorkspaceTimeline` and `SessionLoop` implement.
2. Two processes that rewrite one window of the journal; the shutdown of the event loop with turns in flight; the
   bridge queue of the request that starts a turn (`serve/bridge.py`).

Modules are written with their parameters as CONSTANTS and without RECURSIVE operators, so that what TLC
finds true can be proved.

## 3. What is modelled

### ConversationStore

One action per operation; an operation that holds the store lock for a single transaction is a single
step. `compact_through_seq` is `CompactSnapshot` then `CompactCommit` (or `CompactConflict`,
`SummarizeFails`), because the lock is released while the summarizer runs; `assemble_history` is
`StartAssembly` and one `ReadPage`, `ReadResync` or `ReadRefused` a page.

| code | model |
|---|---|
| `conversations` row | `lifecycle`, `participants`, `generation`, `event_high_water`, `logical_high_water` |
| `messages` rows | `messages[d]`: records of seq, logical_seq, created_at, covers |
| payload | `covers`, the set of the appended messages that the row stands for |
| `_ensure_door_ready` | `DoorReady`, `DoorReadyFor` (membership in the same transaction), `Sound` |
| cursor of `read` | `started`, `generation`, `after` of an assembly |
| caller of `compact_through_seq` between its phases | `compaction[c]` |

`appended` and `dropped` are history variables: what was ever appended, and what purge and delete took
away on purpose. The payload is abstracted because the properties are about which messages survive, not
about their text. A group's identifier is a uuid4, so a deleted door does not come back under its name.

`ConversationLog` is the abstract specification: a conversation is a set of posted messages, minus those
forgotten on purpose, and a bot that asks gets all of it as of one moment at which it takes part.
`ConversationStoreRefinement` gives the mapping: messages are named by the seq they were appended under,
members are the participants, posted and forgotten are the two history variables, and the answer of a
reader is what its collected rows cover once it is done.

### StoreLifecycle

Files and rows are `lock_file`, `marker_dir`, `root_temp`, `root_marker`, `db`, `dm_temp`, `dm_marker`,
`dm_row`; a process is a program counter with the id it works for and what it last reported. Each file
operation or commit is a step of its own, because a crash (`Interrupted`) may fall between any two; a
marker is a temporary file and a rename. `CommitRoot` and `CommitDm` have the branch in which COMMIT
raises, is durable or not, and is resolved by reading marker and row. A process's locks follow from where
its program counter is (`Admitted`, `Exclusive`), which is how the kernel's flock behaves: it is released
when the process stops. `Init` includes a root whose database has been removed.

### WorkspaceLease

A task is one `async with registry.lease(bot)`. What a coroutine does between two awaits is one action:
`Acquire` is the code up to the first real wait (a conflict, the free lock, or a place in the queue with an
edge), `Wake` is what runs when the lock passes on, `CancelQueued` the cancellation handler, `Release` the
`finally`. `Free` is what asyncio.Lock does: it does not overtake waiters. `RequestNested` is an
agent-to-agent delivery from a tool; `Detach` is a tool that passed its soft timeout, or whose turn was
cancelled, and runs on under its turn's owner token, also after the turn has ended. `Awaited` is
asyncio.gather over the tools of one reply. The transitive search `_wait_cycle` is stated by the closed
sets it must avoid rather than by its loop.

### DoorNaming

The naming step of a turn is `Load`, `Check`, `MarkRead`, `MarkWrite`, `Propose`, `StoreTitleIfMissing`, one per
transaction or await; `mark_naming_attempted` is two, since it reads and writes in two transactions.
`Rename` mutates the column inside one transaction; `set_room_bots` is `EditRead` then `EditWrite`. `Crash`
stops everything in flight.

### TurnClaims

A request of the HTTP server is a thread with a place (`turnAt`, `cancelAt`, `followAt`, `compactAt`,
`pruneAt`); what it does under one lock is one action. The body of a turn is a coroutine of the event loop
(`task`); what it does between two awaits is one action, and so is a callback of the loop.

| code | model |
|---|---|
| `TurnState._turns`, `_compacts` | `turns` (door to turn), `compacts` |
| `_TurnJob` | `attached`, `cancel`, `task`, `cfut`; `kill` is a posted `task.cancel` |
| `TurnHub` | `items`, `closed`, `subs`; `received` is what a follower's queue was ever given |
| `_claim_lock` | held for more than one action only by a turn between `Release` and `Close` and by a compaction between `LoadToCompact` and `BeginCompact` (`ClaimLockFree`) |
| the shared manager's lock | held through a prune (`ManagerLockFree`) |
| public rows of a room | `rows`: the user's row and the reply of a turn |

A turn is `Load`, `Claim`, `Submit`, then on the loop `Spawn`, `Enter`, `RecordUser`, `Emit`, `RecordReply`,
`Return`, then `Done` and on its thread again `PublishTerminal`, `Release`, `Close`; it may `Fail` at
any await, and be refused at `Load` and `Claim`. `RequestCancel` flags the job and posts the kill;
`CancelTask` is the posted callback, which may run long after. `StartDelivery` is a tool that asks another
bot; that delivery publishes through the turn's sink, and goes on when the turn ends. `_create_group_session` is
`Snapshot`, `BeginPrune`, then for each listed room `LoadToPrune` and `PruneBlank`, `EndPrune`, `Create`.

### PrivateFollowup

One bot, one group room, its DM. Per process there is one turn of the bot (`turn`, with the span that is part of
the idempotency keys) and one call (`call`): a call runs on the event loop without an await and under the
bot's lease, but between two of its transactions another process may act, or this one die (`Crash`) or the call raise (`Fail`).

| code | model |
|---|---|
| `private_followups.json` | `file`, the pendings in the order of creation |
| `Pending` | its status, answer, proposal and revision, outcome, approved revision and the recorded `operations` |
| rows of the DM with `pfq_marker` or a card's `private_followup` | `dm` (kinds question and card), and the user's rows |
| rows of kind `private_resume` | `room`, which is empty once the room is deleted (`origin` false) |
| `private_delivery.lock` | `DeliveryLockFree`: a consent call holds it from `Choose` to its end |

`ask_private` is `Ask`, `AskInDm`, `MarkWaiting`; the user's message is `UserTurn`, `Consume`, `Receive`; `private_followup` is
`Resume` and `PostCard`, or `Settle`, or `ToolCancel`; a button is `Choose`, then `Stage`, `Post`, `Finalize`, or `KeepPrivate`, or
`CardCancel`; the stop button is `CancelWindow`. `approvals` is a history variable: the text of each card
whose approve button was pressed, as the user read it.

### BotBus

An envelope is its position in `mail`. What runs on the event loop between two awaits is one action, so `bus.take`, which empties and refills a
mailbox without its lock, is never seen half-way.

| code | model |
|---|---|
| `_mailboxes`, `_log` | `box[b]`, `log` (the envelopes not yet recorded in their room; `trimmed` is what its bound dropped) |
| `bot_send`, `bot_delegate`, the hop budget | `Send`, `MaxHops` envelopes on a trace |
| `deliver_envelope_claimed` | `Deliver`, then `FinishDelivery`, or `Refuse`, or `TurnFails` |
| `_prepend_mailbox` | `FreezeMailbox`, which takes what `CanReadOrigin` allows |
| `record_bus_events`, result rows | `BusRows`, `FinishTurn`, `FinishDelivery` |
| `BusArtifactStore` | `Artifacts`, `Fetch` |

`BotMail` is the abstract specification, without turns, rooms, traces and logs: a letter joins the queue of the bot it is for, is given to it to answer, one at a
time, or refused, and comes to one end. `BotBusRefinement` gives the mapping: a queue is what the mailbox holds, the letter that a bot has to answer is the
text of its turn, `seen` is what the history `handled` counts as mailbox context. The refinement adds to `BusSafe` that what the sender is told is
final: no turn answers an envelope that was refused, or that another turn answers. A turn of the recipient's own shows only as `Read`.

### AgentStatus, RoomTurn, BotTasks

`AgentStatus`: each method of `AgentStatusTracker` runs under its lock and is one action; a span of a turn is a number, invocations may share a
public id (`CallName`); a listing reads the cards first (`ReadRoster`) and drops what has none afterwards (`Retain`). A turn ends in `FinishSpan`, in
whichever layer, or by `AbandonSpan`: between two parts of its setup that finish it when they fail, `resolve_bot_provider` may raise, and its record stays.

`RoomTurn`: a row is its author and a number that stands for its fingerprint. A turn is `LoadRoom` (or `LoadRetry`, `LoadDelivery`), `AppendUserRow`,
`Compose`, then `TurnDone`, which writes the cursor that was computed when the room was read, or `TurnRaises`. `Post` is an HTTP thread. `seen`, `moved` and
`recalls` are history variables. A retry is answered from the room as it is: `truncate_to_last_user` cuts the bot's own session, never the rows of the room.

`BotTasks`: `script` is the projected transcript and `posted` the queued mail, of which a turn is given what is relevant to it (`RelevantAt`: the rooms that its memory view may read, the peers whose cards load); `CallTasks` and `WithMail` are the two passes of `derive_open_tasks`, over the rows and over the envelopes, checked against
`StillOpen`, which says for one call alone whether something later has closed it. Names of a task are the id of its call and the span of its result. A `task_open` is
acknowledged, or fails, or is refused in words (`AckTaskOpen`); a refusal is a result like any other, and its call opens a task.

### WorkspaceTimeline

A handle is a live object with the size and the seq it saw. An append is two steps, `Record` (a partial line is in the file, the lock is
held) and `WriteDone`, or `WriteFails`, or `Crash`; opening is two, `OpenScan` and `OpenStat`, as in the constructor.
Methods of handles of one process do not overlap (`NoMethodRuns`). `truth` is what each window must read, told by the operations alone.

### SessionLoop

`view` is the stored transcript and `mem` the rows of the running turn. A turn is `BeginLoop`, `PreCompact`, `Assemble`, then rounds of `Ask`, `CallTools`, `Observe`,
until `Answered`, a limit, `LoopRaises`, `CancelLoop` or a crash, which may also fall between the appends of a round (`CrashInObserve`). A compaction
is a job: planned from `mem`, and landed by `SummaryBack` when the summary comes, if `StillMatches`, else the rule-based excerpt of whatever is
there. The compact tool's job may come back in a later turn. Weights stand for tokens: a tool result is 2 until shrunk, any other row 1. `Estimate`, which the guard
of a request compares with the limit, counts the budget signal (`Signal`) as well, which the loop adds to the prompt after the plan.

### WorkspaceStore

An update of a registry is a step; what a turn does is `Lease` (bind the window if it resolves), `EnsureSession`, `BindIfChanged`, and `EndTurn` (the cursor). `internal_session` is
the two in the middle. `RememberNewTask` and `RecordTaskOwner` are two stores. Looking up an owner is `AskOwner`, one `ReadOther` per
registry, `ReadMemories`; `Denies` is a registry that cannot be read.

### Housekeeping

`tick` is the scheduler thread: `Wake`, the sweep (`SweepSubmits`, `SweepBegins` under the lease, `SweepFlushes` when the model has answered, failed or talked nonsense, `SweepTrims`), the review of
profiles (`SignProfiles`, `ReadProfiles`, `ReviewProfiles`), the due turns (`Fire`, `SkipBot`), `FallAsleep`. `Passes` is the clock. The rows of a window are `trimmed[b] + 1 .. appended[b]`; the extractor
is given the last `TailRows` of them, and `handed` records which. A file that cannot be read counts as an empty profile (`Found`). Cron fields are sets of ranges with
steps; `Due` combines day of month and day of week as the code does.

### TeamConfig

A writer is a request with a program counter `op[w]`: it takes the coordination lock, then the config file or the bot's lock, and
may leave at any step (`Leaves`: a timeout, a refusal or a death). `card` tells a legacy card with a model from a plain one. `unlisted` is the
defaults that were never registered, which the checks let pass. `bared` is the bots whose old card counts again
because a delete took the settings first.

### ToolGateway

A call is `Submit`, `Granted` its resource lock, for bash `Spawned` (until then the spawn is awaited and the process is in no table) and `ProcessEnds`, `HandlerEnds`, and one of `AnswerResult`, `SoftTimeout`, `CancelCall`. `record`, `stored` and `known` are
three tables that outlive the call and each other. `Kill` and its awaited settle (`Killed`) are two steps; and so are `Shutdown`, which cancels what it finds and kills what is known, and `ShutdownEnds`; `late` are the calls that come in between.

### McpServers

`sync[t]` is the turn's snapshot of the configuration and how far its sync is: `BeginSync`, `StopServer` one by one, `StartServer` one by one, `Register`. A process in `offered` may have
died (`up`), which the registry does not know. Two servers may generate one name.

### MemoryNotebook

An entry is a record of owner, origin, kind, day and expiry. A mutation is the rewrite of a file, then `Purge` and `Reindex` of the refresh,
which may fail (`RefreshFails`) or be cut by a restart. `SearchFinds`, `PromptShows`, `TaskRows` and `Gets` are the SQL clause, the heading scan, the catalog and
memory_get, by session or by leaf, each translated from its own code: the checks are `Readable`, and `Renews` is the renewal without which the get of an owner fails. `PathsAgree` compares
them; `Orphans` are what a failed or unfinished mutation has left in the index.

## 4. The runs

Every passing run finishes with all reachable states explored. For every property of a passing run there
is a *mutant*: a plausible bug in one operator of the model (marked `MUTANT` in the modules) with which
TLC finds the property violated in that same configuration, so no property holds merely because the instance is too small.

| run | question and properties | bounds |
|---|---|---|
| `Store.cfg` | Is a history that is read page by page a snapshot, do rows survive two concurrent compactions once and in order, and is the store a `ConversationLog` to its readers? `NothingLost`, `RowsAreOrdered`, `SeqNeverReused`, `AppendOnlyGeneration`, `AssembledIsSnapshot`, `ImplementsLog` | 1 door, 2 bots, pages of 1 row, 2 resyncs. *Reading*: a reader and a compactor, 4 seqs: a page boundary between any two rows, a compaction with rows on both sides, a membership that is lost. *Compacting*: 2 compactors, 5 seqs, 2 ticks: three messages and two summaries is the smallest case in which a summary is compacted again |
| `Lifecycle.cfg` | Do the handshakes hold with three processes dying anywhere, and do calls end? `HandshakeHolds`, `SettledIsForever`, `CallsReturn` | 3 processes, 2 instances, 2 attempts, 1 bot, no symmetry: one process half way, one racing it, one that comes after |
| `Lease.cfg` | Is a bot leased to one turn, with exact edges and no circle, and is a queued request served? `OneTurnPerBot`, `BookIsExact`, `NoDeadlock`, `QueuedIsServed` | 4 tasks, 3 bots: two turns that ask for each other's bot, or one with two parallel tools and a rival; longer circles are the theorem's |
| `TurnOwners.cfg` | Does a held door have one owner, is a completed turn on record, and does a cancelled turn end? `OneOwnerPerDoor`, `CompletedTurnIsRecorded`, `CancelLands` | 1 door, 2 turns, 2 compactions, 1 cancel: every pair of rivals for the door, and a cancel request that may meet either turn |
| `TurnFollow.cfg` | Does a follower miss nothing, does a cancel hit its turn, and which turns can lose their door to a prune? `FollowersMissNothing`, `OneEnding`, `CancelHitsItsTurn`, `OnlyStalePruneTakes` | 1 door, 2 turns one after the other, 1 follower, 1 cancel, 1 prune, 1 event a turn: a late cancel, follower or snapshot meets the next turn |
| `Followup.cfg` | Is the approved text, and nothing else, shared once, and does the file stay loadable? `Loadable`, `OneRowPerRevision`, `PostedIsApproved`, `StatusIsEarned` (`ResumedIsPosted` and `WaitingIsAsked`), `TerminalIsFinal` | 2 processes, 2 texts, 2 pendings, 2 revisions each, 3 turns, 4 DM rows: the second revision is proposed, and the second pending opened, while a call of the other process holds the first |
| `BotRuntime.cfg` | Do the seven components of a bot's turn each hold, and is the bus a `BotMail`? `BusSafe`, `StatusHonest`, `RoomTurnSafe`, `TimelineSafe`, `SessionSafe`, `TasksAreHonest`, `RegistrySafe`, `ImplementsMail` | below |
| `Services.cfg` | Do the six components that serve the bots each hold? `HousekeepingSafe`, `TeamConfigSafe`, `GatewayHolds`, `ServersHold`, `NotebookHolds`, `OneAttempt` | below |
| `NamingRename.cfg`, `TurnPruneRace.cfg`, `TimelineScanRace.cfg`, `NotebookMidnight.cfg` | expected violations, section 6 | 1 bot and 1 turn; 1 turn and 1 prune; 2 handles of two processes; as in `Services.cfg` |

**Side by side.** `Store.cfg`, `BotRuntime.cfg` and `Services.cfg` explore several instances in one run: a variable (`scenario`, `part`) chosen at the
start says which one the behaviour is of, and the others stay in their one initial state. Nothing is lost: their states have nothing in common, so the reachable
states of the run are the union.

| component | its property's parts | its bounds, and why they are enough |
|---|---|---|
| `BotBus` | `HandledOnce`, `MailboxInOrder`, `ThreadIsWhole`, `DmIsPrivate`, and the refinement | 2 bots, a group and a DM, 2 envelopes, 2 hops, a log of 1 and 1 kept body: the log overflows, the recipient takes the mailbox while a delivery waits, mail crosses between group and DM |
| `AgentStatus` | `TurnsAreShown`, `QuestionsWait` | 1 bot in 2 rooms, 2 turns, 2 calls under one public id, a card that comes and goes: the second turn may follow one that was abandoned, in its room or in the other |
| `RoomTurn` | `CursorSkipsNothing`, `NothingIsReadTwice`, `RecallIsOwed` | a roster of 2, 4 rows, 1 failure: a reply of the other and a post on both sides of a turn, a delivery, and a retry with and without rows after the user's; only one of the bots owes recalls (`OneRecall`), since a recall is a matter of one bot alone |
| `WorkspaceTimeline` | `SeqsAreGapless`, `ProjectionIsTruth`, `NothingBehindATear` | 2 handles of one process, 2 windows, 3 events, 1 tear: a stale handle writes, a reset of one window stands between the messages of the two. (Handles of two processes: section 6) |
| `SessionLoop` | `NothingForgotten`, `RequestsArePaired`, `NoDeadZone` | 3 turns, 2 rounds, 2 calls a round, 2 summaries, 1 torn round: a marker is compacted again, a late summary meets the next turn, a turn ends at the limit with and without a piece to omit, and with a transcript that fits without the budget signal (weight 1, of a context of 5) and not with it |
| `BotTasks` | `IndexIsExact`, `MailIsShown`, `ShownOnce`, `FollowupStaysPrivate` | 2 calls, 2 peers, 2 rooms that mail comes from, 2 envelopes, one of which is from outside, 1 event of another tool, 1 compaction; every set of rooms the turn may read and of cards that load |
| `WorkspaceStore` | `StreamIsStable`, `RecordWins` | 2 bots, 2 turns at once, 1 window that changes or goes, 1 task, 2 entries about it, 1 damaged file |
| `Housekeeping` | `OfferedFirst`, `FiresOncePerMinute`, `ReviewedIsShown` | 1 bot with a window, 3 rows, of which the extractor is given 2, a profile that is absent or there, and unreadable at any reading, 4 half minutes, over a midnight at which the schedule is due: a tick outlasts its minute, a turn or an edit slips into every gap of a pass |
| `TeamConfig` | `RefsAreRegistered`, `ConditionalIsOnTop`, `GoneIsGone` | 2 writers, 3 requests of any kinds, 2 models, 1 bot: every triple of operations, from every configuration, and a third request after a torn one |
| `ToolGateway` | `ResourceIsExclusive`, `IdLeadsSomewhere`, `ProcessesAreKnown` | 3 calls: one of bash in the foreground or background, one of bash that waits for its lock, one that takes none; 1 record retained, 1 kill: an eviction while one is running and one waits for the lock, a cancel, a soft timeout, a kill or a shutdown while a shell is being spawned |
| `McpServers` | `RegistryMatchesServers`, `ServersMatchSnapshot` | 2 servers that share a name, 2 versions, 2 turns, 2 edits, 2 faults |
| `MemoryNotebook` | `PathsAgree`, `ForgottenIsGone`, `IndexIsFaithful` | 2 bots, a group and a DM, 2 entries, 3 days, an expiry of 2 days, a habit that takes 2 days, 1 fault: an entry expires in a file that is indexed |
| `DoorNaming` | `OneAttempt` | 2 bots, 2 edits at once, 3 turns: one that crashed or was refused and two that retry |

Bounds of the model, not of the code, are marked `bound:` where the constants are declared. Some are limits of the code made small, and are marked
by their names there: `MaxHops`, `LogMax`, `MaxArtifacts`, `MaxRounds`, `MaxListed`, `RetainCap`, `HabitDays`. Where symmetry is declared, the permuted
sets are not told apart by any definition (`Doors` are, by a CHOOSE for an idle
record, and are left out); runs with a liveness property declare none. Except in `Store.cfg` and `Lifecycle.cfg` deadlock is
not checked: when every request has ended, or every bound is used up, nothing more happens.

**Fairness.** `StoreLifecycle` assumes weak fairness of `Continue(p)`: a running process that is not
blocked on a lock goes on. flock gives no order to its waiters, so a process may be overtaken for ever;
`CallsReturn` therefore promises the end of calls only once no new call comes, which is what the absence of
a deadlock means. `WorkspaceLease` assumes weak fairness of `Wake` (the event loop runs a ready coroutine)
and of `Release` (a turn with nothing left to await ends: model calls and tools have timeouts). Nothing is
assumed of cancellation or of new requests. asyncio.Lock's queue is first come, first served and needs no
strong fairness. `TurnClaims` assumes weak fairness of what the event loop owes (`Spawn`, `CancelTask`, `Done`: it
runs the callbacks posted to it), of a thread's own next step (`Submit`, `PublishTerminal`, `Close`), and of the steps
that end a holding of the claim lock (`Close`, `BeginCompact`), with `Release`, which waits for that lock:
the only rivals are finitely many requests, each of which holds it once. Nothing is assumed of the turn's own
work: `CancelLands` holds although the provider or a tool may never answer. The other specifications state no fairness: their properties are safety.

## 5. The proofs

TLAPS proves, for all values of the constants (any number of doors, bots, processes, readers and compactors, any page
size and bounds; any finite set of requests), the following. The assumptions are the named ones of the modules and nothing else; they
say what kinds of values the constants are, that there is a bot (`BotsAssumption`), that ids of
executions are 1, 2, ... (`ToolGatewayAssumption`), that a reply uses a call id once and that the context has room for a marker and the text of the user (`SessionLoopAssumption`), and that a value which stands for "none" is none of the others. TLC evaluates each in a run.

| proofs in | theorem | statement |
|---|---|---|
| `ConversationStoreProofs` | `TypeCorrect`, `RowsCorrect`, `RowsStayOrdered` | `TypeOK`, `NothingLost` and `RowsAreOrdered` are invariants |
| | `SeqsAreNeverReused`, `GenerationsAreAppendOnly`, `AssembledHistoryIsASnapshot` | the action properties `SeqNeverReused`, `AppendOnlyGeneration`, `AssembledIsSnapshot` |
| | `StoreImplementsLog` | `Spec => ImplementsLog`, the refinement of `ConversationLog` |
| `StoreLifecycleProofs` | `HandshakesHold` | `HandshakeHolds` is an invariant |
| | `WhatIsSettledStays` | the action property `SettledIsForever` |
| `WorkspaceProofs` | `LeaseTypeCorrect`, `LeasesAreExclusive`, `LeaseBookIsExact` | `TypeOK`, `OneTurnPerBot` and `BookIsExact` are invariants |
| | `TurnsNeverDeadlock` | `Spec => []NoDeadlock` |
| | `RegistryIsSafe` | `StoreSpec => []RegistrySafe` (`WorkspaceStore`) |
| | `StatusIsHonest` | `StatusSpec => []StatusHonest` (`AgentStatus`) |
| | `TheIndexIsHonest` | `TasksSpec => []TasksAreHonest` (`BotTasks`) |
| `TurnClaimsProofs` | `ClaimTypeCorrect`, `DoorsHaveOneOwner` | `TypeOK` and `OneOwnerPerDoor` are invariants |
| | `SubscribersMissNothing`, `HubsTellOneEnding` | `FollowersMissNothing` and `OneEnding` are invariants |
| | `CancelsHitTheirTurn` | `Spec => []CancelHitsItsTurn` |
| | `OnlyStalePrunesTakeDoors` | `Spec => []OnlyStalePruneTakes`, with any number of prunes |
| | `CompletedTurnsAreRecorded` | `CompletedTurnIsRecorded`, assuming `Prunes = {}`: what a prune may do is `OnlyStalePruneTakes` |
| `PrivateFollowupProofs` | `TypesHold`, `FileStaysLoadable` | `TypeOK` and `Loadable` are invariants |
| | `PostsOnce`, `NothingElseIsShared` | `OneRowPerRevision` and `PostedIsApproved` are invariants |
| | `StatusesAreEarned` | `StatusIsEarned` is an invariant |
| | `EndsAreFinal` | the action property `TerminalIsFinal` |
| `BotRuntimeProofs` | `MailIsSafe` | `BusSpec => []BusSafe` (`BotBus`) |
| | `BusImplementsMail` | `BusSpec => ImplementsMail`, the refinement of `BotMail` |
| | `JournalIsSafe` | `TimelineSpec => []TimelineSafe` (`WorkspaceTimeline`), assuming `OneProcess`: all handles live in one process. With two, the seqs may repeat (section 6) |
| | `CursorsAreSafe` | `RoomTurnSpec => []RoomTurnSafe` (`RoomTurn`) |
| | `SessionsAreSafe` | `SessionSpec => []SessionSafe` (`SessionLoop`) |
| `ServicesProofs` | `HousekeepingIsSafe` | `HousekeepingSpec => []HousekeepingSafe` |
| | `TeamTypesInvariant`, `TeamConfigIsSafe` | `TeamTypes` and `TeamConfigSafe` are invariants of `TeamSpec` |
| | `NotebookIsSound` | `NotebookSpec => []NotebookHolds` (`MemoryNotebook`) |
| | `NamingTypeCorrect`, `OneNamingCall` | `DoorNaming`: `TypeOK` and `OneAttempt` are invariants |
| | `GatewayIsSound` | `GatewaySpec => []GatewayHolds` (`ToolGateway`) |
| | `ServersAreAsConfigured` | `McpSpec => []ServersHold` (`McpServers`) |

Each proof has an inductive invariant of its own, which is stronger than what it is for. These are the arguments.

*The rows.* The three row invariants are not inductive by themselves: that a fresh row covers nothing that is
covered already, and is newer than everything, needs `HistoryBounded`, which says that no message was ever
appended under a seq above the event high-water, and that only what was appended was dropped. `RowsInv`
is the four together; `DoorInv` states it of one door's values, so that each action is an argument about one
door. `CompactCommit` is the interesting step: its guard `Unchanged` says that the rows up to `effective` are
still the prefix, hence that the union of what the removed rows covered is what the summary covers, and
that every other row lies after it.

*The assembly.* `AssemblyInv` says of a paging reader, through `Follows`: while its generation is still
the door's, what it has collected lists exactly the rows up to its cursor. Appends go after the logical
high-water and hence after the cursor; whatever removes rows raises the generation, so the next read is a
resync, which empties what was collected. At the last page the rest is empty and the whole is listed.

*The refinement.* `RefinementInv` joins the type, `RowsInv`, `AssemblyInv` and `SeqsBounded` (what is appended
lies in `1 .. MaxSeq`, the names of the abstract log). Then each action maps to a step of the log: appends to `Post`,
`Purge` to `Forget`, `Delete` to `Close`, the last `ReadPage` to `Fetch`, and compaction, earlier pages and resyncs to
stuttering.

*The handshakes.* `HandshakeInv` says of every process, by its program counter, what it has written so far (`RootAt`, `DmAt`), and
that no two are in the directory lock or in the lock file at once (`LocksAreExclusive`). Wherever a process is killed it leaves what its program counter said; the
handshakes themselves refuse to begin on such a remainder, so `Settles` needs no more than the invariant: the steps
that write a root's file are those of a founder, and there is one. Reading a ready root out of a database needs `DbHasFiles`: the file of the database never comes first.

*The leases.* `LeaseInv` adds to the types and the three invariants that a queued request has a place in its
queue (`Enqueued`: else the head that wakes could be nobody) and that an awaited tool belongs to a turn that
has begun and acts under that turn's owner (`Nested`). `EdgesAreWaiters` is part of it because an edge is only
ever subtracted for a request that was counted, which needs the set of requests to be finite.
Freedom from deadlock is then an argument about the one action that adds a wait, `Acquire` into a queue
(`QueuingClosesNoCircle`): that `WaitCycle` is false gives a set of owners closed under waiting, without the
owner that asks. In a set of turns that all wait inside the set, those whose owners lie in that closed set are
at least the holder of the bot asked for, and each of them waits for another of them: an older circle, which did not exist.

*The naming call.* `Attempt` follows the turn: on its way to the mark the attempt is unspent, when it calls
the row is marked and no call was made. It uses that a door has one turn at a time.

*The turns.* `ClaimInv` adds four parts to the types and `OneOwnerPerDoor`, each kept by lemmas of its own, since
few actions touch more than one. `HubInv` says who is subscribed: an open hub has exactly the followers that
have subscribed and not dropped, each with the whole log. `Phases` relates the thread of a turn to its task and its future:
the thread waits until the future is settled, the future is settled by a task that ended, and settled once. From it `EndingInv`
follows: the log gets its one terminal at `PublishTerminal`, and only a thread that is done has closed the
hub, so the terminal is not dropped by a closed hub. `CancelInv` follows a cancellation from the request through
the flag, the posted callback and the task to the future. `AtWork`, for which nothing may be pruned, says
that a turn in flight whose rows are written has its door and its rows: only `Delete` removes them, and it asks `Held`.

`OnlyStalePruneTakes` drops the assumption that nothing is pruned. `StaleInv` says why a turn at work may be without its door: some prune
is past its snapshot and does not have the door among those it keeps (`StaleFor`), and that prune goes on to
be so. `PruneBlank` is the one action that can take a door under a turn at work, and a prune keeps what was claimed at its snapshot.

*The follow-ups.* Every step is put in one form (`Step`): it leaves the file alone, adds a pending when none is
active, or changes one that has not ended into something `Lawful`; it leaves the DM and the room alone or appends a row. `StepKeepsInv`
then shows once that such a step keeps `FollowupInv`, and each action has a lemma that it is such a step. What carries
the argument from the card to the room is `Shown`: a card, or a call that is about to post one or to stage its approval,
has the text that the file proposes as long as the revision is the same, for a later proposal has another revision
and a withdrawn text does not return under the old one. So the text that `Stage` reads from the file under the
approved revision is the text of the card (`GoodCalls`).

*The configuration.* `TeamInv` adds to the types and the properties what each writer knows half way (`WriterInv`):
a writer past a lock still has it (`LocksAreHeld`), and what it checked under that lock is still true (`SaveIsAllowed`,
`ModelIsRegistered`, `PauseKeeps`, `CardFollows`). A step of another writer that could make it false needs the lock that
the first one has: only the coordination lock lets anyone save a list of models or set a bot to another model, and only the bot's lock lets
anyone write its files or remove them. A writer that dies drops its locks and what it knew with them; the
setting without a card that a death may leave is as registered as before.

*The registry.* `StoreInv` joins two arguments. `IdsUnique` and `TurnHasStream` say that a session id is given out once and
that a turn's stream is on record at its window, which no update changes: a second turn finds it there. `OwnersOwn` and `RecordStillAhead` follow a
lookup through the registries one by one: an owner who was on record when the question was put is found already, or its file is
among the unread ones and has the entry still. Nothing removes an owner from a file, so a damaged file makes the answer nobody, never another bot.

*The live status.* `TurnsAreShown` compares the record of live turns with what really runs. It needs that a bot runs one
turn (`RunningOnRecord`, which is the lease of section 3 seen from here), that the calls recorded for a turn are those in
flight, each with its own invocation (`CallsOnRecord`: public ids may collide), and that where a turn is on record no older latch is left (`NothingLatched`). That a question
waits is inductive with these: whatever clears a latch is one of the causes that the property names. A turn that was abandoned stays on record, and the invariant says of such a record only that it belongs to a turn that is over.

*The task index.* What the index shows is derived anew from the transcript, so the argument is about data: `IndexAfter` says what it shows after any number of rows (one line, with its key, for each call that
opens a task and that no row so far has closed, and nothing else), `MailAfter` the same after any number of envelopes. That both hold at the end is an induction along the list, which the library's theorems
cannot give here; it goes by the least counterexample instead (`UpToAll`: were a number not in the set, the least such one would follow one that is). That the function which goes through the rows exists at all
is shown the same way (`ChainExists`). `TasksInv` supplies what these need of the rows: calls are numbered, a result is the row after its call (`AnswersFollow`), a compaction leaves a
tail (`ScriptIsTail`), so that the answer to a call which is still in the transcript is there as well, and an envelope that is queued was told of by a result, or has a span of its own (`MailIsTold`).

*What a filter keeps.* The mail, the journal, the room cursors, the transcript of a session and the index rest on lemmas (in `PositionsProofs`) about `KeptAt(s, P)`, the elements of a sequence at a set of positions (module
`Positions`): it is as long as `P` is large, each element comes from a position in `P` and each position in `P` gives one, order is kept, and one more
element at the end of `s` is one more at the end or none. They follow from `Rank`, which counts the positions up to one, and facts about cardinalities; a definition of `SelectSeq` would
need an induction over the sequence.

*The mail.* `BusInv` follows an envelope. What is in a mailbox was sent, to that bot, later entries have greater numbers, and none has been
the text of a turn or read from a mailbox (`BoxInv`). What a room may show of an envelope is tracked (`Tracked`): it is still in the log, the log has dropped it, or its row is there;
all numbers in the log are above the rows of their room (`LogInv`), so appending the log's rows keeps a room in order; and once a delivery has loaded
its room the envelope is no longer in the log (`LoadedInv`), so that its row, or its loss, comes before the answer. That the bus implements `BotMail` needs one fact more, `DeskInv`: an envelope that is the text of
a turn is still being answered and is for the bot whose turn it is, so that no two turns answer one envelope and none answers one that was refused. Then `Send` maps to `Post`, `Refuse` to
`Refuse`, `Deliver` to `Give`, `FinishDelivery` and a failing turn to `Settle`, `FreezeMailbox` to `Read` and a stop to `Empty`; the beginning and the end of a bot's own turn are steps in which nothing of the mail changes.

*The journal.* The projection is stated of any journal (`ProjectOf`), and three lemmas say what one more event does to it: another window's event nothing, a message one more row,
a reset everything (`After`). `JournalInv` then says that the transcript is the projection, or, while a handle writes, what the projection will be once its line is complete
(`TruthInv`). That a writer's seq is the next one is `MemoFits`: an open handle's size and seq belong together, so either the size has not changed and
its seq is the last, or it scans anew. The constructor's scan and its `stat` are two steps, and between them the other handles of the process do nothing (`OneMethod`); this is where one process is needed.

*The room cursors.* `RoomInv` says of a cursor, and of the one that a turn will leave, where what was read lies: if it matches, all rows before it were read (`Covers`)
and none behind it (`Beyond`); if it does not match, nothing that is there was read (`Unmatched`). A new row keeps all three because its number was in no room before: the
invariant knows which numbers are in use (`Used`), and that of the user's row is announced before it is written (`LoadedTurn`). No row is ever
taken out of the room; but for the bot that has read the room the third is lost when a post comes before the user's row, and when its cursor is not saved. These are the cases of `moved`, and the proof needs no other.
That only one turn is loaded at a time follows from the door's claim (`OneAnswer`).

*The sessions.* `SessionInv` follows lists of rows: the stored one, the one in memory, and the next request. That each holds what was said (`RowsHold`: every id once, in a row or behind a marker)
is kept by appends because ids grow, by a compaction because what it cuts off is what its marker covers (`RowsRendered`), and by a retry because what it takes back is no longer said. That rounds are whole
(`InRounds`: right behind a row of calls its results, one each) is kept by a compaction because a piece ends where no call is pending: were a round cut, its first result missing would be one
(`PieceHoldsRounds`). The rest is about lists with parts: `RoundsMapped` says that whatever takes rounds as a whole, in whatever place, keeps them whole, and prefixes, tails, filters and marks of failure are cases of it.
`NoDeadZone` needs two more parts. (It leaves out the transcripts whose weight is within that of the signal of the limit: there the plan and the guard of the code disagree, section 6.) `SpaceIsMade` carries what the plan before the first request found (it fits, nothing can go, or a compaction changed the rows) to that request; here the awkward case is a summary that landed and changed
nothing, which `NothingButCosts` shows to be a transcript of a marker and rows of costs only. `SummariesAreOwned` says that no summary of the compact tool comes in between: the turn that owns one has had a request.
A crash amid the rows of a round is the only step that breaks the rounds, and with `split` above 0 nothing is claimed of them.

*The scheduler.* `SweepInv` follows the sweep of one bot: from the copy to the compaction it holds the bot's lease, so its copy is
all the rows there are, and what it gives to the extractor before it compacts is the tail of that copy; a row that goes has been in such a tail, or has all the rows of one between itself and the newest. `FireInv` relates the minutes that fired to the clock: they lie before the next wake-up, and while a pass is under way
before its moment for the bots that it has not looked at. A pass is given the moment of its wake-up, and the next wake-up is in a later minute however
long the pass took; that the start of a minute and any later moment in it are due alike is a lemma (`DueByTheMinute`).

*The memories.* `NotebookInv` adds to `ForgottenIsGone` and `IndexIsFaithful` that ids are given out once and are keys of the
files and of the index, that the index and a file never differ about the day and the owner of an id, that no entry of today is in the index, and
that what a mutation under way is about to drop is not in the files (`DropsStay`). That search, prompt, catalog and `memory_get` agree is
a consequence of these in every state. What a bot gets is put in closed form first (`GotEntries`): an entry of the files that it may read, or one of the index that it may read and has in a file or need not renew. The comparison with the
other paths is then about sets alone; the one exception, an entry of the bot's own that is in the index and in no file (`Orphans`), is what search still finds and the renewal of `memory_get` does not. The proof attempt showed that neither of the two
restrictions it was first stated with (no mutation under way, no failed refresh) is needed, so they were dropped, and `ForgottenIsGone` holds
after a failed refresh, too.

*The tool gateway.* `CallInv` says of each call what its place, its record, its handler and its process have to do with one another; `LocksAreHeld` that
the holder of a lock is the call that works inside. An eviction takes records that are not running, and `CallInv` says
that what runs is on record as running, except what was killed. A shell that is being spawned is in no table; it is of a call whose handler still runs, so that a shutdown which finds the record ends the spawn, and only a call
that has lost its record (a cancelled one) or that comes later can leave a process. The proof attempt found that the model let a call that goes on after a shutdown write into a
record that the shutdown had cleared; in the code such a call has no record to write to, and the model now says so (`Exposed`).

*The MCP servers.* The properties speak of the time between syncs, the invariant of every step: one turn is past the lock
(`OneOfEach`), what is live is as the last snapshot wants or still to be stopped (`LiveAsWanted`), and a name that is registered and not yet unregistered leads
to the first live server that offers it, which is not among those to be stopped (`NamesAreCanonical`). That a name has a first
server rests on `LeastNumber`: a set of numbers with a member has a least one, from the well-foundedness of `<`.

Seven models were restated for the proofs, without a change of what they do: a sync picks the next server to
stop or to start by its position instead of taking the head of a filtered list; the record of live turns is a set, since the order in which the turns of one bot were
updated matters only with two of them; what `BotBus`, `WorkspaceTimeline`, `RoomTurn` and `SessionLoop` keep of a list is `KeptAt` at a set of positions, where it was `SelectSeq` with a condition; `CallTasks` and `WithMail` of `BotTasks` are functions of how far they have read, where they were folds; and a turn of `RoomTurn` that has read the room is a record (`SetUp`, `Loaded`).

Only model-checked, and why:

- `SeqsAreGapless` with handles of two processes, which is false (`TimelineScanRace.cfg`).
- `NotebookMidnight.cfg` and the other expected violations, which are counterexamples.
- `CallsReturn`, `QueuedIsServed` and `CancelLands`: liveness under fairness, and ENABLED, are beyond the prover.

No module that is proved about declares a recursive operator.

## 6. Where code and documents disagree

1. `NamingRename.cfg`, `UserTitleKept`. `mark_naming_attempted` is documented
   (`conversations/store/turn_pipeline.py:181`) to flip its flag "atomically, preserving
   title/source/participants"; it reads in one transaction (line 189) and writes all four fields back in
   another (line 192). A rename in between is undone.
2. `TurnPruneRace.cfg`, `HeldDoorIsKept`. Creating a group prunes blank rooms, and
   `app/conversation_admin/service.py:75` says: "Blank sessions belonging to a running turn must survive the
   prune". The turns to spare are a snapshot taken first (line 91), and `discard_empty` deletes outside the
   registry's lock: a turn that claims its still blank room in between loses it, and fails. `TurnFollow.cfg`
   shows that this is the only way: `OnlyStalePruneTakes`.
3. `TimelineScanRace.cfg`, `SeqsAreGapless`. `bots/timeline.py:279` re-validates "rather than appending a conflicting seq that
   bricks the log on next read". It does so when the size has changed, but a handle is opened by a scan and then a question for the
   size (`:95-96`, `:152-161`), without the lock: what another process appends in between is taken for known, and the next
   write repeats its seq. With handles of one process this does not happen (`BotRuntime.cfg`).
4. `NotebookMidnight.cfg`, `OpenTaskIsCatalogued`. `memories/facade.py:183` says that the catalog must show a task of today, which
   "only enters SQLite after day-close". Nothing runs at day-close (`memories/active.py:106`, `:157` are passed no callback): after midnight
   yesterday's tasks are in neither source until a mutation of the new day reindexes.

Seen while modelling, and without a run of their own:

- `.agents/plans/two-doors-hard-cut.md:110` says that a marker mismatch attributable to one bot "blocks that DM only". A bootstrap that died after its
  pending marker, or a deleted DM's tombstone, makes `_audit_in_transaction` raise (`lifecycle.py:41`, `:51`, `:53`), and `ensure_runtime_store`
  and `purge_before` run that audit whatever the error's scope: the next start fails for every door.
- `TurnHub`'s docstring (`serve/turn_state.py:24`) says "events, then one terminal". A delivery publishes through the sink of the turn that sent it
  (`app/a2a_delivery/service.py:180`) and runs on when a soft timeout has answered for it: its event may follow the terminal, until the hub is closed (`OneEnding` says what does hold).
- `bots/status.py`, `forget_room`: the latch of a deleted room is not to outrank fresh states. A turn of the room that ends after the deletion
  latches again (`DeletedRoomIsForgotten` is false).
- `_reinject_pending` (`bots/runtime.py`) promises one recall after a turn that compacted. When a turn compacts and then
  fails, none is armed (`CompactionIsRecalled` is false; `RecallIsOwed` is what holds).
- A task that `task_open` opened is listed "until a result/error event" closes it, says `messaging.py:303-306`. A compaction that takes the call from the
  transcript takes it from the list (`IndexIsExact` compares with what the transcript still holds).
- A `task_open` that is refused in words (`messaging.py:263`, `:266`, `:282`) is no error to the gateway (`gateway.py:249`), and `tasks.py:206-225` opens a task for its call: the bot is
  shown a task that was never opened, until an event or a compaction takes it.
- `app/chat_app.py:376` converges the servers "to the current config file". Two turns that read it before and after an edit may sync in the other order
  (`SyncIsCurrent` is false; `ServersMatchSnapshot` is what holds), until the next turn.
- A process that dies between the appends of one round (`agents/observe.py:79`) leaves a call without results. Later requests then repeat the unpaired call, and the cut may lie where no compaction can
  pass; `RequestsArePaired` and `NoDeadZone` are promised only as long as no round was torn. Nothing in the repository says otherwise.
- A roster edit between the two transactions of point 1 is undone, and of two concurrent `set_room_bots` one is lost; nothing promises otherwise.
- `core/context.py:14` says that a turn that would hit the backstop "must have compacted first (dead zone otherwise)". There are two such zones, which `NoDeadZone` excepts. The plan before a turn
  (`compaction.py:193-196`) does not count the context_budget section, which the loop adds afterwards (`agents/loop.py:190-192`) and the guard of the first request counts (`:252`): a transcript within that
  weight of the backstop ends each of its turns uncompacted. And a compaction omits whole pieces and keeps the last one whatever its size (`compaction.py:218`), so does a session of one piece over the backstop.
- `configs/coordination.py` keeps a model registered while a bot refers to it. A settings write that dies before it has stripped the
  legacy card, then a delete that dies between the settings and the card (or is still between them), leave a bot that refers to the card's model again,
  which may have been removed meanwhile; `RefsAreRegistered` excepts such a bot (`bared`) until a checked model is written to it.
- `begin_turn` puts a turn on record (`bots/runtime.py:540`), and each part of what follows finishes it when it fails, except `resolve_bot_provider` (`:596-602`): when it raises, the record
  stays, the cards show a bot that runs, and nothing but the deletion of its room or card ends that (`AbandonSpan`). In that room the record also takes the question of a card that is posted later.
- A question that a turn posted is dropped when the turn then fails or is cancelled (`bots/status.py:272`): the card stands in the room and the status does not say that the bot waits.
- A call that is cancelled while its shell is being spawned has no record any more (`tools/gateway/gateway.py:164`), and the process is registered only when the spawn has returned (`background.py:122-133`): a shutdown
  in between kills and cancels nothing of it. `ProcessesAreKnown` names this case. A background command that passes the soft timeout during the spawn settles as failed, although its process runs.
- `memory_get` of a leaf (`chunk_id`) that is not indexed knows no origin (`memories/facade.py:403-407`, `:425-436`), and `visibility.py:58-59`, `:69-70` take that for readable in any private view and in no group: a bot is
  refused in its group an entry of today that its prompt shows there, and reads in its DM one of a window that it may not read. After a forget whose refresh failed, the owner's get raises (`facade.py:459-460`) what search still finds.
- The idle sweep gives the extractor the last 12000 characters (`memories/jobs.py:54-66`) and goes on to compact when the model fails (`:128-133`), so that rows may be summarized that no extraction has seen; the code does not
  promise otherwise. A profile that cannot be read (`service.py:303-321`) counts as reviewed, for up to a day unless one changes.
## 7. Abstractions and limits

- A crash is the death of a process: what it wrote stays. Power loss, and with it the fsync discipline of
  `rootfs.py` and the WAL, is not modelled; nor are inode, mode and symbolic-link checks, or the `-wal` and `-shm` side files.
- The clock of `ConversationStore` does not go back. A wall clock that does would let a purge keep or drop
  other rows; no property but the choice of `Expired` depends on it.
- `set_metadata` without an actor and `_runtime_mutate_metadata` appear in `ConversationStore` only through
  `SetParticipants`: participants are never empty, so for every such write a participant exists that could have made it.
- Read-only operations (listing, prepare_retry) and vacuum, which changes no row, are left out of the row model.
- In `WorkspaceLease` a task asks once; a turn that asks again is another task. Threads do not enter: the
  registry's lease is used on the event loop only.
- In `DoorNaming` the condition on completed turns and the sanitizing of titles are abstracted to "may be named" and to a set of titles.
- `TurnClaims` has no lease of its own: that a queued turn may wait, and be cancelled or refused while it waits, is
  in `Enter`, `CancelTask` and `Fail`; who gets the lease is `WorkspaceLease`. All rooms begin blank, and rows
  are those of turns; rows of deliveries and of posts are not in `rows`, so the model prunes no fewer rooms than the code.
- Not in `TurnClaims`: retry turns, which write no user's row; the row that records a provider's error; the starter's own
  queue (`serve/bridge.py`), which `run` feeds beside the hub; the private follow-up that a cancel of an idle room may find;
  a bot's DM, which is never pruned; the shutdown of the loop, after which nobody settles a waiting thread's future.
- `PrivateFollowup` has one work item, so the checks of its ownership pass, and one origin room. The roster and the pause of the bot only
  refuse; a refusal after the approval is staged is `Fail`. `share_policy` follows from the approval; `expire` has no caller.
  A row index is counted among the rows kept in `dm`; the DM is never deleted. Public rooms are never
  compacted, so the scan for an earlier post sees every row of the room.
- The components of `BotRuntime.cfg` and `Services.cfg` are checked one by one. What one needs of another is in it as a nondeterministic choice: in `BotBus` a
  delivery may be refused at any time before it is granted (a cycle, a paused bot); in `BotTasks` the follow-up and the catalog are whatever they
  may be; in `Housekeeping` a lease is taken by a turn at any time; in `RoomTurn` any turn may fail.
- `BotBus`: every payload is longer than its excerpt; channel registration is constant. `AgentStatus`: elapsed times are left out, a `done` latch may expire at any time.
- `RoomTurn`: one room; rows that are not public are left out, and a DM has no cursor. Fingerprints do not collide.
- `WorkspaceTimeline`: event ids are fresh. `Rewrite` scans and records in one step of its process, so what two
  processes that compact one window at once do to its rows is not modelled. Power loss is not modelled.
- `SessionLoop`: the branch of `_compact_locked` that compacts a database door is the two phases of `ConversationStore`. With at most two rounds the last three
  are never shrunk. Wire formats, usage numbers and the text of summaries are left out.
- `BotTasks`: legacy rows, the wording and the order of lines are left out (the code takes the bot's own box first, then the peers').
- `WorkspaceStore`: session and task ids are uuids and fresh; a registry is damaged from outside only, and nothing repairs it; the values of the cursor are in `RoomTurn`.
- `Housekeeping`: half a minute is the unit of time; each bot has one window; a row stands for a fixed share of the 12000 characters, and what the model makes of the rows it is given is left out.
- `TeamConfig`: parsing, secrets and pricing are left out; a file is replaced in one step (a rename), and the models of the
  initial cards are registered, as in a root that this code has made.
- `ToolGateway`: paging and capping of output are left out; ids are given out in the order of submission. There are fewer resource locks than the 200 past
  which `_evict_locks` drops some (`gateway.py:305-320`).
- `McpServers`: calls and their results are left out. A stop that fails counts as a stop, as in the code.
- `MemoryNotebook`: ranking, chunks and usage counters are left out; an entry's text is its kind. Extraction is a `Remember`.

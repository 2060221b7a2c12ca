----------------------------- MODULE AgentStatus -----------------------------
(***************************************************************************)
(* The live status of the bots (bots/status.py): one record for each turn  *)
(* that runs, and one latch for each bot and room that says how its last   *)
(* turn there ended: done, failed, or waiting for the user.                *)
(*                                                                         *)
(* Every method runs under one lock and is one action.  Turns, and the     *)
(* events they emit, come from the event loop; user messages, deletions    *)
(* and the listing of the bots come from HTTP threads, and the listing     *)
(* reads the cards before it drops what belongs to no card.                *)
(***************************************************************************)
EXTENDS Naturals, Sequences

CONSTANTS
    Agents,
    Guests,        \* the agents whose cards come and go
    Windows,
    MaxSpans,      \* bound: turns
    CallName       \* CallName[i]: the public id of invocation i; ids collide

ASSUME AgentStatusAssumption ==
    Guests \subseteq Agents /\ MaxSpans \in Nat /\ DOMAIN CallName \subseteq Nat

VARIABLES
    spans,     \* spans[s]: the turn of span s and its _Turn record
    active,    \* _active: the spans on record
    latches,   \* _latches
    cards,     \* the bots that have a card
    roster,    \* the cards a listing has read but not yet retained
    doors,     \* the rooms that exist
    flying,    \* flying[s]: the invocations of s that have not returned
    dropped,   \* history: spans whose record went with a room or a card
    owed       \* history: the questions that wait for the user

statusVars == <<spans, active, latches, cards, roster, doors, flying, dropped, owed>>

NoLatch == "none"
NoRoster == {"none"}
Invocations == DOMAIN CallName

StatusInit ==
    /\ spans = <<>>
    /\ active = {}
    /\ latches = [k \in Agents \X Windows |-> NoLatch]
    /\ cards = Agents
    /\ roster = NoRoster
    /\ doors = Windows
    /\ flying = [s \in 1..MaxSpans |-> {}]
    /\ dropped = {}
    /\ owed = {}

-----------------------------------------------------------------------------
Key(s) == <<spans[s].bot, spans[s].room>>
Cleared(K) == [k \in DOMAIN latches |-> IF k \in K THEN NoLatch ELSE latches[k]]
InRoom(r) == {k \in DOMAIN latches : k[2] = r}
\* A turn runs until it has closed its record; its tools may outlive it.
RunningTurns(b) == {s \in DOMAIN spans : spans[s].bot = b /\ spans[s].turn = "run"}

\* begin_turn: under the lease of b, in a room that may be gone (a delivery).
\* (Of what runs before the first event, nothing shows but that it runs.)
BeginSpan(b, r) ==
    LET s == Len(spans) + 1
    IN /\ s <= MaxSpans
       /\ RunningTurns(b) = {}
       /\ spans' = Append(spans, [bot |-> b, room |-> r, turn |-> "run",
                                  phase |-> "setup", calls |-> {}, wait |-> NoLatch])
       /\ active' = active \cup {s}
       /\ latches' = Cleared({<<b, r>>})
       /\ owed' = owed \ {<<b, r>>}
       /\ UNCHANGED <<cards, roster, doors, flying, dropped>>

\* The saved settings of the card are refused (resolve_bot_provider raises),
\* between the parts of the setup that finish the turn when they fail: the turn
\* is over, and its record stays.
AbandonSpan(s) ==
    /\ spans[s].turn = "run"
    /\ spans[s].phase = "setup"
    /\ spans' = [spans EXCEPT ![s].turn = "lost"]
    /\ UNCHANGED <<active, latches, cards, roster, doors, flying, dropped, owed>>

\* observe_event, the model's: a span off the record is not resurrected.
ObserveModel(s, phase) ==
    /\ s \in active
    /\ spans[s].turn = "run"
    /\ spans' = [spans EXCEPT ![s].phase = phase]
    /\ UNCHANGED <<active, latches, cards, roster, doors, flying, dropped, owed>>

\* tool.started and skill.started: the live calls, by public id.  (Of phases,
\* only whether the model is thinking is kept.)
ObserveStarted(s, i) ==
    /\ s \in active
    /\ spans[s].turn = "run"
    /\ \A t \in DOMAIN spans : i \notin flying[t]
    /\ flying' = [flying EXCEPT ![s] = @ \cup {i}]
    /\ spans' = [spans EXCEPT ![s].phase = "turn",
                              ![s].calls = @ \cup {<<CallName[i], i>>}]
    /\ UNCHANGED <<active, latches, cards, roster, doors, dropped, owed>>

\* MUTANT of Finished: every call of its public id goes.
FinishedById(i) == {<<CallName[j], j>> : j \in {x \in Invocations : CallName[x] = CallName[i]}}
\* The entries of a public id that a finished invocation removes.
Finished(i) == {<<CallName[i], i>>}

ObserveFinished(s, i) ==
    /\ i \in flying[s]
    /\ flying' = [flying EXCEPT ![s] = @ \ {i}]
    /\ s \in active
    /\ spans' = [spans EXCEPT ![s].phase = "turn",
                              ![s].calls = @ \ Finished(i)]
    /\ UNCHANGED <<active, latches, cards, roster, doors, dropped, owed>>

\* note_card_posted: the card of a turn on record latches when the turn ends,
\* the card of a tool that outlived its turn latches at once.  Of several turns
\* there, of which one at most was not abandoned, the last gets it.
NoteCardPosted(b, r, card) ==
    LET wait == IF card = "question" THEN "waiting" ELSE "error"
    IN /\ r \in doors
       /\ \E s \in DOMAIN spans : Key(s) = <<b, r>>
       /\ \/ \E s \in active :
                /\ Key(s) = <<b, r>>
                /\ \A t \in active : Key(t) = <<b, r>> => t <= s
                /\ spans' = [spans EXCEPT ![s].wait = wait]
                /\ UNCHANGED latches
          \/ /\ \A s \in active : Key(s) # <<b, r>>
             /\ latches' = [latches EXCEPT ![<<b, r>>] = wait]
             /\ UNCHANGED spans
       /\ owed' = IF card = "question" THEN owed \cup {<<b, r>>}
                                       ELSE owed \ {<<b, r>>}
       /\ UNCHANGED <<active, cards, roster, doors, flying, dropped>>

\* What the first finish_turn of a span latches: a failure, else what the
\* turn asked for, else done.
Outcome(s, outcome) ==
    CASE outcome = "error" -> "error"
      [] outcome = "done" /\ spans[s].wait # NoLatch -> spans[s].wait
      [] OTHER -> "done"

\* finish_turn, by the layer that ends the turn.
FinishSpan(s, outcome) ==
    /\ spans[s].turn = "run"
    /\ spans' = [spans EXCEPT ![s] = [@ EXCEPT !.turn = "closing", !.phase = "turn",
                                               !.calls = {}, !.wait = NoLatch]]
    /\ IF s \in active
       THEN /\ active' = active \ {s}
            /\ latches' = IF outcome = "cancelled" THEN latches
                          ELSE [latches EXCEPT ![Key(s)] = Outcome(s, outcome)]
       ELSE UNCHANGED <<active, latches>>
    /\ owed' = IF outcome = "done" THEN owed ELSE owed \ {Key(s)}
    /\ flying' = [flying EXCEPT ![s] = {}]
    /\ UNCHANGED <<cards, roster, doors, dropped>>

\* MUTANT of Known: the span is not looked up: a later layer's outcome counts again.
KnownAlways(s) == TRUE
\* The span is no longer on record: a second layer's finish_turn is refused.
Known(s) == s \in active
FinishAgain(s, outcome) ==
    /\ spans[s].turn = "closing"
    /\ spans' = [spans EXCEPT ![s].turn = "over"]
    /\ latches' = IF Known(s) /\ outcome # "cancelled"
                  THEN [latches EXCEPT ![Key(s)] = Outcome(s, outcome)] ELSE latches
    /\ UNCHANGED <<active, cards, roster, doors, flying, dropped, owed>>

\* note_user_message, once the door of the room is claimed.
NoteUserMessage(r) ==
    /\ r \in doors
    /\ latches' = Cleared(InRoom(r))
    /\ owed' = owed \ InRoom(r)
    /\ UNCHANGED <<spans, active, cards, roster, doors, flying, dropped>>

\* A room is deleted, then forget_room.
ForgetRoom(r) ==
    LET gone == {s \in active : spans[s].room = r}
    IN /\ r \in doors
       /\ doors' = doors \ {r}
       /\ latches' = Cleared(InRoom(r))
       /\ active' = active \ gone
       /\ dropped' = dropped \cup gone
       /\ owed' = owed \ InRoom(r)
       /\ UNCHANGED <<spans, cards, roster, flying>>

\* A card is deleted or made.
ToggleCard(b) ==
    /\ cards' = IF b \in cards THEN cards \ {b} ELSE cards \cup {b}
    /\ UNCHANGED <<spans, active, latches, roster, doors, flying, dropped, owed>>

\* bots_list: the cards are read first, then retain drops the others.
ReadRoster ==
    /\ roster = NoRoster
    /\ roster' = cards
    /\ UNCHANGED <<spans, active, latches, cards, doors, flying, dropped, owed>>
Retain ==
    LET gone == {s \in active : spans[s].bot \notin roster}
        lost == {k \in DOMAIN latches : k[1] \notin roster}
    IN /\ roster # NoRoster
       /\ roster' = NoRoster
       /\ active' = active \ gone
       /\ latches' = Cleared(lost)
       /\ dropped' = dropped \cup gone
       /\ owed' = owed \ lost
       /\ UNCHANGED <<spans, cards, doors, flying>>

\* _prune_expired, in a snapshot: only done is short-lived.
PruneExpired(k) ==
    /\ latches[k] = "done"
    /\ latches' = Cleared({k})
    /\ UNCHANGED <<spans, active, cards, roster, doors, flying, dropped, owed>>

StatusNext ==
    \/ \E b \in Agents, r \in Windows : BeginSpan(b, r)
    \/ \E s \in DOMAIN spans : AbandonSpan(s)
    \/ \E s \in DOMAIN spans, p \in {"llm", "turn"} : ObserveModel(s, p)
    \/ \E s \in DOMAIN spans, i \in Invocations : ObserveStarted(s, i)
    \/ \E s \in DOMAIN spans, i \in Invocations : ObserveFinished(s, i)
    \/ \E b \in Agents, r \in Windows, c \in {"question", "error"} : NoteCardPosted(b, r, c)
    \/ \E s \in DOMAIN spans, o \in {"done", "error", "cancelled"} : FinishSpan(s, o)
    \/ \E s \in DOMAIN spans, o \in {"error", "cancelled"} : FinishAgain(s, o)
    \/ \E r \in Windows : NoteUserMessage(r)
    \/ \E r \in Windows : ForgetRoom(r)
    \/ \E b \in Guests : ToggleCard(b)
    \/ ReadRoster
    \/ Retain
    \/ \E k \in Agents \X Windows : PruneExpired(k)

StatusSpec == StatusInit /\ [][StatusNext]_statusVars

-----------------------------------------------------------------------------
\* snapshot: a turn on record comes before any latch, then the worst latch.
Snapshot(b, paused) ==
    LET mine == {s \in active : spans[s].bot = b}
        held == {latches[<<b, r>>] : r \in Windows}
    IN CASE paused -> "offline"
         [] ~paused /\ \E s \in mine : spans[s].phase = "llm" -> "thinking"
         [] ~paused /\ mine # {} /\ \A s \in mine : spans[s].phase # "llm" -> "running"
         [] OTHER -> IF "error" \in held THEN "error"
                     ELSE IF "waiting" \in held THEN "waiting"
                     ELSE IF "done" \in held THEN "done" ELSE "idle"

\* room_tasks: the live calls of one bot in one room.
RoomCalls(b, r) == UNION {spans[s].calls : s \in {t \in active : Key(t) = <<b, r>>}}

-----------------------------------------------------------------------------
\* What the cards and rooms show is what happens: a turn is shown while it
\* runs and not once it has ended, unless its room or its card went; the live
\* calls where a turn runs are exactly those that have not returned, under
\* colliding ids too.  What is shown though nothing runs is the turn that was
\* abandoned in its setup: nothing but the loss of its room or card ends it.
TurnsAreShown ==
    /\ \A s \in DOMAIN spans :
          s \in active <=> spans[s].turn \in {"run", "lost"} /\ s \notin dropped
    /\ \A b \in Agents :
          RunningTurns(b) \ dropped # {} => Snapshot(b, FALSE) \in {"thinking", "running"}
    /\ \A s \in active : spans[s].turn = "run" =>
          {c[2] : c \in RoomCalls(spans[s].bot, spans[s].room)} = flying[s]

\* A question is not forgotten, until the user writes in its room, the bot posts
\* another card or works there again, its turn fails or is cancelled (finish_turn
\* then drops what the turn waits for), or the room or the bot goes: the bot waits
\* for the user, in its latch or once its running turn is done.  Only a record
\* that an abandoned turn left in that room can swallow the question.
QuestionsWait ==
    \A k \in owed :
        \/ latches[k] = "waiting"
        \/ \E s \in active : /\ Key(s) = k
                             /\ spans[s].turn = "run" => spans[s].wait = "waiting"

StatusHonest == TurnsAreShown /\ QuestionsWait

\* "without this a latch from a deleted room would outrank fresh states
\* forever" (forget_room): no failure or question is shown for a deleted room.
DeletedRoomIsForgotten ==
    \A k \in DOMAIN latches : k[2] \notin doors => latches[k] \notin {"error", "waiting"}
=============================================================================

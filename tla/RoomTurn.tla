------------------------------ MODULE RoomTurn ------------------------------
(***************************************************************************)
(* What a bot reads of a group room: the room cursor of each bot, from the *)
(* delta that a turn is given to the cursor that a successful turn leaves, *)
(* and the one-shot recall after a compaction of the bot's own session.    *)
(*                                                                         *)
(* One room.  Turns of different bots interleave (a delivery runs inside   *)
(* the turn of its sender), one bot has one turn at a time (its lease).    *)
(* A row may be posted by an HTTP thread at any moment, also between the   *)
(* reading of the room and the row of the user's message.  A row is its    *)
(* author and a number that stands for its fingerprint; rows that are not  *)
(* public (bus events, errors) are left out.  A DM has no cursor.          *)
(***************************************************************************)
EXTENDS Naturals, Sequences, SequencesExt, Positions

CONSTANTS
    Roster,       \* the participants of the room, in order
    User,
    MaxRows,      \* bound: rows
    MaxFailures   \* bound: turns that fail

ASSUME RoomTurnAssumption ==
    /\ Roster \in Seq(ToSet(Roster)) \ {<<>>} /\ User \notin ToSet(Roster)
    /\ {MaxRows, MaxFailures} \subseteq Nat

VARIABLES
    room,       \* the public rows of the room
    lastRow,    \* the number of the last row made
    cursor,     \* cursor[b]: how many rows b has read, and the last of them
    rturn,      \* rturn[b]: the turn of b
    paused,     \* the bots that are paused
    reinject,   \* _reinject_pending: bots whose next turn recalls memories
    failures,
    seen,       \* history: seen[b], rows given to b in a successful turn
    moved,      \* history: bots whose cursor the room has left behind
    recalls     \* history: bots with a compaction that was not yet recalled

roomVars == <<room, lastRow, cursor, rturn, paused, reinject, failures, seen,
              moved, recalls>>

Members == ToSet(Roster)
NoCursor == [count |-> 0, last |-> 0]
NoTurn == [step |-> "idle", kind |-> "none", given |-> {}, after |-> NoCursor,
           row |-> 0, armed |-> FALSE, compacted |-> FALSE]

RoomTurnInit ==
    /\ room = <<>>
    /\ lastRow = 0
    /\ cursor = [b \in Members |-> NoCursor]
    /\ rturn = [b \in Members |-> NoTurn]
    /\ paused \in {{}, {Head(Roster)}}
    /\ reinject = {}
    /\ failures = 0
    /\ seen = [b \in Members |-> {}]
    /\ moved = {}
    /\ recalls = {}

-----------------------------------------------------------------------------
\* public_room_messages: what others said, in order.
Public(rows, b) == KeptAt(rows, {i \in DOMAIN rows : rows[i].by # b})

Matches(items, c) ==
    c.count \in DOMAIN items /\ items[c.count].n = c.last

\* room_delta: a cursor that matches delivers what follows it, any other
\* cursor delivers everything.
Delta(items, c) ==
    IF Matches(items, c) THEN SubSeq(items, c.count + 1, Len(items)) ELSE items
\* MUTANT of CursorAfter: the cursor counts the fresh rows only.
CursorAfterFresh(items, c) ==
    IF Delta(items, c) = <<>> THEN c
    ELSE [count |-> Len(Delta(items, c)), last |-> Last(items).n]
CursorAfter(items, c) ==
    IF Delta(items, c) = <<>> THEN c
    ELSE [count |-> Len(items), last |-> Last(items).n]

\* room_after: past the message that b answers, as b found the room.
CursorPast(b, n) == [count |-> Len(Public(room, b)) + 1, last |-> n]

Numbers(items) == {x.n : x \in ToSet(items)}

\* A turn that was given these rows, and will leave this cursor.
SetUp(kind, given, after) ==
    [step |-> "setup", kind |-> kind, given |-> given, after |-> after, row |-> 0,
     armed |-> FALSE, compacted |-> FALSE]
\* The same, with the row of the user's message still to come.
Loaded(given, after, row) ==
    [step |-> "loaded", kind |-> "user", given |-> given, after |-> after, row |-> row,
     armed |-> FALSE, compacted |-> FALSE]

\* _resolve_responder: a mention wins, else the first; the paused are skipped.
Responder(mentions) ==
    LET active == KeptAt(Roster, {i \in DOMAIN Roster : Roster[i] \notin paused})
        named == KeptAt(mentions, {i \in DOMAIN mentions : mentions[i] \in ToSet(active)})
    IN IF named # <<>> THEN Head(named)
       ELSE IF active # <<>> THEN Head(active) ELSE Head(Roster)

\* The loop runs on from the reading of the room to the user's row; only
\* HTTP threads come between.
LoopFree == \A b \in Members : rturn[b].step # "loaded"

\* One message is answered in the room at a time (the door's claim).
Answering == \E b \in Members : rturn[b].kind \in {"user", "retry"}

-----------------------------------------------------------------------------
\* _run_bot_turn of a new message: the room is read, and the delta taken.
LoadRoom(mentions) ==
    LET b == Responder(mentions)
        items == Public(room, b)
    IN /\ ~Answering
       /\ b \notin paused
       /\ rturn[b] = NoTurn
       /\ lastRow < MaxRows
       /\ lastRow' = lastRow + 1
       /\ rturn' = [rturn EXCEPT ![b] =
              Loaded(Numbers(Delta(items, cursor[b])), CursorPast(b, lastRow + 1), lastRow + 1)]
       /\ UNCHANGED <<room, cursor, paused, reinject, failures, seen, moved, recalls>>

\* The row of the user's message lands before the turn runs.
AppendUserRow(b) ==
    /\ rturn[b].step = "loaded"
    /\ room' = Append(room, [by |-> User, n |-> rturn[b].row])
    /\ rturn' = [rturn EXCEPT ![b].step = "setup"]
    /\ UNCHANGED <<lastRow, cursor, paused, reinject, failures, seen, moved, recalls>>

\* A retry: the user has a row to answer again, the room keeps all its rows
\* (what failed is not rewritten), and b reads on from its cursor.
LoadRetry(mentions) ==
    LET b == Responder(mentions)
        items == Public(room, b)
    IN /\ ~Answering
       /\ b \notin paused
       /\ rturn[b] = NoTurn
       /\ \E i \in DOMAIN room : room[i].by = User
       /\ rturn' = [rturn EXCEPT ![b] =
              SetUp("retry", Numbers(Delta(items, cursor[b])), CursorAfter(items, cursor[b]))]
       /\ UNCHANGED <<room, lastRow, cursor, paused, reinject, failures, seen,
                      moved, recalls>>

\* deliver_envelope_claimed: b is sent work by a bot that runs here.
LoadDelivery(b) ==
    LET items == Public(room, b)
    IN /\ LoopFree
       /\ rturn[b] = NoTurn
       /\ b \notin paused
       /\ \E a \in Members : rturn[a].step = "run"
       /\ rturn' = [rturn EXCEPT ![b] =
              SetUp("mail", Numbers(Delta(items, cursor[b])), CursorAfter(items, cursor[b]))]
       /\ UNCHANGED <<room, lastRow, cursor, paused, reinject, failures, seen,
                      moved, recalls>>

\* The inputs are composed; the recall is read but not yet consumed, and the
\* memories are extracted if the plan says that the turn will compact.
Compose(b) ==
    /\ LoopFree
    /\ rturn[b].step = "setup"
    /\ rturn' = [rturn EXCEPT ![b].step = "run", ![b].armed = b \in reinject]
    /\ UNCHANGED <<room, lastRow, cursor, paused, reinject, failures, seen,
                   moved, recalls>>

\* The loop, or the compact tool, compacts the session of the bot.
Compact(b) ==
    /\ LoopFree
    /\ rturn[b].step = "run"
    /\ ~rturn[b].compacted
    /\ rturn' = [rturn EXCEPT ![b].compacted = TRUE]
    /\ recalls' = recalls \cup {b}
    /\ UNCHANGED <<room, lastRow, cursor, paused, reinject, failures, seen, moved>>

\* MUTANT of Reinjected: a recall stays armed when it was used.
ReinjectedAlways(b) == reinject \cup (IF rturn[b].compacted THEN {b} ELSE {})
\* The turn succeeds: the cursor moves past what was given (saving it is best
\* effort), the recall is consumed, a compaction arms the next one, and the
\* reply lands in the room.
Reinjected(b) ==
    (IF rturn[b].armed THEN reinject \ {b} ELSE reinject)
        \cup (IF rturn[b].compacted THEN {b} ELSE {})

TurnDone(b, saved) ==
    LET t == rturn[b]
    IN /\ LoopFree
       /\ t.step = "run"
       /\ lastRow < MaxRows
       /\ cursor' = IF saved /\ t.after # NoCursor
                    THEN [cursor EXCEPT ![b] = t.after] ELSE cursor
       /\ seen' = [seen EXCEPT ![b] = @ \cup t.given \cup ({t.row} \ {0})]
       /\ moved' = CASE ~saved -> moved \cup {b}
                     [] saved /\ Matches(Public(room, b), t.after) -> moved \ {b}
                     [] OTHER -> moved
       /\ reinject' = Reinjected(b)
       /\ recalls' = IF t.armed /\ ~t.compacted THEN recalls \ {b} ELSE recalls
       /\ lastRow' = lastRow + 1
       /\ room' = Append(room, [by |-> b, n |-> lastRow + 1])
       /\ rturn' = [rturn EXCEPT ![b] = NoTurn]
       /\ UNCHANGED <<paused, failures>>

\* It raises or is cancelled: what it was given stays unread.
TurnRaises(b) ==
    /\ rturn[b] # NoTurn
    /\ LoopFree \/ rturn[b].step = "loaded"
    /\ failures < MaxFailures
    /\ failures' = failures + 1
    /\ rturn' = [rturn EXCEPT ![b] = NoTurn]
    /\ UNCHANGED <<room, lastRow, cursor, paused, reinject, seen, moved, recalls>>

\* The idle sweep compacts the session of a bot, under its lease.
SweepCompacts(b) ==
    /\ rturn[b] = NoTurn
    /\ reinject' = reinject \cup {b}
    /\ recalls' = recalls \cup {b}
    /\ UNCHANGED <<room, lastRow, cursor, rturn, paused, failures, seen, moved>>

\* An HTTP thread publishes an approved answer of b in the room.
Post(b) ==
    /\ lastRow < MaxRows
    /\ lastRow' = lastRow + 1
    /\ room' = Append(room, [by |-> b, n |-> lastRow + 1])
    /\ moved' = moved \cup {c \in Members : rturn[c].step = "loaded" /\ c # b}
    /\ UNCHANGED <<cursor, rturn, paused, reinject, failures, seen, recalls>>

Mentions == {<<>>} \cup {<<b>> : b \in Members}

RoomTurnNext ==
    \/ \E m \in Mentions : LoadRoom(m)
    \/ \E m \in Mentions : LoadRetry(m)
    \/ \E b \in Members : LoadDelivery(b)
    \/ \E b \in Members : AppendUserRow(b)
    \/ \E b \in Members : Compose(b)
    \/ \E b \in Members : Compact(b)
    \/ \E b \in Members, saved \in BOOLEAN : TurnDone(b, saved)
    \/ \E b \in Members : TurnRaises(b)
    \/ \E b \in Members : SweepCompacts(b)
    \/ \E b \in Members : Post(b)

RoomTurnSpec == RoomTurnInit /\ [][RoomTurnNext]_roomVars

-----------------------------------------------------------------------------
\* A cursor never passes a row that its bot did not read: if it matches the
\* room, each row before it was given to the bot in a turn that succeeded.
CursorSkipsNothing ==
    \A b \in Members :
        LET items == Public(room, b)
        IN Matches(items, cursor[b]) =>
              \A i \in 1..cursor[b].count : items[i].n \in seen[b]

\* A row is given twice only if a post came between the reading of the room and
\* the user's row, or if the cursor was not saved.
NothingIsReadTwice ==
    \A b \in Members \ moved :
        seen[b] \cap Numbers(Delta(Public(room, b), cursor[b])) = {}

\* A recall is armed only when one is owed, and one that a sweep or a turn
\* that succeeded has armed stays armed until a turn that succeeds uses it.
RecallIsOwed ==
    /\ reinject \subseteq recalls
    /\ \A b \in Members : rturn[b].armed => b \in reinject

\* No room cursor passes a row that its bot did not read, no row is read twice
\* without a reason, and a recall is used once (bots/room_context.py, runtime.py).
RoomTurnSafe == CursorSkipsNothing /\ NothingIsReadTwice /\ RecallIsOwed

\* "pairs whose last turn compacted: the next turn re-injects relevant memory
\* hits exactly once" (_reinject_pending): no compaction goes without.
CompactionIsRecalled ==
    \A b \in recalls : b \in reinject \/ rturn[b] # NoTurn
=============================================================================

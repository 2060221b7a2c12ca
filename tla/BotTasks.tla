------------------------------- MODULE BotTasks -------------------------------
(***************************************************************************)
(* What a bot still has to do, as its prompt and the room's task list show *)
(* it.  There is no store of tasks: bots/tasks.py derives them from the    *)
(* projected transcript of the bot in one window and from the envelopes    *)
(* that are still queued, bots/work_items.py joins them with the catalog   *)
(* of memory tasks, and bots/workspace_context.py writes the lines.        *)
(*                                                                         *)
(* A tool call is named by a number; the span that task_open hands out, or *)
(* that of a delegated envelope, is named after the call.                  *)
(***************************************************************************)
EXTENDS Naturals, Sequences, SequencesExt, FiniteSets, Positions

CONSTANTS
    Peers,          \* the other bots
    Works,          \* the tasks that the memory catalog may hold
    NoWork, NoPeer,
    Origins, Here,  \* the rooms that mail comes from; that of this transcript
    MaxListed,      \* the first 20 tasks go into the prompt
    MaxCalls,       \* bound: task_open and delegate calls
    MaxAsides,      \* bound: events that other tools' results carry
    MaxMail,        \* bound: envelopes that are queued at once ...
    MaxOthers,      \* bound: ... other than those of the calls in the transcript
    MaxCompactions  \* bound

ASSUME BotTasksAssumption ==
    /\ NoWork \notin Works /\ NoPeer \notin Peers /\ Here \in Origins
    /\ {MaxListed, MaxCalls, MaxAsides, MaxMail, MaxOthers, MaxCompactions} \subseteq Nat

VARIABLES
    script,       \* the rows of the projected transcript
    posted,       \* the queued envelopes from (to a peer) or to the bot, oldest first
    asides,       \* events so far
    compactions,
    past          \* history: every row there ever was

tasksVars == <<script, posted, asides, compactions, past>>

\* The follow-up and the catalog are stores of their own: a prompt is built from
\* whatever they hold.
NoFollowup == [work |-> NoWork, status |-> "none"]
Followups == {NoFollowup}
    \cup [work : Works, status : {"open", "waiting_private", "received", "ready"}]

TasksInit ==
    /\ script = <<>> /\ posted = <<>> /\ past = <<>>
    /\ asides = 0 /\ compactions = 0

-----------------------------------------------------------------------------
(* Deriving the open tasks.                                                *)

\* results_seen: the result of call i, wherever it is in the transcript.
Answers(rows, i) == {rows[n] : n \in {k \in DOMAIN rows :
                                         rows[k].type = "answer" /\ rows[k].id = i}}

\* MUTANT of Opens: a call without its answer opens a task.
OpensUnacked(rows, call) == Answers(rows, call.id) = {}
\* A call opens a task unless its result is an error (a task_open that is refused
\* in words has none: it opens one); a delegated task that was answered is done,
\* one that is queued waits.
Opens(rows, call) ==
    \A a \in Answers(rows, call.id) :
        a.outcome # "error" /\ (call.name = "delegate" => a.outcome = "queued")

\* The names by which a later event may refer to the task: the call's own, and
\* the span that its result told of.
TaskNames(rows, call) ==
    {<<"call", call.id>>}
      \cup {<<"span", call.id>> : a \in {x \in Answers(rows, call.id) :
                                            x.outcome \in {"open", "queued"}}}

TaskOf(rows, call) ==
    [key |-> <<"call", call.id>>, names |-> TaskNames(rows, call),
     status |-> IF call.name = "open" THEN "open"
                ELSE IF Answers(rows, call.id) = {} THEN "delegated" ELSE "queued",
     peer |-> call.peer, work |-> call.work]

\* An event closes, or gives its status to, the task that it refers to.
ClosedBy(open, ref) == KeptAt(open, {n \in DOMAIN open : ref \notin open[n].names})
SteppedBy(open, ref) ==
    [n \in DOMAIN open |->
        IF ref \in open[n].names THEN [open[n] EXCEPT !.status = "step"] ELSE open[n]]

Applied(rows, open, row) ==
    IF row.type = "call" /\ Opens(rows, row) THEN Append(open, TaskOf(rows, row))
    ELSE IF row.type # "event" THEN open
    ELSE IF row.event = "close" THEN ClosedBy(open, row.ref) ELSE SteppedBy(open, row.ref)

\* The transcript is read row by row.
CallTasks(rows) ==
    LET upTo[n \in 0..Len(rows)] ==
            IF n = 0 THEN <<>> ELSE Applied(rows, upTo[n - 1], rows[n])
    IN upTo[Len(rows)]

\* Queued mail: to the bot it is work that the bot owes; from the bot it is
\* something to wait for, unless a task waits for that peer already.
WithEnvelope(open, e) ==
    LET key == <<"span", e.span>>
        known == \E n \in DOMAIN open : open[n].key = key
        awaited == \E n \in DOMAIN open : open[n].peer = e.to
    IN IF known \/ (e.to \in Peers /\ awaited) THEN open
       ELSE Append(open, [key |-> key, names |-> {key}, status |-> "mail",
                          peer |-> e.to, work |-> NoWork])

WithMail(open, mail) ==
    LET upTo[n \in 0..Len(mail)] ==
            IF n = 0 THEN open ELSE WithEnvelope(upTo[n - 1], mail[n])
    IN upTo[Len(mail)]

\* _pending_relevant: of the queued mail, what the memory view of the turn may
\* read, and of the bot's own mail what is in the box of a peer whose card loads.
\* (The code takes the bot's box first, then the peers': the order of the lines.)
RelevantAt(readable, carded) ==
    {n \in DOMAIN posted : /\ posted[n].room \in readable
                           /\ posted[n].to \in carded \cup {NoPeer}}
OpenTasks(relevant) == WithMail(CallTasks(script), KeptAt(posted, relevant))

-----------------------------------------------------------------------------
(* The work items of a window, and its prompt.                             *)

\* project_work_items: tasks that are linked to one memory task share an item,
\* which shows the last of them.
Listed(open, catalog) ==
    LET shown == SubSeq(open, 1, IF Len(open) < MaxListed THEN Len(open) ELSE MaxListed)
    IN {shown[n] : n \in {k \in DOMAIN shown :
            shown[k].work \in catalog =>
                \A j \in DOMAIN shown : shown[j].work = shown[k].work => j <= k}}

WorkItems(open, catalog) ==
    {[work |-> w, status |-> "open"] : w \in catalog}
      \cup {[work |-> NoWork, status |-> t.status] :
               t \in {x \in Listed(open, catalog) : x.work \notin catalog}}

Undecided(f) == f.status \in {"open", "waiting_private", "received"}

\* overlay_private_followups: in the follow-up's DM, in the group it came from,
\* and in any other window.
Overlay(items, f, window) ==
    LET shown(item) ==
            CASE f = NoFollowup \/ item.work # f.work -> item
              [] window = "dm" -> [item EXCEPT !.status = f.status]
              [] window = "origin" /\ Undecided(f) ->
                     [item EXCEPT !.status = "waiting_private"]
              [] OTHER -> item
        added == IF window = "origin" /\ Undecided(f) /\ \A x \in items : x.work # f.work
                   THEN {[work |-> f.work, status |-> "waiting_private"]} ELSE {}
    IN {shown(item) : item \in items} \cup added

\* <private_followup>: the question itself is for the DM only.
FollowupSection(f, window) ==
    CASE f = NoFollowup -> {}
      [] window = "dm" -> {f.status, "question"}
      [] window = "origin" /\ Undecided(f) -> {"waiting_private"}
      [] OTHER -> {}

-----------------------------------------------------------------------------
(* The bot's turns and what else changes under it.                         *)

CallIds == {past[n].id : n \in {k \in DOMAIN past : past[k].type = "call"}}
NextCall == Cardinality(CallIds) + 1

Written(row) == /\ script' = Append(script, row)
                /\ past' = Append(past, row)

\* task_open and the delegating calls: the row of the call, ...
CallTaskOpen(work) ==
    /\ NextCall <= MaxCalls
    /\ Written([type |-> "call", id |-> NextCall, name |-> "open",
                peer |-> NoPeer, work |-> work])
    /\ UNCHANGED <<posted, asides, compactions>>

CallDelegate(p) ==
    /\ NextCall <= MaxCalls
    /\ Written([type |-> "call", id |-> NextCall, name |-> "delegate",
                peer |-> p, work |-> NoWork])
    /\ UNCHANGED <<posted, asides, compactions>>

\* ... and of its result.  A process that dies in between leaves a call that is
\* never answered.
Asked == IF script = <<>> \/ Last(script).type # "call" THEN {} ELSE {Last(script)}
Resulted(call, outcome) ==
    Written([type |-> "answer", id |-> call.id, outcome |-> outcome])

\* The handler of task_open acknowledges; or refuses in words (no title, a work
\* id that is none), which is a result like any other; or fails.
AckTaskOpen(outcome) ==
    /\ \E call \in Asked : call.name = "open" /\ Resulted(call, outcome)
    /\ UNCHANGED <<posted, asides, compactions>>

\* _send_and_deliver: the peer ran its turn, or its lease was refused and the
\* envelope stays in the mailbox although the reply says delivered, or there is
\* nobody to deliver it.
AckDelegate(outcome, queues) ==
    /\ outcome \in {"error", "done"} \/ queues
    /\ outcome = "error" => ~queues
    /\ queues => Len(posted) < MaxMail
    /\ \E call \in Asked :
        /\ call.name = "delegate"
        /\ Resulted(call, outcome)
        /\ posted' = IF queues THEN Append(posted, [span |-> call.id, to |-> call.peer,
                                                     room |-> Here])
                               ELSE posted
    /\ UNCHANGED <<asides, compactions>>

\* A tool's result tells that a task ended or went a step on.
NoteEvent(event, ref) ==
    /\ asides < MaxAsides
    /\ Asked = {}
    /\ Written([type |-> "event", event |-> event, ref |-> ref, id |-> 0])
    /\ asides' = asides + 1
    /\ UNCHANGED <<posted, compactions>>

\* A compaction summarizes the first k rows; a call and its result stay together.
CompactScript(k) ==
    /\ compactions < MaxCompactions
    /\ k \in 1 .. Len(script) /\ script[k].type # "call"
    /\ script' = SubSeq(script, k + 1, Len(script))
    /\ compactions' = compactions + 1
    /\ UNCHANGED <<posted, asides, past>>

\* The mailboxes: a peer writes to the bot, or the bot from another window to a
\* peer; a turn drains what its memory view may read of one box.
OthersWrite(span, to, room) ==
    /\ Len(posted) < MaxMail
    /\ \A n \in DOMAIN posted : posted[n].span # span
    /\ to \in Peers => room # Here
    /\ posted' = Append(posted, [span |-> span, to |-> to, room |-> room])
    /\ UNCHANGED <<script, asides, compactions, past>>

DrainMail(box, readable) ==
    /\ \E n \in DOMAIN posted : posted[n].to = box /\ posted[n].room \in readable
    /\ posted' = KeptAt(posted, {n \in DOMAIN posted :
                                    posted[n].to # box \/ posted[n].room \notin readable})
    /\ UNCHANGED <<script, asides, compactions, past>>

TasksNext ==
    \/ \E w \in Works \cup {NoWork} : CallTaskOpen(w)
    \/ \E p \in Peers : CallDelegate(p)
    \/ \E outcome \in {"open", "refused", "error"} : AckTaskOpen(outcome)
    \/ \E outcome \in {"error", "done", "queued"}, queues \in BOOLEAN :
            AckDelegate(outcome, queues)
    \/ \E event \in {"close", "step"}, i \in CallIds, kind \in {"call", "span"} :
            NoteEvent(event, <<kind, i>>)
    \/ \E k \in 1 .. Len(script) : CompactScript(k)
    \/ \E s \in MaxCalls + 1 .. MaxCalls + MaxOthers, to \in Peers \cup {NoPeer}, r \in Origins :
            OthersWrite(s, to, r)
    \/ \E box \in Peers \cup {NoPeer}, readable \in SUBSET Origins :
            DrainMail(box, readable)

TasksSpec == TasksInit /\ [][TasksNext]_tasksVars

-----------------------------------------------------------------------------
(* Properties.                                                             *)

\* Reference: call i still opens a task (one refused in words does, too) if no
\* event after it, by any of its names, has closed it.
StillOpen(rows, i) ==
    \E n \in DOMAIN rows :
        /\ rows[n].type = "call" /\ rows[n].id = i
        /\ \A a \in Answers(rows, i) :
              a.outcome \notin {"error", "done"}
        /\ ~ \E m \in n .. Len(rows) :
                rows[m].type = "event" /\ rows[m].event = "close"
                /\ rows[m].ref \in TaskNames(rows, rows[n])

\* The index shows a task of the transcript exactly while it is open: one that
\* was closed does not come back, an acknowledgement closes nothing.
IndexIsExact(open) ==
    \A i \in CallIds : (\E n \in DOMAIN open : open[n].key = <<"call", i>>)
                      <=> StillOpen(script, i)

\* Mail that is relevant to the turn is never forgotten: the bot sees what it
\* owes, and for each peer that has not read its mail it sees that it waits.  Of
\* other mail, such as that of a room it may not read, there is no line.
MailIsShown(open, relevant) ==
    \A n \in DOMAIN posted :
        LET own == <<"span", posted[n].span>> IN
        IF n \notin relevant THEN \A t \in DOMAIN open : open[t].key # own
        ELSE \E t \in DOMAIN open : IF posted[n].to = NoPeer THEN open[t].key = own
                                    ELSE open[t].peer = posted[n].to

\* No task is shown twice.
ShownOnce(open) == \A m, n \in DOMAIN open : m # n => open[m].key # open[n].key

\* The group that a private follow-up came from sees only that something waits,
\* another window does not see that much.
FollowupStaysPrivate(open) ==
    \A catalog \in SUBSET Works :
        LET items == WorkItems(open, catalog) IN
        \A f \in Followups :
            /\ FollowupSection(f, "origin") \subseteq {"waiting_private"}
            /\ FollowupSection(f, "other") = {}
            /\ Overlay(items, f, "other") = items
            /\ \A item \in Overlay(items, f, "origin") \ items :
                   item.status = "waiting_private"

\* The task index (bots/tasks.py, work_items.py and workspace_context.py) tells
\* the bot exactly what is open, and no window what is not for it, whatever rooms
\* the turn may read and whichever cards load.
TasksAreHonest ==
    \A relevant \in {RelevantAt(r, c) : r \in SUBSET Origins, c \in SUBSET Peers} :
        LET open == OpenTasks(relevant) IN
        /\ IndexIsExact(open)
        /\ MailIsShown(open, relevant)
        /\ ShownOnce(open)
        /\ FollowupStaysPrivate(open)

=============================================================================

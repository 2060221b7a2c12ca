-------------------------- MODULE WorkspaceTimeline --------------------------
(***************************************************************************)
(* The journal of a bot's workspace (bots/timeline.py): one append-only    *)
(* file of message and view_reset events, from which the transcript of     *)
(* each window is projected.                                               *)
(*                                                                         *)
(* A handle is a live WorkspaceTimeline object.  It remembers the size and *)
(* the last seq that it saw, and scans the file again when the size has    *)
(* changed.  Handles of one process run on its event loop, so nothing of   *)
(* the same process comes between two steps of one method; another process *)
(* may, except where the file lock is held.                                *)
(***************************************************************************)
EXTENDS Naturals, Sequences, SequencesExt, FiniteSetsExt, Positions

CONSTANTS
    Handles,
    ProcOf,        \* ProcOf[h]: the process that h lives in
    Views,         \* the windows of the bot
    NoHandle,
    MaxEvents,     \* bound: events in the journal
    MaxTears       \* bound: appends that die or fail half-way

ASSUME TimelineAssumption ==
    /\ DOMAIN ProcOf = Handles /\ NoHandle \notin Handles
    /\ MaxEvents \in Nat /\ MaxTears \in Nat

VARIABLES
    journal,     \* the complete lines of the file
    torn,        \* whether a partial line follows them
    writer,      \* the handle that holds the file lock over an append
    handle,      \* handle[h]: phase, the size and seq it saw, its event
    memory,      \* memory[h]: the transcript its session manager loaded
    tears,       \* append attempts that left a partial line
    truth        \* history: what each window's transcript must read

timelineVars ==
    <<journal, torn, writer, handle, memory, tears, truth>>

NoEvent == [kind |-> "none"]
Closed == [phase |-> "closed", size |-> 0, seq |-> 0, event |-> NoEvent]

TimelineInit ==
    /\ journal = <<>>
    /\ torn = FALSE
    /\ writer = NoHandle
    /\ handle = [h \in Handles |-> Closed]
    /\ memory = [h \in Handles |-> <<>>]
    /\ tears = 0
    /\ truth = [w \in Views |-> [rows |-> <<>>, title |-> 0]]

-----------------------------------------------------------------------------
(* Reading.                                                                *)

\* st_size: it grows with every complete line, and with a partial one.
Size == 2 * Len(journal) + (IF torn THEN 1 ELSE 0)
\* _iter_events: a torn tail or a gap in the seqs raises TimelineError.
Readable == ~torn /\ \A i \in DOMAIN journal : journal[i].seq = i
LastSeq == IF journal = <<>> THEN 0 ELSE Last(journal).seq

\* project: the last view_reset of the window, and the messages after it.
Basis(w) == Max({0} \cup {i \in DOMAIN journal :
                             journal[i].kind = "reset" /\ journal[i].win = w})
Messages(w, from) ==
    LET own == KeptAt(journal, {i \in DOMAIN journal :
                   i > from /\ journal[i].kind = "message" /\ journal[i].win = w})
    IN [i \in DOMAIN own |-> own[i].rows[1]]
Project(w) ==
    LET b == Basis(w)
    IN IF b = 0 THEN [rows |-> Messages(w, 0), title |-> 0]
                ELSE [rows |-> journal[b].rows \o Messages(w, b), title |-> journal[b].title]
\* messages_for_window: the original messages, across every reset.
Originals(w) == Messages(w, 0)

\* Nothing of h's process is in the middle of a method.
NoMethodRuns(h) ==
    \A g \in Handles : ProcOf[g] = ProcOf[h] /\ g # h
                          => handle[g].phase \notin {"scanned", "writing"}
CanWork(h) == handle[h].phase = "open" /\ NoMethodRuns(h)

-----------------------------------------------------------------------------
(* Handles.                                                                *)

\* The constructor takes no lock: it reads the file, ...
OpenScan(h) ==
    /\ handle[h].phase = "closed" /\ NoMethodRuns(h)
    /\ Readable
    /\ handle' = [handle EXCEPT ![h] = [Closed EXCEPT !.phase = "scanned",
                                                      !.seq = LastSeq]]
    /\ UNCHANGED <<journal, torn, writer, memory, tears, truth>>

\* ... and then asks for its size.
OpenStat(h) ==
    /\ handle[h].phase = "scanned"
    /\ handle' = [handle EXCEPT ![h].phase = "open", ![h].size = Size]
    /\ UNCHANGED <<journal, torn, writer, memory, tears, truth>>

Close(h) ==
    /\ CanWork(h)
    /\ handle' = [handle EXCEPT ![h] = Closed]
    /\ memory' = [memory EXCEPT ![h] = <<>>]
    /\ UNCHANGED <<journal, torn, writer, tears, truth>>

\* SessionManager.load: the projection, which any reader may ask for.
Load(h, w) ==
    /\ CanWork(h)
    /\ Readable
    /\ memory' = [memory EXCEPT ![h] = Project(w).rows]
    /\ UNCHANGED <<journal, torn, writer, handle, tears, truth>>

-----------------------------------------------------------------------------
(* Writing.                                                                *)

\* MUTANT of NextSeq: the size of the journal is not compared.
NextSeqUnscanned(h) == 1 + handle[h].seq
\* The seq that h writes next: _record scans again if the size has changed.
NextSeq(h) == 1 + (IF handle[h].size = Size THEN handle[h].seq ELSE LastSeq)

\* _record: under the lock; the look-up of the event id reads the whole file
\* (ids are fresh, it finds nothing).  From here a partial line is in the file.
Record(h, kind, w, rows, title) ==
    /\ writer = NoHandle
    /\ Readable
    /\ Len(journal) < MaxEvents
    /\ torn' = TRUE
    /\ writer' = h
    /\ handle' = [handle EXCEPT ![h].phase = "writing",
                     ![h].event = [seq |-> NextSeq(h), win |-> w, kind |-> kind,
                                   rows |-> rows, title |-> title]]
    /\ UNCHANGED <<journal, tears>>

\* CanonicalSessionStore.append, and the manager's copy with it.
AppendMessage(h, w) ==
    LET row == Len(journal) + 1
    IN /\ CanWork(h)
       /\ Record(h, "message", w, <<row>>, 0)
       /\ memory' = [memory EXCEPT ![h] = Append(@, row)]
       /\ truth' = [truth EXCEPT ![w].rows = Append(@, row)]

\* rewrite with rows that were scanned just before (a compaction): the oldest
\* row leaves the view, the title that was scanned stays.  Scan and rewrite are
\* one step of the process, not of the file lock: what two processes that
\* compact one window do to its rows is not modelled.
Rewrite(h, w) ==
    LET p == Project(w)
    IN /\ CanWork(h)
       /\ p.rows # <<>>
       /\ Record(h, "reset", w, Tail(p.rows), p.title)
       /\ memory' = [memory EXCEPT ![h] = Tail(p.rows)]
       /\ truth' = [truth EXCEPT ![w].rows = Tail(p.rows)]

\* MUTANT of MetaRows: the rows of the last load are written back.
MetaRowsLoaded(h, w) == memory[h]
\* append_meta and its siblings (title, naming, bots, dm): a projection under
\* the lock, written back with one field changed.
MetaRows(h, w) == Project(w).rows
AppendMeta(h, w) ==
    /\ CanWork(h)
    /\ Record(h, "reset", w, MetaRows(h, w), Len(journal) + 1)
    /\ truth' = [truth EXCEPT ![w].title = Len(journal) + 1]
    /\ UNCHANGED memory

\* delete: the view is cleared, the journal keeps its events.
ClearView(h, w) ==
    /\ CanWork(h)
    /\ Project(w).rows # <<>>
    /\ Record(h, "reset", w, <<>>, 0)
    /\ truth' = [truth EXCEPT ![w] = [rows |-> <<>>, title |-> 0]]
    /\ UNCHANGED memory

\* The line is complete, on disk, and what h remembers of the file is fresh.
WriteDone(h) ==
    /\ handle[h].phase = "writing"
    /\ journal' = Append(journal, handle[h].event)
    /\ torn' = FALSE
    /\ writer' = NoHandle
    /\ handle' = [handle EXCEPT ![h] = [phase |-> "open", size |-> 2 * Len(journal) + 2,
                                        seq |-> handle[h].event.seq, event |-> NoEvent]]
    /\ UNCHANGED <<memory, tears, truth>>

\* The write fails half-way: the exception leaves the partial line behind, and
\* the event never was.  The history takes the effect back.
Undone(h) ==
    LET e == handle[h].event
        before == Project(e.win)
    IN [truth EXCEPT ![e.win] = before]
WriteFails(h) ==
    /\ handle[h].phase = "writing"
    /\ tears < MaxTears
    /\ tears' = tears + 1
    /\ writer' = NoHandle
    /\ handle' = [handle EXCEPT ![h].phase = "open", ![h].event = NoEvent]
    /\ truth' = Undone(h)
    /\ UNCHANGED <<journal, torn, memory>>

\* The process of h dies; the system releases the lock that it held.
Crash(h) ==
    /\ LET dead == {g \in Handles : ProcOf[g] = ProcOf[h]}
           lost == {g \in dead : handle[g].phase = "writing"}
       IN /\ \E g \in dead : handle[g].phase # "closed"
          /\ lost # {} => tears < MaxTears
          /\ handle' = [g \in Handles |-> IF g \in dead THEN Closed ELSE handle[g]]
          /\ memory' = [g \in Handles |-> IF g \in dead THEN <<>> ELSE memory[g]]
          /\ writer' = IF writer \in dead THEN NoHandle ELSE writer
          /\ tears' = IF lost = {} THEN tears ELSE tears + 1
          /\ truth' = IF lost = {} THEN truth ELSE Undone(CHOOSE g \in lost : TRUE)
    /\ UNCHANGED <<journal, torn>>

TimelineNext ==
    \/ \E h \in Handles :
          \/ OpenScan(h) \/ OpenStat(h) \/ Close(h)
          \/ WriteDone(h) \/ WriteFails(h) \/ Crash(h)
          \/ \E w \in Views : \/ Load(h, w) \/ AppendMessage(h, w) \/ Rewrite(h, w)
                              \/ AppendMeta(h, w) \/ ClearView(h, w)

TimelineSpec == TimelineInit /\ [][TimelineNext]_timelineVars

-----------------------------------------------------------------------------
(* Properties.                                                             *)

\* Complete lines never make the file unreadable: whatever handles are open,
\* however stale, the seqs count from one (what _record scans again for).
SeqsAreGapless == \A i \in DOMAIN journal : journal[i].seq = i

\* The projection is the transcript: appended rows, less what a compaction or
\* a delete took, with the last title; nothing of another window, and no row
\* lost to a write that started from an older copy.
ProjectionIsTruth == writer = NoHandle => \A w \in Views : Project(w) = truth[w]

\* A partial line is never written behind: once an append has died half-way
\* no event is added, the journal fails loud.
NothingBehindATear == tears > 0 => torn /\ writer = NoHandle

\* The journal stays readable and its projection is the transcript, whatever
\* handles are open and wherever a write dies (bots/timeline.py).
TimelineSafe == SeqsAreGapless /\ ProjectionIsTruth /\ NothingBehindATear
=============================================================================

---------------------------- MODULE MemoryNotebook ----------------------------
(***************************************************************************)
(* The memories (memories/): entries in one markdown file per day, each    *)
(* with an owner, the window it comes from, an expiry, and perhaps a task  *)
(* or a habit; and the SQLite index of the files of days that are over.    *)
(*                                                                         *)
(* A mutation rewrites a file under the process's mutation lock and then   *)
(* refreshes: expired entries are purged from the files, and the index is  *)
(* made again.  Readers do not take the lock.  They read the index, the    *)
(* file of today, or one after the other, and each path applies the rules  *)
(* of who may read what in code of its own: SQL, the heading scan of the   *)
(* prompt, the checks of memory_get.                                       *)
(***************************************************************************)
EXTENDS Naturals, FiniteSets, FiniteSetsExt

CONSTANTS
    NoteBots,     \* the child bots
    Privileged,   \* thyca, and the user: the caller who may read everything
    Team,         \* the owner of shared and of legacy entries
    NoteKinds,    \* what an entry is: a plain "note", a step that leaves the
                  \* task "open" or calls it "done", a habit "seen" or "said"
    Ttls,         \* TTL_DAYS, one for each importance
    NoteWindows,  \* windows: [dm |-> the bot or Team, members |-> its bots]
    MaxNotes,     \* bound: entries
    MaxDay,       \* bound: days
    HabitDays,    \* distinct days that make a habit
    MaxNoteFaults \* bound: crashes and refreshes that fail

ASSUME NotebookAssumption ==
    /\ Privileged \notin NoteBots /\ Team \notin NoteBots /\ Privileged # Team
    /\ NoteKinds \subseteq {"note", "open", "done", "seen", "said"}
    /\ Ttls \subseteq Nat \ {0}
    /\ {MaxNotes, MaxDay, HabitDays, MaxNoteFaults} \subseteq Nat

VARIABLES
    notes,       \* the entries in the daily files
    indexed,     \* the entries in SQLite
    today,
    mutation,    \* the mutation that holds the lock, and how far it is
    habits,      \* the bots in whose USER.md the habit has been written
    minted,      \* entry ids given out
    noteFaults,
    gone,        \* history: ids forgotten by a call that succeeded
    untidy       \* history: a refresh has failed since the last one that did not

notebookVars == <<notes, indexed, today, mutation, habits, minted, noteFaults, gone, untidy>>

Askers == NoteBots \cup {Privileged}
IdleJob == [step |-> "idle", drops |-> {}]

NotebookInit ==
    /\ notes = {} /\ indexed = {}
    /\ today = 1
    /\ mutation = IdleJob
    /\ habits = {}
    /\ minted = 0
    /\ noteFaults = 0
    /\ gone = {}
    /\ untidy = FALSE

Visible(e) == e.exp > today
Quiet == mutation.step = "idle"

-----------------------------------------------------------------------------
(* Who may read and who may change.                                        *)

\* MemoryView.can_read_origin: a group reads its own entries and those of
\* groups that all its members are in; a DM its bot's own DM and groups of it.
CanReadOrigin(b, w, origin) ==
    IF w.dm = Team
    THEN \/ origin = w
         \/ origin.dm = Team /\ w.members \subseteq origin.members
    ELSE \/ origin = w
         \/ IF origin.dm = Team THEN b \in origin.members ELSE origin.dm = b

\* MUTANT of RowFor: the team's rows are not found.
RowForOwn(b, e) == b = Privileged \/ e.owner = b
\* _reader_clause, in SQL.
RowFor(b, e) == b = Privileged \/ e.owner \in {Team, b}
\* visible_to, in the scans of today's file.
VisibleTo(b, e) == b = Privileged \/ e.owner = Team \/ e.owner = b

\* _lookup_bots: the index first, today's file for what it does not have.
LookupOwner(id) ==
    LET row == {e \in indexed : e.id = id}
        line == {e \in notes : e.id = id /\ Visible(e)}
    IN IF row # {} THEN (CHOOSE e \in row : TRUE).owner
       ELSE IF line # {} THEN (CHOOSE e \in line : TRUE).owner ELSE Team
MayMutate(b, id) == b = Privileged \/ LookupOwner(id) = b
MayRead(b, id) == b = Privileged \/ LookupOwner(id) \in {b, Team}

\* search, recent and the SQL half of the task catalog.
SearchFinds(b, w) == {e \in indexed : Visible(e) /\ RowFor(b, e) /\ CanReadOrigin(b, w, e.chat)}

\* split_today_by_session: what the prompt shows of today.
PromptShows(b, w) ==
    {e \in notes : e.day = today /\ VisibleTo(b, e) /\ CanReadOrigin(b, w, e.chat)}

\* get: the index, else the file; ...
GetFinds(id) ==
    IF \E e \in indexed : e.id = id
    THEN {e \in indexed : e.id = id /\ Visible(e)}
    ELSE {e \in notes : e.id = id /\ Visible(e)}

\* ... then the owner and the origin.  A leaf (chunk_id) that is not indexed has no
\* heading, so that its origin is not known: a group is refused it, another window not.
Readable(b, w, id, leaf) ==
    {e \in GetFinds(id) :
        /\ MayRead(b, id)
        /\ IF leaf /\ e \notin indexed THEN w.dm # Team ELSE CanReadOrigin(b, w, e.chat)}

\* Who may change the entry renews it with the reading: without its line in the
\* file the call fails.
Renews(b, id) == MayMutate(b, id) => \E e \in notes : e.id = id
GetsEntry(b, w, id, leaf) == {e \in Readable(b, w, id, leaf) : Renews(b, id)}
Gets(b, w, leaf) == UNION {GetsEntry(b, w, id, leaf) : id \in 1..minted}

\* tasks: rows of the index, and today's file for the sessions it lacks.
TaskRows(b, w) ==
    LET rows == {e \in SearchFinds(b, w) : e.kind \in {"open", "done"}}
    IN rows \cup {e \in notes :
            /\ e.day = today /\ e.kind \in {"open", "done"} /\ Visible(e)
            /\ \A r \in rows : r.id # e.id
            /\ VisibleTo(b, e) /\ CanReadOrigin(b, w, e.chat)}

-----------------------------------------------------------------------------
(* Mutations: the file, then the refresh.                                  *)

Begins(drops) ==
    /\ Quiet
    /\ mutation' = [step |-> "written", drops |-> drops]
    /\ UNCHANGED <<indexed, today, habits, noteFaults, gone, untidy>>

\* remember: a bot's entry is its own; the user's is the team's, and the
\* sidecar writes for any bot.
Remember(b, owner, kind, ttl, w) ==
    /\ minted < MaxNotes
    /\ IF b = Privileged THEN owner \in NoteBots \cup {Team} ELSE owner = b
    /\ b \in NoteBots => b \in w.members
    /\ notes' = notes \cup {[id |-> minted + 1, day |-> today, owner |-> owner,
                             chat |-> w, ttl |-> ttl, exp |-> today + ttl, kind |-> kind]}
    /\ minted' = minted + 1
    /\ Begins({})

\* The writer finds the heading in the file, expired or not.
Rewritten(id, e) == (notes \ {d \in notes : d.id = id}) \cup {e}

Forget(b, e) ==
    /\ MayMutate(b, e.id)
    /\ notes' = notes \ {e}
    /\ Begins({e.id})
    /\ UNCHANGED minted

Update(b, e, kind) ==
    /\ MayMutate(b, e.id) /\ kind # e.kind
    /\ notes' = Rewritten(e.id, [e EXCEPT !.kind = kind])
    /\ Begins({})
    /\ UNCHANGED minted

Reinforce(b, e, ttl) ==
    /\ MayMutate(b, e.id)
    /\ notes' = Rewritten(e.id, [e EXCEPT !.ttl = ttl, !.exp = today + ttl])
    /\ Begins({})
    /\ UNCHANGED minted

\* get, by session or by leaf, of an entry that its caller may change.
Get(b, w, id) ==
    /\ \E leaf \in BOOLEAN : GetsEntry(b, w, id, leaf) # {}
    /\ MayMutate(b, id)
    /\ \E e \in notes :
        /\ e.id = id
        /\ notes' = Rewritten(id, [e EXCEPT !.exp = today + e.ttl])
    /\ Begins({})
    /\ UNCHANGED minted

\* A deleted bot's own entries go with it.
ForgetBot(b) ==
    /\ notes' = {e \in notes : e.owner # b}
    /\ Begins({e.id : e \in {d \in notes : d.owner = b}})
    /\ UNCHANGED minted

\* purge_expired rewrites every daily file.
Purge ==
    /\ mutation.step = "written"
    /\ notes' = {e \in notes : Visible(e)}
    /\ mutation' = [mutation EXCEPT !.step = "purged"]
    /\ UNCHANGED <<indexed, today, habits, minted, noteFaults, gone, untidy>>

\* MUTANT of Reindexed: a file that was indexed once is not read again.
ReindexedOnce == indexed \cup {e \in notes :
    e.day < today /\ \A d \in indexed : d.id # e.id}
\* reindex: files that changed, were rewritten or are new; today's is out.
Reindexed == {e \in notes : e.day < today}
Reindex ==
    /\ mutation.step = "purged"
    /\ indexed' = Reindexed
    /\ gone' = gone \cup mutation.drops
    /\ untidy' = FALSE
    /\ mutation' = IdleJob
    /\ UNCHANGED <<notes, today, habits, minted, noteFaults>>

\* The database is locked or a file is not readable: the call fails after it
\* has changed its file.
RefreshFails ==
    /\ ~Quiet /\ noteFaults < MaxNoteFaults
    /\ noteFaults' = noteFaults + 1
    /\ mutation' = IdleJob
    /\ untidy' = TRUE
    /\ UNCHANGED <<notes, indexed, today, habits, minted, gone>>

\* The process dies; the next one indexes before it serves.
CrashAndRestart ==
    /\ noteFaults < MaxNoteFaults
    /\ noteFaults' = noteFaults + 1
    /\ mutation' = IdleJob
    /\ indexed' = Reindexed
    /\ untidy' = FALSE
    /\ UNCHANGED <<notes, today, habits, minted, gone>>

\* Midnight.  No day-close hook is installed: nothing is indexed.
NextDay ==
    /\ today < MaxDay
    /\ today' = today + 1
    /\ UNCHANGED <<notes, indexed, mutation, habits, minted, noteFaults, gone, untidy>>

\* sweep_bot_habits: own entries only, one stated or enough distinct days.
Observations(b) ==
    {e \in indexed \cup {d \in notes : d.day = today} :
        e.kind \in {"seen", "said"} /\ Visible(e) /\ e.owner = b}
SweepHabits(b) ==
    /\ b \notin habits
    /\ \/ \E e \in Observations(b) : e.kind = "said"
       \/ Cardinality({e.day : e \in Observations(b)}) >= HabitDays
    /\ habits' = habits \cup {b}
    /\ UNCHANGED <<notes, indexed, today, mutation, minted, noteFaults, gone, untidy>>

NotebookNext ==
    \/ \E b \in Askers, o \in NoteBots \cup {Team}, k \in NoteKinds, t \in Ttls, w \in NoteWindows :
        Remember(b, o, k, t, w)
    \/ \E b \in Askers, e \in notes :
        \/ Forget(b, e)
        \/ \E k \in NoteKinds : Update(b, e, k)
        \/ \E t \in Ttls : Reinforce(b, e, t)
    \/ \E b \in Askers, w \in NoteWindows, id \in 1..minted : Get(b, w, id)
    \/ \E b \in NoteBots : ForgetBot(b) \/ SweepHabits(b)
    \/ Purge \/ Reindex \/ RefreshFails \/ CrashAndRestart \/ NextDay

NotebookSpec == NotebookInit /\ [][NotebookNext]_notebookVars

-----------------------------------------------------------------------------
(* Properties.                                                             *)

\* Entries of a bot that the index still has and their file has not: a call to
\* forget them, or their expiry, is not yet through or has failed.
Orphans(b) == {e \in indexed : e.owner = b /\ \A d \in notes : d.id # e.id}

\* The paths agree on who may read what: but for its orphans a bot finds an entry of
\* a day that is over by search exactly when it can get it, sees an entry of today in
\* its prompt exactly when it can get it, and its task catalog shows what it gets,
\* also while a mutation is under way and after one that failed.  By leaf it gets
\* what is indexed as it does by session; of the rest a group gets nothing, and a
\* DM no entry of another bot, though it may get one of a window it cannot read.
AgreeFor(b, w) ==
    LET got == Gets(b, w, FALSE)
        leaves == Gets(b, w, TRUE)
    IN /\ SearchFinds(b, w) \ Orphans(b) = got \cap indexed
       /\ PromptShows(b, w) = {e \in got : e.day = today}
       /\ TaskRows(b, w) \ Orphans(b) = {e \in got :
            /\ e.kind \in {"open", "done"}
            /\ e \in indexed \/ e.day = today}
       /\ leaves \cap indexed = got \cap indexed
       /\ w.dm = Team => leaves \subseteq got
       /\ \A e \in leaves : e.owner \in {b, Team}
PathsAgree == \A b \in NoteBots, w \in NoteWindows : b \in w.members => AgreeFor(b, w)

\* What a call has forgotten is never read again by any path: not by a crash, a
\* refresh that fails or a rewrite of another entry does it come back.
ForgottenIsGone == \A e \in notes \cup indexed : e.id \notin gone

\* Once a mutation has returned, what the index says of an entry is what its
\* file says, whatever changed, expired or failed before.
IndexIsFaithful == (Quiet /\ ~untidy) => indexed \subseteq notes

NotebookHolds == PathsAgree /\ ForgottenIsGone /\ IndexIsFaithful

\* facade.py:183: a task "opened today is not indexed yet (today's daily file
\* only enters SQLite after day-close), but the catalog must show it": a task
\* whose entries a bot can get is in its catalog.  After midnight they are in
\* neither, until the first mutation of the new day.
OpenTaskIsCatalogued ==
    (Quiet /\ ~untidy) => \A b \in NoteBots, w \in NoteWindows :
        (b \in w.members /\ \E e \in Gets(b, w, FALSE) : e.kind \in {"open", "done"})
            => TaskRows(b, w) # {}
=============================================================================

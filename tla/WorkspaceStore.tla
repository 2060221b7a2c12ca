--------------------------- MODULE WorkspaceStore ---------------------------
(***************************************************************************)
(* The workspace registry of each bot (bots/workspace_store.py): which     *)
(* stream of its journal a window is, and which tasks the bot owns.        *)
(*                                                                         *)
(* Every update reads, changes and writes the file under the lock of the   *)
(* bot's registry, so each is one step here.  What a turn does is several  *)
(* of them; turns of other processes come in between, and may die.  Reads  *)
(* take no lock: the owner of a task is looked up in the bot's own file,   *)
(* in the files of the others one by one, and then in the memories.        *)
(***************************************************************************)
EXTENDS Naturals, FiniteSets, Sequences, SequencesExt

CONSTANTS
    Hosts,         \* the bots, each with a registry
    Chats,         \* the windows
    Goals,         \* the tasks that memory_remember may mint
    Acts,          \* turns in flight, of any process
    NoHost,
    MaxBegun,      \* bound: turns that begin
    MaxMints,      \* bound: session ids given out
    MaxEntries,    \* bound: memory entries about tasks
    MaxRewindows,  \* bound: changes of a window
    MaxDamage      \* bound: files that get damaged

ASSUME WorkspaceStoreAssumption ==
    /\ NoHost \notin Hosts
    /\ {MaxBegun, MaxMints, MaxEntries, MaxRewindows, MaxDamage} \subseteq Nat

VARIABLES
    bindings,   \* of a bot and a window: session (0: none), metadata, cursor
    owners,     \* of a bot's registry: the owner of a task
    broken,     \* the bots whose file cannot be parsed
    sessionIds, \* session ids given out
    window,     \* the metadata of the windows now; 0: it does not resolve
    entries,    \* the entries with a task, oldest first; NoHost: not one bot's
    named,      \* history: the tasks that new_task has minted
    act,        \* the turns
    begun       \* turns that have begun

storeVars == <<bindings, owners, broken, sessionIds, window, entries, named, act, begun>>

NoAct == [step |-> "idle", bot |-> NoHost, chat |-> NoHost, session |-> 0, meta |-> 0,
          task |-> NoHost, unread |-> {}, found |-> {}, known |-> {}]
\* The binding of a window that has none.
Unbound == [session |-> 0, meta |-> 0, cursor |-> FALSE]

StoreInit ==
    /\ bindings = [b \in Hosts |-> [w \in Chats |-> Unbound]]
    /\ owners = [b \in Hosts |-> [t \in Goals |-> NoHost]]
    /\ broken = {}
    /\ sessionIds = 0
    /\ window = [w \in Chats |-> 1]
    /\ entries = <<>>
    /\ named = {}
    /\ act = [a \in Acts |-> NoAct]
    /\ begun = 0

\* The metadata of the view that a window gets which does not resolve.
Private == MaxRewindows + 2

At(a, step) == act[a].step = step
OwnersKept == UNCHANGED <<owners, broken, window, entries, named, begun>>
BindingsKept == UNCHANGED <<bindings, sessionIds, window, begun>>

-----------------------------------------------------------------------------
(* Windows and their streams.                                              *)

\* MUTANT of Minted: each update of a binding mints.
MintedAnew(x) == sessionIds + 1
\* _update_locked: a binding gets its session id once.
Minted(x) == IF x.session = 0 THEN sessionIds + 1 ELSE x.session

\* _update_locked for a window; metadata 0 leaves what there is.
Update(b, w, meta) ==
    LET old == bindings[b][w]
        id == Minted(old)
    IN /\ b \notin broken
       /\ id <= MaxMints
       /\ sessionIds' = IF id > sessionIds THEN id ELSE sessionIds
       /\ bindings' = [bindings EXCEPT ![b][w] =
            [old EXCEPT !.session = id, !.meta = IF meta = 0 THEN @ ELSE meta]]

\* A turn has its lease, or a delivery its recipient: the window is bound as it
\* is now, if it resolves.
Lease(a, b, w) ==
    /\ At(a, "idle") /\ begun < MaxBegun
    /\ begun' = begun + 1
    /\ act' = [act EXCEPT ![a] = [NoAct EXCEPT !.step = "leased", !.bot = b, !.chat = w]]
    /\ IF window[w] = 0
       THEN UNCHANGED <<bindings, sessionIds>>
       ELSE Update(b, w, window[w])
    /\ UNCHANGED <<owners, broken, window, entries, named>>

\* internal_session: ensure_session.
EnsureSession(a) ==
    LET b == act[a].bot
        w == act[a].chat
    IN /\ At(a, "leased")
       /\ Update(b, w, 0)
       /\ act' = [act EXCEPT ![a].step = "ensured",
                             ![a].session = bindings'[b][w].session,
                             ![a].meta = bindings'[b][w].meta]
       /\ OwnersKept

\* internal_session: the window as it is now, a private one if there is none,
\* is bound unless the binding that ensure_session returned has it already.
BindIfChanged(a) ==
    LET b == act[a].bot
        w == act[a].chat
        meta == IF window[w] = 0 THEN Private ELSE window[w]
    IN /\ At(a, "ensured")
       /\ IF act[a].meta = meta
          THEN UNCHANGED <<bindings, sessionIds>>
          ELSE Update(b, w, meta)
       /\ act' = [act EXCEPT ![a].step = "runs", ![a].meta = 0,
                             ![a].session = bindings'[b][w].session]
       /\ OwnersKept

\* set_cursor: only on a binding; what fails is left out by the caller.
EndTurn(a) ==
    LET b == act[a].bot
        w == act[a].chat
    IN /\ At(a, "runs")
       /\ act' = [act EXCEPT ![a] = NoAct]
       /\ bindings' = IF b \in broken \/ bindings[b][w].session = 0 THEN bindings
                      ELSE [bindings EXCEPT ![b][w].cursor = TRUE]
       /\ UNCHANGED sessionIds
       /\ OwnersKept

\* The roster or the title changes, or the conversation is deleted.
Rewindow(w) ==
    /\ window[w] \in 1..MaxRewindows
    /\ \E meta \in {0, window[w] + 1} : window' = [window EXCEPT ![w] = meta]
    /\ UNCHANGED <<bindings, owners, broken, sessionIds, entries, named, act, begun>>

-----------------------------------------------------------------------------
(* The owners of tasks.                                                    *)

Adds(t, owner) ==
    /\ Len(entries) < MaxEntries
    /\ entries' = Append(entries, [task |-> t, owner |-> owner])

\* memory_remember with new_task: the entry is written first, by its own store.
RememberNewTask(a, t) ==
    /\ At(a, "runs") /\ t \notin named
    /\ Adds(t, act[a].bot)
    /\ named' = named \cup {t}
    /\ act' = [act EXCEPT ![a].step = "record", ![a].task = t]
    /\ BindingsKept /\ UNCHANGED <<owners, broken>>

\* record_task_owner: refused for a task of somebody else, or by a damaged file.
RecordTaskOwner(a) ==
    LET b == act[a].bot
        t == act[a].task
    IN /\ At(a, "record")
       /\ owners' = IF b \notin broken /\ owners[b][t] = NoHost
                    THEN [owners EXCEPT ![b][t] = b] ELSE owners
       /\ act' = [act EXCEPT ![a].step = "runs", ![a].task = NoHost]
       /\ BindingsKept /\ UNCHANGED <<broken, entries, named>>

\* memory_remember about a task that there is; the user's entries are the team's.
Remember(t) ==
    /\ \E owner \in {NoHost} \cup {act[a].bot : a \in {x \in Acts : At(x, "runs")}} :
          Adds(t, owner)
    /\ t \in named
    /\ BindingsKept /\ UNCHANGED <<owners, broken, named, act>>

\* An entry is forgotten, or expires.
DropEntry(i) ==
    /\ entries' = RemoveAt(entries, i)
    /\ BindingsKept /\ UNCHANGED <<owners, broken, named, act>>

\* task_owner: the bot's own registry.  A damaged one ends the call.
AskOwner(a, t) ==
    LET b == act[a].bot
        own == owners[b][t]
    IN /\ At(a, "runs") /\ b \notin broken
       /\ act' = [act EXCEPT
            ![a].step = IF own = NoHost THEN "others" ELSE "answered",
            ![a].task = t,
            ![a].found = {own} \ {NoHost},
            ![a].unread = IF own = NoHost THEN Hosts \ {b} ELSE {},
            ![a].known = {owners[c][t] : c \in Hosts} \ {NoHost}]
       /\ BindingsKept /\ UNCHANGED <<owners, broken, entries, named>>

\* MUTANT of Denies: a registry that cannot be read is passed over.
DeniesNone(c) == FALSE
\* One that cannot be read might own the task: nobody is named.
Denies(c) == c \in broken

\* task_owner_fallback: one more registry.
ReadOther(a) ==
    /\ At(a, "others")
    /\ \E c \in act[a].unread :
         LET says == IF c \in broken THEN {} ELSE {owners[c][act[a].task]} \ {NoHost} IN
         IF Denies(c)
         THEN act' = [act EXCEPT ![a].step = "answered", ![a].found = {}, ![a].unread = {}]
         ELSE act' = [act EXCEPT ![a].unread = @ \ {c}, ![a].found = @ \cup says]
    /\ BindingsKept /\ UNCHANGED <<owners, broken, entries, named>>

\* MUTANT of Adopted: the memories count more than the registries.
AdoptedFirst(found, t) ==
    LET about == SelectSeq(entries, LAMBDA e : e.task = t)
    IN IF about # <<>> THEN {Head(about).owner} \ {NoHost} ELSE found
\* All are read: the one owner they name; nobody if they disagree; the bot of
\* the oldest entry if they name nobody.
Adopted(found, t) ==
    LET about == SelectSeq(entries, LAMBDA e : e.task = t)
    IN IF found # {} THEN IF \E x \in found : found = {x} THEN found ELSE {}
       ELSE IF about = <<>> THEN {} ELSE {Head(about).owner} \ {NoHost}
ReadMemories(a) ==
    /\ At(a, "others") /\ act[a].unread = {}
    /\ act' = [act EXCEPT ![a].step = "answered",
                          ![a].found = Adopted(act[a].found, act[a].task)]
    /\ BindingsKept /\ UNCHANGED <<owners, broken, entries, named>>

\* ask_private goes on, or is denied.
UseAnswer(a) ==
    /\ At(a, "answered")
    /\ act' = [act EXCEPT ![a] = [NoAct EXCEPT !.step = "runs", !.bot = act[a].bot,
                                       !.chat = act[a].chat, !.session = act[a].session]]
    /\ BindingsKept /\ UNCHANGED <<owners, broken, entries, named>>

-----------------------------------------------------------------------------
\* The turn fails, or its process dies.
Dies(a) ==
    /\ ~At(a, "idle")
    /\ act' = [act EXCEPT ![a] = NoAct]
    /\ BindingsKept /\ UNCHANGED <<owners, broken, entries, named>>

\* A registry is damaged from outside; nothing repairs it.
Damage(b) ==
    /\ Cardinality(broken) < MaxDamage
    /\ b \notin broken
    /\ broken' = broken \cup {b}
    /\ BindingsKept /\ UNCHANGED <<owners, entries, named, act>>

StoreNext ==
    \/ \E a \in Acts, b \in Hosts, w \in Chats : Lease(a, b, w)
    \/ \E a \in Acts : \/ EnsureSession(a)
                       \/ BindIfChanged(a)
                       \/ EndTurn(a)
                       \/ RecordTaskOwner(a)
                       \/ ReadOther(a)
                       \/ ReadMemories(a)
                       \/ UseAnswer(a)
                       \/ Dies(a)
    \/ \E a \in Acts, t \in Goals : RememberNewTask(a, t) \/ AskOwner(a, t)
    \/ \E w \in Chats : Rewindow(w)
    \/ \E t \in Goals : Remember(t)
    \/ \E i \in DOMAIN entries : DropEntry(i)
    \/ \E b \in Hosts : Damage(b)

StoreSpec == StoreInit /\ [][StoreNext]_storeVars

-----------------------------------------------------------------------------
\* "Mints a stable internal session id on first use" (ensure_session): the
\* stream that a turn writes to is the one that any later turn of its window
\* opens, and is no other window's, whoever opens it at the same time.
StreamIsStable ==
    \A a \in Acts : act[a].session # 0 =>
        \A b \in Hosts, w \in Chats :
            bindings[b][w].session = act[a].session <=> b = act[a].bot /\ w = act[a].chat

\* "A task already owned by another bot's registry wins globally"
\* (task_owner_fallback): what is on record when the question is put is the
\* answer, or nobody is; neither a forgotten entry nor a file that cannot be
\* read gives the task to another bot.
RecordWins ==
    \A a \in Acts : At(a, "answered") /\ act[a].known # {} => act[a].found \subseteq act[a].known

\* A window keeps the stream it was given, whoever else opens it at the same
\* time (bots/workspace_store.py), and a task keeps the owner on record
\* (bots/channel_tools.py).
RegistrySafe == StreamIsStable /\ RecordWins
=============================================================================

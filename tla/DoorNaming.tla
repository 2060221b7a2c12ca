------------------------------ MODULE DoorNaming ------------------------------
(***************************************************************************)
(* The metadata of one door (title, title_source, naming_attempted,        *)
(* participants: one JSON column of `conversations`) and those who write   *)
(* it at the same time:                                                    *)
(*   - the naming step at the end of a turn (app/naming.py), which asks    *)
(*     the model once for a title and runs on the event loop;              *)
(*   - the sidebar rename, and the adding and removing of bots, on the     *)
(*     threads of the HTTP server.                                         *)
(* Every read and every write of the column is one transaction; the naming *)
(* step and the room edit are several of them.  A turn holds the claim of  *)
(* its window, so the door has one at a time; the process may stop at any  *)
(* point of it.                                                            *)
(***************************************************************************)
EXTENDS Naturals, FiniteSets

CONSTANTS
  Bots,        \* bot ids
  Editors,     \* concurrent HTTP requests that edit the room's bots
  UserTitles,  \* titles typed in the sidebar
  AutoTitle,   \* what the model proposes
  NoTitle,     \* the absence of a title
  MaxTurns     \* bound of the model: turns of the door

ASSUME TitlesAssumption ==
  /\ AutoTitle \notin UserTitles
  /\ NoTitle \notin UserTitles \cup {AutoTitle}
ASSUME MaxTurnsAssumption == MaxTurns \in Nat
ASSUME SomeBot == Bots # {}

VARIABLES
  metadata,  \* the row: title, title_source, naming_attempted, participants
  turn,      \* the turn at its naming step: where it is, its bot, what it read
  edit,      \* per HTTP request: the roster it is about to write
  turns,     \* turns that reached the naming step
  calls      \* history: the naming calls made to the model

vars == <<metadata, turn, edit, turns, calls>>

Titles == UserTitles \cup {AutoTitle, NoTitle}
Metadata == [title : Titles, title_source : {"user", "none"},
             naming_attempted : BOOLEAN, participants : SUBSET Bots]

NoTurn == [pc |-> "idle", bot |-> CHOOSE b \in Bots : TRUE,
           loaded |-> [title |-> NoTitle, title_source |-> "none",
                       naming_attempted |-> FALSE, participants |-> {}]]
NoEdit == [busy |-> FALSE, roster |-> {}]

Init ==
  /\ metadata \in {[title |-> NoTitle, title_source |-> "none",
                    naming_attempted |-> FALSE, participants |-> bots] :
                   bots \in (SUBSET Bots) \ {{}}}
  /\ turn = NoTurn
  /\ edit = [e \in Editors |-> NoEdit]
  /\ turns = 0
  /\ calls = 0

-----------------------------------------------------------------------------
(* The naming step                                                         *)

\* A turn of bot b has answered; its Session was read from the row.
Load(b) ==
  /\ turn.pc = "idle"
  /\ turns < MaxTurns
  /\ b \in metadata.participants
  /\ turns' = turns + 1
  /\ turn' = [pc |-> "loaded", bot |-> b, loaded |-> metadata]
  /\ UNCHANGED <<metadata, edit, calls>>

EndTurn == turn' = NoTurn

\* The title is read again; a door with a title, or whose attempt is spent, is
\* left alone (as is one with too few completed turns).
Check ==
  /\ turn.pc = "loaded"
  /\ \/ /\ metadata.title = NoTitle /\ turn.loaded.title = NoTitle
        /\ ~turn.loaded.naming_attempted
        /\ turn' = [turn EXCEPT !.pc = "mark"]
     \/ EndTurn
  /\ UNCHANGED <<metadata, edit, turns, calls>>

MayWrite(b) == b \in metadata.participants

\* mark_naming_attempted reads the row for itself.  A door that is marked
\* already needs no write; a bot that is no participant any more is refused,
\* and the step ends there.
MarkRead ==
  /\ turn.pc = "mark"
  /\ \/ /\ MayWrite(turn.bot)
        /\ turn' = [turn EXCEPT
             !.pc = IF metadata.naming_attempted THEN "propose" ELSE "marking",
             !.loaded = metadata]
     \/ ~MayWrite(turn.bot) /\ EndTurn
  /\ UNCHANGED <<metadata, edit, turns, calls>>

\* MUTANT of MarkWrite: a mark that could not be stored does not stop the call.
MarkWriteIgnored ==
  /\ turn.pc = "marking"
  /\ metadata' = IF MayWrite(turn.bot) THEN [turn.loaded EXCEPT !.naming_attempted = TRUE]
                                       ELSE metadata
  /\ turn' = [turn EXCEPT !.pc = "propose"]
  /\ UNCHANGED <<edit, turns, calls>>

\* ... and writes all of it back in a second transaction.
MarkWrite ==
  /\ turn.pc = "marking"
  /\ \/ /\ MayWrite(turn.bot)
        /\ metadata' = [turn.loaded EXCEPT !.naming_attempted = TRUE]
        /\ turn' = [turn EXCEPT !.pc = "propose"]
     \/ /\ ~MayWrite(turn.bot)
        /\ EndTurn
        /\ UNCHANGED metadata
  /\ UNCHANGED <<edit, turns, calls>>

\* The model is asked; it fails, or proposes a title.
Propose ==
  /\ turn.pc = "propose"
  /\ calls' = calls + 1
  /\ EndTurn \/ turn' = [turn EXCEPT !.pc = "store"]
  /\ UNCHANGED <<metadata, edit, turns>>

\* store_title_if_missing: the check and the write are one transaction.
StoreTitleIfMissing ==
  /\ turn.pc = "store"
  /\ metadata' = IF MayWrite(turn.bot) /\ metadata.title = NoTitle
                 THEN [metadata EXCEPT !.title = AutoTitle, !.title_source = "none"]
                 ELSE metadata
  /\ EndTurn
  /\ UNCHANGED <<edit, turns, calls>>

\* The process stops: the turn is gone, the row stays.
Crash ==
  /\ turn.pc # "idle" \/ \E e \in Editors : edit[e].busy
  /\ EndTurn
  /\ edit' = [e \in Editors |-> NoEdit]
  /\ UNCHANGED <<metadata, turns, calls>>

-----------------------------------------------------------------------------
(* The HTTP server's threads                                               *)

\* rename_session: title and source are changed inside one transaction.
Rename(title) ==
  /\ metadata' = [metadata EXCEPT !.title = title, !.title_source = "user"]
  /\ UNCHANGED <<turn, edit, turns, calls>>

\* "bot not in room", and "room must keep at least one bot".
Removable(b) == b \in metadata.participants /\ metadata.participants # {b}

\* set_room_bots reads the roster of the door, to add a bot or to remove one ...
EditRead(e, b) ==
  /\ ~edit[e].busy
  /\ \E roster \in {metadata.participants \cup {b}} \cup
        (IF Removable(b) THEN {metadata.participants \ {b}} ELSE {}) :
       edit' = [edit EXCEPT ![e] = [busy |-> TRUE, roster |-> roster]]
  /\ UNCHANGED <<metadata, turn, turns, calls>>

\* ... and stores the new one, whatever the roster is by then.
EditWrite(e) ==
  /\ edit[e].busy
  /\ metadata' = [metadata EXCEPT !.participants = edit[e].roster]
  /\ edit' = [edit EXCEPT ![e] = NoEdit]
  /\ UNCHANGED <<turn, turns, calls>>

Next ==
  \/ \E b \in Bots : Load(b)
  \/ Check \/ MarkRead \/ MarkWrite \/ Propose \/ StoreTitleIfMissing \/ Crash
  \/ \E title \in UserTitles : Rename(title)
  \/ \E e \in Editors, b \in Bots : EditRead(e, b)
  \/ \E e \in Editors : EditWrite(e)

Spec == Init /\ [][Next]_vars

-----------------------------------------------------------------------------
(* Properties                                                              *)

\* Every variable has its type; a door is never left without a bot.
TypeOK ==
  /\ metadata \in Metadata
  /\ metadata.participants # {}
  /\ turn \in [pc : {"idle", "loaded", "mark", "marking", "propose", "store"},
               bot : Bots, loaded : Metadata]
  /\ edit \in [Editors -> [busy : BOOLEAN, roster : SUBSET Bots]]
  /\ turns \in Nat
  /\ calls \in Nat

\* The naming call is made at most once in the life of a door, whatever crashes,
\* fails or is refused and however the row is rewritten meanwhile, and a title
\* that the model proposed comes from that one call.
OneAttempt ==
  /\ calls <= 1
  /\ calls = 1 => metadata.naming_attempted
  /\ metadata.title = AutoTitle => calls = 1

\* conversations/store/turn_pipeline.py:181 of mark_naming_attempted: "flips
\* ``naming_attempted`` in the door metadata atomically, preserving
\* title/source/participants".  So a title the user typed stays the user's.
UserTitleKept ==
  [][metadata.title_source = "user" => metadata'.title_source = "user"]_vars
===============================================================================

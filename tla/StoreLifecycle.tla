---------------------------- MODULE StoreLifecycle ----------------------------
(***************************************************************************)
(* The handshakes of thyca/conversations/store/lifecycle.py that bring a   *)
(* store root, and the door of a bot's DM, into being.  Each is spread     *)
(* over files and a database that no single transaction covers:            *)
(*                                                                         *)
(*   marker "pending" -> row "pending" -> marker "ready" -> row "ready"    *)
(*                                                                         *)
(* A marker is published through a temporary file and a rename.  A process *)
(* may die, and every step may fail, between any two of these; the answer  *)
(* of the last COMMIT may be lost.  Nothing is ever resumed or repaired:   *)
(* what an earlier attempt left behind is refused.                         *)
(*                                                                         *)
(* Several processes start at once on the same root.  initialize_root      *)
(* takes the lock of the root directory, then that of the lock file; every *)
(* other operation takes the lock of the lock file only.  A process's      *)
(* program counter says which locks it holds; the kernel releases them     *)
(* when it stops.                                                          *)
(***************************************************************************)
EXTENDS Naturals, FiniteSets

CONSTANTS
  Procs,     \* processes (and threads) that use the root
  Bots,      \* bots with a DM
  RootIds,   \* root instance ids (uuid4)
  Attempts,  \* DM bootstrap attempt ids (uuid4 hex)
  NoId       \* the id of what does not exist

ASSUME NoIdAssumption == NoId \notin RootIds \cup Attempts
\* Thyca is always there.
ASSUME BotsAssumption == Bots # {}

VARIABLES
  lock_file,    \* conversations.lock exists; it is never unlinked
  marker_dir,   \* dm-markers/ exists
  root_temp,    \* the temporary file of the root marker exists
  root_marker,  \* the root marker and the instance it names
  db,           \* conversations.db: "file" has no schema yet, then root_state
  dm_temp,      \* per bot: the temporary file of its marker exists
  dm_marker,    \* per bot: its marker and the attempt it names
  dm_row,       \* per bot: the lifecycle_state of its row
  proc          \* per process: where it is, on whose behalf, what it reported

rootVars == <<lock_file, marker_dir, root_temp, root_marker, db>>
dmVars == <<dm_temp, dm_marker, dm_row>>
vars == <<rootVars, dmVars, proc>>

Absent == [state |-> "none", id |-> NoId]
Marker(state, id) == [state |-> state, id |-> id]

\* The steps of initialize_root, in the order of the code, as the names of the
\* next one; those from "make_dir" on hold both locks.
FoundingLocked == {"make_dir", "root_pending_temp", "root_pending", "db_file",
                   "db_pending", "root_ready_temp", "root_ready", "root_commit",
                   "root_audit"}
Founding == FoundingLocked \cup {"lock_store"}
\* The steps of bootstrap_dm after it has found nothing; all hold the store lock.
Bootstrapping == {"dm_pending", "dm_insert", "dm_ready_temp", "dm_ready", "dm_commit"}
Other == {"idle", "admit", "relock", "audit", "identify"}

Idle(outcome, id, bot) == [pc |-> "idle", id |-> id, bot |-> bot, outcome |-> outcome]

AnyBot == CHOOSE b \in Bots : TRUE
Failed == Idle("failed", NoId, AnyBot)

\* No database yet: a root nobody used, or what is left of one whose database
\* has gone.
Init ==
  /\ db = Absent
  /\ \/ /\ lock_file = FALSE
        /\ marker_dir = FALSE
        /\ root_marker = Absent
     \/ \E id \in RootIds :
          /\ lock_file \in BOOLEAN
          /\ marker_dir = TRUE
          /\ root_marker = Marker("ready", id)
  /\ root_temp = FALSE
  /\ dm_temp = [b \in Bots |-> FALSE]
  /\ dm_marker = [b \in Bots |-> Absent]
  /\ dm_row = [b \in Bots |-> "none"]
  /\ proc = [p \in Procs |-> Idle("none", NoId, AnyBot)]

-----------------------------------------------------------------------------
(* Locks, and what the readers require                                     *)

\* flock(LOCK_EX) on the root directory: initialize_root, to its end.
Admitted(p) == proc[p].pc \in Founding \cup {"relock"}
AdmissionFree == \A p \in Procs : ~Admitted(p)

\* flock on conversations.lock.  A shared holder is a single step here, so the
\* lock is free when nobody is in the middle of a handshake.
Exclusive(p) == proc[p].pc \in FoundingLocked \cup Bootstrapping
StoreLockFree == \A p \in Procs : ~Exclusive(p)

\* open_existing_session and _ensure_root_ready.
RootReady ==
  /\ lock_file /\ marker_dir
  /\ ~root_temp
  /\ root_marker.state = "ready"
  /\ db = root_marker

\* _ensure_door_ready, for a DM.
DmReady(b) ==
  /\ RootReady
  /\ dm_row[b] = "ready"
  /\ ~dm_temp[b]
  /\ dm_marker[b].state = "ready"

Known(b) == dm_temp[b] \/ dm_marker[b] # Absent \/ dm_row[b] \in {"pending", "ready"}

\* _audit_in_transaction: every marker and every row must be ready; the first
\* that is not ends the audit, whatever the scope of the error.
AuditPasses == RootReady /\ \A b \in Bots : Known(b) => DmReady(b)

-----------------------------------------------------------------------------
(* Starting a process on a root                                            *)

Goto(p, from, to) ==
  /\ proc[p].pc = from
  /\ proc' = [proc EXCEPT ![p].pc = to]

\* The call of p returns, or raises.
Returns(p, outcome) == proc' = [proc EXCEPT ![p] = Idle(outcome, @.id, @.bot)]
Raises(p) == proc' = [proc EXCEPT ![p] = Failed]
ReturnsIf(p, good, outcome) == IF good THEN Returns(p, outcome) ELSE Raises(p)

LeftOvers == lock_file \/ marker_dir \/ root_temp \/ root_marker # Absent

\* ensure_runtime_store looks at the files without a lock: the database is
\* there, or leftovers are, or the root is taken for fresh and given a new id.
Ensure(p, id) ==
  /\ proc[p].pc = "idle"
  /\ id # root_marker.id
  /\ \A q \in Procs : proc[q].id # id
  /\ proc' = [proc EXCEPT ![p] =
       IF db # Absent THEN [@ EXCEPT !.pc = "audit", !.outcome = "none"]
       ELSE IF LeftOvers THEN Failed
       ELSE [pc |-> "admit", id |-> id, bot |-> @.bot, outcome |-> "none"]]
  /\ UNCHANGED <<rootVars, dmVars>>

\* AdminStore.initialize with the intent of the caller.
Initialize(p, id) ==
  /\ proc[p].pc = "idle"
  /\ proc' = [proc EXCEPT ![p] = [pc |-> "admit", id |-> id, bot |-> @.bot,
                                  outcome |-> "none"]]
  /\ UNCHANGED <<rootVars, dmVars>>

\* The full audit, under the shared lock.
Audit(p) ==
  /\ proc[p].pc = "audit"
  /\ StoreLockFree
  /\ IF AuditPasses THEN Goto(p, "audit", "identify") ELSE Raises(p)
  /\ UNCHANGED <<rootVars, dmVars>>

\* A second session reads the id of the instance.
Identify(p) ==
  /\ proc[p].pc = "identify"
  /\ StoreLockFree
  /\ proc' = [proc EXCEPT ![p] =
       IF RootReady THEN Idle("opened", db.id, @.bot) ELSE Failed]
  /\ UNCHANGED <<rootVars, dmVars>>

-----------------------------------------------------------------------------
(* initialize_root                                                         *)

\* MUTANT of Admit: freshness is what ensure_runtime_store saw.
AdmitUnchecked(p) ==
  /\ Goto(p, "admit", "lock_store")
  /\ AdmissionFree
  /\ lock_file' = TRUE
  /\ UNCHANGED <<marker_dir, root_temp, root_marker, db, dmVars>>

\* Under the directory lock: a lock file means that another attempt was here,
\* other artifacts without one are refused, and the lock file is created.
Admit(p) ==
  /\ proc[p].pc = "admit"
  /\ AdmissionFree
  /\ \/ /\ lock_file
        /\ Goto(p, "admit", "relock")
        /\ UNCHANGED rootVars
     \/ /\ ~lock_file /\ LeftOvers
        /\ Raises(p)
        /\ UNCHANGED rootVars
     \/ /\ ~LeftOvers
        /\ Goto(p, "admit", "lock_store")
        /\ lock_file' = TRUE
        /\ UNCHANGED <<marker_dir, root_temp, root_marker, db>>
  /\ UNCHANGED dmVars

\* MUTANT of Relock: the lock that the process itself holds is taken again.
RelockReentrant(p) ==
  /\ proc[p].pc = "relock"
  /\ AdmissionFree /\ StoreLockFree
  /\ ReturnsIf(p, AuditPasses /\ db.id = proc[p].id, "initialized")
  /\ UNCHANGED <<rootVars, dmVars>>

\* An existing root is never adopted: ready, audited, and of the same instance.
Relock(p) ==
  /\ proc[p].pc = "relock"
  /\ StoreLockFree
  /\ ReturnsIf(p, AuditPasses /\ db.id = proc[p].id, "initialized")
  /\ UNCHANGED <<rootVars, dmVars>>

LockStore(p) ==
  /\ Goto(p, "lock_store", "make_dir")
  /\ StoreLockFree
  /\ UNCHANGED <<rootVars, dmVars>>

MakeMarkerDirectory(p) ==
  /\ Goto(p, "make_dir", "root_pending_temp")
  /\ marker_dir' = TRUE
  /\ UNCHANGED <<lock_file, root_temp, root_marker, db, dmVars>>

\* _publish_marker: the temporary file, then the rename over the marker.
WriteRootTemp(p) ==
  /\ \/ Goto(p, "root_pending_temp", "root_pending")
     \/ Goto(p, "root_ready_temp", "root_ready")
  /\ root_temp' = TRUE
  /\ UNCHANGED <<lock_file, marker_dir, root_marker, db, dmVars>>

PublishRoot(p) ==
  /\ \/ /\ Goto(p, "root_pending", "db_file")
        /\ root_marker' = Marker("pending", proc[p].id)
     \/ /\ Goto(p, "root_ready", "root_commit")
        /\ root_marker' = Marker("ready", proc[p].id)
  /\ root_temp' = FALSE
  /\ UNCHANGED <<lock_file, marker_dir, db, dmVars>>

CreateDbFile(p) ==
  /\ Goto(p, "db_file", "db_pending")
  /\ db' = Marker("file", NoId)
  /\ UNCHANGED <<lock_file, marker_dir, root_temp, root_marker, dmVars>>

\* The schema and root_state "pending", in one transaction.
CommitSchema(p) ==
  /\ Goto(p, "db_pending", "root_ready_temp")
  /\ db' = Marker("pending", proc[p].id)
  /\ UNCHANGED <<lock_file, marker_dir, root_temp, root_marker, dmVars>>

\* _resolve_root_ready, after a COMMIT whose answer was lost.
ResolveRoot(p) == /\ root_marker = Marker("ready", proc[p].id)
                  /\ db' = Marker("ready", proc[p].id)

\* The final commit.  When COMMIT raises it may be durable or not; the pair of
\* marker and row decides, unless reading it fails too.
CommitRoot(p) ==
  /\ proc[p].pc = "root_commit"
  /\ \/ /\ db' = Marker("ready", db.id)
        /\ Goto(p, "root_commit", "root_audit")
     \/ /\ db' \in {db, Marker("ready", db.id)}
        /\ \/ ResolveRoot(p) /\ Goto(p, "root_commit", "root_audit")
           \/ Raises(p)
  /\ UNCHANGED <<lock_file, marker_dir, root_temp, root_marker, dmVars>>

AuditNewRoot(p) ==
  /\ proc[p].pc = "root_audit"
  /\ ReturnsIf(p, AuditPasses, "initialized")
  /\ UNCHANGED <<rootVars, dmVars>>

-----------------------------------------------------------------------------
(* bootstrap_dm, and AdminStore.delete of a DM                             *)

\* MUTANT of Blocks: a row without its marker, or a marker without its row, is
\* taken for a fresh bot.
BlocksOnlyRow(b) == dm_temp[b] \/ dm_row[b] \in {"pending", "ready"}

\* What blocks a bootstrap: any trace of an earlier one.
Blocks(b) == Known(b)

\* The attempt that already completed, asked for again.
AlreadyBootstrapped(b, attempt) == DmReady(b) /\ dm_marker[b].id = attempt

\* The store is opened exclusively; a fresh bot's temporary marker is written.
Bootstrap(p, b, attempt) ==
  /\ proc[p].pc = "idle"
  /\ StoreLockFree
  /\ \/ /\ RootReady /\ ~Blocks(b)
        /\ proc' = [proc EXCEPT ![p] = [pc |-> "dm_pending", id |-> attempt,
                                        bot |-> b, outcome |-> "none"]]
        /\ dm_temp' = [dm_temp EXCEPT ![b] = TRUE]
     \/ /\ ~RootReady \/ Blocks(b)
        /\ proc' = [proc EXCEPT ![p] =
             IF AlreadyBootstrapped(b, attempt) THEN Idle("bootstrapped", attempt, b)
                                                ELSE Failed]
        /\ UNCHANGED dm_temp
  /\ UNCHANGED <<rootVars, dm_marker, dm_row>>

PublishDm(p) ==
  LET b == proc[p].bot
  IN /\ \/ /\ Goto(p, "dm_pending", "dm_insert")
           /\ dm_marker' = [dm_marker EXCEPT ![b] = Marker("pending", proc[p].id)]
        \/ /\ Goto(p, "dm_ready", "dm_commit")
           /\ dm_marker' = [dm_marker EXCEPT ![b] = Marker("ready", proc[p].id)]
     /\ dm_temp' = [dm_temp EXCEPT ![b] = FALSE]
     /\ UNCHANGED <<rootVars, dm_row>>

\* MUTANT of InsertDm: the row is inserted ready.
InsertDmReady(p) ==
  /\ Goto(p, "dm_insert", "dm_ready_temp")
  /\ dm_row' = [dm_row EXCEPT ![proc[p].bot] = "ready"]
  /\ UNCHANGED <<rootVars, dm_temp, dm_marker>>

InsertDm(p) ==
  /\ Goto(p, "dm_insert", "dm_ready_temp")
  /\ dm_row' = [dm_row EXCEPT ![proc[p].bot] = "pending"]
  /\ UNCHANGED <<rootVars, dm_temp, dm_marker>>

WriteDmTemp(p) ==
  /\ Goto(p, "dm_ready_temp", "dm_ready")
  /\ dm_temp' = [dm_temp EXCEPT ![proc[p].bot] = TRUE]
  /\ UNCHANGED <<rootVars, dm_marker, dm_row>>

\* _resolve_dm_ready.
ResolveDm(p) == /\ dm_marker[proc[p].bot] = Marker("ready", proc[p].id)
                /\ dm_row'[proc[p].bot] = "ready"

CommitDm(p) ==
  LET ready == [dm_row EXCEPT ![proc[p].bot] = "ready"]
  IN /\ proc[p].pc = "dm_commit"
     /\ \/ dm_row' = ready /\ Returns(p, "bootstrapped")
        \/ /\ dm_row' \in {dm_row, ready}
           /\ \/ ResolveDm(p) /\ Returns(p, "bootstrapped")
              \/ Raises(p)
     /\ UNCHANGED <<rootVars, dm_temp, dm_marker>>

\* The row goes, the marker stays as a tombstone.
DeleteDm(b) ==
  /\ StoreLockFree
  /\ DmReady(b)
  /\ dm_row' = [dm_row EXCEPT ![b] = "deleted"]
  /\ UNCHANGED <<rootVars, dm_temp, dm_marker, proc>>

\* The process is killed, or the step it is at raises: it leaves the files as
\* they are and its locks are released.
Interrupted(p) ==
  /\ proc[p].pc # "idle"
  /\ Raises(p)
  /\ UNCHANGED <<rootVars, dmVars>>

-----------------------------------------------------------------------------

Start(p) ==
  \/ \E id \in RootIds : Ensure(p, id) \/ Initialize(p, id)
  \/ \E b \in Bots, attempt \in Attempts : Bootstrap(p, b, attempt)

Continue(p) ==
  \/ Audit(p) \/ Identify(p)
  \/ Admit(p) \/ Relock(p) \/ LockStore(p) \/ MakeMarkerDirectory(p)
  \/ WriteRootTemp(p) \/ PublishRoot(p) \/ CreateDbFile(p) \/ CommitSchema(p)
  \/ CommitRoot(p) \/ AuditNewRoot(p)
  \/ PublishDm(p) \/ InsertDm(p) \/ WriteDmTemp(p) \/ CommitDm(p)

Next ==
  \/ \E p \in Procs : Start(p) \/ Continue(p) \/ Interrupted(p)
  \/ \E b \in Bots : DeleteDm(b)

\* A process that is running and not blocked on a lock goes on.
Spec == Init /\ [][Next]_vars /\ \A p \in Procs : WF_vars(Continue(p))

-----------------------------------------------------------------------------
(* Properties                                                              *)

\* Every variable has its type.
TypeOK ==
  LET Marked(Ids) == [state : {"pending", "ready"}, id : Ids] \cup {Absent}
  IN /\ lock_file \in BOOLEAN
     /\ marker_dir \in BOOLEAN
     /\ root_temp \in BOOLEAN
     /\ root_marker \in Marked(RootIds)
     /\ db \in Marked(RootIds) \cup {Marker("file", NoId)}
     /\ dm_temp \in [Bots -> BOOLEAN]
     /\ dm_marker \in [Bots -> Marked(Attempts)]
     /\ dm_row \in [Bots -> {"none", "pending", "ready", "deleted"}]
     /\ proc \in [Procs ->
          [pc : Founding \cup Bootstrapping \cup Other,
           id : RootIds \cup Attempts \cup {NoId}, bot : Bots,
           outcome : {"none", "failed", "opened", "initialized", "bootstrapped"}]]

\* What a call reported stays true, whatever dies afterwards and also when it
\* learnt it from a commit whose answer was lost: the instance it named is
\* ready, the DM it named is ready (or was deleted since, its tombstone left).
ReportedIsReady ==
  \A p \in Procs :
    LET call == proc[p]
    IN /\ call.outcome \in {"initialized", "opened"} => RootReady /\ db.id = call.id
       /\ call.outcome = "bootstrapped" =>
            /\ dm_marker[call.bot] = Marker("ready", call.id)
            /\ DmReady(call.bot) \/ dm_row[call.bot] = "deleted"

\* The order of the handshake, at every instant a process may be killed: no row
\* without its marker, no ready row without its ready marker.
MarkerBeforeRow ==
  /\ db.state = "pending" => marker_dir /\ root_marker.id = db.id
  /\ db.state = "ready" => RootReady
  /\ \A b \in Bots :
       /\ dm_row[b] # "none" => dm_marker[b] # Absent
       /\ dm_row[b] = "ready" => DmReady(b)

\* What the handshakes keep at every instant.
HandshakeHolds == TypeOK /\ ReportedIsReady /\ MarkerBeforeRow

\* A root, or a DM, that nobody is bringing into being any more and that is not
\* ready.
RootAbandoned ==
  /\ LeftOvers /\ ~RootReady
  /\ \A p \in Procs : proc[p].pc \notin Founding
DmAbandoned(b) ==
  /\ Known(b) \/ dm_row[b] = "deleted"
  /\ ~DmReady(b)
  /\ \A p \in Procs : ~(proc[p].pc \in Bootstrapping /\ proc[p].bot = b)

\* What a step leaves settled.
Settles ==
  /\ RootAbandoned => RootAbandoned'
  /\ RootReady => RootReady' /\ db' = db
  /\ \A b \in Bots : /\ DmAbandoned(b) => DmAbandoned(b)'
                     /\ DmReady(b) => DmReady(b)' \/ dm_row'[b] = "deleted"

\* What is settled stays settled.  Nothing is resumed, repaired or adopted: what
\* an attempt left unfinished, and a deleted DM, stay refused, whichever
\* processes come later or came at the same time.  A root that became ready
\* keeps its instance, and a DM that became ready stays so until it is deleted.
SettledIsForever == [][Settles]_vars

\* Taking the directory lock and then the store lock never deadlocks: once no
\* new call comes, every call returns or raises.  (The kernel does not promise
\* that a waiter overtaken for ever gets the lock.)
CallsReturn ==
  <>[][\A p \in Procs : proc[p].pc = "idle" => proc'[p].pc = "idle"]_vars
    => \A p \in Procs : (proc[p].pc # "idle") ~> (proc[p].pc = "idle")
===============================================================================

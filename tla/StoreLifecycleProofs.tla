-------------------------- MODULE StoreLifecycleProofs --------------------------
(***************************************************************************)
(* Theorems about StoreLifecycle, for every number of processes and bots   *)
(* and every set of ids: the types, what the handshakes keep at every      *)
(* instant a process may be killed, and that what is settled stays so.     *)
(*                                                                         *)
(* The inductive invariant says of every process, by its program counter,  *)
(* what it has written so far, and that the locks it holds by that counter *)
(* are its own.  Whatever a killed process leaves behind is then one of    *)
(* the prefixes of a handshake, which no later process takes up.           *)
(***************************************************************************)
EXTENDS StoreLifecycle, TLAPS

\* The lock of the root directory and that of the lock file have one holder.
LocksAreExclusive ==
  \A p, q \in Procs : /\ Admitted(p) /\ Admitted(q) => p = q
                      /\ Exclusive(p) /\ Exclusive(q) => p = q

\* How far a process in initialize_root has brought the root.
RootAt(p) ==
  LET pc == proc[p].pc
      id == proc[p].id
  IN /\ pc \in Founding \cup {"admit", "relock"} => id \in RootIds
     /\ pc \in Founding => lock_file
     /\ pc \in Founding \ {"lock_store", "make_dir"} => marker_dir
     /\ pc \in {"lock_store", "make_dir", "root_pending_temp", "root_pending"} =>
          root_marker = Absent /\ db = Absent
     /\ pc \in {"root_pending", "root_ready"} => root_temp
     /\ pc \in Founding \ {"root_pending", "root_ready"} => ~root_temp
     /\ pc \in {"db_file", "db_pending", "root_ready_temp", "root_ready"} =>
          root_marker = Marker("pending", id)
     /\ pc = "db_file" => db = Absent
     /\ pc = "db_pending" => db = Marker("file", NoId)
     /\ pc \in {"root_ready_temp", "root_ready", "root_commit"} =>
          db = Marker("pending", id)
     /\ pc \in {"root_commit", "root_audit"} => root_marker = Marker("ready", id)
     /\ pc = "root_audit" => db = Marker("ready", id)

\* How far a process in bootstrap_dm has brought the DM of its bot.
DmAt(p) ==
  LET pc == proc[p].pc
      id == proc[p].id
      b == proc[p].bot
  IN /\ pc \in Bootstrapping => RootReady /\ id \in Attempts
     /\ pc \in {"dm_pending", "dm_ready"} => dm_temp[b]
     /\ pc \in {"dm_insert", "dm_ready_temp", "dm_commit"} => ~dm_temp[b]
     /\ pc = "dm_pending" => dm_marker[b] = Absent
     /\ pc \in {"dm_insert", "dm_ready_temp", "dm_ready"} =>
          dm_marker[b] = Marker("pending", id)
     /\ pc = "dm_commit" => dm_marker[b] = Marker("ready", id)
     /\ pc \in {"dm_pending", "dm_insert"} => dm_row[b] = "none"
     /\ pc \in {"dm_ready_temp", "dm_ready", "dm_commit"} => dm_row[b] = "pending"

\* A database is never without the files that come before it.
DbHasFiles == db # Absent => lock_file /\ marker_dir /\ root_marker # Absent

HandshakeInv ==
  /\ TypeOK
  /\ LocksAreExclusive
  /\ \A p \in Procs : RootAt(p) /\ DmAt(p)
  /\ DbHasFiles
  /\ MarkerBeforeRow
  /\ ReportedIsReady

-----------------------------------------------------------------------------
(* What a step does to the process that takes it                           *)

Pcs == Founding \cup Bootstrapping \cup Other
Ids == RootIds \cup Attempts \cup {NoId}
Outcomes == {"none", "failed", "opened", "initialized", "bootstrapped"}
Calls == [pc : Pcs, id : Ids, bot : Bots, outcome : Outcomes]

\* The process p is now at pc on behalf of id and bot; the others are where
\* they were.
Becomes(p, pc, id, bot, outcome) ==
  /\ proc' \in [Procs -> Calls]
  /\ proc'[p].pc = pc /\ proc'[p].id = id
  /\ proc'[p].bot = bot /\ proc'[p].outcome = outcome
  /\ \A q \in Procs \ {p} : proc'[q] = proc[q]

LEMMA GotoBecomes ==
  ASSUME TypeOK, NEW p \in Procs, NEW from, NEW to \in Pcs, Goto(p, from, to)
  PROVE  Becomes(p, to, proc[p].id, proc[p].bot, proc[p].outcome)
  BY DEF Goto, Becomes, TypeOK, Calls, Pcs, Ids, Outcomes

LEMMA AnyBotIsABot == ASSUME NEW b \in Bots PROVE AnyBot \in Bots
  BY DEF AnyBot

LEMMA SetBecomes ==
  ASSUME TypeOK, NEW p \in Procs, NEW call \in Calls,
         proc' = [proc EXCEPT ![p] = call]
  PROVE  Becomes(p, call.pc, call.id, call.bot, call.outcome)
  BY DEF Becomes, TypeOK, Calls, Pcs, Ids, Outcomes

LEMMA IdleIsACall ==
  ASSUME NEW outcome \in Outcomes, NEW id \in Ids, NEW b \in Bots
  PROVE  /\ Idle(outcome, id, b) \in Calls
         /\ Idle(outcome, id, b).pc = "idle" /\ Idle(outcome, id, b).id = id
         /\ Idle(outcome, id, b).bot = b /\ Idle(outcome, id, b).outcome = outcome
  BY DEF Idle, Calls, Pcs, Other

LEMMA RaisesBecomes ==
  ASSUME TypeOK, NEW p \in Procs, Raises(p)
  PROVE  Becomes(p, "idle", NoId, AnyBot, "failed")
<1>1. proc[p].bot \in Bots
  BY DEF TypeOK
<1>2. AnyBot \in Bots
  BY <1>1, AnyBotIsABot
<1>3. Failed \in Calls
  BY <1>2, IdleIsACall DEF Failed, Ids, Outcomes
<1>4. Becomes(p, Failed.pc, Failed.id, Failed.bot, Failed.outcome)
  BY <1>3, SetBecomes DEF Raises
<1> QED
  BY <1>4 DEF Failed, Idle

LEMMA ReturnsBecomes ==
  ASSUME TypeOK, NEW p \in Procs, NEW outcome \in Outcomes, Returns(p, outcome)
  PROVE  Becomes(p, "idle", proc[p].id, proc[p].bot, outcome)
<1>1. proc[p].bot \in Bots /\ proc[p].id \in Ids
  BY DEF TypeOK, Ids
<1>2. proc' = [proc EXCEPT ![p] = Idle(outcome, proc[p].id, proc[p].bot)]
  BY DEF Returns
<1> DEFINE call == Idle(outcome, proc[p].id, proc[p].bot)
<1>3. call \in Calls
  BY <1>1, IdleIsACall
<1>4. Becomes(p, call.pc, call.id, call.bot, call.outcome)
  BY <1>2, <1>3, SetBecomes
<1> QED
  BY <1>4 DEF Idle

-----------------------------------------------------------------------------
(* What a step must show, by what it changes                               *)

\* ReportedIsReady, of one process.
ReportOf(p) ==
  LET call == proc[p]
  IN /\ call.outcome \in {"initialized", "opened"} => RootReady /\ db.id = call.id
     /\ call.outcome = "bootstrapped" =>
          /\ dm_marker[call.bot] = Marker("ready", call.id)
          /\ DmReady(call.bot) \/ dm_row[call.bot] = "deleted"

\* MarkerBeforeRow, of the root and of one bot.
RootOrder ==
  /\ db.state = "pending" => marker_dir /\ root_marker.id = db.id
  /\ db.state = "ready" => RootReady
DmOrder(b) ==
  /\ dm_row[b] # "none" => dm_marker[b] # Absent
  /\ dm_row[b] = "ready" => DmReady(b)

LEMMA ByProcess ==
  /\ ReportedIsReady <=> \A p \in Procs : ReportOf(p)
  /\ MarkerBeforeRow <=> RootOrder /\ \A b \in Bots : DmOrder(b)
  BY DEF ReportedIsReady, ReportOf, MarkerBeforeRow, RootOrder, DmOrder

\* A step takes a lock that is free, or goes on with those its process holds.
LEMMA LocksStep ==
  ASSUME HandshakeInv, NEW p \in Procs,
         \A q \in Procs \ {p} : proc'[q] = proc[q],
         Admitted(p)' => Admitted(p) \/ AdmissionFree,
         Exclusive(p)' => Exclusive(p) \/ StoreLockFree
  PROVE  LocksAreExclusive'
<1>1. \A q \in Procs \ {p} : (Admitted(q)' <=> Admitted(q)) /\ (Exclusive(q)' <=> Exclusive(q))
  BY DEF Admitted, Exclusive
<1> QED
  BY <1>1 DEF HandshakeInv, LocksAreExclusive, AdmissionFree, StoreLockFree

\* A step that writes nothing.
LEMMA QuietStep ==
  ASSUME HandshakeInv, NEW p \in Procs, NEW pc, NEW id, NEW bot, NEW outcome,
         Becomes(p, pc, id, bot, outcome), UNCHANGED <<rootVars, dmVars>>,
         Admitted(p)' => Admitted(p) \/ AdmissionFree,
         Exclusive(p)' => Exclusive(p) \/ StoreLockFree,
         RootAt(p)', DmAt(p)', ReportOf(p)',
         pc \notin Bootstrapping, pc \in Founding => proc[p].pc \in Founding
  PROVE  HandshakeInv' /\ Settles
<1>1. TypeOK'
  BY DEF HandshakeInv, TypeOK, Becomes, Calls, Pcs, Ids, Outcomes, rootVars, dmVars
<1>2. LocksAreExclusive'
  BY LocksStep DEF Becomes
<1>3. \A q \in Procs : RootAt(q)' /\ DmAt(q)'
  BY DEF HandshakeInv, RootAt, DmAt, RootReady, Becomes, rootVars, dmVars
<1>4. DbHasFiles' /\ MarkerBeforeRow'
  BY DEF HandshakeInv, DbHasFiles, MarkerBeforeRow, DmReady, RootReady, rootVars, dmVars
<1>5. \A q \in Procs : ReportOf(q)'
  BY ByProcess DEF HandshakeInv, ReportOf, DmReady, RootReady, Becomes, rootVars, dmVars
<1>6. ReportedIsReady'
  BY <1>5 DEF ReportedIsReady, ReportOf
<1>7. Settles
  <2>1. /\ UNCHANGED RootReady /\ UNCHANGED LeftOvers
        /\ \A b \in Bots : UNCHANGED DmReady(b) /\ UNCHANGED Known(b)
    BY DEF RootReady, LeftOvers, DmReady, Known, rootVars, dmVars
  <2>2. \A q \in Procs : /\ proc'[q].pc \in Founding => proc[q].pc \in Founding
                         /\ proc'[q].pc \in Bootstrapping => proc'[q] = proc[q]
    BY DEF Becomes
  <2> QED
    BY <2>1, <2>2 DEF Settles, RootAbandoned, DmAbandoned, rootVars, dmVars
<1> QED
  BY <1>1, <1>2, <1>3, <1>4, <1>6, <1>7 DEF HandshakeInv

\* While the root is not ready no DM is brought into being and nothing was
\* reported of it.
LEMMA NothingBeforeTheRoot ==
  ASSUME HandshakeInv, ~RootReady
  PROVE  /\ \A q \in Procs : /\ proc[q].pc \notin Bootstrapping
                             /\ proc[q].outcome \notin {"initialized", "opened"}
         /\ \A b \in Bots : dm_row[b] # "ready"
  BY DEF HandshakeInv, DmAt, ReportedIsReady, MarkerBeforeRow, DmReady

\* A step of initialize_root that writes.
LEMMA RootStep ==
  ASSUME HandshakeInv, ~RootReady, NEW p \in Procs,
         NEW pc, NEW id, NEW bot, NEW outcome,
         Becomes(p, pc, id, bot, outcome), UNCHANGED dmVars,
         TypeOK', pc \notin Bootstrapping,
         \A q \in Procs \ {p} : ~Admitted(q),
         Admitted(p)' => Admitted(p) \/ AdmissionFree,
         Exclusive(p)' => Exclusive(p) \/ StoreLockFree,
         RootAt(p)', ReportOf(p)', DbHasFiles', RootOrder',
         proc[p].pc \in Founding \/ ~LeftOvers
  PROVE  HandshakeInv' /\ Settles
<1>1. LocksAreExclusive'
  BY LocksStep DEF Becomes
<1>2. DmAt(p)'
  BY DEF DmAt, Becomes, Bootstrapping
<1>3. ASSUME NEW q \in Procs \ {p}
      PROVE  RootAt(q)' /\ DmAt(q)' /\ ReportOf(q)'
  <2>1. proc'[q] = proc[q] /\ q \in Procs
    BY DEF Becomes
  <2>2. RootAt(q)'
    BY <2>1 DEF HandshakeInv, RootAt, Admitted, Founding, FoundingLocked
  <2>3. DmAt(q)'
    BY <2>1, NothingBeforeTheRoot DEF DmAt, Bootstrapping
  <2>4. ReportOf(q)'
    BY <2>1, NothingBeforeTheRoot, ByProcess DEF HandshakeInv, ReportOf, DmReady, dmVars,
       TypeOK
  <2> QED
    BY <2>2, <2>3, <2>4
<1>4. \A b \in Bots : DmOrder(b)'
  BY NothingBeforeTheRoot, ByProcess DEF HandshakeInv, DmOrder, dmVars
<1>5. ReportedIsReady' /\ MarkerBeforeRow'
  BY <1>3, <1>4 DEF ReportedIsReady, ReportOf, MarkerBeforeRow, RootOrder, DmOrder
<1>6. Settles
  <2>1. ~RootAbandoned
    BY DEF RootAbandoned
  <2>2. \A b \in Bots : dm_row[b] # "ready" /\ ~DmReady(b) /\ ~DmReady(b)' /\ UNCHANGED Known(b)
    BY NothingBeforeTheRoot DEF DmReady, Known, dmVars
  <2>3. \A q \in Procs : proc'[q].pc \notin Bootstrapping
    BY NothingBeforeTheRoot DEF Becomes
  <2> QED
    BY <2>1, <2>2, <2>3 DEF Settles, DmAbandoned, dmVars
<1> QED
  BY <1>1, <1>2, <1>3, <1>5, <1>6 DEF HandshakeInv

\* A step of bootstrap_dm that writes.
LEMMA DmStep ==
  ASSUME HandshakeInv, NEW p \in Procs,
         NEW pc, NEW id, NEW of, NEW outcome, NEW bot \in Bots,
         Becomes(p, pc, id, of, outcome), UNCHANGED rootVars,
         pc \in Bootstrapping => of = bot, TypeOK', RootReady, pc \in Bootstrapping \cup {"idle"},
         dm_row[bot] \notin {"ready", "deleted"},
         \A b \in Bots \ {bot} : /\ dm_row'[b] = dm_row[b] /\ dm_temp'[b] = dm_temp[b]
                                 /\ dm_marker'[b] = dm_marker[b],
         \A q \in Procs \ {p} : ~Exclusive(q),
         Exclusive(p)' => Exclusive(p) \/ StoreLockFree,
         DmAt(p)', ReportOf(p)', DmOrder(bot)', ~DmAbandoned(bot)
  PROVE  HandshakeInv' /\ Settles
<1>0. RootReady'
  BY DEF rootVars, RootReady
<1>1. LocksAreExclusive'
  <2>1. ~Admitted(p)'
    BY DEF Admitted, Becomes, Founding, FoundingLocked, Bootstrapping
  <2> QED
    BY <2>1, LocksStep DEF Becomes
<1>2. RootAt(p)'
  BY DEF RootAt, Becomes, Founding, FoundingLocked, Bootstrapping
<1>3. ASSUME NEW q \in Procs \ {p}
      PROVE  RootAt(q)' /\ DmAt(q)' /\ ReportOf(q)'
  <2>1. proc'[q] = proc[q] /\ q \in Procs /\ proc[q].bot \in Bots
    BY DEF Becomes, HandshakeInv, TypeOK
  <2>2. RootAt(q)'
    BY <2>1 DEF HandshakeInv, RootAt, rootVars
  <2>3. DmAt(q)'
    BY <2>1 DEF DmAt, Exclusive, Bootstrapping
  <2>4. ReportOf(q)
    BY ByProcess, <2>1 DEF HandshakeInv
  <2>5. ReportOf(q)'
    BY <1>0, <2>1, <2>4 DEF ReportOf, DmReady, rootVars
  <2> QED
    BY <2>2, <2>3, <2>5
<1>4. \A b \in Bots \ {bot} : DmOrder(b)'
  BY <1>0, ByProcess DEF HandshakeInv, DmOrder, DmReady
<1>5. RootOrder' /\ DbHasFiles'
  BY <1>0, ByProcess DEF HandshakeInv, RootOrder, DbHasFiles, rootVars
<1>6. ReportedIsReady' /\ MarkerBeforeRow'
  BY <1>3, <1>4, <1>5
  DEF ReportedIsReady, ReportOf, MarkerBeforeRow, RootOrder, DmOrder
<1>7. Settles
  <2>1. ~RootAbandoned /\ db' = db
    BY DEF RootAbandoned, rootVars
  <2>2. ~DmReady(bot)
    BY DEF DmReady
  <2>3. ASSUME NEW b \in Bots \ {bot}
        PROVE  UNCHANGED DmReady(b) /\ UNCHANGED Known(b) /\ UNCHANGED dm_row[b]
    BY <1>0 DEF DmReady, Known
  <2>4. \A q \in Procs, b \in Bots \ {bot} :
          proc'[q].pc \in Bootstrapping /\ proc'[q].bot = b => proc'[q] = proc[q]
    BY DEF Becomes
  <2>5. ASSUME NEW b \in Bots \ {bot}, DmAbandoned(b)
        PROVE  DmAbandoned(b)'
    BY <2>3, <2>4, <2>5 DEF DmAbandoned
  <2> QED
    BY <1>0, <2>1, <2>2, <2>3, <2>5 DEF Settles
<1> QED
  BY <1>1, <1>2, <1>3, <1>5, <1>6, <1>7 DEF HandshakeInv

-----------------------------------------------------------------------------
(* The steps                                                               *)

LEMMA HandshakeInit == Init => HandshakeInv
<1> SUFFICES ASSUME Init PROVE HandshakeInv
  OBVIOUS
<1>1. AnyBot \in Bots
  BY BotsAssumption, AnyBotIsABot
<1>2. \A p \in Procs : proc[p] = Idle("none", NoId, AnyBot)
  BY DEF Init
<1> DEFINE Marked(I) == [state : {"pending", "ready"}, id : I] \cup {Absent}
<1>a. proc \in [Procs -> Calls]
  <2>1. Idle("none", NoId, AnyBot) \in Calls
    BY <1>1, IdleIsACall DEF Ids, Outcomes
  <2> QED
    BY <2>1 DEF Init
<1>b. root_marker \in Marked(RootIds) /\ lock_file \in BOOLEAN /\ marker_dir \in BOOLEAN
  <2>1. root_marker = Absent \/ \E id \in RootIds : root_marker = Marker("ready", id)
    BY DEF Init
  <2>2. root_marker \in Marked(RootIds)
    BY <2>1 DEF Marker
  <2>3. lock_file \in BOOLEAN /\ marker_dir \in BOOLEAN
    BY Zenon DEF Init
  <2> QED
    BY <2>2, <2>3
<1>c. db \in Marked(RootIds) /\ dm_marker \in [Bots -> Marked(Attempts)]
  BY DEF Init
<1>d. /\ root_temp \in BOOLEAN /\ dm_temp \in [Bots -> BOOLEAN]
      /\ dm_row \in [Bots -> {"none", "pending", "ready", "deleted"}]
  BY DEF Init
<1>3. TypeOK
  BY <1>a, <1>b, <1>c, <1>d DEF TypeOK, Calls, Pcs, Ids, Outcomes
<1>4. \A p \in Procs : proc[p].pc = "idle" /\ proc[p].outcome = "none"
  BY <1>2 DEF Idle
<1>5. LocksAreExclusive /\ \A p \in Procs : RootAt(p) /\ DmAt(p)
  BY <1>4 DEF LocksAreExclusive, Admitted, Exclusive, RootAt, DmAt, Founding,
              FoundingLocked, Bootstrapping
<1>6. DbHasFiles /\ MarkerBeforeRow /\ ReportedIsReady
  BY <1>4 DEF Init, DbHasFiles, MarkerBeforeRow, ReportedIsReady, Absent
<1> QED
  BY <1>3, <1>5, <1>6 DEF HandshakeInv

\* A call that ends, or that looks at what is there, changes no file.
LEMMA EndsQuietly ==
  ASSUME HandshakeInv, NEW p \in Procs, NEW id, NEW bot, NEW outcome,
         Becomes(p, "idle", id, bot, outcome), UNCHANGED <<rootVars, dmVars>>,
         ReportOf(p)'
  PROVE  HandshakeInv' /\ Settles
<1>1. proc'[p].pc = "idle"
  BY DEF Becomes
<1>2. RootAt(p)' /\ DmAt(p)' /\ ~Admitted(p)' /\ ~Exclusive(p)'
  BY <1>1 DEF RootAt, DmAt, Admitted, Exclusive, Founding, FoundingLocked, Bootstrapping
<1>3. "idle" \notin Founding \cup Bootstrapping
  BY DEF Founding, FoundingLocked, Bootstrapping
<1> QED
  BY <1>2, <1>3, QuietStep

LEMMA RaisesQuietly ==
  ASSUME HandshakeInv, NEW p \in Procs, Raises(p), UNCHANGED <<rootVars, dmVars>>
  PROVE  HandshakeInv' /\ Settles
<1>1. Becomes(p, "idle", NoId, AnyBot, "failed")
  BY RaisesBecomes DEF HandshakeInv
<1>2. ReportOf(p)'
  BY <1>1 DEF ReportOf, Becomes
<1> QED
  BY <1>1, <1>2, EndsQuietly

LEMMA ReturnsQuietly ==
  ASSUME HandshakeInv, NEW p \in Procs, NEW outcome \in {"initialized", "opened"},
         Returns(p, outcome), UNCHANGED <<rootVars, dmVars>>,
         RootReady, db.id = proc[p].id
  PROVE  HandshakeInv' /\ Settles
<1>1. Becomes(p, "idle", proc[p].id, proc[p].bot, outcome)
  BY ReturnsBecomes DEF HandshakeInv, Outcomes
<1>2. ReportOf(p)'
  BY <1>1 DEF ReportOf, Becomes, RootReady, rootVars
<1> QED
  BY <1>1, <1>2, EndsQuietly

\* A new call of initialize_root, or of the audit.
LEMMA CallStep ==
  ASSUME HandshakeInv, NEW p \in Procs, NEW call \in Calls,
         proc' = [proc EXCEPT ![p] = call], call.pc \in {"admit", "audit"},
         call.pc = "admit" => call.id \in RootIds, call.outcome = "none",
         UNCHANGED <<rootVars, dmVars>>
  PROVE  HandshakeInv' /\ Settles
<1>1. Becomes(p, call.pc, call.id, call.bot, call.outcome)
  BY SetBecomes DEF HandshakeInv
<1>2. proc'[p].pc = call.pc /\ proc'[p].id = call.id /\ proc'[p].outcome = "none"
  BY <1>1 DEF Becomes
<1>3. RootAt(p)' /\ DmAt(p)' /\ ~Admitted(p)' /\ ~Exclusive(p)' /\ ReportOf(p)'
  BY <1>2 DEF RootAt, DmAt, Admitted, Exclusive, Founding, FoundingLocked,
              Bootstrapping, ReportOf
<1>4. call.pc \notin Founding \cup Bootstrapping
  BY DEF Founding, FoundingLocked, Bootstrapping
<1> QED
  BY <1>1, <1>3, <1>4, QuietStep

LEMMA NewCallIsACall ==
  ASSUME NEW call \in Calls, NEW id \in Ids
  PROVE  /\ [call EXCEPT !.pc = "audit", !.outcome = "none"] \in Calls
         /\ [pc |-> "admit", id |-> id, bot |-> call.bot, outcome |-> "none"] \in Calls
  BY DEF Calls, Pcs, Other, Outcomes

LEMMA EnsureStep ==
  ASSUME HandshakeInv, NEW p \in Procs, NEW id \in RootIds,
         Ensure(p, id) \/ Initialize(p, id)
  PROVE  HandshakeInv' /\ Settles
<1>1. proc[p] \in Calls /\ id \in Ids
  BY DEF HandshakeInv, TypeOK, Calls, Pcs, Ids, Outcomes
<1>2. UNCHANGED <<rootVars, dmVars>>
  BY DEF Ensure, Initialize
<1> DEFINE admitted == [pc |-> "admit", id |-> id, bot |-> proc[p].bot, outcome |-> "none"]
           audited == [proc[p] EXCEPT !.pc = "audit", !.outcome = "none"]
<1>3. admitted \in Calls /\ audited \in Calls
  BY <1>1, NewCallIsACall
<1>4. CASE proc' = [proc EXCEPT ![p] = audited]
  <2>1. audited.pc = "audit" /\ audited.outcome = "none"
    BY <1>1 DEF Calls
  <2> HIDE DEF audited
  <2> QED
    BY <1>2, <1>3, <1>4, <2>1, CallStep
<1>5. CASE proc' = [proc EXCEPT ![p] = admitted]
  <2>1. admitted.pc = "admit" /\ admitted.outcome = "none" /\ admitted.id \in RootIds
    OBVIOUS
  <2> HIDE DEF admitted
  <2> QED
    BY <1>2, <1>3, <1>5, <2>1, CallStep
<1>6. CASE Raises(p)
  BY <1>2, <1>6, RaisesQuietly
<1> QED
  BY <1>4, <1>5, <1>6 DEF Ensure, Initialize, Raises

LEMMA AuditStep ==
  ASSUME HandshakeInv, NEW p \in Procs, Audit(p)
  PROVE  HandshakeInv' /\ Settles
<1>1. UNCHANGED <<rootVars, dmVars>>
  BY DEF Audit
<1>2. CASE Goto(p, "audit", "identify")
  <2>1. Becomes(p, "identify", proc[p].id, proc[p].bot, proc[p].outcome)
    BY <1>2, GotoBecomes DEF HandshakeInv, Pcs, Other
  <2>2. RootAt(p)' /\ DmAt(p)' /\ ~Admitted(p)' /\ ~Exclusive(p)'
    BY <2>1 DEF Becomes, RootAt, DmAt, Admitted, Exclusive, Founding, FoundingLocked,
                Bootstrapping
  <2>3. ReportOf(p)'
    BY <2>1, <1>1, ByProcess
    DEF HandshakeInv, Becomes, ReportOf, DmReady, RootReady, rootVars, dmVars
  <2>4. "identify" \notin Founding \cup Bootstrapping
    BY DEF Founding, FoundingLocked, Bootstrapping
  <2> QED
    BY <1>1, <2>1, <2>2, <2>3, <2>4, QuietStep
<1>3. CASE Raises(p)
  BY <1>1, <1>3, RaisesQuietly
<1> QED
  BY <1>2, <1>3 DEF Audit

LEMMA IdentifyStep ==
  ASSUME HandshakeInv, NEW p \in Procs, Identify(p)
  PROVE  HandshakeInv' /\ Settles
<1>1. UNCHANGED <<rootVars, dmVars>>
  BY DEF Identify
<1>2. CASE RootReady /\ proc' = [proc EXCEPT ![p] = Idle("opened", db.id, proc[p].bot)]
  <2>1. db.id \in Ids /\ proc[p].bot \in Bots
    BY DEF HandshakeInv, TypeOK, Ids, Absent, Marker
  <2> DEFINE call == Idle("opened", db.id, proc[p].bot)
  <2>2. call \in Calls
    BY <2>1, IdleIsACall DEF Outcomes
  <2>3. Becomes(p, call.pc, call.id, call.bot, call.outcome)
    BY <1>2, <2>2, SetBecomes DEF HandshakeInv
  <2>4. Becomes(p, "idle", db.id, proc[p].bot, "opened")
    BY <2>3 DEF Idle
  <2>5. ReportOf(p)'
    BY <1>1, <1>2, <2>4 DEF Becomes, ReportOf, RootReady, rootVars
  <2> QED
    BY <1>1, <2>4, <2>5, EndsQuietly
<1>3. CASE Raises(p)
  BY <1>1, <1>3, RaisesQuietly
<1> QED
  BY <1>2, <1>3 DEF Identify, Raises

LEMMA GoesOnQuietly ==
  ASSUME HandshakeInv, NEW p \in Procs, NEW from, NEW to \in Pcs, Goto(p, from, to),
         UNCHANGED <<rootVars, dmVars>>,
         Admitted(p)' => Admitted(p) \/ AdmissionFree,
         Exclusive(p)' => Exclusive(p) \/ StoreLockFree,
         RootAt(p)', DmAt(p)',
         to \notin Bootstrapping, to \in Founding => from \in Founding
  PROVE  HandshakeInv' /\ Settles
<1>1. Becomes(p, to, proc[p].id, proc[p].bot, proc[p].outcome)
  BY GotoBecomes DEF HandshakeInv
<1>2. ReportOf(p)'
  BY <1>1, ByProcess
  DEF HandshakeInv, Becomes, ReportOf, DmReady, RootReady, rootVars, dmVars
<1> QED
  BY <1>1, <1>2, QuietStep DEF Goto

\* A step of initialize_root that writes and goes on.
LEMMA GoesOn ==
  ASSUME HandshakeInv, NEW p \in Procs, NEW from \in Founding \cup {"admit"},
         NEW to \in Founding, Goto(p, from, to),
         ~RootReady, UNCHANGED dmVars, TypeOK',
         from # "admit" \/ AdmissionFree,
         from \in {"admit", "lock_store"} => to \notin FoundingLocked,
         RootAt(p)', DbHasFiles', RootOrder',
         from = "admit" => ~LeftOvers
  PROVE  HandshakeInv' /\ Settles
<1>1. Becomes(p, to, proc[p].id, proc[p].bot, proc[p].outcome)
  BY GotoBecomes DEF HandshakeInv, Pcs
<1>2. proc[p].pc = from /\ proc'[p].pc = to
  BY <1>1 DEF Goto, Becomes
<1>3. ReportOf(p)'
  BY <1>1, NothingBeforeTheRoot, ByProcess
  DEF HandshakeInv, Becomes, ReportOf, DmReady, dmVars, TypeOK
<1>4. \A q \in Procs \ {p} : ~Admitted(q)
  BY <1>2 DEF HandshakeInv, LocksAreExclusive, AdmissionFree, Admitted
<1>5. Admitted(p)' => Admitted(p) \/ AdmissionFree
  BY <1>2 DEF Admitted
<1>6. Exclusive(p)' => Exclusive(p) \/ StoreLockFree
  BY <1>2 DEF Exclusive, Founding, FoundingLocked, Bootstrapping
<1>7. to \notin Bootstrapping
  BY DEF Founding, FoundingLocked, Bootstrapping
<1>8. proc[p].pc \in Founding \/ ~LeftOvers
  BY <1>2
<1> QED
  BY <1>1, <1>3, <1>4, <1>5, <1>6, <1>7, <1>8, RootStep

LEMMA AdmitStep ==
  ASSUME HandshakeInv, NEW p \in Procs, Admit(p)
  PROVE  HandshakeInv' /\ Settles
<1>0. proc[p].pc = "admit" /\ AdmissionFree /\ UNCHANGED dmVars /\ proc[p].id \in RootIds
  BY DEF Admit, HandshakeInv, RootAt
<1>1. CASE lock_file /\ Goto(p, "admit", "relock") /\ UNCHANGED rootVars
  <2>1. Becomes(p, "relock", proc[p].id, proc[p].bot, proc[p].outcome)
    BY <1>1, GotoBecomes DEF HandshakeInv, Pcs, Other
  <2>2. RootAt(p)' /\ DmAt(p)' /\ ~Exclusive(p)'
    BY <1>0, <2>1 DEF Becomes, RootAt, DmAt, Exclusive, Founding, FoundingLocked,
                      Bootstrapping
  <2>3. "relock" \notin Founding \cup Bootstrapping
    BY DEF Founding, FoundingLocked, Bootstrapping
  <2> QED
    BY <1>0, <1>1, <2>2, <2>3, GoesOnQuietly DEF Pcs, Other
<1>2. CASE Raises(p) /\ UNCHANGED rootVars
  BY <1>0, <1>2, RaisesQuietly
<1>3. CASE /\ ~LeftOvers /\ Goto(p, "admit", "lock_store") /\ lock_file' = TRUE
           /\ UNCHANGED <<marker_dir, root_temp, root_marker, db>>
  <2>1. Becomes(p, "lock_store", proc[p].id, proc[p].bot, proc[p].outcome)
    BY <1>3, GotoBecomes DEF HandshakeInv, Pcs, Founding
  <2>2. ~RootReady /\ db = Absent /\ root_marker = Absent /\ ~root_temp
    BY <1>3 DEF HandshakeInv, LeftOvers, RootReady, DbHasFiles
  <2>3. TypeOK'
    BY <1>0, <1>3, <2>1
    DEF HandshakeInv, TypeOK, Becomes, Calls, Pcs, Ids, Outcomes, dmVars
  <2>4. RootAt(p)'
    BY <1>0, <1>3, <2>1, <2>2 DEF Becomes, RootAt, FoundingLocked
  <2>5. DbHasFiles' /\ RootOrder'
    BY <1>3, <2>2 DEF DbHasFiles, RootOrder, Absent
  <2> QED
    BY <1>0, <1>3, <2>2, <2>3, <2>4, <2>5, GoesOn DEF Founding, FoundingLocked
<1> QED
  BY <1>1, <1>2, <1>3 DEF Admit

LEMMA RelockStep ==
  ASSUME HandshakeInv, NEW p \in Procs, Relock(p)
  PROVE  HandshakeInv' /\ Settles
<1>1. UNCHANGED <<rootVars, dmVars>>
  BY DEF Relock
<1>2. CASE AuditPasses /\ db.id = proc[p].id /\ Returns(p, "initialized")
  BY <1>1, <1>2, ReturnsQuietly DEF AuditPasses
<1>3. CASE Raises(p)
  BY <1>1, <1>3, RaisesQuietly
<1> QED
  BY <1>2, <1>3 DEF Relock, ReturnsIf

LEMMA AuditNewRootStep ==
  ASSUME HandshakeInv, NEW p \in Procs, AuditNewRoot(p)
  PROVE  HandshakeInv' /\ Settles
<1>1. UNCHANGED <<rootVars, dmVars>> /\ proc[p].pc = "root_audit"
  BY DEF AuditNewRoot
<1>2. CASE AuditPasses /\ Returns(p, "initialized")
  <2>1. db = Marker("ready", proc[p].id)
    BY <1>1 DEF HandshakeInv, RootAt
  <2> QED
    BY <1>1, <1>2, <2>1, ReturnsQuietly DEF AuditPasses, Marker
<1>3. CASE Raises(p)
  BY <1>1, <1>3, RaisesQuietly
<1> QED
  BY <1>2, <1>3 DEF AuditNewRoot, ReturnsIf

LEMMA LockStoreStep ==
  ASSUME HandshakeInv, NEW p \in Procs, LockStore(p)
  PROVE  HandshakeInv' /\ Settles
<1>1. /\ UNCHANGED <<rootVars, dmVars>> /\ Goto(p, "lock_store", "make_dir")
      /\ StoreLockFree /\ proc[p].pc = "lock_store"
  BY DEF LockStore, Goto
<1>2. Becomes(p, "make_dir", proc[p].id, proc[p].bot, proc[p].outcome)
  BY <1>1, GotoBecomes DEF HandshakeInv, Pcs, Founding, FoundingLocked
<1>3. RootAt(p)'
  BY <1>1, <1>2 DEF HandshakeInv, RootAt, Becomes, Founding, FoundingLocked, rootVars
<1>4. DmAt(p)' /\ Admitted(p)
  BY <1>1, <1>2 DEF DmAt, Admitted, Becomes, Founding, FoundingLocked, Bootstrapping
<1> QED
  BY <1>1, <1>3, <1>4, GoesOnQuietly DEF Pcs, Founding, FoundingLocked, Bootstrapping

LEMMA MakeMarkerDirectoryStep ==
  ASSUME HandshakeInv, NEW p \in Procs, MakeMarkerDirectory(p)
  PROVE  HandshakeInv' /\ Settles
<1>1. /\ Goto(p, "make_dir", "root_pending_temp") /\ marker_dir' = TRUE
      /\ UNCHANGED <<lock_file, root_temp, root_marker, db, dmVars>>
      /\ proc[p].pc = "make_dir"
  BY DEF MakeMarkerDirectory, Goto
<1>2. /\ proc[p].id \in RootIds /\ lock_file
      /\ ~root_temp /\ root_marker = Absent /\ db = Absent
  BY <1>1 DEF HandshakeInv, RootAt, Founding, FoundingLocked
<1>3. Becomes(p, "root_pending_temp", proc[p].id, proc[p].bot, proc[p].outcome)
  BY <1>1, GotoBecomes DEF HandshakeInv, Pcs, Founding, FoundingLocked
<1>4. TypeOK'
  BY <1>1, <1>3 DEF HandshakeInv, TypeOK, Becomes, Calls, Pcs, Ids, Outcomes, dmVars
<1>5. RootAt(p)'
  BY <1>1, <1>2, <1>3 DEF Becomes, RootAt
<1>6. ~RootReady /\ DbHasFiles' /\ RootOrder'
  BY <1>1, <1>2 DEF RootReady, DbHasFiles, RootOrder, Absent
<1> QED
  BY <1>1, <1>4, <1>5, <1>6, GoesOn DEF Founding, FoundingLocked

LEMMA WriteRootTempStep ==
  ASSUME HandshakeInv, NEW p \in Procs, WriteRootTemp(p)
  PROVE  HandshakeInv' /\ Settles
<1>1. root_temp' = TRUE /\ UNCHANGED <<lock_file, marker_dir, root_marker, db, dmVars>>
  BY DEF WriteRootTemp
<1>2. CASE Goto(p, "root_pending_temp", "root_pending")
  <2>1. proc[p].pc = "root_pending_temp"
    BY <1>2 DEF Goto
  <2>2. /\ proc[p].id \in RootIds /\ lock_file /\ marker_dir
        /\ root_marker = Absent /\ db = Absent
    BY <2>1 DEF HandshakeInv, RootAt, Founding, FoundingLocked
  <2>3. Becomes(p, "root_pending", proc[p].id, proc[p].bot, proc[p].outcome)
    BY <1>2, GotoBecomes DEF HandshakeInv, Pcs, Founding, FoundingLocked
  <2>4. TypeOK'
    BY <1>1, <2>3 DEF HandshakeInv, TypeOK, Becomes, Calls, Pcs, Ids, Outcomes, dmVars
  <2>5. RootAt(p)'
    BY <1>1, <2>2, <2>3 DEF Becomes, RootAt
  <2>6. ~RootReady /\ DbHasFiles' /\ RootOrder'
    BY <1>1, <2>2 DEF RootReady, DbHasFiles, RootOrder, Absent
  <2> QED
    BY <1>1, <1>2, <2>4, <2>5, <2>6, GoesOn DEF Founding, FoundingLocked
<1>3. CASE Goto(p, "root_ready_temp", "root_ready")
  <2>1. proc[p].pc = "root_ready_temp"
    BY <1>3 DEF Goto
  <2>2. /\ proc[p].id \in RootIds /\ lock_file /\ marker_dir
        /\ root_marker = Marker("pending", proc[p].id)
        /\ db = Marker("pending", proc[p].id)
    BY <2>1 DEF HandshakeInv, RootAt, Founding, FoundingLocked
  <2>3. Becomes(p, "root_ready", proc[p].id, proc[p].bot, proc[p].outcome)
    BY <1>3, GotoBecomes DEF HandshakeInv, Pcs, Founding, FoundingLocked
  <2>4. TypeOK'
    BY <1>1, <2>3 DEF HandshakeInv, TypeOK, Becomes, Calls, Pcs, Ids, Outcomes, dmVars
  <2>5. RootAt(p)'
    BY <1>1, <2>2, <2>3 DEF Becomes, RootAt, Marker
  <2>6. ~RootReady /\ DbHasFiles' /\ RootOrder'
    BY <1>1, <2>2 DEF HandshakeInv, RootReady, DbHasFiles, RootOrder, Absent, Marker
  <2> QED
    BY <1>1, <1>3, <2>4, <2>5, <2>6, GoesOn DEF Founding, FoundingLocked
<1> QED
  BY <1>2, <1>3 DEF WriteRootTemp

LEMMA PublishRootStep ==
  ASSUME HandshakeInv, NEW p \in Procs, PublishRoot(p)
  PROVE  HandshakeInv' /\ Settles
<1>1. root_temp' = FALSE /\ UNCHANGED <<lock_file, marker_dir, db, dmVars>>
  BY DEF PublishRoot
<1>2. CASE /\ Goto(p, "root_pending", "db_file")
           /\ root_marker' = Marker("pending", proc[p].id)
  <2>1. proc[p].pc = "root_pending"
    BY <1>2 DEF Goto
  <2>2. /\ proc[p].id \in RootIds /\ lock_file /\ marker_dir
        /\ root_marker = Absent /\ db = Absent /\ root_temp
    BY <2>1 DEF HandshakeInv, RootAt, Founding, FoundingLocked
  <2>3. Becomes(p, "db_file", proc[p].id, proc[p].bot, proc[p].outcome)
    BY <1>2, GotoBecomes DEF HandshakeInv, Pcs, Founding, FoundingLocked
  <2>4. TypeOK'
    BY <1>1, <1>2, <2>2, <2>3
    DEF HandshakeInv, TypeOK, Becomes, Calls, Pcs, Ids, Outcomes, dmVars, Marker
  <2>5. RootAt(p)'
    BY <1>1, <1>2, <2>2, <2>3 DEF Becomes, RootAt
  <2>6. ~RootReady /\ DbHasFiles' /\ RootOrder'
    BY <1>1, <2>2 DEF RootReady, DbHasFiles, RootOrder, Absent
  <2> QED
    BY <1>1, <1>2, <2>4, <2>5, <2>6, GoesOn DEF Founding, FoundingLocked
<1>3. CASE /\ Goto(p, "root_ready", "root_commit")
           /\ root_marker' = Marker("ready", proc[p].id)
  <2>1. proc[p].pc = "root_ready"
    BY <1>3 DEF Goto
  <2>2. /\ proc[p].id \in RootIds /\ lock_file /\ marker_dir /\ root_temp
        /\ db = Marker("pending", proc[p].id)
    BY <2>1 DEF HandshakeInv, RootAt, Founding, FoundingLocked
  <2>3. Becomes(p, "root_commit", proc[p].id, proc[p].bot, proc[p].outcome)
    BY <1>3, GotoBecomes DEF HandshakeInv, Pcs, Founding, FoundingLocked
  <2>4. TypeOK'
    BY <1>1, <1>3, <2>2, <2>3
    DEF HandshakeInv, TypeOK, Becomes, Calls, Pcs, Ids, Outcomes, dmVars, Marker
  <2>5. RootAt(p)'
    BY <1>1, <1>3, <2>2, <2>3 DEF Becomes, RootAt
  <2>6. ~RootReady /\ DbHasFiles' /\ RootOrder'
    BY <1>1, <1>3, <2>2 DEF RootReady, DbHasFiles, RootOrder, Absent, Marker
  <2> QED
    BY <1>1, <1>3, <2>4, <2>5, <2>6, GoesOn DEF Founding, FoundingLocked
<1> QED
  BY <1>2, <1>3 DEF PublishRoot

LEMMA CreateDbFileStep ==
  ASSUME HandshakeInv, NEW p \in Procs, CreateDbFile(p)
  PROVE  HandshakeInv' /\ Settles
<1>1. /\ Goto(p, "db_file", "db_pending") /\ db' = Marker("file", NoId)
      /\ UNCHANGED <<lock_file, marker_dir, root_temp, root_marker, dmVars>>
      /\ proc[p].pc = "db_file"
  BY DEF CreateDbFile, Goto
<1>2. /\ proc[p].id \in RootIds /\ lock_file /\ marker_dir /\ ~root_temp
      /\ root_marker = Marker("pending", proc[p].id) /\ db = Absent
  BY <1>1 DEF HandshakeInv, RootAt, Founding, FoundingLocked
<1>3. Becomes(p, "db_pending", proc[p].id, proc[p].bot, proc[p].outcome)
  BY <1>1, GotoBecomes DEF HandshakeInv, Pcs, Founding, FoundingLocked
<1>4. TypeOK'
  BY <1>1, <1>3 DEF HandshakeInv, TypeOK, Becomes, Calls, Pcs, Ids, Outcomes, dmVars
<1>5. RootAt(p)'
  BY <1>1, <1>2, <1>3 DEF Becomes, RootAt
<1>6. ~RootReady /\ DbHasFiles' /\ RootOrder'
  BY <1>1, <1>2 DEF RootReady, DbHasFiles, RootOrder, Absent, Marker
<1> QED
  BY <1>1, <1>4, <1>5, <1>6, GoesOn DEF Founding, FoundingLocked

LEMMA CommitSchemaStep ==
  ASSUME HandshakeInv, NEW p \in Procs, CommitSchema(p)
  PROVE  HandshakeInv' /\ Settles
<1>1. /\ Goto(p, "db_pending", "root_ready_temp") /\ db' = Marker("pending", proc[p].id)
      /\ UNCHANGED <<lock_file, marker_dir, root_temp, root_marker, dmVars>>
      /\ proc[p].pc = "db_pending"
  BY DEF CommitSchema, Goto
<1>2. /\ proc[p].id \in RootIds /\ lock_file /\ marker_dir /\ ~root_temp
      /\ root_marker = Marker("pending", proc[p].id)
  BY <1>1 DEF HandshakeInv, RootAt, Founding, FoundingLocked
<1>3. Becomes(p, "root_ready_temp", proc[p].id, proc[p].bot, proc[p].outcome)
  BY <1>1, GotoBecomes DEF HandshakeInv, Pcs, Founding, FoundingLocked
<1>4. TypeOK'
  BY <1>1, <1>2, <1>3
  DEF HandshakeInv, TypeOK, Becomes, Calls, Pcs, Ids, Outcomes, dmVars, Marker
<1>5. RootAt(p)'
  BY <1>1, <1>2, <1>3 DEF Becomes, RootAt
<1>6. ~RootReady /\ DbHasFiles' /\ RootOrder'
  BY <1>1, <1>2 DEF RootReady, DbHasFiles, RootOrder, Absent, Marker
<1> QED
  BY <1>1, <1>4, <1>5, <1>6, GoesOn DEF Founding, FoundingLocked

LEMMA CommitRootStep ==
  ASSUME HandshakeInv, NEW p \in Procs, CommitRoot(p)
  PROVE  HandshakeInv' /\ Settles
<1>1. /\ UNCHANGED <<lock_file, marker_dir, root_temp, root_marker, dmVars>>
      /\ proc[p].pc = "root_commit"
  BY DEF CommitRoot
<1>2. /\ proc[p].id \in RootIds /\ lock_file /\ marker_dir /\ ~root_temp
      /\ root_marker = Marker("ready", proc[p].id)
      /\ db = Marker("pending", proc[p].id)
  BY <1>1 DEF HandshakeInv, RootAt, Founding, FoundingLocked
<1>3. db' = db \/ db' = Marker("ready", proc[p].id)
  BY <1>2 DEF CommitRoot, ResolveRoot, Marker
<1>4. ~RootReady
  BY <1>2 DEF RootReady, Marker
<1>5. DbHasFiles' /\ RootOrder'
  BY <1>1, <1>2, <1>3 DEF DbHasFiles, RootOrder, RootReady, Absent, Marker
<1>6. CASE Goto(p, "root_commit", "root_audit") /\ db' = Marker("ready", proc[p].id)
  <2>1. Becomes(p, "root_audit", proc[p].id, proc[p].bot, proc[p].outcome)
    BY <1>6, GotoBecomes DEF HandshakeInv, Pcs, Founding, FoundingLocked
  <2>2. TypeOK'
    BY <1>1, <1>2, <1>6, <2>1
    DEF HandshakeInv, TypeOK, Becomes, Calls, Pcs, Ids, Outcomes, dmVars, Marker
  <2>3. RootAt(p)'
    BY <1>1, <1>2, <1>6, <2>1 DEF Becomes, RootAt
  <2> QED
    BY <1>1, <1>4, <1>5, <1>6, <2>2, <2>3, GoesOn DEF Founding, FoundingLocked
<1>7. CASE Raises(p)
  <2>1. Becomes(p, "idle", NoId, AnyBot, "failed")
    BY <1>7, RaisesBecomes DEF HandshakeInv
  <2>2. TypeOK'
    BY <1>1, <1>2, <1>3, <2>1
    DEF HandshakeInv, TypeOK, Becomes, Calls, Pcs, Ids, Outcomes, dmVars, Marker
  <2>3. RootAt(p)' /\ ReportOf(p)' /\ ~Admitted(p)' /\ ~Exclusive(p)'
    BY <2>1 DEF Becomes, RootAt, ReportOf, Admitted, Exclusive, Founding, FoundingLocked,
                Bootstrapping
  <2>4. \A q \in Procs \ {p} : ~Admitted(q)
    BY <1>1 DEF HandshakeInv, LocksAreExclusive, Admitted, Founding, FoundingLocked
  <2> QED
    BY <1>1, <1>4, <1>5, <2>1, <2>2, <2>3, <2>4, RootStep
    DEF Bootstrapping, Founding, FoundingLocked
<1>8. \/ Goto(p, "root_commit", "root_audit") /\ db' = Marker("ready", proc[p].id)
      \/ Raises(p)
  BY <1>2 DEF CommitRoot, ResolveRoot, Marker
<1> QED
  BY <1>6, <1>7, <1>8

-----------------------------------------------------------------------------
(* The DM                                                                  *)

\* A step of bootstrap_dm after its first that writes and goes on.
LEMMA DmGoesOn ==
  ASSUME HandshakeInv, NEW p \in Procs, NEW from \in Bootstrapping,
         NEW to \in Bootstrapping, Goto(p, from, to), UNCHANGED rootVars, TypeOK',
         NEW bot \in Bots, bot = proc[p].bot,
         \A b \in Bots \ {bot} :
           /\ dm_row'[b] = dm_row[b] /\ dm_temp'[b] = dm_temp[b]
           /\ dm_marker'[b] = dm_marker[b],
         DmAt(p)', DmOrder(bot)'
  PROVE  HandshakeInv' /\ Settles
<1>1. Becomes(p, to, proc[p].id, bot, proc[p].outcome)
  BY GotoBecomes DEF HandshakeInv, Pcs
<1>2. proc[p].pc = from /\ proc'[p].pc = to /\ proc'[p].bot = bot
  BY <1>1 DEF Goto, Becomes
<1>3. RootReady /\ dm_row[bot] \notin {"ready", "deleted"}
  BY <1>2 DEF HandshakeInv, DmAt, Bootstrapping
<1>4. Exclusive(p) /\ \A q \in Procs \ {p} : ~Exclusive(q)
  BY <1>2 DEF HandshakeInv, LocksAreExclusive, Exclusive
<1>5. proc'[p].outcome = proc[p].outcome /\ proc'[p].id = proc[p].id /\ bot \in Bots
  BY <1>1 DEF Becomes, HandshakeInv, TypeOK
<1>6. ReportOf(p)
  BY ByProcess DEF HandshakeInv
<1>7. ReportOf(p)'
  BY <1>2, <1>3, <1>5, <1>6 DEF ReportOf, DmReady, RootReady, rootVars
<1>8. ~DmAbandoned(bot)
  BY <1>2 DEF DmAbandoned
<1> QED
  BY <1>1, <1>3, <1>4, <1>7, <1>8, DmStep

LEMMA BootstrapStep ==
  ASSUME HandshakeInv, NEW p \in Procs, NEW b \in Bots, NEW attempt \in Attempts,
         Bootstrap(p, b, attempt)
  PROVE  HandshakeInv' /\ Settles
<1>1. /\ proc[p].pc = "idle" /\ StoreLockFree /\ UNCHANGED <<rootVars, dm_marker, dm_row>>
      /\ attempt \in Ids
  BY DEF Bootstrap, Ids
<1>2. CASE /\ RootReady /\ ~Blocks(b)
           /\ proc' = [proc EXCEPT ![p] = [pc |-> "dm_pending", id |-> attempt,
                                           bot |-> b, outcome |-> "none"]]
           /\ dm_temp' = [dm_temp EXCEPT ![b] = TRUE]
  <2> DEFINE call == [pc |-> "dm_pending", id |-> attempt, bot |-> b, outcome |-> "none"]
  <2>1. call \in Calls
    BY <1>1 DEF Calls, Pcs, Bootstrapping, Outcomes
  <2>2. Becomes(p, call.pc, call.id, call.bot, call.outcome)
    BY <1>2, <2>1, SetBecomes DEF HandshakeInv
  <2>3. Becomes(p, "dm_pending", attempt, b, "none")
    BY <2>2
  <2> HIDE DEF call
  <2>4. dm_marker[b] = Absent /\ dm_row[b] = "none"
    BY <1>2 DEF HandshakeInv, TypeOK, Blocks, Known, MarkerBeforeRow
  <2>5. dm_temp'[b] /\ \A c \in Bots \ {b} : dm_temp'[c] = dm_temp[c]
    BY <1>2 DEF HandshakeInv, TypeOK
  <2>6. TypeOK'
    <3>1. dm_temp' \in [Bots -> BOOLEAN]
      BY <1>2 DEF HandshakeInv, TypeOK
    <3> QED
      BY <1>1, <2>3, <3>1
      DEF HandshakeInv, TypeOK, Becomes, Calls, Pcs, Ids, Outcomes, rootVars
  <2>7. DmAt(p)' /\ ReportOf(p)'
    BY <1>1, <1>2, <2>3, <2>4, <2>5 DEF Becomes, DmAt, ReportOf, RootReady, rootVars
  <2>8. DmOrder(b)'
    BY <1>1, <2>4 DEF DmOrder
  <2>9. \A q \in Procs \ {p} : ~Exclusive(q)
    BY <1>1 DEF StoreLockFree
  <2>10. ~DmAbandoned(b)
    BY <1>2, <2>4 DEF DmAbandoned, Blocks
  <2> QED
    BY <1>1, <1>2, <2>3, <2>4, <2>5, <2>6, <2>7, <2>8, <2>9, <2>10,
       DmStep DEF Bootstrapping
<1>3. CASE UNCHANGED dm_temp /\ Raises(p)
  BY <1>1, <1>3, RaisesQuietly DEF dmVars
<1>4. CASE /\ UNCHANGED dm_temp /\ AlreadyBootstrapped(b, attempt)
           /\ proc' = [proc EXCEPT ![p] = Idle("bootstrapped", attempt, b)]
  <2> DEFINE call == Idle("bootstrapped", attempt, b)
  <2>1. call \in Calls
    BY <1>1, IdleIsACall DEF Outcomes
  <2>2. Becomes(p, call.pc, call.id, call.bot, call.outcome)
    BY <1>4, <2>1, SetBecomes DEF HandshakeInv
  <2>3. Becomes(p, "idle", attempt, b, "bootstrapped")
    BY <2>2 DEF Idle
  <2>4. DmReady(b) /\ dm_marker[b] = Marker("ready", attempt)
    BY <1>4 DEF AlreadyBootstrapped, DmReady, HandshakeInv, TypeOK, Marker, Absent
  <2>5. ReportOf(p)'
    BY <1>1, <1>4, <2>3, <2>4 DEF Becomes, ReportOf, DmReady, RootReady, rootVars
  <2> QED
    BY <1>1, <1>4, <2>3, <2>5, EndsQuietly DEF dmVars
<1> QED
  BY <1>2, <1>3, <1>4 DEF Bootstrap, Raises

LEMMA PublishDmStep ==
  ASSUME HandshakeInv, NEW p \in Procs, PublishDm(p)
  PROVE  HandshakeInv' /\ Settles
<1>0. PICK b \in Bots : b = proc[p].bot
  BY DEF HandshakeInv, TypeOK
<1>1. /\ dm_temp' = [dm_temp EXCEPT ![b] = FALSE] /\ UNCHANGED <<rootVars, dm_row>>
      /\ b \in Bots
  BY <1>0 DEF PublishDm, HandshakeInv, TypeOK
<1>2. ASSUME NEW from \in Bootstrapping, NEW to \in Bootstrapping,
             NEW state \in {"pending", "ready"}, Goto(p, from, to),
             dm_marker' = [dm_marker EXCEPT ![b] = Marker(state, proc[p].id)],
             \/ from = "dm_pending" /\ to = "dm_insert" /\ state = "pending"
             \/ from = "dm_ready" /\ to = "dm_commit" /\ state = "ready"
      PROVE  HandshakeInv' /\ Settles
  <2>1. /\ proc[p].pc = from
        /\ Becomes(p, to, proc[p].id, b, proc[p].outcome)
    BY <1>0, <1>2, GotoBecomes DEF HandshakeInv, Pcs, Goto
  <2>2. proc[p].id \in Attempts /\ RootReady
    BY <1>0, <2>1 DEF HandshakeInv, DmAt
  <2>3. /\ dm_marker'[b] = Marker(state, proc[p].id) /\ ~dm_temp'[b]
        /\ \A c \in Bots \ {b} : /\ dm_row'[c] = dm_row[c] /\ dm_temp'[c] = dm_temp[c]
                                 /\ dm_marker'[c] = dm_marker[c]
    BY <1>0, <1>1, <1>2 DEF HandshakeInv, TypeOK
  <2>4. TypeOK'
    <3>1. Marker(state, proc[p].id) \in [state : {"pending", "ready"}, id : Attempts]
      BY <1>0, <2>2 DEF Marker
    <3>2. dm_marker' \in [Bots -> [state : {"pending", "ready"}, id : Attempts] \cup {Absent}]
      BY <1>0, <1>2, <3>1 DEF HandshakeInv, TypeOK
    <3>3. dm_temp' \in [Bots -> BOOLEAN]
      BY <1>0, <1>1 DEF HandshakeInv, TypeOK
    <3> QED
      BY <1>0, <1>1, <2>1, <3>2, <3>3
      DEF HandshakeInv, TypeOK, Becomes, Calls, Pcs, Ids, Outcomes, rootVars
  <2>5. from = "dm_pending" => dm_row[b] = "none"
    BY <1>0, <2>1 DEF HandshakeInv, DmAt
  <2>6. from = "dm_ready" => dm_row[b] = "pending"
    BY <1>0, <2>1 DEF HandshakeInv, DmAt
  <2>7. DmAt(p)'
    BY <1>0, <1>1, <1>2, <2>1, <2>2, <2>3, <2>5, <2>6 DEF Becomes, DmAt, RootReady, rootVars
  <2>8. DmOrder(b)'
    BY <1>0, <1>1, <1>2, <2>3, <2>5, <2>6 DEF DmOrder, Marker, Absent
  <2> QED
    BY <1>0, <1>1, <1>2, <2>3, <2>4, <2>7, <2>8, DmGoesOn
<1>3. \/ /\ Goto(p, "dm_pending", "dm_insert")
         /\ dm_marker' = [dm_marker EXCEPT ![b] = Marker("pending", proc[p].id)]
      \/ /\ Goto(p, "dm_ready", "dm_commit")
         /\ dm_marker' = [dm_marker EXCEPT ![b] = Marker("ready", proc[p].id)]
  BY <1>0 DEF PublishDm
<1> QED
  BY <1>0, <1>2, <1>3 DEF Bootstrapping

LEMMA InsertDmStep ==
  ASSUME HandshakeInv, NEW p \in Procs, InsertDm(p)
  PROVE  HandshakeInv' /\ Settles
<1>0. PICK b \in Bots : b = proc[p].bot
  BY DEF HandshakeInv, TypeOK
<1>1. /\ Goto(p, "dm_insert", "dm_ready_temp") /\ proc[p].pc = "dm_insert"
      /\ dm_row' = [dm_row EXCEPT ![b] = "pending"]
      /\ UNCHANGED <<rootVars, dm_temp, dm_marker>> /\ b \in Bots
  BY <1>0 DEF InsertDm, Goto, HandshakeInv, TypeOK
<1>2. Becomes(p, "dm_ready_temp", proc[p].id, b, proc[p].outcome)
  BY <1>0, <1>1, GotoBecomes DEF HandshakeInv, Pcs, Bootstrapping
<1>3. /\ RootReady /\ proc[p].id \in Attempts /\ ~dm_temp[b]
      /\ dm_marker[b] = Marker("pending", proc[p].id)
  BY <1>0, <1>1 DEF HandshakeInv, DmAt, Bootstrapping
<1>4. /\ dm_row'[b] = "pending" /\ \A c \in Bots \ {b} : dm_row'[c] = dm_row[c]
      /\ dm_row' \in [Bots -> {"none", "pending", "ready", "deleted"}]
  BY <1>0, <1>1 DEF HandshakeInv, TypeOK
<1>5. TypeOK'
  BY <1>0, <1>1, <1>2, <1>4
  DEF HandshakeInv, TypeOK, Becomes, Calls, Pcs, Ids, Outcomes, rootVars
<1>6. DmAt(p)'
  BY <1>0, <1>1, <1>2, <1>3, <1>4 DEF Becomes, DmAt, RootReady, rootVars
<1>7. DmOrder(b)'
  BY <1>0, <1>1, <1>3, <1>4 DEF DmOrder, Marker, Absent
<1> QED
  BY <1>0, <1>1, <1>4, <1>5, <1>6, <1>7, DmGoesOn DEF Bootstrapping

LEMMA WriteDmTempStep ==
  ASSUME HandshakeInv, NEW p \in Procs, WriteDmTemp(p)
  PROVE  HandshakeInv' /\ Settles
<1>0. PICK b \in Bots : b = proc[p].bot
  BY DEF HandshakeInv, TypeOK
<1>1. /\ Goto(p, "dm_ready_temp", "dm_ready") /\ proc[p].pc = "dm_ready_temp"
      /\ dm_temp' = [dm_temp EXCEPT ![b] = TRUE]
      /\ UNCHANGED <<rootVars, dm_marker, dm_row>> /\ b \in Bots
  BY <1>0 DEF WriteDmTemp, Goto, HandshakeInv, TypeOK
<1>2. Becomes(p, "dm_ready", proc[p].id, b, proc[p].outcome)
  BY <1>0, <1>1, GotoBecomes DEF HandshakeInv, Pcs, Bootstrapping
<1>3. /\ RootReady /\ proc[p].id \in Attempts /\ dm_row[b] = "pending"
      /\ dm_marker[b] = Marker("pending", proc[p].id)
  BY <1>0, <1>1 DEF HandshakeInv, DmAt, Bootstrapping
<1>4. /\ dm_temp'[b] /\ \A c \in Bots \ {b} : dm_temp'[c] = dm_temp[c]
      /\ dm_temp' \in [Bots -> BOOLEAN]
  BY <1>0, <1>1 DEF HandshakeInv, TypeOK
<1>5. TypeOK'
  BY <1>0, <1>1, <1>2, <1>4
  DEF HandshakeInv, TypeOK, Becomes, Calls, Pcs, Ids, Outcomes, rootVars
<1>6. DmAt(p)'
  BY <1>0, <1>1, <1>2, <1>3, <1>4 DEF Becomes, DmAt, RootReady, rootVars
<1>7. DmOrder(b)'
  BY <1>0, <1>1, <1>3 DEF DmOrder, Marker, Absent
<1> QED
  BY <1>0, <1>1, <1>4, <1>5, <1>6, <1>7, DmGoesOn DEF Bootstrapping

LEMMA CommitDmStep ==
  ASSUME HandshakeInv, NEW p \in Procs, CommitDm(p)
  PROVE  HandshakeInv' /\ Settles
<1>0. PICK b \in Bots : b = proc[p].bot
  BY DEF HandshakeInv, TypeOK
<1>1. proc[p].pc = "dm_commit" /\ UNCHANGED <<rootVars, dm_temp, dm_marker>>
  BY DEF CommitDm
<1>2. /\ RootReady /\ proc[p].id \in Attempts /\ dm_row[b] = "pending" /\ ~dm_temp[b]
      /\ dm_marker[b] = Marker("ready", proc[p].id)
  BY <1>0, <1>1 DEF HandshakeInv, DmAt, Bootstrapping
<1>3. dm_row' \in {dm_row, [dm_row EXCEPT ![b] = "ready"]}
  BY <1>0 DEF CommitDm
<1>4. /\ dm_row' \in [Bots -> {"none", "pending", "ready", "deleted"}]
      /\ \A c \in Bots \ {b} : dm_row'[c] = dm_row[c]
      /\ dm_row'[b] \in {"pending", "ready"}
  BY <1>2, <1>3 DEF HandshakeInv, TypeOK
<1>5. DmReady(b)' <=> dm_row'[b] = "ready"
  BY <1>1, <1>2 DEF DmReady, RootReady, rootVars, Marker
<1>6. DmOrder(b)'
  BY <1>1, <1>2, <1>5 DEF DmOrder, Marker, Absent
<1>7. ASSUME NEW id, NEW bot \in Bots, NEW outcome, Becomes(p, "idle", id, bot, outcome),
             \/ outcome = "failed"
             \/ outcome = "bootstrapped" /\ bot = b /\ id = proc[p].id /\ dm_row'[b] = "ready"
      PROVE  HandshakeInv' /\ Settles
  <2>1. TypeOK'
    BY <1>1, <1>4, <1>7
    DEF HandshakeInv, TypeOK, Becomes, Calls, Pcs, Ids, Outcomes, rootVars
  <2>2. /\ proc'[p].pc = "idle" /\ proc'[p].id = id
        /\ proc'[p].bot = bot /\ proc'[p].outcome = outcome
    BY <1>7 DEF Becomes
  <2>3. DmAt(p)' /\ ~Exclusive(p)'
    BY <2>2 DEF DmAt, Exclusive, Founding, FoundingLocked, Bootstrapping
  <2>4. ReportOf(p)'
    BY <1>1, <1>2, <1>5, <1>7, <2>2 DEF ReportOf
  <2>5. \A q \in Procs \ {p} : ~Exclusive(q)
    BY <1>1 DEF HandshakeInv, LocksAreExclusive, Exclusive, Bootstrapping
  <2>6. ~DmAbandoned(b)
    BY <1>0, <1>1 DEF DmAbandoned, Bootstrapping
  <2>7. "idle" \notin Bootstrapping
    BY DEF Bootstrapping
  <2> QED
    BY <1>1, <1>2, <1>4, <1>6, <1>7, <2>1, <2>3, <2>4, <2>5, <2>6, <2>7, DmStep
<1>8. CASE Raises(p)
  <2>1. AnyBot \in Bots
    BY BotsAssumption, AnyBotIsABot
  <2> QED
    BY <1>8, <2>1, <1>7, RaisesBecomes DEF HandshakeInv
<1>9. CASE Returns(p, "bootstrapped") /\ dm_row'[b] = "ready"
  BY <1>0, <1>7, <1>9, ReturnsBecomes DEF HandshakeInv, Outcomes
<1>10. Raises(p) \/ (Returns(p, "bootstrapped") /\ dm_row'[b] = "ready")
  <2>1. dm_row' = [dm_row EXCEPT ![b] = "ready"] => dm_row'[b] = "ready"
    BY DEF HandshakeInv, TypeOK
  <2> QED
    BY <1>0, <2>1 DEF CommitDm, ResolveDm
<1> QED
  BY <1>8, <1>9, <1>10

LEMMA DeleteDmStep ==
  ASSUME HandshakeInv, NEW b \in Bots, DeleteDm(b)
  PROVE  HandshakeInv' /\ Settles
<1>1. /\ StoreLockFree /\ DmReady(b) /\ dm_row' = [dm_row EXCEPT ![b] = "deleted"]
      /\ UNCHANGED <<rootVars, dm_temp, dm_marker, proc>>
  BY DEF DeleteDm
<1>2. /\ dm_row' \in [Bots -> {"none", "pending", "ready", "deleted"}]
      /\ \A c \in Bots \ {b} : dm_row'[c] = dm_row[c]
      /\ dm_row'[b] = "deleted"
  BY <1>1 DEF HandshakeInv, TypeOK
<1>3. TypeOK' /\ LocksAreExclusive' /\ DbHasFiles'
  BY <1>1, <1>2
  DEF HandshakeInv, TypeOK, LocksAreExclusive, Admitted, Exclusive, DbHasFiles, rootVars
<1>4. \A p \in Procs : proc[p].pc \notin Bootstrapping
  BY <1>1 DEF StoreLockFree, Exclusive
<1>5. \A p \in Procs : RootAt(p)' /\ DmAt(p)'
  BY <1>1, <1>4 DEF HandshakeInv, RootAt, DmAt, Bootstrapping, rootVars
<1>6. RootReady' /\ RootReady
  BY <1>1 DEF DmReady, RootReady, rootVars
<1>7. ASSUME NEW p \in Procs
      PROVE  ReportOf(p)'
  <2>1. ReportOf(p) /\ proc[p].bot \in Bots
    BY ByProcess DEF HandshakeInv, TypeOK
  <2> QED
    BY <1>1, <1>2, <1>6, <2>1 DEF ReportOf, DmReady, rootVars
<1>8. \A c \in Bots : DmOrder(c)'
  <2>1. dm_marker[b] # Absent
    BY <1>1 DEF DmReady, Absent
  <2> QED
    BY <1>1, <1>2, <1>6, <2>1, ByProcess DEF HandshakeInv, DmOrder, DmReady
<1>9. RootOrder'
  BY <1>1, <1>6, ByProcess DEF HandshakeInv, RootOrder, rootVars
<1>10. ReportedIsReady' /\ MarkerBeforeRow'
  BY <1>7, <1>8, <1>9 DEF ReportedIsReady, ReportOf, MarkerBeforeRow, RootOrder, DmOrder
<1>11. Settles
  <2>1. \A c \in Bots : /\ c # b => UNCHANGED Known(c) /\ UNCHANGED DmReady(c)
                        /\ c = b => ~DmAbandoned(c)
    BY <1>1, <1>2, <1>6 DEF Known, DmReady, DmAbandoned
  <2>2. ~RootAbandoned /\ db' = db
    BY <1>1, <1>6 DEF RootAbandoned, rootVars
  <2> QED
    BY <1>1, <1>2, <1>6, <2>1, <2>2 DEF Settles, DmAbandoned
<1> QED
  BY <1>3, <1>5, <1>10, <1>11 DEF HandshakeInv

LEMMA HandshakeStep ==
  ASSUME HandshakeInv, [Next]_vars
  PROVE  HandshakeInv' /\ [Settles]_vars
<1>1. ASSUME NEW p \in Procs, Start(p) PROVE HandshakeInv' /\ Settles
  BY <1>1, EnsureStep, BootstrapStep DEF Start
<1>2. ASSUME NEW p \in Procs, Continue(p) PROVE HandshakeInv' /\ Settles
  BY <1>2, AuditStep, IdentifyStep, AdmitStep, RelockStep, LockStoreStep,
     MakeMarkerDirectoryStep, WriteRootTempStep, PublishRootStep, CreateDbFileStep,
     CommitSchemaStep, CommitRootStep, AuditNewRootStep, PublishDmStep, InsertDmStep,
     WriteDmTempStep, CommitDmStep DEF Continue
<1>3. ASSUME NEW p \in Procs, Interrupted(p) PROVE HandshakeInv' /\ Settles
  BY <1>3, RaisesQuietly DEF Interrupted
<1>4. ASSUME NEW b \in Bots, DeleteDm(b) PROVE HandshakeInv' /\ Settles
  BY <1>4, DeleteDmStep
<1>5. CASE UNCHANGED vars
  BY <1>5 DEF HandshakeInv, TypeOK, LocksAreExclusive, Admitted, Exclusive, RootAt, DmAt,
     DbHasFiles, MarkerBeforeRow, ReportedIsReady, DmReady, RootReady, vars, rootVars, dmVars
<1> QED
  BY <1>1, <1>2, <1>3, <1>4, <1>5 DEF Next

-----------------------------------------------------------------------------
(* Theorems                                                                *)

\* What initialize_root, ensure_runtime_store and bootstrap_dm reported is so and
\* stays so, and no row is ever there before its marker, at every instant at which
\* a process may be killed or a commit's answer lost, with any number of processes
\* starting at once on the same root.
THEOREM HandshakesHold == Spec => []HandshakeHolds
<1>1. HandshakeInv => HandshakeHolds
  BY DEF HandshakeInv, HandshakeHolds
<1>2. HandshakeInv /\ [Next]_vars => HandshakeInv'
  BY HandshakeStep
<1> QED
  BY <1>1, <1>2, HandshakeInit, PTL DEF Spec

\* What an attempt left unfinished is never resumed, repaired or adopted by a
\* later one, a ready root keeps its instance, and a ready DM stays ready until it
\* is deleted (thyca/conversations/store/lifecycle.py).
THEOREM WhatIsSettledStays == Spec => SettledIsForever
<1>1. HandshakeInv /\ [Next]_vars => HandshakeInv'
  BY HandshakeStep
<1>2. HandshakeInv /\ [Next]_vars => [Settles]_vars
  BY HandshakeStep
<1> QED
  BY <1>1, <1>2, HandshakeInit, PTL DEF Spec, SettledIsForever

===============================================================================

-------------------------- MODULE ConversationStore --------------------------
(***************************************************************************)
(* The conversation store of thyca/conversations/store: every room (a      *)
(* "door") is a row of the SQLite table `conversations` with the messages  *)
(* that carry its key.  A message has two positions: `seq`, the number of  *)
(* the insertion event, and `logical_seq`, its place in the conversation;  *)
(* compaction replaces a prefix by one summary row that takes the logical  *)
(* place of the last message it stands for.                                *)
(*                                                                         *)
(* Every operation opens the store under the store-root file lock and runs *)
(* one SQLite transaction (database.py), so each is one action, except the *)
(* two that release the lock half way:                                     *)
(*   - compact_through_seq reads the prefix, releases the lock while the   *)
(*     summarizer runs, and takes the lock again to commit;                *)
(*   - assemble_history reads a conversation page by page, one transaction *)
(*     a page, with a cursor that carries the generation it was read in.   *)
(* The interleavings of those two with appends, purges, deletions and with *)
(* one another are what this module is about.                              *)
(*                                                                         *)
(* A payload is abstracted to the set of the messages it stands for: an    *)
(* appended row covers itself (named by its seq), a summary covers what    *)
(* the rows it replaced covered.                                           *)
(***************************************************************************)
EXTENDS Naturals, FiniteSets, Sequences

CONSTANTS
  Doors,        \* the groups that may ever be created (uuid4 ids: never reused)
  Bots,         \* bot ids, the actors and participants of a door
  Readers,      \* concurrent callers of assemble_history
  Compactors,   \* concurrent callers of compact_through_seq
  PageLimit,    \* rows of a page (page_limit, default 500)
  MaxResyncs,   \* _MAX_ASSEMBLY_RESYNCS
  MaxSeq,       \* bound of the model: highest event seq of a door
  MaxTime       \* bound of the model: last tick of the wall clock

ASSUME BoundsAssumption ==
  /\ PageLimit \in Nat \ {0}
  /\ MaxResyncs \in Nat
  /\ MaxSeq \in Nat
  /\ MaxTime \in Nat
ASSUME SomeDoor == Doors # {}
ASSUME SomeBot == Bots # {}

VARIABLES
  lifecycle,           \* "unborn" before create_group, "ready", "gone" after delete
  participants,        \* the bots of the door's metadata
  generation,          \* bumped whenever rows are removed
  event_high_water,    \* the highest seq ever given
  logical_high_water,  \* the highest logical_seq ever given
  messages,            \* the rows of the door
  clock,               \* utc_now_ts()
  assembly,            \* the state of each caller of assemble_history
  compaction,          \* the state of each caller of compact_through_seq
  appended,            \* history: the messages ever appended to the door
  dropped              \* history: those that purge or delete removed on purpose

doorVars == <<lifecycle, participants, generation, event_high_water,
              logical_high_water, messages, appended, dropped>>
vars == <<doorVars, clock, assembly, compaction>>

Positive == Nat \ {0}
Message == [seq : Positive, logical_seq : Positive, created_at : Nat,
            covers : SUBSET Positive]

\* A caller of assemble_history: the cursor is <<generation, after>>, absent
\* ("started" is FALSE) before the first page.
Assembly == [state : {"idle", "paging", "done", "failed"}, door : Doors,
             actor : Bots, started : BOOLEAN, generation : Nat, after : Nat,
             collected : Seq(Message), restarts : Nat]

\* A caller of compact_through_seq between its snapshot and its final phase.
Compaction == [busy : BOOLEAN, door : Doors, generation : Nat,
               prefix : SUBSET Message, effective : Nat]

\* A caller of assemble_history that has read nothing yet.
NewAssembly(state, d, bot) ==
  [state |-> state, door |-> d, actor |-> bot, started |-> FALSE,
   generation |-> 0, after |-> 0, collected |-> << >>, restarts |-> 0]

NoAssembly(state) ==
  NewAssembly(state, CHOOSE d \in Doors : TRUE, CHOOSE b \in Bots : TRUE)

IdleCompaction ==
  [busy |-> FALSE, door |-> CHOOSE d \in Doors : TRUE, generation |-> 0,
   prefix |-> {}, effective |-> 0]

Init ==
  /\ lifecycle = [d \in Doors |-> "unborn"]
  /\ participants = [d \in Doors |-> {}]
  /\ generation = [d \in Doors |-> 0]
  /\ event_high_water = [d \in Doors |-> 0]
  /\ logical_high_water = [d \in Doors |-> 0]
  /\ messages = [d \in Doors |-> {}]
  /\ clock = 0
  /\ assembly = [r \in Readers |-> NoAssembly("idle")]
  /\ compaction = [c \in Compactors |-> IdleCompaction]
  /\ appended = [d \in Doors |-> {}]
  /\ dropped = [d \in Doors |-> {}]

-----------------------------------------------------------------------------
(* Reading the rows                                                        *)

\* The store's own corruption check: no row lies beyond the high-waters.
Sound(d) ==
  \A m \in messages[d] : /\ m.seq <= event_high_water[d]
                         /\ m.logical_seq <= logical_high_water[d]

\* _ensure_door_ready without an actor (the server-side and admin callers).
DoorReady(d) == lifecycle[d] = "ready" /\ Sound(d)

\* _ensure_door_ready with an actor: membership is checked in the transaction.
DoorReadyFor(d, bot) == DoorReady(d) /\ bot \in participants[d]

\* The rows after a logical position, and the first PageLimit of them.
After(rows, start) == {m \in rows : m.logical_seq > start}
UpTo(rows, last) == {m \in rows : m.logical_seq <= last}
FirstPage(rows) == {m \in rows : Cardinality(UpTo(rows, m.logical_seq)) <= PageLimit}

InLogicalOrder(s) ==
  \A i, j \in DOMAIN s : i < j => s[i].logical_seq < s[j].logical_seq

\* A sequence that lists the rows, each once, in logical order.
Lists(s, rows) == {s[i] : i \in DOMAIN s} = rows /\ InLogicalOrder(s)
Listing(rows) == {s \in [1 .. Cardinality(rows) -> rows] : Lists(s, rows)}

-----------------------------------------------------------------------------
(* Operations that are one transaction                                     *)

\* create_group: a fresh ready door.  The identifier is fresh by retrying
\* inside the transaction.
CreateGroup(d, bots) ==
  /\ lifecycle[d] = "unborn"
  /\ bots # {}
  /\ lifecycle' = [lifecycle EXCEPT ![d] = "ready"]
  /\ participants' = [participants EXCEPT ![d] = bots]
  /\ UNCHANGED <<generation, event_high_water, logical_high_water, messages,
                 appended, dropped, clock, assembly, compaction>>

\* MUTANT of NextSeq: numbered by the rows that are left.
NextSeqByCount(d) == Cardinality(messages[d]) + 1
\* MUTANT of NextSeq: one more than the highest seq that is left.
NextSeqByMax(d) ==
  IF messages[d] = {} THEN 1
  ELSE 1 + (CHOOSE n \in {m.seq : m \in messages[d]} :
              \A m \in messages[d] : m.seq <= n)

\* The positions of the next row come from the high-waters, not from the rows
\* that are left.
NextSeq(d) == event_high_water[d] + 1
NextLogical(d) == logical_high_water[d] + 1

\* The insert shared by every append: the next seq and the next logical_seq,
\* and both high-waters moved in the same transaction.
InsertRow(d) ==
  LET seq == NextSeq(d)
      logical == NextLogical(d)
  IN /\ seq <= MaxSeq
     /\ messages' = [messages EXCEPT ![d] = @ \cup
          {[seq |-> seq, logical_seq |-> logical, created_at |-> clock,
            covers |-> {seq}]}]
     /\ event_high_water' = [event_high_water EXCEPT ![d] = seq]
     /\ logical_high_water' = [logical_high_water EXCEPT ![d] = logical]
     /\ appended' = [appended EXCEPT ![d] = @ \cup {seq}]
     /\ UNCHANGED <<lifecycle, participants, generation, dropped, clock,
                    assembly, compaction>>

\* AgentStore.append and append_turn_error: by a participant.
AppendMessage(d, bot) == DoorReadyFor(d, bot) /\ InsertRow(d)

\* append_server_message and append_server_row: no bot authorizes the row.
AppendServer(d) == DoorReady(d) /\ InsertRow(d)

\* set_conversation_metadata, seen by this module only through participants:
\* the writing bot must itself be one.
SetParticipants(d, bot, bots) ==
  /\ DoorReadyFor(d, bot)
  /\ bots # {}
  /\ participants' = [participants EXCEPT ![d] = bots]
  /\ UNCHANGED <<lifecycle, generation, event_high_water, logical_high_water,
                 messages, appended, dropped, clock, assembly, compaction>>

\* AdminStore.delete: the rows and the door, in one transaction.
Delete(d) ==
  /\ DoorReady(d)
  /\ lifecycle' = [lifecycle EXCEPT ![d] = "gone"]
  /\ messages' = [messages EXCEPT ![d] = {}]
  /\ dropped' = [dropped EXCEPT ![d] = appended[d]]
  /\ UNCHANGED <<participants, generation, event_high_water,
                 logical_high_water, appended, clock, assembly, compaction>>

Expired(d, cutoff) == {m \in messages[d] : m.created_at < cutoff}

\* MUTANT of PurgedGeneration: purging forgets the generation.
PurgedGenerationKept(d, cutoff) == generation[d]

\* A door that loses a row changes generation.
PurgedGeneration(d, cutoff) ==
  IF Expired(d, cutoff) = {} THEN generation[d] ELSE generation[d] + 1

\* AdminStore.purge_before: every door in one transaction, after the audit; the
\* high-waters stay.
Purge(cutoff) ==
  /\ \A d \in Doors : lifecycle[d] = "ready" => Sound(d)
  /\ messages' = [d \in Doors |-> messages[d] \ Expired(d, cutoff)]
  /\ generation' = [d \in Doors |-> PurgedGeneration(d, cutoff)]
  /\ dropped' = [d \in Doors |->
                   dropped[d] \cup UNION {m.covers : m \in Expired(d, cutoff)}]
  /\ UNCHANGED <<lifecycle, participants, event_high_water,
                 logical_high_water, appended, clock, assembly, compaction>>

Tick ==
  /\ clock < MaxTime
  /\ clock' = clock + 1
  /\ UNCHANGED <<doorVars, assembly, compaction>>

-----------------------------------------------------------------------------
(* compact_through_seq: snapshot, summarize without the lock, commit       *)

\* The snapshot phase.  `through` is the caller's logical position; the
\* effective one is that of the last retained row not after it.
CompactSnapshot(c, d, through) ==
  LET prefix == UpTo(messages[d], through)
  IN /\ ~compaction[c].busy
     /\ DoorReady(d)
     /\ through <= logical_high_water[d]
     /\ prefix # {}
     /\ \E last \in prefix :
          /\ \A m \in prefix : m.logical_seq <= last.logical_seq
          /\ compaction' = [compaction EXCEPT ![c] =
               [busy |-> TRUE, door |-> d, generation |-> generation[d],
                prefix |-> prefix, effective |-> last.logical_seq]]
     /\ UNCHANGED <<doorVars, clock, assembly>>

\* MUTANT of Unchanged: the final phase trusts its snapshot.
UnchangedTrusted(p) == DoorReady(p.door)

\* What the final phase requires: only a suffix was appended since.
Unchanged(p) ==
  /\ DoorReady(p.door)
  /\ generation[p.door] = p.generation
  /\ UpTo(messages[p.door], p.effective) = p.prefix

\* The final phase: the prefix goes, the summary takes its last logical place
\* under a fresh seq, and the generation changes.
CompactCommit(c) ==
  LET p == compaction[c]
      d == p.door
      seq == NextSeq(d)
      high == logical_high_water[d]
  IN /\ p.busy
     /\ Unchanged(p)
     /\ seq <= MaxSeq
     /\ messages' = [messages EXCEPT ![d] =
          After(@, p.effective) \cup
          {[seq |-> seq, logical_seq |-> p.effective, created_at |-> clock,
            covers |-> UNION {m.covers : m \in p.prefix}]}]
     /\ generation' = [generation EXCEPT ![d] = @ + 1]
     /\ event_high_water' = [event_high_water EXCEPT ![d] = seq]
     /\ logical_high_water' = [logical_high_water EXCEPT ![d] =
          IF high >= p.effective THEN high ELSE p.effective]
     /\ compaction' = [compaction EXCEPT ![c] = IdleCompaction]
     /\ UNCHANGED <<lifecycle, participants, appended, dropped, clock, assembly>>

\* "compaction conflict", or the door is gone: no mutation, no retry.
CompactConflict(c) ==
  /\ compaction[c].busy
  /\ ~Unchanged(compaction[c])
  /\ compaction' = [compaction EXCEPT ![c] = IdleCompaction]
  /\ UNCHANGED <<doorVars, clock, assembly>>

\* The summarizer raises, or its text is refused.
SummarizeFails(c) ==
  /\ compaction[c].busy
  /\ compaction' = [compaction EXCEPT ![c] = IdleCompaction]
  /\ UNCHANGED <<doorVars, clock, assembly>>

-----------------------------------------------------------------------------
(* assemble_history: page by page, restarting on a resync                  *)

StartAssembly(r, d, bot) ==
  /\ assembly[r].state # "paging"
  /\ assembly' = [assembly EXCEPT ![r] = NewAssembly("paging", d, bot)]
  /\ UNCHANGED <<doorVars, clock, compaction>>

\* MUTANT of Stale: the generation of the cursor is not compared.
StaleByPosition(a) ==
  /\ a.started
  /\ \/ a.after > logical_high_water[a.door]
     \/ a.after # 0 /\ \A m \in messages[a.door] : m.logical_seq # a.after

\* AgentStore.read answers with a resync: the cursor is of another
\* generation, beyond the high-water, or not at a retained position.
Stale(a) ==
  /\ a.started
  /\ \/ a.generation # generation[a.door]
     \/ a.after > logical_high_water[a.door]
     \/ a.after # 0 /\ \A m \in messages[a.door] : m.logical_seq # a.after

\* A page read in generation g is added to what was collected; the cursor
\* moves to its last row, and stays where it is when the page is empty.
PageAdded(a, page, g, more) ==
  [state |-> IF more THEN "paging" ELSE "done",
   door |-> a.door, actor |-> a.actor, started |-> TRUE, generation |-> g,
   after |-> IF page = << >> THEN a.after ELSE page[Len(page)].logical_seq,
   collected |-> a.collected \o page, restarts |-> a.restarts]

\* A resync discards what was collected and restarts from the reset cursor.
Restarted(a, g) ==
  [state |-> "paging", door |-> a.door, actor |-> a.actor, started |-> TRUE,
   generation |-> g, after |-> 0, collected |-> << >>,
   restarts |-> a.restarts + 1]

\* A page: the rows after the cursor, in logical order.  The page that leaves
\* nothing behind ends the assembly.
ReadPage(r) ==
  LET a == assembly[r]
      rest == After(messages[a.door], a.after)
  IN /\ a.state = "paging"
     /\ DoorReadyFor(a.door, a.actor)
     /\ ~Stale(a)
     /\ \E page \in Listing(FirstPage(rest)) :
          assembly' = [assembly EXCEPT ![r] =
            PageAdded(a, page, generation[a.door], Cardinality(rest) > PageLimit)]
     /\ UNCHANGED <<doorVars, clock, compaction>>

\* MaxResyncs resyncs are followed; the next one gives up.
ReadResync(r) ==
  LET a == assembly[r]
  IN /\ a.state = "paging"
     /\ DoorReadyFor(a.door, a.actor)
     /\ Stale(a)
     /\ assembly' = [assembly EXCEPT ![r] =
          IF a.restarts = MaxResyncs THEN NoAssembly("failed")
                                     ELSE Restarted(a, generation[a.door])]
     /\ UNCHANGED <<doorVars, clock, compaction>>

\* The door is not (or no longer) readable by the actor.
ReadRefused(r) ==
  /\ assembly[r].state = "paging"
  /\ ~DoorReadyFor(assembly[r].door, assembly[r].actor)
  /\ assembly' = [assembly EXCEPT ![r] = NoAssembly("failed")]
  /\ UNCHANGED <<doorVars, clock, compaction>>

-----------------------------------------------------------------------------

Next ==
  \/ \E d \in Doors, bots \in SUBSET Bots : CreateGroup(d, bots)
  \/ \E d \in Doors, bot \in Bots : AppendMessage(d, bot)
  \/ \E d \in Doors : AppendServer(d)
  \/ \E d \in Doors, bot \in Bots, bots \in SUBSET Bots :
       SetParticipants(d, bot, bots)
  \/ \E d \in Doors : Delete(d)
  \/ \E cutoff \in 1 .. MaxTime + 1 : Purge(cutoff)
  \/ Tick
  \/ \E c \in Compactors, d \in Doors, through \in 1 .. MaxSeq :
       CompactSnapshot(c, d, through)
  \/ \E c \in Compactors : CompactCommit(c)
  \/ \E c \in Compactors : CompactConflict(c)
  \/ \E c \in Compactors : SummarizeFails(c)
  \/ \E r \in Readers, d \in Doors, bot \in Bots : StartAssembly(r, d, bot)
  \/ \E r \in Readers : ReadPage(r)
  \/ \E r \in Readers : ReadResync(r)
  \/ \E r \in Readers : ReadRefused(r)

Spec == Init /\ [][Next]_vars

-----------------------------------------------------------------------------
(* Properties                                                              *)

\* Every variable has its type.
TypeOK ==
  /\ lifecycle \in [Doors -> {"unborn", "ready", "gone"}]
  /\ participants \in [Doors -> SUBSET Bots]
  /\ generation \in [Doors -> Nat]
  /\ event_high_water \in [Doors -> Nat]
  /\ logical_high_water \in [Doors -> Nat]
  /\ messages \in [Doors -> SUBSET Message]
  /\ clock \in Nat
  /\ assembly \in [Readers -> Assembly]
  /\ compaction \in [Compactors -> Compaction]
  /\ appended \in [Doors -> SUBSET Positive]
  /\ dropped \in [Doors -> SUBSET Positive]

\* The two keys of the table never collide and the corruption check of
\* _ensure_door_ready never fires, whatever was appended, compacted or purged:
\* no legal sequence of calls makes a door "conversation corrupt".
KeysUnique ==
  \A d \in Doors :
    /\ Sound(d)
    /\ \A m, n \in messages[d] :
         m.seq = n.seq \/ m.logical_seq = n.logical_seq => m = n

\* No message is lost to compaction: whatever was appended and not removed on
\* purpose is carried by exactly one row, itself or a summary.
NothingLost ==
  \A d \in Doors :
    /\ \A m \in messages[d] : m.covers \subseteq appended[d] \ dropped[d]
    /\ \A i \in appended[d] \ dropped[d] : \E m \in messages[d] : i \in m.covers
    /\ \A m, n \in messages[d] : m # n => m.covers \cap n.covers = {}

\* The logical order is the order of the conversation: a summary stands before
\* every message newer than those it covers.
ChronologyPreserved ==
  \A d \in Doors : \A m, n \in messages[d] :
    m.logical_seq < n.logical_seq =>
      \A i \in m.covers, j \in n.covers : i < j

\* The rows of a door are a table with two keys, in the order of the conversation.
RowsAreOrdered == KeysUnique /\ ChronologyPreserved

\* What a cursor points at does not move under it: within a generation rows
\* are only added, and only after every logical position already given out.
AppendOnlyGeneration ==
  [][\A d \in Doors :
       generation'[d] = generation[d] /\ lifecycle'[d] # "gone" =>
         /\ messages[d] \subseteq messages'[d]
         /\ \A m \in messages'[d] \ messages[d] :
              m.logical_seq > logical_high_water[d]]_vars

\* An event seq names one event for ever: a row that appears has a seq above
\* every seq the door has ever had, also after its last rows were purged.
SeqNeverReused ==
  [][\A d \in Doors :
       /\ event_high_water'[d] >= event_high_water[d]
       /\ \A m \in messages'[d] \ messages[d] : m.seq > event_high_water[d]]_vars

\* assemble_history returns a snapshot: although each page is its own
\* transaction, what it returns is exactly the conversation, in order and
\* without gap or duplicate, as it is when the last page is read.
AssembledIsSnapshot ==
  [][\A r \in Readers :
       assembly[r].state = "paging" /\ assembly'[r].state = "done" =>
         Lists(assembly'[r].collected, messages[assembly[r].door])]_vars

=============================================================================

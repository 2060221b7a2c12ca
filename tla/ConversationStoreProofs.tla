----------------------- MODULE ConversationStoreProofs -----------------------
(***************************************************************************)
(* Proofs about ConversationStore, for any sets of doors, bots, readers    *)
(* and compactors and any page size: type correctness, that the keys of    *)
(* the messages table never collide, that compaction loses nothing, that a *)
(* history assembled page by page is a snapshot, and that the store        *)
(* implements ConversationLog.                                             *)
(***************************************************************************)
EXTENDS ConversationStoreRefinement, FiniteSetTheorems, SequenceTheorems, TLAPS

-----------------------------------------------------------------------------
(* Type correctness                                                        *)

\* The records of idle, new and restarted callers have their types.
LEMMA IdleTypes ==
  /\ \A state \in {"idle", "failed"} : NoAssembly(state) \in Assembly
  /\ \A d \in Doors, bot \in Bots : NewAssembly("paging", d, bot) \in Assembly
  /\ IdleCompaction \in Compaction
<1>1. (CHOOSE d \in Doors : TRUE) \in Doors /\ (CHOOSE b \in Bots : TRUE) \in Bots
  BY SomeDoor, SomeBot
<1>2. << >> \in Seq(Message)
  OBVIOUS
<1> QED
  BY <1>1, <1>2 DEF NoAssembly, NewAssembly, IdleCompaction, Assembly, Compaction

\* A resync leaves a caller of the right type.
LEMMA RestartedType ==
  ASSUME NEW a \in Assembly, NEW g \in Nat
  PROVE  Restarted(a, g) \in Assembly
<1>1. << >> \in Seq(Message)
  OBVIOUS
<1> QED
  BY <1>1 DEF Restarted, Assembly

\* The last position of a sequence that is not empty.
LEMMA LastIndex ==
  ASSUME NEW S, NEW s \in Seq(S), s # << >>
  PROVE  Len(s) \in Nat /\ Len(s) \in DOMAIN s /\ s[Len(s)] \in S
  OBVIOUS

\* A page is a sequence of messages, as long as it has rows.
LEMMA ListingType ==
  ASSUME NEW rows \in SUBSET Message, IsFiniteSet(rows), NEW s \in Listing(rows)
  PROVE  /\ s \in Seq(Message)
         /\ s \in Seq(rows)
         /\ Len(s) = Cardinality(rows)
         /\ Lists(s, rows)
<1>1. Cardinality(rows) \in Nat
  BY FS_CardinalityType
<1>2. s \in [1 .. Cardinality(rows) -> rows] /\ Lists(s, rows)
  BY DEF Listing
<1> QED
  BY <1>1, <1>2

\* Adding a page to an assembly keeps its type.
LEMMA PageAddedType ==
  ASSUME NEW a \in Assembly, NEW page \in Seq(Message), NEW g \in Nat,
         NEW more
  PROVE  PageAdded(a, page, g, more) \in Assembly
<1>1. a.collected \o page \in Seq(Message)
  BY ConcatProperties DEF Assembly
<1>2. page # << >> => page[Len(page)].logical_seq \in Nat
  <2> HAVE page # << >>
  <2>1. page[Len(page)] \in Message
    BY LastIndex
  <2> QED
    BY <2>1 DEF Message, Positive
<1> QED
  BY <1>1, <1>2 DEF PageAdded, Assembly

\* The tables hold finitely many rows, and a compaction in flight knows a
\* logical position; with these the types are inductive.
FiniteRows == \A d \in Doors : IsFiniteSet(messages[d])
SnapshotPlaced ==
  \A c \in Compactors : compaction[c].busy => compaction[c].effective \in Positive
TypeInv == TypeOK /\ FiniteRows /\ SnapshotPlaced

\* A step that leaves a variable group alone keeps its types.
LEMMA TypeInvInit == Init => TypeInv
<1> SUFFICES ASSUME Init PROVE TypeInv
  OBVIOUS
<1>1. TypeOK
  BY IdleTypes DEF Init, TypeOK
<1>2. FiniteRows
  BY FS_EmptySet DEF Init, FiniteRows
<1>3. SnapshotPlaced
  BY DEF Init, SnapshotPlaced, IdleCompaction
<1> QED
  BY <1>1, <1>2, <1>3 DEF TypeInv

\* Inserting a row keeps the types, whoever is allowed to insert it.
LEMMA InsertRowType ==
  ASSUME TypeInv, NEW d \in Doors, InsertRow(d)
  PROVE  TypeInv'
<1> DEFINE row == [seq |-> event_high_water[d] + 1,
                   logical_seq |-> logical_high_water[d] + 1,
                   created_at |-> clock, covers |-> {event_high_water[d] + 1}]
<1>1. event_high_water[d] + 1 \in Positive /\ logical_high_water[d] + 1 \in Positive
  BY DEF TypeInv, TypeOK, Positive
<1>2. row \in Message
  BY <1>1 DEF TypeInv, TypeOK, Message
<1>3. messages' = [messages EXCEPT ![d] = @ \cup {row}]
  BY DEF InsertRow, NextSeq, NextLogical
<1> HIDE DEF row
<1>4. messages' \in [Doors -> SUBSET Message]
  BY <1>2, <1>3 DEF TypeInv, TypeOK
<1>5. FiniteRows'
  <2> SUFFICES ASSUME NEW e \in Doors PROVE IsFiniteSet(messages'[e])
    BY DEF FiniteRows
  <2>1. messages'[e] = IF e = d THEN messages[d] \cup {row} ELSE messages[e]
    BY <1>3 DEF TypeInv, TypeOK
  <2> QED
    BY <2>1, FS_AddElement DEF TypeInv, FiniteRows
<1> QED
  BY <1>1, <1>4, <1>5 DEF TypeInv, TypeOK, InsertRow, NextSeq, NextLogical, SnapshotPlaced

\* Purging keeps the types.
LEMMA PurgeType ==
  ASSUME TypeInv, NEW cutoff \in Nat, Purge(cutoff)
  PROVE  TypeInv'
<1>1. messages' \in [Doors -> SUBSET Message]
  BY DEF TypeInv, TypeOK, Purge, PurgedGeneration
<1>2. generation' \in [Doors -> Nat]
  BY DEF TypeInv, TypeOK, Purge, PurgedGeneration
<1>3. dropped' \in [Doors -> SUBSET Positive]
  <2>1. \A d \in Doors : UNION {m.covers : m \in Expired(d, cutoff)} \subseteq Positive
    BY DEF TypeInv, TypeOK, Expired, Message
  <2> QED
    BY <2>1 DEF TypeInv, TypeOK, Purge, PurgedGeneration
<1>4. FiniteRows'
  <2> SUFFICES ASSUME NEW d \in Doors PROVE IsFiniteSet(messages'[d])
    BY DEF FiniteRows
  <2>1. messages'[d] \in SUBSET messages[d]
    BY DEF Purge, PurgedGeneration
  <2> QED
    BY <2>1, FS_Subset DEF TypeInv, FiniteRows
<1> QED
  BY <1>1, <1>2, <1>3, <1>4 DEF TypeInv, TypeOK, Purge, SnapshotPlaced

\* The final phase of a compaction keeps the types.
LEMMA CompactCommitType ==
  ASSUME TypeInv, NEW c \in Compactors, CompactCommit(c)
  PROVE  TypeInv'
<1> DEFINE p == compaction[c]
           d == p.door
           row == [seq |-> event_high_water[d] + 1, logical_seq |-> p.effective,
                   created_at |-> clock, covers |-> UNION {m.covers : m \in p.prefix}]
<1>1. p \in Compaction /\ d \in Doors /\ p.effective \in Positive /\ p.prefix \subseteq Message
  BY DEF TypeInv, TypeOK, Compaction, CompactCommit, SnapshotPlaced
<1>2. UNION {m.covers : m \in p.prefix} \subseteq Positive
  BY <1>1 DEF Message
<1>3. row \in Message
  <2>1. event_high_water[d] + 1 \in Positive /\ clock \in Nat
    BY <1>1 DEF TypeInv, TypeOK, Positive
  <2> QED
    BY <1>1, <1>2, <2>1 DEF Message
<1>4. messages' = [messages EXCEPT ![d] = After(messages[d], p.effective) \cup {row}]
  BY <1>1 DEF CompactCommit, NextSeq, TypeInv, TypeOK
<1> HIDE DEF row
<1>5. messages' \in [Doors -> SUBSET Message]
  BY <1>1, <1>3, <1>4 DEF TypeInv, TypeOK, After
<1>6. FiniteRows'
  <2> SUFFICES ASSUME NEW e \in Doors PROVE IsFiniteSet(messages'[e])
    BY DEF FiniteRows
  <2>1. messages'[e] = IF e = d THEN After(messages[d], p.effective) \cup {row}
                       ELSE messages[e]
    BY <1>1, <1>4 DEF TypeInv, TypeOK
  <2>2. IsFiniteSet(After(messages[d], p.effective))
    BY <1>1, FS_Subset DEF TypeInv, FiniteRows, After
  <2> QED
    BY <2>1, <2>2, FS_AddElement DEF TypeInv, FiniteRows
<1>7. /\ generation' \in [Doors -> Nat]
      /\ event_high_water' \in [Doors -> Nat]
      /\ logical_high_water' \in [Doors -> Nat]
  BY <1>1 DEF CompactCommit, NextSeq, TypeInv, TypeOK, Positive
<1>8. compaction' \in [Compactors -> Compaction] /\ SnapshotPlaced'
  BY IdleTypes DEF CompactCommit, NextSeq, TypeInv, TypeOK, SnapshotPlaced, IdleCompaction
<1> QED
  BY <1>5, <1>6, <1>7, <1>8 DEF TypeInv, TypeOK, CompactCommit, NextSeq

\* Reading a page keeps the types.
LEMMA ReadPageType ==
  ASSUME TypeInv, NEW r \in Readers, ReadPage(r)
  PROVE  TypeInv'
<1> DEFINE a == assembly[r]
           rest == After(messages[a.door], a.after)
           selected == FirstPage(rest)
<1>1. a \in Assembly /\ a.door \in Doors
  BY DEF TypeInv, TypeOK, Assembly
<1>2. selected \in SUBSET Message /\ IsFiniteSet(selected)
  <2>1. selected \in SUBSET messages[a.door]
    BY DEF FirstPage, After
  <2> QED
    BY <1>1, <2>1, FS_Subset DEF TypeInv, TypeOK, FiniteRows
<1>3. PICK page \in Listing(selected) :
        assembly' = [assembly EXCEPT ![r] =
          PageAdded(a, page, generation[a.door], Cardinality(rest) > PageLimit)]
  BY DEF ReadPage
<1>4. page \in Seq(Message)
  BY <1>2, ListingType
<1>5. generation[a.door] \in Nat
  BY <1>1 DEF TypeInv, TypeOK
<1>6. PageAdded(a, page, generation[a.door], Cardinality(rest) > PageLimit) \in Assembly
  BY <1>1, <1>4, <1>5, PageAddedType
<1>7. assembly' \in [Readers -> Assembly]
  BY <1>3, <1>6 DEF TypeInv, TypeOK
<1> QED
  BY <1>7 DEF ReadPage, TypeInv, TypeOK, FiniteRows, SnapshotPlaced, doorVars

\* The steps of the callers that leave the tables alone, and the metadata.
LEMMA TypeInvStep == TypeInv /\ [Next]_vars => TypeInv'
<1> SUFFICES ASSUME TypeInv, [Next]_vars PROVE TypeInv'
  OBVIOUS
<1> USE DEF TypeInv
<1>1. ASSUME NEW d \in Doors, NEW bots \in SUBSET Bots, CreateGroup(d, bots)
      PROVE  TypeInv'
  BY <1>1 DEF CreateGroup, TypeOK, FiniteRows, SnapshotPlaced
<1>2. ASSUME NEW d \in Doors, InsertRow(d)
      PROVE  TypeInv'
  BY <1>2, InsertRowType
<1>3. ASSUME NEW d \in Doors, NEW bot \in Bots, NEW bots \in SUBSET Bots,
             SetParticipants(d, bot, bots)
      PROVE  TypeInv'
  BY <1>3 DEF SetParticipants, TypeOK, FiniteRows, SnapshotPlaced
<1>4. ASSUME NEW d \in Doors, Delete(d)
      PROVE  TypeInv'
  BY <1>4, FS_EmptySet DEF Delete, TypeOK, FiniteRows, SnapshotPlaced
<1>5. ASSUME NEW cutoff \in 1 .. MaxTime + 1, Purge(cutoff)
      PROVE  TypeInv'
  BY <1>5, PurgeType, BoundsAssumption
<1>6. CASE Tick
  BY <1>6 DEF Tick, doorVars, TypeOK, FiniteRows, SnapshotPlaced
<1>7. ASSUME NEW c \in Compactors, NEW d \in Doors, NEW through \in 1 .. MaxSeq,
             CompactSnapshot(c, d, through)
      PROVE  TypeInv'
  <2>1. PICK last \in UpTo(messages[d], through) :
          compaction' = [compaction EXCEPT ![c] =
            [busy |-> TRUE, door |-> d, generation |-> generation[d],
             prefix |-> UpTo(messages[d], through), effective |-> last.logical_seq]]
    BY <1>7 DEF CompactSnapshot
  <2>2. last.logical_seq \in Positive
    BY DEF TypeOK, UpTo, Message
  <2>3. [busy |-> TRUE, door |-> d, generation |-> generation[d],
         prefix |-> UpTo(messages[d], through), effective |-> last.logical_seq]
          \in Compaction
    BY <2>2 DEF TypeOK, UpTo, Compaction, Positive
  <2>4. compaction' \in [Compactors -> Compaction] /\ SnapshotPlaced'
    BY <2>1, <2>2, <2>3 DEF TypeOK, SnapshotPlaced
  <2> QED
    BY <1>7, <2>4 DEF CompactSnapshot, doorVars, TypeOK, FiniteRows
<1>8. ASSUME NEW c \in Compactors, CompactCommit(c)
      PROVE  TypeInv'
  BY <1>8, CompactCommitType
<1>9. ASSUME NEW c \in Compactors, CompactConflict(c) \/ SummarizeFails(c)
      PROVE  TypeInv'
  <2>1. compaction' = [compaction EXCEPT ![c] = IdleCompaction]
    BY <1>9 DEF CompactConflict, SummarizeFails
  <2>2. compaction' \in [Compactors -> Compaction] /\ SnapshotPlaced'
    BY <2>1, IdleTypes DEF TypeOK, SnapshotPlaced, IdleCompaction
  <2> QED
    BY <1>9, <2>2 DEF CompactConflict, SummarizeFails, doorVars, TypeOK, FiniteRows
<1>10. ASSUME NEW r \in Readers, NEW d \in Doors, NEW bot \in Bots,
              StartAssembly(r, d, bot)
       PROVE  TypeInv'
  BY <1>10, IdleTypes DEF StartAssembly, doorVars, TypeOK, FiniteRows, SnapshotPlaced
<1>11. ASSUME NEW r \in Readers, ReadPage(r)
       PROVE  TypeInv'
  BY <1>11, ReadPageType
<1>12. ASSUME NEW r \in Readers, ReadResync(r)
       PROVE  TypeInv'
  <2>1. assembly[r] \in Assembly /\ generation[assembly[r].door] \in Nat
    BY DEF TypeOK, Assembly
  <2>2. Restarted(assembly[r], generation[assembly[r].door]) \in Assembly
    BY <2>1, RestartedType
  <2>3. assembly' \in [Readers -> Assembly]
    BY <1>12, <2>2, IdleTypes DEF ReadResync, TypeOK
  <2> QED
    BY <1>12, <2>3 DEF ReadResync, doorVars, TypeOK, FiniteRows, SnapshotPlaced
<1>13. ASSUME NEW r \in Readers, ReadRefused(r)
       PROVE  TypeInv'
  BY <1>13, IdleTypes DEF ReadRefused, doorVars, TypeOK, FiniteRows, SnapshotPlaced
<1>14. CASE UNCHANGED vars
  BY <1>14 DEF vars, doorVars, TypeOK, FiniteRows, SnapshotPlaced
<1> QED
  BY <1>1, <1>2, <1>3, <1>4, <1>5, <1>6, <1>7, <1>8, <1>9, <1>10, <1>11, <1>12,
     <1>13, <1>14 DEF Next, AppendMessage, AppendServer

\* Whatever the processes do, every variable of the store keeps its type.
THEOREM TypeCorrect == Spec => []TypeOK
<1>1. Spec => []TypeInv
  BY TypeInvInit, TypeInvStep, PTL DEF Spec
<1>2. TypeInv => TypeOK
  BY DEF TypeInv
<1> QED
  BY <1>1, <1>2, PTL

-----------------------------------------------------------------------------
(* The rows: their keys, what they stand for, and their order              *)

\* The histories are of seqs already given out; with this the three
\* properties of the rows are inductive together.
HistoryBounded ==
  \A d \in Doors : /\ \A i \in appended[d] : i <= event_high_water[d]
                   /\ dropped[d] \subseteq appended[d]
RowsInv == KeysUnique /\ NothingLost /\ ChronologyPreserved /\ HistoryBounded

\* What RowsInv says of one door, for the doors a step touches and does not.
DoorInv(rows, seqHigh, logicalHigh, app, drop) ==
  /\ \A m \in rows : m.seq <= seqHigh /\ m.logical_seq <= logicalHigh
  /\ \A m, n \in rows : m.seq = n.seq \/ m.logical_seq = n.logical_seq => m = n
  /\ \A m \in rows : m.covers \subseteq app \ drop
  /\ \A i \in app \ drop : \E m \in rows : i \in m.covers
  /\ \A m, n \in rows : m # n => m.covers \cap n.covers = {}
  /\ \A m, n \in rows : m.logical_seq < n.logical_seq =>
       \A i \in m.covers, j \in n.covers : i < j
  /\ \A i \in app : i <= seqHigh
  /\ drop \subseteq app

\* The invariant of the rows is the same for each door.
LEMMA RowsInvByDoor ==
  RowsInv <=> \A d \in Doors :
    DoorInv(messages[d], event_high_water[d], logical_high_water[d],
            appended[d], dropped[d])
  BY DEF RowsInv, DoorInv, KeysUnique, Sound, NothingLost, ChronologyPreserved,
         HistoryBounded

\* Appending keeps the rows of a door in order.
LEMMA AppendedRow ==
  ASSUME NEW rows \in SUBSET Message, NEW e \in Nat, NEW l \in Nat, NEW at \in Nat,
         NEW app \in SUBSET Positive, NEW drop \in SUBSET Positive,
         DoorInv(rows, e, l, app, drop)
  PROVE  DoorInv(rows \cup {[seq |-> e + 1, logical_seq |-> l + 1, created_at |-> at,
                             covers |-> {e + 1}]},
                 e + 1, l + 1, app \cup {e + 1}, drop)
<1> DEFINE row == [seq |-> e + 1, logical_seq |-> l + 1, created_at |-> at,
                   covers |-> {e + 1}]
<1>1. /\ row.seq = e + 1 /\ row.logical_seq = l + 1 /\ row.covers = {e + 1}
  OBVIOUS
<1> HIDE DEF row
<1>2. \A m \in rows : /\ m.seq \in Nat /\ m.logical_seq \in Nat
                      /\ m.seq < e + 1 /\ m.logical_seq < l + 1
                      /\ \A i \in m.covers : i \in Nat /\ i < e + 1
  BY DEF DoorInv, Message, Positive
<1>3. e + 1 \notin app /\ e + 1 \notin drop
  BY DEF DoorInv, Positive
<1>4. \A m, n \in rows \cup {row} :
        m.seq = n.seq \/ m.logical_seq = n.logical_seq => m = n
  BY <1>1, <1>2 DEF DoorInv
<1>5. \A m, n \in rows \cup {row} : m # n => m.covers \cap n.covers = {}
  BY <1>1, <1>2 DEF DoorInv
<1>6. \A m, n \in rows \cup {row} : m.logical_seq < n.logical_seq =>
        \A i \in m.covers, j \in n.covers : i < j
  BY <1>1, <1>2 DEF DoorInv
<1>7. \A m \in rows \cup {row} : m.covers \subseteq (app \cup {e + 1}) \ drop
  BY <1>1, <1>3 DEF DoorInv
<1>8. \A i \in (app \cup {e + 1}) \ drop : \E m \in rows \cup {row} : i \in m.covers
  BY <1>1 DEF DoorInv
<1>9. \A m \in rows \cup {row} : m.seq <= e + 1 /\ m.logical_seq <= l + 1
  BY <1>1, <1>2
<1>10. (\A i \in app \cup {e + 1} : i <= e + 1) /\ drop \subseteq app \cup {e + 1}
  BY DEF DoorInv, Positive
<1> QED
  BY <1>4, <1>5, <1>6, <1>7, <1>8, <1>9, <1>10 DEF DoorInv, row

\* Removing rows on purpose keeps the others in order.
LEMMA RemovedRows ==
  ASSUME NEW rows \in SUBSET Message, NEW e, NEW l, NEW app, NEW drop,
         NEW gone \in SUBSET rows, DoorInv(rows, e, l, app, drop)
  PROVE  DoorInv(rows \ gone, e, l, app, drop \cup UNION {m.covers : m \in gone})
<1> DEFINE out == UNION {m.covers : m \in gone}
<1>1. \A i : i \in out <=> \E m \in gone : i \in m.covers
  OBVIOUS
<1> HIDE DEF out
<1>2. \A m \in rows \ gone : m.covers \subseteq app \ (drop \cup out)
  <2> SUFFICES ASSUME NEW m \in rows \ gone, NEW i \in m.covers
               PROVE  i \in app /\ i \notin drop /\ i \notin out
    OBVIOUS
  <2> QED
    BY <1>1 DEF DoorInv
<1>3. \A i \in app \ (drop \cup out) : \E m \in rows \ gone : i \in m.covers
  BY <1>1 DEF DoorInv
<1>4. drop \cup out \subseteq app
  BY <1>1 DEF DoorInv
<1> QED
  BY <1>2, <1>3, <1>4 DEF DoorInv, out

\* Replacing a prefix by its summary keeps what the rows stand for.
LEMMA SummarizedRows ==
  ASSUME NEW rows \in SUBSET Message, NEW e \in Nat, NEW l \in Nat, NEW at \in Nat,
         NEW app \in SUBSET Positive, NEW drop \in SUBSET Positive,
         NEW last \in Positive, last <= l,
         DoorInv(rows, e, l, app, drop)
  PROVE  DoorInv(After(rows, last) \cup
                   {[seq |-> e + 1, logical_seq |-> last, created_at |-> at,
                     covers |-> UNION {m.covers : m \in UpTo(rows, last)}]},
                 e + 1, l, app, drop)
<1> DEFINE cov == UNION {m.covers : m \in UpTo(rows, last)}
           row == [seq |-> e + 1, logical_seq |-> last, created_at |-> at,
                   covers |-> cov]
           kept == After(rows, last)
<1>1. \A i : i \in cov <=> \E m \in rows : m.logical_seq <= last /\ i \in m.covers
  BY DEF UpTo
<1>2. row.seq = e + 1 /\ row.logical_seq = last /\ row.covers = cov
  OBVIOUS
<1> HIDE DEF cov, row
<1>3. \A m \in rows : /\ m.seq \in Nat /\ m.logical_seq \in Nat /\ m.covers \subseteq Nat
                      /\ m.seq <= e /\ m.logical_seq <= l
  BY DEF DoorInv, Message, Positive
<1>4. kept \subseteq rows /\ \A m \in kept : m.logical_seq > last
  BY DEF After
<1>5. \A m \in rows : m \in kept \/ m.logical_seq <= last
  BY <1>3 DEF After, Positive
<1> HIDE DEF kept
<1>6. \A m, n \in kept \cup {row} :
        m.seq = n.seq \/ m.logical_seq = n.logical_seq => m = n
  BY <1>2, <1>3, <1>4 DEF DoorInv, Positive
<1>7. \A m \in kept : \A i \in m.covers : i \notin cov
  BY <1>1, <1>3, <1>4 DEF DoorInv, Positive
<1>8. \A m, n \in kept \cup {row} : m # n => m.covers \cap n.covers = {}
  BY <1>2, <1>4, <1>7 DEF DoorInv
<1>9. \A m \in kept : \A i \in cov, j \in m.covers : i < j
  <2> SUFFICES ASSUME NEW m \in kept, NEW i \in cov, NEW j \in m.covers
               PROVE  i < j
    OBVIOUS
  <2>1. PICK n \in rows : n.logical_seq <= last /\ i \in n.covers
    BY <1>1
  <2>2. m \in rows /\ n.logical_seq < m.logical_seq
    BY <2>1, <1>3, <1>4 DEF Positive
  <2> QED
    BY <2>1, <2>2 DEF DoorInv
<1>10. \A m, n \in kept \cup {row} : m.logical_seq < n.logical_seq =>
        \A i \in m.covers, j \in n.covers : i < j
  BY <1>2, <1>3, <1>4, <1>9 DEF DoorInv, Positive
<1>11. \A m \in kept \cup {row} : m.covers \subseteq app \ drop
  BY <1>1, <1>2, <1>4 DEF DoorInv
<1>12. \A i \in app \ drop : \E m \in kept \cup {row} : i \in m.covers
  <2> SUFFICES ASSUME NEW i \in app \ drop
               PROVE  \E m \in kept \cup {row} : i \in m.covers
    OBVIOUS
  <2>1. PICK m \in rows : i \in m.covers
    BY DEF DoorInv
  <2> QED
    BY <2>1, <1>1, <1>2, <1>5
<1>13. \A m \in kept \cup {row} : m.seq <= e + 1 /\ m.logical_seq <= l
  BY <1>2, <1>3, <1>4
<1>14. (\A i \in app : i <= e + 1) /\ drop \subseteq app
  BY DEF DoorInv, Positive
<1> QED
  BY <1>6, <1>8, <1>10, <1>11, <1>12, <1>13, <1>14 DEF DoorInv, row, cov, kept

\* The rows stay in order, whatever step is taken.
LEMMA RowsInvStep == TypeInv /\ RowsInv /\ [Next]_vars => RowsInv'
<1> SUFFICES ASSUME TypeInv, RowsInv, [Next]_vars PROVE RowsInv'
  OBVIOUS
<1> DEFINE Inv(d) == DoorInv(messages[d], event_high_water[d], logical_high_water[d],
                             appended[d], dropped[d])
<1>1. \A d \in Doors :
        /\ messages[d] \in SUBSET Message
        /\ event_high_water[d] \in Nat /\ logical_high_water[d] \in Nat
        /\ appended[d] \in SUBSET Positive /\ dropped[d] \in SUBSET Positive
        /\ clock \in Nat
  BY DEF TypeInv, TypeOK
<1>2. \A d \in Doors : Inv(d)
  BY RowsInvByDoor
<1>3. SUFFICES \A d \in Doors : Inv(d)'
  BY DEF RowsInv, DoorInv, KeysUnique, Sound, NothingLost, ChronologyPreserved,
         HistoryBounded
<1>4. ASSUME NEW d \in Doors, InsertRow(d)
      PROVE  \A e \in Doors : Inv(e)'
  <2> SUFFICES ASSUME NEW e \in Doors PROVE Inv(e)'
    OBVIOUS
  <2>1. CASE e = d
    <3> DEFINE row == [seq |-> event_high_water[d] + 1,
                       logical_seq |-> logical_high_water[d] + 1,
                       created_at |-> clock, covers |-> {event_high_water[d] + 1}]
    <3>1. DoorInv(messages[d] \cup {row}, event_high_water[d] + 1,
                  logical_high_water[d] + 1,
                  appended[d] \cup {event_high_water[d] + 1}, dropped[d])
      BY <1>1, <1>2, AppendedRow
    <3>2. /\ messages'[d] = messages[d] \cup {row}
          /\ event_high_water'[d] = event_high_water[d] + 1
          /\ logical_high_water'[d] = logical_high_water[d] + 1
          /\ appended'[d] = appended[d] \cup {event_high_water[d] + 1}
          /\ dropped'[d] = dropped[d]
      BY <1>4 DEF InsertRow, NextSeq, NextLogical, TypeInv, TypeOK
    <3> QED
      BY <2>1, <3>1, <3>2
  <2>2. CASE e # d
    <3>1. /\ messages'[e] = messages[e]
          /\ event_high_water'[e] = event_high_water[e]
          /\ logical_high_water'[e] = logical_high_water[e]
          /\ appended'[e] = appended[e] /\ dropped'[e] = dropped[e]
      BY <1>4, <2>2 DEF InsertRow, NextSeq, NextLogical, TypeInv, TypeOK
    <3> QED
      BY <1>2, <3>1
  <2> QED
    BY <2>1, <2>2
<1>5. ASSUME NEW d \in Doors, Delete(d)
      PROVE  \A e \in Doors : Inv(e)'
  <2> SUFFICES ASSUME NEW e \in Doors PROVE Inv(e)'
    OBVIOUS
  <2>1. /\ messages'[e] = IF e = d THEN {} ELSE messages[e]
        /\ dropped'[e] = IF e = d THEN appended[e] ELSE dropped[e]
        /\ event_high_water' = event_high_water
        /\ logical_high_water' = logical_high_water /\ appended' = appended
    BY <1>5 DEF Delete, TypeInv, TypeOK
  <2>2. Inv(e)
    BY <1>2
  <2> QED
    BY <2>1, <2>2 DEF DoorInv
<1>6. ASSUME NEW cutoff \in 1 .. MaxTime + 1, Purge(cutoff)
      PROVE  \A d \in Doors : Inv(d)'
  <2> SUFFICES ASSUME NEW d \in Doors PROVE Inv(d)'
    OBVIOUS
  <2>1. Expired(d, cutoff) \in SUBSET messages[d]
    BY DEF Expired
  <2>2. DoorInv(messages[d] \ Expired(d, cutoff), event_high_water[d],
                logical_high_water[d], appended[d],
                dropped[d] \cup UNION {m.covers : m \in Expired(d, cutoff)})
    BY <1>1, <1>2, <2>1, RemovedRows
  <2>3. /\ messages'[d] = messages[d] \ Expired(d, cutoff)
        /\ dropped'[d] = dropped[d] \cup UNION {m.covers : m \in Expired(d, cutoff)}
        /\ event_high_water' = event_high_water
        /\ logical_high_water' = logical_high_water /\ appended' = appended
    BY <1>6 DEF Purge, PurgedGeneration
  <2> QED
    BY <2>2, <2>3
<1>7. ASSUME NEW c \in Compactors, CompactCommit(c)
      PROVE  \A e \in Doors : Inv(e)'
  <2> SUFFICES ASSUME NEW e \in Doors PROVE Inv(e)'
    OBVIOUS
  <2> DEFINE p == compaction[c]
             d == p.door
             row == [seq |-> event_high_water[d] + 1, logical_seq |-> p.effective,
                     created_at |-> clock,
                     covers |-> UNION {m.covers : m \in UpTo(messages[d], p.effective)}]
             high == IF logical_high_water[d] >= p.effective
                     THEN logical_high_water[d] ELSE p.effective
  <2>1. /\ p \in Compaction /\ d \in Doors /\ p.effective \in Positive
        /\ UpTo(messages[d], p.effective) = p.prefix
    BY <1>7 DEF CompactCommit, NextSeq, Unchanged, TypeInv, TypeOK, SnapshotPlaced, Compaction
  <2>2. /\ messages' = [messages EXCEPT ![d] = After(messages[d], p.effective) \cup {row}]
        /\ event_high_water' = [event_high_water EXCEPT ![d] = event_high_water[d] + 1]
        /\ logical_high_water' = [logical_high_water EXCEPT ![d] = high]
        /\ appended' = appended /\ dropped' = dropped
    BY <1>7, <2>1 DEF CompactCommit, NextSeq, TypeInv, TypeOK
  <2>3. CASE e = d
    <3>1. /\ high \in Nat /\ p.effective <= high
          /\ DoorInv(messages[d], event_high_water[d], high, appended[d], dropped[d])
      <4>1. DoorInv(messages[d], event_high_water[d], logical_high_water[d],
                    appended[d], dropped[d])
        BY <1>2, <2>1
      <4>2. \A m \in messages[d] : m.logical_seq \in Nat
        BY <1>1, <2>1 DEF Message, Positive
      <4> QED
        BY <1>1, <2>1, <4>1, <4>2 DEF DoorInv, Positive
    <3> HIDE DEF high
    <3>2. DoorInv(After(messages[d], p.effective) \cup {row}, event_high_water[d] + 1,
                  high, appended[d], dropped[d])
      BY <1>1, <2>1, <3>1, SummarizedRows
    <3>3. /\ messages'[d] = After(messages[d], p.effective) \cup {row}
          /\ event_high_water'[d] = event_high_water[d] + 1
          /\ logical_high_water'[d] = high
      BY <2>1, <2>2 DEF TypeInv, TypeOK
    <3> QED
      BY <2>2, <2>3, <3>2, <3>3
  <2>4. CASE e # d
    <3>1. /\ messages'[e] = messages[e]
          /\ event_high_water'[e] = event_high_water[e]
          /\ logical_high_water'[e] = logical_high_water[e]
      BY <2>1, <2>2, <2>4 DEF TypeInv, TypeOK
    <3> QED
      BY <1>2, <2>2, <3>1
  <2> QED
    BY <2>3, <2>4
<1>8. ASSUME UNCHANGED <<messages, event_high_water, logical_high_water, appended, dropped>>
      PROVE  \A d \in Doors : Inv(d)'
  BY <1>2, <1>8
<1>9. UNCHANGED <<messages, event_high_water, logical_high_water, appended, dropped>>
        \/ (\E d \in Doors : InsertRow(d)) \/ (\E d \in Doors : Delete(d))
        \/ (\E cutoff \in 1 .. MaxTime + 1 : Purge(cutoff))
        \/ (\E c \in Compactors : CompactCommit(c))
  BY DEF Next, vars, doorVars, CreateGroup, AppendMessage, AppendServer,
         SetParticipants, Tick, CompactSnapshot, CompactConflict, SummarizeFails,
         StartAssembly, ReadPage, ReadResync, ReadRefused
<1> HIDE DEF Inv
<1> QED
  BY <1>4, <1>5, <1>6, <1>7, <1>8, <1>9

\* There are no rows at first.
LEMMA RowsInvInit == Init => RowsInv
  BY DEF Init, RowsInv, KeysUnique, Sound, NothingLost, ChronologyPreserved,
         HistoryBounded

LEMMA RowsInvAlways == Spec => []RowsInv
<1>1. Init => TypeInv /\ RowsInv
  BY TypeInvInit, RowsInvInit
<1>2. TypeInv /\ RowsInv /\ [Next]_vars => (TypeInv /\ RowsInv)'
  BY TypeInvStep, RowsInvStep
<1> QED
  BY <1>1, <1>2, PTL DEF Spec

\* No door is ever reported corrupt, and nothing appended is lost or carried
\* twice by a compaction.
THEOREM RowsCorrect == Spec => []NothingLost
<1>1. RowsInv => NothingLost
  BY DEF RowsInv
<1> QED
  BY <1>1, RowsInvAlways, PTL

\* Both keys of the messages table stay unique and below the high-waters, and
\* the logical order is the chronological one, whatever compactions of whatever
\* size ran.
THEOREM RowsStayOrdered == Spec => []RowsAreOrdered
<1>1. RowsInv => RowsAreOrdered
  BY DEF RowsInv, RowsAreOrdered
<1> QED
  BY <1>1, RowsInvAlways, PTL

-----------------------------------------------------------------------------
(* Seqs and generations                                                    *)

\* One step gives out only seqs above every seq of the door.
LEMMA SeqStep ==
  ASSUME TypeInv, [Next]_vars, NEW d \in Doors
  PROVE  /\ event_high_water'[d] >= event_high_water[d]
         /\ \A m \in messages'[d] \ messages[d] : m.seq > event_high_water[d]
<1> USE DEF TypeInv, TypeOK
<1>1. event_high_water[d] \in Nat
  OBVIOUS
<1>2. ASSUME NEW e \in Doors, InsertRow(e)
      PROVE  /\ event_high_water'[d] >= event_high_water[d]
             /\ \A m \in messages'[d] \ messages[d] : m.seq > event_high_water[d]
  BY <1>1, <1>2 DEF InsertRow, NextSeq, NextLogical
<1>3. ASSUME NEW c \in Compactors, CompactCommit(c)
      PROVE  /\ event_high_water'[d] >= event_high_water[d]
             /\ \A m \in messages'[d] \ messages[d] : m.seq > event_high_water[d]
  BY <1>1, <1>3 DEF CompactCommit, NextSeq, After, Compaction
<1>4. ASSUME event_high_water' = event_high_water, messages'[d] \subseteq messages[d]
      PROVE  /\ event_high_water'[d] >= event_high_water[d]
             /\ \A m \in messages'[d] \ messages[d] : m.seq > event_high_water[d]
  BY <1>1, <1>4
<1>5. \/ \E e \in Doors : InsertRow(e)
      \/ \E c \in Compactors : CompactCommit(c)
      \/ event_high_water' = event_high_water /\ messages'[d] \subseteq messages[d]
  BY DEF Next, vars, doorVars, CreateGroup, AppendMessage, AppendServer, Delete, Purge,
         SetParticipants, Tick, CompactSnapshot, CompactConflict, SummarizeFails,
         StartAssembly, ReadPage, ReadResync, ReadRefused
<1> QED
  BY <1>2, <1>3, <1>4, <1>5

\* An event seq is never given to a second event, also when the rows that held
\* the highest seqs have been purged or compacted away.
THEOREM SeqsAreNeverReused == Spec => SeqNeverReused
<1>1. TypeInv /\ [Next]_vars => [\A d \in Doors :
        /\ event_high_water'[d] >= event_high_water[d]
        /\ \A m \in messages'[d] \ messages[d] : m.seq > event_high_water[d]]_vars
  BY SeqStep
<1> QED
  BY <1>1, TypeInvInit, TypeInvStep, PTL DEF Spec, SeqNeverReused

\* One step either changes the generation of a door or only adds rows to it,
\* after every logical position given out.
LEMMA GenerationStep ==
  ASSUME TypeInv, [Next]_vars, NEW d \in Doors,
         generation'[d] = generation[d], lifecycle'[d] # "gone"
  PROVE  /\ messages[d] \subseteq messages'[d]
         /\ \A m \in messages'[d] \ messages[d] :
              m.logical_seq > logical_high_water[d]
<1> USE DEF TypeInv, TypeOK
<1>1. logical_high_water[d] \in Nat /\ generation[d] \in Nat
  OBVIOUS
<1>2. ASSUME NEW e \in Doors, InsertRow(e)
      PROVE  /\ messages[d] \subseteq messages'[d]
             /\ \A m \in messages'[d] \ messages[d] :
                  m.logical_seq > logical_high_water[d]
  BY <1>1, <1>2 DEF InsertRow, NextSeq, NextLogical
<1>3. ASSUME NEW c \in Compactors, CompactCommit(c)
      PROVE  messages'[d] = messages[d]
  BY <1>1, <1>3 DEF CompactCommit, NextSeq, Compaction
<1>4. ASSUME NEW cutoff \in 1 .. MaxTime + 1, Purge(cutoff)
      PROVE  messages'[d] = messages[d]
  BY <1>1, <1>4 DEF Purge, PurgedGeneration
<1>5. ASSUME NEW e \in Doors, Delete(e)
      PROVE  messages'[d] = messages[d]
  BY <1>5 DEF Delete
<1>6. \/ \E e \in Doors : InsertRow(e)
      \/ \E c \in Compactors : CompactCommit(c)
      \/ \E cutoff \in 1 .. MaxTime + 1 : Purge(cutoff)
      \/ \E e \in Doors : Delete(e)
      \/ messages' = messages
  BY DEF Next, vars, doorVars, CreateGroup, AppendMessage, AppendServer,
         SetParticipants, Tick, CompactSnapshot, CompactConflict, SummarizeFails,
         StartAssembly, ReadPage, ReadResync, ReadRefused
<1> QED
  BY <1>2, <1>3, <1>4, <1>5, <1>6

\* What a cursor points at does not move as long as the generation stands.
THEOREM GenerationsAreAppendOnly == Spec => AppendOnlyGeneration
<1>1. TypeInv /\ [Next]_vars => [\A d \in Doors :
        generation'[d] = generation[d] /\ lifecycle'[d] # "gone" =>
          /\ messages[d] \subseteq messages'[d]
          /\ \A m \in messages'[d] \ messages[d] :
               m.logical_seq > logical_high_water[d]]_vars
  BY GenerationStep
<1> QED
  BY <1>1, TypeInvInit, TypeInvStep, PTL DEF Spec, AppendOnlyGeneration

-----------------------------------------------------------------------------
(* Assembling a history page by page                                       *)

\* The first page holds, with a row, every row before it.
LEMMA FirstPageClosed ==
  ASSUME NEW rows \in SUBSET Message, IsFiniteSet(rows),
         NEW m \in FirstPage(rows), NEW q \in rows, q.logical_seq <= m.logical_seq
  PROVE  q \in FirstPage(rows)
<1>1. /\ m.logical_seq \in Nat /\ q.logical_seq \in Nat
      /\ \A n \in rows : n.logical_seq \in Nat
  BY DEF FirstPage, Message, Positive
<1>2. /\ IsFiniteSet(UpTo(rows, m.logical_seq))
      /\ UpTo(rows, q.logical_seq) \in SUBSET UpTo(rows, m.logical_seq)
  BY <1>1, FS_Subset DEF UpTo
<1>3. Cardinality(UpTo(rows, q.logical_seq)) <= Cardinality(UpTo(rows, m.logical_seq))
  BY <1>2, FS_Subset
<1>4. /\ Cardinality(UpTo(rows, q.logical_seq)) \in Nat
      /\ Cardinality(UpTo(rows, m.logical_seq)) \in Nat
  BY <1>2, FS_Subset, FS_CardinalityType
<1> QED
  BY <1>3, <1>4, BoundsAssumption DEF FirstPage

\* When no more than PageLimit rows are left, the page holds them all.
LEMMA LastPageWhole ==
  ASSUME NEW rows \in SUBSET Message, IsFiniteSet(rows), Cardinality(rows) <= PageLimit
  PROVE  FirstPage(rows) = rows
<1> SUFFICES ASSUME NEW m \in rows PROVE m \in FirstPage(rows)
  BY DEF FirstPage
<1>1. UpTo(rows, m.logical_seq) \in SUBSET rows
  BY DEF UpTo
<1>2. /\ Cardinality(UpTo(rows, m.logical_seq)) <= Cardinality(rows)
      /\ Cardinality(UpTo(rows, m.logical_seq)) \in Nat /\ Cardinality(rows) \in Nat
  BY <1>1, FS_Subset, FS_CardinalityType
<1> QED
  BY <1>2, BoundsAssumption DEF FirstPage

\* Two listings, one of rows all before the rows of the other, concatenate.
LEMMA ListsConcat ==
  ASSUME NEW s \in Seq(Message), NEW t \in Seq(Message), NEW A, NEW B,
         Lists(s, A), Lists(t, B),
         \A m \in A, n \in B : m.logical_seq < n.logical_seq
  PROVE  Lists(s \o t, A \cup B)
<1> DEFINE u == s \o t
<1>1. /\ u \in Seq(Message) /\ Len(u) = Len(s) + Len(t)
      /\ \A i \in 1 .. Len(s) + Len(t) :
           u[i] = IF i <= Len(s) THEN s[i] ELSE t[i - Len(s)]
  BY ConcatProperties
<1>2. /\ DOMAIN u = 1 .. Len(s) + Len(t) /\ DOMAIN s = 1 .. Len(s)
      /\ DOMAIN t = 1 .. Len(t) /\ Len(s) \in Nat /\ Len(t) \in Nat
  BY <1>1
<1> HIDE DEF u
<1>3. \A i \in DOMAIN s : i \in DOMAIN u /\ u[i] = s[i]
  BY <1>1, <1>2
<1>4. \A i \in DOMAIN t : i + Len(s) \in DOMAIN u /\ u[i + Len(s)] = t[i]
  BY <1>1, <1>2
<1>5. \A i \in DOMAIN u :
        \/ i \in DOMAIN s /\ u[i] = s[i]
        \/ i > Len(s) /\ i - Len(s) \in DOMAIN t /\ u[i] = t[i - Len(s)]
  BY <1>1, <1>2
<1>6. {u[i] : i \in DOMAIN u} = A \cup B
  <2>1. \A i \in DOMAIN u : u[i] \in A \cup B
    BY <1>5 DEF Lists
  <2>2. \A x \in A : \E i \in DOMAIN u : u[i] = x
    BY <1>3 DEF Lists
  <2>3. \A x \in B : \E i \in DOMAIN u : u[i] = x
    BY <1>4 DEF Lists
  <2> QED
    BY <2>1, <2>2, <2>3
<1>7. ASSUME NEW i \in DOMAIN u, NEW j \in DOMAIN u, i < j
      PROVE  u[i].logical_seq < u[j].logical_seq
  <2>1. CASE i \in DOMAIN s /\ j \in DOMAIN s
    BY <1>3, <1>7, <2>1 DEF Lists, InLogicalOrder
  <2>2. CASE i \in DOMAIN s /\ j > Len(s)
    <3>1. u[i] \in A /\ u[j] \in B
      BY <1>2, <1>3, <1>5, <2>2 DEF Lists
    <3> QED
      BY <3>1
  <2>3. CASE i > Len(s) /\ j > Len(s)
    <3>1. /\ i - Len(s) \in DOMAIN t /\ u[i] = t[i - Len(s)]
          /\ j - Len(s) \in DOMAIN t /\ u[j] = t[j - Len(s)]
      BY <1>2, <1>5, <2>3
    <3>2. i - Len(s) < j - Len(s)
      BY <1>2, <1>7
    <3> QED
      BY <3>1, <3>2 DEF Lists, InLogicalOrder
  <2> QED
    BY <1>2, <1>5, <1>7, <2>1, <2>2, <2>3
<1> QED
  BY <1>6, <1>7 DEF Lists, InLogicalOrder, u

\* A page extends a history read up to a position to one read up to the page's
\* last row, and the page that leaves nothing behind completes it.
LEMMA PageExtends ==
  ASSUME NEW rows \in SUBSET Message, IsFiniteSet(rows), NEW after \in Nat,
         NEW col \in Seq(Message), Lists(col, UpTo(rows, after)),
         NEW page \in Listing(FirstPage(After(rows, after))),
         NEW last, last = IF page = << >> THEN after ELSE page[Len(page)].logical_seq
  PROVE  /\ Lists(col \o page, UpTo(rows, last))
         /\ Cardinality(After(rows, after)) <= PageLimit =>
              UpTo(rows, last) = rows
<1> DEFINE rest == After(rows, after)
           sel == FirstPage(rest)
<1>1. /\ rest \in SUBSET Message /\ rest \subseteq rows /\ IsFiniteSet(rest)
      /\ \A m \in rows : m.logical_seq \in Nat
      /\ \A m \in rows : m \in rest <=> m.logical_seq > after
  <2>1. rest \in SUBSET rows
    BY DEF After
  <2> QED
    BY <2>1, FS_Subset DEF After, Message, Positive
<1> HIDE DEF rest
<1>2. sel \in SUBSET rest /\ IsFiniteSet(sel)
  <2>1. sel \in SUBSET rest
    BY DEF FirstPage
  <2> QED
    BY <1>1, <2>1, FS_Subset
<1>3. /\ page \in Seq(Message) /\ page \in Seq(sel) /\ Lists(page, sel)
  BY <1>1, <1>2, ListingType DEF rest
<1>4. \A m \in sel, q \in rest : q.logical_seq <= m.logical_seq => q \in sel
  BY <1>1, FirstPageClosed
<1>5. Cardinality(rest) <= PageLimit => sel = rest
  BY <1>1, LastPageWhole
<1> HIDE DEF sel
<1>6. CASE page = << >>
  <2>1. sel = {}
    BY <1>3, <1>6 DEF Lists
  <2>2. col \o page = col
    BY <1>6, ConcatEmptySeq
  <2>3. rest = {} => UpTo(rows, after) = rows
    BY <1>1 DEF UpTo
  <2> QED
    BY <1>5, <1>6, <2>1, <2>2, <2>3 DEF rest
<1>7. CASE page # << >>
  <2>1. /\ Len(page) \in Nat /\ Len(page) \in DOMAIN page /\ page[Len(page)] \in sel
        /\ DOMAIN page = 1 .. Len(page)
    BY <1>3, <1>7, LastIndex
  <2>2. /\ last = page[Len(page)].logical_seq /\ last \in Nat /\ last > after
    BY <1>1, <1>2, <1>7, <2>1
  <2>3. \A m \in sel : m.logical_seq <= last
    <3> SUFFICES ASSUME NEW m \in sel PROVE m.logical_seq <= last
      OBVIOUS
    <3>1. PICK i \in DOMAIN page : page[i] = m
      BY <1>3 DEF Lists
    <3>2. m.logical_seq \in Nat
      BY <1>1, <1>2
    <3>3. CASE i = Len(page)
      BY <2>2, <3>1, <3>2, <3>3
    <3>4. CASE i < Len(page)
      <4>1. \A k, l \in DOMAIN page : k < l => page[k].logical_seq < page[l].logical_seq
        BY <1>3 DEF Lists, InLogicalOrder
      <4>2. page[i].logical_seq < page[Len(page)].logical_seq
        BY <2>1, <3>4, <4>1
      <4> QED
        BY <2>2, <3>1, <3>2, <4>2
    <3> QED
      BY <2>1, <3>3, <3>4
  <2>4. \A q \in rest : q \in sel <=> q.logical_seq <= last
    BY <1>4, <2>1, <2>2, <2>3
  <2>5. UpTo(rows, last) = UpTo(rows, after) \cup sel
    BY <1>1, <1>2, <2>2, <2>4 DEF UpTo
  <2>6. \A m \in UpTo(rows, after), n \in sel : m.logical_seq < n.logical_seq
    BY <1>1, <1>2 DEF UpTo
  <2>7. Lists(col \o page, UpTo(rows, after) \cup sel)
    BY <1>3, <2>6, ListsConcat
  <2>8. UpTo(rows, after) \cup rest = rows
    BY <1>1 DEF UpTo
  <2> QED
    BY <1>5, <2>5, <2>7, <2>8 DEF rest
<1> QED
  BY <1>6, <1>7

\* Before the first page nothing was collected; afterwards, as long as the
\* conversation is of the cursor's generation, what was collected is all of
\* it up to the cursor.
Follows(a) ==
  /\ ~a.started => a.after = 0 /\ a.collected = << >>
  /\ a.started => lifecycle[a.door] # "unborn" /\ a.generation <= generation[a.door]
  /\ a.started /\ lifecycle[a.door] = "ready" /\ a.generation = generation[a.door] =>
       /\ a.after <= logical_high_water[a.door]
       /\ Lists(a.collected, UpTo(messages[a.door], a.after))
AssemblyInv == \A r \in Readers : assembly[r].state = "paging" => Follows(assembly[r])

\* Nothing lies at or before position 0.
LEMMA NothingUpToZero ==
  ASSUME NEW rows \in SUBSET Message
  PROVE  Lists(<< >>, UpTo(rows, 0))
  BY DEF Lists, UpTo, InLogicalOrder, Message, Positive

\* A page read by a caller that follows the conversation extends its history.
LEMMA ReadPageExtends ==
  ASSUME TypeInv, RowsInv, AssemblyInv, NEW r \in Readers, ReadPage(r)
  PROVE  LET d == assembly[r].door IN
         /\ assembly'[r].door = d /\ assembly'[r].started
         /\ assembly'[r].generation = generation[d]
         /\ lifecycle[d] = "ready"
         /\ Lists(assembly'[r].collected, UpTo(messages[d], assembly'[r].after))
         /\ assembly'[r].state = "done" => UpTo(messages[d], assembly'[r].after) = messages[d]
         /\ assembly'[r].after <= logical_high_water[d]
<1> DEFINE a == assembly[r]
           d == a.door
           rest == After(messages[d], a.after)
<1>1. /\ a \in Assembly /\ d \in Doors /\ a.after \in Nat /\ a.collected \in Seq(Message)
      /\ messages[d] \in SUBSET Message /\ IsFiniteSet(messages[d])
      /\ logical_high_water[d] \in Nat
  BY DEF TypeInv, TypeOK, FiniteRows, Assembly
<1>2. PICK page \in Listing(FirstPage(rest)) :
        assembly' = [assembly EXCEPT ![r] =
          PageAdded(a, page, generation[d], Cardinality(rest) > PageLimit)]
  BY DEF ReadPage
<1>3. assembly'[r] = PageAdded(a, page, generation[d], Cardinality(rest) > PageLimit)
  BY <1>2 DEF TypeInv, TypeOK
<1>4. /\ a.state = "paging" /\ lifecycle[d] = "ready" /\ ~Stale(a)
      /\ Follows(a)
  BY DEF ReadPage, DoorReadyFor, DoorReady, AssemblyInv
<1>5. /\ Lists(a.collected, UpTo(messages[d], a.after))
      /\ a.after <= logical_high_water[d]
  <2>1. CASE a.started
    BY <1>4, <2>1 DEF Follows, Stale
  <2>2. CASE ~a.started
    BY <1>1, <1>4, <2>2, NothingUpToZero DEF Follows
  <2> QED
    BY <2>1, <2>2
<1> DEFINE last == IF page = << >> THEN a.after ELSE page[Len(page)].logical_seq
<1>6. /\ Lists(a.collected \o page, UpTo(messages[d], last))
      /\ Cardinality(rest) <= PageLimit => UpTo(messages[d], last) = messages[d]
  BY <1>1, <1>5, PageExtends
<1>7. last <= logical_high_water[d]
  <2>1. CASE page = << >>
    BY <1>5, <2>1
  <2>2. CASE page # << >>
    <3>1. FirstPage(rest) \in SUBSET messages[d]
      BY DEF FirstPage, After
    <3>2. IsFiniteSet(FirstPage(rest)) /\ FirstPage(rest) \in SUBSET Message
      BY <1>1, <3>1, FS_Subset
    <3>3. page \in Seq(FirstPage(rest))
      BY <3>2, ListingType
    <3>4. page[Len(page)] \in messages[d]
      BY <2>2, <3>1, <3>3, LastIndex
    <3> QED
      BY <1>1, <2>2, <3>4 DEF RowsInv, KeysUnique, Sound
  <2> QED
    BY <2>1, <2>2
<1>8. Cardinality(rest) \in Nat
  <2>1. rest \in SUBSET messages[d]
    BY DEF After
  <2> QED
    BY <1>1, <2>1, FS_Subset, FS_CardinalityType
<1>9. assembly'[r].state = "done" => Cardinality(rest) <= PageLimit
  BY <1>3, <1>8, BoundsAssumption DEF PageAdded
<1> HIDE DEF rest, d, a
<1> QED
  BY <1>3, <1>4, <1>6, <1>7, <1>9 DEF PageAdded, a, d

\* The other processes leave a caller that follows its conversation following
\* it: they only append behind its cursor or change the generation.
LEMMA TablesStep ==
  ASSUME TypeInv, RowsInv, [Next]_vars, NEW a \in Assembly, Follows(a)
  PROVE  Follows(a)'
<1> DEFINE d == a.door
<1>1. /\ d \in Doors /\ a.after \in Nat /\ a.generation \in Nat
      /\ generation[d] \in Nat /\ logical_high_water[d] \in Nat
      /\ messages[d] \in SUBSET Message
      /\ \A m \in messages[d] : m.logical_seq \in Nat
  BY DEF TypeInv, TypeOK, Assembly, Message, Positive
<1>2. ASSUME NEW e \in Doors, InsertRow(e)
      PROVE  Follows(a)'
  <2>1. /\ lifecycle' = lifecycle /\ generation' = generation
        /\ logical_high_water'[d] >= logical_high_water[d]
        /\ messages[d] \subseteq messages'[d]
        /\ \A m \in messages'[d] \ messages[d] : m.logical_seq > logical_high_water[d]
        /\ logical_high_water'[d] \in Nat
    BY <1>1, <1>2 DEF InsertRow, NextSeq, NextLogical, TypeInv, TypeOK
  <2>2. ASSUME a.after <= logical_high_water[d]
        PROVE  UpTo(messages'[d], a.after) = UpTo(messages[d], a.after)
    <3>1. \A m \in messages'[d] \ messages[d] : ~(m.logical_seq <= a.after)
      <4>1. messages'[d] \subseteq Message
        BY <1>1, <1>2, InsertRowType DEF TypeInv, TypeOK
      <4> QED
        BY <1>1, <2>1, <2>2, <4>1 DEF Message, Positive
    <3> QED
      BY <2>1, <3>1 DEF UpTo
  <2>3. ASSUME a.after <= logical_high_water[d]
        PROVE  a.after <= logical_high_water'[d]
    BY <1>1, <2>1, <2>3
  <2> HIDE DEF d
  <2> QED
    BY <2>1, <2>2, <2>3 DEF Follows, d
<1>3. ASSUME NEW e \in Doors, Delete(e)
      PROVE  Follows(a)'
  BY <1>1, <1>3 DEF Delete, Follows, TypeInv, TypeOK
<1>4. ASSUME NEW cutoff \in 1 .. MaxTime + 1, Purge(cutoff)
      PROVE  Follows(a)'
  <2>1. /\ lifecycle' = lifecycle /\ logical_high_water' = logical_high_water
        /\ \/ generation'[d] = generation[d] /\ messages'[d] = messages[d]
           \/ generation'[d] = generation[d] + 1
    BY <1>1, <1>4 DEF Purge, PurgedGeneration
  <2> QED
    BY <1>1, <2>1 DEF Follows
<1>5. ASSUME NEW c \in Compactors, CompactCommit(c)
      PROVE  Follows(a)'
  <2>1. /\ lifecycle' = lifecycle
        /\ \/ /\ generation'[d] = generation[d] /\ messages'[d] = messages[d]
              /\ logical_high_water'[d] = logical_high_water[d]
           \/ generation'[d] = generation[d] + 1
    BY <1>1, <1>5 DEF CompactCommit, NextSeq, Compaction, TypeInv, TypeOK
  <2> QED
    BY <1>1, <2>1 DEF Follows
<1>6. ASSUME NEW e \in Doors, NEW bots \in SUBSET Bots, CreateGroup(e, bots)
      PROVE  Follows(a)'
  BY <1>1, <1>6 DEF CreateGroup, Follows, TypeInv, TypeOK
<1>7. ASSUME UNCHANGED <<lifecycle, generation, logical_high_water, messages>>
      PROVE  Follows(a)'
  BY <1>7 DEF Follows
<1>8. \/ UNCHANGED <<lifecycle, generation, logical_high_water, messages>>
      \/ \E e \in Doors : InsertRow(e)
      \/ \E e \in Doors : Delete(e)
      \/ \E cutoff \in 1 .. MaxTime + 1 : Purge(cutoff)
      \/ \E c \in Compactors : CompactCommit(c)
      \/ \E e \in Doors, bots \in SUBSET Bots : CreateGroup(e, bots)
  BY DEF Next, vars, doorVars, AppendMessage, AppendServer, SetParticipants, Tick,
         CompactSnapshot, CompactConflict, SummarizeFails, StartAssembly, ReadPage,
         ReadResync, ReadRefused
<1> QED
  BY <1>2, <1>3, <1>4, <1>5, <1>6, <1>7, <1>8

\* Only its own steps change what a caller of assemble_history holds.
LEMMA AssemblySteps ==
  ASSUME [Next]_vars
  PROVE  \/ assembly' = assembly
         \/ \E r \in Readers, d \in Doors, bot \in Bots : StartAssembly(r, d, bot)
         \/ \E r \in Readers : ReadPage(r) \/ ReadResync(r) \/ ReadRefused(r)
  BY DEF Next, vars, CreateGroup, AppendMessage, AppendServer, InsertRow, Delete, Purge,
         SetParticipants, Tick, CompactSnapshot, CompactCommit, CompactConflict,
         SummarizeFails

\* Nobody is reading at first.
LEMMA AssemblyInvInit == Init => AssemblyInv
  BY DEF Init, AssemblyInv, NoAssembly, NewAssembly

\* Every step leaves each caller following its conversation.
LEMMA AssemblyInvStep == TypeInv /\ RowsInv /\ AssemblyInv /\ [Next]_vars => AssemblyInv'
<1> SUFFICES ASSUME TypeInv, RowsInv, AssemblyInv, [Next]_vars,
                    NEW q \in Readers, assembly'[q].state = "paging"
             PROVE  Follows(assembly[q])'
  BY DEF AssemblyInv
<1>1. assembly[q] \in Assembly /\ assembly[q].door \in Doors
  BY DEF TypeInv, TypeOK, Assembly
<1>2. ASSUME assembly'[q] = assembly[q]
      PROVE  Follows(assembly[q])'
  <2>1. Follows(assembly[q])
    BY <1>2 DEF AssemblyInv
  <2> DEFINE a == assembly[q]
  <2>2. a \in Assembly /\ Follows(a) /\ assembly'[q] = a
    BY <1>1, <1>2, <2>1
  <2> HIDE DEF a
  <2>3. \A b \in Assembly : Follows(b) => Follows(b)'
    BY TablesStep
  <2> QED
    BY <2>2, <2>3 DEF Follows
<1>3. ASSUME NEW r \in Readers, NEW d \in Doors, NEW bot \in Bots, StartAssembly(r, d, bot)
      PROVE  Follows(assembly[q])'
  BY <1>2, <1>3 DEF StartAssembly, NewAssembly, Follows, TypeInv, TypeOK
<1>4. ASSUME NEW r \in Readers, ReadPage(r)
      PROVE  Follows(assembly[q])'
  <2>1. CASE q = r
    <3>1. UNCHANGED <<lifecycle, generation, logical_high_water, messages>>
      BY <1>4 DEF ReadPage, doorVars
    <3>2. generation[assembly[q].door] \in Nat
      BY <1>1 DEF TypeInv, TypeOK
    <3> QED
      BY <1>4, <2>1, <3>1, <3>2, ReadPageExtends DEF Follows
  <2>2. CASE q # r
    BY <1>2, <1>4, <2>2 DEF ReadPage, TypeInv, TypeOK
  <2> QED
    BY <2>1, <2>2
<1>5. ASSUME NEW r \in Readers, ReadResync(r)
      PROVE  Follows(assembly[q])'
  <2>1. CASE q = r
    <3>1. UNCHANGED <<lifecycle, generation, logical_high_water, messages>>
      BY <1>5 DEF ReadResync, doorVars
    <3>2. assembly'[q] = Restarted(assembly[q], generation[assembly[q].door])
      BY <1>5, <2>1 DEF ReadResync, NoAssembly, NewAssembly, TypeInv, TypeOK
    <3>3. /\ generation[assembly[q].door] \in Nat
          /\ logical_high_water[assembly[q].door] \in Nat
          /\ Lists(<< >>, UpTo(messages[assembly[q].door], 0))
          /\ lifecycle[assembly[q].door] = "ready"
      BY <1>1, <1>5, <2>1, NothingUpToZero
         DEF TypeInv, TypeOK, ReadResync, DoorReadyFor, DoorReady
    <3> QED
      BY <3>1, <3>2, <3>3 DEF Follows, Restarted
  <2>2. CASE q # r
    BY <1>2, <1>5, <2>2 DEF ReadResync, TypeInv, TypeOK
  <2> QED
    BY <2>1, <2>2
<1>6. ASSUME NEW r \in Readers, ReadRefused(r)
      PROVE  Follows(assembly[q])'
  <2>1. q # r
    BY <1>6 DEF ReadRefused, NoAssembly, NewAssembly, TypeInv, TypeOK
  <2> QED
    BY <1>2, <1>6, <2>1 DEF ReadRefused, TypeInv, TypeOK
<1> QED
  BY <1>2, <1>3, <1>4, <1>5, <1>6, AssemblySteps

\* The step that ends an assembly returns the whole conversation of that moment.
LEMMA SnapshotStep ==
  ASSUME TypeInv, RowsInv, AssemblyInv, [Next]_vars, NEW r \in Readers,
         assembly[r].state = "paging", assembly'[r].state = "done"
  PROVE  Lists(assembly'[r].collected, messages[assembly[r].door])
<1>1. ASSUME ReadPage(r)
      PROVE  Lists(assembly'[r].collected, messages[assembly[r].door])
  BY <1>1, ReadPageExtends
<1>2. ReadPage(r)
  <2>1. assembly'[r] # assembly[r]
    OBVIOUS
  <2>2. ASSUME NEW q \in Readers, NEW d \in Doors, NEW bot \in Bots, StartAssembly(q, d, bot)
        PROVE  FALSE
    BY <2>1, <2>2 DEF StartAssembly, NewAssembly, TypeInv, TypeOK
  <2>3. ASSUME NEW q \in Readers, ReadResync(q)
        PROVE  FALSE
    BY <2>1, <2>3 DEF ReadResync, Restarted, NoAssembly, NewAssembly, TypeInv, TypeOK
  <2>4. ASSUME NEW q \in Readers, ReadRefused(q)
        PROVE  FALSE
    BY <2>1, <2>4 DEF ReadRefused, NoAssembly, NewAssembly, TypeInv, TypeOK
  <2>5. ASSUME NEW q \in Readers, ReadPage(q)
        PROVE  q = r
    BY <2>1, <2>5 DEF ReadPage, TypeInv, TypeOK
  <2> QED
    BY <2>1, <2>2, <2>3, <2>4, <2>5, AssemblySteps
<1> QED
  BY <1>1, <1>2

\* assemble_history reads page by page, in a transaction of its own for each
\* page, under concurrent appends, compactions, purges and deletions; what it
\* returns is nevertheless the whole conversation as it is at one moment.
THEOREM AssembledHistoryIsASnapshot == Spec => AssembledIsSnapshot
<1>1. Init => TypeInv /\ RowsInv /\ AssemblyInv
  BY TypeInvInit, RowsInvInit, AssemblyInvInit
<1>2. TypeInv /\ RowsInv /\ AssemblyInv /\ [Next]_vars
        => (TypeInv /\ RowsInv /\ AssemblyInv)'
  BY TypeInvStep, RowsInvStep, AssemblyInvStep
<1>3. TypeInv /\ RowsInv /\ AssemblyInv /\ [Next]_vars => [\A r \in Readers :
        assembly[r].state = "paging" /\ assembly'[r].state = "done" =>
          Lists(assembly'[r].collected, messages[assembly[r].door])]_vars
  BY SnapshotStep
<1> QED
  BY <1>1, <1>2, <1>3, PTL DEF Spec, AssembledIsSnapshot

-----------------------------------------------------------------------------
(***************************************************************************)
(* The store implements ConversationLog: each step of the store is a step  *)
(* of the log, or changes nothing of it.                                   *)
(***************************************************************************)
\* A message is named by a seq within the model's bound.
SeqsBounded == \A d \in Doors : appended[d] \subseteq 1 .. MaxSeq
RefinementInv == TypeInv /\ RowsInv /\ AssemblyInv /\ SeqsBounded

\* Nothing is appended at first.
LEMMA SeqsBoundedInit == Init => SeqsBounded
  BY DEF Init, SeqsBounded

\* Only an append adds to the history, under the next seq.
LEMMA SeqsBoundedStep == TypeInv /\ SeqsBounded /\ [Next]_vars => SeqsBounded'
<1> SUFFICES ASSUME TypeInv, SeqsBounded, [Next]_vars
             PROVE  SeqsBounded'
  OBVIOUS
<1> USE DEF TypeInv, TypeOK, SeqsBounded
<1>1. ASSUME NEW d \in Doors, InsertRow(d)
      PROVE  SeqsBounded'
  <2>1. NextSeq(d) \in 1 .. MaxSeq
    BY <1>1, BoundsAssumption DEF InsertRow, NextSeq
  <2>2. appended' = [appended EXCEPT ![d] = @ \cup {NextSeq(d)}]
    BY <1>1 DEF InsertRow
  <2> QED
    BY <2>1, <2>2
<1>2. ASSUME appended' = appended
      PROVE  SeqsBounded'
  BY <1>2
<1>3. appended' = appended \/ \E d \in Doors : InsertRow(d)
  BY DEF Next, vars, doorVars, CreateGroup, AppendMessage, AppendServer, Delete, Purge,
         SetParticipants, Tick, CompactSnapshot, CompactCommit, CompactConflict,
         SummarizeFails, StartAssembly, ReadPage, ReadResync, ReadRefused
<1> QED
  BY <1>1, <1>2, <1>3

\* The invariant that the mapping of steps rests on.
LEMMA RefinementInvariant == Spec => []RefinementInv
<1>1. Init => RefinementInv
  BY TypeInvInit, RowsInvInit, AssemblyInvInit, SeqsBoundedInit DEF RefinementInv
<1>2. RefinementInv /\ [Next]_vars => RefinementInv'
  BY TypeInvStep, RowsInvStep, AssemblyInvStep, SeqsBoundedStep DEF RefinementInv
<1> QED
  BY <1>1, <1>2, PTL DEF Spec

-----------------------------------------------------------------------------
(* The operations that are one transaction                                 *)

\* The answers that callers hold do not change when the callers do not.
LEMMA SameAnswers ==
  ASSUME assembly' = assembly
  PROVE  [r \in Readers |-> Answer(assembly[r])]' = [r \in Readers |-> Answer(assembly[r])]
  BY DEF Answer

\* The initial states are initial states of the log.
LEMMA InitRefines == Init => Log!Init
  BY DEF Init, Log!Init, Answer, NoAssembly, NewAssembly

\* An append posts a message newer than all before it.
LEMMA InsertRowRefines ==
  ASSUME RefinementInv, NEW d \in Doors, lifecycle[d] = "ready", InsertRow(d)
  PROVE  Log!Post(d, NextSeq(d)) /\ NextSeq(d) \in 1 .. MaxSeq
<1>1. /\ event_high_water[d] \in Nat /\ appended[d] \in SUBSET Positive
      /\ \A i \in appended[d] : i <= event_high_water[d]
  BY DEF RefinementInv, TypeInv, TypeOK, RowsInv, HistoryBounded
<1>2. \A earlier \in appended[d] : earlier < NextSeq(d)
  BY <1>1 DEF NextSeq, Positive
<1>3. NextSeq(d) \in 1 .. MaxSeq
  BY <1>1, BoundsAssumption DEF InsertRow, NextSeq
<1>4. appended' = [appended EXCEPT ![d] = @ \cup {NextSeq(d)}]
  BY DEF InsertRow
<1>5. UNCHANGED <<lifecycle, participants, dropped, assembly>>
  BY DEF InsertRow
<1> QED
  BY <1>2, <1>3, <1>4, <1>5, SameAnswers DEF Log!Post

\* Retention forgets what the expired rows stood for, which was posted.
LEMMA PurgeRefines ==
  ASSUME RefinementInv, NEW cutoff, Purge(cutoff)
  PROVE  Log!Forget
<1>1. dropped' = [d \in Doors |->
                   dropped[d] \cup UNION {m.covers : m \in Expired(d, cutoff)}]
  BY DEF Purge
<1>2. ASSUME NEW d \in Doors
      PROVE  /\ dropped[d] \subseteq dropped'[d]
             /\ dropped'[d] \subseteq appended[d]
             /\ appended[d] \subseteq 1 .. MaxSeq
  <2>1. dropped[d] \subseteq appended[d]
    BY DEF RefinementInv, RowsInv, HistoryBounded
  <2>2. \A m \in messages[d] : m.covers \subseteq appended[d]
    BY DEF RefinementInv, RowsInv, NothingLost
  <2>3. Expired(d, cutoff) \subseteq messages[d]
    BY DEF Expired
  <2>4. appended[d] \subseteq 1 .. MaxSeq
    BY DEF RefinementInv, SeqsBounded
  <2>5. dropped'[d] = dropped[d] \cup UNION {m.covers : m \in Expired(d, cutoff)}
    BY <1>1
  <2> QED
    BY <2>1, <2>2, <2>3, <2>4, <2>5
<1>3. dropped' \in [Doors -> SUBSET (1 .. MaxSeq)]
  BY <1>1, <1>2
<1>4. UNCHANGED <<lifecycle, participants, appended, assembly>>
  BY DEF Purge
<1> QED
  BY <1>2, <1>3, <1>4, SameAnswers DEF Log!Forget

-----------------------------------------------------------------------------
(* The callers of assemble_history                                         *)

\* Only the answer of the caller that takes a step can change.
LEMMA AnswerOf ==
  ASSUME TypeInv, NEW r \in Readers, NEW a, assembly' = [assembly EXCEPT ![r] = a]
  PROVE  [q \in Readers |-> Answer(assembly[q])]' =
           [[q \in Readers |-> Answer(assembly[q])] EXCEPT ![r] = Answer(a)]
<1>1. \A q \in Readers : assembly'[q] = IF q = r THEN a ELSE assembly[q]
  BY DEF TypeInv, TypeOK
<1>2. [q \in Readers |-> Answer(assembly[q])]' = [q \in Readers |-> Answer(assembly'[q])]
  BY DEF Answer
<1>3. \A q \in Readers : Answer(assembly'[q]) = IF q = r THEN Answer(a) ELSE Answer(assembly[q])
  BY <1>1
<1> QED
  BY <1>2, <1>3

\* A caller that starts again has no answer, until it has read everything.
LEMMA StartRefines ==
  ASSUME TypeInv, NEW r \in Readers, NEW d \in Doors, NEW bot \in Bots,
         StartAssembly(r, d, bot)
  PROVE  Log!Ask(r)
<1>1. Answer(NewAssembly("paging", d, bot)) = {}
  BY DEF Answer, NewAssembly
<1> QED
  BY <1>1, AnswerOf DEF StartAssembly, doorVars, Log!Ask

\* A resync or a refusal gives no answer, and there was none before.
LEMMA NoAnswerYet ==
  ASSUME TypeInv, NEW r \in Readers, assembly[r].state = "paging", NEW a,
         assembly' = [assembly EXCEPT ![r] = a], a.state # "done"
  PROVE  [q \in Readers |-> Answer(assembly[q])]' = [q \in Readers |-> Answer(assembly[q])]
<1>1. Answer(assembly[r]) = {} /\ Answer(a) = {}
  BY DEF Answer
<1> QED
  BY <1>1, AnswerOf

\* The rows of a conversation stand for all that was posted and not forgotten.
LEMMA RowsStandForAll ==
  ASSUME RowsInv, NEW d \in Doors, NEW s, Lists(s, messages[d])
  PROVE  UNION {s[i].covers : i \in DOMAIN s} = appended[d] \ dropped[d]
<1>1. {s[i] : i \in DOMAIN s} = messages[d]
  BY DEF Lists
<1>2. UNION {s[i].covers : i \in DOMAIN s} = UNION {m.covers : m \in messages[d]}
  BY <1>1
<1>3. UNION {m.covers : m \in messages[d]} = appended[d] \ dropped[d]
  BY DEF RowsInv, NothingLost
<1> QED
  BY <1>2, <1>3

\* The last page is the moment of the answer; a page before it shows nothing.
LEMMA ReadPageRefines ==
  ASSUME RefinementInv, NEW r \in Readers, ReadPage(r), [Next]_vars
  PROVE  \/ \E d \in Doors, bot \in Bots : Log!Fetch(r, d, bot)
         \/ UNCHANGED Log!vars
<1> DEFINE a == assembly[r]
           d == a.door
           rest == After(messages[d], a.after)
<1>1. PICK page \in Listing(FirstPage(rest)) :
        assembly' = [assembly EXCEPT ![r] =
          PageAdded(a, page, generation[d], Cardinality(rest) > PageLimit)]
  BY DEF ReadPage
<1> DEFINE b == PageAdded(a, page, generation[d], Cardinality(rest) > PageLimit)
<1>2. /\ a.state = "paging" /\ d \in Doors /\ a.actor \in Bots
      /\ lifecycle[d] = "ready" /\ a.actor \in participants[d]
  BY DEF RefinementInv, TypeInv, TypeOK, Assembly, ReadPage, DoorReadyFor, DoorReady
<1>3. assembly'[r] = b /\ b.door = d
  BY <1>1 DEF RefinementInv, TypeInv, TypeOK, PageAdded
<1>4. UNCHANGED <<lifecycle, participants, appended, dropped>>
  BY DEF ReadPage, doorVars
<1>5. CASE b.state = "done"
  <2>1. Lists(b.collected, messages[d])
    BY <1>2, <1>3, <1>5, SnapshotStep DEF RefinementInv
  <2>2. Answer(b) = {<<d, appended[d] \ dropped[d]>>}
    BY <1>2, <1>3, <1>5, <2>1, RowsStandForAll DEF Answer, RefinementInv
  <2>3. Log!Fetch(r, d, a.actor)
    BY <1>1, <1>2, <1>4, <2>2, AnswerOf DEF Log!Fetch, RefinementInv
  <2> QED
    BY <1>2, <2>3
<1>6. CASE b.state # "done"
  BY <1>1, <1>2, <1>4, <1>6, NoAnswerYet DEF RefinementInv, Log!vars
<1> QED
  BY <1>5, <1>6

-----------------------------------------------------------------------------
(* The refinement                                                          *)

\* Every step is a step of the log or leaves it alone.
LEMMA StepRefines == RefinementInv /\ [Next]_vars => [Log!Next]_(Log!vars)
<1> SUFFICES ASSUME RefinementInv, [Next]_vars
             PROVE  Log!Next \/ UNCHANGED Log!vars
  OBVIOUS
<1>1. ASSUME NEW d \in Doors, NEW bots \in SUBSET Bots, CreateGroup(d, bots)
      PROVE  Log!Open(d, bots)
  BY <1>1, SameAnswers DEF CreateGroup, Log!Open
<1>2. ASSUME NEW d \in Doors, NEW bot \in Bots, AppendMessage(d, bot)
      PROVE  Log!Post(d, NextSeq(d)) /\ NextSeq(d) \in 1 .. MaxSeq
  BY <1>2, InsertRowRefines DEF AppendMessage, DoorReadyFor, DoorReady
<1>3. ASSUME NEW d \in Doors, AppendServer(d)
      PROVE  Log!Post(d, NextSeq(d)) /\ NextSeq(d) \in 1 .. MaxSeq
  BY <1>3, InsertRowRefines DEF AppendServer, DoorReady
<1>4. ASSUME NEW d \in Doors, NEW bot \in Bots, NEW bots \in SUBSET Bots,
             SetParticipants(d, bot, bots)
      PROVE  Log!Invite(d, bot, bots)
  BY <1>4, SameAnswers DEF SetParticipants, DoorReadyFor, DoorReady, Log!Invite
<1>5. ASSUME NEW d \in Doors, Delete(d)
      PROVE  Log!Close(d)
  BY <1>5, SameAnswers DEF Delete, DoorReady, Log!Close
<1>6. ASSUME NEW cutoff, Purge(cutoff)
      PROVE  Log!Forget
  BY <1>6, PurgeRefines
<1>7. ASSUME \/ UNCHANGED vars
             \/ Tick
             \/ \E c \in Compactors :
                  \/ \E d \in Doors, through \in 1 .. MaxSeq : CompactSnapshot(c, d, through)
                  \/ CompactCommit(c) \/ CompactConflict(c) \/ SummarizeFails(c)
      PROVE  UNCHANGED Log!vars
  <2>1. UNCHANGED <<lifecycle, participants, appended, dropped, assembly>>
    BY <1>7 DEF vars, doorVars, Tick, CompactSnapshot, CompactCommit, CompactConflict,
                SummarizeFails
  <2> QED
    BY <2>1, SameAnswers DEF Log!vars
<1>8. ASSUME NEW r \in Readers, NEW d \in Doors, NEW bot \in Bots, StartAssembly(r, d, bot)
      PROVE  Log!Ask(r)
  BY <1>8, StartRefines DEF RefinementInv
<1>9. ASSUME NEW r \in Readers, ReadPage(r)
      PROVE  \/ \E d \in Doors, bot \in Bots : Log!Fetch(r, d, bot)
             \/ UNCHANGED Log!vars
  BY <1>9, ReadPageRefines
<1>10. ASSUME NEW r \in Readers, ReadResync(r) \/ ReadRefused(r)
       PROVE  UNCHANGED Log!vars
  <2>1. PICK a : assembly' = [assembly EXCEPT ![r] = a] /\ a.state # "done"
    BY <1>10 DEF ReadResync, ReadRefused, Restarted, NoAssembly, NewAssembly
  <2>2. /\ assembly[r].state = "paging"
        /\ UNCHANGED <<lifecycle, participants, appended, dropped>>
    BY <1>10 DEF ReadResync, ReadRefused, doorVars
  <2> QED
    BY <2>1, <2>2, NoAnswerYet DEF RefinementInv, Log!vars
<1>11. CASE Next
  BY <1>1, <1>2, <1>3, <1>4, <1>5, <1>6, <1>7, <1>8, <1>9, <1>10, <1>11
  DEF Next, Log!Next
<1> QED
  BY <1>7, <1>11

\* The store, with its compactions, purges and page-by-page readers, is a log:
\* nothing posted is lost, and whoever reads a conversation gets all of it as
\* of one moment at which it takes part.
THEOREM StoreImplementsLog == Spec => ImplementsLog
  BY RefinementInvariant, InitRefines, StepRefines, PTL DEF Spec, ImplementsLog, Log!Spec
=============================================================================

-------------------------- MODULE BotRuntimeProofs --------------------------
(***************************************************************************)
(* Proofs about what passes between the windows of the bots: the bus, the  *)
(* journal, the room cursors and the session of a turn.                    *)
(***************************************************************************)
EXTENDS BotBusRefinement, WorkspaceTimeline, RoomTurn, SessionLoop, PositionsProofs, TLAPS

-----------------------------------------------------------------------------
(***************************************************************************)
(* The safety of the bus, for any bots, rooms and bounds.                  *)
(*                                                                         *)
(* BusInv is inductive.  What has to be added to the property is where an  *)
(* envelope can still be: numbers in the log are above the rows of their   *)
(* room (LogInv), an envelope that may be shown in its room is in the log, *)
(* was dropped by it, or is a row (Tracked), and it is no longer in the    *)
(* log when its delivery has loaded the room (LoadedInv).                  *)
(***************************************************************************)
Envelopes == [sender : Bots, to : Bots, room : Rooms, trace : Nat]
BusTurns == [room : Rooms \cup {NoBot}, step : {"idle", "setup", "run"}, text : Nat,
             batch : SUBSET Nat, trace : Nat, loaded : BOOLEAN]
BusRowType == [kind : {"bus", "result"}, n : Nat]
Stages == {"unsent", "wait", "run", "failed", "answered"}

BusTypes ==
    /\ mail \in Seq(Envelopes) /\ Len(mail) <= MaxSends
    /\ box \in [Bots -> Seq(Nat)]
    /\ log \in Seq(Nat)
    /\ stage \in [Sends -> Stages]
    /\ turn \in [Bots -> BusTurns]
    /\ members \in [Rooms -> SUBSET Bots]
    /\ rows \in [Rooms -> Seq(BusRowType)]
    /\ handled \in [Sends -> [text : Nat, mailbox : Nat]]
    /\ trimmed \subseteq Nat

\* Sent: the numbers that are envelopes.
Sent == DOMAIN mail

StageInv ==
    \A n \in Sends :
        /\ stage[n] = "unsent" <=> n \notin Sent
        /\ handled[n].text <= 1 /\ handled[n].mailbox <= 1
        /\ stage[n] \in {"unsent", "wait"} => handled[n].text = 0
        /\ stage[n] = "unsent" => handled[n].mailbox = 0
BoxInv ==
    \A b \in Bots :
        /\ \A i, j \in DOMAIN box[b] : i < j => box[b][i] < box[b][j]
        /\ \A i \in DOMAIN box[b] :
              /\ box[b][i] \in Sent /\ mail[box[b][i]].to = b
              /\ handled[box[b][i]].text = 0 /\ handled[box[b][i]].mailbox = 0
TurnInv ==
    \A b \in Bots :
        /\ turn[b].step # "idle" => turn[b].room \in Rooms
        /\ turn[b].step = "idle" => turn[b].text = 0
        /\ turn[b].text # 0 => turn[b].text \in Sent /\ handled[turn[b].text].text = 1
        /\ turn[b].text \notin turn[b].batch
        /\ turn[b].batch \subseteq Sent
        /\ turn[b].batch # {} => turn[b].room \in Rooms
        /\ turn[b].room \in Rooms /\ Dm[turn[b].room] = NoBot =>
              \A n \in turn[b].batch : Dm[mail[n].room] = NoBot

BusRow(n) == [kind |-> "bus", n |-> n]
\* Shown, of an envelope: both rows of its exchange may be in r.
MayShow(e, r) == Dm[r] \in {NoBot, e.sender, e.to}
RowIn(rs, n) == \E i \in DOMAIN rs : rs[i] = BusRow(n)

LogInv ==
    /\ \A i, j \in DOMAIN log : i < j => log[i] < log[j]
    /\ \A i \in DOMAIN log : log[i] \in Sent
    /\ \A r \in Rooms, i \in DOMAIN log : mail[log[i]].room = r =>
          \A j \in DOMAIN rows[r] : rows[r][j].kind = "bus" => rows[r][j].n < log[i]
\* The rows rs of r, with the envelopes es of which the log cut some.
RowsOf(rs, r, es, cut) ==
    /\ \A i, j \in DOMAIN rs :
          i < j /\ rs[i].kind = "bus" /\ rs[j].kind = "bus" => rs[i].n < rs[j].n
    /\ \A i \in DOMAIN rs :
          /\ rs[i].n \in DOMAIN es /\ MayShow(es[rs[i].n], r)
          /\ rs[i].kind = "result" =>
                \/ \E j \in 1..(i - 1) : rs[j] = BusRow(rs[i].n)
                \/ rs[i].n \in cut
RowsInv == \A r \in Rooms : RowsOf(rows[r], r, mail, trimmed)
Tracked ==
    \A n \in Sent : MayShow(mail[n], mail[n].room) =>
        (\E i \in DOMAIN log : log[i] = n) \/ n \in trimmed \/ RowIn(rows[mail[n].room], n)
LoadedInv ==
    \A b \in Bots : turn[b].text # 0 /\ turn[b].loaded =>
        /\ turn[b].room = mail[turn[b].text].room
        /\ MayShow(mail[turn[b].text], turn[b].room) =>
              turn[b].text \in trimmed \/ RowIn(rows[turn[b].room], turn[b].text)

BusInv == BusTypes /\ StageInv /\ BoxInv /\ TurnInv /\ LogInv /\ RowsInv /\ Tracked /\ LoadedInv

-----------------------------------------------------------------------------
(* Numbers and filters                                                     *)

\* The envelopes are numbered from one, within the bound.
LEMMA SentIs ==
  ASSUME BusTypes
  PROVE  /\ Len(mail) \in Nat /\ Sent = 1..Len(mail) /\ Sent \subseteq Sends
         /\ Sent \subseteq Nat /\ 0 \notin Sent
         /\ \A n \in Sent : mail[n] \in Envelopes
<1>1. Len(mail) \in Nat /\ DOMAIN mail = 1..Len(mail) /\ Len(mail) <= MaxSends
  BY LenProperties DEF BusTypes
<1>2. \A n \in 1..Len(mail) : mail[n] \in Envelopes
  BY ElementOfSeq DEF BusTypes
<1>3. MaxSends \in Nat
  BY BotBusAssumption
<1>4. QED
  BY <1>1, <1>2, <1>3 DEF Sent, Sends

\* What a filter keeps of numbers that increase: some of them, increasing.
LEMMA KeptIncreases ==
  ASSUME NEW s \in Seq(Nat), NEW P \in SUBSET DOMAIN s,
         \A i, j \in DOMAIN s : i < j => s[i] < s[j]
  PROVE  \A i, j \in DOMAIN KeptAt(s, P) : i < j => KeptAt(s, P)[i] < KeptAt(s, P)[j]
<1> SUFFICES ASSUME NEW i \in DOMAIN KeptAt(s, P), NEW j \in DOMAIN KeptAt(s, P), i < j
             PROVE  KeptAt(s, P)[i] < KeptAt(s, P)[j]
  OBVIOUS
<1>1. Nth(P, i) < Nth(P, j)
  BY KeptInOrder
<1>2. /\ Nth(P, i) \in P /\ KeptAt(s, P)[i] = s[Nth(P, i)]
      /\ Nth(P, j) \in P /\ KeptAt(s, P)[j] = s[Nth(P, j)]
  BY KeptIsSeq
<1>3. QED
  BY <1>1, <1>2

\* What stays of a mailbox when ns leaves it: the others, in their order.
LEMMA WithoutIs ==
  ASSUME NEW s \in Seq(Nat), NEW ns,
         \A i, j \in DOMAIN s : i < j => s[i] < s[j]
  PROVE  /\ Without(s, ns) \in Seq(Nat)
         /\ \A j \in DOMAIN Without(s, ns) :
               \E i \in DOMAIN s : Without(s, ns)[j] = s[i] /\ s[i] \notin ns
         /\ \A i, j \in DOMAIN Without(s, ns) :
               i < j => Without(s, ns)[i] < Without(s, ns)[j]
<1> DEFINE P == {i \in DOMAIN s : s[i] \notin ns}
<1>1. P \in SUBSET DOMAIN s /\ \A i \in P : s[i] \notin ns
  OBVIOUS
<1>2. Without(s, ns) = KeptAt(s, P)
  BY DEF Without
<1> HIDE DEF P
<1>3. KeptAt(s, P) \in Seq(Nat)
  BY <1>1, KeptIsSeq
<1>4. \A j \in DOMAIN KeptAt(s, P) : Nth(P, j) \in P /\ KeptAt(s, P)[j] = s[Nth(P, j)]
  BY <1>1, KeptIsSeq
<1>5. \A i, j \in DOMAIN KeptAt(s, P) : i < j => KeptAt(s, P)[i] < KeptAt(s, P)[j]
  BY <1>1, KeptIncreases
<1>6. \A j \in DOMAIN KeptAt(s, P) :
         \E i \in DOMAIN s : KeptAt(s, P)[j] = s[i] /\ s[i] \notin ns
  BY <1>1, <1>4
<1>7. QED
  BY <1>2, <1>3, <1>5, <1>6

\* What drain_log leaves of the log: the envelopes of other rooms.
LEMMA LogWithoutIs ==
  ASSUME BusTypes, LogInv, NEW r \in Rooms
  PROVE  /\ LogWithout(r) \in Seq(Nat)
         /\ \A j \in DOMAIN LogWithout(r) :
               \E i \in DOMAIN log : LogWithout(r)[j] = log[i] /\ mail[log[i]].room # r
         /\ \A i, j \in DOMAIN LogWithout(r) :
               i < j => LogWithout(r)[i] < LogWithout(r)[j]
         /\ \A i \in DOMAIN log : mail[log[i]].room # r =>
               \E j \in DOMAIN LogWithout(r) : LogWithout(r)[j] = log[i]
<1> DEFINE P == {i \in DOMAIN log : mail[log[i]].room # r}
<1>1. /\ P \in SUBSET DOMAIN log /\ \A i \in P : mail[log[i]].room # r
      /\ \A i \in DOMAIN log : mail[log[i]].room # r => i \in P
  OBVIOUS
<1>2. LogWithout(r) = KeptAt(log, P)
  BY DEF LogWithout
<1>a. log \in Seq(Nat) /\ \A i, j \in DOMAIN log : i < j => log[i] < log[j]
  BY DEF BusTypes, LogInv
<1> HIDE DEF P
<1>3. KeptAt(log, P) \in Seq(Nat)
  BY <1>1, <1>a, KeptIsSeq
<1>4. \A j \in DOMAIN KeptAt(log, P) : Nth(P, j) \in P /\ KeptAt(log, P)[j] = log[Nth(P, j)]
  BY <1>1, <1>a, KeptIsSeq
<1>5. \A i, j \in DOMAIN KeptAt(log, P) : i < j => KeptAt(log, P)[i] < KeptAt(log, P)[j]
  BY <1>1, <1>a, KeptIncreases
<1>6. \A j \in DOMAIN KeptAt(log, P) :
         \E i \in DOMAIN log : KeptAt(log, P)[j] = log[i] /\ mail[log[i]].room # r
  BY <1>1, <1>4
<1>7. \A i \in P : \E j \in DOMAIN KeptAt(log, P) : KeptAt(log, P)[j] = log[i]
  BY <1>1, <1>a, KeptHasAll
<1>8. QED
  BY <1>1, <1>2, <1>3, <1>5, <1>6, <1>7

\* The rows that record_bus_events adds: one for each envelope of the room
\* in the log that may be shown there, in the order in which they were sent.
LEMMA BusRowsAre ==
  ASSUME BusTypes, LogInv, NEW r \in Rooms
  PROVE  /\ BusRows(r) \in Seq(BusRowType)
         /\ \A j \in DOMAIN BusRows(r) : \E i \in DOMAIN log :
               /\ BusRows(r)[j] = BusRow(log[i])
               /\ mail[log[i]].room = r /\ MayShow(mail[log[i]], r)
         /\ \A i, j \in DOMAIN BusRows(r) : i < j => BusRows(r)[i].n < BusRows(r)[j].n
         /\ \A i \in DOMAIN log : mail[log[i]].room = r /\ MayShow(mail[log[i]], r) =>
               \E j \in DOMAIN BusRows(r) : BusRows(r)[j] = BusRow(log[i])
<1> DEFINE P == {i \in DOMAIN log : mail[log[i]].room = r /\ MayShow(mail[log[i]], r)}
           fresh == KeptAt(log, P)
<1>1. /\ P \in SUBSET DOMAIN log /\ \A i \in P : mail[log[i]].room = r /\ MayShow(mail[log[i]], r)
      /\ \A i \in DOMAIN log : mail[log[i]].room = r /\ MayShow(mail[log[i]], r) => i \in P
  OBVIOUS
<1>2. BusRows(r) = [i \in DOMAIN fresh |-> BusRow(fresh[i])]
  BY DEF BusRows, BusRow, Shown, MayShow
<1>a. log \in Seq(Nat) /\ \A i, j \in DOMAIN log : i < j => log[i] < log[j]
  BY DEF BusTypes, LogInv
<1> HIDE DEF P
<1>3. fresh \in Seq(Nat) /\ DOMAIN fresh = 1..Cardinality(P) /\ Cardinality(P) \in Nat
  BY <1>1, <1>a, KeptIsSeq
<1>4. \A j \in DOMAIN fresh : Nth(P, j) \in P /\ fresh[j] = log[Nth(P, j)]
  BY <1>1, <1>a, KeptIsSeq
<1>5. \A i, j \in DOMAIN fresh : i < j => fresh[i] < fresh[j]
  BY <1>1, <1>a, KeptIncreases
<1>6. \A i \in P : \E j \in DOMAIN fresh : fresh[j] = log[i]
  BY <1>1, <1>a, KeptHasAll
<1> HIDE DEF fresh
<1>7. /\ DOMAIN BusRows(r) = DOMAIN fresh
      /\ \A j \in DOMAIN fresh : BusRows(r)[j] = BusRow(fresh[j])
  BY <1>2
<1>8. \A j \in DOMAIN fresh : fresh[j] \in Nat
  BY <1>3, ElementOfSeq, LenProperties
<1>9. BusRows(r) \in Seq(BusRowType)
  <2>1. \A j \in 1..Cardinality(P) : BusRow(fresh[j]) \in BusRowType
    BY <1>3, <1>8 DEF BusRow, BusRowType
  <2>2. BusRows(r) = [j \in 1..Cardinality(P) |-> BusRow(fresh[j])]
    BY <1>2, <1>3
  <2>3. QED
    BY <1>3, <2>1, <2>2, IsASeq
<1>10. \A n : BusRow(n).n = n
  BY DEF BusRow
<1>11. QED
  BY <1>1, <1>4, <1>5, <1>6, <1>7, <1>9, <1>10

\* The last max elements of the log.
LEMMA KeepIs ==
  ASSUME NEW s \in Seq(Nat), NEW max \in Nat \ {0}
  PROVE  /\ Keep(s, max) \in Seq(Nat)
         /\ \E d \in Nat : \A i \in DOMAIN Keep(s, max) :
               i + d \in DOMAIN s /\ Keep(s, max)[i] = s[i + d]
<1>1. Len(s) \in Nat /\ DOMAIN s = 1..Len(s) /\ \A i \in 1..Len(s) : s[i] \in Nat
  BY LenProperties, ElementOfSeq
<1>2. CASE Len(s) > max
  <2> DEFINE d == Len(s) - max
             t == SubSeq(s, d + 1, Len(s))
  <2>1. Keep(s, max) = t
    BY <1>2 DEF Keep
  <2>2. /\ d \in Nat /\ d + 1 \in Int /\ Len(s) \in Int /\ d + 1 <= Len(s)
        /\ \A i \in (d + 1)..Len(s) : s[i] \in Nat
    BY <1>1, <1>2
  <2>3. /\ t \in Seq(Nat) /\ Len(t) = Len(s) - (d + 1) + 1
        /\ \A i \in 1..(Len(s) - (d + 1) + 1) : t[i] = s[d + 1 + i - 1]
    BY <2>2, SubSeqProperties
  <2>4. DOMAIN t = 1..Len(t)
    BY <2>3, LenProperties
  <2> HIDE DEF t
  <2>5. \A i \in DOMAIN t : i + d \in DOMAIN s /\ t[i] = s[i + d]
    <3>1. \A i \in 1..(Len(s) - (d + 1) + 1) : d + 1 + i - 1 = i + d /\ i + d \in 1..Len(s)
      BY <1>1, <2>2
    <3>2. QED
      BY <1>1, <2>3, <2>4, <3>1
  <2>6. QED
    BY <2>1, <2>2, <2>3, <2>5
<1>3. CASE ~(Len(s) > max)
  <2>1. Keep(s, max) = s
    BY <1>3 DEF Keep
  <2>2. \A i \in DOMAIN s : i + 0 \in DOMAIN s /\ s[i] = s[i + 0]
    BY <1>1
  <2>3. QED
    BY <2>1, <2>2
<1>4. QED
  BY <1>2, <1>3
-----------------------------------------------------------------------------
(* What a step leaves alone                                                *)

\* The rows and the log of a step that touches neither.
LEMMA RowsStay ==
  ASSUME LogInv, RowsInv, Tracked, UNCHANGED <<mail, log, rows, trimmed>>
  PROVE  LogInv' /\ RowsInv' /\ Tracked'
<1>1. LogInv'
  BY DEF LogInv, Sent
<1>2. RowsInv'
  BY DEF RowsInv, RowsOf, Sent
<1>3. Tracked'
  BY DEF Tracked, Sent
<1>4. QED
  BY <1>1, <1>2, <1>3

\* The mailboxes of a step that touches no envelope in one.
LEMMA BoxStays ==
  ASSUME BoxInv, UNCHANGED <<mail, box>>,
         \A b \in Bots : \A i \in DOMAIN box[b] : handled'[box[b][i]] = handled[box[b][i]]
  PROVE  BoxInv'
BY DEF BoxInv, Sent

\* The rows of a room are replaced: those of the others stay.
LEMMA RowsReplaced ==
  ASSUME RowsInv, UNCHANGED <<mail, trimmed>>, NEW r \in Rooms, NEW all,
         rows'[r] = all, \A q \in Rooms : q # r => rows'[q] = rows[q],
         RowsOf(all, r, mail, trimmed)
  PROVE  RowsInv'
<1>1. ASSUME NEW q \in Rooms
      PROVE  RowsOf(rows'[q], q, mail, trimmed)
  <2>1. CASE q = r
    BY <2>1
  <2>2. CASE q # r
    BY <2>2 DEF RowsInv
  <2>3. QED
    BY <2>1, <2>2
<1>2. QED
  BY <1>1 DEF RowsInv

\* A turn's record that is replaced: the others stay.
LEMMA BusTurnStep ==
  ASSUME BusTypes, NEW b \in Bots, NEW t \in BusTurns, turn' = [turn EXCEPT ![b] = t]
  PROVE  turn' \in [Bots -> BusTurns] /\ turn'[b] = t
         /\ \A c \in Bots : c # b => turn'[c] = turn[c]
BY DEF BusTypes

\* The turns, when one is replaced and the envelopes that turns have as their
\* text stay handled.
LEMMA TurnsStay ==
  ASSUME BusTypes, TurnInv, NEW b \in Bots, NEW t \in BusTurns,
         turn' = [turn EXCEPT ![b] = t], mail' = mail,
         \A n \in Sent : handled[n].text = 1 => handled'[n].text = 1,
         t.step # "idle" => t.room \in Rooms,
         t.step = "idle" => t.text = 0,
         t.text # 0 => t.text \in Sent /\ handled'[t.text].text = 1,
         t.text \notin t.batch, t.batch \subseteq Sent,
         t.batch # {} => t.room \in Rooms,
         t.room \in Rooms /\ Dm[t.room] = NoBot => \A n \in t.batch : Dm[mail[n].room] = NoBot
  PROVE  TurnInv'
<1>1. turn'[b] = t /\ \A c \in Bots : c # b => turn'[c] = turn[c]
  BY BusTurnStep
<1>2. Sent' = Sent
  BY DEF Sent
<1> SUFFICES ASSUME NEW c \in Bots
             PROVE  /\ turn'[c].step # "idle" => turn'[c].room \in Rooms
                    /\ turn'[c].step = "idle" => turn'[c].text = 0
                    /\ turn'[c].text # 0 => turn'[c].text \in Sent /\ handled'[turn'[c].text].text = 1
                    /\ turn'[c].text \notin turn'[c].batch
                    /\ turn'[c].batch \subseteq Sent
                    /\ turn'[c].batch # {} => turn'[c].room \in Rooms
                    /\ turn'[c].room \in Rooms /\ Dm[turn'[c].room] = NoBot =>
                          \A n \in turn'[c].batch : Dm[mail[n].room] = NoBot
  BY <1>2 DEF TurnInv
<1>3. CASE c = b
  BY <1>1, <1>3
<1>4. CASE c # b
  <2>1. turn'[c] = turn[c]
    BY <1>1, <1>4
  <2>2. QED
    BY <2>1 DEF TurnInv
<1>5. QED
  BY <1>3, <1>4

\* Idle is a turn.
LEMMA IdleIs ==
  /\ Idle \in BusTurns /\ Idle.room = NoBot /\ Idle.step = "idle" /\ Idle.text = 0
  /\ Idle.batch = {} /\ Idle.trace = 0 /\ Idle.loaded = FALSE
BY DEF Idle, BusTurns

\* A loaded delivery, when rows and dropped envelopes only become more and
\* the turn that changes is no loaded delivery or has its row.
LEMMA LoadedStays ==
  ASSUME BusTypes, TurnInv, LoadedInv, NEW b \in Bots, NEW t \in BusTurns,
         turn' = [turn EXCEPT ![b] = t], mail' = mail, trimmed \subseteq trimmed',
         \A n \in Sent, r \in Rooms : RowIn(rows[r], n) => RowIn(rows'[r], n),
         t.text # 0 /\ t.loaded =>
            /\ t.room = mail[t.text].room
            /\ MayShow(mail[t.text], t.room) => t.text \in trimmed' \/ RowIn(rows'[t.room], t.text)
  PROVE  LoadedInv'
<1>1. turn'[b] = t /\ \A c \in Bots : c # b => turn'[c] = turn[c]
  BY BusTurnStep
<1>2. LoadedInv' <=> \A c \in Bots : turn'[c].text # 0 /\ turn'[c].loaded =>
         /\ turn'[c].room = mail[turn'[c].text].room
         /\ MayShow(mail[turn'[c].text], turn'[c].room) =>
              turn'[c].text \in trimmed' \/ RowIn(rows'[turn'[c].room], turn'[c].text)
  BY DEF LoadedInv
<1> SUFFICES ASSUME NEW c \in Bots, turn'[c].text # 0 /\ turn'[c].loaded
             PROVE  /\ turn'[c].room = mail[turn'[c].text].room
                    /\ MayShow(mail[turn'[c].text], turn'[c].room) =>
                         turn'[c].text \in trimmed' \/ RowIn(rows'[turn'[c].room], turn'[c].text)
  BY <1>2
<1>3. CASE c = b
  BY <1>1, <1>3
<1>4. CASE c # b
  <2>1. turn'[c] = turn[c]
    BY <1>1, <1>4
  <2>2. turn[c].text \in Sent /\ turn[c].room \in Rooms
    BY <2>1 DEF TurnInv, BusTypes, BusTurns
  <2>3. /\ turn[c].room = mail[turn[c].text].room
        /\ MayShow(mail[turn[c].text], turn[c].room) => turn[c].text \in trimmed \/ RowIn(rows[turn[c].room], turn[c].text)
    BY <2>1 DEF LoadedInv
  <2>4. QED
    BY <2>1, <2>2, <2>3
<1>5. QED
  BY <1>3, <1>4

\* The mailbox that ns leaves.
LEMMA BoxShrinks ==
  ASSUME BusTypes, BoxInv, NEW b \in Bots, NEW ns,
         box' = Drained(b, ns), mail' = mail,
         \A n \in ns : n \in Sent => mail[n].to = b,
         \A n \in Sent : n \notin ns => handled'[n] = handled[n]
  PROVE  box' \in [Bots -> Seq(Nat)] /\ BoxInv'
<1>1. box[b] \in Seq(Nat) /\ \A i, j \in DOMAIN box[b] : i < j => box[b][i] < box[b][j]
  BY DEF BusTypes, BoxInv
<1>2. /\ Without(box[b], ns) \in Seq(Nat)
      /\ \A j \in DOMAIN Without(box[b], ns) :
            \E i \in DOMAIN box[b] : Without(box[b], ns)[j] = box[b][i] /\ box[b][i] \notin ns
      /\ \A i, j \in DOMAIN Without(box[b], ns) :
            i < j => Without(box[b], ns)[i] < Without(box[b], ns)[j]
  BY <1>1, WithoutIs
<1>3. /\ box' \in [Bots -> Seq(Nat)] /\ box'[b] = Without(box[b], ns)
      /\ \A c \in Bots : c # b => box'[c] = box[c]
  BY <1>2 DEF BusTypes, Drained
<1>4. ASSUME NEW c \in Bots, NEW i \in DOMAIN box'[c], NEW j \in DOMAIN box'[c], i < j
      PROVE  box'[c][i] < box'[c][j]
  <2>1. CASE c = b
    BY <1>2, <1>3, <1>4, <2>1
  <2>2. CASE c # b
    <3>1. box'[c] = box[c]
      BY <1>3, <2>2
    <3>2. QED
      BY <1>4, <3>1 DEF BoxInv
  <2>3. QED
    BY <2>1, <2>2
<1>5. ASSUME NEW c \in Bots, NEW i \in DOMAIN box'[c]
      PROVE  \E j \in DOMAIN box[c] : box'[c][i] = box[c][j] /\ box[c][j] \notin ns
  <2>1. CASE c = b
    BY <1>2, <1>3, <2>1
  <2>2. CASE c # b
    BY <1>3, <2>2 DEF BoxInv
  <2>3. QED
    BY <2>1, <2>2
<1>6. ASSUME NEW c \in Bots, NEW i \in DOMAIN box'[c]
      PROVE  /\ box'[c][i] \in Sent /\ mail[box'[c][i]].to = c
             /\ handled'[box'[c][i]].text = 0 /\ handled'[box'[c][i]].mailbox = 0
  BY <1>5 DEF BoxInv
<1>7. BoxInv'
  BY <1>4, <1>6 DEF BoxInv, Sent
<1>8. QED
  BY <1>3, <1>7
-----------------------------------------------------------------------------
(* Recording the events of a room                                          *)

\* A row of the room, before and after more are appended.
LEMMA RowsGrow ==
  ASSUME NEW old \in Seq(BusRowType), NEW new \in Seq(BusRowType)
  PROVE  /\ old \o new \in Seq(BusRowType)
         /\ DOMAIN (old \o new) = 1..(Len(old) + Len(new))
         /\ DOMAIN old = 1..Len(old) /\ Len(old) \in Nat /\ Len(new) \in Nat
         /\ \A i \in DOMAIN old : i \in DOMAIN (old \o new) /\ (old \o new)[i] = old[i]
         /\ \A i \in DOMAIN new : /\ Len(old) + i \in DOMAIN (old \o new)
                                  /\ (old \o new)[Len(old) + i] = new[i]
         /\ \A i \in DOMAIN (old \o new) : i \notin DOMAIN old =>
               i - Len(old) \in DOMAIN new /\ (old \o new)[i] = new[i - Len(old)]
         /\ \A n : RowIn(old, n) => RowIn(old \o new, n)
         /\ \A n : RowIn(new, n) => RowIn(old \o new, n)
<1>1. /\ Len(old) \in Nat /\ DOMAIN old = 1..Len(old)
      /\ Len(new) \in Nat /\ DOMAIN new = 1..Len(new)
  BY LenProperties
<1>2. /\ old \o new \in Seq(BusRowType) /\ Len(old \o new) = Len(old) + Len(new)
      /\ \A i \in 1..(Len(old) + Len(new)) :
            (old \o new)[i] = IF i <= Len(old) THEN old[i] ELSE new[i - Len(old)]
  BY ConcatProperties
<1>3. DOMAIN (old \o new) = 1..(Len(old) + Len(new))
  BY <1>2, LenProperties
<1> DEFINE all == old \o new
<1> HIDE DEF all
<1>4. \A i \in DOMAIN old : i \in DOMAIN all /\ all[i] = old[i]
  BY <1>1, <1>2, <1>3 DEF all
<1>5. \A i \in DOMAIN new : Len(old) + i \in DOMAIN all /\ all[Len(old) + i] = new[i]
  <2>1. \A i \in DOMAIN new : /\ Len(old) + i \in 1..(Len(old) + Len(new))
                              /\ ~(Len(old) + i <= Len(old)) /\ Len(old) + i - Len(old) = i
    BY <1>1
  <2>2. QED
    BY <1>2, <1>3, <2>1 DEF all
<1>6. \A i \in DOMAIN all : i \notin DOMAIN old =>
         i - Len(old) \in DOMAIN new /\ all[i] = new[i - Len(old)]
  <2>1. \A i \in DOMAIN all : i \notin DOMAIN old => i - Len(old) \in DOMAIN new /\ ~(i <= Len(old))
    BY <1>1, <1>3 DEF all
  <2>2. QED
    BY <1>2, <1>3, <2>1 DEF all
<1>7. QED
  BY <1>1, <1>2, <1>3, <1>4, <1>5, <1>6 DEF all, RowIn

\* record_bus_events keeps the rows of every room in order, and then every
\* envelope of the room that may be shown there has its row, or was dropped.
LEMMA RecordRows ==
  ASSUME BusTypes, LogInv, RowsInv, Tracked, NEW r \in Rooms,
         rows' = [rows EXCEPT ![r] = @ \o BusRows(r)], log' = LogWithout(r),
         UNCHANGED <<mail, trimmed>>
  PROVE  /\ rows' \in [Rooms -> Seq(BusRowType)] /\ log' \in Seq(Nat)
         /\ LogInv' /\ RowsInv' /\ Tracked'
         /\ \A n, q : q \in Rooms /\ RowIn(rows[q], n) => RowIn(rows'[q], n)
         /\ \A n \in Sent : mail[n].room = r /\ MayShow(mail[n], r) => n \in trimmed \/ RowIn(rows'[r], n)
<1> DEFINE old == rows[r]
           new == BusRows(r)
           all == old \o new
<1>1. old \in Seq(BusRowType) /\ new \in Seq(BusRowType)
  BY BusRowsAre DEF BusTypes
<1>2. /\ all \in Seq(BusRowType)
      /\ DOMAIN all = 1..(Len(old) + Len(new))
      /\ DOMAIN old = 1..Len(old) /\ Len(old) \in Nat /\ Len(new) \in Nat
      /\ \A i \in DOMAIN old : i \in DOMAIN all /\ all[i] = old[i]
      /\ \A i \in DOMAIN all : i \notin DOMAIN old =>
               i - Len(old) \in DOMAIN new /\ all[i] = new[i - Len(old)]
      /\ \A n : RowIn(old, n) => RowIn(all, n)
      /\ \A n : RowIn(new, n) => RowIn(all, n)
  BY <1>1, RowsGrow
<1>3. /\ rows' \in [Rooms -> Seq(BusRowType)] /\ rows'[r] = all
      /\ \A q \in Rooms : q # r => rows'[q] = rows[q]
  BY <1>2 DEF BusTypes
<1>4. /\ \A j \in DOMAIN new : \E i \in DOMAIN log :
           /\ new[j] = BusRow(log[i]) /\ mail[log[i]].room = r /\ MayShow(mail[log[i]], r)
      /\ \A i, j \in DOMAIN new : i < j => new[i].n < new[j].n
      /\ \A i \in DOMAIN log : mail[log[i]].room = r /\ MayShow(mail[log[i]], r) => RowIn(new, log[i])
  BY BusRowsAre DEF RowIn
<1>5. /\ log' \in Seq(Nat)
      /\ \A j \in DOMAIN log' : \E i \in DOMAIN log : log'[j] = log[i] /\ mail[log[i]].room # r
      /\ \A i, j \in DOMAIN log' : i < j => log'[i] < log'[j]
      /\ \A i \in DOMAIN log : mail[log[i]].room # r => \E j \in DOMAIN log' : log'[j] = log[i]
  BY LogWithoutIs
<1>6. Sent' = Sent /\ mail' = mail /\ trimmed' = trimmed
  BY DEF Sent
<1>7. \A n : BusRow(n).n = n /\ BusRow(n).kind = "bus"
  BY DEF BusRow
<1> HIDE DEF all, new
<1>8. \A n, q : q \in Rooms /\ RowIn(rows[q], n) => RowIn(rows'[q], n)
  <2> SUFFICES ASSUME NEW n, NEW q \in Rooms, RowIn(rows[q], n)
               PROVE  RowIn(rows'[q], n)
    OBVIOUS
  <2>1. CASE q = r
    BY <1>2, <1>3, <2>1
  <2>2. CASE q # r
    <3>1. rows'[q] = rows[q]
      BY <1>3, <2>2
    <3>2. QED
      BY <3>1
  <2>3. QED
    BY <2>1, <2>2
<1>9. LogInv'
  <2>1. \A i \in DOMAIN log' : log'[i] \in Sent
    BY <1>5 DEF LogInv
  <2>2. ASSUME NEW q \in Rooms, NEW i \in DOMAIN log', mail[log'[i]].room = q,
               NEW j \in DOMAIN rows'[q], rows'[q][j].kind = "bus"
        PROVE  rows'[q][j].n < log'[i]
    <3>1. PICK k \in DOMAIN log : log'[i] = log[k] /\ mail[log[k]].room # r
      BY <1>5
    <3>2. q # r
      BY <2>2, <3>1
    <3>3. rows'[q] = rows[q]
      BY <1>3, <3>2
    <3>4. QED
      BY <2>2, <3>1, <3>3 DEF LogInv
  <2>3. QED
    BY <1>5, <1>6, <2>1, <2>2 DEF LogInv
<1>10. ASSUME NEW i \in DOMAIN all, NEW j \in DOMAIN all, i < j,
              all[i].kind = "bus", all[j].kind = "bus"
       PROVE  all[i].n < all[j].n
  <2>1. CASE j \in DOMAIN old
    <3>1. i \in DOMAIN old
      BY <1>2, <1>10, <2>1
    <3>2. QED
      BY <1>2, <1>10, <2>1, <3>1 DEF RowsInv, RowsOf, Sent
  <2>2. CASE j \notin DOMAIN old /\ i \in DOMAIN old
    <3>1. j - Len(old) \in DOMAIN new /\ all[j] = new[j - Len(old)] /\ all[i] = old[i]
      BY <1>2, <2>2
    <3>2. PICK k \in DOMAIN log : new[j - Len(old)] = BusRow(log[k]) /\ mail[log[k]].room = r
      BY <1>4, <3>1
    <3>3. old[i].n < log[k]
      BY <1>10, <2>2, <3>1, <3>2 DEF LogInv
    <3>4. QED
      BY <1>7, <3>1, <3>2, <3>3
  <2>3. CASE j \notin DOMAIN old /\ i \notin DOMAIN old
    <3>1. /\ j - Len(old) \in DOMAIN new /\ all[j] = new[j - Len(old)]
          /\ i - Len(old) \in DOMAIN new /\ all[i] = new[i - Len(old)]
      BY <1>2, <2>3
    <3>2. i - Len(old) < j - Len(old)
      BY <1>2, <1>10
    <3>3. QED
      BY <1>4, <3>1, <3>2
  <2>4. QED
    BY <2>1, <2>2, <2>3
<1>11. ASSUME NEW i \in DOMAIN all
       PROVE  /\ all[i].n \in Sent /\ MayShow(mail[all[i].n], r)
              /\ all[i].kind = "result" =>
                    \/ \E j \in 1..(i - 1) : all[j] = BusRow(all[i].n)
                    \/ all[i].n \in trimmed
  <2>1. CASE i \in DOMAIN old
    <3>1. all[i] = old[i]
      BY <1>2, <2>1
    <3>2. /\ old[i].n \in Sent /\ MayShow(mail[old[i].n], r)
          /\ old[i].kind = "result" =>
                \/ \E j \in 1..(i - 1) : old[j] = BusRow(old[i].n)
                \/ old[i].n \in trimmed
      BY <2>1 DEF RowsInv, RowsOf, Sent
    <3>3. \A j \in 1..(i - 1) : all[j] = old[j]
      <4>1. \A j \in 1..(i - 1) : j \in DOMAIN old
        BY <1>2, <2>1
      <4>2. QED
        BY <1>2, <4>1
    <3>4. QED
      BY <3>1, <3>2, <3>3
  <2>2. CASE i \notin DOMAIN old
    <3>1. i - Len(old) \in DOMAIN new /\ all[i] = new[i - Len(old)]
      BY <1>2, <2>2
    <3>2. PICK k \in DOMAIN log : new[i - Len(old)] = BusRow(log[k]) /\ MayShow(mail[log[k]], r)
      BY <1>4, <3>1
    <3>3. QED
      BY <1>7, <3>1, <3>2 DEF LogInv
  <2>3. QED
    BY <2>1, <2>2
<1>12. RowsInv'
  <2>1. RowsOf(all, r, mail, trimmed)
    BY <1>10, <1>11 DEF RowsOf, Sent
  <2>2. QED
    BY <1>3, <1>6, <2>1, RowsReplaced
<1>13. ASSUME NEW n \in Sent, MayShow(mail[n], mail[n].room)
       PROVE  (\E i \in DOMAIN log' : log'[i] = n) \/ n \in trimmed
              \/ RowIn(rows'[mail[n].room], n)
  <2>1. CASE \E i \in DOMAIN log : log[i] = n
    <3>1. PICK i \in DOMAIN log : log[i] = n
      BY <2>1
    <3>2. CASE mail[n].room = r
      <4>1. RowIn(new, n)
        BY <1>4, <1>13, <3>1, <3>2
      <4>2. QED
        BY <1>2, <1>3, <3>2, <4>1
    <3>3. CASE mail[n].room # r
      BY <1>5, <3>1, <3>3
    <3>4. QED
      BY <3>2, <3>3
  <2>2. CASE n \in trimmed
    BY <2>2
  <2>3. CASE RowIn(rows[mail[n].room], n)
    <3>1. mail[n].room \in Rooms
      BY SentIs DEF Envelopes
    <3>2. QED
      BY <1>8, <2>3, <3>1
  <2>4. QED
    BY <1>13, <2>1, <2>2, <2>3 DEF Tracked
<1>14. Tracked'
  BY <1>6, <1>13 DEF Tracked
<1>15. \A n \in Sent : mail[n].room = r /\ MayShow(mail[n], r) => n \in trimmed \/ RowIn(rows'[r], n)
  <2> SUFFICES ASSUME NEW n \in Sent, mail[n].room = r, MayShow(mail[n], r)
               PROVE  n \in trimmed \/ RowIn(rows'[r], n)
    OBVIOUS
  <2>1. (\E i \in DOMAIN log' : log'[i] = n) => FALSE
    BY <1>5
  <2>2. QED
    BY <1>13, <2>1
<1>16. QED
  BY <1>3, <1>5, <1>8, <1>9, <1>12, <1>14, <1>15
-----------------------------------------------------------------------------
(* The steps                                                               *)

LEMMA InitBus == BusInit => BusInv
<1> SUFFICES ASSUME BusInit PROVE BusInv
  OBVIOUS
<1>1. /\ mail = <<>> /\ log = <<>> /\ trimmed = {} /\ stage = [n \in Sends |-> "unsent"]
      /\ box = [b \in Bots |-> <<>>] /\ turn = [b \in Bots |-> Idle]
      /\ members \in [Rooms -> SUBSET Bots] /\ rows = [r \in Rooms |-> <<>>]
      /\ handled = [n \in Sends |-> [text |-> 0, mailbox |-> 0]]
  BY DEF BusInit
<1>2. /\ \A S : <<>> \in Seq(S)
      /\ Len(<<>>) = 0 /\ DOMAIN <<>> = {}
  OBVIOUS
<1>3. MaxSends \in Nat
  BY BotBusAssumption
<1>4. BusTypes
  <2>1. mail \in Seq(Envelopes) /\ Len(mail) <= MaxSends /\ log \in Seq(Nat)
    BY <1>1, <1>2, <1>3
  <2>2. box \in [Bots -> Seq(Nat)] /\ rows \in [Rooms -> Seq(BusRowType)]
    BY <1>1, <1>2
  <2>3. turn \in [Bots -> BusTurns] /\ stage \in [Sends -> Stages]
    BY <1>1, IdleIs DEF Stages
  <2>4. QED
    BY <1>1, <2>1, <2>2, <2>3 DEF BusTypes
<1>5. Sent = {}
  BY <1>1, <1>2 DEF Sent
<1>6. StageInv
  BY <1>1, <1>5 DEF StageInv
<1>7. BoxInv
  BY <1>1, <1>2 DEF BoxInv
<1>8. TurnInv
  BY <1>1, IdleIs DEF TurnInv
<1>9. LogInv /\ RowsInv
  BY <1>1, <1>2 DEF LogInv, RowsInv, RowsOf, Sent
<1>10. Tracked
  BY <1>5 DEF Tracked
<1>11. LoadedInv
  BY <1>1, IdleIs DEF LoadedInv
<1>12. QED
  BY <1>4, <1>6, <1>7, <1>8, <1>9, <1>10, <1>11 DEF BusInv

LEMMA BeginTurnBus ==
  ASSUME BusInv, NEW b \in Bots, NEW r \in Rooms, BeginTurn(b, r)
  PROVE  BusInv'
<1> USE DEF BusInv
<1> DEFINE t == [Idle EXCEPT !.room = r, !.step = "setup"]
<1>1. /\ t \in BusTurns /\ t.room = r /\ t.step = "setup" /\ t.text = 0 /\ t.batch = {}
  BY DEF Idle, BusTurns
<1>2. turn' = [turn EXCEPT ![b] = t] /\ UNCHANGED <<mail, box, log, stage, members, rows, handled, trimmed>>
  BY DEF BeginTurn
<1> HIDE DEF t
<1>3. BusTypes'
  BY <1>1, <1>2, BusTurnStep DEF BusTypes
<1>4. StageInv'
  BY <1>2 DEF StageInv, Sent
<1>5. BoxInv'
  BY <1>2, BoxStays
<1>6. TurnInv'
  BY <1>1, <1>2, SentIs, TurnsStay
<1>7. LogInv' /\ RowsInv' /\ Tracked'
  BY <1>2, RowsStay
<1>8. LoadedInv'
  BY <1>1, <1>2, LoadedStays
<1>9. QED
  BY <1>3, <1>4, <1>5, <1>6, <1>7, <1>8

LEMMA FreezeMailboxBus ==
  ASSUME BusInv, NEW b \in Bots, FreezeMailbox(b)
  PROVE  BusInv'
<1> USE DEF BusInv
<1> DEFINE readable == {n \in ToSet(box[b]) : CanReadOrigin(b, turn[b].room, mail[n].room)}
           t == [turn[b] EXCEPT !.step = "run", !.batch = readable]
<1>1. \A n \in readable : /\ n \in Sent /\ mail[n].to = b
                          /\ handled[n].text = 0 /\ handled[n].mailbox = 0
  BY DEF BoxInv, ToSet
<1>2. \A n \in readable : CanReadOrigin(b, turn[b].room, mail[n].room)
  OBVIOUS
<1>3. /\ turn[b].step = "setup" /\ box' = Drained(b, readable)
      /\ turn' = [turn EXCEPT ![b].step = "run", ![b].batch = readable]
      /\ handled' = [n \in Sends |-> IF n \in readable
                                     THEN [handled[n] EXCEPT !.mailbox = @ + 1]
                                     ELSE handled[n]]
      /\ UNCHANGED <<mail, log, stage, members, rows, trimmed>>
  BY DEF FreezeMailbox
<1> HIDE DEF readable
<1>a. turn[b] \in BusTurns
  BY DEF BusTypes
<1>4. /\ t \in BusTurns /\ t.step = "run" /\ t.batch = readable /\ t.text = turn[b].text
      /\ t.room = turn[b].room /\ t.loaded = turn[b].loaded
  <2>1. readable \subseteq Nat
    BY <1>1, SentIs
  <2>2. QED
    BY <1>a, <2>1 DEF BusTurns
<1>5. turn' = [turn EXCEPT ![b] = t]
  BY <1>3
<1> HIDE DEF t
<1>6. /\ handled' \in [Sends -> [text : Nat, mailbox : Nat]]
      /\ \A n \in Sends : handled'[n].text = handled[n].text
      /\ \A n \in Sends : n \in readable => handled'[n].mailbox = handled[n].mailbox + 1
      /\ \A n \in Sends : n \notin readable => handled'[n] = handled[n]
  <2>1. \A n \in Sends : handled[n] \in [text : Nat, mailbox : Nat]
    BY DEF BusTypes
  <2>2. QED
    BY <1>3, <2>1
<1>7. \A n \in Sent : n \in Sends
  BY SentIs
<1>8. box' \in [Bots -> Seq(Nat)] /\ BoxInv'
  BY <1>1, <1>3, <1>6, <1>7, BoxShrinks
<1>9. BusTypes'
  <2>1. turn' \in [Bots -> BusTurns]
    BY <1>4, <1>5, BusTurnStep
  <2>2. QED
    BY <1>3, <1>6, <1>8, <2>1 DEF BusTypes
<1>10. StageInv'
  <2>1. \A n \in Sends : handled'[n].mailbox <= 1
    BY <1>1, <1>6 DEF StageInv
  <2>2. \A n \in Sends : stage[n] = "unsent" => handled'[n].mailbox = 0
    BY <1>1, <1>6 DEF StageInv
  <2>3. QED
    BY <1>3, <1>6, <2>1, <2>2 DEF StageInv, Sent
<1>11. TurnInv'
  <2>1. t.room \in Rooms
    BY <1>3, <1>4 DEF TurnInv
  <2>2. t.text # 0 => t.text \in Sent /\ handled'[t.text].text = 1
    BY <1>4, <1>6, <1>7 DEF TurnInv
  <2>3. t.text \notin t.batch
    BY <1>1, <1>4, SentIs DEF TurnInv
  <2>4. Dm[t.room] = NoBot => \A n \in t.batch : Dm[mail[n].room] = NoBot
    BY <1>2, <1>4 DEF CanReadOrigin
  <2>5. \A n \in Sent : handled[n].text = 1 => handled'[n].text = 1
    BY <1>6, <1>7
  <2>6. t.batch \subseteq Sent /\ t.step # "idle"
    BY <1>1, <1>4
  <2>7. QED
    BY <1>3, <1>4, <1>5, <2>1, <2>2, <2>3, <2>4, <2>5, <2>6, TurnsStay
<1>12. LogInv' /\ RowsInv' /\ Tracked'
  BY <1>3, RowsStay
<1>13. LoadedInv'
  <2>1. t.text # 0 /\ t.loaded =>
            /\ t.room = mail[t.text].room
            /\ MayShow(mail[t.text], t.room) => t.text \in trimmed' \/ RowIn(rows'[t.room], t.text)
    BY <1>3, <1>4 DEF LoadedInv
  <2>2. QED
    BY <1>3, <1>4, <1>5, <2>1, LoadedStays
<1>14. QED
  BY <1>9, <1>10, <1>8, <1>11, <1>12, <1>13

LEMMA RefuseBus ==
  ASSUME BusInv, NEW n \in Sends, Refuse(n)
  PROVE  BusInv'
<1> USE DEF BusInv
<1>1. /\ stage[n] = "wait" /\ stage' = [stage EXCEPT ![n] = "failed"]
      /\ UNCHANGED <<mail, box, log, turn, members, rows, handled, trimmed>>
  BY DEF Refuse
<1>2. /\ stage' \in [Sends -> Stages] /\ stage'[n] = "failed"
      /\ \A m \in Sends : m # n => stage'[m] = stage[m]
  BY <1>1 DEF BusTypes, Stages
<1>3. BusTypes'
  BY <1>1, <1>2 DEF BusTypes
<1>4. StageInv'
  BY <1>1, <1>2 DEF StageInv, Sent
<1>5. BoxInv'
  BY <1>1, BoxStays
<1>6. TurnInv'
  BY <1>1 DEF TurnInv, Sent
<1>7. LogInv' /\ RowsInv' /\ Tracked'
  BY <1>1, RowsStay
<1>8. LoadedInv'
  BY <1>1 DEF LoadedInv
<1>9. QED
  BY <1>3, <1>4, <1>5, <1>6, <1>7, <1>8

LEMMA StopBus ==
  ASSUME BusInv, NEW b \in Bots, Stop(b)
  PROVE  BusInv'
<1> USE DEF BusInv
<1>1. /\ box' = Drained(b, ToSet(box[b]))
      /\ UNCHANGED <<mail, log, stage, turn, members, rows, handled, trimmed>>
  BY DEF Stop
<1>2. \A n \in ToSet(box[b]) : mail[n].to = b
  BY DEF BoxInv, ToSet
<1>3. box' \in [Bots -> Seq(Nat)] /\ BoxInv'
  BY <1>1, <1>2, BoxShrinks
<1>4. BusTypes'
  BY <1>1, <1>3 DEF BusTypes
<1>5. StageInv'
  BY <1>1 DEF StageInv, Sent
<1>6. TurnInv'
  BY <1>1 DEF TurnInv, Sent
<1>7. LogInv' /\ RowsInv' /\ Tracked'
  BY <1>1, RowsStay
<1>8. LoadedInv'
  BY <1>1 DEF LoadedInv
<1>9. QED
  BY <1>3, <1>4, <1>5, <1>6, <1>7, <1>8
LEMMA TurnFailsBus ==
  ASSUME BusInv, NEW b \in Bots, TurnFails(b)
  PROVE  BusInv'
<1> USE DEF BusInv
<1>1. /\ turn' = [turn EXCEPT ![b] = Idle]
      /\ stage' = [n \in Sends |-> IF n = turn[b].text THEN "failed" ELSE stage[n]]
      /\ UNCHANGED <<mail, box, log, members, rows, handled, trimmed>>
  BY DEF TurnFails
<1>2. BusTypes'
  <2>1. stage' \in [Sends -> Stages]
    BY <1>1 DEF BusTypes, Stages
  <2>2. QED
    BY <1>1, <2>1, IdleIs, BusTurnStep DEF BusTypes
<1>3. StageInv'
  <2>1. turn[b].text = 0 \/ (turn[b].text \in Sent /\ handled[turn[b].text].text = 1)
    BY DEF TurnInv
  <2>2. 0 \notin Sends
    BY DEF Sends
  <2>3. QED
    BY <1>1, <2>1, <2>2 DEF StageInv, Sent
<1>4. BoxInv'
  BY <1>1, BoxStays
<1>5. TurnInv'
  BY <1>1, IdleIs, SentIs, TurnsStay
<1>6. LogInv' /\ RowsInv' /\ Tracked'
  BY <1>1, RowsStay
<1>7. LoadedInv'
  BY <1>1, IdleIs, LoadedStays
<1>8. QED
  BY <1>2, <1>3, <1>4, <1>5, <1>6, <1>7

LEMMA FinishTurnBus ==
  ASSUME BusInv, NEW b \in Bots, FinishTurn(b)
  PROVE  BusInv'
<1> USE DEF BusInv
<1> DEFINE r == turn[b].room
<1>1. /\ turn' = [turn EXCEPT ![b] = Idle]
      /\ rows' = [rows EXCEPT ![r] = @ \o BusRows(r)] /\ log' = LogWithout(r)
      /\ UNCHANGED <<mail, box, stage, members, handled, trimmed>>
  BY DEF FinishTurn
<1>2. r \in Rooms
  BY DEF FinishTurn, TurnInv
<1> HIDE DEF r
<1>3. /\ rows' \in [Rooms -> Seq(BusRowType)] /\ log' \in Seq(Nat)
      /\ LogInv' /\ RowsInv' /\ Tracked'
      /\ \A n, q : q \in Rooms /\ RowIn(rows[q], n) => RowIn(rows'[q], n)
  BY <1>1, <1>2, RecordRows
<1>4. BusTypes'
  BY <1>1, <1>3, IdleIs, BusTurnStep DEF BusTypes
<1>5. StageInv'
  BY <1>1 DEF StageInv, Sent
<1>6. BoxInv'
  BY <1>1, BoxStays
<1>7. TurnInv'
  BY <1>1, IdleIs, SentIs, TurnsStay
<1>8. LoadedInv'
  BY <1>1, <1>3, IdleIs, LoadedStays
<1>9. QED
  BY <1>3, <1>4, <1>5, <1>6, <1>7, <1>8

\* The row of an answer, after the rows of its room.
LEMMA AnswerRow ==
  ASSUME BusTypes, LogInv, RowsInv, Tracked, NEW r \in Rooms, NEW n \in Sent,
         MayShow(mail[n], r), n \in trimmed \/ RowIn(rows[r], n),
         rows' = [rows EXCEPT ![r] = Append(@, [kind |-> "result", n |-> n])],
         UNCHANGED <<mail, log, trimmed>>
  PROVE  /\ rows' \in [Rooms -> Seq(BusRowType)]
         /\ LogInv' /\ RowsInv' /\ Tracked'
         /\ \A m, q : q \in Rooms /\ RowIn(rows[q], m) => RowIn(rows'[q], m)
<1> DEFINE old == rows[r]
           x == [kind |-> "result", n |-> n]
           all == Append(old, x)
<1>1. x \in BusRowType /\ x.kind = "result" /\ x.n = n
  BY SentIs DEF BusRowType
<1>2. old \in Seq(BusRowType) /\ DOMAIN old = 1..Len(old) /\ Len(old) \in Nat
  BY LenProperties DEF BusTypes
<1> HIDE DEF x
<1>3. /\ all \in Seq(BusRowType) /\ Len(all) = Len(old) + 1
      /\ \A i \in 1..Len(old) : all[i] = old[i]
      /\ all[Len(old) + 1] = x
  BY <1>1, <1>2, AppendProperties
<1>4. DOMAIN all = 1..(Len(old) + 1)
  BY <1>3, LenProperties
<1>5. /\ rows' \in [Rooms -> Seq(BusRowType)] /\ rows'[r] = all
      /\ \A q \in Rooms : q # r => rows'[q] = rows[q]
  BY <1>3 DEF BusTypes, x
<1>6. Sent' = Sent /\ mail' = mail /\ trimmed' = trimmed /\ log' = log
  BY DEF Sent
<1> HIDE DEF all
<1>7. \A i \in DOMAIN all : (i \in DOMAIN old /\ all[i] = old[i]) \/ (i = Len(old) + 1 /\ all[i] = x)
  BY <1>2, <1>3, <1>4
<1>8. \A m, q : q \in Rooms /\ RowIn(rows[q], m) => RowIn(rows'[q], m)
  <2>1. \A m : RowIn(old, m) => RowIn(all, m)
    BY <1>2, <1>3, <1>4 DEF RowIn
  <2>2. ASSUME NEW m, NEW q \in Rooms, RowIn(rows[q], m)
        PROVE  RowIn(rows'[q], m)
    <3>1. CASE q = r
      BY <1>5, <2>1, <2>2, <3>1
    <3>2. CASE q # r
      <4>1. rows'[q] = rows[q]
        BY <1>5, <3>2
      <4>2. QED
        BY <2>2, <4>1
    <3>3. QED
      BY <3>1, <3>2
  <2>3. QED
    BY <2>2
<1>9. LogInv'
  <2>1. ASSUME NEW q \in Rooms, NEW i \in DOMAIN log, mail[log[i]].room = q,
               NEW j \in DOMAIN rows'[q], rows'[q][j].kind = "bus"
        PROVE  rows'[q][j].n < log[i]
    <3>1. CASE q = r
      BY <1>1, <1>5, <1>7, <2>1, <3>1 DEF LogInv
    <3>2. CASE q # r
      <4>1. rows'[q] = rows[q]
        BY <1>5, <3>2
      <4>2. QED
        BY <2>1, <4>1 DEF LogInv
    <3>3. QED
      BY <3>1, <3>2
  <2>2. QED
    BY <1>6, <2>1 DEF LogInv
<1>10. ASSUME NEW i \in DOMAIN all, NEW j \in DOMAIN all, i < j,
              all[i].kind = "bus", all[j].kind = "bus"
       PROVE  all[i].n < all[j].n
  <2>1. i \in DOMAIN old /\ all[i] = old[i] /\ j \in DOMAIN old /\ all[j] = old[j]
    BY <1>1, <1>7, <1>10
  <2>2. QED
    BY <1>10, <2>1 DEF RowsInv, RowsOf, Sent
<1>11. ASSUME NEW i \in DOMAIN all
       PROVE  /\ all[i].n \in Sent /\ MayShow(mail[all[i].n], r)
              /\ all[i].kind = "result" =>
                    \/ \E j \in 1..(i - 1) : all[j] = BusRow(all[i].n)
                    \/ all[i].n \in trimmed
  <2>1. CASE i \in DOMAIN old /\ all[i] = old[i]
    <3>1. /\ old[i].n \in Sent /\ MayShow(mail[old[i].n], r)
          /\ old[i].kind = "result" =>
                \/ \E j \in 1..(i - 1) : old[j] = BusRow(old[i].n)
                \/ old[i].n \in trimmed
      BY <2>1 DEF RowsInv, RowsOf, Sent
    <3>2. \A j \in 1..(i - 1) : all[j] = old[j]
      <4>1. \A j \in 1..(i - 1) : j \in 1..Len(old)
        BY <1>2, <2>1
      <4>2. QED
        BY <1>3, <4>1 DEF all
    <3>3. QED
      BY <2>1, <3>1, <3>2
  <2>2. CASE i = Len(old) + 1 /\ all[i] = x
    <3>1. RowIn(old, n) => \E j \in 1..(i - 1) : all[j] = BusRow(n)
      <4>1. \A j \in DOMAIN old : j \in 1..(i - 1) /\ all[j] = old[j]
        BY <1>2, <1>3, <2>2 DEF all
      <4>2. QED
        BY <4>1 DEF RowIn
    <3>2. QED
      BY <1>1, <2>2, <3>1
  <2>3. QED
    BY <1>7, <2>1, <2>2
<1>12. RowsInv'
  <2>1. RowsOf(all, r, mail, trimmed)
    BY <1>10, <1>11 DEF RowsOf, Sent
  <2>2. QED
    BY <1>5, <1>6, <2>1, RowsReplaced
<1>13. Tracked'
  <2>1. \A m \in Sent : mail[m].room \in Rooms
    BY SentIs DEF Envelopes
  <2>2. QED
    BY <1>6, <1>8, <2>1 DEF Tracked
<1>14. QED
  BY <1>5, <1>8, <1>9, <1>12, <1>13

LEMMA FinishDeliveryBus ==
  ASSUME BusInv, NEW b \in Bots, FinishDelivery(b)
  PROVE  BusInv'
<1> USE DEF BusInv
<1> DEFINE n == turn[b].text
           r == turn[b].room
<1>1. /\ turn' = [turn EXCEPT ![b] = Idle]
      /\ stage' = [stage EXCEPT ![n] = "answered"]
      /\ rows' = IF turn[b].loaded /\ MayShow(mail[n], r)
                 THEN [rows EXCEPT ![r] = Append(@, [kind |-> "result", n |-> n])]
                 ELSE rows
      /\ UNCHANGED <<mail, box, log, members, handled, trimmed>>
  BY DEF FinishDelivery, Shown, MayShow
<1>2. n \in Sent /\ handled[n].text = 1 /\ r \in Rooms /\ n \in Sends
  BY SentIs DEF FinishDelivery, TurnInv
<1>3. turn[b].loaded /\ MayShow(mail[n], r) => n \in trimmed \/ RowIn(rows[r], n)
  BY DEF FinishDelivery, LoadedInv
<1> HIDE DEF n, r
<1>4. /\ rows' \in [Rooms -> Seq(BusRowType)]
      /\ LogInv' /\ RowsInv' /\ Tracked'
      /\ \A m, q : q \in Rooms /\ RowIn(rows[q], m) => RowIn(rows'[q], m)
  <2>1. CASE turn[b].loaded /\ MayShow(mail[n], r)
    BY <1>1, <1>2, <1>3, <2>1, AnswerRow
  <2>2. CASE ~(turn[b].loaded /\ MayShow(mail[n], r))
    <3>1. rows' = rows
      BY <1>1, <2>2
    <3>2. QED
      BY <1>1, <3>1, RowsStay DEF BusTypes
  <2>3. QED
    BY <2>1, <2>2
<1>5. /\ stage' \in [Sends -> Stages] /\ stage'[n] = "answered"
      /\ \A m \in Sends : m # n => stage'[m] = stage[m]
  BY <1>1, <1>2 DEF BusTypes, Stages
<1>6. BusTypes'
  BY <1>1, <1>4, <1>5, IdleIs, BusTurnStep DEF BusTypes
<1>7. StageInv'
  BY <1>1, <1>2, <1>5 DEF StageInv, Sent
<1>8. BoxInv'
  BY <1>1, BoxStays
<1>9. TurnInv'
  BY <1>1, IdleIs, SentIs, TurnsStay
<1>10. LoadedInv'
  BY <1>1, <1>4, IdleIs, LoadedStays
<1>11. QED
  BY <1>4, <1>6, <1>7, <1>8, <1>9, <1>10

LEMMA DeliverBus ==
  ASSUME BusInv, NEW n \in DOMAIN mail, NEW loaded \in BOOLEAN, Deliver(n, loaded)
  PROVE  BusInv'
<1> USE DEF BusInv
<1> DEFINE b == mail[n].to
           r == mail[n].room
           t == [room |-> r, step |-> "setup", text |-> n,
                 batch |-> {}, trace |-> mail[n].trace, loaded |-> loaded]
<1>1. /\ n \in Sent /\ n \in Sends /\ n \in Nat /\ n # 0
      /\ b \in Bots /\ r \in Rooms /\ mail[n].trace \in Nat
  BY SentIs DEF Sent, Envelopes
<1>2. /\ stage[n] = "wait" /\ turn[b] = Idle
      /\ stage' = [stage EXCEPT ![n] = "run"]
      /\ box' = Take(n)
      /\ members' = IF loaded THEN Promoted(b, r) ELSE members
      /\ rows' = IF loaded THEN [rows EXCEPT ![r] = @ \o BusRows(r)] ELSE rows
      /\ log' = IF loaded THEN LogWithout(r) ELSE log
      /\ turn' = [turn EXCEPT ![b] = t]
      /\ handled' = [handled EXCEPT ![n].text = @ + 1]
      /\ UNCHANGED <<mail, trimmed>>
  BY DEF Deliver
<1>3. box' = Drained(b, {n})
  BY <1>2 DEF Take, Drained
<1>4. /\ t \in BusTurns /\ t.room = r /\ t.step = "setup" /\ t.text = n /\ t.batch = {}
      /\ t.loaded = loaded
  BY <1>1 DEF BusTurns
<1> HIDE DEF b, r, t
<1>5. handled[n].text = 0
  BY <1>1, <1>2 DEF StageInv
<1>6. /\ handled' \in [Sends -> [text : Nat, mailbox : Nat]]
      /\ handled'[n].text = 1 /\ handled'[n].mailbox = handled[n].mailbox
      /\ \A m \in Sends : m # n => handled'[m] = handled[m]
  <2>1. handled[n] \in [text : Nat, mailbox : Nat]
    BY <1>1 DEF BusTypes
  <2>2. handled' = [handled EXCEPT ![n] = [handled[n] EXCEPT !.text = handled[n].text + 1]]
    BY <1>2
  <2>3. QED
    BY <1>1, <1>5, <2>1, <2>2 DEF BusTypes
<1>7. \A m \in Sent : m \in Sends
  BY SentIs
<1>8. box' \in [Bots -> Seq(Nat)] /\ BoxInv'
  <2>1. \A m \in {n} : m \in Sent => mail[m].to = b
    BY DEF b
  <2>2. \A m \in Sent : m \notin {n} => handled'[m] = handled[m]
    BY <1>6, <1>7
  <2>3. QED
    BY <1>1, <1>2, <1>3, <2>1, <2>2, BoxShrinks
<1>9. /\ rows' \in [Rooms -> Seq(BusRowType)] /\ log' \in Seq(Nat)
      /\ LogInv' /\ RowsInv' /\ Tracked'
      /\ \A m, q : q \in Rooms /\ RowIn(rows[q], m) => RowIn(rows'[q], m)
      /\ loaded => \A m \in Sent : mail[m].room = r /\ MayShow(mail[m], r)
                                     => m \in trimmed \/ RowIn(rows'[r], m)
  <2>1. CASE loaded
    BY <1>1, <1>2, <2>1, RecordRows
  <2>2. CASE ~loaded
    <3>1. rows' = rows /\ log' = log
      BY <1>2, <2>2
    <3>2. QED
      BY <1>2, <2>2, <3>1, RowsStay DEF BusTypes
  <2>3. QED
    BY <2>1, <2>2
<1>10. members' \in [Rooms -> SUBSET Bots]
  BY <1>1, <1>2 DEF BusTypes, Promoted
<1>11. /\ stage' \in [Sends -> Stages] /\ stage'[n] = "run"
       /\ \A m \in Sends : m # n => stage'[m] = stage[m]
  BY <1>1, <1>2 DEF BusTypes, Stages
<1>12. BusTypes'
  BY <1>1, <1>2, <1>4, <1>6, <1>8, <1>9, <1>10, <1>11, BusTurnStep DEF BusTypes
<1>13. StageInv'
  BY <1>1, <1>2, <1>6, <1>11 DEF StageInv, Sent
<1>14. TurnInv'
  <2>1. \A m \in Sent : handled[m].text = 1 => handled'[m].text = 1
    BY <1>6, <1>7
  <2>2. QED
    BY <1>1, <1>2, <1>4, <1>6, <2>1, TurnsStay
<1>15. LoadedInv'
  <2>1. t.text # 0 /\ t.loaded =>
            /\ t.room = mail[t.text].room
            /\ MayShow(mail[t.text], t.room) => t.text \in trimmed' \/ RowIn(rows'[t.room], t.text)
    BY <1>1, <1>2, <1>4, <1>9 DEF r
  <2>2. QED
    BY <1>1, <1>2, <1>4, <1>9, <2>1, LoadedStays
<1>16. QED
  BY <1>8, <1>9, <1>12, <1>13, <1>14, <1>15
LEMMA SendBus ==
  ASSUME BusInv, NEW b \in Bots, NEW to \in Bots, NEW r \in Rooms, Send(b, to, r)
  PROVE  BusInv'
<1> USE DEF BusInv
<1> DEFINE n == Len(mail) + 1
           t == IF turn[b].trace = 0 THEN n ELSE turn[b].trace
           e == [sender |-> b, to |-> to, room |-> r, trace |-> t]
           u == [turn[b] EXCEPT !.trace = t]
           more == Append(log, n)
<1>1. /\ turn[b].step = "run" /\ n <= MaxSends
      /\ mail' = Append(mail, e)
      /\ box' = [box EXCEPT ![to] = Append(@, n)]
      /\ log' = Keep(more, LogMax)
      /\ trimmed' = trimmed \cup (ToSet(more) \ ToSet(log'))
      /\ stage' = [stage EXCEPT ![n] = "wait"]
      /\ turn' = [turn EXCEPT ![b].trace = t]
      /\ UNCHANGED <<members, rows, handled>>
  BY DEF Send
<1>2. /\ n \in Nat /\ n \in Sends /\ n \notin Sent
      /\ \A m \in Sent : m < n /\ m \in Nat /\ m \in Sends
      /\ Sent = 1..Len(mail) /\ Len(mail) \in Nat
  <2>1. MaxSends \in Nat
    BY BotBusAssumption
  <2>2. QED
    BY <1>1, <2>1, SentIs DEF Sends
<1>3. /\ turn[b] \in BusTurns /\ t \in Nat
  BY <1>2 DEF BusTypes, BusTurns
<1>4. /\ e \in Envelopes /\ e.to = to /\ e.room = r
  BY <1>3 DEF Envelopes
<1>5. /\ u \in BusTurns /\ u.room = turn[b].room /\ u.step = turn[b].step
      /\ u.text = turn[b].text /\ u.batch = turn[b].batch /\ u.loaded = turn[b].loaded
  BY <1>3 DEF BusTurns
<1>6. turn' = [turn EXCEPT ![b] = u]
  BY <1>1
<1> HIDE DEF e, u, t
<1>7. /\ mail' \in Seq(Envelopes) /\ Len(mail') = n
      /\ \A m \in Sent : mail'[m] = mail[m]
      /\ mail'[n] = e
  BY <1>1, <1>2, <1>4, AppendProperties DEF BusTypes
<1>8. Sent' = Sent \cup {n}
  <2>1. Sent' = 1..n
    BY <1>7, LenProperties DEF Sent
  <2>2. QED
    BY <1>2, <2>1
<1>9. stage[n] = "unsent" /\ handled[n].text = 0 /\ handled[n].mailbox = 0
  BY <1>2 DEF StageInv
\* The log, with the new envelope and then cut.
<1> HIDE DEF n
<1>10. /\ more \in Seq(Nat) /\ Len(more) = Len(log) + 1 /\ Len(log) \in Nat
       /\ DOMAIN more = 1..(Len(log) + 1) /\ DOMAIN log = 1..Len(log)
       /\ \A i \in 1..Len(log) : more[i] = log[i]
       /\ more[Len(log) + 1] = n
  <2>1. log \in Seq(Nat)
    BY DEF BusTypes
  <2>2. Len(log) \in Nat /\ DOMAIN log = 1..Len(log)
    BY <2>1, LenProperties
  <2>3. /\ more \in Seq(Nat) /\ Len(more) = Len(log) + 1
        /\ \A i \in 1..Len(log) : more[i] = log[i]
        /\ more[Len(log) + 1] = n
    BY <1>2, <2>1, AppendProperties
  <2>4. DOMAIN more = 1..(Len(log) + 1)
    BY <2>3, LenProperties
  <2> HIDE DEF more
  <2>5. QED
    BY <2>2, <2>3, <2>4
<1> HIDE DEF more
<1>11. /\ \A i \in DOMAIN more : \/ i \in DOMAIN log /\ more[i] = log[i]
                                 \/ i = Len(log) + 1 /\ more[i] = n
       /\ \A i \in DOMAIN log : i \in DOMAIN more /\ more[i] = log[i]
       /\ Len(log) + 1 \in DOMAIN more /\ more[Len(log) + 1] = n
  BY <1>10
<1>12. \A i, j \in DOMAIN more : i < j => more[i] < more[j]
  <2> SUFFICES ASSUME NEW i \in DOMAIN more, NEW j \in DOMAIN more, i < j
               PROVE  more[i] < more[j]
    OBVIOUS
  <2>1. i \in DOMAIN log /\ more[i] = log[i] /\ log[i] \in Sent
    BY <1>10, <1>11 DEF LogInv
  <2>2. CASE j \in DOMAIN log /\ more[j] = log[j]
    BY <2>1, <2>2 DEF LogInv
  <2>3. CASE more[j] = n
    BY <1>2, <2>1, <2>3
  <2>4. QED
    BY <1>11, <2>2, <2>3
<1>13. log' \in Seq(Nat)
       /\ \E d \in Nat : \A i \in DOMAIN log' : i + d \in DOMAIN more /\ log'[i] = more[i + d]
  <2>1. LogMax \in Nat \ {0}
    BY BotBusAssumption
  <2>2. more \in Seq(Nat) /\ log' = Keep(more, LogMax)
    BY <1>1, <1>10
  <2>3. QED
    BY <2>1, <2>2, KeepIs
<1>14. DOMAIN log' \subseteq Nat
  BY <1>13, LenProperties
<1>15. \A i, j \in DOMAIN log' : i < j => log'[i] < log'[j]
  <2>1. PICK d \in Nat : \A i \in DOMAIN log' : i + d \in DOMAIN more /\ log'[i] = more[i + d]
    BY <1>13
  <2>2. \A i, j \in DOMAIN log' : i < j => i + d < j + d
    BY <1>14
  <2>3. QED
    BY <1>12, <2>1, <2>2
<1>16. \A i \in DOMAIN log' : log'[i] = n \/ \E k \in DOMAIN log : log'[i] = log[k]
  <2>1. \A i \in DOMAIN log' : \E k \in DOMAIN more : log'[i] = more[k]
    BY <1>13
  <2>2. QED
    BY <1>11, <2>1
<1>17. \A i \in DOMAIN more : (\E k \in DOMAIN log' : log'[k] = more[i]) \/ more[i] \in trimmed'
  BY <1>1 DEF ToSet
<1>18. trimmed \subseteq trimmed' /\ trimmed' \subseteq Nat
  <2>1. ToSet(more) \subseteq Nat
    BY <1>10, ElementOfSeq, LenProperties DEF ToSet
  <2>2. QED
    BY <1>1, <2>1 DEF BusTypes
\* The mailbox of the recipient.
<1>19. /\ box' \in [Bots -> Seq(Nat)] /\ box'[to] = Append(box[to], n)
       /\ \A c \in Bots : c # to => box'[c] = box[c]
  <2>1. box[to] \in Seq(Nat)
    BY DEF BusTypes
  <2>2. Append(box[to], n) \in Seq(Nat)
    BY <1>2, <2>1, AppendProperties
  <2>3. QED
    BY <1>1, <2>2 DEF BusTypes
<1>20. /\ DOMAIN box'[to] = 1..(Len(box[to]) + 1) /\ DOMAIN box[to] = 1..Len(box[to])
       /\ Len(box[to]) \in Nat
       /\ \A i \in 1..Len(box[to]) : box'[to][i] = box[to][i]
       /\ box'[to][Len(box[to]) + 1] = n
  <2>1. box[to] \in Seq(Nat)
    BY DEF BusTypes
  <2>2. /\ Len(box'[to]) = Len(box[to]) + 1
        /\ \A i \in 1..Len(box[to]) : box'[to][i] = box[to][i]
        /\ box'[to][Len(box[to]) + 1] = n
    BY <1>2, <1>19, <2>1, AppendProperties
  <2>3. box'[to] \in Seq(Nat)
    BY <1>19
  <2>4. QED
    BY <2>1, <2>2, <2>3, LenProperties
<1>21. BoxInv'
  <2>1. ASSUME NEW c \in Bots, NEW i \in DOMAIN box'[c]
        PROVE  \/ i \in DOMAIN box[c] /\ box'[c][i] = box[c][i]
               \/ c = to /\ i = Len(box[to]) + 1 /\ box'[c][i] = n
    <3>1. CASE c = to
      BY <1>20, <3>1
    <3>2. CASE c # to
      <4>1. box'[c] = box[c]
        BY <1>19, <3>2
      <4>2. QED
        BY <4>1
    <3>3. QED
      BY <3>1, <3>2
  <2>2. ASSUME NEW c \in Bots, NEW i \in DOMAIN box'[c]
        PROVE  /\ box'[c][i] \in Sent' /\ mail'[box'[c][i]].to = c
               /\ handled'[box'[c][i]].text = 0 /\ handled'[box'[c][i]].mailbox = 0
    <3>1. CASE i \in DOMAIN box[c] /\ box'[c][i] = box[c][i]
      <4>1. /\ box[c][i] \in Sent /\ mail[box[c][i]].to = c
            /\ handled[box[c][i]].text = 0 /\ handled[box[c][i]].mailbox = 0
        BY <3>1 DEF BoxInv
      <4>2. handled' = handled
        BY <1>1
      <4>3. QED
        BY <1>7, <1>8, <3>1, <4>1, <4>2
    <3>2. CASE c = to /\ box'[c][i] = n
      BY <1>1, <1>4, <1>7, <1>8, <1>9, <3>2
    <3>3. QED
      BY <2>1, <3>1, <3>2
  <2>3. ASSUME NEW c \in Bots, NEW i \in DOMAIN box'[c], NEW j \in DOMAIN box'[c], i < j
        PROVE  box'[c][i] < box'[c][j]
    <3>1. CASE c # to
      <4>1. box'[c] = box[c]
        BY <1>19, <3>1
      <4>2. QED
        BY <2>3, <4>1 DEF BoxInv
    <3>2. CASE c = to
      <4>1. i \in DOMAIN box[to] /\ box'[to][i] = box[to][i] /\ box[to][i] \in Sent
        BY <1>20, <2>3, <3>2 DEF BoxInv
      <4>2. CASE j \in DOMAIN box[to] /\ box'[to][j] = box[to][j]
        BY <2>3, <3>2, <4>1, <4>2 DEF BoxInv
      <4>3. CASE box'[to][j] = n
        BY <1>2, <3>2, <4>1, <4>3
      <4>4. QED
        BY <2>1, <3>2, <4>2, <4>3
    <3>3. QED
      BY <3>1, <3>2
  <2>4. QED
    BY <2>2, <2>3 DEF BoxInv
\* The rest.
<1>22. /\ stage' \in [Sends -> Stages] /\ stage'[n] = "wait"
       /\ \A m \in Sends : m # n => stage'[m] = stage[m]
  BY <1>1, <1>2 DEF BusTypes, Stages
<1>23. BusTypes'
  <2>1. turn' \in [Bots -> BusTurns]
    BY <1>5, <1>6, BusTurnStep
  <2>2. Len(mail') <= MaxSends /\ members' = members /\ rows' = rows /\ handled' = handled
    BY <1>1, <1>7
  <2>3. QED
    BY <1>7, <1>13, <1>18, <1>19, <1>22, <2>1, <2>2 DEF BusTypes
<1>24. StageInv'
  BY <1>1, <1>2, <1>8, <1>9, <1>22 DEF StageInv
<1>25. TurnInv'
  <2>1. turn'[b] = u /\ \A c \in Bots : c # b => turn'[c] = turn[c]
    BY <1>5, <1>6, BusTurnStep
  <2>2. \A c \in Bots : /\ turn'[c].room = turn[c].room /\ turn'[c].step = turn[c].step
                        /\ turn'[c].text = turn[c].text /\ turn'[c].batch = turn[c].batch
    BY <1>5, <2>1
  <2>3. \A c \in Bots : \A m \in turn[c].batch : mail'[m] = mail[m]
    BY <1>7 DEF TurnInv
  <2>4. handled' = handled
    BY <1>1
  <2>5. ASSUME NEW c \in Bots
        PROVE  /\ turn'[c].step # "idle" => turn'[c].room \in Rooms
               /\ turn'[c].step = "idle" => turn'[c].text = 0
               /\ turn'[c].text # 0 => turn'[c].text \in Sent' /\ handled'[turn'[c].text].text = 1
               /\ turn'[c].text \notin turn'[c].batch
               /\ turn'[c].batch \subseteq Sent'
               /\ turn'[c].batch # {} => turn'[c].room \in Rooms
    BY <1>8, <2>2, <2>4 DEF TurnInv
  <2>6. ASSUME NEW c \in Bots, turn'[c].room \in Rooms, Dm[turn'[c].room] = NoBot,
               NEW m \in turn'[c].batch
        PROVE  Dm[mail'[m].room] = NoBot
    BY <2>2, <2>3, <2>6 DEF TurnInv
  <2>7. QED
    BY <2>5, <2>6 DEF TurnInv
<1>26. LogInv'
  <2>1. \A i \in DOMAIN log' : log'[i] \in Sent'
    BY <1>8, <1>16 DEF LogInv
  <2>2. ASSUME NEW q \in Rooms, NEW i \in DOMAIN log', mail'[log'[i]].room = q,
               NEW j \in DOMAIN rows[q], rows[q][j].kind = "bus"
        PROVE  rows[q][j].n < log'[i]
    <3>1. CASE log'[i] = n
      BY <1>2, <3>1 DEF RowsInv, RowsOf, Sent
    <3>2. CASE \E k \in DOMAIN log : log'[i] = log[k]
      BY <1>7, <2>2, <3>2 DEF LogInv
    <3>3. QED
      BY <1>16, <3>1, <3>2
  <2>3. QED
    BY <1>1, <1>15, <2>1, <2>2 DEF LogInv
<1>27. RowsInv'
  <2>1. \A q \in Rooms : \A i \in DOMAIN rows[q] : mail'[rows[q][i].n] = mail[rows[q][i].n]
    BY <1>7 DEF RowsInv, RowsOf, Sent
  <2>2. QED
    BY <1>1, <1>8, <1>18, <2>1 DEF RowsInv, RowsOf, Sent
<1>28. Tracked'
  <2>1. ASSUME NEW m \in Sent', MayShow(mail'[m], mail'[m].room)
        PROVE  (\E i \in DOMAIN log' : log'[i] = m) \/ m \in trimmed' \/ RowIn(rows'[mail'[m].room], m)
    <3>1. CASE m = n
      BY <1>11, <1>17, <3>1
    <3>2. CASE m \in Sent
      <4>1. mail'[m] = mail[m]
        BY <1>7, <3>2
      <4>2. (\E i \in DOMAIN log : log[i] = m) \/ m \in trimmed \/ RowIn(rows[mail[m].room], m)
        BY <2>1, <3>2, <4>1 DEF Tracked
      <4>3. (\E i \in DOMAIN log : log[i] = m)
               => (\E i \in DOMAIN log' : log'[i] = m) \/ m \in trimmed'
        BY <1>11, <1>17
      <4>4. QED
        BY <1>1, <1>18, <4>1, <4>2, <4>3
    <3>3. QED
      BY <1>8, <3>1, <3>2
  <2>2. QED
    BY <2>1 DEF Tracked
<1>29. LoadedInv'
  <2>1. turn'[b] = u /\ \A c \in Bots : c # b => turn'[c] = turn[c]
    BY <1>5, <1>6, BusTurnStep
  <2>2. \A c \in Bots : /\ turn'[c].room = turn[c].room /\ turn'[c].loaded = turn[c].loaded
                        /\ turn'[c].text = turn[c].text
    BY <1>5, <2>1
  <2>3. \A c \in Bots : turn[c].text # 0 => mail'[turn[c].text] = mail[turn[c].text]
    BY <1>7 DEF TurnInv
  <2>4. rows' = rows
    BY <1>1
  <2>5. ASSUME NEW c \in Bots, turn'[c].text # 0, turn'[c].loaded
        PROVE  /\ turn'[c].room = mail'[turn'[c].text].room
               /\ MayShow(mail'[turn'[c].text], turn'[c].room) =>
                    turn'[c].text \in trimmed' \/ RowIn(rows'[turn'[c].room], turn'[c].text)
    <3>1. /\ turn[c].text # 0 /\ turn[c].loaded
          /\ turn'[c].text = turn[c].text /\ turn'[c].room = turn[c].room
      BY <2>2, <2>5
    <3>2. mail'[turn[c].text] = mail[turn[c].text]
      BY <2>3, <3>1
    <3>3. /\ turn[c].room = mail[turn[c].text].room
          /\ MayShow(mail[turn[c].text], turn[c].room) =>
               turn[c].text \in trimmed \/ RowIn(rows[turn[c].room], turn[c].text)
      BY <3>1 DEF LoadedInv
    <3>4. QED
      BY <1>18, <2>4, <3>1, <3>2, <3>3
  <2>6. QED
    BY <2>5 DEF LoadedInv
<1>30. QED
  BY <1>21, <1>23, <1>24, <1>25, <1>26, <1>27, <1>28, <1>29

-----------------------------------------------------------------------------
(* The theorem                                                             *)

LEMMA BusStep == BusInv /\ [BusNext]_busVars => BusInv'
<1> SUFFICES ASSUME BusInv, [BusNext]_busVars PROVE BusInv'
  OBVIOUS
<1>1. CASE \E b \in Bots, r \in Rooms : BeginTurn(b, r)
  BY <1>1, BeginTurnBus
<1>2. CASE \E b \in Bots : FreezeMailbox(b)
  BY <1>2, FreezeMailboxBus
<1>3. CASE \E b, to \in Bots, r \in Rooms : Send(b, to, r)
  BY <1>3, SendBus
<1>4. CASE \E n \in Sends : Refuse(n)
  BY <1>4, RefuseBus
<1>5. CASE \E n \in DOMAIN mail, loaded \in BOOLEAN : Deliver(n, loaded)
  BY <1>5, DeliverBus
<1>6. CASE \E b \in Bots : TurnFails(b)
  BY <1>6, TurnFailsBus
<1>7. CASE \E b \in Bots : FinishDelivery(b)
  BY <1>7, FinishDeliveryBus
<1>8. CASE \E b \in Bots : FinishTurn(b)
  BY <1>8, FinishTurnBus
<1>9. CASE \E b \in Bots : Stop(b)
  BY <1>9, StopBus
<1>10. CASE UNCHANGED busVars
  <2>1. UNCHANGED <<mail, box, log, stage, turn, members, rows, handled, trimmed>>
    BY <1>10 DEF busVars
  <2>2. BusTypes' /\ StageInv'
    BY <2>1 DEF BusInv, BusTypes, StageInv, Sent
  <2>3. BoxInv' /\ TurnInv'
    BY <2>1 DEF BusInv, BoxInv, TurnInv, Sent
  <2>4. LogInv' /\ RowsInv' /\ Tracked'
    BY <2>1, RowsStay DEF BusInv
  <2>5. LoadedInv'
    BY <2>1 DEF BusInv, LoadedInv
  <2>6. QED
    BY <2>2, <2>3, <2>4, <2>5 DEF BusInv
<1>11. QED
  BY <1>1, <1>2, <1>3, <1>4, <1>5, <1>6, <1>7, <1>8, <1>9, <1>10 DEF BusNext

LEMMA BusInvIsSafe == BusInv => BusSafe
<1> SUFFICES ASSUME BusInv PROVE BusSafe
  OBVIOUS
<1> USE DEF BusInv
<1>1. HandledOnce
  BY DEF HandledOnce, StageInv, TurnInv
<1>2. MailboxInOrder
  BY DEF MailboxInOrder, BoxInv, ToSet
<1>3. DmIsPrivate
  <2>1. \A b \in Bots, n \in Sends :
           n \in turn[b].batch /\ Dm[turn[b].room] = NoBot => Dm[mail[n].room] = NoBot
    BY DEF TurnInv
  <2>2. \A r \in Rooms : Dm[r] # NoBot =>
          \A x \in ToSet(rows[r]) : Dm[r] \in {mail[x.n].sender, mail[x.n].to}
    BY DEF RowsInv, RowsOf, Sent, MayShow, ToSet
  <2>3. QED
    BY <2>1, <2>2 DEF DmIsPrivate
<1>4. ASSUME NEW r \in Rooms, NEW i \in DOMAIN rows[r], rows[r][i].kind = "result"
      PROVE  \/ \E j \in 1..(i - 1) : rows[r][j] = [kind |-> "bus", n |-> rows[r][i].n]
             \/ rows[r][i].n \in trimmed
  BY <1>4 DEF RowsInv, RowsOf, Sent, BusRow
<1>5. ASSUME NEW r \in Rooms, NEW x \in ToSet(rows[r]), x.n \notin trimmed
      PROVE  x \in PairThread(mail[x.n].sender, mail[x.n].to)
  <2>1. PICK i \in DOMAIN rows[r] : x = rows[r][i]
    BY DEF ToSet
  <2>2. rows[r] \in Seq(BusRowType) /\ DOMAIN rows[r] = 1..Len(rows[r]) /\ Len(rows[r]) \in Nat
    BY LenProperties DEF BusTypes
  <2>3. x.kind \in {"bus", "result"}
    <3>1. x \in BusRowType
      BY <2>1, <2>2, ElementOfSeq
    <3>2. QED
      BY <3>1 DEF BusRowType
  <2>4. CASE x.kind = "bus"
    BY <1>5, <2>4 DEF ExchangeRows, PairThread
  <2>5. CASE x.kind = "result"
    <3>1. PICK j \in 1..(i - 1) : rows[r][j] = [kind |-> "bus", n |-> x.n]
      BY <1>4, <1>5, <2>1, <2>5
    <3>2. j \in DOMAIN rows[r]
      BY <2>1, <2>2
    <3>3. \E y \in ToSet(rows[r]) : y.kind = "bus" /\ y.n = x.n
      BY <3>1, <3>2 DEF ToSet
    <3>4. x \in ExchangeRows(rows[r])
      BY <3>3 DEF ExchangeRows
    <3>5. QED
      BY <3>4 DEF PairThread
  <2>6. QED
    BY <2>3, <2>4, <2>5
<1>6. ThreadIsWhole
  BY <1>4, <1>5 DEF ThreadIsWhole, RowsInv, RowsOf, Sent
<1>7. QED
  BY <1>1, <1>2, <1>3, <1>6 DEF BusSafe

\* An envelope is the text of one turn and mailbox context of one turn at the
\* most, mailboxes are first in, first out, a room shows each exchange whole
\* and in order, and a DM's mail stays within the DM's rule (bots/bus.py,
\* app/a2a_delivery.py).
THEOREM MailIsSafe == BusSpec => []BusSafe
<1>1. BusInit => BusInv
  BY InitBus
<1>2. BusInv /\ [BusNext]_busVars => BusInv'
  BY BusStep
<1>3. BusInv => BusSafe
  BY BusInvIsSafe
<1>4. QED
  BY <1>1, <1>2, <1>3, PTL DEF BusSpec

-----------------------------------------------------------------------------
(***************************************************************************)
(* The bus implements BotMail, for any bots, rooms and bounds.             *)
(*                                                                         *)
(* What BusInv does not say is that an envelope that is the text of a turn *)
(* is still to be settled, and that it is for the bot whose turn it is     *)
(* (DeskInv): so no two turns answer one envelope, and none answers one    *)
(* that was refused.                                                       *)
(***************************************************************************)
DeskInv ==
    \A b \in Bots : turn[b].text # 0 =>
        stage[turn[b].text] = "run" /\ mail[turn[b].text].to = b

\* What the mapping makes of the variables.
Letters == [n \in DOMAIN mail |-> [sender |-> mail[n].sender, to |-> mail[n].to]]
Queues == [b \in Bots |-> ToSet(box[b])]
Desk == [b \in Bots |-> turn[b].text]
Seen == {n \in Sends : handled[n].mailbox > 0}

\* Taking some out of a mailbox takes these out of the set of what it holds.
LEMMA MailboxHolds ==
  ASSUME NEW s \in Seq(Nat), NEW ns
  PROVE  ToSet(Without(s, ns)) = ToSet(s) \ ns
<1> DEFINE P == {i \in DOMAIN s : s[i] \notin ns}
<1>1. P \in SUBSET DOMAIN s
  OBVIOUS
<1>2. \A j \in DOMAIN KeptAt(s, P) : Nth(P, j) \in P /\ KeptAt(s, P)[j] = s[Nth(P, j)]
  BY <1>1, KeptIsSeq
<1>3. \A i \in P : \E j \in DOMAIN KeptAt(s, P) : KeptAt(s, P)[j] = s[i]
  BY <1>1, KeptHasAll
<1>4. Without(s, ns) = KeptAt(s, P)
  BY DEF Without
<1>5. \A n : n \in ToSet(KeptAt(s, P)) <=> n \in ToSet(s) \ ns
  BY <1>2, <1>3 DEF ToSet
<1>6. QED
  BY <1>4, <1>5

\* A list that is given as a function.
LEMMA ListIs ==
  ASSUME NEW S, NEW n \in Nat, NEW f \in [1..n -> S]
  PROVE  f \in Seq(S) /\ Len(f) = n
<1>1. f \in Seq(S)
  BY SeqDef
<1>2. QED
  BY <1>1, LenProperties

\* The desks, when the turn of b is replaced.
LEMMA DeskStep ==
  ASSUME BusTypes, NEW b \in Bots, NEW t \in BusTurns, turn' = [turn EXCEPT ![b] = t]
  PROVE  Desk' = [Desk EXCEPT ![b] = t.text]
BY BusTurnStep DEF Desk

\* The queues, when ns leaves the mailbox of b, ...
LEMMA QueueShrinks ==
  ASSUME BusTypes, NEW b \in Bots, NEW ns, box' = Drained(b, ns)
  PROVE  Queues' = [Queues EXCEPT ![b] = @ \ ns]
<1>1. ToSet(Without(box[b], ns)) = ToSet(box[b]) \ ns
  BY MailboxHolds DEF BusTypes
<1>2. \A c \in Bots : box'[c] = IF c = b THEN Without(box[b], ns) ELSE box[c]
  BY DEF BusTypes, Drained
<1>3. \A c \in Bots : ToSet(box'[c]) = IF c = b THEN ToSet(box[b]) \ ns ELSE ToSet(box[c])
  BY <1>1, <1>2
<1>4. QED
  BY <1>3 DEF Queues

\* ... and when it gets one more.
LEMMA QueueGrows ==
  ASSUME BusTypes, NEW b \in Bots, NEW n \in Nat, box' = [box EXCEPT ![b] = Append(@, n)]
  PROVE  Queues' = [Queues EXCEPT ![b] = @ \cup {n}]
<1> DEFINE s == box[b]
<1>1. s \in Seq(Nat) /\ Len(s) \in Nat /\ DOMAIN s = 1..Len(s)
  BY LenProperties DEF BusTypes
<1>2. /\ Append(s, n) \in Seq(Nat) /\ Len(Append(s, n)) = Len(s) + 1
      /\ \A i \in 1..Len(s) : Append(s, n)[i] = s[i]
      /\ Append(s, n)[Len(s) + 1] = n
  BY <1>1, AppendProperties
<1>3. DOMAIN Append(s, n) = 1..(Len(s) + 1)
  BY <1>2, LenProperties
<1>4. ToSet(Append(s, n)) = ToSet(s) \cup {n}
  <2> DEFINE more == Append(s, n)
  <2> HIDE DEF more, s
  <2>1. \A i \in DOMAIN more : (i \in DOMAIN s /\ more[i] = s[i]) \/ more[i] = n
    BY <1>1, <1>2, <1>3 DEF more
  <2>2. \A i \in DOMAIN s : i \in DOMAIN more /\ more[i] = s[i]
    BY <1>1, <1>2, <1>3 DEF more
  <2>3. Len(s) + 1 \in DOMAIN more /\ more[Len(s) + 1] = n
    BY <1>1, <1>2, <1>3 DEF more
  <2>4. \A m : m \in ToSet(more) <=> m \in ToSet(s) \cup {n}
    BY <2>1, <2>2, <2>3 DEF ToSet
  <2>5. QED
    BY <2>4 DEF more
<1>5. \A c \in Bots : box'[c] = IF c = b THEN Append(s, n) ELSE box[c]
  BY DEF BusTypes
<1> HIDE DEF s
<1>6. \A c \in Bots : ToSet(box'[c]) = IF c = b THEN ToSet(s) \cup {n} ELSE ToSet(box[c])
  BY <1>4, <1>5
<1>7. QED
  BY <1>6 DEF Queues, s

\* Nobody gets another letter to answer: neither the desks nor the ends of
\* the letters on them change.
LEMMA DesksStay ==
  ASSUME BusInv, DeskInv, UNCHANGED mail, Desk' = Desk,
         \A n \in Sends : stage[n] = "run" => stage'[n] = "run"
  PROVE  DeskInv'
<1>1. ASSUME NEW b \in Bots, turn'[b].text # 0
      PROVE  stage'[turn'[b].text] = "run" /\ mail'[turn'[b].text].to = b
  <2>1. Desk'[b] = turn'[b].text /\ Desk[b] = turn[b].text
    BY DEF Desk
  <2>2. turn'[b].text = turn[b].text /\ turn[b].text \in Sends
    BY <1>1, <2>1, SentIs DEF BusInv, TurnInv
  <2>3. QED
    BY <1>1, <2>2 DEF DeskInv
<1>2. QED
  BY <1>1 DEF DeskInv

\* The turn of b is over, and nothing changes for the others.
LEMMA DeskCleared ==
  ASSUME BusInv, DeskInv, NEW b \in Bots, UNCHANGED mail,
         turn' = [turn EXCEPT ![b] = Idle],
         \A n \in Sends : n # turn[b].text => stage'[n] = stage[n]
  PROVE  DeskInv' /\ Desk' = [Desk EXCEPT ![b] = 0]
<1>1. Desk' = [Desk EXCEPT ![b] = 0]
  BY IdleIs, DeskStep DEF BusInv
<1>2. turn'[b].text = 0 /\ \A c \in Bots : c # b => turn'[c] = turn[c]
  BY IdleIs, BusTurnStep DEF BusInv
<1>3. ASSUME NEW c \in Bots, turn'[c].text # 0
      PROVE  stage'[turn'[c].text] = "run" /\ mail'[turn'[c].text].to = c
  <2>1. c # b /\ turn'[c] = turn[c]
    BY <1>2, <1>3
  <2>2. turn[c].text \in Sends /\ stage[turn[c].text] = "run" /\ mail[turn[c].text].to = c
    BY <1>3, <2>1, SentIs DEF BusInv, TurnInv, DeskInv
  <2>3. turn[b].text = turn[c].text => turn[b].text # 0 /\ mail[turn[b].text].to = b
    BY <1>3, <2>1 DEF DeskInv
  <2>4. turn[b].text # turn[c].text
    BY <2>1, <2>2, <2>3
  <2>5. QED
    BY <2>1, <2>2, <2>4
<1>4. QED
  BY <1>1, <1>3 DEF DeskInv

LEMMA BeginTurnMaps ==
  ASSUME BusInv, DeskInv, NEW b \in Bots, NEW r \in Rooms, BeginTurn(b, r)
  PROVE  DeskInv' /\ UNCHANGED Mail!vars
<1> DEFINE t == [Idle EXCEPT !.room = r, !.step = "setup"]
<1>1. t \in BusTurns /\ t.text = 0
  BY DEF Idle, BusTurns
<1>2. /\ turn[b] = Idle /\ turn' = [turn EXCEPT ![b] = t]
      /\ UNCHANGED <<mail, box, stage, handled>>
  BY DEF BeginTurn
<1> HIDE DEF t
<1>3. Desk' = [Desk EXCEPT ![b] = 0] /\ Desk[b] = 0
  BY <1>1, <1>2, IdleIs, DeskStep DEF BusInv, Desk
<1>4. Desk' = Desk
  BY <1>3 DEF Desk
<1>5. DeskInv'
  BY <1>2, <1>4, DesksStay
<1>6. QED
  BY <1>2, <1>4, <1>5 DEF Mail!vars, Desk

LEMMA FreezeMailboxMaps ==
  ASSUME BusInv, DeskInv, NEW b \in Bots, FreezeMailbox(b)
  PROVE  DeskInv' /\ \E ns \in SUBSET Queues[b] : Mail!Read(b, ns)
<1>0. PICK ns : ns = {n \in ToSet(box[b]) : CanReadOrigin(b, turn[b].room, mail[n].room)}
  OBVIOUS
<1> DEFINE t == [turn[b] EXCEPT !.step = "run", !.batch = ns]
<1>1. /\ box' = Drained(b, ns)
      /\ turn' = [turn EXCEPT ![b].step = "run", ![b].batch = ns]
      /\ handled' = [n \in Sends |-> IF n \in ns THEN [handled[n] EXCEPT !.mailbox = @ + 1]
                                                 ELSE handled[n]]
      /\ UNCHANGED <<mail, stage>>
  BY <1>0 DEF FreezeMailbox
<1>2. ns \in SUBSET Queues[b]
  BY <1>0 DEF Queues
<1>3. \A n \in ns : n \in Sends /\ handled[n].mailbox = 0
  BY <1>0, SentIs DEF BusInv, BoxInv, ToSet
<1>4. Desk' = Desk
  <2>1. turn' = [turn EXCEPT ![b] = t] /\ t.text = turn[b].text
    BY <1>1 DEF BusInv, BusTypes, BusTurns
  <2>2. \A c \in Bots : turn'[c].text = turn[c].text
    BY <2>1 DEF BusInv, BusTypes
  <2>3. QED
    BY <2>2 DEF Desk
<1>5. Seen' = Seen \cup ns /\ ns \cap Seen = {}
  <2>1. \A n \in Sends : handled[n] \in [text : Nat, mailbox : Nat]
    BY DEF BusInv, BusTypes
  <2>2. \A n \in Sends : n \in ns => handled'[n].mailbox = handled[n].mailbox + 1
    BY <1>1, <2>1
  <2>3. \A n \in Sends : n \notin ns => handled'[n].mailbox = handled[n].mailbox
    BY <1>1
  <2>4. \A n \in Sends : handled[n].mailbox \in Nat
    BY <2>1
  <2>5. \A n : n \in Seen' <=> n \in Seen \cup ns
    BY <1>3, <2>2, <2>3, <2>4 DEF Seen
  <2>6. QED
    BY <1>3, <2>5 DEF Seen
<1>6. DeskInv'
  BY <1>1, <1>4, DesksStay
<1>7. Queues' = [Queues EXCEPT ![b] = @ \ ns]
  BY <1>1, QueueShrinks DEF BusInv
<1>8. Mail!Read(b, ns)
  <2>1. ns \subseteq Queues[b] \ Seen
    BY <1>2, <1>5
  <2>2. UNCHANGED <<Letters, stage, Desk>>
    BY <1>1, <1>4 DEF Letters
  <2>3. QED
    BY <1>5, <1>7, <2>1, <2>2 DEF Mail!Read, Letters, Queues, Desk, Seen
<1>9. QED
  BY <1>2, <1>6, <1>8

LEMMA SendMaps ==
  ASSUME BusInv, DeskInv, NEW b \in Bots, NEW to \in Bots, NEW r \in Rooms, Send(b, to, r)
  PROVE  DeskInv' /\ Mail!Post(b, to)
<1> DEFINE n == Len(mail) + 1
           t == IF turn[b].trace = 0 THEN n ELSE turn[b].trace
           e == [sender |-> b, to |-> to, room |-> r, trace |-> t]
           u == [turn[b] EXCEPT !.trace = t]
<1>1. /\ to # b /\ n <= MaxSends
      /\ mail' = Append(mail, e)
      /\ box' = [box EXCEPT ![to] = Append(@, n)]
      /\ stage' = [stage EXCEPT ![n] = "wait"]
      /\ turn' = [turn EXCEPT ![b].trace = t]
      /\ UNCHANGED handled
  BY DEF Send
<1>2. /\ Len(mail) \in Nat /\ n \in Sends /\ n \notin Sent
      /\ Sent = 1..Len(mail) /\ DOMAIN mail = 1..Len(mail)
      /\ \A m \in Sent : m \in Sends /\ m # n
  <2>1. MaxSends \in Nat
    BY BotBusAssumption
  <2>2. QED
    BY <1>1, <2>1, SentIs DEF BusInv, Sends, Sent
<1>3. stage[n] = "unsent"
  BY <1>2 DEF BusInv, StageInv
<1>4. e \in Envelopes /\ e.sender = b /\ e.to = to
  BY <1>2 DEF BusInv, BusTypes, BusTurns, Envelopes
<1> HIDE DEF t, e
<1>5. \A c \in Bots : turn'[c].text = turn[c].text
  <2>1. turn' = [turn EXCEPT ![b] = u] /\ u.text = turn[b].text
    BY <1>1 DEF BusInv, BusTypes, BusTurns
  <2>2. QED
    BY <2>1 DEF BusInv, BusTypes
<1>6. Desk' = Desk
  BY <1>5 DEF Desk
<1>7. /\ mail' \in Seq(Envelopes) /\ DOMAIN mail' = 1..n
      /\ \A m \in 1..Len(mail) : mail'[m] = mail[m]
      /\ mail'[n] = e
  <2>1. mail \in Seq(Envelopes)
    BY DEF BusInv, BusTypes
  <2>2. /\ mail' \in Seq(Envelopes) /\ Len(mail') = n
        /\ \A m \in 1..Len(mail) : mail'[m] = mail[m]
        /\ mail'[n] = e
    BY <1>1, <1>4, <2>1, AppendProperties
  <2>3. QED
    BY <2>2, LenProperties
<1>8. DeskInv'
  <2>1. ASSUME NEW c \in Bots, turn'[c].text # 0
        PROVE  stage'[turn'[c].text] = "run" /\ mail'[turn'[c].text].to = c
    <3>1. /\ turn[c].text \in Sent /\ stage[turn[c].text] = "run"
          /\ mail[turn[c].text].to = c
      BY <1>5, <2>1 DEF BusInv, TurnInv, DeskInv
    <3>2. stage'[turn[c].text] = stage[turn[c].text]
      BY <1>1, <1>2, <3>1 DEF BusInv, BusTypes
    <3>3. mail'[turn[c].text] = mail[turn[c].text]
      BY <1>2, <1>7, <3>1
    <3>4. QED
      BY <1>5, <3>1, <3>2, <3>3
  <2>2. QED
    BY <2>1 DEF DeskInv
<1>9. /\ Letters \in Seq([sender : Bots, to : Bots]) /\ Len(Letters) = Len(mail)
      /\ Letters' = Append(Letters, [sender |-> b, to |-> to])
  <2> DEFINE l == [sender |-> b, to |-> to]
  <2>1. \A m \in 1..Len(mail) : mail[m] \in Envelopes
    BY <1>2, SentIs DEF BusInv
  <2>2. Letters \in [1..Len(mail) -> [sender : Bots, to : Bots]]
    BY <1>2, <2>1 DEF Letters, Envelopes
  <2>3. Letters \in Seq([sender : Bots, to : Bots]) /\ Len(Letters) = Len(mail)
    BY <1>2, <2>2, ListIs
  <2>4. /\ Append(Letters, l) \in Seq([sender : Bots, to : Bots])
        /\ DOMAIN Append(Letters, l) = 1..n
        /\ \A m \in 1..Len(mail) : Append(Letters, l)[m] = Letters[m]
        /\ Append(Letters, l)[n] = l
    BY <2>3, AppendProperties, LenProperties
  <2>5. Letters' = [m \in 1..n |-> [sender |-> mail'[m].sender, to |-> mail'[m].to]]
    BY <1>7 DEF Letters
  <2>6. \A m \in 1..n : Letters'[m] = Append(Letters, l)[m]
    <3>1. \A m \in 1..Len(mail) : Letters'[m] = Letters[m]
      BY <1>2, <1>7, <2>5 DEF Letters
    <3>2. Letters'[n] = l
      BY <1>2, <1>4, <1>7, <2>5
    <3>3. \A m \in 1..n : m \in 1..Len(mail) \/ m = n
      BY <1>2
    <3>4. QED
      BY <2>4, <3>1, <3>2, <3>3
  <2>7. Letters' \in Seq([sender : Bots, to : Bots]) /\ Len(Letters') = n
    <3>1. DOMAIN Letters' = 1..n /\ n \in Nat
      BY <1>2, <2>5
    <3>2. \A m \in 1..n : Letters'[m] \in [sender : Bots, to : Bots]
      <4>1. \A m \in 1..n : Append(Letters, l)[m] \in [sender : Bots, to : Bots]
        BY <2>4, ElementOfSeq, LenProperties
      <4>2. QED
        BY <2>6, <4>1
    <3>3. Letters' \in [1..n -> [sender : Bots, to : Bots]]
      BY <2>5, <3>1, <3>2
    <3>4. QED
      BY <3>1, <3>3, ListIs
  <2>8. Len(Append(Letters, l)) = n
    BY <2>3, AppendProperties
  <2>9. Letters' = Append(Letters, l)
    BY <2>4, <2>6, <2>7, <2>8, SeqEqual
  <2>10. QED
    BY <2>3, <2>9
<1>10. Mail!Post(b, to)
  <2>1. Seen' = Seen
    BY <1>1 DEF Seen
  <2>2. n = Len(Letters) + 1 /\ n \in Nat
    BY <1>2, <1>9
  <2>3. BusTypes /\ box' = [box EXCEPT ![to] = Append(@, n)]
    BY <1>1 DEF BusInv
  <2> HIDE DEF n
  <2>4. Queues' = [Queues EXCEPT ![to] = @ \cup {n}]
    BY <2>2, <2>3, QueueGrows
  <2>5. QED
    BY <1>1, <1>2, <1>3, <1>6, <1>9, <2>1, <2>2, <2>4 DEF Mail!Post, Letters, Queues, Desk, Seen
<1>11. QED
  BY <1>8, <1>10

LEMMA RefuseMaps ==
  ASSUME BusInv, DeskInv, NEW n \in Sends, Refuse(n)
  PROVE  DeskInv' /\ Mail!Refuse(n)
<1>1. /\ stage[n] = "wait" /\ stage' = [stage EXCEPT ![n] = "failed"]
      /\ UNCHANGED <<mail, box, turn, handled>>
  BY DEF Refuse
<1>2. \A m \in Sends : stage[m] = "run" => stage'[m] = "run"
  BY <1>1 DEF BusInv, BusTypes
<1>3. DeskInv'
  BY <1>1, <1>2, DesksStay DEF Desk
<1>4. QED
  BY <1>1, <1>3 DEF Mail!Refuse

LEMMA DeliverMaps ==
  ASSUME BusInv, DeskInv, NEW n \in DOMAIN mail, NEW loaded \in BOOLEAN, Deliver(n, loaded)
  PROVE  DeskInv' /\ Mail!Give(n)
<1> DEFINE b == mail[n].to
           t == [room |-> mail[n].room, step |-> "setup", text |-> n,
                 batch |-> {}, trace |-> mail[n].trace, loaded |-> loaded]
<1>1. /\ n \in Sent /\ n \in Sends /\ n \in Nat /\ n # 0
      /\ b \in Bots /\ mail[n].room \in Rooms /\ mail[n].trace \in Nat
  BY SentIs DEF BusInv, Sent, Envelopes
<1>2. /\ stage[n] = "wait" /\ turn[b] = Idle
      /\ stage' = [stage EXCEPT ![n] = "run"]
      /\ box' = Take(n)
      /\ turn' = [turn EXCEPT ![b] = t]
      /\ handled' = [handled EXCEPT ![n].text = @ + 1]
      /\ UNCHANGED mail
  BY DEF Deliver
<1>3. t \in BusTurns /\ t.text = n
  BY <1>1 DEF BusTurns
<1>4. Queues' = [Queues EXCEPT ![b] = @ \ {n}]
  BY <1>1, <1>2, QueueShrinks DEF BusInv, Take, Drained
<1>5. Letters[n].to = b
  BY DEF Letters
<1> HIDE DEF b, t
<1>6. /\ Desk' = [Desk EXCEPT ![b] = n] /\ Desk[b] = 0
      /\ turn'[b].text = n /\ \A c \in Bots : c # b => turn'[c] = turn[c]
  BY <1>1, <1>2, <1>3, DeskStep, BusTurnStep, IdleIs DEF BusInv, Desk
<1>7. Seen' = Seen
  <2>1. \A m \in Sends : handled'[m].mailbox = handled[m].mailbox
    BY <1>1, <1>2 DEF BusInv, BusTypes
  <2>2. QED
    BY <2>1 DEF Seen
<1>8. /\ stage'[n] = "run" /\ \A m \in Sends : m # n => stage'[m] = stage[m]
  BY <1>1, <1>2 DEF BusInv, BusTypes
<1>9. DeskInv'
  <2>1. ASSUME NEW c \in Bots, turn'[c].text # 0
        PROVE  stage'[turn'[c].text] = "run" /\ mail'[turn'[c].text].to = c
    <3>1. CASE c = b
      BY <1>2, <1>6, <1>8, <3>1 DEF b
    <3>2. CASE c # b
      <4>1. turn'[c] = turn[c]
        BY <1>6, <3>2
      <4>2. /\ turn[c].text \in Sends /\ stage[turn[c].text] = "run"
            /\ mail[turn[c].text].to = c
        BY <2>1, <4>1, SentIs DEF BusInv, TurnInv, DeskInv
      <4>3. turn[c].text # n
        BY <1>2, <4>2
      <4>4. QED
        BY <1>2, <1>8, <4>1, <4>2, <4>3
    <3>3. QED
      BY <3>1, <3>2
  <2>2. QED
    BY <2>1 DEF DeskInv
<1>10. Letters' = Letters
  BY <1>2 DEF Letters
<1>11. Mail!Give(n)
  BY <1>2, <1>4, <1>6, <1>7, <1>10, <1>5 DEF Mail!Give, Letters, Queues, Desk, Seen
<1>12. QED
  BY <1>9, <1>11

LEMMA TurnFailsMaps ==
  ASSUME BusInv, DeskInv, NEW b \in Bots, TurnFails(b)
  PROVE  DeskInv' /\ (Mail!Settle(b, "failed") \/ UNCHANGED Mail!vars)
<1> DEFINE n == turn[b].text
<1>1. /\ turn' = [turn EXCEPT ![b] = Idle]
      /\ stage' = [m \in Sends |-> IF m = n THEN "failed" ELSE stage[m]]
      /\ UNCHANGED <<mail, box, handled>>
  BY DEF TurnFails
<1>2. DeskInv' /\ Desk' = [Desk EXCEPT ![b] = 0] /\ Desk[b] = n
  BY <1>1, DeskCleared DEF Desk
<1>3. stage \in [Sends -> Stages] /\ 0 \notin Sends
  BY DEF BusInv, BusTypes, Sends
<1>4. UNCHANGED <<Letters, Seen>>
  BY <1>1 DEF Letters, Seen
<1>5. CASE n = 0
  <2>1. stage' = stage
    BY <1>1, <1>3, <1>5
  <2>2. Desk' = Desk
    BY <1>2, <1>5 DEF Desk
  <2>3. QED
    BY <1>1, <1>2, <1>4, <2>1, <2>2 DEF Mail!vars, Letters, Desk, Seen
<1>6. CASE n # 0
  <2>1. n \in Sends /\ stage[n] = "run"
    BY <1>6, SentIs DEF BusInv, TurnInv, DeskInv
  <2>2. stage' = [stage EXCEPT ![n] = "failed"]
    BY <1>1, <1>3, <2>1
  <2> HIDE DEF n
  <2>3. QED
    BY <1>1, <1>2, <1>4, <2>1, <2>2 DEF Mail!Settle, Letters, Desk, Seen
<1>7. QED
  BY <1>5, <1>6

LEMMA FinishDeliveryMaps ==
  ASSUME BusInv, DeskInv, NEW b \in Bots, FinishDelivery(b)
  PROVE  DeskInv' /\ Mail!Settle(b, "answered")
<1> DEFINE n == turn[b].text
<1>1. /\ n # 0 /\ turn' = [turn EXCEPT ![b] = Idle]
      /\ stage' = [stage EXCEPT ![n] = "answered"]
      /\ UNCHANGED <<mail, box, handled>>
  BY DEF FinishDelivery
<1>2. n \in Sends /\ stage[n] = "run"
  BY <1>1, SentIs DEF BusInv, TurnInv, DeskInv
<1>3. \A m \in Sends : m # n => stage'[m] = stage[m]
  BY <1>1, <1>2 DEF BusInv, BusTypes
<1>4. DeskInv' /\ Desk' = [Desk EXCEPT ![b] = 0] /\ Desk[b] = n
  BY <1>1, <1>3, DeskCleared DEF Desk
<1>5. UNCHANGED <<Letters, Seen>>
  BY <1>1 DEF Letters, Seen
<1> HIDE DEF n
<1>6. QED
  BY <1>1, <1>2, <1>4, <1>5 DEF Mail!Settle, Letters, Desk, Seen

LEMMA FinishTurnMaps ==
  ASSUME BusInv, DeskInv, NEW b \in Bots, FinishTurn(b)
  PROVE  DeskInv' /\ UNCHANGED Mail!vars
<1>1. /\ turn[b].text = 0 /\ turn' = [turn EXCEPT ![b] = Idle]
      /\ UNCHANGED <<mail, box, stage, handled>>
  BY DEF FinishTurn
<1>2. DeskInv' /\ Desk' = [Desk EXCEPT ![b] = 0] /\ Desk[b] = 0
  BY <1>1, DeskCleared DEF Desk
<1>3. Desk' = Desk
  BY <1>2 DEF Desk
<1>4. QED
  BY <1>1, <1>2, <1>3 DEF Mail!vars, Desk

LEMMA StopMaps ==
  ASSUME BusInv, DeskInv, NEW b \in Bots, Stop(b)
  PROVE  DeskInv' /\ Mail!Empty(b)
<1>1. /\ box' = Drained(b, ToSet(box[b]))
      /\ UNCHANGED <<mail, stage, turn, handled>>
  BY DEF Stop
<1>2. Queues' = [Queues EXCEPT ![b] = @ \ ToSet(box[b])]
  BY <1>1, QueueShrinks DEF BusInv
<1>3. Queues' = [Queues EXCEPT ![b] = {}]
  BY <1>2 DEF Queues
<1>4. DeskInv'
  BY <1>1, DesksStay DEF Desk
<1>5. QED
  BY <1>1, <1>3, <1>4 DEF Mail!Empty, Queues

LEMMA MailStarts == BusInit => DeskInv /\ Mail!Init
<1> SUFFICES ASSUME BusInit PROVE DeskInv /\ Mail!Init
  OBVIOUS
<1>1. /\ mail = <<>> /\ box = [b \in Bots |-> <<>>]
      /\ stage = [n \in Sends |-> "unsent"] /\ turn = [b \in Bots |-> Idle]
      /\ handled = [n \in Sends |-> [text |-> 0, mailbox |-> 0]]
  BY DEF BusInit
<1>2. \A b \in Bots : turn[b].text = 0
  BY <1>1, IdleIs
<1>3. Letters = <<>>
  BY <1>1 DEF Letters
<1>4. Desk = [b \in Bots |-> 0] /\ Seen = {}
  BY <1>1, <1>2 DEF Desk, Seen
<1>5. Queues = [b \in Bots |-> {}]
  BY <1>1 DEF Queues, ToSet
<1>6. QED
  BY <1>1, <1>2, <1>3, <1>4, <1>5 DEF DeskInv, Mail!Init, Letters, Queues, Desk, Seen

LEMMA MailStep ==
  BusInv /\ DeskInv /\ [BusNext]_busVars => DeskInv' /\ [Mail!Next]_(Mail!vars)
<1> SUFFICES ASSUME BusInv, DeskInv, [BusNext]_busVars
             PROVE  DeskInv' /\ (Mail!Next \/ UNCHANGED Mail!vars)
  OBVIOUS
<1>1. CASE \E b \in Bots, r \in Rooms : BeginTurn(b, r)
  BY <1>1, BeginTurnMaps
<1>2. CASE \E b \in Bots : FreezeMailbox(b)
  BY <1>2, FreezeMailboxMaps DEF Mail!Next, Queues
<1>3. CASE \E b, to \in Bots, r \in Rooms : Send(b, to, r)
  BY <1>3, SendMaps DEF Mail!Next
<1>4. CASE \E n \in Sends : Refuse(n)
  BY <1>4, RefuseMaps DEF Mail!Next
<1>5. CASE \E n \in DOMAIN mail, loaded \in BOOLEAN : Deliver(n, loaded)
  <2>1. DOMAIN mail = DOMAIN Letters
    BY DEF Letters
  <2>2. QED
    BY <1>5, <2>1, DeliverMaps DEF Mail!Next, Letters
<1>6. CASE \E b \in Bots : TurnFails(b)
  BY <1>6, TurnFailsMaps DEF Mail!Next
<1>7. CASE \E b \in Bots : FinishDelivery(b)
  BY <1>7, FinishDeliveryMaps DEF Mail!Next
<1>8. CASE \E b \in Bots : FinishTurn(b)
  BY <1>8, FinishTurnMaps
<1>9. CASE \E b \in Bots : Stop(b)
  BY <1>9, StopMaps DEF Mail!Next
<1>10. CASE UNCHANGED busVars
  <2>1. UNCHANGED <<mail, box, stage, turn, handled>>
    BY <1>10 DEF busVars
  <2>2. QED
    BY <2>1 DEF DeskInv, Mail!vars
<1>11. QED
  BY <1>1, <1>2, <1>3, <1>4, <1>5, <1>6, <1>7, <1>8, <1>9, <1>10 DEF BusNext

\* The bus is a mail: a letter that is sent is given to its recipient at most
\* once, while it answers no other, and has one end, the answer of that turn
\* or a failure, whatever else the recipient does with its mailbox
\* (bots/bus.py, app/a2a_delivery/service.py).
THEOREM BusImplementsMail == BusSpec => ImplementsMail
<1>1. BusInit => BusInv /\ DeskInv /\ Mail!Init
  BY InitBus, MailStarts
<1>2. BusInv /\ DeskInv /\ [BusNext]_busVars => BusInv' /\ DeskInv' /\ [Mail!Next]_(Mail!vars)
  BY BusStep, MailStep
<1>3. QED
  BY <1>1, <1>2, PTL DEF BusSpec, ImplementsMail, Mail!Spec

-----------------------------------------------------------------------------
(***************************************************************************)
(* The safety of the journal, for any handles of one process, windows and  *)
(* bounds.                                                                 *)
(*                                                                         *)
(* JournalInv is inductive.  A handle that is open has a size and a seq    *)
(* that fit (MemoFits), so that NextSeq counts on whatever was written     *)
(* since; one handle at the most is in the middle of a method (OneMethod), *)
(* and the one that writes knows the next seq (WriterInv).  While it does, *)
(* the transcript is what the projection will be when its event is added   *)
(* (TruthInv, After).                                                      *)
(***************************************************************************)
OneProcess == \A g, h \in Handles : ProcOf[g] = ProcOf[h]

Events == {e \in [seq : Nat, win : Views, kind : {"message", "reset"},
                  rows : Seq(Nat), title : Nat] : e.kind = "message" => e.rows # <<>>}
HandleRecords == [phase : {"closed", "scanned", "open", "writing"}, size : Nat, seq : Nat,
                  event : Events \cup {NoEvent}]
Transcripts == [rows : Seq(Nat), title : Nat]

TimelineTypes ==
    /\ journal \in Seq(Events)
    /\ torn \in BOOLEAN
    /\ writer \in Handles \cup {NoHandle}
    /\ handle \in [Handles -> HandleRecords]
    /\ memory \in [Handles -> Seq(Nat)]
    /\ tears \in Nat
    /\ truth \in [Views -> Transcripts]

Busy(h) == handle[h].phase \in {"scanned", "writing"}
OneMethod == \A g, h \in Handles : Busy(g) /\ Busy(h) => g = h
MemoFits ==
    \A h \in Handles :
        /\ handle[h].phase \in {"open", "writing"} => handle[h].size = 2 * handle[h].seq
        /\ handle[h].phase = "scanned" => ~torn /\ handle[h].seq = Len(journal)
WriterInv ==
    /\ writer # NoHandle => handle[writer].phase = "writing"
    /\ \A h \in Handles : handle[h].phase = "writing" =>
          /\ writer = h /\ torn /\ tears = 0
          /\ handle[h].event \in Events /\ handle[h].event.seq = Len(journal) + 1

\* The transcript that is projected once e is in the journal.
After(p, e) ==
    IF e.kind = "message" THEN [rows |-> Append(p.rows, e.rows[1]), title |-> p.title]
                          ELSE [rows |-> e.rows, title |-> e.title]
\* Project, of any journal j.
Resets(j, w) == {i \in DOMAIN j : j[i].kind = "reset" /\ j[i].win = w}
BasisOf(j, w) == Max({0} \cup Resets(j, w))
Own(j, w, from) == {i \in DOMAIN j : i > from /\ j[i].kind = "message" /\ j[i].win = w}
MessagesOf(j, w, from) ==
    [i \in DOMAIN KeptAt(j, Own(j, w, from)) |-> KeptAt(j, Own(j, w, from))[i].rows[1]]
ProjectOf(j, w) ==
    LET b == BasisOf(j, w)
    IN IF b = 0 THEN [rows |-> MessagesOf(j, w, 0), title |-> 0]
                ELSE [rows |-> j[b].rows \o MessagesOf(j, w, b), title |-> j[b].title]

TruthInv ==
    \A w \in Views :
        truth[w] = IF writer # NoHandle /\ handle[writer].event.win = w
                   THEN After(ProjectOf(journal, w), handle[writer].event)
                   ELSE ProjectOf(journal, w)

JournalInv == /\ TimelineTypes /\ SeqsAreGapless /\ OneMethod /\ MemoFits /\ WriterInv
              /\ TruthInv /\ NothingBehindATear

-----------------------------------------------------------------------------
(* The projection, of any journal j                                        *)

LEMMA ProjectIs == \A w : Project(w) = ProjectOf(journal, w)
BY DEF Project, ProjectOf, Basis, BasisOf, Resets, Messages, MessagesOf, Own

LEMMA EventIs ==
  ASSUME NEW e \in Events
  PROVE  /\ e.seq \in Nat /\ e.win \in Views /\ e.kind \in {"message", "reset"}
         /\ e.rows \in Seq(Nat) /\ e.title \in Nat
         /\ e.kind = "message" => e.rows[1] \in Nat
<1>1. /\ e \in [seq : Nat, win : Views, kind : {"message", "reset"},
                rows : Seq(Nat), title : Nat]
      /\ e.kind = "message" => e.rows # <<>>
  BY DEF Events
<1>2. e.rows \in Seq(Nat)
  BY <1>1
<1>3. e.rows # <<>> => e.rows[1] \in Nat
  <2>1. Len(e.rows) \in Nat /\ (e.rows # <<>> => Len(e.rows) # 0)
    BY <1>2, LenProperties, EmptySeq
  <2>2. QED
    BY <1>2, <2>1, ElementOfSeq
<1>4. QED
  BY <1>1, <1>2, <1>3

\* The basis of a window is 0 or its last reset.
LEMMA BasisIs ==
  ASSUME NEW j \in Seq(Events), NEW w \in Views
  PROVE  /\ BasisOf(j, w) \in 0..Len(j) /\ Len(j) \in Nat
         /\ BasisOf(j, w) # 0 => BasisOf(j, w) \in Resets(j, w)
         /\ \A i \in Resets(j, w) : i <= BasisOf(j, w)
<1> DEFINE S == {0} \cup Resets(j, w)
<1>1. Len(j) \in Nat /\ DOMAIN j = 1..Len(j)
  BY LenProperties
<1>2. S \in SUBSET (0..Len(j)) /\ S \in SUBSET Nat /\ 0 \in S
  BY <1>1 DEF Resets
<1>3. IsFiniteSet(S)
  <2>1. IsFiniteSet(0..Len(j))
    BY <1>1, FS_Interval
  <2>2. QED
    BY <1>2, <2>1, FS_Subset
<1> HIDE DEF S
<1>4. Cardinality(S) \in Nat /\ Cardinality(S) # 0
  BY <1>2, <1>3, FS_CardinalityType, FS_EmptySet
<1>5. PICK m \in S : Rank(S, m) = Cardinality(S)
  <2>1. Cardinality(S) \in 1..Cardinality(S)
    BY <1>4
  <2>2. Nth(S, Cardinality(S)) \in S /\ Rank(S, Nth(S, Cardinality(S))) = Cardinality(S)
    BY <1>2, <1>3, <2>1, NthIs
  <2>3. QED
    BY <2>2
<1>6. \A x \in S : m >= x
  <2>1. \A x \in S : m < x => Rank(S, m) < Rank(S, x)
    BY <1>2, <1>3, RankGrows
  <2>2. \A x \in S : Rank(S, x) \in 1..Cardinality(S)
    BY <1>2, <1>3, RankGrows
  <2>3. \A x \in S : ~(m < x)
    BY <1>4, <1>5, <2>1, <2>2
  <2>4. QED
    BY <1>2, <2>3
<1>7. Max(S) \in S /\ \A x \in S : Max(S) >= x
  BY <1>5, <1>6 DEF Max
<1>8. BasisOf(j, w) = Max(S)
  BY DEF BasisOf, S
<1>9. \A i \in Resets(j, w) : i \in S
  BY DEF S
<1>10. BasisOf(j, w) # 0 => BasisOf(j, w) \in Resets(j, w)
  BY <1>7, <1>8 DEF S
<1>11. QED
  BY <1>1, <1>2, <1>7, <1>8, <1>9, <1>10

\* The greatest of a set of numbers is found when it is one of them.
LEMMA MaxIs ==
  ASSUME NEW S \in SUBSET Nat, NEW m \in S, \A x \in S : m >= x
  PROVE  Max(S) = m
<1>1. Max(S) \in S /\ \A x \in S : Max(S) >= x
  BY DEF Max
<1>2. Max(S) >= m /\ m >= Max(S) /\ Max(S) \in Nat /\ m \in Nat
  BY <1>1
<1>3. QED
  BY <1>2

\* An element at the end of two sequences in a row.
LEMMA ConcatAppend ==
  ASSUME NEW s \in Seq(Nat), NEW t \in Seq(Nat), NEW x \in Nat
  PROVE  s \o Append(t, x) = Append(s \o t, x)
<1>1. <<x>> \in Seq(Nat) /\ s \o t \in Seq(Nat)
  BY ConcatProperties
<1>2. Append(t, x) = t \o <<x>> /\ Append(s \o t, x) = (s \o t) \o <<x>>
  BY <1>1, AppendIsConcat
<1>3. (s \o t) \o <<x>> = s \o (t \o <<x>>)
  BY <1>1, ConcatAssociative
<1>4. QED
  BY <1>2, <1>3

LEMMA MessagesType ==
  ASSUME NEW j \in Seq(Events), NEW w \in Views, NEW from \in Nat
  PROVE  MessagesOf(j, w, from) \in Seq(Nat)
<1> DEFINE P == Own(j, w, from)
           kept == KeptAt(j, P)
<1>1. P \in SUBSET DOMAIN j /\ \A i \in P : j[i].kind = "message"
  BY DEF Own
<1> HIDE DEF P
<1>2. /\ Cardinality(P) \in Nat /\ DOMAIN kept = 1..Cardinality(P)
      /\ \A k \in DOMAIN kept : Nth(P, k) \in P /\ kept[k] = j[Nth(P, k)]
  BY <1>1, KeptIsSeq
<1>3. \A i \in P : j[i] \in Events
  BY <1>1, ElementOfSeq, LenProperties
<1> HIDE DEF kept
<1>4. \A k \in 1..Cardinality(P) : kept[k].rows[1] \in Nat
  BY <1>1, <1>2, <1>3, EventIs
<1>5. MessagesOf(j, w, from) = [k \in 1..Cardinality(P) |-> kept[k].rows[1]]
  BY <1>2 DEF MessagesOf, P, kept
<1>6. [k \in 1..Cardinality(P) |-> kept[k].rows[1]] \in [1..Cardinality(P) -> Nat]
  BY <1>4
<1> DEFINE told == [k \in 1..Cardinality(P) |-> kept[k].rows[1]]
<1> HIDE DEF told
<1>7. told \in Seq(Nat)
  BY <1>2, <1>6, IsASeq DEF told
<1>8. QED
  BY <1>5, <1>7 DEF told

\* One more event of another window, or that is no message: the messages stay.
LEMMA MessagesStay ==
  ASSUME NEW j \in Seq(Events), NEW e \in Events, NEW w \in Views, NEW from \in Nat,
         e.kind # "message" \/ e.win # w
  PROVE  MessagesOf(Append(j, e), w, from) = MessagesOf(j, w, from)
<1>1. /\ Len(j) \in Nat /\ DOMAIN j = 1..Len(j) /\ DOMAIN Append(j, e) = 1..(Len(j) + 1)
      /\ \A i \in 1..Len(j) : Append(j, e)[i] = j[i]
      /\ Append(j, e)[Len(j) + 1] = e
  BY LenProperties, AppendProperties
<1>2. Own(Append(j, e), w, from) = Own(j, w, from)
  <2>1. \A i \in 1..(Len(j) + 1) : i \in 1..Len(j) \/ i = Len(j) + 1
    BY <1>1
  <2>2. \A i : i \in Own(Append(j, e), w, from) <=> i \in Own(j, w, from)
    BY <1>1, <2>1 DEF Own
  <2>3. QED
    BY <2>2
<1>3. Own(j, w, from) \in SUBSET DOMAIN j
  BY DEF Own
<1>4. KeptAt(Append(j, e), Own(j, w, from)) = KeptAt(j, Own(j, w, from))
  BY <1>3, KeptOfOld
<1>5. QED
  BY <1>2, <1>4 DEF MessagesOf

\* One more message of the window: it comes last.
LEMMA MessagesGrow ==
  ASSUME NEW j \in Seq(Events), NEW e \in Events, NEW w \in Views, NEW from \in Nat,
         from <= Len(j), e.kind = "message", e.win = w
  PROVE  MessagesOf(Append(j, e), w, from) = Append(MessagesOf(j, w, from), e.rows[1])
<1> DEFINE P == Own(j, w, from)
           kept == KeptAt(j, P)
           c == Cardinality(P)
           more == Append(kept, e)
<1>1. /\ Len(j) \in Nat /\ DOMAIN j = 1..Len(j) /\ DOMAIN Append(j, e) = 1..(Len(j) + 1)
      /\ \A i \in 1..Len(j) : Append(j, e)[i] = j[i]
      /\ Append(j, e)[Len(j) + 1] = e
  BY LenProperties, AppendProperties
<1>2. Own(Append(j, e), w, from) = P \cup {Len(j) + 1}
  <2>1. \A i \in 1..(Len(j) + 1) : i \in 1..Len(j) \/ i = Len(j) + 1
    BY <1>1
  <2>2. Len(j) + 1 > from /\ Len(j) + 1 \in 1..(Len(j) + 1) /\ 1..Len(j) \subseteq 1..(Len(j) + 1)
    BY <1>1
  <2>3. \A i : i \in Own(Append(j, e), w, from) <=> i \in P \cup {Len(j) + 1}
    BY <1>1, <2>1, <2>2 DEF Own
  <2>4. QED
    BY <2>3
<1>3. P \in SUBSET DOMAIN j
  BY DEF Own
<1> HIDE DEF P
<1>4. KeptAt(Append(j, e), P \cup {Len(j) + 1}) = more
  BY <1>3, KeptWithNew
<1>5. kept \in Seq(Events) /\ Len(kept) = c /\ DOMAIN kept = 1..c /\ c \in Nat
  BY <1>3, KeptIsSeq
<1> HIDE DEF kept, c
<1>6. /\ DOMAIN more = 1..(c + 1)
      /\ \A i \in 1..c : more[i] = kept[i]
      /\ more[c + 1] = e
  <2>1. more \in Seq(Events) /\ Len(more) = c + 1
    BY <1>5, AppendProperties
  <2>2. QED
    BY <1>5, <2>1, AppendProperties, LenProperties
<1> HIDE DEF more
<1>7. MessagesOf(j, w, from) = [i \in 1..c |-> kept[i].rows[1]]
  BY <1>5 DEF MessagesOf, P, kept
<1>8. MessagesOf(Append(j, e), w, from) = [i \in 1..(c + 1) |-> more[i].rows[1]]
  BY <1>2, <1>4, <1>6 DEF MessagesOf
<1>9. /\ MessagesOf(j, w, from) \in Seq(Nat)
      /\ MessagesOf(Append(j, e), w, from) \in Seq(Nat)
      /\ e.rows[1] \in Nat
  <2>1. Append(j, e) \in Seq(Events)
    BY AppendProperties
  <2>2. QED
    BY <2>1, MessagesType, EventIs
<1>10. Len(MessagesOf(j, w, from)) = c /\ Len(MessagesOf(Append(j, e), w, from)) = c + 1
  <2>1. DOMAIN MessagesOf(j, w, from) = 1..c /\ DOMAIN MessagesOf(Append(j, e), w, from) = 1..(c + 1)
    BY <1>7, <1>8
  <2>2. QED
    BY <1>5, <1>9, <2>1, LenProperties
<1> DEFINE old == MessagesOf(j, w, from)
           new == MessagesOf(Append(j, e), w, from)
<1>11. /\ Append(old, e.rows[1]) \in Seq(Nat) /\ Len(Append(old, e.rows[1])) = c + 1
       /\ \A i \in 1..c : Append(old, e.rows[1])[i] = old[i]
       /\ Append(old, e.rows[1])[c + 1] = e.rows[1]
  BY <1>9, <1>10, AppendProperties
<1>12. \A i \in 1..(c + 1) : new[i] = Append(old, e.rows[1])[i]
  <2>1. \A i \in 1..c : new[i] = more[i].rows[1] /\ old[i] = kept[i].rows[1]
    BY <1>5, <1>7, <1>8
  <2>2. new[c + 1] = more[c + 1].rows[1]
    BY <1>5, <1>8
  <2>3. \A i \in 1..(c + 1) : i \in 1..c \/ i = c + 1
    BY <1>5
  <2> HIDE DEF old, new
  <2>4. QED
    BY <1>6, <1>11, <2>1, <2>2, <2>3
<1>13. QED
  BY <1>9, <1>10, <1>11, <1>12, SeqEqual

\* Nothing comes after the last event.
LEMMA MessagesAtEnd ==
  ASSUME NEW j \in Seq(Events), NEW w \in Views
  PROVE  MessagesOf(j, w, Len(j)) = <<>>
<1>1. Len(j) \in Nat /\ DOMAIN j = 1..Len(j)
  BY LenProperties
<1>2. Own(j, w, Len(j)) = {}
  BY <1>1 DEF Own
<1>3. Cardinality(Own(j, w, Len(j))) = 0
  BY <1>2, FS_EmptySet
<1>4. DOMAIN KeptAt(j, Own(j, w, Len(j))) = 1..0
  BY <1>3 DEF KeptAt
<1>5. MessagesOf(j, w, Len(j)) \in Seq(Nat) /\ DOMAIN MessagesOf(j, w, Len(j)) = {}
  BY <1>1, <1>4, MessagesType DEF MessagesOf
<1>6. Len(MessagesOf(j, w, Len(j))) = 0
  <2>1. Len(MessagesOf(j, w, Len(j))) \in Nat
        /\ DOMAIN MessagesOf(j, w, Len(j)) = 1..Len(MessagesOf(j, w, Len(j)))
    BY <1>5, LenProperties
  <2>2. QED
    BY <1>5, <2>1
<1>7. QED
  BY <1>5, <1>6, EmptySeq

LEMMA ProjectType ==
  ASSUME NEW j \in Seq(Events), NEW w \in Views
  PROVE  ProjectOf(j, w) \in Transcripts
<1> DEFINE b == BasisOf(j, w)
<1>1. b \in 0..Len(j) /\ Len(j) \in Nat
  BY BasisIs
<1>2. MessagesOf(j, w, 0) \in Seq(Nat) /\ MessagesOf(j, w, b) \in Seq(Nat)
  BY <1>1, MessagesType
<1>3. b # 0 => j[b] \in Events
  <2>1. b # 0 => b \in 1..Len(j)
    BY <1>1
  <2>2. QED
    BY <2>1, ElementOfSeq
<1>4. b # 0 => j[b].title \in Nat /\ j[b].rows \o MessagesOf(j, w, b) \in Seq(Nat)
  BY <1>2, <1>3, EventIs, ConcatProperties
<1>5. ProjectOf(j, w) = IF b = 0 THEN [rows |-> MessagesOf(j, w, 0), title |-> 0]
                ELSE [rows |-> j[b].rows \o MessagesOf(j, w, b), title |-> j[b].title]
  BY DEF ProjectOf
<1> HIDE DEF b
<1>6. QED
  BY <1>2, <1>4, <1>5 DEF Transcripts

\* What one more event does to the projection of a window.
LEMMA ProjectAppend ==
  ASSUME NEW j \in Seq(Events), NEW e \in Events, NEW w \in Views
  PROVE  ProjectOf(Append(j, e), w) = IF e.win = w THEN After(ProjectOf(j, w), e)
                                                   ELSE ProjectOf(j, w)
<1> DEFINE b == BasisOf(j, w)
           all == Append(j, e)
           n == Len(j) + 1
<1>1. /\ Len(j) \in Nat /\ DOMAIN j = 1..Len(j) /\ DOMAIN all = 1..n
      /\ \A i \in 1..Len(j) : all[i] = j[i]
      /\ all[n] = e /\ all \in Seq(Events) /\ Len(all) = n
  BY LenProperties, AppendProperties
<1>2. b \in 0..Len(j) /\ b \in Nat /\ (b # 0 => b \in 1..Len(j))
  BY <1>1, BasisIs
<1>3. \A i \in 1..n : i \in 1..Len(j) \/ i = n
  BY <1>1
<1>4. b # 0 => all[b] = j[b] /\ j[b].rows \in Seq(Nat)
  BY <1>1, <1>2, ElementOfSeq, EventIs
<1>5. MessagesOf(j, w, 0) \in Seq(Nat) /\ MessagesOf(j, w, b) \in Seq(Nat)
  BY <1>2, MessagesType
<1>6. CASE e.kind = "message" \/ e.win # w
  <2>1. Resets(all, w) = Resets(j, w)
    <3>1. \A i : i \in Resets(all, w) <=> i \in Resets(j, w)
      BY <1>1, <1>3, <1>6 DEF Resets
    <3>2. QED
      BY <3>1
  <2>2. BasisOf(all, w) = b
    BY <2>1 DEF BasisOf
  <2>3. CASE e.win # w
    <3>1. MessagesOf(all, w, 0) = MessagesOf(j, w, 0) /\ MessagesOf(all, w, b) = MessagesOf(j, w, b)
      BY <1>2, <2>3, MessagesStay
    <3> HIDE DEF b, all
    <3>2. ProjectOf(all, w) = ProjectOf(j, w)
      BY <1>4, <2>2, <3>1 DEF ProjectOf, b
    <3>3. QED
      BY <2>3, <3>2 DEF all
  <2>4. CASE e.win = w /\ e.kind = "message"
    <3> DEFINE x == e.rows[1]
    <3>1. /\ MessagesOf(all, w, 0) = Append(MessagesOf(j, w, 0), x)
          /\ MessagesOf(all, w, b) = Append(MessagesOf(j, w, b), x)
      BY <1>1, <1>2, <2>4, MessagesGrow
    <3>2. x \in Nat
      BY <2>4, EventIs
    <3> HIDE DEF x, all
    <3>3. b # 0 => j[b].rows \o Append(MessagesOf(j, w, b), x)
                     = Append(j[b].rows \o MessagesOf(j, w, b), x)
      BY <1>4, <1>5, <3>2, ConcatAppend
    <3>4. ProjectOf(j, w) = IF b = 0 THEN [rows |-> MessagesOf(j, w, 0), title |-> 0]
                ELSE [rows |-> j[b].rows \o MessagesOf(j, w, b), title |-> j[b].title]
      BY DEF ProjectOf
    <3>5. ProjectOf(all, w) = IF b = 0 THEN [rows |-> MessagesOf(all, w, 0), title |-> 0]
                ELSE [rows |-> j[b].rows \o MessagesOf(all, w, b), title |-> j[b].title]
      BY <1>4, <2>2 DEF ProjectOf
    <3> HIDE DEF b
    <3>6. ProjectOf(all, w) = [rows |-> Append(ProjectOf(j, w).rows, x),
                               title |-> ProjectOf(j, w).title]
      <4>1. CASE b = 0
        <5>1. ProjectOf(j, w) = [rows |-> MessagesOf(j, w, 0), title |-> 0]
          BY <3>4, <4>1
        <5>2. ProjectOf(all, w) = [rows |-> Append(MessagesOf(j, w, 0), x), title |-> 0]
          BY <3>1, <3>5, <4>1
        <5>3. QED
          BY <5>1, <5>2
      <4>2. CASE b # 0
        <5> DEFINE front == j[b].rows \o MessagesOf(j, w, b)
                   name == j[b].title
        <5>1. ProjectOf(j, w) = [rows |-> front, title |-> name]
          BY <3>4, <4>2
        <5>2. ProjectOf(all, w) = [rows |-> Append(front, x), title |-> name]
          BY <3>1, <3>3, <3>5, <4>2
        <5> HIDE DEF front, name
        <5>3. QED
          BY <5>1, <5>2
      <4>3. QED
        BY <4>1, <4>2
    <3>7. QED
      BY <2>4, <3>6 DEF After, x, all
  <2>5. QED
    BY <1>6, <2>3, <2>4
<1>7. CASE e.kind = "reset" /\ e.win = w
  <2>1. n \in Resets(all, w) /\ n # 0 /\ n \in Nat /\ Resets(all, w) \subseteq 1..n
    BY <1>1, <1>7 DEF Resets
  <2>2. BasisOf(all, w) = n
    <3>1. {0} \cup Resets(all, w) \in SUBSET Nat /\ n \in {0} \cup Resets(all, w)
          /\ \A x \in {0} \cup Resets(all, w) : n >= x
      BY <1>1, <2>1
    <3> HIDE DEF n, all
    <3>2. QED
      BY <3>1, MaxIs DEF BasisOf
  <2>3. MessagesOf(all, w, n) = <<>>
    BY <1>1, MessagesAtEnd
  <2>4. e.rows \in Seq(Nat) /\ e.rows \o <<>> = e.rows
    BY EventIs, ConcatEmptySeq
  <2>5. ProjectOf(all, w) = [rows |-> e.rows, title |-> e.title]
    <3> HIDE DEF n, all
    <3>1. ProjectOf(all, w) = [rows |-> all[n].rows \o MessagesOf(all, w, n), title |-> all[n].title]
      BY <2>1, <2>2 DEF ProjectOf
    <3>2. QED
      BY <1>1, <2>3, <2>4, <3>1
  <2>6. QED
    BY <1>7, <2>5 DEF After
<1>8. e.kind \in {"message", "reset"}
  BY EventIs
<1>9. QED
  BY <1>6, <1>7, <1>8

-----------------------------------------------------------------------------
(* One method at a time                                                    *)

\* A handle that can work meets no other in a method, and no writer.
LEMMA NobodyBusy ==
  ASSUME OneProcess, JournalInv, NEW h \in Handles, NoMethodRuns(h),
         handle[h].phase \notin {"scanned", "writing"}
  PROVE  (\A g \in Handles : ~Busy(g)) /\ writer = NoHandle
<1>1. \A g \in Handles : ~Busy(g)
  BY DEF OneProcess, NoMethodRuns, Busy
<1>2. QED
  BY <1>1 DEF JournalInv, TimelineTypes, WriterInv, Busy

\* The last seq of the journal is its length.
LEMMA LastSeqIs ==
  ASSUME TimelineTypes, SeqsAreGapless
  PROVE  LastSeq = Len(journal) /\ Len(journal) \in Nat
<1>1. journal \in Seq(Events) /\ Len(journal) \in Nat /\ DOMAIN journal = 1..Len(journal)
  BY LenProperties DEF TimelineTypes
<1>2. CASE journal = <<>>
  BY <1>2 DEF LastSeq
<1>3. CASE journal # <<>>
  <2>1. Len(journal) # 0
    BY <1>1, <1>3, EmptySeq
  <2>2. Len(journal) \in DOMAIN journal
    BY <1>1, <2>1
  <2>3. journal[Len(journal)].seq = Len(journal)
    BY <2>2 DEF SeqsAreGapless
  <2>4. QED
    BY <1>1, <1>3, <2>3 DEF LastSeq, Last
<1>4. QED
  BY <1>1, <1>2, <1>3

\* What an open handle writes next is the number that follows.
LEMMA NextSeqIs ==
  ASSUME JournalInv, NEW h \in Handles, handle[h].phase = "open", ~torn
  PROVE  NextSeq(h) = Len(journal) + 1 /\ Len(journal) \in Nat
<1>1. Len(journal) \in Nat
  BY LastSeqIs DEF JournalInv
<1>2. LastSeq = Len(journal)
  BY LastSeqIs DEF JournalInv
<1>3. Size = 2 * Len(journal)
  BY <1>1 DEF Size
<1>4. handle[h].size = 2 * handle[h].seq /\ handle[h].seq \in Nat
  BY DEF JournalInv, MemoFits, TimelineTypes, HandleRecords
<1>5. handle[h].size = Size => handle[h].seq = Len(journal)
  BY <1>1, <1>3, <1>4
<1>6. QED
  BY <1>1, <1>2, <1>5 DEF NextSeq

\* A handle's record that is replaced: the others stay.
LEMMA HandleStep ==
  ASSUME TimelineTypes, NEW h \in Handles, NEW x \in HandleRecords,
         handle' = [handle EXCEPT ![h] = x]
  PROVE  handle' \in [Handles -> HandleRecords] /\ handle'[h] = x
         /\ \A g \in Handles : g # h => handle'[g] = handle[g]
BY DEF TimelineTypes

-----------------------------------------------------------------------------
(* The steps                                                               *)

\* A handle that starts to write: the transcript is what the projection will
\* be when its event is there.
LEMMA RecordStep ==
  ASSUME OneProcess, JournalInv, NEW h \in Handles, NEW w \in Views,
         NEW kind \in {"message", "reset"}, NEW new \in Seq(Nat), NEW title \in Nat,
         kind = "message" => new # <<>>,
         CanWork(h), Record(h, kind, w, new, title),
         memory' \in [Handles -> Seq(Nat)],
         truth' = [truth EXCEPT ![w] = After(ProjectOf(journal, w),
                     [seq |-> NextSeq(h), win |-> w, kind |-> kind, rows |-> new,
                      title |-> title])]
  PROVE  JournalInv'
<1> DEFINE e == [seq |-> NextSeq(h), win |-> w, kind |-> kind, rows |-> new, title |-> title]
           x == [handle[h] EXCEPT !.phase = "writing", !.event = e]
<1>1. /\ writer = NoHandle /\ ~torn /\ torn' = TRUE /\ writer' = h
      /\ handle' = [handle EXCEPT ![h].phase = "writing", ![h].event = e]
      /\ journal' = journal /\ tears' = tears
  BY DEF Record, Readable
<1>2. handle[h].phase = "open" /\ NoMethodRuns(h)
  BY DEF CanWork
<1>3. \A g \in Handles : ~Busy(g)
  BY <1>2, NobodyBusy
<1>4. NextSeq(h) = Len(journal) + 1 /\ Len(journal) \in Nat
  BY <1>1, <1>2, NextSeqIs
<1>5. e \in Events /\ e.seq = Len(journal) + 1 /\ e.win = w
  BY <1>4 DEF Events
<1>6. handle[h] \in HandleRecords
  BY DEF JournalInv, TimelineTypes
<1> HIDE DEF e
<1>7. /\ x \in HandleRecords /\ x.phase = "writing" /\ x.event = e
      /\ x.size = handle[h].size /\ x.seq = handle[h].seq
  BY <1>5, <1>6 DEF HandleRecords
<1>8. handle' = [handle EXCEPT ![h] = x]
  BY <1>1
<1> HIDE DEF x
<1>9. handle' \in [Handles -> HandleRecords] /\ handle'[h] = x
      /\ \A g \in Handles : g # h => handle'[g] = handle[g]
  BY <1>7, <1>8, HandleStep DEF JournalInv
<1>10. /\ truth' \in [Views -> Transcripts] /\ truth'[w] = After(ProjectOf(journal, w), e)
       /\ \A v \in Views : v # w => truth'[v] = truth[v]
  <2>1. journal \in Seq(Events)
    BY DEF JournalInv, TimelineTypes
  <2>2. ProjectOf(journal, w) \in Transcripts
    BY <2>1, ProjectType
  <2>3. After(ProjectOf(journal, w), e) \in Transcripts
    <3>1. /\ ProjectOf(journal, w).rows \in Seq(Nat) /\ ProjectOf(journal, w).title \in Nat
      BY <2>2 DEF Transcripts
    <3>2. e.kind = "message" => Append(ProjectOf(journal, w).rows, e.rows[1]) \in Seq(Nat)
      BY <1>5, <3>1, EventIs, AppendProperties
    <3>3. e.rows \in Seq(Nat) /\ e.title \in Nat
      BY <1>5, EventIs
    <3>4. QED
      BY <3>1, <3>2, <3>3 DEF After, Transcripts
  <2>4. truth' = [truth EXCEPT ![w] = After(ProjectOf(journal, w), e)]
    BY DEF e
  <2>5. QED
    BY <2>3, <2>4 DEF JournalInv, TimelineTypes
<1>11. TimelineTypes'
  BY <1>1, <1>9, <1>10 DEF JournalInv, TimelineTypes
<1>12. SeqsAreGapless'
  BY <1>1 DEF JournalInv, SeqsAreGapless
<1>13. OneMethod'
  BY <1>3, <1>9 DEF OneMethod, Busy
<1>14. MemoFits'
  <2>1. \A g \in Handles : handle[g].phase \in {"open", "writing"} => handle[g].size = 2 * handle[g].seq
    BY DEF JournalInv, MemoFits
  <2>2. \A g \in Handles : handle[g].phase # "scanned"
    BY <1>3 DEF Busy
  <2>3. \A g \in Handles : g = h \/ handle'[g] = handle[g]
    BY <1>9
  <2>4. x.size = 2 * x.seq
    BY <1>2, <1>7, <2>1
  <2>5. QED
    BY <1>7, <1>9, <2>1, <2>2, <2>3, <2>4 DEF MemoFits
<1>15. tears' = 0
  BY <1>1 DEF JournalInv, NothingBehindATear, TimelineTypes
<1>16. WriterInv'
  <2>1. \A g \in Handles : handle'[g].phase = "writing" => g = h
    BY <1>3, <1>9 DEF Busy
  <2>2. QED
    BY <1>1, <1>5, <1>7, <1>9, <1>15, <2>1 DEF WriterInv
<1>17. TruthInv'
  <2>1. \A v \in Views : truth[v] = ProjectOf(journal, v)
    BY <1>1 DEF JournalInv, TruthInv
  <2>2. h # NoHandle
    BY TimelineAssumption
  <2>3. handle'[h].event.win = w
    BY <1>5, <1>7, <1>9
  <2>4. \A v \in Views : truth'[v] = IF w = v THEN After(ProjectOf(journal, v), e)
                                              ELSE ProjectOf(journal, v)
    BY <1>10, <2>1
  <2>5. QED
    BY <1>1, <1>7, <1>9, <2>2, <2>3, <2>4 DEF TruthInv
<1>18. NothingBehindATear'
  BY <1>15 DEF NothingBehindATear
<1>19. QED
  BY <1>11, <1>12, <1>13, <1>14, <1>16, <1>17, <1>18 DEF JournalInv

\* What a window's transcript is while nobody writes.
LEMMA TruthIs ==
  ASSUME OneProcess, JournalInv, NEW h \in Handles, CanWork(h), NEW w \in Views
  PROVE  /\ truth[w] = ProjectOf(journal, w) /\ Project(w) = ProjectOf(journal, w)
         /\ truth[w].rows \in Seq(Nat) /\ truth[w].title \in Nat
         /\ truth[w] = [rows |-> truth[w].rows, title |-> truth[w].title]
<1>1. writer = NoHandle
  BY NobodyBusy DEF CanWork
<1>2. truth[w] = ProjectOf(journal, w)
  BY <1>1 DEF JournalInv, TruthInv
<1>3. truth[w] \in Transcripts
  BY DEF JournalInv, TimelineTypes
<1>4. QED
  BY <1>2, <1>3, ProjectIs DEF Transcripts

LEMMA AppendMessageStep ==
  ASSUME OneProcess, JournalInv, NEW h \in Handles, NEW w \in Views, AppendMessage(h, w)
  PROVE  JournalInv'
<1> DEFINE row == Len(journal) + 1
           e == [seq |-> NextSeq(h), win |-> w, kind |-> "message", rows |-> <<row>>, title |-> 0]
<1>1. /\ CanWork(h) /\ Record(h, "message", w, <<row>>, 0)
      /\ memory' = [memory EXCEPT ![h] = Append(@, row)]
      /\ truth' = [truth EXCEPT ![w].rows = Append(@, row)]
  BY DEF AppendMessage
<1>2. row \in Nat /\ <<row>> \in Seq(Nat) /\ <<row>> # <<>> /\ <<row>>[1] = row
  BY LenProperties DEF JournalInv, TimelineTypes
<1> HIDE DEF row
<1>3. memory' \in [Handles -> Seq(Nat)]
  <2>1. Append(memory[h], row) \in Seq(Nat)
    BY <1>2, AppendProperties DEF JournalInv, TimelineTypes
  <2>2. QED
    BY <1>1, <2>1 DEF JournalInv, TimelineTypes
<1>4. truth' = [truth EXCEPT ![w] = After(ProjectOf(journal, w), e)]
  <2> DEFINE p == truth[w]
  <2>1. p = ProjectOf(journal, w) /\ p = [rows |-> p.rows, title |-> p.title]
    BY <1>1, TruthIs
  <2>2. truth' = [truth EXCEPT ![w] = [truth[w] EXCEPT !.rows = Append(truth[w].rows, row)]]
    BY <1>1
  <2> HIDE DEF p
  <2>3. [p EXCEPT !.rows = Append(p.rows, row)] = [rows |-> Append(p.rows, row), title |-> p.title]
    BY <2>1
  <2>4. After(p, e) = [rows |-> Append(p.rows, row), title |-> p.title]
    BY <1>2 DEF After
  <2>5. QED
    BY <2>1, <2>2, <2>3, <2>4 DEF p
<1>5. QED
  BY <1>1, <1>2, <1>3, <1>4, RecordStep

LEMMA RewriteStep ==
  ASSUME OneProcess, JournalInv, NEW h \in Handles, NEW w \in Views, Rewrite(h, w)
  PROVE  JournalInv'
<1> DEFINE p == truth[w]
           new == Tail(p.rows)
           e == [seq |-> NextSeq(h), win |-> w, kind |-> "reset", rows |-> new, title |-> p.title]
<1>0. CanWork(h)
  BY DEF Rewrite
<1>a. /\ Project(w) = p /\ p = ProjectOf(journal, w)
      /\ p.rows \in Seq(Nat) /\ p.title \in Nat /\ p = [rows |-> p.rows, title |-> p.title]
  BY <1>0, TruthIs
<1>1. /\ p.rows # <<>> /\ Record(h, "reset", w, new, p.title)
      /\ memory' = [memory EXCEPT ![h] = new]
      /\ truth' = [truth EXCEPT ![w].rows = new]
  BY <1>a DEF Rewrite
<1>2. new \in Seq(Nat)
  BY <1>1, <1>a, HeadTailProperties
<1>3. memory' \in [Handles -> Seq(Nat)]
  BY <1>1, <1>2 DEF JournalInv, TimelineTypes
<1>4. truth' = [truth EXCEPT ![w] = After(ProjectOf(journal, w), e)]
  <2>2. truth' = [truth EXCEPT ![w] = [truth[w] EXCEPT !.rows = new]]
    BY <1>1
  <2> HIDE DEF p, new
  <2>3. [p EXCEPT !.rows = new] = [rows |-> new, title |-> p.title]
    BY <1>a
  <2>4. After(p, e) = [rows |-> new, title |-> p.title]
    BY DEF After
  <2>5. QED
    BY <1>a, <2>2, <2>3, <2>4 DEF p
<1> HIDE DEF p, new
<1>5. QED
  BY <1>0, <1>a, <1>1, <1>2, <1>3, <1>4, RecordStep

LEMMA AppendMetaStep ==
  ASSUME OneProcess, JournalInv, NEW h \in Handles, NEW w \in Views, AppendMeta(h, w)
  PROVE  JournalInv'
<1> DEFINE p == truth[w]
           n == Len(journal) + 1
           new == p.rows
           e == [seq |-> NextSeq(h), win |-> w, kind |-> "reset", rows |-> new, title |-> n]
<1>0. CanWork(h) /\ n \in Nat
  BY LenProperties DEF AppendMeta, JournalInv, TimelineTypes
<1>a. /\ Project(w) = p /\ p = ProjectOf(journal, w)
      /\ p.rows \in Seq(Nat) /\ p.title \in Nat /\ p = [rows |-> p.rows, title |-> p.title]
  BY <1>0, TruthIs
<1>1. /\ Record(h, "reset", w, new, n)
      /\ memory' = memory
      /\ truth' = [truth EXCEPT ![w].title = n]
  BY <1>a DEF AppendMeta, MetaRows
<1>2. memory' \in [Handles -> Seq(Nat)]
  BY <1>1 DEF JournalInv, TimelineTypes
<1>3. truth' = [truth EXCEPT ![w] = After(ProjectOf(journal, w), e)]
  <2>2. truth' = [truth EXCEPT ![w] = [truth[w] EXCEPT !.title = n]]
    BY <1>1
  <2> HIDE DEF p, n
  <2>3. [p EXCEPT !.title = n] = [rows |-> p.rows, title |-> n]
    BY <1>a
  <2>4. After(p, e) = [rows |-> p.rows, title |-> n]
    BY DEF After
  <2>5. QED
    BY <1>a, <2>2, <2>3, <2>4 DEF p
<1> HIDE DEF p, n
<1>4. QED
  BY <1>0, <1>a, <1>1, <1>2, <1>3, RecordStep

LEMMA ClearViewStep ==
  ASSUME OneProcess, JournalInv, NEW h \in Handles, NEW w \in Views, ClearView(h, w)
  PROVE  JournalInv'
<1> DEFINE e == [seq |-> NextSeq(h), win |-> w, kind |-> "reset", rows |-> <<>>, title |-> 0]
<1>1. /\ CanWork(h) /\ Record(h, "reset", w, <<>>, 0) /\ memory' = memory
      /\ truth' = [truth EXCEPT ![w] = [rows |-> <<>>, title |-> 0]]
  BY DEF ClearView
<1>2. memory' \in [Handles -> Seq(Nat)] /\ <<>> \in Seq(Nat)
  BY <1>1 DEF JournalInv, TimelineTypes
<1>3. After(ProjectOf(journal, w), e) = [rows |-> <<>>, title |-> 0]
  BY DEF After
<1>4. QED
  BY <1>1, <1>2, <1>3, RecordStep
\* A step of h between methods: the file, the lock and the history stay.
LEMMA QuietStep ==
  ASSUME JournalInv, NEW h \in Handles, NEW x \in HandleRecords,
         handle' = [handle EXCEPT ![h] = x],
         UNCHANGED <<journal, torn, writer, tears, truth>>,
         memory' \in [Handles -> Seq(Nat)],
         handle[h].phase # "writing", x.phase # "writing",
         x.phase = "open" => x.size = 2 * x.seq,
         x.phase = "scanned" => ~torn /\ x.seq = Len(journal),
         x.phase = "scanned" => \A g \in Handles : ~Busy(g)
  PROVE  JournalInv'
<1>1. /\ handle' \in [Handles -> HandleRecords] /\ handle'[h] = x
      /\ \A g \in Handles : g # h => handle'[g] = handle[g]
  BY HandleStep DEF JournalInv
<1>2. TimelineTypes' /\ SeqsAreGapless' /\ NothingBehindATear'
  BY <1>1 DEF JournalInv, TimelineTypes, SeqsAreGapless, NothingBehindATear
<1>3. OneMethod'
  <2>1. \A g \in Handles : Busy(g)' => g = h \/ Busy(g)
    BY <1>1 DEF Busy
  <2>2. Busy(h)' => x.phase = "scanned"
    BY <1>1 DEF Busy
  <2>3. ASSUME NEW f \in Handles, NEW g \in Handles, Busy(f)', Busy(g)'
        PROVE  f = g
    BY <2>1, <2>2, <2>3 DEF JournalInv, OneMethod
  <2>4. QED
    BY <2>3 DEF OneMethod
<1>4. MemoFits'
  <2>1. ASSUME NEW g \in Handles
        PROVE  /\ handle'[g].phase \in {"open", "writing"} => handle'[g].size = 2 * handle'[g].seq
               /\ handle'[g].phase = "scanned" => ~torn /\ handle'[g].seq = Len(journal)
    <3>1. CASE g = h
      BY <1>1, <3>1
    <3>2. CASE g # h
      <4>1. handle'[g] = handle[g]
        BY <1>1, <3>2
      <4>2. QED
        BY <4>1 DEF JournalInv, MemoFits
    <3>3. QED
      BY <3>1, <3>2
  <2>2. QED
    BY <2>1 DEF MemoFits
<1>5. writer # h /\ (writer # NoHandle => writer \in Handles /\ handle'[writer] = handle[writer])
  <2>1. writer # NoHandle => writer \in Handles /\ handle[writer].phase = "writing"
    BY DEF JournalInv, TimelineTypes, WriterInv
  <2>2. h # NoHandle
    BY TimelineAssumption
  <2>3. QED
    BY <1>1, <2>1, <2>2
<1>6. WriterInv'
  <2>1. writer' # NoHandle => handle'[writer'].phase = "writing"
    BY <1>5 DEF JournalInv, WriterInv
  <2>2. ASSUME NEW g \in Handles, handle'[g].phase = "writing"
        PROVE  /\ writer' = g /\ torn' /\ tears' = 0
               /\ handle'[g].event \in Events /\ handle'[g].event.seq = Len(journal') + 1
    <3>1. g # h
      BY <1>1, <2>2
    <3>2. handle'[g] = handle[g]
      BY <1>1, <3>1
    <3>3. QED
      BY <2>2, <3>2 DEF JournalInv, WriterInv
  <2>3. QED
    BY <2>1, <2>2 DEF WriterInv
<1>7. TruthInv'
  <2>1. \A w \in Views :
          truth[w] = IF writer # NoHandle /\ handle[writer].event.win = w
                     THEN After(ProjectOf(journal, w), handle[writer].event)
                     ELSE ProjectOf(journal, w)
    BY DEF JournalInv, TruthInv
  <2>2. CASE writer = NoHandle
    BY <2>1, <2>2 DEF TruthInv
  <2>3. CASE writer # NoHandle
    BY <1>5, <2>1, <2>3 DEF TruthInv
  <2>4. QED
    BY <2>2, <2>3
<1>8. QED
  BY <1>2, <1>3, <1>4, <1>6, <1>7 DEF JournalInv

\* A closed handle.
LEMMA ClosedIs ==
  /\ Closed \in HandleRecords /\ Closed.phase = "closed" /\ Closed.event = NoEvent
  /\ Closed.size = 0 /\ Closed.seq = 0
BY DEF Closed, HandleRecords

LEMMA OpenScanStep ==
  ASSUME OneProcess, JournalInv, NEW h \in Handles, OpenScan(h)
  PROVE  JournalInv'
<1> DEFINE x == [Closed EXCEPT !.phase = "scanned", !.seq = LastSeq]
<1>1. /\ handle[h].phase = "closed" /\ NoMethodRuns(h) /\ ~torn
      /\ handle' = [handle EXCEPT ![h] = x]
      /\ UNCHANGED <<journal, torn, writer, memory, tears, truth>>
  BY DEF OpenScan, Readable
<1>2. \A g \in Handles : ~Busy(g)
  BY <1>1, NobodyBusy
<1>3. LastSeq = Len(journal) /\ Len(journal) \in Nat
  BY LastSeqIs DEF JournalInv
<1>4. x \in HandleRecords /\ x.phase = "scanned" /\ x.seq = Len(journal)
  BY <1>3 DEF Closed, HandleRecords
<1> HIDE DEF x
<1>5. memory' \in [Handles -> Seq(Nat)]
  BY <1>1 DEF JournalInv, TimelineTypes
<1>6. QED
  BY <1>1, <1>2, <1>4, <1>5, QuietStep

LEMMA OpenStatStep ==
  ASSUME OneProcess, JournalInv, NEW h \in Handles, OpenStat(h)
  PROVE  JournalInv'
<1> DEFINE x == [handle[h] EXCEPT !.phase = "open", !.size = Size]
<1>1. /\ handle[h].phase = "scanned"
      /\ handle' = [handle EXCEPT ![h].phase = "open", ![h].size = Size]
      /\ UNCHANGED <<journal, torn, writer, memory, tears, truth>>
  BY DEF OpenStat
<1>2. ~torn /\ handle[h].seq = Len(journal) /\ Len(journal) \in Nat
  BY <1>1, LenProperties DEF JournalInv, MemoFits, TimelineTypes
<1>3. Size = 2 * Len(journal) /\ Size \in Nat
  BY <1>2 DEF Size
<1>4. handle[h] \in HandleRecords
  BY DEF JournalInv, TimelineTypes
<1>5. x \in HandleRecords /\ x.phase = "open" /\ x.size = 2 * x.seq
  BY <1>2, <1>3, <1>4 DEF HandleRecords
<1>6. handle' = [handle EXCEPT ![h] = x]
  BY <1>1
<1> HIDE DEF x
<1>7. memory' \in [Handles -> Seq(Nat)]
  BY <1>1 DEF JournalInv, TimelineTypes
<1>8. QED
  BY <1>1, <1>5, <1>6, <1>7, QuietStep

LEMMA CloseStep ==
  ASSUME OneProcess, JournalInv, NEW h \in Handles, Close(h)
  PROVE  JournalInv'
<1>1. /\ handle[h].phase = "open" /\ handle' = [handle EXCEPT ![h] = Closed]
      /\ memory' = [memory EXCEPT ![h] = <<>>]
      /\ UNCHANGED <<journal, torn, writer, tears, truth>>
  BY DEF Close, CanWork
<1>2. memory' \in [Handles -> Seq(Nat)]
  BY <1>1 DEF JournalInv, TimelineTypes
<1>3. QED
  BY <1>1, <1>2, ClosedIs, QuietStep

LEMMA LoadStep ==
  ASSUME OneProcess, JournalInv, NEW h \in Handles, NEW w \in Views, Load(h, w)
  PROVE  JournalInv'
<1>1. /\ handle[h].phase = "open" /\ CanWork(h) /\ memory' = [memory EXCEPT ![h] = Project(w).rows]
      /\ UNCHANGED <<journal, torn, writer, handle, tears, truth>>
  BY DEF Load, CanWork
<1>2. Project(w).rows \in Seq(Nat)
  BY <1>1, TruthIs
<1>3. memory' \in [Handles -> Seq(Nat)]
  BY <1>1, <1>2 DEF JournalInv, TimelineTypes
<1>4. handle' = [handle EXCEPT ![h] = handle[h]] /\ handle[h] \in HandleRecords
  BY <1>1 DEF JournalInv, TimelineTypes
<1>5. handle[h].size = 2 * handle[h].seq
  BY <1>1 DEF JournalInv, MemoFits
<1>6. QED
  BY <1>1, <1>3, <1>4, <1>5, QuietStep

\* The handle that writes, and the transcripts meanwhile.
LEMMA WriterIs ==
  ASSUME JournalInv, NEW h \in Handles, handle[h].phase = "writing"
  PROVE  /\ writer = h /\ torn /\ tears = 0
         /\ handle[h].event \in Events /\ handle[h].event.seq = Len(journal) + 1
         /\ handle[h].event.win \in Views
         /\ handle[h] \in HandleRecords /\ handle[h].size = 2 * handle[h].seq
         /\ \A g \in Handles : g # h => ~Busy(g)
         /\ \A w \in Views :
              truth[w] = IF handle[h].event.win = w
                         THEN After(ProjectOf(journal, w), handle[h].event)
                         ELSE ProjectOf(journal, w)
<1>1. /\ writer = h /\ torn /\ tears = 0
      /\ handle[h].event \in Events /\ handle[h].event.seq = Len(journal) + 1
  BY DEF JournalInv, WriterInv
<1>2. h # NoHandle
  BY TimelineAssumption
<1>3. \A g \in Handles : g # h => ~Busy(g)
  BY DEF JournalInv, OneMethod, Busy
<1>4. \A w \in Views :
         truth[w] = IF handle[h].event.win = w
                    THEN After(ProjectOf(journal, w), handle[h].event)
                    ELSE ProjectOf(journal, w)
  BY <1>1, <1>2 DEF JournalInv, TruthInv
<1>5. handle[h] \in HandleRecords /\ handle[h].size = 2 * handle[h].seq
  BY DEF JournalInv, TimelineTypes, MemoFits
<1>6. QED
  BY <1>1, <1>3, <1>4, <1>5, EventIs

\* The writer is done, or failed: nobody is in a method.
LEMMA WriterLeaves ==
  ASSUME TimelineTypes', writer' = NoHandle, SeqsAreGapless', NothingBehindATear',
         \A g \in Handles : handle'[g].phase \notin {"scanned", "writing"},
         \A g \in Handles : handle'[g].phase = "open" => handle'[g].size = 2 * handle'[g].seq,
         \A w \in Views : truth'[w] = ProjectOf(journal', w)
  PROVE  JournalInv'
<1>1. OneMethod'
  BY DEF OneMethod, Busy
<1>2. MemoFits'
  BY DEF MemoFits
<1>3. WriterInv'
  BY DEF WriterInv
<1>4. TruthInv'
  BY DEF TruthInv
<1>5. QED
  BY <1>1, <1>2, <1>3, <1>4 DEF JournalInv

LEMMA WriteDoneStep ==
  ASSUME JournalInv, NEW h \in Handles, WriteDone(h)
  PROVE  JournalInv'
<1> DEFINE e == handle[h].event
           n == Len(journal)
           x == [phase |-> "open", size |-> 2 * n + 2, seq |-> e.seq, event |-> NoEvent]
<1>1. /\ handle[h].phase = "writing" /\ journal' = Append(journal, e) /\ torn' = FALSE
      /\ writer' = NoHandle /\ handle' = [handle EXCEPT ![h] = x]
      /\ UNCHANGED <<memory, tears, truth>>
  BY DEF WriteDone
<1>2. /\ tears = 0 /\ e \in Events /\ e.seq = n + 1
      /\ \A g \in Handles : g # h => ~Busy(g)
      /\ \A w \in Views : truth[w] = IF e.win = w THEN After(ProjectOf(journal, w), e)
                                                  ELSE ProjectOf(journal, w)
  BY <1>1, WriterIs
<1>3. journal \in Seq(Events) /\ n \in Nat /\ DOMAIN journal = 1..n
  BY LenProperties DEF JournalInv, TimelineTypes
<1> HIDE DEF e, n
<1>4. x \in HandleRecords /\ x.phase = "open" /\ x.size = 2 * x.seq
  BY <1>2, <1>3 DEF HandleRecords
<1> HIDE DEF x
<1>5. /\ handle' \in [Handles -> HandleRecords] /\ handle'[h] = x
      /\ \A g \in Handles : g # h => handle'[g] = handle[g]
  BY <1>1, <1>4, HandleStep DEF JournalInv
<1>6. /\ journal' \in Seq(Events) /\ DOMAIN journal' = 1..(n + 1)
      /\ \A i \in 1..n : journal'[i] = journal[i]
      /\ journal'[n + 1] = e
  BY <1>1, <1>2, <1>3, AppendProperties, LenProperties DEF n
<1>7. TimelineTypes'
  BY <1>1, <1>5, <1>6 DEF JournalInv, TimelineTypes
<1>8. SeqsAreGapless'
  <2>1. \A i \in 1..n : journal[i].seq = i
    BY <1>3 DEF JournalInv, SeqsAreGapless
  <2>2. \A i \in 1..(n + 1) : i \in 1..n \/ i = n + 1
    BY <1>3
  <2>3. QED
    BY <1>2, <1>6, <2>1, <2>2 DEF SeqsAreGapless
<1>9. NothingBehindATear'
  BY <1>1, <1>2 DEF NothingBehindATear
<1>10. \A g \in Handles : handle'[g].phase \notin {"scanned", "writing"}
  <2>1. \A g \in Handles : g = h \/ (handle'[g] = handle[g] /\ ~Busy(g))
    BY <1>2, <1>5
  <2>2. QED
    BY <1>4, <1>5, <2>1 DEF Busy
<1>11. \A g \in Handles : handle'[g].phase = "open" => handle'[g].size = 2 * handle'[g].seq
  <2>1. \A g \in Handles : g = h \/ handle'[g] = handle[g]
    BY <1>5
  <2>2. QED
    BY <1>4, <1>5, <2>1 DEF JournalInv, MemoFits
<1>12. \A w \in Views : truth'[w] = ProjectOf(journal', w)
  BY <1>1, <1>2, <1>3, ProjectAppend
<1>13. QED
  BY <1>1, <1>7, <1>8, <1>9, <1>10, <1>11, <1>12, WriterLeaves

\* What is left of the history when the append of h never was.
LEMMA UndoneIs ==
  ASSUME JournalInv, NEW h \in Handles, handle[h].phase = "writing"
  PROVE  /\ Undone(h) \in [Views -> Transcripts]
         /\ \A w \in Views : Undone(h)[w] = ProjectOf(journal, w)
<1> DEFINE v == handle[h].event.win
<1>1. /\ v \in Views
      /\ \A w \in Views : w # v => truth[w] = ProjectOf(journal, w)
  BY WriterIs
<1>2. journal \in Seq(Events) /\ truth \in [Views -> Transcripts]
  BY DEF JournalInv, TimelineTypes
<1>3. ProjectOf(journal, v) \in Transcripts
  BY <1>1, <1>2, ProjectType
<1>4. Undone(h) = [truth EXCEPT ![v] = ProjectOf(journal, v)]
  BY ProjectIs DEF Undone
<1> HIDE DEF v
<1>5. QED
  BY <1>1, <1>2, <1>3, <1>4

LEMMA WriteFailsStep ==
  ASSUME JournalInv, NEW h \in Handles, WriteFails(h)
  PROVE  JournalInv'
<1> DEFINE x == [handle[h] EXCEPT !.phase = "open", !.event = NoEvent]
<1>1. /\ handle[h].phase = "writing" /\ tears' = tears + 1 /\ writer' = NoHandle
      /\ handle' = [handle EXCEPT ![h].phase = "open", ![h].event = NoEvent]
      /\ truth' = Undone(h)
      /\ UNCHANGED <<journal, torn, memory>>
  BY DEF WriteFails
<1>2. /\ torn /\ tears = 0 /\ handle[h] \in HandleRecords /\ handle[h].size = 2 * handle[h].seq
      /\ \A g \in Handles : g # h => ~Busy(g)
  BY <1>1, WriterIs
<1>3. x \in HandleRecords /\ x.phase = "open" /\ x.size = 2 * x.seq
  BY <1>2 DEF HandleRecords
<1>4. handle' = [handle EXCEPT ![h] = x]
  BY <1>1
<1> HIDE DEF x
<1>5. /\ handle' \in [Handles -> HandleRecords] /\ handle'[h] = x
      /\ \A g \in Handles : g # h => handle'[g] = handle[g]
  BY <1>3, <1>4, HandleStep DEF JournalInv
<1>6. truth' \in [Views -> Transcripts] /\ \A w \in Views : truth'[w] = ProjectOf(journal', w)
  BY <1>1, UndoneIs
<1>7. TimelineTypes' /\ SeqsAreGapless' /\ NothingBehindATear'
  BY <1>1, <1>2, <1>5, <1>6
     DEF JournalInv, TimelineTypes, SeqsAreGapless, NothingBehindATear
<1>8. \A g \in Handles : handle'[g].phase \notin {"scanned", "writing"}
  <2>1. \A g \in Handles : g = h \/ (handle'[g] = handle[g] /\ ~Busy(g))
    BY <1>2, <1>5
  <2>2. QED
    BY <1>3, <1>5, <2>1 DEF Busy
<1>9. \A g \in Handles : handle'[g].phase = "open" => handle'[g].size = 2 * handle'[g].seq
  <2>1. \A g \in Handles : g = h \/ handle'[g] = handle[g]
    BY <1>5
  <2>2. QED
    BY <1>3, <1>5, <2>1 DEF JournalInv, MemoFits
<1>10. QED
  BY <1>1, <1>6, <1>7, <1>8, <1>9, WriterLeaves

LEMMA CrashStep ==
  ASSUME OneProcess, JournalInv, NEW h \in Handles, Crash(h)
  PROVE  JournalInv'
<1> DEFINE dead == {g \in Handles : ProcOf[g] = ProcOf[h]}
           lost == {g \in dead : handle[g].phase = "writing"}
<1>1. /\ handle' = [g \in Handles |-> IF g \in dead THEN Closed ELSE handle[g]]
      /\ memory' = [g \in Handles |-> IF g \in dead THEN <<>> ELSE memory[g]]
      /\ writer' = IF writer \in dead THEN NoHandle ELSE writer
      /\ tears' = IF lost = {} THEN tears ELSE tears + 1
      /\ truth' = IF lost = {} THEN truth ELSE Undone(CHOOSE g \in lost : TRUE)
      /\ UNCHANGED <<journal, torn>>
  BY DEF Crash
<1>2. dead = Handles
  BY DEF OneProcess
<1>3. \A g \in Handles : g \in lost <=> handle[g].phase = "writing"
  BY <1>2
<1>4. lost \subseteq Handles
  OBVIOUS
<1> HIDE DEF dead, lost
<1>5. /\ handle' \in [Handles -> HandleRecords] /\ \A g \in Handles : handle'[g] = Closed
      /\ memory' \in [Handles -> Seq(Nat)]
  BY <1>1, <1>2, ClosedIs
<1>6. writer' = NoHandle
  BY <1>1, <1>2 DEF JournalInv, TimelineTypes
<1>7. /\ truth' \in [Views -> Transcripts] /\ \A w \in Views : truth'[w] = ProjectOf(journal', w)
      /\ tears' \in Nat /\ (tears' > 0 => torn)
  <2>1. CASE lost = {}
    <3>1. writer = NoHandle
      BY <1>3, <2>1 DEF JournalInv, TimelineTypes, WriterInv
    <3>2. QED
      BY <1>1, <2>1, <3>1 DEF JournalInv, TimelineTypes, TruthInv, NothingBehindATear
  <2>2. CASE lost # {}
    <3> DEFINE g == CHOOSE f \in lost : TRUE
    <3>1. g \in lost
      BY <2>2
    <3> HIDE DEF g
    <3>2. g \in Handles /\ handle[g].phase = "writing"
      BY <1>3, <1>4, <3>1
    <3>3. truth' = Undone(g) /\ tears' = tears + 1
      BY <1>1, <2>2 DEF g
    <3>4. /\ Undone(g) \in [Views -> Transcripts]
          /\ \A w \in Views : Undone(g)[w] = ProjectOf(journal, w)
      BY <3>2, UndoneIs
    <3>5. torn /\ tears = 0
      BY <3>2, WriterIs
    <3>6. journal' = journal /\ torn' = torn
      BY <1>1
    <3>7. tears' \in Nat /\ tears' = 1
      BY <3>3, <3>5
    <3>8. \A w \in Views : truth'[w] = ProjectOf(journal', w)
      BY <3>3, <3>4, <3>6
    <3>9. QED
      BY <3>3, <3>4, <3>5, <3>6, <3>7, <3>8
  <2>3. QED
    BY <2>1, <2>2
<1>8. TimelineTypes'
  BY <1>1, <1>5, <1>6, <1>7 DEF JournalInv, TimelineTypes
<1>9. SeqsAreGapless' /\ NothingBehindATear'
  BY <1>1, <1>6, <1>7 DEF JournalInv, SeqsAreGapless, NothingBehindATear
<1>10. \A g \in Handles : handle'[g].phase = "closed"
  BY <1>5, ClosedIs
<1>11. QED
  BY <1>6, <1>7, <1>8, <1>9, <1>10, WriterLeaves

-----------------------------------------------------------------------------
(* The theorem                                                             *)

LEMMA InitTimeline == TimelineInit => JournalInv
<1> SUFFICES ASSUME TimelineInit PROVE JournalInv
  OBVIOUS
<1>1. /\ journal = <<>> /\ torn = FALSE /\ writer = NoHandle /\ tears = 0
      /\ handle = [h \in Handles |-> Closed] /\ memory = [h \in Handles |-> <<>>]
      /\ truth = [w \in Views |-> [rows |-> <<>>, title |-> 0]]
  BY DEF TimelineInit
<1>2. <<>> \in Seq(Events) /\ <<>> \in Seq(Nat) /\ Len(<<>>) = 0 /\ DOMAIN <<>> = {}
  OBVIOUS
<1>3. TimelineTypes
  BY <1>1, <1>2, ClosedIs DEF TimelineTypes, Transcripts
<1>4. SeqsAreGapless /\ NothingBehindATear
  BY <1>1, <1>2 DEF SeqsAreGapless, NothingBehindATear
<1>5. OneMethod /\ MemoFits /\ WriterInv
  BY <1>1, ClosedIs DEF OneMethod, MemoFits, WriterInv, Busy
<1>6. ASSUME NEW w \in Views
      PROVE  ProjectOf(journal, w) = [rows |-> <<>>, title |-> 0]
  <2>1. BasisOf(journal, w) = 0
    <3>1. {0} \cup Resets(journal, w) = {0}
      BY <1>1, <1>2 DEF Resets
    <3>2. Max({0}) = 0
      BY MaxIs
    <3>3. QED
      BY <3>1, <3>2 DEF BasisOf
  <2>2. MessagesOf(journal, w, 0) = <<>>
    BY <1>1, <1>2, MessagesAtEnd
  <2>3. QED
    BY <2>1, <2>2 DEF ProjectOf
<1>7. TruthInv
  BY <1>1, <1>6 DEF TruthInv
<1>8. QED
  BY <1>3, <1>4, <1>5, <1>7 DEF JournalInv

LEMMA TimelineStep == OneProcess /\ JournalInv /\ [TimelineNext]_timelineVars => JournalInv'
<1> SUFFICES ASSUME OneProcess, JournalInv, [TimelineNext]_timelineVars PROVE JournalInv'
  OBVIOUS
<1>1. ASSUME NEW h \in Handles, OpenScan(h) \/ OpenStat(h) \/ Close(h)
      PROVE  JournalInv'
  BY <1>1, OpenScanStep, OpenStatStep, CloseStep
<1>2. ASSUME NEW h \in Handles, WriteDone(h) \/ WriteFails(h) \/ Crash(h)
      PROVE  JournalInv'
  BY <1>2, WriteDoneStep, WriteFailsStep, CrashStep
<1>3. ASSUME NEW h \in Handles, NEW w \in Views,
             Load(h, w) \/ AppendMessage(h, w) \/ Rewrite(h, w) \/ AppendMeta(h, w) \/ ClearView(h, w)
      PROVE  JournalInv'
  BY <1>3, LoadStep, AppendMessageStep, RewriteStep, AppendMetaStep, ClearViewStep
<1>4. CASE UNCHANGED timelineVars
  <2>1. UNCHANGED <<journal, torn, writer, handle, memory, tears, truth>>
    BY <1>4 DEF timelineVars
  <2>2. TimelineTypes' /\ SeqsAreGapless' /\ OneMethod' /\ MemoFits'
    BY <2>1 DEF JournalInv, TimelineTypes, SeqsAreGapless, OneMethod, MemoFits, Busy
  <2>3. WriterInv' /\ TruthInv' /\ NothingBehindATear'
    BY <2>1 DEF JournalInv, WriterInv, TruthInv, NothingBehindATear
  <2>4. QED
    BY <2>2, <2>3 DEF JournalInv
<1>5. QED
  BY <1>1, <1>2, <1>3, <1>4 DEF TimelineNext

LEMMA JournalInvIsSafe == JournalInv => TimelineSafe
<1>1. JournalInv => ProjectionIsTruth
  BY ProjectIs DEF JournalInv, TruthInv, ProjectionIsTruth
<1>2. QED
  BY <1>1 DEF JournalInv, TimelineSafe

\* The journal of one process stays readable, its projection is the transcript
\* whatever handles are open and however stale they are, and nothing is written
\* behind an append that died half-way (bots/timeline.py).
THEOREM JournalIsSafe == OneProcess => (TimelineSpec => []TimelineSafe)
<1> SUFFICES ASSUME OneProcess PROVE TimelineSpec => []TimelineSafe
  OBVIOUS
<1>1. TimelineInit => JournalInv
  BY InitTimeline
<1>2. JournalInv /\ [TimelineNext]_timelineVars => JournalInv'
  BY TimelineStep
<1>3. JournalInv => TimelineSafe
  BY JournalInvIsSafe
<1>4. QED
  BY <1>1, <1>2, <1>3, PTL DEF TimelineSpec

-----------------------------------------------------------------------------
(***************************************************************************)
(* The safety of the room cursors, for any roster, bounds and failures.    *)
(*                                                                         *)
(* RoomInv is inductive.  It says of a cursor, and of the one that a turn  *)
(* will leave, where what was read lies (Covers, Beyond, Unmatched): a row *)
(* that was read is before a cursor that matches, and all rows before it   *)
(* were read.  A new row keeps this because its number was in no room      *)
(* before (Used).                                                          *)
(***************************************************************************)
RoomRows == [by : Members \cup {User}, n : Nat]
RoomCursors == [count : Nat, last : Nat]
RoomTurns == [step : {"idle", "loaded", "setup", "run"}, kind : {"none", "user", "retry", "mail"},
              given : SUBSET Nat, after : RoomCursors, row : Nat, armed : BOOLEAN,
              compacted : BOOLEAN]

RoomTypes ==
    /\ room \in Seq(RoomRows)
    /\ lastRow \in Nat
    /\ cursor \in [Members -> RoomCursors]
    /\ rturn \in [Members -> RoomTurns]
    /\ seen \in [Members -> SUBSET Nat]

\* The numbers that no new row will have.
Used(m, turns) ==
    {n \in 0..m : \A b \in Members : turns[b].step = "loaded" => turns[b].row # n}

\* All rows before a cursor that matches were read, ...
Covers(items, c, S) == Matches(items, c) => \A i \in 1..c.count : items[i].n \in S
\* ... none behind it, ...
Beyond(items, c, S) ==
    Matches(items, c) => \A i \in DOMAIN items : i > c.count => items[i].n \notin S
\* ... and with a cursor that does not match nothing that is there.
Unmatched(items, c, S) == ~Matches(items, c) => \A i \in DOMAIN items : items[i].n \notin S

\* What a bot will have seen when its turn t succeeds.
WillSee(t, S) == S \cup t.given \cup ({t.row} \ {0})

\* A cursor c of b that has seen S; M: those whose cursor the room has left behind.
CursorIs(items, c, S, b, M) ==
    /\ Covers(items, c, S)
    /\ b \notin M => Beyond(items, c, S) /\ Unmatched(items, c, S)
\* A turn that has read the room and not yet written the user's row.
LoadedTurn(t, items, S, b, M, m) ==
    /\ t.kind = "user" /\ t.row \in 1..m /\ t.after.last = t.row
    /\ t.after.count \in 1..(Len(items) + 1)
    /\ \A i \in 1..(t.after.count - 1) : items[i].n \in S \cup t.given
    /\ b \notin M => Len(items) = t.after.count - 1
\* A turn at work, of b with the cursor c.
WorkingTurn(t, items, c, S, b, M, U) ==
    /\ t.after.last \in U /\ t.row \in U
    /\ Covers(items, t.after, WillSee(t, S)) /\ Beyond(items, t.after, WillSee(t, S))
    /\ b \notin M => Unmatched(items, t.after, WillSee(t, S))
    /\ t.after = NoCursor => c = NoCursor
BotInv(b, t, items, c, S, M, m, U) ==
    /\ c.last \in U /\ S \subseteq U /\ t.given \subseteq U
    /\ t.step = "idle" => t = NoTurn
    /\ CursorIs(items, c, S, b, M)
    /\ t.step = "loaded" => LoadedTurn(t, items, S, b, M, m)
    /\ t.step \in {"setup", "run"} => WorkingTurn(t, items, c, S, b, M, U)

Answers(t) == t.kind \in {"user", "retry"}
OneAnswer == \A b, c \in Members : Answers(rturn[b]) /\ Answers(rturn[c]) => b = c
RecallInv == RecallIsOwed /\ \A b \in Members : rturn[b].compacted => b \in recalls

RoomInv ==
    /\ RoomTypes /\ OneAnswer /\ RecallInv
    /\ \A i \in DOMAIN room : room[i].n \in Used(lastRow, rturn)
    /\ \A b \in Members : BotInv(b, rturn[b], Public(room, b), cursor[b], seen[b], moved,
                                 lastRow, Used(lastRow, rturn))

-----------------------------------------------------------------------------
(* What a bot finds in the room                                            *)

LEMMA PublicIs ==
  ASSUME NEW s \in Seq(RoomRows), NEW b
  PROVE  /\ Public(s, b) \in Seq(RoomRows)
         /\ Len(Public(s, b)) \in Nat /\ DOMAIN Public(s, b) = 1..Len(Public(s, b))
         /\ \A i \in DOMAIN Public(s, b) : \E k \in DOMAIN s : Public(s, b)[i] = s[k]
<1> DEFINE P == {i \in DOMAIN s : s[i].by # b}
<1>1. P \in SUBSET DOMAIN s
  OBVIOUS
<1>2. Public(s, b) = KeptAt(s, P)
  BY DEF Public
<1> HIDE DEF P
<1>3. KeptAt(s, P) \in Seq(RoomRows)
      /\ \A j \in DOMAIN KeptAt(s, P) : Nth(P, j) \in P /\ KeptAt(s, P)[j] = s[Nth(P, j)]
  BY <1>1, KeptIsSeq
<1>4. Len(KeptAt(s, P)) \in Nat /\ DOMAIN KeptAt(s, P) = 1..Len(KeptAt(s, P))
  BY <1>3, LenProperties
<1>5. QED
  BY <1>1, <1>2, <1>3, <1>4

\* A row of b itself is none that it reads, ...
LEMMA PublicOwn ==
  ASSUME NEW s \in Seq(RoomRows), NEW y \in RoomRows, NEW b, y.by = b
  PROVE  Public(Append(s, y), b) = Public(s, b)
<1>1. /\ Len(s) \in Nat /\ DOMAIN s = 1..Len(s) /\ DOMAIN Append(s, y) = 1..(Len(s) + 1)
      /\ \A i \in 1..Len(s) : Append(s, y)[i] = s[i]
      /\ Append(s, y)[Len(s) + 1] = y
  BY LenProperties, AppendProperties
<1> DEFINE P == {i \in DOMAIN s : s[i].by # b}
           Q == {i \in DOMAIN Append(s, y) : Append(s, y)[i].by # b}
<1>2. Q = P
  <2>1. \A i \in 1..(Len(s) + 1) : i \in 1..Len(s) \/ i = Len(s) + 1
    BY <1>1
  <2>2. \A i : i \in Q <=> i \in P
    BY <1>1, <2>1
  <2>3. QED
    BY <2>2
<1>3. P \in SUBSET DOMAIN s
  OBVIOUS
<1>4. Public(Append(s, y), b) = KeptAt(Append(s, y), Q) /\ Public(s, b) = KeptAt(s, P)
  BY DEF Public
<1> HIDE DEF P, Q
<1>5. QED
  BY <1>2, <1>3, <1>4, KeptOfOld

\* ... and any other comes last.
LEMMA PublicOther ==
  ASSUME NEW s \in Seq(RoomRows), NEW y \in RoomRows, NEW b, y.by # b
  PROVE  Public(Append(s, y), b) = Append(Public(s, b), y)
<1>1. /\ Len(s) \in Nat /\ DOMAIN s = 1..Len(s) /\ DOMAIN Append(s, y) = 1..(Len(s) + 1)
      /\ \A i \in 1..Len(s) : Append(s, y)[i] = s[i]
      /\ Append(s, y)[Len(s) + 1] = y
  BY LenProperties, AppendProperties
<1> DEFINE P == {i \in DOMAIN s : s[i].by # b}
           Q == {i \in DOMAIN Append(s, y) : Append(s, y)[i].by # b}
<1>2. Q = P \cup {Len(s) + 1}
  <2>1. \A i : i \in 1..(Len(s) + 1) <=> i \in 1..Len(s) \/ i = Len(s) + 1
    BY <1>1
  <2>2. \A i : i \in Q <=> i \in P \cup {Len(s) + 1}
    BY <1>1, <2>1
  <2>3. QED
    BY <2>2
<1>3. P \in SUBSET DOMAIN s
  OBVIOUS
<1>4. Public(Append(s, y), b) = KeptAt(Append(s, y), Q) /\ Public(s, b) = KeptAt(s, P)
  BY DEF Public
<1> HIDE DEF P, Q
<1>5. QED
  BY <1>2, <1>3, <1>4, KeptWithNew

\* What is kept of a prefix is a prefix of what is kept.
LEMMA KeptOfPrefix ==
  ASSUME NEW T, NEW s \in Seq(T), NEW P \in SUBSET DOMAIN s, NEW m \in 0..Len(s),
         NEW Q \in SUBSET P, \A i \in P : i \in Q <=> i <= m
  PROVE  /\ Cardinality(Q) \in Nat /\ Cardinality(P) \in Nat /\ Cardinality(Q) <= Cardinality(P)
         /\ \A j \in 1..Cardinality(Q) : Nth(Q, j) = Nth(P, j)
<1>1. /\ P \in SUBSET Nat /\ IsFiniteSet(P)
  BY PositionsFinite
<1>2. Q \in SUBSET Nat /\ IsFiniteSet(Q)
  BY <1>1, FS_Subset
<1>3. m \in Nat
  BY LenProperties
<1>4. /\ Cardinality(Q) \in Nat /\ Cardinality(P) \in Nat /\ Cardinality(Q) <= Cardinality(P)
  BY <1>1, <1>2, FS_CardinalityType, FS_Subset
<1>5. ASSUME NEW j \in 1..Cardinality(Q)
      PROVE  Nth(Q, j) = Nth(P, j)
  <2> DEFINE x == Nth(Q, j)
             y == Nth(P, j)
  <2>1. x \in Q /\ Rank(Q, x) = j
    BY <1>2, NthIs
  <2>2. j \in 1..Cardinality(P)
    BY <1>4
  <2>3. y \in P /\ Rank(P, y) = j
    BY <1>1, <2>2, NthIs
  <2>4. m \in Nat /\ x \in Nat /\ y \in Nat /\ x \in P
    BY <1>1, <1>3, <2>1, <2>3
  <2>5. {k \in Q : k <= x} = {k \in P : k <= x}
    <3>1. x <= m
      BY <2>1, <2>4
    <3>2. \A k \in P : k <= x => k <= m
      BY <1>1, <2>4, <3>1
    <3>3. QED
      BY <3>2
  <2>6. Rank(P, x) = j
    BY <2>1, <2>5 DEF Rank
  <2> HIDE DEF x, y
  <2>7. ~(x < y) /\ ~(y < x)
    <3>1. x < y => Rank(P, x) < Rank(P, y)
      BY <1>1, <2>3, <2>4, RankGrows
    <3>2. y < x => Rank(P, y) < Rank(P, x)
      BY <1>1, <2>3, <2>4, RankGrows
    <3>3. QED
      BY <2>3, <2>6, <3>1, <3>2
  <2>8. x = y
    BY <2>4, <2>7
  <2>9. QED
    BY <2>8 DEF x, y
<1>6. QED
  BY <1>4, <1>5

\* Numbers of rows are numbers.
LEMMA RowIs ==
  ASSUME NEW items \in Seq(RoomRows)
  PROVE  /\ Len(items) \in Nat /\ DOMAIN items = 1..Len(items)
         /\ \A i \in DOMAIN items : items[i] \in RoomRows /\ items[i].n \in Nat
<1>1. Len(items) \in Nat /\ DOMAIN items = 1..Len(items)
  BY LenProperties
<1>2. \A i \in DOMAIN items : items[i] \in RoomRows
  BY <1>1, ElementOfSeq
<1>3. QED
  BY <1>1, <1>2 DEF RoomRows

-----------------------------------------------------------------------------
(* The delta and the cursor that follows it                                *)

\* The delta is what lies behind a cursor that matches, or everything.
LEMMA DeltaIs ==
  ASSUME NEW items \in Seq(RoomRows), NEW c \in RoomCursors
  PROVE  /\ Numbers(Delta(items, c)) =
              {items[i].n : i \in {k \in DOMAIN items : Matches(items, c) => k > c.count}}
         /\ Delta(items, c) = <<>> =>
              items = <<>> \/ (Matches(items, c) /\ c.count = Len(items))
         /\ Delta(items, c) # <<>> => items # <<>>
<1>1. /\ Len(items) \in Nat /\ DOMAIN items = 1..Len(items)
      /\ \A i \in DOMAIN items : items[i] \in RoomRows
  BY RowIs
<1>2. c.count \in Nat
  BY DEF RoomCursors
<1>3. CASE ~Matches(items, c)
  <2>1. Delta(items, c) = items
    BY <1>3 DEF Delta
  <2>2. Numbers(items) = {items[i].n : i \in DOMAIN items}
    BY <1>1 DEF Numbers, ToSet
  <2>3. {k \in DOMAIN items : Matches(items, c) => k > c.count} = DOMAIN items
    BY <1>3
  <2>4. QED
    BY <1>3, <2>1, <2>2, <2>3
<1>4. CASE Matches(items, c)
  <2> DEFINE d == SubSeq(items, c.count + 1, Len(items))
             k == c.count
  <2>1. Delta(items, c) = d
    BY <1>4 DEF Delta
  <2>2. k \in 1..Len(items)
    BY <1>1, <1>4 DEF Matches
  <2>3. /\ d \in Seq(RoomRows)
        /\ Len(d) = Len(items) - k
        /\ \A i \in 1..(Len(items) - k) : d[i] = items[k + i]
    <3>1. \A i \in (k + 1)..Len(items) : items[i] \in RoomRows
      BY <1>1, <2>2
    <3>2. /\ d \in Seq(RoomRows)
          /\ Len(d) = IF k + 1 <= Len(items) THEN Len(items) - (k + 1) + 1 ELSE 0
          /\ \A i \in 1..(Len(items) - (k + 1) + 1) : d[i] = items[(k + 1) + i - 1]
      <4>1. k + 1 \in Int /\ Len(items) \in Int
        BY <1>1, <1>2
      <4>2. QED
        BY <3>1, <4>1, SubSeqProperties
    <3>3. Len(items) - (k + 1) + 1 = Len(items) - k /\ (~(k + 1 <= Len(items)) => Len(items) - k = 0)
      BY <1>1, <2>2
    <3>4. \A i \in 1..(Len(items) - k) : (k + 1) + i - 1 = k + i
      BY <1>1, <2>2
    <3>5. QED
      BY <3>2, <3>3, <3>4
  <2>4. DOMAIN d = 1..(Len(items) - k)
    BY <2>3, LenProperties
  <2> HIDE DEF d
  <2>5. Numbers(d) = {items[i].n : i \in {j \in DOMAIN items : j > k}}
    <3>1. Numbers(d) = {d[i].n : i \in DOMAIN d}
      BY DEF Numbers, ToSet
    <3>2. \A i \in DOMAIN d : k + i \in DOMAIN items /\ k + i > k /\ d[i].n = items[k + i].n
      BY <1>1, <2>2, <2>3, <2>4
    <3>3. \A j \in DOMAIN items : j > k => j - k \in DOMAIN d /\ k + (j - k) = j
      BY <1>1, <2>2, <2>4
    <3>4. \A n \in Numbers(d) : n \in {items[i].n : i \in {j \in DOMAIN items : j > k}}
      BY <3>1, <3>2
    <3>5. \A j \in DOMAIN items : j > k => items[j].n \in Numbers(d)
      BY <3>1, <3>2, <3>3
    <3>6. QED
      BY <3>4, <3>5
  <2>6. d = <<>> => k = Len(items)
    <3>1. d = <<>> => Len(d) = 0
      BY EmptySeq
    <3>2. QED
      BY <1>1, <2>2, <2>3, <3>1
  <2>7. items # <<>>
    BY <1>1, <2>2, EmptySeq
  <2>8. {j \in DOMAIN items : Matches(items, c) => j > c.count} = {j \in DOMAIN items : j > k}
    BY <1>4
  <2>9. QED
    BY <1>4, <2>1, <2>5, <2>6, <2>7, <2>8
<1>5. QED
  BY <1>3, <1>4

\* What a turn is given and the cursor it gets: everything that is there is
\* read by then, and the cursor is at its end.
LEMMA AfterIs ==
  ASSUME NEW items \in Seq(RoomRows), NEW c \in RoomCursors, NEW S \in SUBSET Nat,
         NEW U, c.last \in U, \A i \in DOMAIN items : items[i].n \in U,
         Covers(items, c, S)
  PROVE  LET given == Numbers(Delta(items, c))
             after == CursorAfter(items, c)
         IN /\ given \in SUBSET Nat /\ given \subseteq U
            /\ after \in RoomCursors /\ after.last \in U
            /\ Covers(items, after, S \cup given) /\ Beyond(items, after, S \cup given)
            /\ Unmatched(items, c, S) => Unmatched(items, after, S \cup given)
            /\ after = NoCursor => c = NoCursor
<1> DEFINE given == Numbers(Delta(items, c))
           after == CursorAfter(items, c)
<1>1. SUFFICES /\ given \in SUBSET Nat /\ given \subseteq U
               /\ after \in RoomCursors /\ after.last \in U
               /\ Covers(items, after, S \cup given) /\ Beyond(items, after, S \cup given)
               /\ Unmatched(items, c, S) => Unmatched(items, after, S \cup given)
               /\ after = NoCursor => c = NoCursor
  OBVIOUS
<1>2. given = Numbers(Delta(items, c)) /\ after = CursorAfter(items, c)
  OBVIOUS
<1> HIDE DEF given, after
<1>3. /\ Len(items) \in Nat /\ DOMAIN items = 1..Len(items)
      /\ \A i \in DOMAIN items : items[i].n \in Nat
  BY RowIs
<1>4. given = {items[i].n : i \in {k \in DOMAIN items : Matches(items, c) => k > c.count}}
  BY <1>2, DeltaIs
<1>5. given \in SUBSET Nat /\ given \subseteq U
  BY <1>3, <1>4
<1>6. CASE Delta(items, c) = <<>>
  <2>1. after = c
    BY <1>2, <1>6 DEF CursorAfter
  <2>2. items = <<>> \/ (Matches(items, c) /\ c.count = Len(items))
    BY <1>6, DeltaIs
  <2>3. items = <<>> => Len(items) = 0
    BY EmptySeq
  <2>4. Covers(items, after, S \cup given)
    BY <2>1 DEF Covers
  <2>5. Beyond(items, after, S \cup given)
    BY <1>3, <2>1, <2>2, <2>3 DEF Beyond
  <2>6. Unmatched(items, c, S) => Unmatched(items, after, S \cup given)
    BY <1>3, <2>1, <2>2, <2>3 DEF Unmatched
  <2>7. QED
    BY <1>5, <2>1, <2>4, <2>5, <2>6
<1>7. CASE Delta(items, c) # <<>>
  <2>1. after = [count |-> Len(items), last |-> Last(items).n]
    BY <1>2, <1>7 DEF CursorAfter
  <2>2. items # <<>>
    BY <1>7, DeltaIs
  <2>3. Len(items) \in DOMAIN items
    BY <1>3, <2>2, EmptySeq
  <2>4. Last(items) = items[Len(items)]
    BY DEF Last
  <2>5. /\ after.count = Len(items) /\ after.last = items[Len(items)].n
        /\ after \in RoomCursors /\ after.last \in U
    BY <1>3, <2>1, <2>3, <2>4 DEF RoomCursors
  <2>6. Matches(items, after)
    BY <2>3, <2>5 DEF Matches
  <2>7. \A i \in DOMAIN items : items[i].n \in S \cup given
    <3>1. \A i \in DOMAIN items : (Matches(items, c) => i > c.count) => items[i].n \in given
      BY <1>4
    <3>2. \A i \in DOMAIN items : Matches(items, c) /\ ~(i > c.count) => i \in 1..c.count
      BY <1>3 DEF RoomCursors
    <3>3. QED
      BY <3>1, <3>2 DEF Covers
  <2>8. Covers(items, after, S \cup given)
    BY <1>3, <2>5, <2>7 DEF Covers
  <2>9. Beyond(items, after, S \cup given)
    BY <1>3, <2>5 DEF Beyond
  <2>10. Unmatched(items, after, S \cup given)
    BY <2>6 DEF Unmatched
  <2>11. after # NoCursor
    BY <1>3, <2>3, <2>5 DEF NoCursor
  <2>12. QED
    BY <1>5, <2>5, <2>8, <2>9, <2>10, <2>11
<1>8. QED
  BY <1>6, <1>7

-----------------------------------------------------------------------------
(* New rows and cuts                                                       *)

\* A new row matches no cursor that did not match, and was not read.
LEMMA ReadAppend ==
  ASSUME NEW items \in Seq(RoomRows), NEW y \in RoomRows, NEW c \in RoomCursors,
         NEW S, y.n \notin S, y.n # c.last
  PROVE  /\ Matches(Append(items, y), c) <=> Matches(items, c)
         /\ Covers(items, c, S) => Covers(Append(items, y), c, S)
         /\ Beyond(items, c, S) => Beyond(Append(items, y), c, S)
         /\ Unmatched(items, c, S) => Unmatched(Append(items, y), c, S)
<1> DEFINE more == Append(items, y)
<1>1. /\ Len(items) \in Nat /\ DOMAIN items = 1..Len(items)
      /\ DOMAIN more = 1..(Len(items) + 1)
      /\ \A i \in 1..Len(items) : more[i] = items[i]
      /\ more[Len(items) + 1] = y
  BY LenProperties, AppendProperties
<1> HIDE DEF more
<1>2. \A i : i \in DOMAIN more <=> i \in DOMAIN items \/ i = Len(items) + 1
  BY <1>1
<1>3. Matches(more, c) <=> Matches(items, c)
  BY <1>1, <1>2 DEF Matches
<1>4. Matches(items, c) => \A i \in 1..c.count : i \in DOMAIN items
  BY <1>1 DEF Matches, RoomCursors
<1>5. Covers(items, c, S) => Covers(more, c, S)
  BY <1>1, <1>3, <1>4 DEF Covers
<1>6. Beyond(items, c, S) => Beyond(more, c, S)
  BY <1>1, <1>2, <1>3 DEF Beyond
<1>7. Unmatched(items, c, S) => Unmatched(more, c, S)
  BY <1>1, <1>2, <1>3 DEF Unmatched
<1>8. QED
  BY <1>3, <1>5, <1>6, <1>7 DEF more

-----------------------------------------------------------------------------
(* A bot while others act                                                  *)

LEMMA NoTurnIs ==
  /\ NoTurn \in RoomTurns /\ NoTurn.step = "idle" /\ NoTurn.kind = "none"
  /\ NoTurn.given = {} /\ NoTurn.row = 0 /\ NoTurn.armed = FALSE /\ NoTurn.compacted = FALSE
  /\ NoTurn.after = NoCursor /\ NoCursor \in RoomCursors
  /\ NoCursor.count = 0 /\ NoCursor.last = 0
BY DEF NoTurn, RoomTurns, NoCursor, RoomCursors

LEMMA TurnIs ==
  ASSUME NEW t \in RoomTurns
  PROVE  /\ t.step \in {"idle", "loaded", "setup", "run"}
         /\ t.kind \in {"none", "user", "retry", "mail"}
         /\ t.given \in SUBSET Nat /\ t.after \in RoomCursors /\ t.row \in Nat
         /\ t.armed \in BOOLEAN /\ t.compacted \in BOOLEAN
BY DEF RoomTurns

\* A row for others to read.
LEMMA BotAppend ==
  ASSUME NEW t \in RoomTurns, NEW items \in Seq(RoomRows), NEW c \in RoomCursors,
         NEW S \in SUBSET Nat, NEW b, NEW M, NEW m \in Nat, NEW U,
         BotInv(b, t, items, c, S, M, m, U),
         NEW y \in RoomRows, y.n \notin U,
         NEW N, b \in M => b \in N, t.step = "loaded" => b \in N,
         NEW k \in Nat, m <= k, NEW V, U \subseteq V
  PROVE  BotInv(b, t, Append(items, y), c, S, N, k, V)
<1>1. /\ c.last \in U /\ S \subseteq U /\ t.given \subseteq U
      /\ t.step = "idle" => t = NoTurn
      /\ CursorIs(items, c, S, b, M)
      /\ t.step = "loaded" => LoadedTurn(t, items, S, b, M, m)
      /\ t.step \in {"setup", "run"} => WorkingTurn(t, items, c, S, b, M, U)
  BY DEF BotInv
<1>2. /\ Len(items) \in Nat /\ Len(Append(items, y)) = Len(items) + 1
      /\ \A i \in 1..Len(items) : Append(items, y)[i] = items[i]
  BY LenProperties, AppendProperties
<1>3. CursorIs(Append(items, y), c, S, b, N)
  <2>1. y.n \notin S /\ y.n # c.last
    BY <1>1
  <2>2. /\ Covers(items, c, S) => Covers(Append(items, y), c, S)
        /\ Beyond(items, c, S) => Beyond(Append(items, y), c, S)
        /\ Unmatched(items, c, S) => Unmatched(Append(items, y), c, S)
    BY <2>1, ReadAppend
  <2>3. QED
    BY <1>1, <2>2 DEF CursorIs
<1>4. ASSUME t.step = "loaded"
      PROVE  LoadedTurn(t, Append(items, y), S, b, N, k)
  <2>1. LoadedTurn(t, items, S, b, M, m)
    BY <1>1, <1>4
  <2>2. t.row \in 1..k
    BY <2>1 DEF LoadedTurn
  <2>3. t.after.count \in 1..(Len(items) + 1)
    BY <2>1 DEF LoadedTurn
  <2>4. t.after.count \in 1..(Len(Append(items, y)) + 1)
    BY <1>2, <2>3
  <2>5. \A i \in 1..(t.after.count - 1) : Append(items, y)[i].n \in S \cup t.given
    <3>1. \A i \in 1..(t.after.count - 1) : i \in 1..Len(items)
      BY <1>2, <2>3
    <3>2. QED
      BY <1>2, <2>1, <3>1 DEF LoadedTurn
  <2>6. QED
    BY <1>4, <2>1, <2>2, <2>4, <2>5 DEF LoadedTurn
<1>5. ASSUME t.step \in {"setup", "run"}
      PROVE  WorkingTurn(t, Append(items, y), c, S, b, N, V)
  <2>1. WorkingTurn(t, items, c, S, b, M, U)
    BY <1>1, <1>5
  <2>2. t.after \in RoomCursors /\ y.n \notin WillSee(t, S) /\ y.n # t.after.last
    BY <1>1, <2>1, TurnIs DEF WorkingTurn, WillSee
  <2>3. /\ Covers(items, t.after, WillSee(t, S)) => Covers(Append(items, y), t.after, WillSee(t, S))
        /\ Beyond(items, t.after, WillSee(t, S)) => Beyond(Append(items, y), t.after, WillSee(t, S))
        /\ Unmatched(items, t.after, WillSee(t, S))
             => Unmatched(Append(items, y), t.after, WillSee(t, S))
    BY <2>2, ReadAppend
  <2>4. QED
    BY <2>1, <2>3 DEF WorkingTurn
<1>6. QED
  BY <1>1, <1>3, <1>4, <1>5 DEF BotInv

\* The room stays.
LEMMA BotSame ==
  ASSUME NEW t \in RoomTurns, NEW items, NEW c, NEW S, NEW b, NEW M, NEW m \in Nat, NEW U,
         BotInv(b, t, items, c, S, M, m, U),
         NEW N, b \in M => b \in N, NEW k \in Nat, m <= k, NEW V, U \subseteq V
  PROVE  BotInv(b, t, items, c, S, N, k, V)
<1>1. CursorIs(items, c, S, b, M) => CursorIs(items, c, S, b, N)
  BY DEF CursorIs
<1>2. LoadedTurn(t, items, S, b, M, m) => LoadedTurn(t, items, S, b, N, k)
  BY DEF LoadedTurn
<1>3. WorkingTurn(t, items, c, S, b, M, U) => WorkingTurn(t, items, c, S, b, N, V)
  BY DEF WorkingTurn
<1>4. QED
  BY <1>1, <1>2, <1>3 DEF BotInv

\* A turn that raises.
LEMMA BotRests ==
  ASSUME NEW t \in RoomTurns, NEW items, NEW c, NEW S, NEW b, NEW M, NEW m \in Nat, NEW U,
         BotInv(b, t, items, c, S, M, m, U), NEW V, U \subseteq V
  PROVE  BotInv(b, NoTurn, items, c, S, M, m, V)
<1>1. c.last \in V /\ S \subseteq V /\ CursorIs(items, c, S, b, M)
  BY DEF BotInv
<1>2. NoTurn.given = {} /\ NoTurn.step = "idle"
  BY NoTurnIs
<1>3. QED
  BY <1>1, <1>2 DEF BotInv

\* A turn that goes on as it was.
LEMMA BotGoesOn ==
  ASSUME NEW t \in RoomTurns, NEW x, NEW items, NEW c, NEW S, NEW b, NEW M, NEW m \in Nat, NEW U,
         BotInv(b, t, items, c, S, M, m, U), t.step \in {"setup", "run"}, x.step = "run",
         x.given = t.given, x.after = t.after, x.row = t.row, NEW V, U \subseteq V
  PROVE  BotInv(b, x, items, c, S, M, m, V)
<1>1. c.last \in V /\ S \subseteq V /\ x.given \subseteq V /\ CursorIs(items, c, S, b, M)
  BY DEF BotInv
<1>2. WorkingTurn(t, items, c, S, b, M, U)
  BY DEF BotInv
<1>3. WillSee(x, S) = WillSee(t, S)
  BY DEF WillSee
<1>4. WorkingTurn(x, items, c, S, b, M, V)
  BY <1>2, <1>3 DEF WorkingTurn
<1>5. QED
  BY <1>1, <1>4 DEF BotInv

\* A turn that reads the room and is set up: a retry or a delivery.
LEMMA BotLoads ==
  ASSUME NEW items \in Seq(RoomRows), NEW c \in RoomCursors, NEW S \in SUBSET Nat, NEW b, NEW M,
         NEW m \in Nat, NEW U, 0 \in U, \A i \in DOMAIN items : items[i].n \in U,
         BotInv(b, NoTurn, items, c, S, M, m, U), NEW kind \in {"retry", "mail"},
         NEW given, given = Numbers(Delta(items, c)), NEW after, after = CursorAfter(items, c),
         NEW t, t = SetUp(kind, given, after)
  PROVE  t \in RoomTurns /\ BotInv(b, t, items, c, S, M, m, U)
<1>1. /\ c.last \in U /\ S \subseteq U /\ CursorIs(items, c, S, b, M)
  BY DEF BotInv
<1>2. /\ given \in SUBSET Nat /\ given \subseteq U
      /\ after \in RoomCursors /\ after.last \in U
      /\ Covers(items, after, S \cup given) /\ Beyond(items, after, S \cup given)
      /\ Unmatched(items, c, S) => Unmatched(items, after, S \cup given)
      /\ after = NoCursor => c = NoCursor
  <2>1. Covers(items, c, S)
    BY <1>1 DEF CursorIs
  <2>2. /\ Numbers(Delta(items, c)) \in SUBSET Nat /\ Numbers(Delta(items, c)) \subseteq U
        /\ CursorAfter(items, c) \in RoomCursors /\ CursorAfter(items, c).last \in U
        /\ Covers(items, CursorAfter(items, c), S \cup Numbers(Delta(items, c)))
        /\ Beyond(items, CursorAfter(items, c), S \cup Numbers(Delta(items, c)))
        /\ Unmatched(items, c, S) =>
              Unmatched(items, CursorAfter(items, c), S \cup Numbers(Delta(items, c)))
        /\ CursorAfter(items, c) = NoCursor => c = NoCursor
    BY <1>1, <2>1, AfterIs
  <2>3. QED
    BY <2>2
<1>3. t \in RoomTurns /\ t.step = "setup" /\ t.given = given /\ t.after = after /\ t.row = 0
  <2>1. t \in RoomTurns
    BY <1>2 DEF SetUp, RoomTurns
  <2>2. QED
    BY <2>1 DEF SetUp
<1>4. WillSee(t, S) = S \cup given
  BY <1>3 DEF WillSee
<1>5. WorkingTurn(t, items, c, S, b, M, U)
  BY <1>1, <1>2, <1>3, <1>4 DEF WorkingTurn, CursorIs
<1>6. QED
  BY <1>1, <1>2, <1>3, <1>5 DEF BotInv

-----------------------------------------------------------------------------
(* The numbers in use                                                      *)

LEMMA UsedIs ==
  ASSUME NEW m \in Nat, NEW turns
  PROVE  /\ Used(m, turns) \in SUBSET Nat
         /\ \A n \in Used(m, turns) : n <= m
         /\ m + 1 \notin Used(m, turns)
         /\ \A b \in Members : turns[b].step = "loaded" => turns[b].row \notin Used(m, turns)
BY DEF Used

\* Turns that are loaded only become fewer, or get new numbers.
LEMMA UsedGrows ==
  ASSUME NEW m \in Nat, NEW k \in Nat, m <= k, NEW turns, NEW others,
         \A b \in Members : others[b].step = "loaded" =>
             \/ turns[b].step = "loaded" /\ turns[b].row = others[b].row
             \/ others[b].row > m
  PROVE  Used(m, turns) \subseteq Used(k, others)
BY DEF Used

\* Who answers is in the room.
LEMMA ResponderIs ==
  ASSUME NEW m \in Mentions
  PROVE  Responder(m) \in Members
<1> DEFINE P == {i \in DOMAIN Roster : Roster[i] \notin paused}
           present == KeptAt(Roster, P)
           Q == {i \in DOMAIN m : m[i] \in ToSet(present)}
           called == KeptAt(m, Q)
<1>1. Roster \in Seq(Members) /\ Roster # <<>>
  BY RoomTurnAssumption DEF Members
<1>2. P \in SUBSET DOMAIN Roster /\ Q \in SUBSET DOMAIN m
  OBVIOUS
<1>3. m \in Seq(Members)
  <2>1. \A b \in Members : <<b>> \in Seq(Members)
    OBVIOUS
  <2>2. <<>> \in Seq(Members)
    BY EmptySeq
  <2>3. QED
    BY <2>1, <2>2 DEF Mentions
<1>4. Responder(m) = IF called # <<>> THEN Head(called)
                     ELSE IF present # <<>> THEN Head(present) ELSE Head(Roster)
  BY DEF Responder
<1> HIDE DEF P, Q
<1>5. present \in Seq(Members) /\ called \in Seq(Members)
  BY <1>1, <1>2, <1>3, KeptIsSeq
<1>6. \A q \in Seq(Members) : q # <<>> => Head(q) \in Members
  BY HeadTailProperties
<1>7. QED
  BY <1>1, <1>4, <1>5, <1>6

-----------------------------------------------------------------------------
(* The steps                                                               *)

LEMMA OfBot ==
  ASSUME RoomInv, NEW b \in Members
  PROVE  /\ rturn[b] \in RoomTurns /\ cursor[b] \in RoomCursors /\ seen[b] \in SUBSET Nat
         /\ Public(room, b) \in Seq(RoomRows)
         /\ BotInv(b, rturn[b], Public(room, b), cursor[b], seen[b], moved,
                   lastRow, Used(lastRow, rturn))
<1>1. Public(room, b) \in Seq(RoomRows)
  BY PublicIs DEF RoomInv, RoomTypes
<1>2. QED
  BY <1>1 DEF RoomInv, RoomTypes

\* One bot's turn is replaced; the rest of what concerns it may change, too.
LEMMA TurnReplaced ==
  ASSUME RoomTypes, NEW b \in Members, NEW x \in RoomTurns, rturn' = [rturn EXCEPT ![b] = x]
  PROVE  /\ rturn' \in [Members -> RoomTurns] /\ rturn'[b] = x
         /\ \A a \in Members : a # b => rturn'[a] = rturn[a]
BY DEF RoomTypes

\* A message is answered by one: nobody else has just read the room for one.
LEMMA OneLoaded ==
  ASSUME RoomInv, NEW b \in Members, rturn[b].step = "loaded", NEW a \in Members, a # b
  PROVE  rturn[a].step # "loaded"
<1>1. \A x \in Members : rturn[x].step = "loaded" => Answers(rturn[x])
  BY OfBot DEF BotInv, LoadedTurn, Answers
<1>2. QED
  BY <1>1 DEF RoomInv, OneAnswer

\* A row is added, with a number that was not used.
LEMMA RowAdded ==
  ASSUME RoomInv, NEW y \in RoomRows, y.n \notin Used(lastRow, rturn), room' = Append(room, y),
         y.n \in Used(lastRow', rturn'), Used(lastRow, rturn) \subseteq Used(lastRow', rturn')
  PROVE  /\ room' \in Seq(RoomRows)
         /\ \A i \in DOMAIN room' : room'[i].n \in Used(lastRow', rturn')
         /\ \A b \in Members : b = y.by => Public(room', b) = Public(room, b)
         /\ \A b \in Members : b # y.by => Public(room', b) = Append(Public(room, b), y)
<1>1. room \in Seq(RoomRows) /\ \A i \in DOMAIN room : room[i].n \in Used(lastRow, rturn)
  BY DEF RoomInv, RoomTypes
<1>2. /\ room' \in Seq(RoomRows)
      /\ DOMAIN room = 1..Len(room) /\ Len(room) \in Nat /\ DOMAIN room' = 1..(Len(room) + 1)
      /\ \A i \in 1..Len(room) : room'[i] = room[i]
      /\ room'[Len(room) + 1] = y
  BY <1>1, LenProperties, AppendProperties
<1>3. \A i \in DOMAIN room' : i \in DOMAIN room \/ i = Len(room) + 1
  BY <1>2
<1>4. \A i \in DOMAIN room' : room'[i].n \in Used(lastRow', rturn')
  BY <1>1, <1>2, <1>3
<1>5. \A b \in Members : b = y.by => Public(room', b) = Public(room, b)
  BY <1>1, PublicOwn
<1>6. \A b \in Members : b # y.by => Public(room', b) = Append(Public(room, b), y)
  BY <1>1, PublicOther
<1>7. QED
  BY <1>2, <1>4, <1>5, <1>6

\* The other bots when b's turn is replaced in a room that stays.
LEMMA OthersStay ==
  ASSUME RoomInv, NEW b \in Members, NEW x \in RoomTurns, rturn' = [rturn EXCEPT ![b] = x],
         UNCHANGED <<room, cursor, seen>>, moved \subseteq moved',
         lastRow' \in Nat, lastRow <= lastRow',
         Used(lastRow, rturn) \subseteq Used(lastRow', rturn'),
         BotInv(b, x, Public(room, b), cursor[b], seen[b], moved', lastRow', Used(lastRow', rturn')),
         RecallInv', Answers(x) => Answers(rturn[b]) \/ ~Answering
  PROVE  RoomInv'
<1>1. RoomTypes /\ OneAnswer /\ lastRow \in Nat
      /\ \A i \in DOMAIN room : room[i].n \in Used(lastRow, rturn)
  BY DEF RoomInv, RoomTypes
<1>2. /\ rturn' \in [Members -> RoomTurns] /\ rturn'[b] = x
      /\ \A a \in Members : a # b => rturn'[a] = rturn[a]
  BY <1>1, TurnReplaced
<1>3. RoomTypes'
  BY <1>1, <1>2 DEF RoomTypes
<1>4. OneAnswer'
  <2>1. \A a \in Members : Answers(rturn'[a]) => \A c \in Members : Answers(rturn'[c]) => a = c
    <3>1. ~Answering => \A a \in Members : ~Answers(rturn[a])
      BY DEF Answering, Answers
    <3>2. QED
      BY <1>1, <1>2, <3>1 DEF OneAnswer
  <2>2. QED
    BY <2>1 DEF OneAnswer, Answers
<1>5. \A i \in DOMAIN room' : room'[i].n \in Used(lastRow', rturn')
  BY <1>1
<1>6. ASSUME NEW a \in Members
      PROVE  BotInv(a, rturn'[a], Public(room', a), cursor'[a], seen'[a], moved',
                    lastRow', Used(lastRow', rturn'))
  <2>1. CASE a = b
    BY <1>2, <2>1
  <2>2. CASE a # b
    <3>1. /\ rturn[a] \in RoomTurns
          /\ BotInv(a, rturn[a], Public(room, a), cursor[a], seen[a], moved,
                    lastRow, Used(lastRow, rturn))
      BY OfBot
    <3>2. BotInv(a, rturn[a], Public(room, a), cursor[a], seen[a], moved',
                 lastRow', Used(lastRow', rturn'))
      BY <1>1, <3>1, BotSame
    <3>3. QED
      BY <1>2, <2>2, <3>2
  <2>3. QED
    BY <2>1, <2>2
<1>7. QED
  BY <1>3, <1>4, <1>5, <1>6 DEF RoomInv

\* A message arrives: the room is read, and the row of the message announced.
LEMMA LoadRoomStep ==
  ASSUME RoomInv, NEW mention \in Mentions, LoadRoom(mention)
  PROVE  RoomInv'
<1> DEFINE b == Responder(mention)
           items == Public(room, b)
           U == Used(lastRow, rturn)
           given == Numbers(Delta(items, cursor[b]))
           after == [count |-> Len(items) + 1, last |-> lastRow + 1]
           x == Loaded(given, after, lastRow + 1)
<1>0. CursorPast(b, lastRow + 1) = after
  BY DEF CursorPast
<1>1. /\ ~Answering /\ rturn[b] = NoTurn /\ lastRow' = lastRow + 1
      /\ rturn' = [rturn EXCEPT ![b] = x]
      /\ UNCHANGED <<room, cursor, paused, reinject, failures, seen, moved, recalls>>
  BY <1>0 DEF LoadRoom
<1>2. b \in Members
  BY ResponderIs
<1>3. /\ cursor[b] \in RoomCursors /\ seen[b] \in SUBSET Nat /\ items \in Seq(RoomRows)
      /\ BotInv(b, NoTurn, items, cursor[b], seen[b], moved, lastRow, U)
  BY <1>1, <1>2, OfBot
<1>4. lastRow \in Nat /\ lastRow' \in Nat /\ lastRow <= lastRow'
  BY <1>1 DEF RoomInv, RoomTypes
<1>5. \A i \in DOMAIN items : items[i].n \in U
  <2>1. \A i \in DOMAIN items : \E k \in DOMAIN room : items[i] = room[k]
    BY PublicIs DEF RoomInv, RoomTypes
  <2>2. QED
    BY <2>1 DEF RoomInv
<1>6. /\ cursor[b].last \in U /\ seen[b] \subseteq U
      /\ CursorIs(items, cursor[b], seen[b], b, moved)
  BY <1>3 DEF BotInv
<1>7. given \in SUBSET Nat /\ given \subseteq U
      /\ given = {items[i].n : i \in {k \in DOMAIN items :
                      Matches(items, cursor[b]) => k > cursor[b].count}}
  <2>1. given = {items[i].n : i \in {k \in DOMAIN items :
                      Matches(items, cursor[b]) => k > cursor[b].count}}
    BY <1>3, DeltaIs
  <2>2. \A i \in DOMAIN items : items[i].n \in Nat
    BY <1>3, RowIs
  <2>3. QED
    BY <1>5, <2>1, <2>2
<1>8. Len(items) \in Nat /\ DOMAIN items = 1..Len(items)
  BY <1>3, LenProperties
<1>9. after \in RoomCursors /\ after.count = Len(items) + 1 /\ after.last = lastRow + 1
  BY <1>4, <1>8 DEF RoomCursors
<1> HIDE DEF b, items, U, given, after
<1>10. /\ x \in RoomTurns /\ x.step = "loaded" /\ x.kind = "user" /\ x.given = given
       /\ x.after = after /\ x.row = lastRow + 1 /\ x.armed = FALSE /\ x.compacted = FALSE
  <2>1. lastRow + 1 \in Nat
    BY <1>4
  <2>2. x \in RoomTurns
    BY <1>7, <1>9, <2>1 DEF Loaded, RoomTurns
  <2>3. QED
    BY <2>2 DEF Loaded
<1> HIDE DEF x
<1>11. \A i \in DOMAIN items : items[i].n \in seen[b] \cup given
  <2>1. \A i \in DOMAIN items : (Matches(items, cursor[b]) => i > cursor[b].count) =>
                                items[i].n \in given
    BY <1>7
  <2>2. \A i \in DOMAIN items : Matches(items, cursor[b]) /\ ~(i > cursor[b].count) =>
                                i \in 1..cursor[b].count
    BY <1>3, <1>8 DEF RoomCursors
  <2>3. QED
    BY <1>6, <2>1, <2>2 DEF CursorIs, Covers
<1>12. LoadedTurn(x, items, seen[b], b, moved', lastRow')
  <2>1. x.row \in 1..lastRow' /\ x.after.last = x.row
    BY <1>1, <1>4, <1>9, <1>10
  <2>2. x.after.count \in 1..(Len(items) + 1) /\ Len(items) = x.after.count - 1
    BY <1>8, <1>9, <1>10
  <2>3. \A i \in 1..(x.after.count - 1) : items[i].n \in seen[b] \cup x.given
    BY <1>8, <1>10, <1>11, <2>2
  <2>4. QED
    BY <1>10, <2>1, <2>2, <2>3 DEF LoadedTurn
<1>13. U \subseteq Used(lastRow', rturn')
  <2>1. /\ rturn'[b] = x /\ \A a \in Members : a # b => rturn'[a] = rturn[a]
    BY <1>1, <1>2, <1>10, TurnReplaced DEF RoomInv
  <2>2. \A a \in Members : rturn'[a].step = "loaded" =>
             \/ rturn[a].step = "loaded" /\ rturn[a].row = rturn'[a].row
             \/ rturn'[a].row > lastRow
    BY <1>4, <1>10, <2>1
  <2>3. QED
    BY <1>4, <2>2, UsedGrows DEF U
<1>14. BotInv(b, x, items, cursor[b], seen[b], moved', lastRow', Used(lastRow', rturn'))
  BY <1>1, <1>6, <1>7, <1>10, <1>12, <1>13 DEF BotInv
<1>15. RecallInv'
  <2>1. /\ rturn'[b] = x /\ \A a \in Members : a # b => rturn'[a] = rturn[a]
    BY <1>1, <1>2, <1>10, TurnReplaced DEF RoomInv
  <2>2. QED
    BY <1>1, <1>10, <2>1 DEF RoomInv, RecallInv, RecallIsOwed
<1>16. QED
  BY <1>1, <1>2, <1>4, <1>10, <1>13, <1>14, <1>15, OthersStay DEF items, U

\* A row that somebody reads has a number in use.
LEMMA ReadIsUsed ==
  ASSUME RoomInv, NEW b \in Members
  PROVE  \A i \in DOMAIN Public(room, b) : Public(room, b)[i].n \in Used(lastRow, rturn)
<1>1. \A i \in DOMAIN Public(room, b) : \E k \in DOMAIN room : Public(room, b)[i] = room[k]
  BY PublicIs DEF RoomInv, RoomTypes
<1>2. QED
  BY <1>1 DEF RoomInv

\* The user's row lands for the bot that has announced it.
LEMMA BotWrites ==
  ASSUME NEW t \in RoomTurns, NEW items \in Seq(RoomRows), NEW c \in RoomCursors,
         NEW S \in SUBSET Nat, NEW b, NEW M, NEW m \in Nat, NEW U,
         BotInv(b, t, items, c, S, M, m, U), t.step = "loaded",
         \A i \in DOMAIN items : items[i].n \in U, t.row \notin U,
         NEW y \in RoomRows, y.n = t.row,
         NEW x, x.step = "setup", x.given = t.given, x.after = t.after, x.row = t.row,
         NEW V, U \subseteq V, t.row \in V
  PROVE  BotInv(b, x, Append(items, y), c, S, M, m, V)
<1> DEFINE more == Append(items, y)
           after == t.after
<1>1. /\ c.last \in U /\ S \subseteq U /\ t.given \subseteq U
      /\ CursorIs(items, c, S, b, M) /\ LoadedTurn(t, items, S, b, M, m)
  BY DEF BotInv
<1>2. /\ Len(items) \in Nat /\ DOMAIN items = 1..Len(items)
      /\ DOMAIN more = 1..(Len(items) + 1)
      /\ \A i \in 1..Len(items) : more[i] = items[i]
      /\ more[Len(items) + 1] = y
  BY LenProperties, AppendProperties
<1>3. /\ t.row \in 1..m /\ after.last = t.row /\ after.count \in 1..(Len(items) + 1)
      /\ \A i \in 1..(after.count - 1) : items[i].n \in S \cup t.given
      /\ b \notin M => Len(items) = after.count - 1
  BY <1>1 DEF LoadedTurn
<1>4. after \in RoomCursors
  BY TurnIs
<1>5. CursorIs(more, c, S, b, M)
  <2>1. y.n \notin S /\ y.n # c.last
    BY <1>1
  <2>2. /\ Covers(items, c, S) => Covers(more, c, S)
        /\ Beyond(items, c, S) => Beyond(more, c, S)
        /\ Unmatched(items, c, S) => Unmatched(more, c, S)
    BY <2>1, ReadAppend
  <2>3. QED
    BY <1>1, <2>2 DEF CursorIs
<1> HIDE DEF more, after
<1>6. WillSee(x, S) = S \cup t.given \cup {t.row}
  BY <1>3 DEF WillSee
<1>7. Matches(more, after) => after.count = Len(items) + 1
  <2>1. \A i \in 1..Len(items) : more[i].n # after.last
    BY <1>2, <1>3
  <2>2. QED
    BY <1>2, <1>3, <2>1 DEF Matches
<1>8. Covers(more, after, WillSee(x, S))
  <2>1. ASSUME after.count = Len(items) + 1, NEW i \in 1..after.count
        PROVE  more[i].n \in WillSee(x, S)
    <3>1. i \in 1..(after.count - 1) \/ i = Len(items) + 1
      BY <1>2, <2>1
    <3>2. i \in 1..(after.count - 1) => more[i] = items[i]
      BY <1>2, <2>1
    <3>3. QED
      BY <1>2, <1>3, <1>6, <3>1, <3>2
  <2>2. QED
    BY <1>7, <2>1 DEF Covers
<1>9. Beyond(more, after, WillSee(x, S))
  BY <1>2, <1>7 DEF Beyond
<1>10. b \notin M => Matches(more, after)
  BY <1>2, <1>3 DEF Matches
<1>11. after # NoCursor
  BY <1>3, NoTurnIs
<1>12. WorkingTurn(x, more, c, S, b, M, V)
  BY <1>3, <1>8, <1>9, <1>10, <1>11 DEF WorkingTurn, Unmatched, after
<1>13. QED
  BY <1>1, <1>5, <1>12 DEF BotInv, more

LEMMA AppendUserRowStep ==
  ASSUME RoomInv, NEW b \in Members, AppendUserRow(b)
  PROVE  RoomInv'
<1> DEFINE t == rturn[b]
           x == [t EXCEPT !.step = "setup"]
           y == [by |-> User, n |-> t.row]
           U == Used(lastRow, rturn)
           V == Used(lastRow', rturn')
<1>1. /\ t.step = "loaded" /\ room' = Append(room, y)
      /\ rturn' = [rturn EXCEPT ![b] = x]
      /\ UNCHANGED <<lastRow, cursor, paused, reinject, failures, seen, moved, recalls>>
  BY DEF AppendUserRow
<1>2. t \in RoomTurns /\ cursor[b] \in RoomCursors /\ seen[b] \in SUBSET Nat
      /\ BotInv(b, t, Public(room, b), cursor[b], seen[b], moved, lastRow, U)
  BY OfBot
<1>3. /\ x \in RoomTurns /\ x.step = "setup" /\ x.given = t.given /\ x.after = t.after
      /\ x.row = t.row /\ x.kind = t.kind /\ x.armed = t.armed /\ x.compacted = t.compacted
  <2>1. x = [step |-> "setup", kind |-> t.kind, given |-> t.given, after |-> t.after,
             row |-> t.row, armed |-> t.armed, compacted |-> t.compacted]
    BY <1>2 DEF RoomTurns
  <2>2. [step |-> "setup", kind |-> t.kind, given |-> t.given, after |-> t.after,
         row |-> t.row, armed |-> t.armed, compacted |-> t.compacted] \in RoomTurns
    BY <1>2, TurnIs DEF RoomTurns
  <2>3. QED
    BY <2>1, <2>2
<1> HIDE DEF x
<1>4. /\ RoomTypes /\ OneAnswer /\ RecallInv /\ lastRow \in Nat /\ lastRow' = lastRow
      /\ \A i \in DOMAIN room : room[i].n \in U
  BY <1>1 DEF RoomInv, RoomTypes
<1>5. /\ rturn' \in [Members -> RoomTurns] /\ rturn'[b] = x
      /\ \A a \in Members : a # b => rturn'[a] = rturn[a]
  BY <1>1, <1>3, <1>4, TurnReplaced
<1>6. /\ t.row \in 1..lastRow /\ t.kind = "user"
  BY <1>1, <1>2 DEF BotInv, LoadedTurn
<1>7. t.row \notin U
  BY <1>1, <1>4, UsedIs
<1>8. U \subseteq V
  <2>1. \A a \in Members : rturn'[a].step = "loaded" =>
             \/ rturn[a].step = "loaded" /\ rturn[a].row = rturn'[a].row
             \/ rturn'[a].row > lastRow
    BY <1>3, <1>5
  <2>2. lastRow' \in Nat /\ lastRow <= lastRow'
    BY <1>4
  <2>3. QED
    BY <1>4, <2>1, <2>2, UsedGrows
<1>9. t.row \in V
  <2>1. \A a \in Members : rturn'[a].step # "loaded"
    BY <1>1, <1>3, <1>5, OneLoaded
  <2>2. t.row \in 0..lastRow'
    BY <1>4, <1>6
  <2>3. QED
    BY <2>1, <2>2 DEF Used
<1>10. y \in RoomRows /\ y.n = t.row /\ y.by = User
  BY <1>2, TurnIs DEF RoomRows
<1> HIDE DEF y, U, V
<1>11. /\ room' \in Seq(RoomRows)
       /\ \A i \in DOMAIN room' : room'[i].n \in V
       /\ \A a \in Members : Public(room', a) = Append(Public(room, a), y)
  <2>1. \A a \in Members : a # User
    BY RoomTurnAssumption DEF Members
  <2>2. QED
    BY <1>1, <1>7, <1>8, <1>9, <1>10, <2>1, RowAdded DEF U, V
<1>12. RoomTypes'
  BY <1>1, <1>4, <1>5, <1>11 DEF RoomTypes
<1>13. OneAnswer'
  <2>1. \A a \in Members : Answers(rturn'[a]) <=> Answers(rturn[a])
    BY <1>3, <1>5 DEF Answers
  <2>2. QED
    BY <1>4, <2>1 DEF OneAnswer, Answers
<1>14. RecallInv'
  <2>1. \A a \in Members : rturn'[a].armed = rturn[a].armed
                          /\ rturn'[a].compacted = rturn[a].compacted
    BY <1>3, <1>5
  <2>2. QED
    BY <1>1, <1>4, <2>1 DEF RecallInv, RecallIsOwed
<1>15. ASSUME NEW a \in Members
       PROVE  BotInv(a, rturn'[a], Public(room', a), cursor'[a], seen'[a], moved', lastRow', V)
  <2>1. /\ rturn[a] \in RoomTurns /\ cursor[a] \in RoomCursors /\ seen[a] \in SUBSET Nat
        /\ Public(room, a) \in Seq(RoomRows)
        /\ BotInv(a, rturn[a], Public(room, a), cursor[a], seen[a], moved, lastRow, U)
    BY OfBot DEF U
  <2>2. CASE a = b
    <3>1. \A i \in DOMAIN Public(room, b) : Public(room, b)[i].n \in U
      BY ReadIsUsed DEF U
    <3>2. BotInv(b, x, Append(Public(room, b), y), cursor[b], seen[b], moved, lastRow, V)
      BY <1>1, <1>3, <1>4, <1>7, <1>8, <1>9, <1>10, <2>1, <2>2, <3>1, BotWrites
    <3>3. QED
      BY <1>1, <1>5, <1>11, <2>2, <3>2
  <2>3. CASE a # b
    <3>1. rturn[a].step # "loaded"
      BY <1>1, <2>3, OneLoaded
    <3>2. y.n \notin U
      BY <1>7, <1>10
    <3>3. BotInv(a, rturn[a], Append(Public(room, a), y), cursor[a], seen[a], moved, lastRow, V)
      BY <1>4, <1>8, <1>10, <2>1, <3>1, <3>2, BotAppend
    <3>4. QED
      BY <1>1, <1>5, <1>11, <2>3, <3>3
  <2>4. QED
    BY <2>2, <2>3
<1>16. QED
  BY <1>11, <1>12, <1>13, <1>14, <1>15 DEF RoomInv, V

\* No turn is loaded: every number so far is in use.
LEMMA AllUsed ==
  ASSUME RoomInv, LoopFree
  PROVE  Used(lastRow, rturn) = 0..lastRow
BY DEF Used, LoopFree

\* b reads on from its cursor, and the room stays.
ReadOn(b, kind) ==
    /\ LoopFree
    /\ rturn[b] = NoTurn
    /\ kind = "retry" => ~Answering
    /\ rturn' = [rturn EXCEPT ![b] =
           SetUp(kind, Numbers(Delta(Public(room, b), cursor[b])),
                 CursorAfter(Public(room, b), cursor[b]))]
    /\ UNCHANGED <<room, lastRow, cursor, paused, reinject, failures, seen, moved, recalls>>

LEMMA ReadsOn ==
  ASSUME RoomInv, NEW b \in Members, NEW kind \in {"retry", "mail"}, ReadOn(b, kind)
  PROVE  RoomInv'
<1> DEFINE items == Public(room, b)
           U == Used(lastRow, rturn)
           given == Numbers(Delta(items, cursor[b]))
           after == CursorAfter(items, cursor[b])
           x == SetUp(kind, given, after)
<1>1. /\ LoopFree /\ rturn[b] = NoTurn /\ (kind = "retry" => ~Answering)
      /\ rturn' = [rturn EXCEPT ![b] = x]
      /\ UNCHANGED <<room, lastRow, cursor, paused, reinject, failures, seen, moved, recalls>>
  BY DEF ReadOn
<1>2. /\ cursor[b] \in RoomCursors /\ seen[b] \in SUBSET Nat /\ items \in Seq(RoomRows)
      /\ BotInv(b, NoTurn, items, cursor[b], seen[b], moved, lastRow, U)
  BY <1>1, OfBot
<1>3. RoomTypes /\ RecallInv /\ lastRow \in Nat /\ lastRow' = lastRow
  BY <1>1 DEF RoomInv, RoomTypes
<1>4. 0 \in U
  BY <1>1, <1>3, AllUsed
<1>5. \A i \in DOMAIN items : items[i].n \in U
  BY ReadIsUsed
<1>6. given = Numbers(Delta(items, cursor[b])) /\ after = CursorAfter(items, cursor[b])
      /\ x = SetUp(kind, given, after)
  OBVIOUS
<1> HIDE DEF items, given, after, x, U
<1>7. x \in RoomTurns /\ BotInv(b, x, items, cursor[b], seen[b], moved, lastRow, U)
  BY <1>2, <1>3, <1>4, <1>5, <1>6, BotLoads
<1>8. x.step = "setup" /\ x.kind = kind /\ x.armed = FALSE /\ x.compacted = FALSE
  BY <1>6 DEF SetUp
<1>9. /\ rturn'[b] = x /\ \A a \in Members : a # b => rturn'[a] = rturn[a]
  BY <1>1, <1>3, <1>7, TurnReplaced
<1>10. U \subseteq Used(lastRow', rturn')
  <2>1. \A a \in Members : rturn'[a].step = "loaded" =>
             \/ rturn[a].step = "loaded" /\ rturn[a].row = rturn'[a].row
             \/ rturn'[a].row > lastRow
    BY <1>8, <1>9
  <2>2. lastRow' \in Nat /\ lastRow <= lastRow'
    BY <1>3
  <2>3. Used(lastRow, rturn) \subseteq Used(lastRow', rturn')
    BY <1>3, <2>1, <2>2, UsedGrows
  <2>4. QED
    BY <2>3 DEF U
<1>11. BotInv(b, x, Public(room, b), cursor[b], seen[b], moved', lastRow', Used(lastRow', rturn'))
  <2> DEFINE V == Used(lastRow', rturn')
  <2> HIDE DEF V
  <2>1. BotInv(b, x, items, cursor[b], seen[b], moved, lastRow, V)
    BY <1>3, <1>7, <1>10, BotSame DEF V
  <2>2. QED
    BY <1>1, <2>1 DEF items, V
<1>12. RecallInv'
  <2>1. \A a \in Members : (rturn'[a].armed => rturn[a].armed)
                          /\ (rturn'[a].compacted => rturn[a].compacted)
    BY <1>8, <1>9
  <2>2. QED
    BY <1>1, <1>3, <2>1 DEF RecallInv, RecallIsOwed
<1>13. Answers(x) => ~Answering
  BY <1>1, <1>8 DEF Answers
<1>14. /\ UNCHANGED <<room, cursor, seen>> /\ moved \subseteq moved'
       /\ lastRow' \in Nat /\ lastRow <= lastRow'
  BY <1>1, <1>3
<1>15. Used(lastRow, rturn) \subseteq Used(lastRow', rturn')
  BY <1>10 DEF U
<1>16. rturn' = [rturn EXCEPT ![b] = x] /\ x \in RoomTurns
  BY <1>1, <1>7, Zenon
<1>17. QED
  BY <1>11, <1>12, <1>13, <1>14, <1>15, <1>16, OthersStay

LEMMA LoadRetryStep ==
  ASSUME RoomInv, NEW mention \in Mentions, LoadRetry(mention)
  PROVE  RoomInv'
<1>1. Responder(mention) \in Members
  BY ResponderIs
<1>2. LoopFree
  <2>1. \A a \in Members : rturn[a].step = "loaded" => Answers(rturn[a])
    BY OfBot DEF BotInv, LoadedTurn, Answers
  <2>2. QED
    BY <2>1 DEF LoadRetry, Answering, Answers, LoopFree
<1>3. ReadOn(Responder(mention), "retry")
  BY <1>2 DEF LoadRetry, ReadOn
<1>4. QED
  BY <1>1, <1>3, ReadsOn

LEMMA LoadDeliveryStep ==
  ASSUME RoomInv, NEW b \in Members, LoadDelivery(b)
  PROVE  RoomInv'
<1>1. ReadOn(b, "mail")
  BY DEF LoadDelivery, ReadOn
<1>2. QED
  BY <1>1, ReadsOn

\* A turn goes on, and the room stays.
LEMMA GoesOnStep ==
  ASSUME RoomInv, NEW b \in Members, NEW x \in RoomTurns, rturn' = [rturn EXCEPT ![b] = x],
         rturn[b].step \in {"setup", "run"}, x.step = "run", x.kind = rturn[b].kind,
         x.given = rturn[b].given, x.after = rturn[b].after, x.row = rturn[b].row,
         UNCHANGED <<room, cursor, seen, moved, lastRow>>, RecallInv'
  PROVE  RoomInv'
<1> DEFINE t == rturn[b]
           U == Used(lastRow, rturn)
           V == Used(lastRow', rturn')
<1>1. RoomTypes /\ lastRow \in Nat /\ lastRow' \in Nat /\ lastRow <= lastRow'
      /\ lastRow' = lastRow
  BY DEF RoomInv, RoomTypes
<1>2. t \in RoomTurns /\ BotInv(b, t, Public(room, b), cursor[b], seen[b], moved, lastRow, U)
  BY OfBot
<1>3. /\ rturn'[b] = x /\ \A a \in Members : a # b => rturn'[a] = rturn[a]
  BY <1>1, TurnReplaced
<1>4. U \subseteq V
  <2>1. \A a \in Members : rturn'[a].step = "loaded" =>
             \/ rturn[a].step = "loaded" /\ rturn[a].row = rturn'[a].row
             \/ rturn'[a].row > lastRow
    BY <1>3
  <2>2. QED
    BY <1>1, <2>1, UsedGrows
<1> HIDE DEF U, V
<1>5. BotInv(b, x, Public(room, b), cursor[b], seen[b], moved, lastRow, V)
  BY <1>1, <1>2, <1>4, BotGoesOn
<1>6. BotInv(b, x, Public(room, b), cursor[b], seen[b], moved', lastRow', V)
  BY <1>1, <1>5
<1>7. Answers(x) => Answers(t)
  BY DEF Answers
<1>8. UNCHANGED <<room, cursor, seen>> /\ moved \subseteq moved'
  OBVIOUS
<1>9. QED
  BY <1>1, <1>4, <1>6, <1>7, <1>8, OthersStay DEF U, V

LEMMA TurnArmed ==
  ASSUME NEW t \in RoomTurns, NEW v \in BOOLEAN
  PROVE  LET x == [t EXCEPT !.step = "run", !.armed = v]
         IN /\ x \in RoomTurns /\ x.step = "run" /\ x.kind = t.kind /\ x.given = t.given
            /\ x.after = t.after /\ x.row = t.row /\ x.armed = v /\ x.compacted = t.compacted
BY DEF RoomTurns

LEMMA TurnCompacted ==
  ASSUME NEW t \in RoomTurns
  PROVE  LET x == [t EXCEPT !.compacted = TRUE]
         IN /\ x \in RoomTurns /\ x.step = t.step /\ x.kind = t.kind /\ x.given = t.given
            /\ x.after = t.after /\ x.row = t.row /\ x.armed = t.armed
<1>1. [t EXCEPT !.compacted = TRUE] \in RoomTurns
  BY DEF RoomTurns
<1>2. QED
  BY <1>1 DEF RoomTurns

LEMMA ComposeStep ==
  ASSUME RoomInv, NEW b \in Members, Compose(b)
  PROVE  RoomInv'
<1> DEFINE t == rturn[b]
           v == b \in reinject
           x == [t EXCEPT !.step = "run", !.armed = v]
<1>1. /\ t.step = "setup"
      /\ rturn' = [rturn EXCEPT ![b] = x]
      /\ UNCHANGED <<room, lastRow, cursor, paused, reinject, failures, seen, moved, recalls>>
  BY DEF Compose
<1>2. t \in RoomTurns /\ RoomTypes /\ RecallInv
  BY OfBot DEF RoomInv
<1>3. v \in BOOLEAN /\ (v => b \in reinject)
  OBVIOUS
<1> HIDE DEF v
<1>4. /\ x \in RoomTurns /\ x.step = "run" /\ x.kind = t.kind /\ x.given = t.given
      /\ x.after = t.after /\ x.row = t.row /\ x.armed = v /\ x.compacted = t.compacted
  BY <1>2, <1>3, TurnArmed
<1> HIDE DEF x
<1>5. /\ rturn'[b] = x /\ \A a \in Members : a # b => rturn'[a] = rturn[a]
  BY <1>1, <1>2, <1>4, TurnReplaced
<1>6. RecallInv'
  BY <1>1, <1>2, <1>3, <1>4, <1>5 DEF RecallInv, RecallIsOwed
<1>7. UNCHANGED <<room, cursor, seen, moved, lastRow>>
  BY <1>1
<1>8. t.step \in {"setup", "run"} /\ rturn' = [rturn EXCEPT ![b] = x]
  BY <1>1
<1>9. QED
  BY <1>4, <1>6, <1>7, <1>8, GoesOnStep

LEMMA CompactStep ==
  ASSUME RoomInv, NEW b \in Members, Compact(b)
  PROVE  RoomInv'
<1> DEFINE t == rturn[b]
           x == [t EXCEPT !.compacted = TRUE]
<1>1. /\ t.step = "run" /\ recalls' = recalls \cup {b}
      /\ rturn' = [rturn EXCEPT ![b] = x]
      /\ UNCHANGED <<room, lastRow, cursor, paused, reinject, failures, seen, moved>>
  BY DEF Compact
<1>2. t \in RoomTurns /\ RoomTypes /\ RecallInv
  BY OfBot DEF RoomInv
<1>3. x \in RoomTurns
  BY <1>2, TurnCompacted
<1>4. /\ x.step = "run" /\ x.kind = t.kind /\ x.given = t.given /\ x.after = t.after
      /\ x.row = t.row /\ x.armed = t.armed
  BY <1>1, <1>2, TurnCompacted
<1> HIDE DEF x
<1>5. /\ rturn'[b] = x /\ \A a \in Members : a # b => rturn'[a] = rturn[a]
  BY <1>1, <1>2, <1>3, TurnReplaced
<1>6. RecallInv'
  BY <1>1, <1>2, <1>4, <1>5 DEF RecallInv, RecallIsOwed
<1>7. UNCHANGED <<room, cursor, seen, moved, lastRow>>
  BY <1>1
<1>8. t.step \in {"setup", "run"} /\ rturn' = [rturn EXCEPT ![b] = x]
  BY <1>1
<1>9. QED
  BY <1>3, <1>4, <1>6, <1>7, <1>8, GoesOnStep

LEMMA TurnRaisesStep ==
  ASSUME RoomInv, NEW b \in Members, TurnRaises(b)
  PROVE  RoomInv'
<1> DEFINE t == rturn[b]
           U == Used(lastRow, rturn)
           V == Used(lastRow', rturn')
<1>1. /\ rturn' = [rturn EXCEPT ![b] = NoTurn]
      /\ UNCHANGED <<room, lastRow, cursor, paused, reinject, seen, moved, recalls>>
  BY DEF TurnRaises
<1>2. RoomTypes /\ RecallInv /\ lastRow \in Nat /\ lastRow' \in Nat /\ lastRow <= lastRow'
      /\ lastRow' = lastRow
  BY <1>1 DEF RoomInv, RoomTypes
<1>3. t \in RoomTurns /\ BotInv(b, t, Public(room, b), cursor[b], seen[b], moved, lastRow, U)
  BY OfBot
<1>4. /\ rturn'[b] = NoTurn /\ \A a \in Members : a # b => rturn'[a] = rturn[a]
  BY <1>1, <1>2, NoTurnIs, TurnReplaced
<1>5. U \subseteq V
  <2>1. \A a \in Members : rturn'[a].step = "loaded" =>
             \/ rturn[a].step = "loaded" /\ rturn[a].row = rturn'[a].row
             \/ rturn'[a].row > lastRow
    BY <1>4, NoTurnIs
  <2>2. QED
    BY <1>2, <2>1, UsedGrows
<1> HIDE DEF U, V
<1>6. BotInv(b, NoTurn, Public(room, b), cursor[b], seen[b], moved, lastRow, V)
  BY <1>2, <1>3, <1>5, BotRests
<1>7. BotInv(b, NoTurn, Public(room, b), cursor[b], seen[b], moved', lastRow', V)
  BY <1>1, <1>6
<1>8. ~Answers(NoTurn)
  BY NoTurnIs DEF Answers
<1>9. UNCHANGED <<room, cursor, seen>> /\ moved \subseteq moved'
  BY <1>1
<1>10. RecallInv'
  BY <1>1, <1>2, <1>4, NoTurnIs DEF RecallInv, RecallIsOwed
<1>11. QED
  BY <1>1, <1>2, <1>5, <1>7, <1>8, <1>9, <1>10, NoTurnIs, OthersStay DEF U, V

LEMMA SweepCompactsStep ==
  ASSUME RoomInv, NEW b \in Members, SweepCompacts(b)
  PROVE  RoomInv'
<1>1. /\ reinject' = reinject \cup {b} /\ recalls' = recalls \cup {b}
      /\ UNCHANGED <<room, lastRow, cursor, rturn, paused, failures, seen, moved>>
  BY DEF SweepCompacts
<1>2. RecallInv'
  BY <1>1 DEF RoomInv, RecallInv, RecallIsOwed
<1>3. QED
  BY <1>1, <1>2 DEF RoomInv, RoomTypes, OneAnswer

LEMMA RoomSame ==
  ASSUME RoomInv, UNCHANGED roomVars
  PROVE  RoomInv'
<1>1. RecallInv'
  BY DEF roomVars, RoomInv, RecallInv, RecallIsOwed
<1>2. QED
  BY <1>1 DEF roomVars, RoomInv, RoomTypes, OneAnswer

\* What was read stays read.
LEMMA CoversMore ==
  ASSUME NEW items, NEW c, NEW S, NEW R, S \subseteq R, Covers(items, c, S)
  PROVE  Covers(items, c, R)
BY DEF Covers

\* The cursor that a turn has left.
LEMMA BotDone ==
  ASSUME NEW t \in RoomTurns, NEW items \in Seq(RoomRows), NEW c, NEW S \in SUBSET Nat, NEW b,
         NEW M, NEW m \in Nat, NEW U, BotInv(b, t, items, c, S, M, m, U), t.step = "run",
         NEW d, NEW N,
         \/ d = c /\ b \in N
         \/ d = t.after /\ (b \in M => Matches(items, d) \/ b \in N),
         NEW k \in Nat, NEW V, U \subseteq V
  PROVE  BotInv(b, NoTurn, items, d, WillSee(t, S), N, k, V)
<1>1. /\ c.last \in U /\ S \subseteq U /\ t.given \subseteq U
      /\ CursorIs(items, c, S, b, M) /\ WorkingTurn(t, items, c, S, b, M, U)
  BY DEF BotInv
<1>2. d.last \in V /\ WillSee(t, S) \subseteq V
  BY <1>1 DEF WorkingTurn, WillSee
<1>3. CursorIs(items, d, WillSee(t, S), b, N)
  <2>1. CASE d = c /\ b \in N
    <3>1. Covers(items, c, S) /\ S \subseteq WillSee(t, S)
      BY <1>1 DEF CursorIs, WillSee
    <3>2. Covers(items, c, WillSee(t, S))
      BY <3>1, CoversMore
    <3>3. QED
      BY <2>1, <3>2 DEF CursorIs
  <2>2. CASE d = t.after /\ (b \in M => Matches(items, d) \/ b \in N)
    <3>1. /\ Covers(items, d, WillSee(t, S)) /\ Beyond(items, d, WillSee(t, S))
          /\ b \notin M => Unmatched(items, d, WillSee(t, S))
      BY <1>1, <2>2 DEF WorkingTurn
    <3>2. Matches(items, d) => Unmatched(items, d, WillSee(t, S))
      BY DEF Unmatched
    <3>3. QED
      BY <2>2, <3>1, <3>2 DEF CursorIs
  <2>3. QED
    BY <2>1, <2>2
<1>4. QED
  BY <1>2, <1>3, NoTurnIs DEF BotInv

LEMMA TurnDoneStep ==
  ASSUME RoomInv, NEW b \in Members, NEW saved \in BOOLEAN, TurnDone(b, saved)
  PROVE  RoomInv'
<1> DEFINE t == rturn[b]
           y == [by |-> b, n |-> lastRow + 1]
           items == Public(room, b)
           U == Used(lastRow, rturn)
           V == Used(lastRow', rturn')
<1>1. /\ LoopFree /\ t.step = "run"
      /\ lastRow' = lastRow + 1
      /\ room' = Append(room, y)
      /\ rturn' = [rturn EXCEPT ![b] = NoTurn]
  BY DEF TurnDone
<1>2. /\ cursor' = IF saved /\ t.after # NoCursor THEN [cursor EXCEPT ![b] = t.after] ELSE cursor
      /\ seen' = [seen EXCEPT ![b] = seen[b] \cup t.given \cup ({t.row} \ {0})]
  BY DEF TurnDone
<1>3. /\ ~saved => moved' = moved \cup {b}
      /\ saved /\ Matches(items, t.after) => moved' = moved \ {b}
      /\ saved /\ ~Matches(items, t.after) => moved' = moved
  BY DEF TurnDone
<1>4. /\ reinject' = Reinjected(b)
      /\ recalls' = IF t.armed /\ ~t.compacted THEN recalls \ {b} ELSE recalls
  BY DEF TurnDone
<1>5. /\ RoomTypes /\ OneAnswer /\ RecallInv
      /\ lastRow \in Nat /\ lastRow' \in Nat /\ lastRow <= lastRow'
      /\ \A i \in DOMAIN room : room[i].n \in U
  BY <1>1 DEF RoomInv, RoomTypes
<1>6. /\ t \in RoomTurns /\ cursor[b] \in RoomCursors /\ seen[b] \in SUBSET Nat
      /\ items \in Seq(RoomRows)
      /\ BotInv(b, t, items, cursor[b], seen[b], moved, lastRow, U)
  BY OfBot
<1>7. /\ rturn' \in [Members -> RoomTurns] /\ rturn'[b] = NoTurn
      /\ \A a \in Members : a # b => rturn'[a] = rturn[a]
  BY <1>1, <1>5, NoTurnIs, TurnReplaced
<1>8. \A a \in Members : rturn'[a].step # "loaded"
  BY <1>1, <1>7, NoTurnIs DEF LoopFree
<1>9. U \subseteq V
  <2>1. \A a \in Members : rturn'[a].step = "loaded" =>
             \/ rturn[a].step = "loaded" /\ rturn[a].row = rturn'[a].row
             \/ rturn'[a].row > lastRow
    BY <1>8
  <2>2. QED
    BY <1>5, <2>1, UsedGrows
<1>10. y \in RoomRows /\ y.n = lastRow + 1 /\ y.by = b
  BY <1>5 DEF RoomRows
<1>11. y.n \notin U /\ y.n \in V
  <2>1. y.n \in 0..lastRow'
    BY <1>1, <1>5, <1>10
  <2>2. y.n \in V
    BY <1>8, <2>1 DEF Used
  <2>3. QED
    BY <1>5, <1>10, <2>2, UsedIs
<1> HIDE DEF y, U, V
<1>12. /\ room' \in Seq(RoomRows)
       /\ \A i \in DOMAIN room' : room'[i].n \in V
       /\ Public(room', b) = items
       /\ \A a \in Members : a # b => Public(room', a) = Append(Public(room, a), y)
  BY <1>1, <1>9, <1>10, <1>11, RowAdded DEF U, V
<1>13. /\ cursor' \in [Members -> RoomCursors]
       /\ cursor'[b] = IF saved /\ t.after # NoCursor THEN t.after ELSE cursor[b]
       /\ \A a \in Members : a # b => cursor'[a] = cursor[a]
  <2>1. t.after \in RoomCursors
    BY <1>6, TurnIs
  <2>2. QED
    BY <1>2, <1>5, <2>1 DEF RoomTypes
<1>14. /\ seen' \in [Members -> SUBSET Nat] /\ seen'[b] = WillSee(t, seen[b])
       /\ \A a \in Members : a # b => seen'[a] = seen[a]
  <2>1. WillSee(t, seen[b]) \in SUBSET Nat
    BY <1>6, TurnIs DEF WillSee
  <2>2. seen' = [seen EXCEPT ![b] = WillSee(t, seen[b])]
    BY <1>2 DEF WillSee
  <2>3. QED
    BY <1>5, <2>1, <2>2 DEF RoomTypes
<1>15. RoomTypes'
  BY <1>5, <1>7, <1>12, <1>13, <1>14 DEF RoomTypes
<1>16. OneAnswer'
  <2>1. \A a \in Members : Answers(rturn'[a]) => Answers(rturn[a])
    BY <1>7, NoTurnIs DEF Answers
  <2>2. QED
    BY <1>5, <2>1 DEF OneAnswer, Answers
<1>17. RecallInv'
  <2>1. /\ reinject \subseteq recalls /\ (t.compacted => b \in recalls)
        /\ t.armed \in BOOLEAN /\ t.compacted \in BOOLEAN
    BY <1>5, <1>6, TurnIs DEF RecallInv, RecallIsOwed
  <2>2. reinject' \subseteq recalls'
    BY <1>4, <2>1 DEF Reinjected
  <2>3. \A a \in Members : a # b =>
            (a \in reinject => a \in reinject') /\ (a \in recalls => a \in recalls')
    BY <1>4 DEF Reinjected
  <2>4. \A a \in Members : (rturn'[a].armed => a \in reinject')
                          /\ (rturn'[a].compacted => a \in recalls')
    BY <1>5, <1>7, <2>3, NoTurnIs DEF RecallInv, RecallIsOwed
  <2>5. QED
    BY <2>2, <2>4 DEF RecallInv, RecallIsOwed
<1>18. ASSUME NEW a \in Members
       PROVE  BotInv(a, rturn'[a], Public(room', a), cursor'[a], seen'[a], moved', lastRow', V)
  <2>1. CASE a = b
    <3>1. \/ cursor'[b] = cursor[b] /\ b \in moved'
          \/ cursor'[b] = t.after /\ (b \in moved => Matches(items, cursor'[b]) \/ b \in moved')
      <4>1. t.after = NoCursor => cursor[b] = NoCursor
        BY <1>1, <1>6 DEF BotInv, WorkingTurn
      <4>2. saved => cursor'[b] = t.after
        BY <1>13, <4>1
      <4>3. ~saved => cursor'[b] = cursor[b]
        BY <1>13
      <4>4. QED
        BY <1>3, <4>2, <4>3
    <3> HIDE DEF items
    <3>2. BotInv(b, NoTurn, items, cursor'[b], WillSee(t, seen[b]), moved', lastRow', V)
      BY <1>1, <1>5, <1>6, <1>9, <3>1, BotDone
    <3>3. QED
      BY <1>7, <1>12, <1>14, <2>1, <3>2
  <2>2. CASE a # b
    <3>1. /\ rturn[a] \in RoomTurns /\ cursor[a] \in RoomCursors /\ seen[a] \in SUBSET Nat
          /\ Public(room, a) \in Seq(RoomRows)
          /\ BotInv(a, rturn[a], Public(room, a), cursor[a], seen[a], moved, lastRow, U)
      BY OfBot DEF U
    <3>2. a \in moved => a \in moved'
      BY <1>3, <2>2
    <3>3. rturn[a].step # "loaded"
      BY <1>1 DEF LoopFree
    <3>4. BotInv(a, rturn[a], Append(Public(room, a), y), cursor[a], seen[a], moved', lastRow', V)
      BY <1>5, <1>9, <1>10, <1>11, <3>1, <3>2, <3>3, BotAppend
    <3>5. QED
      BY <1>7, <1>12, <1>13, <1>14, <2>2, <3>4
  <2>3. QED
    BY <2>1, <2>2
<1>19. QED
  BY <1>12, <1>15, <1>16, <1>17, <1>18 DEF RoomInv, V

LEMMA PostStep ==
  ASSUME RoomInv, NEW b \in Members, Post(b)
  PROVE  RoomInv'
<1> DEFINE y == [by |-> b, n |-> lastRow + 1]
           U == Used(lastRow, rturn)
           V == Used(lastRow', rturn')
<1>1. /\ lastRow' = lastRow + 1
      /\ room' = Append(room, y)
      /\ moved' = moved \cup {c \in Members : rturn[c].step = "loaded" /\ c # b}
      /\ UNCHANGED <<cursor, rturn, paused, reinject, failures, seen, recalls>>
  BY DEF Post
<1>2. /\ RoomTypes /\ OneAnswer /\ RecallInv
      /\ lastRow \in Nat /\ lastRow' \in Nat /\ lastRow <= lastRow'
  BY <1>1 DEF RoomInv, RoomTypes
<1>3. U \subseteq V
  <2>1. \A a \in Members : rturn'[a].step = "loaded" =>
             \/ rturn[a].step = "loaded" /\ rturn[a].row = rturn'[a].row
             \/ rturn'[a].row > lastRow
    BY <1>1
  <2>2. QED
    BY <1>2, <2>1, UsedGrows
<1>4. y \in RoomRows /\ y.n = lastRow + 1 /\ y.by = b
  BY <1>2 DEF RoomRows
<1>5. y.n \notin U /\ y.n \in V
  <2>1. y.n \in 0..lastRow'
    BY <1>1, <1>2, <1>4
  <2>2. \A a \in Members : rturn'[a].step = "loaded" => rturn'[a].row # y.n
    <3>1. \A a \in Members : rturn[a].step = "loaded" => rturn[a].row \in 1..lastRow
      BY OfBot DEF BotInv, LoadedTurn
    <3>2. QED
      BY <1>1, <1>2, <1>4, <3>1
  <2>3. y.n \in V
    BY <2>1, <2>2 DEF Used
  <2>4. QED
    BY <1>2, <1>4, <2>3, UsedIs
<1> HIDE DEF y, U, V
<1>6. /\ room' \in Seq(RoomRows)
      /\ \A i \in DOMAIN room' : room'[i].n \in V
      /\ Public(room', b) = Public(room, b)
      /\ \A a \in Members : a # b => Public(room', a) = Append(Public(room, a), y)
  BY <1>1, <1>3, <1>4, <1>5, RowAdded DEF U, V
<1>7. RoomTypes'
  BY <1>1, <1>2, <1>6 DEF RoomTypes
<1>8. OneAnswer' /\ RecallInv'
  BY <1>1, <1>2 DEF OneAnswer, RecallInv, RecallIsOwed
<1>9. ASSUME NEW a \in Members
      PROVE  BotInv(a, rturn'[a], Public(room', a), cursor'[a], seen'[a], moved', lastRow', V)
  <2>1. /\ rturn[a] \in RoomTurns /\ cursor[a] \in RoomCursors /\ seen[a] \in SUBSET Nat
        /\ Public(room, a) \in Seq(RoomRows)
        /\ BotInv(a, rturn[a], Public(room, a), cursor[a], seen[a], moved, lastRow, U)
    BY OfBot DEF U
  <2>2. a \in moved => a \in moved'
    BY <1>1
  <2>3. CASE a = b
    <3>1. BotInv(a, rturn[a], Public(room, a), cursor[a], seen[a], moved', lastRow', V)
      BY <1>2, <1>3, <2>1, <2>2, BotSame
    <3>2. QED
      BY <1>1, <1>6, <2>3, <3>1
  <2>4. CASE a # b
    <3>1. rturn[a].step = "loaded" => a \in moved'
      BY <1>1, <2>4
    <3>2. BotInv(a, rturn[a], Append(Public(room, a), y), cursor[a], seen[a], moved', lastRow', V)
      BY <1>2, <1>3, <1>4, <1>5, <2>1, <2>2, <3>1, BotAppend
    <3>3. QED
      BY <1>1, <1>6, <2>4, <3>2
  <2>5. QED
    BY <2>3, <2>4
<1>10. QED
  BY <1>6, <1>7, <1>8, <1>9 DEF RoomInv, V

LEMMA RoomStarts ==
  ASSUME RoomTurnInit
  PROVE  RoomInv
<1>1. /\ room = <<>> /\ lastRow = 0 /\ cursor = [b \in Members |-> NoCursor]
      /\ rturn = [b \in Members |-> NoTurn] /\ seen = [b \in Members |-> {}]
      /\ reinject = {} /\ moved = {} /\ recalls = {}
  BY DEF RoomTurnInit
<1>2. room \in Seq(RoomRows) /\ DOMAIN room = {}
  BY <1>1, EmptySeq
<1>3. RoomTypes
  BY <1>1, <1>2, NoTurnIs DEF RoomTypes
<1>4. OneAnswer /\ RecallInv
  BY <1>1, NoTurnIs DEF OneAnswer, Answers, RecallInv, RecallIsOwed
<1>5. 0 \in Used(lastRow, rturn)
  BY <1>1, NoTurnIs DEF Used
<1>6. ASSUME NEW b \in Members
      PROVE  BotInv(b, rturn[b], Public(room, b), cursor[b], seen[b], moved,
                    lastRow, Used(lastRow, rturn))
  <2>1. rturn[b] = NoTurn /\ cursor[b] = NoCursor /\ seen[b] = {}
    BY <1>1
  <2>2. ~Matches(Public(room, b), NoCursor)
    <3>1. DOMAIN Public(room, b) = 1..Len(Public(room, b))
      BY <1>2, PublicIs
    <3>2. QED
      BY <3>1, NoTurnIs DEF Matches
  <2>3. CursorIs(Public(room, b), NoCursor, {}, b, moved)
    BY <2>2 DEF CursorIs, Covers, Beyond, Unmatched
  <2>4. QED
    BY <1>5, <2>1, <2>3, NoTurnIs DEF BotInv
<1>7. QED
  BY <1>2, <1>3, <1>4, <1>6 DEF RoomInv

LEMMA RoomStep ==
  ASSUME RoomInv, [RoomTurnNext]_roomVars
  PROVE  RoomInv'
<1>1. ASSUME NEW m \in Mentions, LoadRoom(m) PROVE RoomInv'
  BY <1>1, LoadRoomStep
<1>2. ASSUME NEW m \in Mentions, LoadRetry(m) PROVE RoomInv'
  BY <1>2, LoadRetryStep
<1>3. ASSUME NEW b \in Members, LoadDelivery(b) PROVE RoomInv'
  BY <1>3, LoadDeliveryStep
<1>4. ASSUME NEW b \in Members, AppendUserRow(b) PROVE RoomInv'
  BY <1>4, AppendUserRowStep
<1>5. ASSUME NEW b \in Members, Compose(b) PROVE RoomInv'
  BY <1>5, ComposeStep
<1>6. ASSUME NEW b \in Members, Compact(b) PROVE RoomInv'
  BY <1>6, CompactStep
<1>7. ASSUME NEW b \in Members, NEW saved \in BOOLEAN, TurnDone(b, saved) PROVE RoomInv'
  BY <1>7, TurnDoneStep
<1>8. ASSUME NEW b \in Members, TurnRaises(b) PROVE RoomInv'
  BY <1>8, TurnRaisesStep
<1>9. ASSUME NEW b \in Members, SweepCompacts(b) PROVE RoomInv'
  BY <1>9, SweepCompactsStep
<1>10. ASSUME NEW b \in Members, Post(b) PROVE RoomInv'
  BY <1>10, PostStep
<1>11. CASE UNCHANGED roomVars
  BY <1>11, RoomSame
<1>12. QED
  BY <1>1, <1>2, <1>3, <1>4, <1>5, <1>6, <1>7, <1>8, <1>9, <1>10, <1>11 DEF RoomTurnNext

LEMMA RoomInvIsSafe ==
  ASSUME RoomInv
  PROVE  RoomTurnSafe
<1>1. \A b \in Members :
         /\ cursor[b] \in RoomCursors /\ Public(room, b) \in Seq(RoomRows)
         /\ CursorIs(Public(room, b), cursor[b], seen[b], b, moved)
  BY OfBot DEF BotInv
<1>2. CursorSkipsNothing
  BY <1>1 DEF CursorSkipsNothing, CursorIs, Covers
<1>3. NothingIsReadTwice
  <2>1. ASSUME NEW b \in Members \ moved
        PROVE  seen[b] \cap Numbers(Delta(Public(room, b), cursor[b])) = {}
    <3> DEFINE items == Public(room, b)
               c == cursor[b]
    <3>1. c \in RoomCursors /\ items \in Seq(RoomRows)
          /\ Beyond(items, c, seen[b]) /\ Unmatched(items, c, seen[b])
      BY <1>1 DEF CursorIs
    <3> HIDE DEF items, c
    <3>2. Numbers(Delta(items, c)) =
            {items[i].n : i \in {k \in DOMAIN items : Matches(items, c) => k > c.count}}
      BY <3>1, DeltaIs
    <3>3. \A k \in DOMAIN items : (Matches(items, c) => k > c.count) => items[k].n \notin seen[b]
      BY <3>1 DEF Beyond, Unmatched
    <3>4. seen[b] \cap Numbers(Delta(items, c)) = {}
      BY <3>2, <3>3
    <3>5. QED
      BY <3>4 DEF items, c
  <2>2. QED
    BY <2>1 DEF NothingIsReadTwice
<1>4. QED
  BY <1>2, <1>3 DEF RoomTurnSafe, RoomInv, RecallInv

\* The room cursors of every bot, in any interleaving of the turns, the cuts of
\* a retry and the posts of HTTP threads: a cursor that matches the room passes
\* no row that its bot did not read, nothing is given twice unless the room has
\* left the cursor behind, and a recall is armed only when one is owed
\* (room_delta, room_after and _reinject_pending of bots/runtime.py).
THEOREM CursorsAreSafe == RoomTurnSpec => []RoomTurnSafe
<1>1. RoomTurnInit => RoomInv
  BY RoomStarts
<1>2. RoomInv /\ [RoomTurnNext]_roomVars => RoomInv'
  BY RoomStep
<1>3. RoomInv => RoomTurnSafe
  BY RoomInvIsSafe
<1>4. QED
  BY <1>1, <1>2, <1>3, PTL DEF RoomTurnSpec

-----------------------------------------------------------------------------
(***************************************************************************)
(* The safety of a session, for any calls, bounds and sizes of the context.*)
(*                                                                         *)
(* SessionInv is inductive.  Every list of rows holds what was said, in its*)
(* rows or behind its markers (SaidIsHeld), and each row of calls has its  *)
(* results right behind it (RoundsAreWhole) as long as no crash cut a round.*)
(* Besides: a summary that is awaited was worth asking for, and the turn   *)
(* that will take it in has had a request (SummariesAreOwned), so that it  *)
(* cannot put back what an earlier check found too long; and a turn that is*)
(* about to make its first request has compacted, or found no more than the*)
(* backstop allows, and carries no more than it found and the user's text  *)
(* (SpaceIsMade), so that only the signal can take it over the backstop.   *)
(***************************************************************************)

EntryKinds == {"user", "reply", "call", "tool", "shrunk", "mark", "side"}
Entries == [kind : EntryKinds, id : Nat, set : SUBSET (Nat \cup ToSet(CallSeq)), err : BOOLEAN]

\* The rows are those of S, each once, in the transcript or behind a marker.
RowsHold(list, S) ==
    /\ Ids(list) \cup Covered(list) = S
    /\ Ids(list) \cap Covered(list) = {}
    /\ \A i, k \in DOMAIN list : list[i].id = list[k].id /\ list[i].id > 0 => i = k
    /\ \A i \in DOMAIN list : list[i].kind = "mark" => list[i].id = 0
    /\ \A i \in DOMAIN list : list[i].kind # "shrunk"

\* The fields of a row.
LEMMA EntryIs ==
  ASSUME NEW list \in Seq(Entries)
  PROVE  /\ Len(list) \in Nat /\ DOMAIN list = 1..Len(list)
         /\ \A i \in DOMAIN list :
              /\ list[i] \in Entries
              /\ list[i].kind \in EntryKinds /\ list[i].id \in Nat
              /\ list[i].set \in SUBSET (Nat \cup ToSet(CallSeq))
<1>1. Len(list) \in Nat /\ DOMAIN list = 1..Len(list)
  BY LenProperties
<1>2. \A i \in DOMAIN list : list[i] \in Entries
  BY <1>1, ElementOfSeq
<1>3. QED
  BY <1>1, <1>2 DEF Entries

\* A row that is written is one.
LEMMA EntryMade ==
  ASSUME NEW k \in EntryKinds, NEW n \in Nat, NEW set \in SUBSET (Nat \cup ToSet(CallSeq))
  PROVE  /\ Row(k, n, set) \in Entries
         /\ Row(k, n, set).kind = k /\ Row(k, n, set).id = n /\ Row(k, n, set).set = set
BY DEF Row, Entries

\* What it takes to be an id of the rows, and to be behind a marker.
LEMMA IdsAre ==
  ASSUME NEW list \in Seq(Entries), NEW x
  PROVE  /\ x \in Ids(list) <=> x # 0 /\ \E i \in DOMAIN list : list[i].id = x
         /\ x \in Covered(list) <=>
              \E i \in DOMAIN list : list[i].kind = "mark" /\ x \in list[i].set
BY DEF Ids, Covered

\* The ids of a list are finitely many numbers.
LEMMA IdsFinite ==
  ASSUME NEW list \in Seq(Entries)
  PROVE  IsFiniteSet(Ids(list)) /\ Ids(list) \subseteq Nat \ {0}
<1> DEFINE D == DOMAIN list
           T == {list[i].id : i \in D}
           f == [i \in D |-> list[i].id]
<1>1. /\ Len(list) \in Nat /\ D = 1..Len(list)
      /\ \A i \in D : list[i].id \in Nat
  BY EntryIs
<1>2. IsFiniteSet(D)
  BY <1>1, FS_Interval
<1>3. f \in Surjection(D, T)
  <2>1. f \in [D -> T]
    OBVIOUS
  <2>2. \A t \in T : \E i \in D : f[i] = t
    OBVIOUS
  <2>3. QED
    BY <2>1, <2>2 DEF Surjection
<1>4. IsFiniteSet(T)
  BY <1>2, <1>3, FS_Surjection
<1>5. IsFiniteSet(T \ {0})
  BY <1>4, FS_RemoveElement
<1>6. T \subseteq Nat
  BY <1>1
<1>7. Ids(list) = T \ {0}
  BY DEF Ids
<1>8. QED
  BY <1>5, <1>6, <1>7

\* The greatest of a finite set of numbers.
LEMMA GreatestIs ==
  ASSUME NEW S \in SUBSET Nat, IsFiniteSet(S), NEW z \in S
  PROVE  Max(S) \in S /\ \A x \in S : Max(S) >= x
<1>1. \E m \in S : \A x \in S : m >= x
  BY LastOfSet
<1>2. Max(S) = CHOOSE m \in S : \A x \in S : m >= x
  BY DEF Max
<1>3. QED
  BY <1>1, <1>2

\* An id that is given out is new.
LEMMA NextIdIsNew ==
  ASSUME NEW S \in SUBSET Nat, IsFiniteSet(S), RowsHold(view, S), said = S
  PROVE  /\ NextId \in Nat \ {0}
         /\ \A x \in S : x < NextId
<1> DEFINE all == {0} \cup said \cup Ids(view) \cup Covered(view)
<1>1. all = {0} \cup S
  BY DEF RowsHold
<1>2. IsFiniteSet({0} \cup S) /\ ({0} \cup S) \subseteq Nat
  <2>1. IsFiniteSet(S \cup {0})
    BY FS_AddElement
  <2>2. {0} \cup S = S \cup {0}
    OBVIOUS
  <2>3. QED
    BY <2>1, <2>2
<1>3. 0 \in {0} \cup S
  OBVIOUS
<1>4. Max(all) \in {0} \cup S /\ \A x \in {0} \cup S : Max(all) >= x
  BY <1>1, <1>2, <1>3, GreatestIs
<1>5. NextId = Max(all) + 1
  BY DEF NextId
<1>6. Max(all) \in Nat /\ \A x \in S : Max(all) >= x
  BY <1>2, <1>4
<1>7. \A x \in S : x \in Nat
  OBVIOUS
<1> HIDE DEF all
<1> DEFINE m == Max(all)
<1>8. NextId = m + 1 /\ m \in Nat /\ \A x \in S : m >= x
  BY <1>5, <1>6
<1> HIDE DEF m
<1>9. QED
  BY <1>7, <1>8

\* Rows that are new from n on: no marker, and no id twice.
FreshFrom(new, n) ==
    /\ \A i \in DOMAIN new : new[i].kind \notin {"mark", "shrunk"} /\ new[i].id >= n
    /\ \A i, k \in DOMAIN new : new[i].id = new[k].id => i = k

\* What is where in a list that is followed by another.
LEMMA Joined ==
  ASSUME NEW T, NEW s \in Seq(T), NEW t \in Seq(T)
  PROVE  /\ s \o t \in Seq(T) /\ Len(s \o t) = Len(s) + Len(t)
         /\ Len(s) \in Nat /\ Len(t) \in Nat
         /\ DOMAIN s = 1..Len(s) /\ DOMAIN t = 1..Len(t)
         /\ DOMAIN (s \o t) = 1..(Len(s) + Len(t))
         /\ \A i \in 1..Len(s) : (s \o t)[i] = s[i]
         /\ \A k \in 1..Len(t) : (s \o t)[Len(s) + k] = t[k]
         /\ \A i \in DOMAIN (s \o t) :
              i \in 1..Len(s) \/ (i - Len(s) \in 1..Len(t) /\ (s \o t)[i] = t[i - Len(s)])
<1>1. /\ s \o t \in Seq(T) /\ Len(s \o t) = Len(s) + Len(t)
      /\ \A i \in 1 .. Len(s) + Len(t) : (s \o t)[i] =
                     IF i <= Len(s) THEN s[i] ELSE t[i - Len(s)]
  BY ConcatProperties
<1>2. Len(s) \in Nat /\ Len(t) \in Nat /\ DOMAIN s = 1..Len(s) /\ DOMAIN t = 1..Len(t)
  BY LenProperties
<1>3. DOMAIN (s \o t) = 1..(Len(s) + Len(t))
  BY <1>1, LenProperties
<1>4. \A i \in 1..Len(s) : (s \o t)[i] = s[i]
  BY <1>1, <1>2
<1>5. ASSUME NEW k \in 1..Len(t)
      PROVE  (s \o t)[Len(s) + k] = t[k]
  <2>1. Len(s) + k \in 1..Len(s) + Len(t) /\ ~(Len(s) + k <= Len(s)) /\ (Len(s) + k) - Len(s) = k
    BY <1>2
  <2>2. QED
    BY <1>1, <2>1
<1>6. ASSUME NEW i \in DOMAIN (s \o t)
      PROVE  i \in 1..Len(s) \/ (i - Len(s) \in 1..Len(t) /\ (s \o t)[i] = t[i - Len(s)])
  BY <1>1, <1>2, <1>3
<1>7. QED
  BY <1>1, <1>2, <1>3, <1>4, <1>5, <1>6

\* New rows are appended: the ids that the rows stand for grow by theirs.
LEMMA RowsGrown ==
  ASSUME NEW list \in Seq(Entries), NEW new \in Seq(Entries),
         NEW S \in SUBSET Nat, RowsHold(list, S),
         NEW n \in Nat \ {0}, \A x \in S : x < n, FreshFrom(new, n)
  PROVE  list \o new \in Seq(Entries) /\ RowsHold(list \o new, S \cup Ids(new))
<1> DEFINE all == list \o new
<1>1. /\ all \in Seq(Entries)
      /\ Len(list) \in Nat /\ Len(new) \in Nat
      /\ DOMAIN list = 1..Len(list) /\ DOMAIN new = 1..Len(new)
      /\ DOMAIN all = 1..(Len(list) + Len(new))
      /\ \A i \in 1..Len(list) : all[i] = list[i]
      /\ \A k \in 1..Len(new) : all[Len(list) + k] = new[k]
      /\ \A i \in DOMAIN all :
           i \in 1..Len(list) \/ (i - Len(list) \in 1..Len(new) /\ all[i] = new[i - Len(list)])
  BY Joined
<1> HIDE DEF all
<1>2. \A i \in 1..Len(list) : i \in DOMAIN all
  BY <1>1
<1>3. \A k \in 1..Len(new) : Len(list) + k \in DOMAIN all
  BY <1>1
<1>4. Ids(all) = Ids(list) \cup Ids(new)
  <2>1. ASSUME NEW x
        PROVE  x \in Ids(all) <=> x \in Ids(list) \/ x \in Ids(new)
    <3>1. (\E i \in DOMAIN all : all[i].id = x)
            <=> (\E i \in DOMAIN list : list[i].id = x) \/ (\E k \in DOMAIN new : new[k].id = x)
      <4>1. ASSUME NEW i \in DOMAIN all, all[i].id = x
            PROVE  (\E k \in DOMAIN list : list[k].id = x) \/ (\E k \in DOMAIN new : new[k].id = x)
        <5>1. CASE i \in 1..Len(list)
          BY <1>1, <4>1, <5>1
        <5>2. CASE i \notin 1..Len(list)
          <6>1. i - Len(list) \in DOMAIN new /\ all[i] = new[i - Len(list)]
            BY <1>1, <5>2
          <6>2. QED
            BY <4>1, <6>1
        <5>3. QED
          BY <5>1, <5>2
      <4>2. ASSUME NEW i \in DOMAIN list, list[i].id = x
            PROVE  \E k \in DOMAIN all : all[k].id = x
        BY <1>1, <1>2, <4>2
      <4>3. ASSUME NEW k \in DOMAIN new, new[k].id = x
            PROVE  \E i \in DOMAIN all : all[i].id = x
        BY <1>1, <1>3, <4>3
      <4>4. QED
        BY <4>1, <4>2, <4>3
    <3>2. x \in Ids(all) <=> x # 0 /\ \E i \in DOMAIN all : all[i].id = x
      BY <1>1, IdsAre
    <3>3. /\ x \in Ids(list) <=> x # 0 /\ \E i \in DOMAIN list : list[i].id = x
          /\ x \in Ids(new) <=> x # 0 /\ \E i \in DOMAIN new : new[i].id = x
      BY IdsAre
    <3>4. QED
      BY <3>1, <3>2, <3>3
  <2>2. QED
    BY <2>1
<1>5. Covered(all) = Covered(list)
  <2>1. \A k \in 1..Len(new) : new[k].kind # "mark"
    BY <1>1 DEF FreshFrom
  <2>2. ASSUME NEW x
        PROVE  x \in Covered(all) <=> x \in Covered(list)
    <3>1. (\E i \in DOMAIN all : all[i].kind = "mark" /\ x \in all[i].set)
            <=> (\E i \in DOMAIN list : list[i].kind = "mark" /\ x \in list[i].set)
      BY <1>1, <1>2, <2>1
    <3>2. QED
      BY <1>1, <3>1, IdsAre
  <2>3. QED
    BY <2>2
<1>6. \A i \in 1..Len(list) : list[i].id > 0 => list[i].id \in S
  <2>1. ASSUME NEW i \in 1..Len(list), list[i].id > 0
        PROVE  list[i].id \in Ids(list)
    <3>1. list[i].id \in Nat /\ i \in DOMAIN list
      BY <1>1, EntryIs
    <3>2. QED
      BY <2>1, <3>1, IdsAre
  <2>2. Ids(list) \subseteq S
    BY DEF RowsHold
  <2>3. QED
    BY <2>1, <2>2
<1>7. \A k \in 1..Len(new) : new[k].id \in Nat /\ new[k].id >= n /\ new[k].id > 0
  <2>1. \A k \in 1..Len(new) : new[k].id \in Nat
    BY EntryIs
  <2>2. \A k \in 1..Len(new) : new[k].id >= n
    BY <1>1 DEF FreshFrom
  <2>3. QED
    BY <2>1, <2>2
<1>8. Ids(new) \cap S = {}
  <2>1. \A x \in Ids(new) : x >= n
    BY <1>1, <1>7, IdsAre
  <2>2. \A x \in S : ~(x >= n)
    OBVIOUS
  <2>3. QED
    BY <2>1, <2>2
<1>9. \A i, k \in DOMAIN all : all[i].id = all[k].id /\ all[i].id > 0 => i = k
  <2>1. ASSUME NEW i \in 1..Len(list), NEW k \in 1..Len(new)
        PROVE  ~(list[i].id = new[k].id /\ list[i].id > 0)
    <3>1. list[i].id > 0 => list[i].id < n
      BY <1>6
    <3>2. list[i].id \in Nat
      BY <1>1, EntryIs
    <3>3. QED
      BY <1>7, <3>1, <3>2
  <2>2. \A i, k \in 1..Len(list) : list[i].id = list[k].id /\ list[i].id > 0 => i = k
    BY <1>1 DEF RowsHold
  <2>3. \A i, k \in 1..Len(new) : new[i].id = new[k].id => i = k
    BY <1>1 DEF FreshFrom
  <2>4. ASSUME NEW i \in DOMAIN all, NEW k \in DOMAIN all,
               all[i].id = all[k].id, all[i].id > 0
        PROVE  i = k
    <3>1. CASE i \in 1..Len(list) /\ k \in 1..Len(list)
      BY <1>1, <2>2, <2>4, <3>1
    <3>2. CASE i \in 1..Len(list) /\ k \notin 1..Len(list)
      BY <1>1, <2>1, <2>4, <3>2
    <3>3. CASE i \notin 1..Len(list) /\ k \in 1..Len(list)
      BY <1>1, <2>1, <2>4, <3>3
    <3>4. CASE i \notin 1..Len(list) /\ k \notin 1..Len(list)
      <4>1. i - Len(list) = k - Len(list)
        <5>1. /\ i - Len(list) \in 1..Len(new) /\ all[i] = new[i - Len(list)]
              /\ k - Len(list) \in 1..Len(new) /\ all[k] = new[k - Len(list)]
          BY <1>1, <3>4
        <5>2. PICK a \in 1..Len(new), b \in 1..Len(new) :
                 a = i - Len(list) /\ b = k - Len(list) /\ all[i] = new[a] /\ all[k] = new[b]
          BY <5>1
        <5>3. a = b
          BY <2>3, <2>4, <5>2
        <5>4. QED
          BY <5>2, <5>3
      <4>2. QED
        BY <1>1, <4>1
    <3>5. QED
      BY <3>1, <3>2, <3>3, <3>4
  <2>5. QED
    BY <2>4
<1>10. \A i \in DOMAIN all : (all[i].kind = "mark" => all[i].id = 0) /\ all[i].kind # "shrunk"
  BY <1>1 DEF RowsHold, FreshFrom
<1>11. Covered(list) \subseteq S
  BY DEF RowsHold
<1>12. /\ Ids(all) \cup Covered(all) = S \cup Ids(new)
       /\ Ids(all) \cap Covered(all) = {}
  <2>1. Ids(list) \cup Covered(list) = S /\ Ids(list) \cap Covered(list) = {}
    BY DEF RowsHold
  <2>2. QED
    BY <1>4, <1>5, <1>8, <1>11, <2>1
<1>13. RowsHold(all, S \cup Ids(new))
  BY <1>9, <1>10, <1>12 DEF RowsHold
<1>14. QED
  BY <1>1, <1>13 DEF all

-----------------------------------------------------------------------------
(* What a compaction cuts off and keeps                                    *)

\* The least of a finite set of numbers.
LEMMA LeastIs ==
  ASSUME NEW S \in SUBSET Nat, IsFiniteSet(S), S # {}
  PROVE  Min(S) \in S /\ \A x \in S : Min(S) <= x
<1>1. Cardinality(S) \in Nat /\ Cardinality(S) # 0
  BY FS_CardinalityType, FS_EmptySet
<1>2. 1 \in 1..Cardinality(S)
  BY <1>1
<1>3. Nth(S, 1) \in S /\ Rank(S, Nth(S, 1)) = 1
  BY <1>2, NthIs
<1>4. PICK m \in S : Rank(S, m) = 1
  BY <1>3
<1>5. \A x \in S : x < m => Rank(S, x) < Rank(S, m)
  BY RankGrows
<1>6. \A x \in S : Rank(S, x) \in 1..Cardinality(S)
  BY RankGrows
<1>7. \A x \in S : ~(x < m)
  BY <1>1, <1>4, <1>5, <1>6
<1>8. \E k \in S : \A x \in S : k <= x
  BY <1>7
<1>9. Min(S) = CHOOSE k \in S : \A x \in S : k <= x
  BY DEF Min
<1>10. QED
  BY <1>8, <1>9

\* The cut of a plan: nothing goes, or what goes ends with a whole piece and
\* something is left.
LEMMA OmitIs ==
  ASSUME NEW body \in Seq(Entries)
  PROVE  /\ Omit(body) \in 0..Len(body)
         /\ Omit(body) # 0 => Omit(body) < Len(body) /\ EndsPiece(body, Omit(body))
<1> DEFINE cuts == {0} \cup {i \in 1..(Len(body) - 1) : EndsPiece(body, i)}
           fits == {c \in cuts : Weight(SubSeq(body, c + 1, Len(body))) <= TailBudget}
<1>1. Len(body) \in Nat
  BY EntryIs
<1>2. CASE body = <<>>
  BY <1>1, <1>2 DEF Omit
<1>3. CASE body # <<>>
  <2>1. Len(body) # 0
    BY <1>3, EmptySeq
  <2>2. cuts \in SUBSET (0..(Len(body) - 1)) /\ cuts \in SUBSET Nat /\ 0 \in cuts
    BY <1>1, <2>1
  <2>3. IsFiniteSet(0..(Len(body) - 1))
    BY <1>1, FS_Interval
  <2>4. IsFiniteSet(cuts)
    BY <2>2, <2>3, FS_Subset
  <2>5. Max(cuts) \in cuts
    BY <2>2, <2>4, GreatestIs
  <2>6. fits \in SUBSET cuts
    OBVIOUS
  <2>7. IsFiniteSet(fits) /\ fits \in SUBSET Nat
    BY <2>2, <2>4, <2>6, FS_Subset
  <2>8. fits # {} => Min(fits) \in fits
    BY <2>7, LeastIs
  <2>9. Omit(body) = IF fits # {} THEN Min(fits) ELSE Max(cuts)
    BY <1>3 DEF Omit
  <2>10. Omit(body) \in cuts
    BY <2>5, <2>6, <2>8, <2>9
  <2>11. \A c \in cuts : c # 0 => EndsPiece(body, c)
    OBVIOUS
  <2>12. QED
    BY <1>1, <2>1, <2>2, <2>10, <2>11
<1>4. QED
  BY <1>2, <1>3

\* A filter of rows: what it keeps, and where that was.
LEMMA KeptRows ==
  ASSUME NEW list \in Seq(Entries), NEW P \in SUBSET DOMAIN list
  PROVE  /\ KeptAt(list, P) \in Seq(Entries)
         /\ Len(KeptAt(list, P)) = Cardinality(P) /\ Cardinality(P) \in Nat
         /\ DOMAIN KeptAt(list, P) = 1..Cardinality(P)
         /\ \A j \in 1..Cardinality(P) :
              Nth(P, j) \in P /\ Nth(P, j) \in DOMAIN list /\ KeptAt(list, P)[j] = list[Nth(P, j)]
         /\ \A i \in P : \E j \in 1..Cardinality(P) :
              Nth(P, j) = i /\ KeptAt(list, P)[j] = list[i]
         /\ \A i, j \in 1..Cardinality(P) : Nth(P, i) = Nth(P, j) => i = j
<1>1. /\ KeptAt(list, P) \in Seq(Entries)
      /\ Len(KeptAt(list, P)) = Cardinality(P) /\ Cardinality(P) \in Nat
      /\ DOMAIN KeptAt(list, P) = 1..Cardinality(P)
      /\ \A j \in 1..Cardinality(P) : Nth(P, j) \in P /\ KeptAt(list, P)[j] = list[Nth(P, j)]
  BY KeptIsSeq
<1>2. P \subseteq Nat /\ IsFiniteSet(P)
  BY PositionsFinite
<1>3. \A j \in 1..Cardinality(P) : Rank(P, Nth(P, j)) = j
  BY <1>2, NthIs
<1>4. ASSUME NEW i \in P
      PROVE  \E j \in 1..Cardinality(P) : Nth(P, j) = i
  <2>1. Rank(P, i) \in 1..Cardinality(P)
    BY <1>2, RankGrows
  <2>2. Nth(P, Rank(P, i)) \in P /\ Rank(P, Nth(P, Rank(P, i))) = Rank(P, i)
    BY <1>1, <1>3, <2>1
  <2>3. \A k \in P : k < i => Rank(P, k) < Rank(P, i)
    BY <1>2, RankGrows
  <2>4. \A k \in P : i < k => Rank(P, i) < Rank(P, k)
    BY <1>2, RankGrows
  <2>5. PICK k \in P : k = Nth(P, Rank(P, i)) /\ Rank(P, k) = Rank(P, i)
    BY <2>2
  <2>6. k \in Nat /\ i \in Nat /\ Rank(P, i) \in Nat
    BY <1>1, <1>2, <2>1
  <2>7. ~(k < i) /\ ~(i < k)
    BY <2>3, <2>4, <2>5, <2>6
  <2>8. k = i
    BY <2>6, <2>7
  <2>9. QED
    BY <2>1, <2>5, <2>8
<1>5. QED
  BY <1>1, <1>3, <1>4

BodyAt(list) == {i \in DOMAIN list : list[i].kind # "mark"}
\* A transcript without its markers.
LEMMA BodyIs ==
  ASSUME NEW list \in Seq(Entries)
  PROVE  /\ Body(list) \in Seq(Entries)
         /\ DOMAIN Body(list) = 1..Len(Body(list)) /\ Len(Body(list)) \in Nat
         /\ \A j \in DOMAIN Body(list) :
              /\ Nth(BodyAt(list), j) \in DOMAIN list
              /\ Body(list)[j] = list[Nth(BodyAt(list), j)] /\ Body(list)[j].kind # "mark"
         /\ \A i \in DOMAIN list : list[i].kind # "mark" =>
              \E j \in DOMAIN Body(list) : Body(list)[j] = list[i]
         /\ \A i, j \in DOMAIN Body(list) :
              Nth(BodyAt(list), i) = Nth(BodyAt(list), j) => i = j
<1>1. BodyAt(list) \in SUBSET DOMAIN list
  BY DEF BodyAt
<1>2. Body(list) = KeptAt(list, BodyAt(list))
  BY DEF Body, BodyAt
<1>3. \A i \in DOMAIN list : i \in BodyAt(list) <=> list[i].kind # "mark"
  BY DEF BodyAt
<1> DEFINE P == BodyAt(list)
           body == Body(list)
<1>4. /\ body \in Seq(Entries)
      /\ Len(body) = Cardinality(P) /\ Cardinality(P) \in Nat
      /\ DOMAIN body = 1..Cardinality(P)
      /\ \A j \in 1..Cardinality(P) :
           Nth(P, j) \in P /\ Nth(P, j) \in DOMAIN list /\ body[j] = list[Nth(P, j)]
      /\ \A i \in P : \E j \in 1..Cardinality(P) :
           Nth(P, j) = i /\ body[j] = list[i]
      /\ \A i, j \in 1..Cardinality(P) : Nth(P, i) = Nth(P, j) => i = j
  BY <1>1, <1>2, KeptRows
<1>a. \A i \in P : \E j \in DOMAIN body : body[j] = list[i]
  BY <1>1, <1>2, KeptHasAll
<1> HIDE DEF body, P
<1>5. P = BodyAt(list) /\ body = Body(list)
  BY DEF P, body
<1>6. /\ DOMAIN body = 1..Len(body) /\ Len(body) \in Nat
      /\ \A j \in DOMAIN body : Nth(P, j) \in DOMAIN list /\ body[j] = list[Nth(P, j)]
      /\ \A i, j \in DOMAIN body : Nth(P, i) = Nth(P, j) => i = j
  BY <1>4
<1>7. \A j \in DOMAIN body : body[j].kind # "mark"
  BY <1>3, <1>4, <1>5
<1>8. ASSUME NEW i \in DOMAIN list, list[i].kind # "mark"
      PROVE  \E j \in DOMAIN body : body[j] = list[i]
  <2>1. i \in P
    BY <1>3, <1>5, <1>8
  <2>2. QED
    BY <1>a, <2>1
<1>9. QED
  BY <1>4, <1>5, <1>6, <1>7, <1>8

\* What a compaction cuts off, what it leaves, and what its marker stands for.
Cut(list) == Omit(Body(list))
Gone(list) == SubSeq(Body(list), 1, Cut(list))
Left(list) == SubSeq(Body(list), Cut(list) + 1, Len(Body(list)))
StandsFor(list) == Ids(Gone(list)) \cup Covered(list)

\* The rows that a compaction keeps, and the marker in front of them.
LEMMA RenderedIs ==
  ASSUME NEW list \in Seq(Entries)
  PROVE  /\ Len(Body(list)) \in Nat /\ Cut(list) \in 0..Len(Body(list))
         /\ Gone(list) \in Seq(Entries)
         /\ DOMAIN Gone(list) = 1..Cut(list)
         /\ \A i \in 1..Cut(list) : Gone(list)[i] = Body(list)[i]
         /\ Left(list) \in Seq(Entries) /\ Len(Left(list)) = Len(Body(list)) - Cut(list)
         /\ DOMAIN Left(list) = 1..(Len(Body(list)) - Cut(list))
         /\ \A i \in 1..(Len(Body(list)) - Cut(list)) :
               Left(list)[i] = Body(list)[Cut(list) + i]
         /\ StandsFor(list) \in SUBSET (Nat \cup ToSet(CallSeq))
         /\ Rendered(list) \in Seq(Entries)
         /\ Len(Rendered(list)) = Len(Left(list)) + 1
         /\ DOMAIN Rendered(list) = 1..(Len(Left(list)) + 1)
         /\ Rendered(list)[1] = Row("mark", 0, StandsFor(list))
         /\ \A k \in DOMAIN Left(list) : Rendered(list)[k + 1] = Left(list)[k]
<1> DEFINE body == Body(list)
           cut == Cut(list)
           covers == StandsFor(list)
           gone == Gone(list)
           left == Left(list)
           mark == <<Row("mark", 0, covers)>>
<1>0. /\ cut = Omit(body) /\ gone = SubSeq(body, 1, cut)
      /\ left = SubSeq(body, cut + 1, Len(body))
      /\ covers = Ids(gone) \cup Covered(list)
      /\ Rendered(list) = mark \o left
  BY DEF Cut, Gone, Left, StandsFor, Rendered
<1> HIDE DEF body, cut, covers, gone, left
<1>1. body \in Seq(Entries) /\ Len(body) \in Nat /\ DOMAIN body = 1..Len(body)
  BY BodyIs DEF body
<1>2. cut \in 0..Len(body)
  BY <1>0, <1>1, OmitIs
<1>3. \A i \in 1..Len(body) : body[i] \in Entries
  BY <1>1, EntryIs
<1>4. /\ gone \in Seq(Entries)
      /\ Len(gone) = cut
      /\ \A i \in 1..cut : gone[i] = body[i]
  <2>1. cut \in Int /\ \A i \in 1..cut : body[i] \in Entries
    BY <1>1, <1>2, <1>3
  <2>2. /\ gone \in Seq(Entries)
        /\ Len(gone) = IF 1 <= cut THEN cut - 1 + 1 ELSE 0
        /\ \A i \in 1 .. cut - 1 + 1 : gone[i] = body[1 + i - 1]
    BY <1>0, <2>1, SubSeqProperties
  <2>3. QED
    BY <1>2, <2>2
<1>5. /\ left \in Seq(Entries) /\ Len(left) = Len(body) - cut
      /\ \A i \in 1..(Len(body) - cut) : left[i] = body[cut + i]
  <2>1. cut + 1 \in Int /\ Len(body) \in Int /\ \A i \in (cut + 1)..Len(body) : body[i] \in Entries
    BY <1>1, <1>2, <1>3
  <2>2. /\ left \in Seq(Entries)
        /\ Len(left) = IF cut + 1 <= Len(body) THEN Len(body) - (cut + 1) + 1 ELSE 0
        /\ \A i \in 1 .. Len(body) - (cut + 1) + 1 : left[i] = body[(cut + 1) + i - 1]
    BY <1>0, <2>1, SubSeqProperties
  <2>3. Len(left) = Len(body) - cut
    <3>0. \A n \in Nat : \A c \in 0..n : c \in Nat /\ (c + 1 <= n \/ c = n)
      OBVIOUS
    <3>1. cut \in Nat /\ Len(body) \in Nat /\ (cut + 1 <= Len(body) \/ cut = Len(body))
      BY <1>1, <1>2, <3>0
    <3>2. cut = Len(body) => ~(cut + 1 <= Len(body)) /\ Len(body) - cut = 0
      BY <3>1
    <3>3. Len(body) - (cut + 1) + 1 = Len(body) - cut
      BY <3>1
    <3>4. Len(left) = IF cut + 1 <= Len(body) THEN Len(body) - (cut + 1) + 1 ELSE 0
      BY <2>2
    <3>5. QED
      BY <3>1, <3>2, <3>3, <3>4
  <2>4. ASSUME NEW i \in 1..(Len(body) - cut)
        PROVE  left[i] = body[cut + i]
    <3>1. i \in 1 .. Len(body) - (cut + 1) + 1 /\ (cut + 1) + i - 1 = cut + i
      BY <1>1, <1>2
    <3>2. left[i] = body[(cut + 1) + i - 1]
      BY <2>2, <3>1
    <3>3. QED
      BY <3>1, <3>2
  <2>5. QED
    BY <2>2, <2>3, <2>4
<1>6. DOMAIN left = 1..(Len(body) - cut) /\ DOMAIN gone = 1..cut
  BY <1>4, <1>5, LenProperties
<1>7. covers \in SUBSET (Nat \cup ToSet(CallSeq))
  <2>1. Ids(gone) \subseteq Nat
    BY <1>4, IdsFinite
  <2>2. \A i \in DOMAIN list : list[i].set \subseteq Nat \cup ToSet(CallSeq)
    BY EntryIs
  <2>3. Covered(list) \subseteq Nat \cup ToSet(CallSeq)
    BY <2>2, IdsAre
  <2>4. QED
    BY <1>0, <2>1, <2>3
<1>8. mark \in Seq(Entries) /\ Len(mark) = 1 /\ mark[1] = Row("mark", 0, covers)
  <2>1. Row("mark", 0, covers) \in Entries
    BY <1>7, EntryMade DEF EntryKinds
  <2>2. QED
    BY <2>1
<1> HIDE DEF mark
<1>10. /\ mark \o left \in Seq(Entries) /\ Len(mark \o left) = Len(mark) + Len(left)
       /\ Len(left) \in Nat /\ DOMAIN left = 1..Len(left)
       /\ DOMAIN (mark \o left) = 1..(Len(mark) + Len(left))
       /\ \A i \in 1..Len(mark) : (mark \o left)[i] = mark[i]
       /\ \A k \in 1..Len(left) : (mark \o left)[Len(mark) + k] = left[k]
  <2>1. mark \in Seq(Entries) /\ left \in Seq(Entries)
    BY <1>5, <1>8
  <2>2. QED
    BY <2>1, Joined
<1>11. /\ Rendered(list) \in Seq(Entries)
       /\ Len(Rendered(list)) = Len(left) + 1
       /\ DOMAIN Rendered(list) = 1..(Len(left) + 1)
       /\ Rendered(list)[1] = Row("mark", 0, covers)
       /\ \A k \in DOMAIN left : Rendered(list)[k + 1] = left[k]
  <2>1. Len(left) \in Nat /\ DOMAIN left = 1..Len(left)
    BY <1>10
  <2>2. 1 + Len(left) = Len(left) + 1 /\ \A k \in DOMAIN left : 1 + k = k + 1
    BY <2>1
  <2>3. (mark \o left)[1] = mark[1]
    BY <1>8, <1>10
  <2>4. \A k \in DOMAIN left : (mark \o left)[k + 1] = left[k]
    BY <1>8, <1>10, <2>2
  <2>5. QED
    BY <1>0, <1>8, <1>10, <2>2, <2>3, <2>4
<1>12. QED
  BY <1>1, <1>2, <1>4, <1>5, <1>6, <1>7, <1>11 DEF body, cut, covers, gone, left

\* A compaction forgets and repeats nothing.
LEMMA RowsRendered ==
  ASSUME NEW list \in Seq(Entries), NEW S, RowsHold(list, S)
  PROVE  Rendered(list) \in Seq(Entries) /\ RowsHold(Rendered(list), S)
<1> DEFINE all == Rendered(list)
           body == Body(list)
           cut == Cut(list)
           head == Gone(list)
           left == Left(list)
           covers == StandsFor(list)
<1>1. /\ body \in Seq(Entries) /\ Len(body) \in Nat /\ DOMAIN body = 1..Len(body)
      /\ cut \in 0..Len(body)
      /\ head \in Seq(Entries) /\ DOMAIN head = 1..cut /\ \A i \in 1..cut : head[i] = body[i]
      /\ left \in Seq(Entries) /\ Len(left) = Len(body) - cut
      /\ DOMAIN left = 1..(Len(body) - cut)
      /\ \A i \in 1..(Len(body) - cut) : left[i] = body[cut + i]
      /\ covers \in SUBSET (Nat \cup ToSet(CallSeq))
      /\ all \in Seq(Entries)
      /\ DOMAIN all = 1..(Len(left) + 1)
      /\ all[1] = Row("mark", 0, covers)
      /\ \A k \in DOMAIN left : all[k + 1] = left[k]
  BY RenderedIs, BodyIs
<1>2. /\ Row("mark", 0, covers).kind = "mark" /\ Row("mark", 0, covers).id = 0
      /\ Row("mark", 0, covers).set = covers
  BY <1>1, EntryMade DEF EntryKinds
<1> DEFINE at(j) == Nth(BodyAt(list), j)
<1>3. /\ \A j \in DOMAIN body :
            at(j) \in DOMAIN list /\ body[j] = list[at(j)] /\ body[j].kind # "mark"
      /\ \A i \in DOMAIN list : list[i].kind # "mark" => \E j \in DOMAIN body : body[j] = list[i]
      /\ \A i, j \in DOMAIN body : at(i) = at(j) => i = j
  BY BodyIs
<1> HIDE DEF all, body, cut, head, left, covers, at
<1>4. /\ Ids(list) \cup Covered(list) = S /\ Ids(list) \cap Covered(list) = {}
      /\ \A i, k \in DOMAIN list : list[i].id = list[k].id /\ list[i].id > 0 => i = k
      /\ \A i \in DOMAIN list : list[i].kind = "mark" => list[i].id = 0
      /\ \A i \in DOMAIN list : list[i].kind # "shrunk"
  BY DEF RowsHold
\* The rows of the result are the marker and rows of the body.
<1>5. ASSUME NEW i \in DOMAIN all
      PROVE  i = 1 \/ (i - 1 \in DOMAIN left /\ all[i] = left[i - 1])
  <2>1. i \in 1..(Len(left) + 1) /\ Len(left) \in Nat /\ DOMAIN left = 1..Len(left)
    BY <1>1
  <2>2. i = 1 \/ (i - 1 \in DOMAIN left /\ (i - 1) + 1 = i)
    BY <2>1
  <2>3. QED
    BY <1>1, <2>2
<1>6. \A k \in DOMAIN left : k + 1 \in DOMAIN all /\ cut + k \in DOMAIN body /\ left[k] = body[cut + k]
  BY <1>1
<1>7. 1 \in DOMAIN all
  BY <1>1
<1>8. \A i, j \in DOMAIN body : body[i].id = body[j].id /\ body[i].id > 0 => i = j
  <2>1. ASSUME NEW i \in DOMAIN body, NEW j \in DOMAIN body,
               body[i].id = body[j].id, body[i].id > 0
        PROVE  i = j
    <3>1. at(i) \in DOMAIN list /\ at(j) \in DOMAIN list
          /\ list[at(i)].id = list[at(j)].id /\ list[at(i)].id > 0
      BY <1>3, <2>1
    <3>2. at(i) = at(j)
      BY <1>4, <3>1
    <3>3. QED
      BY <1>3, <3>2
  <2>2. QED
    BY <2>1
<1>9. \A i, j \in DOMAIN all : all[i].id = all[j].id /\ all[i].id > 0 => i = j
  <2>1. ASSUME NEW i \in DOMAIN all, NEW j \in DOMAIN all, all[i].id = all[j].id, all[i].id > 0
        PROVE  i = j
    <3>1. i # 1 /\ j # 1
      BY <1>1, <1>2, <2>1
    <3>2. i - 1 \in DOMAIN left /\ j - 1 \in DOMAIN left
          /\ left[i - 1].id = left[j - 1].id /\ left[i - 1].id > 0
      BY <1>5, <2>1, <3>1
    <3>3. cut + (i - 1) = cut + (j - 1)
      BY <1>6, <1>8, <3>2
    <3>4. i \in Nat /\ j \in Nat /\ cut \in Nat
      BY <1>1
    <3>5. QED
      BY <3>3, <3>4
  <2>2. QED
    BY <2>1
<1>10. \A i \in DOMAIN all : (all[i].kind = "mark" => all[i].id = 0) /\ all[i].kind # "shrunk"
  <2>1. \A j \in DOMAIN body : body[j].kind # "mark" /\ body[j].kind # "shrunk"
    BY <1>3, <1>4
  <2>2. \A k \in DOMAIN left : left[k].kind # "mark" /\ left[k].kind # "shrunk"
    BY <1>6, <2>1
  <2>3. QED
    BY <1>1, <1>2, <1>5, <2>2
\* What is behind its marker.
<1>11. Covered(all) = covers
  <2>1. \A k \in DOMAIN left : left[k].kind # "mark"
    BY <1>3, <1>6
  <2>2. ASSUME NEW x
        PROVE  x \in Covered(all) <=> x \in covers
    <3>1. x \in Covered(all) <=> \E i \in DOMAIN all : all[i].kind = "mark" /\ x \in all[i].set
      BY <1>1, IdsAre
    <3>2. QED
      BY <1>1, <1>2, <1>5, <1>7, <2>1, <3>1
  <2>3. QED
    BY <2>2
<1>12. ASSUME NEW x, x # 0
       PROVE  /\ x \in Ids(all) <=> \E k \in DOMAIN left : left[k].id = x
              /\ x \in Ids(head) <=> \E k \in 1..cut : body[k].id = x
              /\ x \in Ids(list) <=> \E j \in DOMAIN body : body[j].id = x
  <2>1. x \in Ids(all) <=> \E i \in DOMAIN all : all[i].id = x
    BY <1>1, <1>12, IdsAre
  <2>2. x \in Ids(head) <=> \E i \in DOMAIN head : head[i].id = x
    BY <1>1, <1>12, IdsAre
  <2>3. x \in Ids(list) <=> \E i \in DOMAIN list : list[i].id = x
    BY <1>12, IdsAre
  <2>4. (\E i \in DOMAIN all : all[i].id = x) <=> \E k \in DOMAIN left : left[k].id = x
    <3>1. ASSUME NEW k \in DOMAIN left, left[k].id = x
          PROVE  \E i \in DOMAIN all : all[i].id = x
      BY <1>1, <1>6, <3>1
    <3>2. ASSUME NEW i \in DOMAIN all, all[i].id = x
          PROVE  \E k \in DOMAIN left : left[k].id = x
      BY <1>1, <1>2, <1>5, <1>12, <3>2
    <3>3. QED
      BY <3>1, <3>2
  <2>5. (\E i \in DOMAIN list : list[i].id = x) <=> \E j \in DOMAIN body : body[j].id = x
    <3>1. ASSUME NEW i \in DOMAIN list, list[i].id = x
          PROVE  \E j \in DOMAIN body : body[j].id = x
      <4>1. list[i].kind # "mark"
        BY <1>4, <1>12, <3>1
      <4>2. QED
        BY <1>3, <3>1, <4>1
    <3>2. QED
      BY <1>3, <3>1
  <2>6. (\E i \in DOMAIN head : head[i].id = x) <=> \E k \in 1..cut : body[k].id = x
    BY <1>1
  <2>7. QED
    BY <2>1, <2>2, <2>3, <2>4, <2>5, <2>6
<1>13. 0 \notin Ids(all) /\ 0 \notin Ids(head) /\ 0 \notin Ids(list)
  BY DEF Ids
<1>14. Ids(list) = Ids(head) \cup Ids(all) /\ Ids(head) \cap Ids(all) = {}
  <2>1. ASSUME NEW x, x # 0
        PROVE  /\ x \in Ids(list) <=> x \in Ids(head) \/ x \in Ids(all)
               /\ ~(x \in Ids(head) /\ x \in Ids(all))
    <3>1. (\E j \in DOMAIN body : body[j].id = x)
            <=> (\E k \in 1..cut : body[k].id = x) \/ \E k \in DOMAIN left : left[k].id = x
      <4>1. ASSUME NEW j \in DOMAIN body, body[j].id = x, j \notin 1..cut
            PROVE  \E k \in DOMAIN left : left[k].id = x
        <5>1. j - cut \in DOMAIN left /\ cut + (j - cut) = j
          BY <1>1, <4>1
        <5>2. QED
          BY <1>6, <4>1, <5>1
      <4>2. \A k \in 1..cut : k \in DOMAIN body
        BY <1>1
      <4>3. QED
        BY <1>6, <4>1, <4>2
    <3>2. ASSUME NEW k \in 1..cut, NEW m \in DOMAIN left, body[k].id = x, left[m].id = x
          PROVE  FALSE
      <4>1. k \in DOMAIN body /\ cut + m \in DOMAIN body /\ body[cut + m].id = x /\ k # cut + m
        BY <1>1, <1>6, <3>2
      <4>2. body[k].id \in Nat
        BY <1>1, <4>1, EntryIs
      <4>3. QED
        BY <1>8, <2>1, <3>2, <4>1, <4>2
    <3>3. QED
      BY <1>12, <2>1, <3>1, <3>2
  <2>2. QED
    BY <1>13, <2>1
<1>15. covers = Ids(head) \cup Covered(list)
  BY DEF covers, head, StandsFor
<1>16. /\ Ids(all) \cup Covered(all) = S
       /\ Ids(all) \cap Covered(all) = {}
  BY <1>4, <1>11, <1>14, <1>15
<1>17. RowsHold(all, S)
  BY <1>9, <1>10, <1>16 DEF RowsHold
<1>18. QED
  BY <1>1, <1>17 DEF all

-----------------------------------------------------------------------------
(* Retries, failures and costs                                             *)

\* Lists that differ in failure marks at most.
SameRows(s, t) ==
    /\ DOMAIN s = DOMAIN t
    /\ \A i \in DOMAIN s : t[i].kind = s[i].kind /\ t[i].id = s[i].id /\ t[i].set = s[i].set

\* A failure mark is set or removed.
LEMMA ErrSet ==
  ASSUME NEW list \in Seq(Entries), NEW i \in DOMAIN list, NEW b \in BOOLEAN
  PROVE  /\ [list EXCEPT ![i].err = b] \in Seq(Entries)
         /\ SameRows(list, [list EXCEPT ![i].err = b])
<1> DEFINE r == list[i]
           e == [r EXCEPT !.err = b]
           new == [list EXCEPT ![i] = e]
<1>1. Len(list) \in Nat /\ DOMAIN list = 1..Len(list) /\ r \in Entries /\ i \in 1..Len(list)
  BY EntryIs
<1>2. e \in Entries /\ e.kind = r.kind /\ e.id = r.id /\ e.set = r.set
  BY <1>1 DEF Entries
<1>3. [list EXCEPT ![i].err = b] = new
  OBVIOUS
<1> HIDE DEF e
<1>4. /\ new \in Seq(Entries) /\ Len(new) = Len(list)
      /\ \A j \in 1..Len(list) : new[j] = IF j = i THEN e ELSE list[j]
  BY <1>1, <1>2, ExceptSeq
<1>5. DOMAIN new = 1..Len(list)
  BY <1>4, LenProperties
<1> HIDE DEF new
<1>6. SameRows(list, new)
  BY <1>1, <1>2, <1>4, <1>5 DEF SameRows
<1>7. QED
  BY <1>3, <1>4, <1>6

\* ... and it stands for the same rows as before.
LEMMA RowsSame ==
  ASSUME NEW s \in Seq(Entries), NEW t \in Seq(Entries), SameRows(s, t),
         NEW S, RowsHold(s, S)
  PROVE  RowsHold(t, S)
<1>1. Ids(t) = Ids(s)
  <2>1. ASSUME NEW x
        PROVE  x \in Ids(t) <=> x \in Ids(s)
    <3>1. x \in Ids(t) <=> x # 0 /\ \E i \in DOMAIN t : t[i].id = x
      BY IdsAre
    <3>2. x \in Ids(s) <=> x # 0 /\ \E i \in DOMAIN s : s[i].id = x
      BY IdsAre
    <3>3. QED
      BY <3>1, <3>2 DEF SameRows
  <2>2. QED
    BY <2>1
<1>2. Covered(t) = Covered(s)
  <2>1. ASSUME NEW x
        PROVE  x \in Covered(t) <=> x \in Covered(s)
    <3>1. x \in Covered(t) <=> \E i \in DOMAIN t : t[i].kind = "mark" /\ x \in t[i].set
      BY IdsAre
    <3>2. x \in Covered(s) <=> \E i \in DOMAIN s : s[i].kind = "mark" /\ x \in s[i].set
      BY IdsAre
    <3>3. QED
      BY <3>1, <3>2 DEF SameRows
  <2>2. QED
    BY <2>1
<1>3. QED
  BY <1>1, <1>2 DEF RowsHold, SameRows

\* The first u rows.
LEMMA FirstRows ==
  ASSUME NEW list \in Seq(Entries), NEW u \in 0..Len(list)
  PROVE  /\ SubSeq(list, 1, u) \in Seq(Entries) /\ Len(SubSeq(list, 1, u)) = u
         /\ DOMAIN SubSeq(list, 1, u) = 1..u
         /\ \A i \in 1..u : i \in DOMAIN list /\ SubSeq(list, 1, u)[i] = list[i]
<1>1. Len(list) \in Nat /\ DOMAIN list = 1..Len(list) /\ \A i \in 1..Len(list) : list[i] \in Entries
  BY EntryIs
<1>2. u \in Int /\ u \in Nat /\ \A i \in 1..u : i \in DOMAIN list /\ list[i] \in Entries
  BY <1>1
<1>3. /\ SubSeq(list, 1, u) \in Seq(Entries)
      /\ Len(SubSeq(list, 1, u)) = IF 1 <= u THEN u - 1 + 1 ELSE 0
      /\ \A i \in 1 .. u - 1 + 1 : SubSeq(list, 1, u)[i] = list[1 + i - 1]
  BY <1>2, SubSeqProperties
<1>4. Len(SubSeq(list, 1, u)) = u /\ \A i \in 1..u : SubSeq(list, 1, u)[i] = list[i]
  BY <1>2, <1>3
<1>5. QED
  BY <1>2, <1>3, <1>4, LenProperties

\* A retry takes rows back: the others stay as they were.
LEMMA RowsCut ==
  ASSUME NEW list \in Seq(Entries), NEW S, RowsHold(list, S), NEW u \in 0..Len(list)
  PROVE  LET kept == SubSeq(list, 1, u)
             left == Ids(kept) \cup Covered(kept)
         IN  left \subseteq S /\ RowsHold(kept, left)
<1> DEFINE kept == SubSeq(list, 1, u)
           left == Ids(kept) \cup Covered(kept)
<1>1. /\ kept \in Seq(Entries) /\ DOMAIN kept = 1..u
      /\ \A i \in 1..u : i \in DOMAIN list /\ kept[i] = list[i]
  BY FirstRows
<1> HIDE DEF kept
<1>2. Ids(kept) \subseteq Ids(list)
  <2>1. ASSUME NEW x, x \in Ids(kept)
        PROVE  x \in Ids(list)
    <3>1. x # 0 /\ \E i \in DOMAIN kept : kept[i].id = x
      BY <1>1, <2>1, IdsAre
    <3>2. x # 0 /\ \E i \in DOMAIN list : list[i].id = x
      BY <1>1, <3>1
    <3>3. QED
      BY <3>2, IdsAre
  <2>2. QED
    BY <2>1
<1>3. Covered(kept) \subseteq Covered(list)
  <2>1. ASSUME NEW x, x \in Covered(kept)
        PROVE  x \in Covered(list)
    <3>1. \E i \in DOMAIN kept : kept[i].kind = "mark" /\ x \in kept[i].set
      BY <1>1, <2>1, IdsAre
    <3>2. \E i \in DOMAIN list : list[i].kind = "mark" /\ x \in list[i].set
      BY <1>1, <3>1
    <3>3. QED
      BY <3>2, IdsAre
  <2>2. QED
    BY <2>1
<1>4. /\ Ids(list) \cup Covered(list) = S /\ Ids(list) \cap Covered(list) = {}
      /\ \A i, k \in DOMAIN list : list[i].id = list[k].id /\ list[i].id > 0 => i = k
      /\ \A i \in DOMAIN list : list[i].kind = "mark" => list[i].id = 0
      /\ \A i \in DOMAIN list : list[i].kind # "shrunk"
  BY DEF RowsHold
<1>5. left \subseteq S /\ Ids(kept) \cap Covered(kept) = {}
  BY <1>2, <1>3, <1>4
<1>6. /\ \A i, k \in DOMAIN kept : kept[i].id = kept[k].id /\ kept[i].id > 0 => i = k
      /\ \A i \in DOMAIN kept : kept[i].kind = "mark" => kept[i].id = 0
      /\ \A i \in DOMAIN kept : kept[i].kind # "shrunk"
  BY <1>1, <1>4
<1>7. RowsHold(kept, left)
  BY <1>5, <1>6 DEF RowsHold
<1>8. QED
  BY <1>5, <1>7 DEF kept

\* The row with the cost of a summary is nobody's row.
LEMMA CostAppended ==
  ASSUME NEW list \in Seq(Entries), NEW S, RowsHold(list, S)
  PROVE  /\ Append(list, Row("side", 0, {})) \in Seq(Entries)
         /\ RowsHold(Append(list, Row("side", 0, {})), S)
<1> DEFINE e == Row("side", 0, {})
           all == Append(list, e)
<1>1. e \in Entries /\ e.kind = "side" /\ e.id = 0
  BY EntryMade DEF EntryKinds
<1> HIDE DEF e
<1>2. /\ all \in Seq(Entries) /\ Len(all) = Len(list) + 1
      /\ \A i \in 1..Len(list) : all[i] = list[i]
      /\ all[Len(list) + 1] = e
  BY <1>1, AppendProperties
<1>3. Len(list) \in Nat /\ DOMAIN list = 1..Len(list) /\ DOMAIN all = 1..(Len(list) + 1)
  BY <1>2, LenProperties
<1> HIDE DEF all
<1>4. \A i \in DOMAIN all : i \in DOMAIN list \/ all[i] = e
  BY <1>2, <1>3
<1>5. \A i \in DOMAIN list : i \in DOMAIN all /\ all[i] = list[i]
  BY <1>2, <1>3
<1>6. /\ Ids(list) \cup Covered(list) = S /\ Ids(list) \cap Covered(list) = {}
      /\ \A i, k \in DOMAIN list : list[i].id = list[k].id /\ list[i].id > 0 => i = k
      /\ \A i \in DOMAIN list : list[i].kind = "mark" => list[i].id = 0
      /\ \A i \in DOMAIN list : list[i].kind # "shrunk"
  BY DEF RowsHold
<1>7. Ids(all) = Ids(list)
  <2>1. ASSUME NEW x
        PROVE  x \in Ids(all) <=> x \in Ids(list)
    <3>1. x \in Ids(all) <=> x # 0 /\ \E i \in DOMAIN all : all[i].id = x
      BY <1>2, IdsAre
    <3>2. x \in Ids(list) <=> x # 0 /\ \E i \in DOMAIN list : list[i].id = x
      BY IdsAre
    <3>3. QED
      BY <1>1, <1>4, <1>5, <3>1, <3>2
  <2>2. QED
    BY <2>1
<1>8. Covered(all) = Covered(list)
  <2>1. ASSUME NEW x
        PROVE  x \in Covered(all) <=> x \in Covered(list)
    <3>1. x \in Covered(all) <=> \E i \in DOMAIN all : all[i].kind = "mark" /\ x \in all[i].set
      BY <1>2, IdsAre
    <3>2. x \in Covered(list) <=> \E i \in DOMAIN list : list[i].kind = "mark" /\ x \in list[i].set
      BY IdsAre
    <3>3. QED
      BY <1>1, <1>4, <1>5, <3>1, <3>2
  <2>2. QED
    BY <2>1
<1>9. \A i, k \in DOMAIN all : all[i].id = all[k].id /\ all[i].id > 0 => i = k
  <2>1. ~(e.id > 0)
    BY <1>1
  <2>2. ASSUME NEW i \in DOMAIN all, NEW k \in DOMAIN all, all[i].id = all[k].id, all[i].id > 0
        PROVE  i = k
    <3>1. i \in DOMAIN list /\ k \in DOMAIN list
      BY <1>4, <2>1, <2>2
    <3>2. QED
      BY <1>5, <1>6, <2>2, <3>1
  <2>3. QED
    BY <2>2
<1>10. \A i \in DOMAIN all : (all[i].kind = "mark" => all[i].id = 0) /\ all[i].kind # "shrunk"
  BY <1>1, <1>4, <1>5, <1>6
<1>11. RowsHold(all, S)
  BY <1>6, <1>7, <1>8, <1>9, <1>10 DEF RowsHold
<1>12. QED
  BY <1>2, <1>11 DEF all, e

-----------------------------------------------------------------------------
(* Rounds: calls with their results                                        *)

IsResult(r) == r.kind \in {"tool", "shrunk"}
\* Right behind row j are the results of its calls, one each.
RoundAt(list, j) ==
    /\ list[j].set \subseteq ToSet(CallSeq)
    /\ j + Cardinality(list[j].set) <= Len(list)
    /\ \A d \in 1..Cardinality(list[j].set) :
          IsResult(list[j + d]) /\ \E c \in list[j].set : list[j + d].set = {c}
    /\ \A c \in list[j].set : \E d \in 1..Cardinality(list[j].set) : list[j + d].set = {c}
    /\ \A d, e \in 1..Cardinality(list[j].set) : list[j + d].set = list[j + e].set => d = e
\* Every row of calls has its results, every result its row of calls.
InRounds(list) ==
    /\ \A j \in DOMAIN list : list[j].kind = "call" => RoundAt(list, j)
    /\ \A k \in DOMAIN list : IsResult(list[k]) =>
          \E j \in DOMAIN list :
             list[j].kind = "call" /\ j < k /\ k <= j + Cardinality(list[j].set)

\* The calls of a reply are finitely many.
LEMMA CallsFinite ==
  ASSUME NEW C \in SUBSET ToSet(CallSeq)
  PROVE  IsFiniteSet(C) /\ Cardinality(C) \in Nat
<1> DEFINE D == DOMAIN CallSeq
           T == {CallSeq[i] : i \in D}
           f == [i \in D |-> CallSeq[i]]
<1>1. CallSeq \in Seq(ToSet(CallSeq))
  BY SessionLoopAssumption
<1>2. Len(CallSeq) \in Nat /\ D = 1..Len(CallSeq)
  BY <1>1, LenProperties
<1>3. IsFiniteSet(D)
  BY <1>2, FS_Interval
<1>4. f \in Surjection(D, T)
  <2>1. f \in [D -> T]
    OBVIOUS
  <2>2. \A t \in T : \E i \in D : f[i] = t
    OBVIOUS
  <2>3. QED
    BY <2>1, <2>2 DEF Surjection
<1>5. IsFiniteSet(T)
  BY <1>3, <1>4, FS_Surjection
<1>6. T = ToSet(CallSeq)
  BY DEF ToSet
<1>7. IsFiniteSet(ToSet(CallSeq))
  BY <1>5, <1>6
<1>8. QED
  BY <1>7, FS_Subset, FS_CardinalityType

\* How many results a row of calls has behind it.
LEMMA RoundLength ==
  ASSUME NEW list \in Seq(Entries), InRounds(list), NEW j \in DOMAIN list, list[j].kind = "call"
  PROVE  Cardinality(list[j].set) \in Nat /\ RoundAt(list, j)
<1>1. RoundAt(list, j)
  BY DEF InRounds
<1>2. list[j].set \in SUBSET ToSet(CallSeq)
  BY <1>1 DEF RoundAt
<1>3. QED
  BY <1>1, <1>2, CallsFinite

\* Two rows of a round in the same role.
SameRole(a, b) ==
    /\ a.set = b.set
    /\ a.kind = "call" <=> b.kind = "call"
    /\ IsResult(a) <=> IsResult(b)

\* t has rows of s, row i that of f[i], each round as a whole.
TakesRounds(s, t, f) ==
    /\ f \in [DOMAIN t -> DOMAIN s]
    /\ \A i \in DOMAIN t : SameRole(t[i], s[f[i]])
    /\ \A i, k \in DOMAIN t : f[i] = f[k] => i = k
    /\ \A i \in DOMAIN t : t[i].kind = "call" =>
          \A d \in 1..Cardinality(t[i].set) : i + d \in DOMAIN t /\ f[i + d] = f[i] + d
    /\ \A k \in DOMAIN t, j \in DOMAIN s :
          (IsResult(t[k]) /\ s[j].kind = "call" /\ j < f[k]
              /\ f[k] <= j + Cardinality(s[j].set)) => \E i \in DOMAIN t : f[i] = j

\* Rounds that are taken as a whole stay whole.
LEMMA RoundsMapped ==
  ASSUME NEW s \in Seq(Entries), InRounds(s), NEW t \in Seq(Entries), NEW f, TakesRounds(s, t, f)
  PROVE  InRounds(t)
<1>0. /\ f \in [DOMAIN t -> DOMAIN s]
      /\ \A i \in DOMAIN t : SameRole(t[i], s[f[i]])
      /\ \A i, k \in DOMAIN t : f[i] = f[k] => i = k
      /\ \A i \in DOMAIN t : t[i].kind = "call" =>
            \A d \in 1..Cardinality(t[i].set) : i + d \in DOMAIN t /\ f[i + d] = f[i] + d
      /\ \A k \in DOMAIN t, j \in DOMAIN s :
            (IsResult(t[k]) /\ s[j].kind = "call" /\ j < f[k]
                /\ f[k] <= j + Cardinality(s[j].set)) => \E i \in DOMAIN t : f[i] = j
  BY DEF TakesRounds
<1>1. Len(s) \in Nat /\ DOMAIN s = 1..Len(s) /\ Len(t) \in Nat /\ DOMAIN t = 1..Len(t)
  BY EntryIs
<1>2. \A i \in DOMAIN t : t[i].set = s[f[i]].set /\ f[i] \in DOMAIN s
  BY <1>0 DEF SameRole
<1>3. ASSUME NEW i \in DOMAIN t, t[i].kind = "call"
      PROVE  RoundAt(t, i)
  <2> DEFINE C == t[i].set
             n == Cardinality(C)
  <2>1. f[i] \in DOMAIN s /\ s[f[i]].kind = "call" /\ s[f[i]].set = C
    BY <1>0, <1>3 DEF SameRole
  <2>2. n \in Nat /\ RoundAt(s, f[i])
    BY <2>1, RoundLength
  <2> DEFINE j == f[i]
  <2>3. /\ C \subseteq ToSet(CallSeq)
        /\ \A d \in 1..n : IsResult(s[j + d]) /\ \E c \in C : s[j + d].set = {c}
        /\ \A c \in C : \E d \in 1..n : s[j + d].set = {c}
        /\ \A d, e \in 1..n : s[j + d].set = s[j + e].set => d = e
    BY <2>1, <2>2 DEF RoundAt
  <2>4. \A d \in 1..n : i + d \in DOMAIN t /\ f[i + d] = j + d
    BY <1>0, <1>3
  <2>5. \A d \in 1..n : SameRole(t[i + d], s[j + d])
    BY <1>0, <2>4
  <2> HIDE DEF C, n, j
  <2>6. \A d \in 1..n : t[i + d].set = s[j + d].set /\ (IsResult(t[i + d]) <=> IsResult(s[j + d]))
    BY <2>5 DEF SameRole
  <2>7. i + n <= Len(t)
    <3>1. CASE n = 0
      BY <1>1, <3>1
    <3>2. CASE n # 0
      <4>1. n \in 1..n
        BY <2>2, <3>2
      <4>2. i + n \in DOMAIN t
        BY <2>4, <4>1
      <4>3. QED
        BY <1>1, <4>2
    <3>3. QED
      BY <3>1, <3>2
  <2>8. /\ \A d \in 1..n : IsResult(t[i + d]) /\ \E c \in C : t[i + d].set = {c}
        /\ \A c \in C : \E d \in 1..n : t[i + d].set = {c}
        /\ \A d, e \in 1..n : t[i + d].set = t[i + e].set => d = e
    <3>1. ASSUME NEW d \in 1..n
          PROVE  IsResult(t[i + d]) /\ \E c \in C : t[i + d].set = {c}
      <4>1. IsResult(s[j + d]) /\ \E c \in C : s[j + d].set = {c}
        BY <2>3
      <4>2. t[i + d].set = s[j + d].set /\ (IsResult(t[i + d]) <=> IsResult(s[j + d]))
        BY <2>6
      <4>3. QED
        BY <4>1, <4>2
    <3>2. ASSUME NEW c \in C
          PROVE  \E d \in 1..n : t[i + d].set = {c}
      BY <2>3, <2>6
    <3>3. ASSUME NEW d \in 1..n, NEW e \in 1..n, t[i + d].set = t[i + e].set
          PROVE  d = e
      BY <2>3, <2>6, <3>3
    <3>4. QED
      BY <3>1, <3>2, <3>3
  <2>9. C = t[i].set /\ n = Cardinality(t[i].set)
    BY DEF C, n
  <2>10. QED
    BY <2>3, <2>7, <2>8, <2>9 DEF RoundAt
<1>4. ASSUME NEW k \in DOMAIN t, IsResult(t[k])
      PROVE  \E i \in DOMAIN t : t[i].kind = "call" /\ i < k /\ k <= i + Cardinality(t[i].set)
  <2>1. f[k] \in DOMAIN s /\ IsResult(s[f[k]])
    BY <1>0, <1>4 DEF SameRole
  <2>2. PICK j \in DOMAIN s :
           s[j].kind = "call" /\ j < f[k] /\ f[k] <= j + Cardinality(s[j].set)
    BY <2>1 DEF InRounds
  <2>3. PICK i \in DOMAIN t : f[i] = j
    BY <1>0, <1>4, <2>2
  <2>4. t[i].kind = "call" /\ t[i].set = s[j].set
    BY <1>0, <2>2, <2>3 DEF SameRole
  <2>5. Cardinality(s[j].set) \in Nat
    BY <2>2, RoundLength
  <2> DEFINE n == Cardinality(s[j].set)
             d == f[k] - j
  <2>6. d \in 1..n /\ j + d = f[k]
    BY <1>1, <2>1, <2>2, <2>5
  <2>7. i + d \in DOMAIN t /\ f[i + d] = f[i] + d
    BY <1>0, <2>4, <2>6
  <2>8. i + d = k
    BY <1>0, <2>3, <2>6, <2>7
  <2> HIDE DEF n, d
  <2>9. i < k /\ k <= i + n
    BY <1>1, <2>5, <2>6, <2>8 DEF n
  <2>10. QED
    BY <2>4, <2>9 DEF n
<1>5. QED
  BY <1>3, <1>4 DEF InRounds

\* No calls and no results: no round.
LEMMA NoRounds ==
  ASSUME NEW list \in Seq(Entries),
         \A i \in DOMAIN list : list[i].kind # "call" /\ ~IsResult(list[i])
  PROVE  InRounds(list)
BY DEF InRounds

\* Rows that stay in their places and roles.
LEMMA RoundsStay ==
  ASSUME NEW s \in Seq(Entries), InRounds(s), NEW t \in Seq(Entries), DOMAIN t = DOMAIN s,
         \A i \in DOMAIN s : SameRole(t[i], s[i])
  PROVE  InRounds(t)
<1> DEFINE f == [i \in DOMAIN t |-> i]
<1>1. f \in [DOMAIN t -> DOMAIN s] /\ \A i \in DOMAIN t : f[i] = i
  OBVIOUS
<1>2. ASSUME NEW i \in DOMAIN t, t[i].kind = "call"
      PROVE  \A d \in 1..Cardinality(t[i].set) : i + d \in DOMAIN t /\ f[i + d] = f[i] + d
  <2>1. s[i].kind = "call" /\ s[i].set = t[i].set
    BY <1>2 DEF SameRole
  <2>2. Cardinality(s[i].set) \in Nat /\ i + Cardinality(s[i].set) <= Len(s)
    BY <2>1, RoundLength DEF RoundAt
  <2>3. Len(s) \in Nat /\ DOMAIN s = 1..Len(s)
    BY EntryIs
  <2>4. \A d \in 1..Cardinality(t[i].set) : i + d \in DOMAIN t
    BY <2>1, <2>2, <2>3
  <2>5. QED
    BY <1>1, <2>4
<1>3. \A i \in DOMAIN t : SameRole(t[i], s[f[i]])
  BY <1>1
<1>4. \A i, k \in DOMAIN t : f[i] = f[k] => i = k
  BY <1>1
<1>5. \A j \in DOMAIN s : \E i \in DOMAIN t : f[i] = j
  BY <1>1
<1> HIDE DEF f
<1>6. TakesRounds(s, t, f)
  BY <1>1, <1>2, <1>3, <1>4, <1>5 DEF TakesRounds
<1>7. QED
  BY <1>6, RoundsMapped

\* A list with whole rounds as a part of another.
LEMMA RoundsWithin ==
  ASSUME NEW list \in Seq(Entries), InRounds(list), NEW all \in Seq(Entries), NEW o \in Nat,
         \A i \in DOMAIN list : o + i \in DOMAIN all /\ all[o + i] = list[i]
  PROVE  /\ \A j \in DOMAIN list : list[j].kind = "call" => RoundAt(all, o + j)
         /\ \A k \in DOMAIN list : IsResult(list[k]) =>
              \E j \in DOMAIN all :
                 all[j].kind = "call" /\ j < o + k /\ o + k <= j + Cardinality(all[j].set)
<1>1. Len(list) \in Nat /\ DOMAIN list = 1..Len(list) /\ Len(all) \in Nat /\ DOMAIN all = 1..Len(all)
  BY EntryIs
<1>2. ASSUME NEW j \in DOMAIN list, list[j].kind = "call"
      PROVE  RoundAt(all, o + j)
  <2> DEFINE C == list[j].set
             n == Cardinality(C)
  <2>1. n \in Nat /\ RoundAt(list, j)
    BY <1>2, RoundLength
  <2>2. /\ C \subseteq ToSet(CallSeq) /\ j + n <= Len(list)
        /\ \A d \in 1..n : IsResult(list[j + d]) /\ \E c \in C : list[j + d].set = {c}
        /\ \A c \in C : \E d \in 1..n : list[j + d].set = {c}
        /\ \A d, e \in 1..n : list[j + d].set = list[j + e].set => d = e
    BY <2>1 DEF RoundAt
  <2>3. all[o + j].set = C /\ o + j \in DOMAIN all
    OBVIOUS
  <2> HIDE DEF C, n
  <2>4. ASSUME NEW d \in 1..n
        PROVE  j + d \in DOMAIN list /\ all[(o + j) + d] = list[j + d]
    <3>1. j + d \in DOMAIN list /\ o + (j + d) = (o + j) + d
      BY <1>1, <2>1, <2>2
    <3>2. QED
      BY <3>1
  <2>5. (o + j) + n <= Len(all)
    <3>1. CASE n = 0
      BY <1>1, <2>3, <3>1
    <3>2. CASE n # 0
      <4>1. j + n \in DOMAIN list
        BY <1>1, <2>1, <2>2, <3>2
      <4>2. o + (j + n) \in DOMAIN all
        BY <4>1
      <4>3. QED
        BY <1>1, <2>1, <4>2
    <3>3. QED
      BY <3>1, <3>2
  <2>6. \A d \in 1..n : all[(o + j) + d] = list[j + d]
    BY <2>4
  <2>7. /\ \A d \in 1..n : IsResult(all[(o + j) + d]) /\ \E c \in C : all[(o + j) + d].set = {c}
        /\ \A c \in C : \E d \in 1..n : all[(o + j) + d].set = {c}
        /\ \A d, e \in 1..n : all[(o + j) + d].set = all[(o + j) + e].set => d = e
    <3>1. ASSUME NEW d \in 1..n
          PROVE  IsResult(all[(o + j) + d]) /\ \E c \in C : all[(o + j) + d].set = {c}
      <4>1. IsResult(list[j + d]) /\ \E c \in C : list[j + d].set = {c}
        BY <2>2
      <4>2. all[(o + j) + d] = list[j + d]
        BY <2>6
      <4>3. QED
        BY <4>1, <4>2
    <3>2. ASSUME NEW c \in C
          PROVE  \E d \in 1..n : all[(o + j) + d].set = {c}
      BY <2>2, <2>6
    <3>3. ASSUME NEW d \in 1..n, NEW e \in 1..n, all[(o + j) + d].set = all[(o + j) + e].set
          PROVE  d = e
      BY <2>2, <2>6, <3>3
    <3>4. QED
      BY <3>1, <3>2, <3>3
  <2>8. n = Cardinality(all[o + j].set)
    BY <2>3 DEF n
  <2>9. QED
    BY <2>2, <2>3, <2>5, <2>7, <2>8 DEF RoundAt
<1>3. ASSUME NEW k \in DOMAIN list, IsResult(list[k])
      PROVE  \E j \in DOMAIN all :
                 all[j].kind = "call" /\ j < o + k /\ o + k <= j + Cardinality(all[j].set)
  <2>1. PICK j \in DOMAIN list :
           list[j].kind = "call" /\ j < k /\ k <= j + Cardinality(list[j].set)
    BY <1>3 DEF InRounds
  <2>2. Cardinality(list[j].set) \in Nat
    BY <2>1, RoundLength
  <2>3. o + j \in DOMAIN all /\ all[o + j] = list[j]
    OBVIOUS
  <2>4. o + j < o + k /\ o + k <= (o + j) + Cardinality(list[j].set)
    BY <1>1, <2>1, <2>2
  <2>5. QED
    BY <2>1, <2>3, <2>4
<1>4. QED
  BY <1>2, <1>3

\* Whole rounds behind whole rounds.
LEMMA RoundsJoin ==
  ASSUME NEW s \in Seq(Entries), InRounds(s), NEW t \in Seq(Entries), InRounds(t)
  PROVE  s \o t \in Seq(Entries) /\ InRounds(s \o t)
<1> DEFINE all == s \o t
           l == Len(s)
<1>1. /\ all \in Seq(Entries)
      /\ l \in Nat /\ Len(t) \in Nat
      /\ DOMAIN s = 1..l /\ DOMAIN t = 1..Len(t)
      /\ DOMAIN all = 1..(l + Len(t))
      /\ \A i \in 1..l : all[i] = s[i]
      /\ \A k \in 1..Len(t) : all[l + k] = t[k]
      /\ \A i \in DOMAIN all :
              i \in 1..l \/ (i - l \in 1..Len(t) /\ all[i] = t[i - l])
  BY Joined
<1> HIDE DEF all, l
<1>2. PICK z \in Nat : z = 0
  OBVIOUS
<1>a. \A i \in DOMAIN s : z + i \in DOMAIN all /\ all[z + i] = s[i] /\ z + i = i
  BY <1>1, <1>2
<1>4. /\ \A j \in DOMAIN s : s[j].kind = "call" => RoundAt(all, z + j)
      /\ \A k \in DOMAIN s : IsResult(s[k]) =>
              \E j \in DOMAIN all :
                 all[j].kind = "call" /\ j < z + k /\ z + k <= j + Cardinality(all[j].set)
  <2>1. \A i \in DOMAIN s : z + i \in DOMAIN all /\ all[z + i] = s[i]
    BY <1>a
  <2>2. QED
    BY <1>1, <2>1, RoundsWithin
<1>3. \A i \in DOMAIN t : l + i \in DOMAIN all /\ all[l + i] = t[i]
  BY <1>1
<1>5. /\ \A j \in DOMAIN t : t[j].kind = "call" => RoundAt(all, l + j)
      /\ \A k \in DOMAIN t : IsResult(t[k]) =>
              \E j \in DOMAIN all :
                 all[j].kind = "call" /\ j < l + k /\ l + k <= j + Cardinality(all[j].set)
  BY <1>1, <1>3, RoundsWithin
<1>6. \A i \in DOMAIN all : i \in DOMAIN s \/ \E k \in DOMAIN t : i = l + k /\ all[i] = t[k]
  <2>1. ASSUME NEW i \in DOMAIN all, i \notin DOMAIN s
        PROVE  \E k \in DOMAIN t : i = l + k /\ all[i] = t[k]
    <3>1. i - l \in DOMAIN t /\ all[i] = t[i - l] /\ i = l + (i - l)
      BY <1>1, <2>1
    <3>2. QED
      BY <3>1
  <2>2. QED
    BY <2>1
<1>7. ASSUME NEW i \in DOMAIN all, all[i].kind = "call"
      PROVE  RoundAt(all, i)
  <2>1. CASE i \in DOMAIN s
    <3>1. z + i = i /\ s[i].kind = "call"
      BY <1>a, <1>7, <2>1
    <3>2. RoundAt(all, z + i)
      BY <1>4, <2>1, <3>1
    <3>3. QED
      BY <3>1, <3>2
  <2>2. CASE i \notin DOMAIN s
    <3>1. PICK k \in DOMAIN t : i = l + k /\ all[i] = t[k]
      BY <1>6, <2>2
    <3>2. QED
      BY <1>5, <1>7, <3>1
  <2>3. QED
    BY <2>1, <2>2
<1>8. ASSUME NEW i \in DOMAIN all, IsResult(all[i])
      PROVE  \E j \in DOMAIN all :
                 all[j].kind = "call" /\ j < i /\ i <= j + Cardinality(all[j].set)
  <2>1. CASE i \in DOMAIN s
    <3>1. z + i = i /\ all[i] = s[i]
      BY <1>1, <1>a, <2>1
    <3>2. IsResult(s[i])
      BY <1>8, <3>1
    <3>3. \E j \in DOMAIN all :
             all[j].kind = "call" /\ j < z + i /\ z + i <= j + Cardinality(all[j].set)
      BY <1>4, <2>1, <3>2
    <3>4. QED
      BY <3>1, <3>3
  <2>2. CASE i \notin DOMAIN s
    <3>1. PICK k \in DOMAIN t : i = l + k /\ all[i] = t[k]
      BY <1>6, <2>2
    <3>2. IsResult(t[k])
      BY <1>8, <3>1
    <3>3. QED
      BY <1>5, <3>1, <3>2
  <2>3. QED
    BY <2>1, <2>2
<1>9. InRounds(all)
  BY <1>7, <1>8 DEF InRounds
<1>10. QED
  BY <1>1, <1>9 DEF all

\* A list that ends with a row that is of no round.
LEMMA FirstRounds ==
  ASSUME NEW list \in Seq(Entries), InRounds(list), NEW u \in 0..Len(list),
         u # 0 => list[u].kind # "call" /\ ~IsResult(list[u])
  PROVE  InRounds(SubSeq(list, 1, u))
<1> DEFINE t == SubSeq(list, 1, u)
           f == [i \in DOMAIN t |-> i]
<1>1. /\ t \in Seq(Entries) /\ Len(t) = u
      /\ DOMAIN t = 1..u
      /\ \A i \in 1..u : i \in DOMAIN list /\ t[i] = list[i]
  BY FirstRows
<1>2. u \in Nat /\ Len(list) \in Nat /\ DOMAIN list = 1..Len(list)
  BY EntryIs
<1> HIDE DEF t
<1>3. f \in [DOMAIN t -> DOMAIN list] /\ \A i \in DOMAIN t : f[i] = i
  BY <1>1
<1> HIDE DEF f
<1>4. \A i \in DOMAIN t : SameRole(t[i], list[f[i]])
  BY <1>1, <1>3 DEF SameRole
<1>5. \A i, k \in DOMAIN t : f[i] = f[k] => i = k
  BY <1>3
<1>6. ASSUME NEW i \in DOMAIN t, t[i].kind = "call"
      PROVE  \A d \in 1..Cardinality(t[i].set) : i + d \in DOMAIN t /\ f[i + d] = f[i] + d
  <2> DEFINE n == Cardinality(list[i].set)
  <2>1. i \in DOMAIN list /\ list[i].kind = "call" /\ t[i].set = list[i].set
    BY <1>1, <1>6
  <2>2. n \in Nat /\ RoundAt(list, i)
    BY <2>1, RoundLength
  <2>3. \A d \in 1..n : IsResult(list[i + d])
    BY <2>2 DEF RoundAt
  <2> HIDE DEF n
  <2>4. i + n <= u
    <3>1. SUFFICES ASSUME ~(i + n <= u) PROVE FALSE
      OBVIOUS
    <3>2. i \in 1..u /\ (i = u \/ (u - i \in 1..n /\ i + (u - i) = u))
      BY <1>1, <1>2, <2>2, <3>1
    <3>3. i # u
      BY <1>2, <2>1, <3>2
    <3>4. IsResult(list[u])
      BY <2>3, <3>2, <3>3
    <3>5. QED
      BY <1>2, <3>2, <3>4
  <2>5. \A d \in 1..n : i + d \in DOMAIN t
    BY <1>1, <1>2, <2>2, <2>4
  <2>6. n = Cardinality(t[i].set)
    BY <2>1 DEF n
  <2>7. QED
    BY <1>3, <2>5, <2>6
<1>7. \A k \in DOMAIN t, j \in DOMAIN list : j < f[k] => \E i \in DOMAIN t : f[i] = j
  <2>1. ASSUME NEW k \in DOMAIN t, NEW j \in DOMAIN list, j < f[k]
        PROVE  j \in DOMAIN t /\ f[j] = j
    BY <1>1, <1>2, <1>3, <2>1
  <2>2. QED
    BY <2>1
<1>8. TakesRounds(list, t, f)
  BY <1>3, <1>4, <1>5, <1>6, <1>7 DEF TakesRounds
<1>9. InRounds(t)
  BY <1>1, <1>8, RoundsMapped
<1>10. QED
  BY <1>9 DEF t

-----------------------------------------------------------------------------
(* No compaction splits a round                                            *)

\* A round is not cut in two where a piece ends.
LEMMA PieceHoldsRounds ==
  ASSUME NEW body \in Seq(Entries), InRounds(body), NEW cut \in 1..Len(body),
         EndsPiece(body, cut), \A i \in DOMAIN body : body[i].kind # "shrunk",
         NEW j \in 1..cut, body[j].kind = "call"
  PROVE  j + Cardinality(body[j].set) <= cut
<1> DEFINE C == body[j].set
           n == Cardinality(C)
<1>1. Len(body) \in Nat /\ DOMAIN body = 1..Len(body) /\ cut \in Nat /\ j \in Nat /\ j \in DOMAIN body
  BY EntryIs
<1>2. n \in Nat /\ RoundAt(body, j)
  BY <1>1, RoundLength
<1>3. /\ C \subseteq ToSet(CallSeq) /\ j + n <= Len(body)
      /\ \A d \in 1..n : IsResult(body[j + d]) /\ \E c \in C : body[j + d].set = {c}
      /\ \A d, e \in 1..n : body[j + d].set = body[j + e].set => d = e
  BY <1>2 DEF RoundAt
<1>4. PendingAt(body, cut) = {}
  BY DEF EndsPiece
<1> SUFFICES ASSUME ~(j + n <= cut) PROVE FALSE
  OBVIOUS
<1> DEFINE d == cut + 1 - j
<1> HIDE DEF C, n
<1>5. d \in 1..n /\ d \in Nat
  BY <1>1, <1>2
<1>6. PICK c \in C : body[j + d].set = {c}
  BY <1>3, <1>5
<1>7. \E k \in j..cut : body[k].kind = "tool" /\ c \in body[k].set
  <2>1. c \in ToSet(CallSeq)
    BY <1>3
  <2>2. j \in 1..cut /\ body[j].kind = "call" /\ c \in body[j].set
    BY DEF C
  <2>3. c \notin PendingAt(body, cut)
    BY <1>4
  <2>4. QED
    BY <2>1, <2>2, <2>3 DEF PendingAt
<1>8. PICK k \in j..cut : body[k].kind = "tool" /\ c \in body[k].set
  BY <1>7
<1>9. k # j
  BY <1>8
<1> DEFINE e == k - j
<1>10. e \in 1..n /\ j + e = k /\ e < d
  BY <1>1, <1>2, <1>5, <1>8, <1>9
<1>11. PICK x \in C : body[j + e].set = {x}
  BY <1>3, <1>10
<1>12. body[j + e].set = body[j + d].set
  BY <1>6, <1>8, <1>10, <1>11
<1>13. e = d
  BY <1>3, <1>5, <1>10, <1>12
<1> HIDE DEF e, d
<1>14. QED
  BY <1>5, <1>10, <1>13

\* What a compaction leaves of a transcript starts with a whole piece.
LEMMA RoundsLeft ==
  ASSUME NEW body \in Seq(Entries), InRounds(body), NEW cut \in 0..Len(body),
         cut # 0 => EndsPiece(body, cut), \A i \in DOMAIN body : body[i].kind # "shrunk",
         NEW t \in Seq(Entries), DOMAIN t = 1..(Len(body) - cut),
         \A i \in 1..(Len(body) - cut) : t[i] = body[cut + i]
  PROVE  InRounds(t)
<1> DEFINE f == [i \in DOMAIN t |-> cut + i]
<1>1. Len(body) \in Nat /\ DOMAIN body = 1..Len(body) /\ cut \in Nat
  BY EntryIs
<1>2. f \in [DOMAIN t -> DOMAIN body] /\ \A i \in DOMAIN t : f[i] = cut + i
  BY <1>1
<1> HIDE DEF f
<1>3. \A i \in DOMAIN t : SameRole(t[i], body[f[i]])
  BY <1>2 DEF SameRole
<1>4. \A i, k \in DOMAIN t : f[i] = f[k] => i = k
  BY <1>1, <1>2
<1>5. ASSUME NEW i \in DOMAIN t, t[i].kind = "call"
      PROVE  \A d \in 1..Cardinality(t[i].set) : i + d \in DOMAIN t /\ f[i + d] = f[i] + d
  <2> DEFINE n == Cardinality(t[i].set)
  <2>1. cut + i \in DOMAIN body /\ t[i] = body[cut + i]
    BY <1>1
  <2>2. n \in Nat /\ RoundAt(body, cut + i)
    BY <1>5, <2>1, RoundLength
  <2>3. (cut + i) + n <= Len(body)
    BY <2>1, <2>2 DEF RoundAt
  <2> HIDE DEF n
  <2>4. \A d \in 1..n : i + d \in DOMAIN t /\ cut + (i + d) = (cut + i) + d
    BY <1>1, <2>2, <2>3
  <2>5. \A d \in 1..n : i + d \in DOMAIN t /\ f[i + d] = f[i] + d
    BY <1>2, <2>4
  <2>6. QED
    BY <2>5 DEF n
<1>6. ASSUME NEW k \in DOMAIN t, NEW j \in DOMAIN body,
             body[j].kind = "call", j < f[k], f[k] <= j + Cardinality(body[j].set)
      PROVE  \E i \in DOMAIN t : f[i] = j
  <2>1. Cardinality(body[j].set) \in Nat
    BY <1>6, RoundLength
  <2>2. ~(j <= cut)
    <3>1. SUFFICES ASSUME j <= cut PROVE FALSE
      OBVIOUS
    <3>2. cut \in 1..Len(body) /\ j \in 1..cut /\ EndsPiece(body, cut)
      BY <1>1, <3>1
    <3>3. j + Cardinality(body[j].set) <= cut
      BY <1>6, <3>2, PieceHoldsRounds
    <3>4. f[k] > cut /\ f[k] \in Nat
      BY <1>1, <1>2
    <3>5. QED
      BY <1>1, <1>6, <2>1, <3>3, <3>4
  <2>3. j - cut \in DOMAIN t /\ cut + (j - cut) = j
    BY <1>1, <2>2
  <2>4. QED
    BY <1>2, <2>3
<1>7. TakesRounds(body, t, f)
  BY <1>2, <1>3, <1>4, <1>5, <1>6 DEF TakesRounds
<1>8. QED
  BY <1>7, RoundsMapped

\* Positions next to one another have ranks next to one another.
LEMMA RankNext ==
  ASSUME NEW P \in SUBSET Nat, IsFiniteSet(P), NEW j \in P, NEW d \in Nat,
         \A k \in (j + 1)..(j + d) : k \in P
  PROVE  Rank(P, j + d) = Rank(P, j) + d
<1> DEFINE low == {k \in P : k <= j}
           all == {k \in P : k <= j + d}
           next == (j + 1)..(j + d)
<1>1. j \in Nat /\ j + 1 \in Int /\ j + d \in Int
  OBVIOUS
<1>2. all = low \cup next /\ low \cap next = {}
  <2>1. \A k \in P : k \in Nat
    OBVIOUS
  <2>2. ASSUME NEW k
        PROVE  /\ k \in all <=> k \in low \/ k \in next
               /\ ~(k \in low /\ k \in next)
    <3>1. k \in next => k \in P /\ k <= j + d /\ ~(k <= j)
      BY <1>1
    <3>2. k \in low => k <= j + d
      BY <1>1, <2>1
    <3>3. k \in all => k <= j \/ k \in next
      BY <1>1, <2>1
    <3> HIDE DEF next
    <3>4. QED
      BY <3>1, <3>2, <3>3
  <2> HIDE DEF low, all, next
  <2>3. QED
    BY <2>2
<1>3. IsFiniteSet(low) /\ Cardinality(low) \in Nat
  <2>1. low \in SUBSET P
    OBVIOUS
  <2>2. QED
    BY <2>1, FS_Subset, FS_CardinalityType
<1>4. IsFiniteSet(next) /\ Cardinality(next) = d
  BY <1>1, FS_Interval
<1>5. Cardinality(low \cap next) = 0
  BY <1>2, FS_EmptySet
<1>6. Cardinality(low \cup next) = Cardinality(low) + Cardinality(next) - Cardinality(low \cap next)
  BY <1>3, <1>4, FS_Union
<1>7. Rank(P, j) = Cardinality(low) /\ Rank(P, j + d) = Cardinality(all)
  BY DEF Rank
<1> HIDE DEF low, all, next
<1>8. QED
  BY <1>2, <1>3, <1>4, <1>5, <1>6, <1>7

\* A filter that keeps all rows of rounds keeps the rounds whole.
LEMMA RoundsKept ==
  ASSUME NEW list \in Seq(Entries), InRounds(list), NEW P \in SUBSET DOMAIN list,
         \A i \in DOMAIN list : list[i].kind = "call" \/ IsResult(list[i]) => i \in P
  PROVE  InRounds(KeptAt(list, P))
<1> DEFINE t == KeptAt(list, P)
           N == Cardinality(P)
           f == [i \in DOMAIN t |-> Nth(P, i)]
<1>1. /\ t \in Seq(Entries)
      /\ N \in Nat /\ DOMAIN t = 1..N
      /\ \A i \in 1..N : Nth(P, i) \in P /\ Nth(P, i) \in DOMAIN list /\ t[i] = list[Nth(P, i)]
      /\ \A k \in P : \E i \in 1..N : Nth(P, i) = k
      /\ \A i, j \in 1..N : Nth(P, i) = Nth(P, j) => i = j
  BY KeptRows
<1>2. Len(list) \in Nat /\ DOMAIN list = 1..Len(list) /\ P \subseteq Nat /\ IsFiniteSet(P)
  BY EntryIs, PositionsFinite
<1>3. \A i \in 1..N : Rank(P, Nth(P, i)) = i
  BY <1>2, NthIs
<1> HIDE DEF t, N
<1>4. f \in [DOMAIN t -> DOMAIN list] /\ \A i \in DOMAIN t : f[i] = Nth(P, i)
  BY <1>1
<1> HIDE DEF f
<1>5. \A i \in DOMAIN t : SameRole(t[i], list[f[i]])
  BY <1>1, <1>4 DEF SameRole
<1>6. \A i, k \in DOMAIN t : f[i] = f[k] => i = k
  BY <1>1, <1>4
<1>7. ASSUME NEW i \in DOMAIN t, t[i].kind = "call"
      PROVE  \A d \in 1..Cardinality(t[i].set) : i + d \in DOMAIN t /\ f[i + d] = f[i] + d
  <2> DEFINE n == Cardinality(t[i].set)
             j == f[i]
  <2>1. j \in DOMAIN list /\ j \in P /\ t[i] = list[j] /\ i \in 1..N /\ j = Nth(P, i)
    BY <1>1, <1>4
  <2>2. n \in Nat /\ RoundAt(list, j)
    BY <1>7, <2>1, RoundLength
  <2>3. /\ j + n <= Len(list)
        /\ \A d \in 1..n : IsResult(list[j + d])
    BY <2>1, <2>2 DEF RoundAt
  <2> HIDE DEF n, j
  <2>4. \A d \in 1..n : j + d \in DOMAIN list
    BY <1>2, <2>1, <2>2, <2>3
  <2>5. \A d \in 1..n : j + d \in P
    BY <2>3, <2>4
  <2>6. ASSUME NEW d \in 1..n
        PROVE  i + d \in DOMAIN t /\ f[i + d] = j + d
    <3>1. \A k \in (j + 1)..(j + d) : k \in P
      <4>1. \A k \in (j + 1)..(j + d) : k - j \in 1..n /\ j + (k - j) = k
        BY <1>2, <2>1, <2>2
      <4>2. QED
        BY <2>5, <4>1
    <3>2. d \in Nat
      BY <2>2
    <3>3. Rank(P, j + d) = Rank(P, j) + d
      BY <1>2, <2>1, <3>1, <3>2, RankNext
    <3>4. Rank(P, j) = i
      BY <1>3, <2>1
    <3>5. j + d \in P
      BY <2>5
    <3>6. PICK k \in 1..N : Nth(P, k) = j + d
      BY <1>1, <3>5
    <3>7. k = i + d
      BY <1>3, <3>3, <3>4, <3>6
    <3>8. QED
      BY <1>1, <1>4, <3>6, <3>7
  <2>7. QED
    BY <2>6 DEF n, j
<1>8. ASSUME NEW j \in DOMAIN list, list[j].kind = "call"
      PROVE  \E i \in DOMAIN t : f[i] = j
  BY <1>1, <1>4, <1>8
<1>9. TakesRounds(list, t, f)
  BY <1>4, <1>5, <1>6, <1>7, <1>8 DEF TakesRounds
<1>10. InRounds(t)
  BY <1>1, <1>9, RoundsMapped
<1>11. QED
  BY <1>10 DEF t

\* A compaction splits no round.
LEMMA RoundsRendered ==
  ASSUME NEW list \in Seq(Entries), InRounds(list), NEW S, RowsHold(list, S)
  PROVE  InRounds(Rendered(list))
<1> DEFINE body == Body(list)
           cut == Cut(list)
           left == Left(list)
           mark == Row("mark", 0, StandsFor(list))
           all == Rendered(list)
<1>1. /\ body \in Seq(Entries) /\ Len(body) \in Nat /\ DOMAIN body = 1..Len(body)
      /\ \A j \in DOMAIN body :
            Nth(BodyAt(list), j) \in DOMAIN list /\ body[j] = list[Nth(BodyAt(list), j)]
  BY BodyIs
<1>2. \A j \in DOMAIN body : body[j].kind # "shrunk"
  BY <1>1 DEF RowsHold
<1>3. InRounds(body)
  <2>1. BodyAt(list) \in SUBSET DOMAIN list
    BY DEF BodyAt
  <2>2. \A i \in DOMAIN list : list[i].kind = "call" \/ IsResult(list[i]) => i \in BodyAt(list)
    BY DEF BodyAt, IsResult
  <2>3. body = KeptAt(list, BodyAt(list))
    BY DEF Body, BodyAt
  <2>4. QED
    BY <2>1, <2>2, <2>3, RoundsKept
<1>4. /\ cut \in 0..Len(body)
      /\ left \in Seq(Entries)
      /\ Len(left) = Len(body) - cut
      /\ DOMAIN left = 1..(Len(body) - cut)
      /\ \A i \in 1..(Len(body) - cut) : left[i] = body[cut + i]
      /\ all \in Seq(Entries)
      /\ Len(all) = Len(left) + 1
      /\ DOMAIN all = 1..(Len(left) + 1)
      /\ all[1] = mark
      /\ \A k \in DOMAIN left : all[k + 1] = left[k]
      /\ StandsFor(list) \in SUBSET (Nat \cup ToSet(CallSeq))
  BY RenderedIs
<1>5. cut # 0 => EndsPiece(body, cut)
  BY <1>1, OmitIs DEF Cut
<1> HIDE DEF body, cut, left
<1>6. InRounds(left)
  BY <1>1, <1>2, <1>3, <1>4, <1>5, RoundsLeft
<1>7. mark \in Entries /\ mark.kind = "mark"
  BY <1>4, EntryMade DEF EntryKinds
<1> HIDE DEF mark, all
<1>8. <<mark>> \in Seq(Entries) /\ Len(<<mark>>) = 1 /\ <<mark>>[1] = mark /\ DOMAIN <<mark>> = 1..1
  BY <1>7
<1>9. InRounds(<<mark>>)
  <2>1. \A i \in DOMAIN <<mark>> : <<mark>>[i].kind # "call" /\ ~IsResult(<<mark>>[i])
    BY <1>7, <1>8 DEF IsResult
  <2>2. QED
    BY <1>8, <2>1, NoRounds
<1>10. InRounds(<<mark>> \o left)
  BY <1>4, <1>6, <1>8, <1>9, RoundsJoin
<1>11. all = <<mark>> \o left
  BY DEF all, mark, left, Rendered, Left, StandsFor, Gone, Cut
<1>12. QED
  BY <1>10, <1>11 DEF all

\* One row that is of no round.
LEMMA OneRow ==
  ASSUME NEW e \in Entries, e.kind # "call", ~IsResult(e)
  PROVE  <<e>> \in Seq(Entries) /\ InRounds(<<e>>)
<1>1. <<e>> \in Seq(Entries) /\ Len(<<e>>) = 1 /\ <<e>>[1] = e /\ DOMAIN <<e>> = 1..1
  OBVIOUS
<1>2. \A i \in DOMAIN <<e>> : <<e>>[i].kind # "call" /\ ~IsResult(<<e>>[i])
  BY <1>1
<1>3. QED
  BY <1>1, <1>2, NoRounds

\* The row with the cost of a summary.
LEMMA RoundsCost ==
  ASSUME NEW list \in Seq(Entries), InRounds(list)
  PROVE  InRounds(Append(list, Row("side", 0, {})))
<1> DEFINE e == Row("side", 0, {})
<1>1. e \in Entries /\ e.kind = "side"
  BY EntryMade DEF EntryKinds
<1> HIDE DEF e
<1>2. <<e>> \in Seq(Entries) /\ InRounds(<<e>>)
  BY <1>1, OneRow DEF IsResult
<1>3. InRounds(list \o <<e>>)
  BY <1>2, RoundsJoin
<1>4. Append(list, e) = list \o <<e>>
  BY <1>1, AppendIsConcat
<1>5. QED
  BY <1>3, <1>4 DEF e

-----------------------------------------------------------------------------
(* The rows that a round writes                                            *)

\* The calls of a reply in their order, and the rows of their round from id n on.
CallsAt(C) == {i \in DOMAIN CallSeq : CallSeq[i] \in C}
InOrder(C) == KeptAt(CallSeq, CallsAt(C))
Results(n, C) == [i \in DOMAIN InOrder(C) |-> Row("tool", n + i, {InOrder(C)[i]})]
RoundOf(n, C) == <<Row("call", n, C)>> \o Results(n, C)

\* What observe appends is the round of the calls, from the next id on.
LEMMA RoundRowsAre == RoundRows = RoundOf(NextId, loop.calls)
BY DEF RoundRows, RoundOf, Results, InOrder, CallsAt

\* Every call of a reply is answered once, in order.
LEMMA InOrderIs ==
  ASSUME NEW C \in SUBSET ToSet(CallSeq)
  PROVE  /\ Cardinality(C) \in Nat /\ DOMAIN InOrder(C) = 1..Cardinality(C)
         /\ \A i \in 1..Cardinality(C) : InOrder(C)[i] \in C
         /\ \A c \in C : \E i \in 1..Cardinality(C) : InOrder(C)[i] = c
         /\ \A i, k \in 1..Cardinality(C) : InOrder(C)[i] = InOrder(C)[k] => i = k
<1> DEFINE P == CallsAt(C)
           f == [i \in P |-> CallSeq[i]]
           t == InOrder(C)
<1>1. CallSeq \in Seq(ToSet(CallSeq)) /\ IsInjective(CallSeq)
  BY SessionLoopAssumption
<1>2. \A i, k \in DOMAIN CallSeq : CallSeq[i] = CallSeq[k] => i = k
  BY <1>1 DEF IsInjective
<1>3. P \in SUBSET DOMAIN CallSeq /\ \A i \in P : CallSeq[i] \in C
  BY DEF CallsAt
<1>4. \A c \in C : \E i \in P : CallSeq[i] = c
  BY DEF ToSet, CallsAt
<1>5. P \subseteq Nat /\ IsFiniteSet(P)
  BY <1>1, <1>3, PositionsFinite
<1>6. /\ DOMAIN t = 1..Cardinality(P)
      /\ Cardinality(P) \in Nat
      /\ \A j \in 1..Cardinality(P) : Nth(P, j) \in P /\ t[j] = CallSeq[Nth(P, j)]
  BY <1>1, <1>3, KeptIsSeq DEF InOrder
<1>7. \A i \in P : \E j \in DOMAIN t : t[j] = CallSeq[i]
  BY <1>1, <1>3, KeptHasAll DEF InOrder
<1>8. \A j \in 1..Cardinality(P) : Rank(P, Nth(P, j)) = j
  BY <1>5, NthIs
<1> HIDE DEF P, t
<1>9. \A i, k \in 1..Cardinality(P) : t[i] = t[k] => i = k
  <2>1. ASSUME NEW i \in 1..Cardinality(P), NEW k \in 1..Cardinality(P), t[i] = t[k]
        PROVE  i = k
    <3>1. Nth(P, i) = Nth(P, k)
      BY <1>2, <1>3, <1>6, <2>1
    <3>2. QED
      BY <1>8, <3>1
  <2>2. QED
    BY <2>1
<1>10. Cardinality(C) = Cardinality(P)
  <2>1. f \in [P -> C] /\ (\A c \in C : \E i \in P : f[i] = c)
    BY <1>3, <1>4
  <2>2. \A i, k \in P : f[i] = f[k] => i = k
    BY <1>2, <1>3
  <2> HIDE DEF f
  <2>3. f \in Bijection(P, C)
    BY <2>1, <2>2 DEF Bijection, Injection, Surjection, IsInjective
  <2>4. ExistsBijection(P, C)
    BY <2>3 DEF ExistsBijection
  <2>5. QED
    BY <1>5, <2>4, FS_Bijection
<1>11. \A i \in 1..Cardinality(P) : t[i] \in C
  BY <1>3, <1>6
<1>12. \A c \in C : \E i \in 1..Cardinality(P) : t[i] = c
  <2>1. ASSUME NEW c \in C
        PROVE  \E i \in 1..Cardinality(P) : t[i] = c
    <3>1. PICK i \in P : CallSeq[i] = c
      BY <1>4
    <3>2. PICK j \in DOMAIN t : t[j] = CallSeq[i]
      BY <1>7
    <3>3. QED
      BY <1>6, <3>1, <3>2
  <2>2. QED
    BY <2>1
<1>13. QED
  BY <1>6, <1>9, <1>10, <1>11, <1>12 DEF t

\* The rows of a round are one, and they are new.
LEMMA RoundIs ==
  ASSUME NEW n \in Nat \ {0}, NEW C \in SUBSET ToSet(CallSeq)
  PROVE  /\ RoundOf(n, C) \in Seq(Entries) /\ Len(RoundOf(n, C)) = 1 + Cardinality(C)
         /\ Cardinality(C) \in Nat
         /\ InRounds(RoundOf(n, C)) /\ FreshFrom(RoundOf(n, C), n)
         /\ \A i \in DOMAIN RoundOf(n, C) : RoundOf(n, C)[i].id < n + Len(RoundOf(n, C))
<1> DEFINE N == Cardinality(C)
           o == InOrder(C)
           call == Row("call", n, C)
           res == Results(n, C)
           rs == RoundOf(n, C)
<1>1. /\ N \in Nat /\ DOMAIN o = 1..N
      /\ \A i \in 1..N : o[i] \in C
      /\ \A c \in C : \E i \in 1..N : o[i] = c
      /\ \A i, k \in 1..N : o[i] = o[k] => i = k
  BY InOrderIs
<1>2. call \in Entries /\ call.kind = "call" /\ call.id = n /\ call.set = C
  BY EntryMade DEF EntryKinds
<1> HIDE DEF N, o, call
<1>3. ASSUME NEW i \in 1..N
      PROVE  /\ Row("tool", n + i, {o[i]}) \in Entries
             /\ Row("tool", n + i, {o[i]}).kind = "tool"
             /\ Row("tool", n + i, {o[i]}).id = n + i
             /\ Row("tool", n + i, {o[i]}).set = {o[i]}
  <2>1. n + i \in Nat /\ {o[i]} \in SUBSET (Nat \cup ToSet(CallSeq)) /\ "tool" \in EntryKinds
    BY <1>1 DEF EntryKinds
  <2>2. QED
    BY <2>1, EntryMade
<1> DEFINE row(i) == Row("tool", n + i, {o[i]})
<1>4. /\ res \in Seq(Entries) /\ DOMAIN res = 1..N /\ Len(res) = N
      /\ \A i \in 1..N : res[i] = row(i)
  <2>1. res = [i \in 1..N |-> row(i)]
    BY <1>1 DEF Results, o
  <2>2. \A i \in 1..N : row(i) \in Entries
    BY <1>3
  <2> HIDE DEF row, res
  <2>3. res \in Seq(Entries)
    BY <1>1, <2>1, <2>2, IsASeq
  <2>4. DOMAIN res = 1..N /\ \A i \in 1..N : res[i] = row(i)
    BY <2>1
  <2>5. QED
    BY <1>1, <2>3, <2>4, LenProperties
<1> DEFINE one == <<call>>
<1>5. one \in Seq(Entries) /\ Len(one) = 1 /\ one[1] = call
  BY <1>2
<1>6. rs = one \o res
  BY DEF RoundOf, call
<1> HIDE DEF res, rs, one, row
<1>7. /\ rs \in Seq(Entries) /\ Len(rs) = Len(one) + Len(res)
      /\ DOMAIN rs = 1..(Len(one) + Len(res))
      /\ \A i \in 1..Len(one) : rs[i] = one[i]
      /\ \A k \in 1..Len(res) : rs[Len(one) + k] = res[k]
  <2>1. one \in Seq(Entries) /\ res \in Seq(Entries)
    BY <1>4, <1>5
  <2>2. /\ one \o res \in Seq(Entries) /\ Len(one \o res) = Len(one) + Len(res)
        /\ DOMAIN (one \o res) = 1..(Len(one) + Len(res))
        /\ \A i \in 1..Len(one) : (one \o res)[i] = one[i]
        /\ \A k \in 1..Len(res) : (one \o res)[Len(one) + k] = res[k]
    BY <2>1, Joined
  <2>3. QED
    BY <1>6, <2>2
<1>8. /\ Len(rs) = 1 + N /\ DOMAIN rs = 1..(1 + N) /\ rs[1] = call
      /\ \A d \in 1..N : rs[1 + d] = row(d)
  BY <1>4, <1>5, <1>7
<1>9. \A d \in 1..N : rs[1 + d].kind = "tool" /\ rs[1 + d].id = n + d /\ rs[1 + d].set = {o[d]}
  BY <1>3, <1>8 DEF row
<1>10. \A i \in DOMAIN rs : i = 1 \/ (i - 1 \in 1..N /\ i = 1 + (i - 1))
  BY <1>1, <1>8
<1>11. \A i \in DOMAIN rs : rs[i].id = n + (i - 1) /\ rs[i].kind \in {"call", "tool"}
  <2>1. ASSUME NEW i \in DOMAIN rs
        PROVE  rs[i].id = n + (i - 1) /\ rs[i].kind \in {"call", "tool"}
    <3>1. CASE i = 1
      BY <1>2, <1>8, <3>1
    <3>2. CASE i # 1
      <4>1. i - 1 \in 1..N /\ i = 1 + (i - 1)
        BY <1>10, <3>2
      <4>2. QED
        BY <1>9, <4>1
    <3>3. QED
      BY <3>1, <3>2
  <2>2. QED
    BY <2>1
<1>12. FreshFrom(rs, n)
  <2>1. \A i \in DOMAIN rs : rs[i].kind \notin {"mark", "shrunk"} /\ rs[i].id >= n
    <3>1. \A i \in DOMAIN rs : i \in Nat /\ i >= 1
      BY <1>1, <1>8
    <3>2. QED
      BY <1>11, <3>1
  <2>2. \A i, k \in DOMAIN rs : rs[i].id = rs[k].id => i = k
    BY <1>1, <1>8, <1>11
  <2>3. QED
    BY <2>1, <2>2 DEF FreshFrom
<1>13. \A i \in DOMAIN rs : rs[i].id < n + Len(rs)
  BY <1>1, <1>8, <1>11
<1>14. RoundAt(rs, 1)
  <2>1. rs[1].set = C /\ Cardinality(rs[1].set) = N
    BY <1>2, <1>8 DEF N
  <2>2. ASSUME NEW d \in 1..N
        PROVE  IsResult(rs[1 + d]) /\ \E c \in C : rs[1 + d].set = {c}
    BY <1>1, <1>9 DEF IsResult
  <2>3. ASSUME NEW c \in C
        PROVE  \E d \in 1..N : rs[1 + d].set = {c}
    BY <1>1, <1>9
  <2>4. ASSUME NEW d \in 1..N, NEW e \in 1..N, rs[1 + d].set = rs[1 + e].set
        PROVE  d = e
    <3>1. {o[d]} = {o[e]}
      BY <1>9, <2>4
    <3>2. QED
      BY <1>1, <3>1
  <2>5. 1 + N <= Len(rs)
    BY <1>1, <1>8
  <2>6. QED
    BY <2>1, <2>2, <2>3, <2>4, <2>5 DEF RoundAt
<1>15. InRounds(rs)
  <2>1. ASSUME NEW j \in DOMAIN rs, rs[j].kind = "call"
        PROVE  RoundAt(rs, j)
    <3>1. j = 1
      BY <1>9, <1>10, <2>1
    <3>2. QED
      BY <1>14, <3>1
  <2>2. ASSUME NEW k \in DOMAIN rs, IsResult(rs[k])
        PROVE  \E j \in DOMAIN rs :
                  rs[j].kind = "call" /\ j < k /\ k <= j + Cardinality(rs[j].set)
    <3>1. k # 1
      BY <1>2, <1>8, <2>2 DEF IsResult
    <3>2. 1 \in DOMAIN rs /\ rs[1].kind = "call" /\ Cardinality(rs[1].set) = N
      BY <1>1, <1>2, <1>8 DEF N
    <3>3. 1 < k /\ k <= 1 + N
      BY <1>1, <1>8, <3>1
    <3>4. QED
      BY <3>2, <3>3
  <2>3. QED
    BY <2>1, <2>2 DEF InRounds
<1>16. QED
  BY <1>1, <1>7, <1>8, <1>12, <1>13, <1>15 DEF rs, N

\* One new row.
LEMMA OneFresh ==
  ASSUME NEW n \in Nat \ {0}, NEW k \in {"user", "reply"}
  PROVE  /\ <<Row(k, n, {})>> \in Seq(Entries)
         /\ FreshFrom(<<Row(k, n, {})>>, n)
         /\ InRounds(<<Row(k, n, {})>>)
<1> DEFINE e == Row(k, n, {})
<1>1. e \in Entries /\ e.kind = k /\ e.id = n
  <2>1. k \in EntryKinds /\ {} \in SUBSET (Nat \cup ToSet(CallSeq))
    BY DEF EntryKinds
  <2>2. QED
    BY <2>1, EntryMade
<1> HIDE DEF e
<1>2. <<e>> \in Seq(Entries) /\ Len(<<e>>) = 1 /\ <<e>>[1] = e /\ DOMAIN <<e>> = 1..1
  BY <1>1
<1>3. FreshFrom(<<e>>, n)
  <2>1. \A i \in DOMAIN <<e>> : <<e>>[i].kind = k /\ <<e>>[i].id = n /\ i = 1
    BY <1>1, <1>2
  <2>2. QED
    BY <2>1 DEF FreshFrom
<1>4. InRounds(<<e>>)
  BY <1>1, OneRow DEF IsResult
<1>5. QED
  BY <1>2, <1>3, <1>4 DEF e

\* New rows behind new rows.
LEMMA FreshJoin ==
  ASSUME NEW s \in Seq(Entries), NEW t \in Seq(Entries), NEW n \in Nat, NEW m \in Nat, n <= m,
         FreshFrom(s, n), FreshFrom(t, m), \A i \in DOMAIN s : s[i].id < m
  PROVE  s \o t \in Seq(Entries) /\ FreshFrom(s \o t, n)
<1> DEFINE all == s \o t
           l == Len(s)
<1>1. /\ all \in Seq(Entries)
      /\ l \in Nat /\ Len(t) \in Nat
      /\ DOMAIN s = 1..l /\ DOMAIN t = 1..Len(t)
      /\ DOMAIN all = 1..(l + Len(t))
      /\ \A i \in 1..l : all[i] = s[i]
      /\ \A i \in DOMAIN all :
              i \in 1..l \/ (i - l \in 1..Len(t) /\ all[i] = t[i - l])
  BY Joined
<1>2. /\ \A i \in DOMAIN s : s[i].id \in Nat
      /\ \A i \in DOMAIN t : t[i].id \in Nat
  BY EntryIs
<1> HIDE DEF all, l
<1>3. /\ \A i \in DOMAIN s : s[i].kind \notin {"mark", "shrunk"} /\ s[i].id >= n
      /\ \A i, k \in DOMAIN s : s[i].id = s[k].id => i = k
      /\ \A i \in DOMAIN t : t[i].kind \notin {"mark", "shrunk"} /\ t[i].id >= m
      /\ \A i, k \in DOMAIN t : t[i].id = t[k].id => i = k
  BY DEF FreshFrom
<1>4. ASSUME NEW i \in DOMAIN all
      PROVE  \/ i \in DOMAIN s /\ all[i] = s[i] /\ all[i].id < m
             \/ i \notin DOMAIN s /\ i - l \in DOMAIN t /\ all[i] = t[i - l] /\ all[i].id >= m
  <2>1. CASE i \in DOMAIN s
    BY <1>1, <2>1
  <2>2. CASE i \notin DOMAIN s
    BY <1>1, <1>3, <2>2
  <2>3. QED
    BY <2>1, <2>2
<1>5. \A i \in DOMAIN all : all[i].kind \notin {"mark", "shrunk"} /\ all[i].id >= n
  <2>1. ASSUME NEW i \in DOMAIN all
        PROVE  all[i].kind \notin {"mark", "shrunk"} /\ all[i].id >= n
    <3>1. CASE i \in DOMAIN s
      BY <1>3, <1>4, <3>1
    <3>2. CASE i \notin DOMAIN s
      <4>1. i - l \in DOMAIN t /\ all[i] = t[i - l]
        BY <1>4, <3>2
      <4>2. t[i - l].id >= m /\ t[i - l].id \in Nat /\ t[i - l].kind \notin {"mark", "shrunk"}
        BY <1>2, <1>3, <4>1
      <4>3. QED
        BY <4>1, <4>2
    <3>3. QED
      BY <3>1, <3>2
  <2>2. QED
    BY <2>1
<1>6. \A i, k \in DOMAIN all : all[i].id = all[k].id => i = k
  <2>1. ASSUME NEW i \in DOMAIN all, NEW k \in DOMAIN all, all[i].id = all[k].id
        PROVE  i = k
    <3>1. CASE i \in DOMAIN s /\ k \in DOMAIN s
      BY <1>1, <1>3, <2>1, <3>1
    <3>2. CASE i \notin DOMAIN s /\ k \notin DOMAIN s
      <4>1. i - l \in DOMAIN t /\ k - l \in DOMAIN t /\ t[i - l].id = t[k - l].id
        BY <1>4, <2>1, <3>2
      <4>2. i - l = k - l
        BY <1>3, <4>1
      <4>3. QED
        BY <1>1, <4>2
    <3>3. CASE ~(i \in DOMAIN s <=> k \in DOMAIN s)
      <4>1. all[i].id \in Nat /\ all[k].id \in Nat
        BY <1>1, EntryIs
      <4>2. ~(all[i].id < m /\ all[k].id >= m) /\ ~(all[k].id < m /\ all[i].id >= m)
        BY <2>1, <4>1
      <4>3. QED
        BY <1>4, <3>3, <4>2
    <3>4. QED
      BY <3>1, <3>2, <3>3
  <2>2. QED
    BY <2>1
<1>7. FreshFrom(all, n)
  BY <1>5, <1>6 DEF FreshFrom
<1>8. QED
  BY <1>1, <1>7 DEF all

-----------------------------------------------------------------------------
(* Requests and their weight                                               *)

\* Where rounds are whole, calls and results are paired.
LEMMA RoundsArePaired ==
  ASSUME NEW s \in Seq(Entries), InRounds(s)
  PROVE  Paired(s)
<1>1. Len(s) \in Nat /\ DOMAIN s = 1..Len(s)
  BY EntryIs
<1>2. ASSUME NEW i \in DOMAIN s, s[i].kind = "call"
      PROVE  /\ i + Cardinality(s[i].set) <= Len(s)
             /\ \A c \in s[i].set : \E k \in (i + 1)..(i + Cardinality(s[i].set)) :
                   s[k].kind \in {"tool", "shrunk"} /\ s[k].set = {c}
  <2> DEFINE n == Cardinality(s[i].set)
             C == s[i].set
  <2>1. n \in Nat /\ RoundAt(s, i)
    BY <1>2, RoundLength
  <2>2. /\ i + n <= Len(s)
        /\ \A d \in 1..n : IsResult(s[i + d])
        /\ \A c \in C : \E d \in 1..n : s[i + d].set = {c}
    BY <2>1 DEF RoundAt
  <2> HIDE DEF n, C
  <2>3. ASSUME NEW c \in C
        PROVE  \E k \in (i + 1)..(i + n) : s[k].kind \in {"tool", "shrunk"} /\ s[k].set = {c}
    <3>1. PICK d \in 1..n : s[i + d].set = {c}
      BY <2>2
    <3>2. i + d \in (i + 1)..(i + n)
      BY <1>1, <2>1
    <3>3. s[i + d].kind \in {"tool", "shrunk"}
      BY <2>2 DEF IsResult
    <3>4. QED
      BY <3>1, <3>2, <3>3
  <2>4. QED
    BY <2>2, <2>3 DEF n, C
<1>3. ASSUME NEW i \in DOMAIN s, s[i].kind \in {"tool", "shrunk"}
      PROVE  \E k \in 1..(i - 1) : s[k].kind = "call"
  <2>1. PICK j \in DOMAIN s : s[j].kind = "call" /\ j < i
    BY <1>3 DEF InRounds, IsResult
  <2>2. j \in 1..(i - 1)
    BY <1>1, <2>1
  <2>3. QED
    BY <2>1, <2>2
<1>4. QED
  BY <1>2, <1>3 DEF Paired

ToolsAt(list) == {i \in DOMAIN list : list[i].kind = "tool"}

\* A weight is a number: the rows, and once more those with results.
LEMMA WeightIs ==
  ASSUME NEW list \in Seq(Entries)
  PROVE  /\ Weight(list) = Len(list) + Cardinality(ToolsAt(list))
         /\ Len(list) \in Nat /\ Cardinality(ToolsAt(list)) \in Nat /\ Weight(list) \in Nat
         /\ IsFiniteSet(ToolsAt(list)) /\ IsFiniteSet(DOMAIN list)
<1>1. Len(list) \in Nat /\ DOMAIN list = 1..Len(list)
  BY EntryIs
<1>2. IsFiniteSet(DOMAIN list)
  BY <1>1, FS_Interval
<1>3. ToolsAt(list) \in SUBSET DOMAIN list
  BY DEF ToolsAt
<1>4. IsFiniteSet(ToolsAt(list)) /\ Cardinality(ToolsAt(list)) \in Nat
  BY <1>2, <1>3, FS_Subset, FS_CardinalityType
<1>5. Weight(list) = Len(list) + Cardinality(ToolsAt(list))
  BY DEF Weight, ToolsAt
<1> HIDE DEF ToolsAt
<1>6. QED
  BY <1>1, <1>2, <1>4, <1>5

\* A list with tool rows in fewer places weighs less.
LEMMA WeighsLess ==
  ASSUME NEW s \in Seq(Entries), NEW t \in Seq(Entries), Len(t) <= Len(s),
         ToolsAt(t) \subseteq ToolsAt(s)
  PROVE  Weight(t) <= Weight(s)
<1>1. /\ Weight(s) = Len(s) + Cardinality(ToolsAt(s)) /\ IsFiniteSet(ToolsAt(s))
      /\ Len(s) \in Nat /\ Cardinality(ToolsAt(s)) \in Nat
  BY WeightIs
<1>2. /\ Weight(t) = Len(t) + Cardinality(ToolsAt(t))
      /\ Len(t) \in Nat /\ Cardinality(ToolsAt(t)) \in Nat
  BY WeightIs
<1>3. Cardinality(ToolsAt(t)) <= Cardinality(ToolsAt(s))
  BY <1>1, FS_Subset
<1>4. QED
  BY <1>1, <1>2, <1>3

\* The user's row adds one to the weight.
LEMMA WeightOfNext ==
  ASSUME NEW s \in Seq(Entries), NEW e \in Entries, e.kind # "tool"
  PROVE  Weight(s \o <<e>>) = Weight(s) + 1
<1> DEFINE all == Append(s, e)
<1>1. /\ all \in Seq(Entries) /\ Len(all) = Len(s) + 1
      /\ \A i \in 1..Len(s) : all[i] = s[i]
      /\ all[Len(s) + 1] = e
  BY AppendProperties
<1>2. /\ Weight(s) = Len(s) + Cardinality(ToolsAt(s))
      /\ Len(s) \in Nat /\ Cardinality(ToolsAt(s)) \in Nat
  BY WeightIs
<1>3. DOMAIN s = 1..Len(s) /\ DOMAIN all = 1..(Len(s) + 1)
  BY <1>1, EntryIs
<1>4. all = s \o <<e>>
  BY AppendIsConcat
<1> HIDE DEF all
<1>5. ToolsAt(all) = ToolsAt(s)
  <2>1. \A i \in DOMAIN all : i \in DOMAIN s \/ all[i] = e
    BY <1>1, <1>2, <1>3
  <2>2. \A i \in DOMAIN s : i \in DOMAIN all /\ all[i] = s[i]
    BY <1>1, <1>2, <1>3
  <2>3. QED
    BY <2>1, <2>2 DEF ToolsAt
<1>6. Weight(all) = Len(all) + Cardinality(ToolsAt(all))
  BY <1>1, WeightIs
<1>7. Weight(all) = Weight(s) + 1
  BY <1>1, <1>2, <1>5, <1>6
<1>8. QED
  BY <1>4, <1>7

\* Rows that a request shows, behind the markers.
MarksAt(list) == {i \in DOMAIN list : list[i].kind = "mark"}
SaidAt(list) == {i \in DOMAIN list : list[i].kind \notin {"mark", "side"}}

\* What a request carries of a transcript weighs no more than its rows.
LEMMA WireIs ==
  ASSUME NEW list \in Seq(Entries)
  PROVE  Wire(list) \in Seq(Entries) /\ Weight(Wire(list)) <= Weight(list)
<1> DEFINE P == MarksAt(list)
           Q == SaidAt(list)
           p == KeptAt(list, P)
           q == KeptAt(list, Q)
           wire == Wire(list)
           a == Cardinality(P)
           b == Cardinality(Q)
<1>0. P \in SUBSET DOMAIN list /\ Q \in SUBSET DOMAIN list
  BY DEF MarksAt, SaidAt
<1>1. /\ p \in Seq(Entries) /\ Len(p) = a /\ a \in Nat
      /\ DOMAIN p = 1..a
      /\ \A j \in 1..a : Nth(P, j) \in P /\ Nth(P, j) \in DOMAIN list /\ p[j] = list[Nth(P, j)]
  BY <1>0, KeptRows
<1>2. /\ q \in Seq(Entries) /\ Len(q) = b /\ b \in Nat
      /\ DOMAIN q = 1..b
      /\ \A j \in 1..b : Nth(Q, j) \in Q /\ Nth(Q, j) \in DOMAIN list /\ q[j] = list[Nth(Q, j)]
      /\ \A i, j \in 1..b : Nth(Q, i) = Nth(Q, j) => i = j
  BY <1>0, KeptRows
<1>3. wire = p \o q
  BY DEF Wire, Marks, MarksAt, SaidAt
<1> DEFINE at(j) == Nth(Q, j)
<1>a. \A j \in 1..b : at(j) \in DOMAIN list /\ q[j] = list[at(j)]
  BY <1>2
<1>b. \A i, j \in 1..b : at(i) = at(j) => i = j
  BY <1>2
<1>c. \A j \in 1..a : p[j].kind = "mark"
  BY <1>1 DEF MarksAt
<1>d. Len(list) \in Nat /\ DOMAIN list = 1..Len(list)
  BY EntryIs
<1>e. P \cap Q = {} /\ P \cup Q \in SUBSET DOMAIN list
  BY DEF MarksAt, SaidAt
<1> HIDE DEF p, q, wire, P, Q, a, b, at
<1>4. p \in Seq(Entries) /\ q \in Seq(Entries)
  BY <1>1, <1>2
<1>5. /\ p \o q \in Seq(Entries) /\ Len(p \o q) = Len(p) + Len(q)
      /\ DOMAIN (p \o q) = 1..(Len(p) + Len(q))
      /\ \A i \in 1..Len(p) : (p \o q)[i] = p[i]
      /\ \A i \in DOMAIN (p \o q) :
              i \in 1..Len(p) \/ (i - Len(p) \in 1..Len(q) /\ (p \o q)[i] = q[i - Len(p)])
  BY <1>4, Joined
<1>6. /\ wire \in Seq(Entries) /\ Len(wire) = a + b /\ DOMAIN wire = 1..(a + b)
      /\ \A i \in 1..a : wire[i] = p[i]
      /\ \A i \in DOMAIN wire : i \in 1..a \/ (i - a \in 1..b /\ wire[i] = q[i - a])
  BY <1>1, <1>2, <1>3, <1>5
\* The results on the wire are results of the rows.
<1>7. \A i \in ToolsAt(wire) :
        i - a \in 1..b /\ i \in Nat /\ at(i - a) \in ToolsAt(list)
  <2>1. ASSUME NEW i \in ToolsAt(wire)
        PROVE  i - a \in 1..b /\ i \in Nat /\ at(i - a) \in ToolsAt(list)
    <3>1. i \in DOMAIN wire /\ wire[i].kind = "tool" /\ i \in Nat
      BY <1>1, <1>2, <1>6 DEF ToolsAt
    <3>2. i \notin 1..a
      BY <1>6, <1>c, <3>1
    <3>3. i - a \in 1..b /\ wire[i] = q[i - a]
      BY <1>6, <3>1, <3>2
    <3>4. at(i - a) \in DOMAIN list /\ list[at(i - a)].kind = "tool"
      BY <1>a, <3>1, <3>3
    <3>5. QED
      BY <3>1, <3>3, <3>4 DEF ToolsAt
  <2>2. QED
    BY <2>1
<1>8. Cardinality(ToolsAt(wire)) <= Cardinality(ToolsAt(list))
  <2> DEFINE f == [i \in ToolsAt(wire) |-> at(i - a)]
  <2>1. f \in [ToolsAt(wire) -> ToolsAt(list)]
    BY <1>7
  <2>2. ASSUME NEW i \in ToolsAt(wire), NEW k \in ToolsAt(wire), f[i] = f[k]
        PROVE  i = k
    <3>1. at(i - a) = at(k - a)
      BY <2>2
    <3>2. i - a = k - a
      BY <1>7, <1>b, <3>1
    <3>3. QED
      BY <1>1, <1>7, <3>2
  <2> HIDE DEF f
  <2>3. f \in Injection(ToolsAt(wire), ToolsAt(list))
    BY <2>1, <2>2 DEF Injection, IsInjective
  <2>4. IsFiniteSet(ToolsAt(list))
    BY WeightIs
  <2>5. QED
    BY <2>3, <2>4, FS_Injection
<1>9. a + b <= Len(list)
  <2>1. IsFiniteSet(DOMAIN list) /\ Cardinality(DOMAIN list) = Len(list)
    BY <1>d, FS_Interval
  <2>2. IsFiniteSet(P \cup Q) /\ Cardinality(P \cup Q) <= Len(list)
    BY <1>e, <2>1, FS_Subset
  <2>3. IsFiniteSet(P) /\ IsFiniteSet(Q)
    <3>1. P \in SUBSET (P \cup Q) /\ Q \in SUBSET (P \cup Q)
      OBVIOUS
    <3>2. QED
      BY <2>2, <3>1, FS_Subset
  <2>4. Cardinality(P \cup Q) = Cardinality(P) + Cardinality(Q) - Cardinality(P \cap Q)
    BY <2>3, FS_Union
  <2>5. Cardinality(P \cap Q) = 0
    BY <1>e, FS_EmptySet
  <2>6. a = Cardinality(P) /\ b = Cardinality(Q)
    BY DEF a, b
  <2>7. QED
    BY <1>1, <1>2, <2>2, <2>4, <2>5, <2>6
<1>10. /\ Weight(wire) = Len(wire) + Cardinality(ToolsAt(wire))
       /\ Cardinality(ToolsAt(wire)) \in Nat
  BY <1>6, WeightIs
<1>11. /\ Weight(list) = Len(list) + Cardinality(ToolsAt(list))
       /\ Cardinality(ToolsAt(list)) \in Nat
  BY WeightIs
<1>12. Weight(wire) <= Weight(list)
  BY <1>1, <1>2, <1>6, <1>8, <1>9, <1>10, <1>11, <1>d
<1>13. QED
  BY <1>6, <1>12 DEF wire

\* What a marker in front leaves for the body.
LEMMA BodyBehindMark ==
  ASSUME NEW list \in Seq(Entries), Len(list) # 0, list[1].kind = "mark"
  PROVE  /\ BodyAt(list) \subseteq 2..Len(list)
         /\ Len(Body(list)) = Cardinality(BodyAt(list))
         /\ Len(Body(list)) <= Len(list) - 1
<1>1. Len(list) \in Nat /\ DOMAIN list = 1..Len(list)
  BY EntryIs
<1>2. BodyAt(list) \in SUBSET DOMAIN list /\ BodyAt(list) \in SUBSET (2..Len(list))
  <2>1. BodyAt(list) \in SUBSET DOMAIN list /\ 1 \notin BodyAt(list)
    BY DEF BodyAt
  <2>2. \A i \in BodyAt(list) : i \in 1..Len(list) /\ i # 1
    BY <1>1, <2>1
  <2>3. QED
    BY <1>1, <2>1, <2>2
<1>3. Body(list) = KeptAt(list, BodyAt(list))
  BY DEF Body, BodyAt
<1>4. Len(Body(list)) = Cardinality(BodyAt(list)) /\ Cardinality(BodyAt(list)) \in Nat
  BY <1>2, <1>3, KeptRows
<1>5. IsFiniteSet(2..Len(list)) /\ Cardinality(2..Len(list)) = Len(list) - 1
  BY <1>1, FS_Interval
<1>6. Cardinality(BodyAt(list)) <= Len(list) - 1
  BY <1>2, <1>5, FS_Subset
<1>7. QED
  BY <1>2, <1>4, <1>6

\* A compaction that omits something changes the transcript.
LEMMA CompactionChanges ==
  ASSUME NEW list \in Seq(Entries), Cut(list) # 0
  PROVE  Rendered(list) # list
<1> SUFFICES ASSUME Rendered(list) = list PROVE FALSE
  OBVIOUS
<1>1. /\ Len(Body(list)) \in Nat /\ Cut(list) \in 0..Len(Body(list))
      /\ Len(Left(list)) = Len(Body(list)) - Cut(list)
      /\ Len(list) = Len(Left(list)) + 1
      /\ list[1] = Row("mark", 0, StandsFor(list))
      /\ StandsFor(list) \in SUBSET (Nat \cup ToSet(CallSeq))
  BY RenderedIs
<1>2. list[1].kind = "mark"
  <2>1. StandsFor(list) \in SUBSET (Nat \cup ToSet(CallSeq))
    BY <1>1
  <2>2. Row("mark", 0, StandsFor(list)).kind = "mark"
    BY <2>1, EntryMade DEF EntryKinds
  <2>3. QED
    BY <1>1, <2>2
<1>3. Len(list) \in Nat /\ Len(list) # 0
  BY <1>1
<1>4. Len(Body(list)) <= Len(list) - 1
  BY <1>2, <1>3, BodyBehindMark
<1>5. QED
  BY <1>1, <1>3, <1>4

\* Shrinking leaves the rounds as they are, and adds no weight.
LEMMA ShrunkIs ==
  ASSUME NEW s \in Seq(Entries)
  PROVE  /\ Shrunk(s) \in Seq(Entries) /\ Weight(Shrunk(s)) <= Weight(s)
         /\ InRounds(s) => InRounds(Shrunk(s))
<1>1. Weight(s) \in Nat
  BY WeightIs
<1>2. CASE Estimate(s) <= Trigger
  BY <1>1, <1>2 DEF Shrunk
<1>3. CASE ~(Estimate(s) <= Trigger)
  <2> DEFINE old == Shrinkable(s)
             n == Cardinality(old)
             enough == Min({n} \cup {k \in 1..n : Estimate(s) - k < Target})
             out(i) == i \in old /\ Cardinality({k \in old : k <= i}) <= enough
             t == Shrunk(s)
  <2>1. t = [i \in DOMAIN s |-> IF out(i) THEN [s[i] EXCEPT !.kind = "shrunk"] ELSE s[i]]
    BY <1>3 DEF Shrunk
  <2>2. \A i \in DOMAIN s : out(i) => s[i].kind = "tool"
    BY DEF Shrinkable
  <2>3. /\ Len(s) \in Nat /\ DOMAIN s = 1..Len(s)
        /\ \A i \in DOMAIN s : s[i] \in Entries
    BY EntryIs
  <2> HIDE DEF out, t
  <2>4. ASSUME NEW i \in DOMAIN s
        PROVE  /\ t[i] \in Entries /\ t[i].set = s[i].set
               /\ t[i].kind = s[i].kind \/ (t[i].kind = "shrunk" /\ s[i].kind = "tool")
    <3>1. s[i] \in Entries
      BY <2>3
    <3>2. [s[i] EXCEPT !.kind = "shrunk"] \in Entries
          /\ [s[i] EXCEPT !.kind = "shrunk"].set = s[i].set
          /\ [s[i] EXCEPT !.kind = "shrunk"].kind = "shrunk"
      BY <3>1 DEF Entries, EntryKinds
    <3>3. t[i] = IF out(i) THEN [s[i] EXCEPT !.kind = "shrunk"] ELSE s[i]
      BY <2>1
    <3>4. CASE out(i)
      BY <2>2, <3>2, <3>3, <3>4
    <3>5. CASE ~out(i)
      BY <3>1, <3>3, <3>5
    <3>6. QED
      BY <3>4, <3>5
  <2>5. DOMAIN t = DOMAIN s
    BY <2>1
  <2>6. t \in Seq(Entries) /\ Len(t) = Len(s)
    <3>1. t = [i \in 1..Len(s) |-> t[i]]
      BY <2>1, <2>3
    <3>2. t \in Seq(Entries)
      BY <2>3, <2>4, <3>1, IsASeq
    <3>3. QED
      BY <2>3, <2>5, <3>2, LenProperties
  <2>7. ToolsAt(t) \subseteq ToolsAt(s)
    BY <2>4, <2>5 DEF ToolsAt
  <2>8. Weight(t) <= Weight(s)
    <3>1. Len(t) <= Len(s)
      BY <2>3, <2>6
    <3>2. QED
      BY <2>6, <2>7, <3>1, WeighsLess
  <2>9. ASSUME InRounds(s)
        PROVE  InRounds(t)
    <3>1. \A i \in DOMAIN s : SameRole(t[i], s[i])
      BY <2>4 DEF SameRole, IsResult
    <3>2. QED
      BY <2>5, <2>6, <2>9, <3>1, RoundsStay
  <2>10. QED
    BY <2>6, <2>8, <2>9 DEF t
<1>4. QED
  BY <1>2, <1>3

\* The last row of the user.
LEMMA LastUserIs ==
  ASSUME NEW list \in Seq(Entries)
  PROVE  /\ LastUser(list) \in 0..Len(list)
         /\ LastUser(list) # 0 => LastUser(list) \in DOMAIN list /\ list[LastUser(list)].kind = "user"
<1> DEFINE S == {0} \cup {i \in DOMAIN list : list[i].kind = "user"}
<1>1. Len(list) \in Nat /\ DOMAIN list = 1..Len(list)
  BY EntryIs
<1>2. S \in SUBSET (0..Len(list)) /\ S \in SUBSET Nat /\ 0 \in S
  BY <1>1
<1>a. IsFiniteSet(0..Len(list))
  BY <1>1, FS_Interval
<1>3. IsFiniteSet(S)
  BY <1>2, <1>a, FS_Subset
<1>4. Max(S) \in S
  BY <1>2, <1>3, GreatestIs
<1>5. LastUser(list) = Max(S)
  BY DEF LastUser
<1>6. LastUser(list) \in S
  BY <1>4, <1>5
<1>7. QED
  BY <1>1, <1>2, <1>6

-----------------------------------------------------------------------------
(* The invariant                                                           *)

LoopSteps == {"idle", "loaded", "compacting", "ready", "round", "think", "act", "limit"}
Loops == [n : Nat, step : LoopSteps, stage : Seq(Entries), round : Nat,
          calls : SUBSET ToSet(CallSeq), retry : BOOLEAN, start : Nat, compacted : BOOLEAN]
Jobs == [step : {"none", "asking"}, snap : Seq(Entries), turn : Nat, force : BOOLEAN]

SessionTypes ==
    /\ loop \in Loops
    /\ job \in [{"start", "tool"} -> Jobs]
    /\ view \in Seq(Entries) /\ mem \in Seq(Entries)
    /\ split \in Nat /\ said \in SUBSET Nat /\ IsFiniteSet(said)

\* The transcript, and the rows of a running turn, hold what was said.
SaidIsHeld ==
    /\ RowsHold(view, said)
    /\ loop.step # "idle" => RowsHold(mem, said)

\* They and the next request have no part of a round.
RoundsAreWhole ==
    split = 0 =>
       /\ InRounds(view)
       /\ loop.step # "idle" => InRounds(mem)
       /\ loop.step \in {"round", "think", "act"} => InRounds(loop.stage)

\* Who waits for a summary, and where a turn is that will take one in.
SummariesAreOwned ==
    /\ \A j \in {"start", "tool"} : job[j].step = "asking" => Cut(job[j].snap) # 0
    /\ loop.step = "compacting" => job["start"].step = "asking" /\ job["start"].turn = loop.n
    /\ job["start"].step = "asking" =>
          loop.step = "compacting" \/ (loop.step = "idle" /\ job["start"].turn = 0)
    /\ job["tool"].step = "asking" => job["tool"].turn <= loop.n
    /\ (job["tool"].step = "asking" /\ job["tool"].turn = loop.n /\ loop.step # "idle") =>
          /\ loop.step \in {"round", "think", "act", "limit"} /\ loop.round >= 1
          /\ loop.step = "limit" => loop.round >= 2

RoundsAreCounted ==
    /\ loop.step \in {"think", "act"} => loop.round >= 1
    /\ loop.step \in {"loaded", "compacting", "ready"} => loop.round = 0

\* What there is, with the user's text, is within the backstop, or nothing can go.
Fits(list) == Weight(list) + 1 <= Backstop \/ Cut(list) = 0
SpaceIsMade ==
    /\ loop.step = "ready" => loop.compacted \/ Fits(mem)
    /\ loop.step = "round" /\ loop.round = 0 =>
          /\ loop.start <= Len(mem)
          /\ loop.compacted \/ Fits(SubSeq(mem, 1, loop.start))
          /\ Weight(loop.stage) <= Weight(SubSeq(mem, 1, loop.start)) + 1

SessionInv ==
    /\ SessionTypes /\ SaidIsHeld /\ RoundsAreWhole /\ SummariesAreOwned
    /\ RoundsAreCounted /\ SpaceIsMade /\ NoDeadZone

\* The invariant holds more than is promised.
LEMMA SessionInvIsEnough ==
  ASSUME SessionInv
  PROVE  SessionSafe
<1>1. NothingForgotten
  BY DEF SessionInv, SaidIsHeld, RowsHold, NothingForgotten
<1>2. ASSUME split = 0
      PROVE  RequestsArePaired
  <2>1. SUFFICES ASSUME loop.step = "think" PROVE Paired(loop.stage)
    BY <2>1 DEF RequestsArePaired
  <2>2. loop.stage \in Seq(Entries) /\ InRounds(loop.stage)
    BY <1>2, <2>1 DEF SessionInv, SessionTypes, Loops, RoundsAreWhole
  <2>3. QED
    BY <2>2, RoundsArePaired
<1>3. NoDeadZone
  BY DEF SessionInv
<1>4. QED
  BY <1>1, <1>2, <1>3 DEF SessionSafe

\* No rows at all.
LEMMA NoRows ==
  /\ <<>> \in Seq(Entries) /\ RowsHold(<<>>, {}) /\ InRounds(<<>>)
<1>1. <<>> \in Seq(Entries) /\ DOMAIN <<>> = {}
  OBVIOUS
<1>2. Ids(<<>>) = {} /\ Covered(<<>>) = {}
  BY <1>1 DEF Ids, Covered
<1>3. InRounds(<<>>)
  BY <1>1, NoRounds
<1>4. RowsHold(<<>>, {})
  BY <1>1, <1>2 DEF RowsHold
<1>5. QED
  BY <1>1, <1>3, <1>4

\* Between turns.
LEMMA IdleLoopIs ==
  ASSUME NEW n \in Nat
  PROVE  /\ IdleLoop(n) \in Loops
         /\ IdleLoop(n).n = n /\ IdleLoop(n).step = "idle" /\ IdleLoop(n).round = 0
<1>1. <<>> \in Seq(Entries) /\ {} \in SUBSET ToSet(CallSeq)
  BY NoRows
<1>2. QED
  BY <1>1 DEF IdleLoop, Loops, LoopSteps

\* No summary is awaited.
LEMMA NoJobIs ==
  NoJob \in Jobs /\ NoJob.step = "none"
<1>1. <<>> \in Seq(Entries)
  BY NoRows
<1>2. QED
  BY <1>1 DEF NoJob, Jobs

\* Between turns the invariant is about the transcript and the jobs alone.
LEMMA IdleIsSafe ==
  ASSUME NEW n \in Nat, loop' = IdleLoop(n)
  PROVE  /\ loop' \in Loops /\ loop'.n = n /\ loop'.step = "idle"
         /\ RoundsAreCounted' /\ SpaceIsMade' /\ NoDeadZone'
<1>1. loop' \in Loops /\ loop'.n = n /\ loop'.step = "idle"
  BY IdleLoopIs
<1>2. QED
  BY <1>1 DEF RoundsAreCounted, SpaceIsMade, NoDeadZone

\* A new session has no rows and no turn.
LEMMA SessionStarts ==
  ASSUME SessionInit
  PROVE  SessionInv
<1>1. loop \in Loops /\ loop.step = "idle" /\ loop.n = 0
  BY IdleLoopIs DEF SessionInit
<1>2. \A j \in {"start", "tool"} : job[j] = NoJob
  BY DEF SessionInit
<1>3. SessionTypes
  BY <1>1, NoRows, NoJobIs, FS_EmptySet DEF SessionInit, SessionTypes
<1>4. SaidIsHeld /\ RoundsAreWhole
  BY <1>1, NoRows DEF SessionInit, SaidIsHeld, RoundsAreWhole
<1>5. SummariesAreOwned
  BY <1>1, <1>2, NoJobIs DEF SummariesAreOwned
<1>6. RoundsAreCounted /\ SpaceIsMade /\ NoDeadZone
  BY <1>1 DEF RoundsAreCounted, SpaceIsMade, NoDeadZone
<1>7. QED
  BY <1>3, <1>4, <1>5, <1>6 DEF SessionInv

\* New rows for the transcript and for the rows in memory.
LEMMA PutKeeps ==
  ASSUME SessionInv, loop.step # "idle",
         NEW new \in Seq(Entries), FreshFrom(new, NextId), Put(new)
  PROVE  /\ view' \in Seq(Entries) /\ mem' \in Seq(Entries)
         /\ said' \in SUBSET Nat /\ IsFiniteSet(said')
         /\ RowsHold(view', said') /\ RowsHold(mem', said')
         /\ split = 0 /\ InRounds(new) => InRounds(view') /\ InRounds(mem')
<1>1. /\ view \in Seq(Entries) /\ mem \in Seq(Entries)
      /\ said \in SUBSET Nat /\ IsFiniteSet(said)
      /\ RowsHold(view, said) /\ RowsHold(mem, said)
      /\ split = 0 => InRounds(view) /\ InRounds(mem)
  BY DEF SessionInv, SessionTypes, SaidIsHeld, RoundsAreWhole
<1>2. NextId \in Nat \ {0} /\ \A x \in said : x < NextId
  BY <1>1, NextIdIsNew
<1>3. view' = view \o new /\ mem' = mem \o new /\ said' = said \cup Ids(new)
  BY DEF Put
<1>4. IsFiniteSet(Ids(new)) /\ Ids(new) \subseteq Nat \ {0}
  BY IdsFinite
<1>5. said' \in SUBSET Nat /\ IsFiniteSet(said')
  BY <1>1, <1>3, <1>4, FS_Union
<1>6. view' \in Seq(Entries) /\ RowsHold(view', said')
  BY <1>1, <1>2, <1>3, RowsGrown
<1>7. mem' \in Seq(Entries) /\ RowsHold(mem', said')
  BY <1>1, <1>2, <1>3, RowsGrown
<1>8. ASSUME split = 0, InRounds(new)
      PROVE  InRounds(view') /\ InRounds(mem')
  <2>1. InRounds(view) /\ InRounds(mem)
    BY <1>1, <1>8
  <2>2. QED
    BY <1>1, <1>3, <1>8, <2>1, RoundsJoin
<1>9. QED
  BY <1>5, <1>6, <1>7, <1>8

-----------------------------------------------------------------------------
(* The steps                                                               *)

\* The first rows of a list stay when others follow.
LEMMA FirstStay ==
  ASSUME NEW list \in Seq(Entries), NEW new \in Seq(Entries), NEW u \in 0..Len(list)
  PROVE  SubSeq(list \o new, 1, u) = SubSeq(list, 1, u)
<1> DEFINE all == list \o new
<1>1. /\ all \in Seq(Entries) /\ Len(all) = Len(list) + Len(new)
      /\ Len(list) \in Nat /\ Len(new) \in Nat
      /\ \A i \in 1..Len(list) : all[i] = list[i]
  BY Joined
<1> HIDE DEF all
<1>2. u \in 0..Len(all)
  BY <1>1
<1>3. /\ SubSeq(all, 1, u) \in Seq(Entries) /\ Len(SubSeq(all, 1, u)) = u
      /\ \A i \in 1..u : SubSeq(all, 1, u)[i] = all[i]
  BY <1>1, <1>2, FirstRows
<1>4. /\ SubSeq(list, 1, u) \in Seq(Entries) /\ Len(SubSeq(list, 1, u)) = u
      /\ \A i \in 1..u : SubSeq(list, 1, u)[i] = list[i]
  BY FirstRows
<1>5. \A i \in 1..u : SubSeq(all, 1, u)[i] = SubSeq(list, 1, u)[i]
  BY <1>1, <1>3, <1>4
<1>6. SubSeq(all, 1, u) = SubSeq(list, 1, u)
  BY <1>3, <1>4, <1>5, SeqEqual
<1>7. QED
  BY <1>6 DEF all

\* As many as there are: all of them.
LEMMA FirstAreAll ==
  ASSUME NEW list \in Seq(Entries)
  PROVE  SubSeq(list, 1, Len(list)) = list
<1>1. Len(list) \in Nat /\ Len(list) \in 0..Len(list) /\ DOMAIN list = 1..Len(list)
  BY EntryIs
<1>2. /\ SubSeq(list, 1, Len(list)) \in Seq(Entries)
      /\ Len(SubSeq(list, 1, Len(list))) = Len(list)
      /\ \A i \in 1..Len(list) : SubSeq(list, 1, Len(list))[i] = list[i]
  BY <1>1, FirstRows
<1>3. QED
  BY <1>2, SeqEqual

\* The types of the state, in parts.
LEMMA TypesAre ==
  ASSUME SessionInv
  PROVE  /\ loop \in Loops /\ loop.n \in Nat /\ loop.step \in LoopSteps
         /\ loop.stage \in Seq(Entries) /\ loop.round \in Nat
         /\ loop.calls \in SUBSET ToSet(CallSeq) /\ loop.start \in Nat
         /\ job \in [{"start", "tool"} -> Jobs]
         /\ \A j \in {"start", "tool"} :
              /\ job[j].step \in {"none", "asking"} /\ job[j].snap \in Seq(Entries)
              /\ job[j].turn \in Nat
         /\ view \in Seq(Entries) /\ mem \in Seq(Entries)
         /\ split \in Nat /\ said \in SUBSET Nat /\ IsFiniteSet(said)
         /\ RowsHold(view, said)
<1>1. SessionTypes /\ RowsHold(view, said)
  BY DEF SessionInv, SaidIsHeld
<1>2. loop \in Loops /\ job \in [{"start", "tool"} -> Jobs]
  BY <1>1 DEF SessionTypes
<1>3. \A j \in {"start", "tool"} : job[j] \in Jobs
  BY <1>2
<1>4. /\ loop.n \in Nat /\ loop.step \in LoopSteps
      /\ loop.stage \in Seq(Entries) /\ loop.round \in Nat
      /\ loop.calls \in SUBSET ToSet(CallSeq) /\ loop.start \in Nat
  BY <1>2 DEF Loops
<1>5. \A j \in {"start", "tool"} :
         job[j].step \in {"none", "asking"} /\ job[j].snap \in Seq(Entries) /\ job[j].turn \in Nat
  BY <1>3 DEF Jobs
<1>6. QED
  BY <1>1, <1>2, <1>4, <1>5 DEF SessionTypes

\* A turn ends, and what it leaves is in order.
LEMMA EndKeeps ==
  ASSUME SessionInv, loop' = IdleLoop(loop.n),
         view' \in Seq(Entries), mem' \in Seq(Entries), split' \in Nat,
         said' \in SUBSET Nat, IsFiniteSet(said'), RowsHold(view', said'),
         split' = 0 => InRounds(view'),
         job' \in [{"start", "tool"} -> Jobs],
         job'["start"].step = "none", job'["tool"] = job["tool"] \/ job'["tool"].step = "none"
  PROVE  SessionInv'
<1>1. loop.n \in Nat
  BY TypesAre
<1>2. /\ loop' \in Loops /\ loop'.n = loop.n /\ loop'.step = "idle"
      /\ RoundsAreCounted' /\ SpaceIsMade' /\ NoDeadZone'
  BY <1>1, IdleIsSafe
<1>3. SessionTypes'
  BY <1>2 DEF SessionTypes
<1>4. SaidIsHeld' /\ RoundsAreWhole'
  BY <1>2 DEF SaidIsHeld, RoundsAreWhole
<1>5. SummariesAreOwned'
  BY <1>2 DEF SummariesAreOwned, SessionInv
<1>6. QED
  BY <1>2, <1>3, <1>4, <1>5 DEF SessionInv

\* ... and the transcript is as it was.
LEMMA LeaveKeeps ==
  ASSUME SessionInv, loop' = IdleLoop(loop.n), UNCHANGED <<view, split, said>>,
         mem' \in Seq(Entries), job' \in [{"start", "tool"} -> Jobs],
         job'["start"].step = "none", job'["tool"] = job["tool"] \/ job'["tool"].step = "none"
  PROVE  SessionInv'
<1>1. /\ view \in Seq(Entries) /\ split \in Nat
      /\ said \in SUBSET Nat /\ IsFiniteSet(said) /\ RowsHold(view, said)
  BY TypesAre
<1>2. split = 0 => InRounds(view)
  BY DEF SessionInv, RoundsAreWhole
<1>3. QED
  BY <1>1, <1>2, EndKeeps

\* Who waits at the start of a turn is the turn itself, or between turns the user.
LEMMA StartIsFree ==
  ASSUME SessionInv, loop.step \notin {"idle", "compacting"}
  PROVE  job["start"].step = "none"
<1>1. job["start"].step \in {"none", "asking"}
  BY TypesAre
<1>2. QED
  BY <1>1 DEF SessionInv, SummariesAreOwned

\* Stop: the compaction that the turn waits for ends with it, the compact
\* tool's does not.
LEMMA CancelLoopKeeps ==
  ASSUME SessionInv, CancelLoop
  PROVE  SessionInv'
<1>1. job \in [{"start", "tool"} -> Jobs] /\ mem \in Seq(Entries)
  BY TypesAre
<1>2. loop' = IdleLoop(loop.n) /\ job' = [job EXCEPT !["start"] = NoJob]
      /\ UNCHANGED <<view, mem, split, said>>
  BY DEF CancelLoop
<1>3. job' \in [{"start", "tool"} -> Jobs] /\ job'["start"] = NoJob /\ job'["tool"] = job["tool"]
  BY <1>1, <1>2, NoJobIs
<1>4. QED
  BY <1>1, <1>2, <1>3, NoJobIs, LeaveKeeps

\* The process dies between two steps.
LEMMA CrashLoopKeeps ==
  ASSUME SessionInv, CrashLoop
  PROVE  SessionInv'
<1>1. job \in [{"start", "tool"} -> Jobs]
  BY TypesAre
<1>2. loop' = IdleLoop(loop.n) /\ job' = [j \in DOMAIN job |-> NoJob] /\ mem' = <<>>
      /\ UNCHANGED <<view, split, said>>
  BY DEF CrashLoop, Restart
<1>3. job' \in [{"start", "tool"} -> Jobs] /\ job'["start"] = NoJob /\ job'["tool"] = NoJob
  BY <1>1, <1>2, NoJobIs
<1>4. mem' \in Seq(Entries)
  BY <1>2, NoRows
<1>5. QED
  BY <1>2, <1>3, <1>4, NoJobIs, LeaveKeeps

\* The turn that was told of the limit ends.
LEMMA EndAtLimitKeeps ==
  ASSUME SessionInv, EndAtLimit
  PROVE  SessionInv'
<1>1. job \in [{"start", "tool"} -> Jobs] /\ mem \in Seq(Entries)
  BY TypesAre
<1>2. loop.step = "limit" /\ loop' = IdleLoop(loop.n) /\ UNCHANGED <<view, mem, job, split, said>>
  BY DEF EndAtLimit
<1>3. job["start"].step = "none"
  BY <1>2, StartIsFree
<1>4. QED
  BY <1>1, <1>2, <1>3, LeaveKeeps

\* The reply that ends a turn, or says that the limit has.
LEMMA ReplyIsPut ==
  ASSUME SessionInv, loop.step # "idle", Put(<<Row("reply", NextId, {})>>)
  PROVE  /\ view' \in Seq(Entries) /\ mem' \in Seq(Entries)
         /\ said' \in SUBSET Nat /\ IsFiniteSet(said')
         /\ RowsHold(view', said') /\ RowsHold(mem', said')
         /\ split = 0 => InRounds(view') /\ InRounds(mem')
<1> DEFINE new == <<Row("reply", NextId, {})>>
<1>1. /\ said \in SUBSET Nat /\ IsFiniteSet(said) /\ RowsHold(view, said)
      /\ view \in Seq(Entries)
  BY TypesAre
<1>2. NextId \in Nat \ {0}
  BY <1>1, NextIdIsNew
<1>3. new \in Seq(Entries) /\ FreshFrom(new, NextId) /\ InRounds(new)
  BY <1>2, OneFresh
<1>4. Put(new)
  OBVIOUS
<1> HIDE DEF new
<1>5. QED
  BY <1>3, <1>4, PutKeeps

\* A reply without calls ends the turn.
LEMMA AnsweredKeeps ==
  ASSUME SessionInv, Answered
  PROVE  SessionInv'
<1>1. /\ loop.step = "think" /\ Put(<<Row("reply", NextId, {})>>)
      /\ loop' = IdleLoop(loop.n) /\ UNCHANGED <<job, split>>
  BY DEF Answered
<1>2. job \in [{"start", "tool"} -> Jobs] /\ split \in Nat
  BY TypesAre
<1>3. job["start"].step = "none"
  BY <1>1, StartIsFree
<1>4. /\ view' \in Seq(Entries) /\ mem' \in Seq(Entries)
      /\ said' \in SUBSET Nat /\ IsFiniteSet(said') /\ RowsHold(view', said')
      /\ split = 0 => InRounds(view')
  BY <1>1, ReplyIsPut
<1>5. QED
  BY <1>1, <1>2, <1>3, <1>4, EndKeeps

\* The rows of the round, and behind them perhaps the row that closes the turn.
LEMMA RoundIsNew ==
  ASSUME SessionInv
  PROVE  /\ NextId \in Nat \ {0} /\ RoundRows \in Seq(Entries)
         /\ FreshFrom(RoundRows, NextId) /\ InRounds(RoundRows)
         /\ \A i \in DOMAIN RoundRows : RoundRows[i].id < NextId + Len(RoundRows)
<1>1. /\ said \in SUBSET Nat /\ IsFiniteSet(said) /\ RowsHold(view, said)
      /\ view \in Seq(Entries) /\ loop.calls \in SUBSET ToSet(CallSeq)
  BY TypesAre
<1>2. NextId \in Nat \ {0}
  BY <1>1, NextIdIsNew
<1>3. RoundRows = RoundOf(NextId, loop.calls)
  BY RoundRowsAre
<1>4. QED
  BY <1>1, <1>2, <1>3, RoundIs

\* The same, with the row that closes a turn at its last round.
LEMMA LimitIsNew ==
  ASSUME SessionInv
  PROVE  LET limit == <<Row("reply", NextId + Len(RoundRows), {})>>
         IN  /\ RoundRows \o limit \in Seq(Entries)
             /\ FreshFrom(RoundRows \o limit, NextId) /\ InRounds(RoundRows \o limit)
<1> DEFINE m == NextId + Len(RoundRows)
           limit == <<Row("reply", m, {})>>
<1>1. /\ NextId \in Nat \ {0} /\ RoundRows \in Seq(Entries)
      /\ FreshFrom(RoundRows, NextId) /\ InRounds(RoundRows)
      /\ \A i \in DOMAIN RoundRows : RoundRows[i].id < m
  BY RoundIsNew
<1>2. Len(RoundRows) \in Nat
  BY <1>1, EntryIs
<1>3. m \in Nat \ {0} /\ NextId <= m
  BY <1>1, <1>2
<1> HIDE DEF m
<1>4. limit \in Seq(Entries) /\ FreshFrom(limit, m) /\ InRounds(limit)
  BY <1>3, OneFresh
<1> HIDE DEF limit
<1>5. RoundRows \o limit \in Seq(Entries) /\ FreshFrom(RoundRows \o limit, NextId)
  BY <1>1, <1>3, <1>4, FreshJoin
<1>6. InRounds(RoundRows \o limit)
  BY <1>1, <1>4, RoundsJoin
<1>7. QED
  BY <1>5, <1>6 DEF limit, m

\* observe: the round is appended, to the transcript, in memory and for the
\* next request, or the turn ends with it.
LEMMA ObserveKeeps ==
  ASSUME SessionInv, Observe
  PROVE  SessionInv'
<1> DEFINE limit == <<Row("reply", NextId + Len(RoundRows), {})>>
           last == loop.round = MaxRounds
<1>1. /\ loop.step = "act" /\ UNCHANGED <<job, split>>
      /\ Put(IF last THEN RoundRows \o limit ELSE RoundRows)
      /\ loop' = IF last THEN IdleLoop(loop.n)
                 ELSE [loop EXCEPT !.step = "round", !.stage = @ \o RoundRows, !.calls = {}]
  BY DEF Observe
<1>2. /\ loop \in Loops /\ loop.n \in Nat /\ loop.round \in Nat /\ loop.stage \in Seq(Entries)
      /\ job \in [{"start", "tool"} -> Jobs] /\ split \in Nat
  BY TypesAre
<1>3. job["start"].step = "none" /\ loop.round >= 1
  BY <1>1, StartIsFree DEF SessionInv, RoundsAreCounted
<1>4. /\ NextId \in Nat \ {0} /\ RoundRows \in Seq(Entries)
      /\ FreshFrom(RoundRows, NextId) /\ InRounds(RoundRows)
  BY RoundIsNew
<1>5. /\ RoundRows \o limit \in Seq(Entries)
      /\ FreshFrom(RoundRows \o limit, NextId) /\ InRounds(RoundRows \o limit)
  BY LimitIsNew
<1>6. PICK new : new = IF last THEN RoundRows \o limit ELSE RoundRows
  OBVIOUS
<1>7. new \in Seq(Entries) /\ FreshFrom(new, NextId) /\ InRounds(new) /\ Put(new)
  BY <1>1, <1>4, <1>5, <1>6
<1>8. /\ view' \in Seq(Entries) /\ mem' \in Seq(Entries)
      /\ said' \in SUBSET Nat /\ IsFiniteSet(said')
      /\ RowsHold(view', said') /\ RowsHold(mem', said')
      /\ split = 0 => InRounds(view') /\ InRounds(mem')
  BY <1>1, <1>7, PutKeeps
<1>9. CASE last
  BY <1>1, <1>2, <1>3, <1>8, <1>9, EndKeeps
<1>10. CASE ~last
  <2>1. loop' = [loop EXCEPT !.step = "round", !.stage = @ \o RoundRows, !.calls = {}]
    BY <1>1, <1>10
  <2>2. loop.stage \o RoundRows \in Seq(Entries) /\ {} \in SUBSET ToSet(CallSeq)
    BY <1>2, <1>4, Joined
  <2>3. /\ loop' \in Loops /\ loop'.n = loop.n /\ loop'.step = "round"
        /\ loop'.round = loop.round /\ loop'.stage = loop.stage \o RoundRows
    BY <1>2, <2>1, <2>2 DEF Loops, LoopSteps
  <2>4. SessionTypes'
    BY <1>1, <1>2, <1>8, <2>3 DEF SessionTypes
  <2>5. SaidIsHeld'
    BY <1>8 DEF SaidIsHeld
  <2>6. RoundsAreWhole'
    <3>1. split = 0 => InRounds(loop.stage)
      BY <1>1 DEF SessionInv, RoundsAreWhole
    <3>2. split = 0 => InRounds(loop.stage \o RoundRows)
      BY <1>2, <1>4, <3>1, RoundsJoin
    <3>3. QED
      BY <1>1, <1>8, <2>3, <3>2 DEF RoundsAreWhole
  <2>7. SummariesAreOwned'
    BY <1>1, <1>3, <2>3 DEF SummariesAreOwned, SessionInv
  <2>8. RoundsAreCounted' /\ SpaceIsMade' /\ NoDeadZone'
    BY <1>2, <1>3, <2>3 DEF RoundsAreCounted, SpaceIsMade, NoDeadZone
  <2>9. QED
    BY <2>4, <2>5, <2>6, <2>7, <2>8 DEF SessionInv
<1>11. QED
  BY <1>9, <1>10

\* The process dies amid the appends of a round: from then on rounds may be cut.
LEMMA CrashInObserveKeeps ==
  ASSUME SessionInv, CrashInObserve
  PROVE  SessionInv'
<1>1. PICK k \in 1..(Len(RoundRows) - 1) :
         /\ view' = view \o SubSeq(RoundRows, 1, k)
         /\ said' = said \cup Ids(SubSeq(RoundRows, 1, k))
  BY DEF CrashInObserve
<1> DEFINE new == SubSeq(RoundRows, 1, k)
<1>2. /\ split' = split + 1 /\ loop' = IdleLoop(loop.n)
      /\ mem' = <<>> /\ job' = [j \in DOMAIN job |-> NoJob]
  BY DEF CrashInObserve, Restart
<1>3. /\ view \in Seq(Entries) /\ split \in Nat
      /\ said \in SUBSET Nat /\ IsFiniteSet(said) /\ RowsHold(view, said)
      /\ job \in [{"start", "tool"} -> Jobs]
  BY TypesAre
<1>4. /\ NextId \in Nat \ {0} /\ RoundRows \in Seq(Entries) /\ FreshFrom(RoundRows, NextId)
  BY RoundIsNew
<1>5. k \in 0..Len(RoundRows)
  <2>1. Len(RoundRows) \in Nat
    BY <1>4, EntryIs
  <2>2. QED
    BY <2>1
<1>6. /\ new \in Seq(Entries) /\ DOMAIN new = 1..k
      /\ \A i \in 1..k : i \in DOMAIN RoundRows /\ new[i] = RoundRows[i]
  BY <1>4, <1>5, FirstRows
<1>a. view' = view \o new /\ said' = said \cup Ids(new)
  BY <1>1
<1> HIDE DEF new
<1>7. FreshFrom(new, NextId)
  BY <1>4, <1>6 DEF FreshFrom
<1>8. \A x \in said : x < NextId
  BY <1>3, NextIdIsNew
<1>9. view' \in Seq(Entries) /\ RowsHold(view', said')
  BY <1>3, <1>4, <1>6, <1>7, <1>8, <1>a, RowsGrown
<1>10. said' \in SUBSET Nat /\ IsFiniteSet(said')
  <2>1. IsFiniteSet(Ids(new)) /\ Ids(new) \subseteq Nat \ {0}
    BY <1>6, IdsFinite
  <2>2. QED
    BY <1>3, <1>a, <2>1, FS_Union
<1>11. job' \in [{"start", "tool"} -> Jobs] /\ job'["start"] = NoJob /\ job'["tool"] = NoJob
  BY <1>2, <1>3, NoJobIs
<1>12. mem' \in Seq(Entries) /\ split' \in Nat /\ split' # 0
  BY <1>2, <1>3, NoRows
<1>13. QED
  BY <1>2, <1>9, <1>10, <1>11, <1>12, NoJobIs, EndKeeps

\* A step within a turn that changes no row.
LEMMA CallToolsKeeps ==
  ASSUME SessionInv, NEW calls \in SUBSET ToSet(CallSeq), CallTools(calls)
  PROVE  SessionInv'
<1>1. /\ loop.step = "think" /\ loop' = [loop EXCEPT !.step = "act", !.calls = calls]
      /\ UNCHANGED <<view, mem, job, split, said>>
  BY DEF CallTools
<1>2. loop \in Loops
  BY TypesAre
<1>3. /\ loop' \in Loops /\ loop'.n = loop.n /\ loop'.step = "act"
      /\ loop'.round = loop.round /\ loop'.stage = loop.stage
  BY <1>1, <1>2 DEF Loops, LoopSteps
<1>4. SessionTypes'
  BY <1>1, <1>3 DEF SessionTypes, SessionInv
<1>5. SaidIsHeld' /\ RoundsAreWhole'
  BY <1>1, <1>3 DEF SaidIsHeld, RoundsAreWhole, SessionInv
<1>6. SummariesAreOwned' /\ RoundsAreCounted'
  BY <1>1, <1>3 DEF SummariesAreOwned, RoundsAreCounted, SessionInv
<1>7. SpaceIsMade' /\ NoDeadZone'
  BY <1>3 DEF SpaceIsMade, NoDeadZone
<1>8. QED
  BY <1>4, <1>5, <1>6, <1>7 DEF SessionInv

\* What is due omits something.
LEMMA DueCuts ==
  ASSUME NEW list \in Seq(Entries), NEW force, Due(list, force)
  PROVE  Cut(list) # 0
<1>1. Omit(Body(list)) > 0
  BY DEF Due
<1>2. Cut(list) > 0
  BY <1>1 DEF Cut
<1>3. QED
  BY <1>2

\* A summary is asked for.
LEMMA JobIs ==
  ASSUME NEW snap \in Seq(Entries), NEW t \in Nat, NEW f \in {TRUE, FALSE}
  PROVE  LET new == [step |-> "asking", snap |-> snap, turn |-> t, force |-> f]
         IN  new \in Jobs /\ new.step = "asking" /\ new.snap = snap /\ new.turn = t
BY DEF Jobs

\* The compact tool asks for a summary of the rows in memory.
LEMMA CallCompactKeeps ==
  ASSUME SessionInv, CallCompact
  PROVE  SessionInv'
<1> DEFINE new == [step |-> "asking", snap |-> mem, turn |-> loop.n, force |-> TRUE]
<1>1. /\ loop.step = "act" /\ Due(mem, TRUE) /\ job' = [job EXCEPT !["tool"] = new]
      /\ UNCHANGED <<view, mem, loop, split, said>>
  BY DEF CallCompact
<1>2. mem \in Seq(Entries) /\ loop.n \in Nat /\ job \in [{"start", "tool"} -> Jobs]
  BY TypesAre
<1>3. new \in Jobs /\ new.step = "asking" /\ new.snap = mem /\ new.turn = loop.n
  BY <1>2, JobIs
<1>4. Cut(mem) # 0
  BY <1>1, <1>2, DueCuts
<1> HIDE DEF new
<1>5. job' \in [{"start", "tool"} -> Jobs] /\ job'["tool"] = new /\ job'["start"] = job["start"]
  BY <1>1, <1>2, <1>3
<1>6. SessionTypes'
  BY <1>1, <1>5 DEF SessionTypes, SessionInv
<1>7. /\ SaidIsHeld' /\ RoundsAreWhole' /\ RoundsAreCounted'
      /\ SpaceIsMade' /\ NoDeadZone'
  BY <1>1 DEF SaidIsHeld, RoundsAreWhole, RoundsAreCounted, SpaceIsMade, NoDeadZone, SessionInv
<1>8. loop.round >= 1 /\ job["start"].step = "none"
  BY <1>1, StartIsFree DEF SessionInv, RoundsAreCounted
<1>9. SummariesAreOwned'
  BY <1>1, <1>2, <1>3, <1>4, <1>5, <1>8 DEF SummariesAreOwned, SessionInv
<1>10. QED
  BY <1>6, <1>7, <1>9 DEF SessionInv

\* What is not due is no more than fits, or cannot be cut.
LEMMA NotDueFits ==
  ASSUME NEW list \in Seq(Entries), NEW force, ~Due(list, force)
  PROVE  Fits(list)
<1>1. Len(Body(list)) \in Nat /\ Cut(list) \in 0..Len(Body(list))
  BY RenderedIs
<1>2. CASE Omit(Body(list)) > 0
  <2>1. ~(Weight(list) + 1 > Backstop)
    BY <1>2 DEF Due
  <2>2. Weight(list) \in Nat /\ Backstop \in Nat
    BY WeightIs, SessionLoopAssumption
  <2>3. QED
    BY <2>1, <2>2 DEF Fits
<1>3. CASE ~(Omit(Body(list)) > 0)
  <2>1. ~(Cut(list) > 0)
    BY <1>3 DEF Cut
  <2>2. Cut(list) = 0
    BY <1>1, <2>1
  <2>3. QED
    BY <2>2 DEF Fits
<1>4. QED
  BY <1>2, <1>3

\* Before the first request a summary is asked for, or the rows fit.
LEMMA PreCompactKeeps ==
  ASSUME SessionInv, PreCompact
  PROVE  SessionInv'
<1> DEFINE new == [step |-> "asking", snap |-> mem, turn |-> loop.n, force |-> FALSE]
<1>1. loop.step = "loaded" /\ UNCHANGED <<view, mem, split, said>>
  BY DEF PreCompact
<1>2. /\ mem \in Seq(Entries) /\ loop \in Loops /\ loop.n \in Nat
      /\ job \in [{"start", "tool"} -> Jobs]
  BY TypesAre
<1>3. loop.round = 0
  BY <1>1 DEF SessionInv, RoundsAreCounted
<1>4. new \in Jobs /\ new.step = "asking" /\ new.snap = mem /\ new.turn = loop.n
  BY <1>2, JobIs
<1>5. ~(job["tool"].step = "asking" /\ job["tool"].turn = loop.n)
  BY <1>1 DEF SessionInv, SummariesAreOwned
<1>6. CASE Due(mem, FALSE)
  <2>1. job' = [job EXCEPT !["start"] = new] /\ loop' = [loop EXCEPT !.step = "compacting"]
    BY <1>6 DEF PreCompact
  <2>2. Cut(mem) # 0
    BY <1>2, <1>6, DueCuts
  <2> HIDE DEF new
  <2>3. job' \in [{"start", "tool"} -> Jobs] /\ job'["start"] = new /\ job'["tool"] = job["tool"]
    BY <1>2, <1>4, <2>1
  <2>4. loop' \in Loops /\ loop'.n = loop.n /\ loop'.step = "compacting" /\ loop'.round = loop.round
    BY <1>2, <2>1 DEF Loops, LoopSteps
  <2>5. SessionTypes'
    BY <1>1, <2>3, <2>4 DEF SessionTypes, SessionInv
  <2>6. SaidIsHeld' /\ RoundsAreWhole'
    BY <1>1, <2>4 DEF SaidIsHeld, RoundsAreWhole, SessionInv
  <2>7. SummariesAreOwned'
    BY <1>1, <1>4, <1>5, <2>2, <2>3, <2>4 DEF SummariesAreOwned, SessionInv
  <2>8. RoundsAreCounted' /\ SpaceIsMade' /\ NoDeadZone'
    BY <1>3, <2>4 DEF RoundsAreCounted, SpaceIsMade, NoDeadZone
  <2>9. QED
    BY <2>5, <2>6, <2>7, <2>8 DEF SessionInv
<1>7. CASE ~Due(mem, FALSE)
  <2>1. UNCHANGED job /\ loop' = [loop EXCEPT !.step = "ready"]
    BY <1>7 DEF PreCompact
  <2>2. Fits(mem)
    BY <1>2, <1>7, NotDueFits
  <2>3. loop' \in Loops /\ loop'.n = loop.n /\ loop'.step = "ready" /\ loop'.round = loop.round
    BY <1>2, <2>1 DEF Loops, LoopSteps
  <2>4. SessionTypes'
    BY <1>1, <2>1, <2>3 DEF SessionTypes, SessionInv
  <2>5. SaidIsHeld' /\ RoundsAreWhole'
    BY <1>1, <2>3 DEF SaidIsHeld, RoundsAreWhole, SessionInv
  <2>6. SummariesAreOwned'
    BY <1>1, <1>5, <2>1, <2>3 DEF SummariesAreOwned, SessionInv
  <2>7. SpaceIsMade'
    <3>1. Fits(mem')
      BY <1>1, <2>2
    <3>2. QED
      BY <2>3, <3>1 DEF SpaceIsMade
  <2>8. RoundsAreCounted' /\ NoDeadZone'
    BY <1>3, <2>3 DEF RoundsAreCounted, NoDeadZone
  <2>9. QED
    BY <2>4, <2>5, <2>6, <2>7, <2>8 DEF SessionInv
<1>8. QED
  BY <1>6, <1>7

\* A request carries the rounds whole.
LEMMA WireInRounds ==
  ASSUME NEW list \in Seq(Entries), InRounds(list)
  PROVE  InRounds(Wire(list))
<1>1. MarksAt(list) \in SUBSET DOMAIN list /\ SaidAt(list) \in SUBSET DOMAIN list
  BY DEF MarksAt, SaidAt
<1>2. Wire(list) = KeptAt(list, MarksAt(list)) \o KeptAt(list, SaidAt(list))
  BY DEF Wire, Marks, MarksAt, SaidAt
<1>3. /\ KeptAt(list, MarksAt(list)) \in Seq(Entries)
      /\ DOMAIN KeptAt(list, MarksAt(list)) = 1..Cardinality(MarksAt(list))
      /\ \A j \in 1..Cardinality(MarksAt(list)) :
            /\ Nth(MarksAt(list), j) \in MarksAt(list)
            /\ KeptAt(list, MarksAt(list))[j] = list[Nth(MarksAt(list), j)]
  BY <1>1, KeptRows
<1>4. \A j \in DOMAIN KeptAt(list, MarksAt(list)) : KeptAt(list, MarksAt(list))[j].kind = "mark"
  BY <1>3 DEF MarksAt
<1>5. InRounds(KeptAt(list, MarksAt(list)))
  BY <1>3, <1>4, NoRounds DEF IsResult
<1>6. \A i \in DOMAIN list : list[i].kind = "call" \/ IsResult(list[i]) => i \in SaidAt(list)
  BY DEF SaidAt, IsResult
<1>7. KeptAt(list, SaidAt(list)) \in Seq(Entries)
  BY <1>1, KeptRows
<1>8. InRounds(KeptAt(list, SaidAt(list)))
  BY <1>1, <1>6, RoundsKept
<1>9. QED
  BY <1>2, <1>3, <1>5, <1>7, <1>8, RoundsJoin

\* The first request: at most the rows in memory and the user's text.
LEMMA FirstRequest ==
  ASSUME NEW list \in Seq(Entries), NEW fresh \in Seq(Entries),
         fresh = <<>> \/ (\E n \in Nat : fresh = <<Row("user", n, {})>>)
  PROVE  /\ Weight(Wire(list) \o fresh) <= Weight(list) + 1
         /\ SubSeq(list \o fresh, 1, Len(list)) = list
<1>1. Wire(list) \in Seq(Entries) /\ Weight(Wire(list)) <= Weight(list)
  BY WireIs
<1>2. Weight(Wire(list)) \in Nat /\ Weight(list) \in Nat
  BY <1>1, WeightIs
<1>3. SubSeq(list \o fresh, 1, Len(list)) = list
  <2>1. Len(list) \in Nat
    BY Joined
  <2>2. Len(list) \in 0..Len(list)
    BY <2>1
  <2>3. SubSeq(list \o fresh, 1, Len(list)) = SubSeq(list, 1, Len(list))
    BY <2>2, FirstStay
  <2>4. SubSeq(list, 1, Len(list)) = list
    BY FirstAreAll
  <2>5. QED
    BY <2>3, <2>4
<1>4. CASE fresh = <<>>
  <2>1. Wire(list) \o fresh = Wire(list)
    BY <1>1, <1>4
  <2>2. QED
    BY <1>1, <1>2, <1>3, <2>1
<1>5. ASSUME NEW n \in Nat, fresh = <<Row("user", n, {})>>
      PROVE  Weight(Wire(list) \o fresh) <= Weight(list) + 1
  <2>1. Row("user", n, {}) \in Entries /\ Row("user", n, {}).kind # "tool"
    BY EntryMade DEF EntryKinds
  <2>2. Weight(Wire(list) \o <<Row("user", n, {})>>) = Weight(Wire(list)) + 1
    BY <1>1, <2>1, WeightOfNext
  <2>3. QED
    BY <1>1, <1>2, <1>5, <2>2
<1>6. QED
  BY <1>3, <1>4, <1>5

\* assemble: the user's text is put on record, once, and the request is made.
LEMMA AssembleKeeps ==
  ASSUME SessionInv, Assemble
  PROVE  SessionInv'
<1> DEFINE fresh == IF loop.retry THEN <<>> ELSE <<Row("user", NextId, {})>>
<1>1. /\ loop.step = "ready" /\ mem' = mem \o fresh
      /\ view' = view \o fresh /\ said' = said \cup Ids(fresh)
      /\ loop' = [loop EXCEPT !.step = "round", !.stage = Wire(mem) \o fresh, !.start = Len(mem)]
      /\ UNCHANGED <<job, split>>
  BY DEF Assemble
<1>2. /\ loop \in Loops /\ loop.n \in Nat /\ loop.round \in Nat
      /\ job \in [{"start", "tool"} -> Jobs] /\ split \in Nat
      /\ mem \in Seq(Entries) /\ view \in Seq(Entries)
      /\ said \in SUBSET Nat /\ IsFiniteSet(said) /\ RowsHold(view, said)
  BY TypesAre
<1>3. NextId \in Nat \ {0}
  BY <1>2, NextIdIsNew
<1>4. /\ fresh \in Seq(Entries) /\ FreshFrom(fresh, NextId) /\ InRounds(fresh)
      /\ fresh = <<>> \/ (\E n \in Nat : fresh = <<Row("user", n, {})>>)
  <2>1. CASE loop.retry
    <3>1. fresh = <<>>
      BY <2>1
    <3>2. FreshFrom(<<>>, NextId)
      BY DEF FreshFrom
    <3>3. QED
      BY <3>1, <3>2, NoRows
  <2>2. CASE ~loop.retry
    <3>1. fresh = <<Row("user", NextId, {})>>
      BY <2>2
    <3>2. QED
      BY <1>3, <3>1, OneFresh
  <2>3. QED
    BY <2>1, <2>2
<1> HIDE DEF fresh
<1>5. Put(fresh)
  BY <1>1 DEF Put
<1>6. /\ view' \in Seq(Entries) /\ mem' \in Seq(Entries)
      /\ said' \in SUBSET Nat /\ IsFiniteSet(said')
      /\ RowsHold(view', said') /\ RowsHold(mem', said')
      /\ split = 0 => InRounds(view') /\ InRounds(mem')
  BY <1>1, <1>4, <1>5, PutKeeps
<1>7. Wire(mem) \in Seq(Entries)
  BY <1>2, WireIs
<1>8. Wire(mem) \o fresh \in Seq(Entries)
  BY <1>4, <1>7, Joined
<1>9. Len(mem) \in Nat /\ Len(mem) <= Len(mem')
  <2>1. Len(mem) \in Nat /\ Len(fresh) \in Nat /\ Len(mem \o fresh) = Len(mem) + Len(fresh)
    BY <1>2, <1>4, Joined
  <2>2. QED
    BY <1>1, <2>1
<1>10. /\ loop' \in Loops /\ loop'.n = loop.n /\ loop'.step = "round"
       /\ loop'.round = loop.round /\ loop'.stage = Wire(mem) \o fresh
       /\ loop'.start = Len(mem) /\ loop'.compacted = loop.compacted
  BY <1>1, <1>2, <1>8, <1>9 DEF Loops, LoopSteps
<1>11. SessionTypes'
  BY <1>1, <1>2, <1>6, <1>10 DEF SessionTypes
<1>12. SaidIsHeld'
  BY <1>6 DEF SaidIsHeld
<1>13. RoundsAreWhole'
  <2>1. split = 0 => InRounds(mem)
    BY <1>1 DEF SessionInv, RoundsAreWhole
  <2>2. split = 0 => InRounds(Wire(mem))
    BY <1>2, <2>1, WireInRounds
  <2>3. split = 0 => InRounds(Wire(mem) \o fresh)
    BY <1>4, <1>7, <2>2, RoundsJoin
  <2>4. QED
    BY <1>1, <1>6, <1>10, <2>3 DEF RoundsAreWhole
<1>14. ~(job["tool"].step = "asking" /\ job["tool"].turn = loop.n) /\ job["start"].step = "none"
  BY <1>1, StartIsFree DEF SessionInv, SummariesAreOwned
<1>15. SummariesAreOwned'
  BY <1>1, <1>10, <1>14 DEF SummariesAreOwned, SessionInv
<1>16. SpaceIsMade'
  <2>1. loop.compacted \/ Fits(mem)
    BY <1>1 DEF SessionInv, SpaceIsMade
  <2>2. /\ Weight(Wire(mem) \o fresh) <= Weight(mem) + 1
        /\ SubSeq(mem \o fresh, 1, Len(mem)) = mem
    BY <1>2, <1>4, FirstRequest
  <2>3. SubSeq(mem', 1, loop'.start) = mem
    BY <1>1, <1>10, <2>2
  <2>4. /\ loop'.compacted \/ Fits(SubSeq(mem', 1, loop'.start))
        /\ Weight(loop'.stage) <= Weight(SubSeq(mem', 1, loop'.start)) + 1
    BY <1>10, <2>1, <2>2, <2>3
  <2>5. QED
    BY <1>9, <1>10, <2>4 DEF SpaceIsMade, Fits, Cut
<1>17. RoundsAreCounted' /\ NoDeadZone'
  BY <1>10 DEF RoundsAreCounted, NoDeadZone
<1>18. QED
  BY <1>11, <1>12, <1>13, <1>15, <1>16, <1>17 DEF SessionInv

\* The limit of the context before the first request of a turn.
LEMMA LimitAtFirst ==
  ASSUME SessionInv, loop.step = "round", loop.round = 0,
         Estimate(Shrunk(loop.stage)) > Backstop,
         NEW new \in Seq(Entries)
  PROVE  LET found == SubSeq(mem \o new, 1, loop.start)
         IN  \/ loop.compacted
             \/ Omit(Body(found)) = 0
             \/ Weight(found) + 1 \in (Backstop - Signal + 1)..Backstop
<1> DEFINE found == SubSeq(mem, 1, loop.start)
<1>1. mem \in Seq(Entries) /\ loop.stage \in Seq(Entries) /\ loop.start \in Nat
  BY TypesAre
<1>2. /\ loop.start <= Len(mem)
      /\ loop.compacted \/ Fits(found)
      /\ Weight(loop.stage) <= Weight(found) + 1
  BY DEF SessionInv, SpaceIsMade
<1>3. Shrunk(loop.stage) \in Seq(Entries) /\ Weight(Shrunk(loop.stage)) <= Weight(loop.stage)
  BY <1>1, ShrunkIs
<1>4. Len(mem) \in Nat /\ loop.start \in 0..Len(mem)
  BY <1>1, <1>2, EntryIs
<1>5. found \in Seq(Entries)
  BY <1>1, <1>4, FirstRows
<1>6. SubSeq(mem \o new, 1, loop.start) = found
  BY <1>1, <1>4, FirstStay
<1> HIDE DEF found
<1>7. /\ Weight(Shrunk(loop.stage)) \in Nat /\ Weight(loop.stage) \in Nat
      /\ Weight(found) \in Nat /\ Backstop \in Nat /\ Signal \in Nat
  BY <1>1, <1>3, <1>5, WeightIs, SessionLoopAssumption
<1>8. Weight(Shrunk(loop.stage)) + Signal > Backstop
  BY DEF Estimate
<1>9. Weight(found) + 1 >= Backstop - Signal + 1
  BY <1>2, <1>3, <1>7, <1>8
<1>10. CASE loop.compacted
  BY <1>10
<1>11. CASE Fits(found)
  <2>1. CASE Weight(found) + 1 <= Backstop
    <3>1. Weight(found) + 1 \in (Backstop - Signal + 1)..Backstop
      BY <1>7, <1>9, <2>1
    <3>2. QED
      BY <1>6, <3>1
  <2>2. CASE Cut(found) = 0
    BY <1>6, <2>2 DEF Cut
  <2>3. QED
    BY <1>11, <2>1, <2>2 DEF Fits
<1>12. QED
  BY <1>2, <1>10, <1>11

\* The top of a round: the request goes out, or the turn is at the limit.
LEMMA AskKeeps ==
  ASSUME SessionInv, Ask
  PROVE  SessionInv'
<1> DEFINE sent == Shrunk(loop.stage)
           reply == <<Row("reply", NextId, {})>>
           end == [IdleLoop(loop.n) EXCEPT !.step = "limit", !.round = loop.round + 1,
                                           !.start = loop.start, !.compacted = loop.compacted]
           go == [loop EXCEPT !.step = "think", !.stage = sent, !.round = @ + 1]
<1>1. loop.step = "round" /\ UNCHANGED <<job, split>>
  BY DEF Ask
<1>2. /\ loop \in Loops /\ loop.n \in Nat /\ loop.round \in Nat /\ loop.stage \in Seq(Entries)
      /\ loop.start \in Nat
      /\ job \in [{"start", "tool"} -> Jobs] /\ split \in Nat
      /\ mem \in Seq(Entries) /\ view \in Seq(Entries)
      /\ said \in SUBSET Nat /\ IsFiniteSet(said) /\ RowsHold(view, said)
  BY TypesAre
<1>3. job["start"].step = "none"
  BY <1>1, StartIsFree
<1>4. job["tool"].step = "asking" => job["tool"].turn <= loop.n
  BY DEF SessionInv, SummariesAreOwned
<1>5. job["tool"].step = "asking" /\ job["tool"].turn = loop.n => loop.round >= 1
  BY <1>1 DEF SessionInv, SummariesAreOwned
<1>6. \A j \in {"start", "tool"} : job[j].step = "asking" => Cut(job[j].snap) # 0
  BY DEF SessionInv, SummariesAreOwned
<1>7. CASE Estimate(sent) > Backstop
  <2>1. Put(reply) /\ loop' = end
    BY <1>7 DEF Ask
  <2>2. /\ view' \in Seq(Entries) /\ mem' \in Seq(Entries)
        /\ said' \in SUBSET Nat /\ IsFiniteSet(said')
        /\ RowsHold(view', said') /\ RowsHold(mem', said')
        /\ split = 0 => InRounds(view') /\ InRounds(mem')
    BY <1>1, <2>1, ReplyIsPut
  <2>3. /\ loop' \in Loops /\ loop'.n = loop.n /\ loop'.step = "limit"
        /\ loop'.round = loop.round + 1 /\ loop'.start = loop.start
        /\ loop'.compacted = loop.compacted
    <3>1. PICK base \in Loops : base = IdleLoop(loop.n) /\ base.n = loop.n
      BY <1>2, IdleLoopIs
    <3>2. PICK r \in Nat : r = loop.round + 1
      BY <1>2
    <3>3. loop' = [base EXCEPT !.step = "limit", !.round = r, !.start = loop.start,
                               !.compacted = loop.compacted]
      BY <2>1, <3>1, <3>2
    <3>4. loop.compacted \in BOOLEAN
      BY <1>2 DEF Loops
    <3>5. /\ loop' \in Loops /\ loop'.n = base.n /\ loop'.step = "limit"
          /\ loop'.round = r /\ loop'.start = loop.start
      BY <1>2, <3>2, <3>3, <3>4 DEF Loops, LoopSteps
    <3>6. loop'.compacted = loop.compacted
      BY <3>1, <3>3, <3>4 DEF Loops
    <3>7. QED
      BY <3>1, <3>2, <3>5, <3>6
  <2>4. SessionTypes'
    BY <1>1, <1>2, <2>2, <2>3 DEF SessionTypes
  <2>5. SaidIsHeld' /\ RoundsAreWhole'
    BY <1>1, <2>2, <2>3 DEF SaidIsHeld, RoundsAreWhole
  <2>6. SummariesAreOwned'
    BY <1>1, <1>2, <1>3, <1>4, <1>5, <1>6, <2>3 DEF SummariesAreOwned
  <2>7. NoDeadZone'
    <3> DEFINE in(found) == \/ Omit(Body(found)) = 0
                            \/ Weight(found) + 1 \in (Backstop - Signal + 1)..Backstop
    <3>1. SUFFICES ASSUME loop'.round = 1
                   PROVE  loop'.compacted \/ in(SubSeq(mem', 1, loop'.start))
      BY <3>1 DEF NoDeadZone, Weight, Omit, Body
    <3>2. loop.round = 0
      BY <1>2, <2>3, <3>1
    <3>3. reply \in Seq(Entries)
      BY <1>2, NextIdIsNew, OneFresh
    <3>4. mem' = mem \o reply
      BY <2>1 DEF Put
    <3> HIDE DEF reply
    <3>5. loop.compacted \/ in(SubSeq(mem \o reply, 1, loop.start))
      BY <1>1, <1>7, <3>2, <3>3, LimitAtFirst
    <3> HIDE DEF in
    <3>6. QED
      BY <2>3, <3>4, <3>5
  <2>8. RoundsAreCounted' /\ SpaceIsMade'
    BY <2>3 DEF RoundsAreCounted, SpaceIsMade
  <2>9. QED
    BY <2>4, <2>5, <2>6, <2>7, <2>8 DEF SessionInv
<1>8. CASE ~(Estimate(sent) > Backstop)
  <2>1. UNCHANGED <<view, mem, said>> /\ loop' = go
    BY <1>8 DEF Ask
  <2>2. sent \in Seq(Entries) /\ (InRounds(loop.stage) => InRounds(sent))
    BY <1>2, ShrunkIs
  <2> HIDE DEF sent
  <2>3. /\ loop' \in Loops /\ loop'.n = loop.n /\ loop'.step = "think"
        /\ loop'.round = loop.round + 1 /\ loop'.stage = sent
    <3>1. PICK r \in Nat : r = loop.round + 1
      BY <1>2
    <3>2. loop' = [loop EXCEPT !.step = "think", !.stage = sent, !.round = r]
      BY <2>1, <3>1
    <3>3. /\ loop' \in Loops /\ loop'.n = loop.n /\ loop'.step = "think"
          /\ loop'.round = r /\ loop'.stage = sent
      BY <1>2, <2>2, <3>1, <3>2 DEF Loops, LoopSteps
    <3>4. QED
      BY <3>1, <3>3
  <2>4. SessionTypes'
    BY <1>1, <1>2, <2>1, <2>3 DEF SessionTypes
  <2>5. SaidIsHeld'
    BY <1>1, <2>1, <2>3 DEF SaidIsHeld, SessionInv
  <2>6. RoundsAreWhole'
    BY <1>1, <2>1, <2>2, <2>3 DEF RoundsAreWhole, SessionInv
  <2>7. SummariesAreOwned'
    BY <1>1, <1>2, <1>3, <1>4, <1>6, <2>3 DEF SummariesAreOwned
  <2>8. RoundsAreCounted' /\ SpaceIsMade' /\ NoDeadZone'
    BY <1>2, <2>3 DEF RoundsAreCounted, SpaceIsMade, NoDeadZone
  <2>9. QED
    BY <2>4, <2>5, <2>6, <2>7, <2>8 DEF SessionInv
<1>9. QED
  BY <1>7, <1>8

\* A failure mark moves no row.
LEMMA MarkKeeps ==
  ASSUME NEW list \in Seq(Entries), NEW S, RowsHold(list, S),
         NEW i \in DOMAIN list, NEW b \in BOOLEAN
  PROVE  /\ [list EXCEPT ![i].err = b] \in Seq(Entries)
         /\ RowsHold([list EXCEPT ![i].err = b], S)
         /\ InRounds(list) => InRounds([list EXCEPT ![i].err = b])
<1> DEFINE new == [list EXCEPT ![i].err = b]
<1>1. new \in Seq(Entries) /\ SameRows(list, new)
  BY ErrSet
<1> HIDE DEF new
<1>2. RowsHold(new, S)
  BY <1>1, RowsSame
<1>3. ASSUME InRounds(list)
      PROVE  InRounds(new)
  <2>1. DOMAIN new = DOMAIN list /\ \A k \in DOMAIN list : SameRole(new[k], list[k])
    BY <1>1 DEF SameRows, SameRole, IsResult
  <2>2. QED
    BY <1>1, <1>3, <2>1, RoundsStay
<1>4. QED
  BY <1>1, <1>2, <1>3 DEF new

\* A retry: the rows up to the user's last, which has no mark of failure.
LEMMA RetryKeeps ==
  ASSUME NEW list \in Seq(Entries), NEW S, RowsHold(list, S), LastUser(list) > 0
  PROVE  LET kept == SubSeq(list, 1, LastUser(list))
             new == [kept EXCEPT ![Len(kept)].err = FALSE]
         IN  /\ new \in Seq(Entries)
             /\ Ids(new) \cup Covered(new) \subseteq S
             /\ RowsHold(new, Ids(new) \cup Covered(new))
             /\ InRounds(list) => InRounds(new)
<1> DEFINE u == LastUser(list)
           kept == SubSeq(list, 1, u)
           left == Ids(kept) \cup Covered(kept)
           new == [kept EXCEPT ![Len(kept)].err = FALSE]
<1>1. u \in 0..Len(list) /\ u # 0
  BY LastUserIs
<1>2. u \in DOMAIN list /\ list[u].kind = "user"
  BY <1>1, LastUserIs
<1>3. kept \in Seq(Entries) /\ Len(kept) = u /\ DOMAIN kept = 1..u
  BY <1>1, FirstRows
<1>4. left \subseteq S /\ RowsHold(kept, left)
  BY <1>1, RowsCut
<1>5. InRounds(list) => InRounds(kept)
  <2>1. list[u].kind # "call" /\ ~IsResult(list[u])
    BY <1>2 DEF IsResult
  <2>2. QED
    BY <1>1, <2>1, FirstRounds
<1>6. Len(kept) \in DOMAIN kept
  BY <1>1, <1>3
<1> HIDE DEF kept, left
<1>7. new \in Seq(Entries) /\ RowsHold(new, left) /\ (InRounds(kept) => InRounds(new))
  BY <1>3, <1>4, <1>6, MarkKeeps
<1> HIDE DEF new
<1>8. left = Ids(new) \cup Covered(new)
  BY <1>7 DEF RowsHold
<1>9. QED
  BY <1>4, <1>5, <1>7, <1>8 DEF new, kept, u

\* A turn starts with the stored rows; a retry takes back the rows after the
\* last of the user.
LEMMA BeginLoopKeeps ==
  ASSUME SessionInv, NEW retry \in BOOLEAN, BeginLoop(retry)
  PROVE  SessionInv'
<1> DEFINE kept == SubSeq(view, 1, LastUser(view))
           new == [kept EXCEPT ![Len(kept)].err = FALSE]
<1>1. /\ loop.step = "idle" /\ job["start"] = NoJob
      /\ retry => LastUser(view) > 0
      /\ mem' = IF retry THEN new ELSE view
      /\ view' = mem'
      /\ said' = Ids(view') \cup Covered(view')
      /\ UNCHANGED <<job, split>>
  BY DEF BeginLoop, LeaseFree
<1>2. /\ loop.n \in Nat /\ view \in Seq(Entries) /\ split \in Nat
      /\ said \in SUBSET Nat /\ IsFiniteSet(said) /\ RowsHold(view, said)
      /\ job \in [{"start", "tool"} -> Jobs]
  BY TypesAre
<1>3. /\ view' \in Seq(Entries) /\ said' \subseteq said /\ RowsHold(view', said')
      /\ InRounds(view) => InRounds(view')
  <2>1. CASE retry
    <3>1. LastUser(view) > 0 /\ view' = new
      BY <1>1, <2>1
    <3>2. /\ new \in Seq(Entries) /\ Ids(new) \cup Covered(new) \subseteq said
          /\ RowsHold(new, Ids(new) \cup Covered(new))
          /\ InRounds(view) => InRounds(new)
      BY <1>2, <3>1, RetryKeeps
    <3> HIDE DEF new
    <3>3. QED
      BY <1>1, <3>1, <3>2
  <2>2. CASE ~retry
    <3>1. view' = view
      BY <1>1, <2>2
    <3>2. said = Ids(view) \cup Covered(view)
      BY <1>2 DEF RowsHold
    <3>3. said' = said
      BY <1>1, <3>1, <3>2
    <3>4. QED
      BY <1>2, <3>1, <3>3
  <2>3. QED
    BY <2>1, <2>2
<1> HIDE DEF new
<1>4. /\ loop' \in Loops /\ loop'.n = loop.n + 1 /\ loop'.step = "loaded" /\ loop'.round = 0
  <2>1. PICK base \in Loops : base = IdleLoop(loop.n + 1) /\ base.n = loop.n + 1 /\ base.round = 0
    BY <1>2, IdleLoopIs
  <2>2. loop' = [base EXCEPT !.step = "loaded", !.retry = retry]
    BY <2>1 DEF BeginLoop
  <2>3. QED
    BY <2>1, <2>2 DEF Loops, LoopSteps
<1>5. said' \in SUBSET Nat /\ IsFiniteSet(said')
  BY <1>2, <1>3, FS_Subset
<1>6. SessionTypes'
  BY <1>1, <1>2, <1>3, <1>4, <1>5 DEF SessionTypes
<1>7. SaidIsHeld'
  BY <1>1, <1>3 DEF SaidIsHeld
<1>8. RoundsAreWhole'
  <2>1. split = 0 => InRounds(view)
    BY DEF SessionInv, RoundsAreWhole
  <2>2. QED
    BY <1>1, <1>3, <1>4, <2>1 DEF RoundsAreWhole
<1>9. SummariesAreOwned'
  <2>1. job["start"].step = "none"
    BY <1>1, NoJobIs
  <2>2. job["tool"].turn \in Nat
    BY TypesAre
  <2>3. job["tool"].step = "asking" => job["tool"].turn <= loop.n
    BY DEF SessionInv, SummariesAreOwned
  <2>4. job["tool"].step = "asking" => job["tool"].turn <= loop'.n /\ job["tool"].turn # loop'.n
    BY <1>2, <1>4, <2>2, <2>3
  <2>5. \A j \in {"start", "tool"} : job[j].step = "asking" => Cut(job[j].snap) # 0
    BY DEF SessionInv, SummariesAreOwned
  <2>6. QED
    BY <1>1, <1>4, <2>1, <2>4, <2>5 DEF SummariesAreOwned
<1>10. RoundsAreCounted' /\ SpaceIsMade' /\ NoDeadZone'
  BY <1>4 DEF RoundsAreCounted, SpaceIsMade, NoDeadZone
<1>11. QED
  BY <1>6, <1>7, <1>8, <1>9, <1>10 DEF SessionInv

\* The provider fails: the user's row is marked, in the stored rows as well.
LEMMA LoopRaisesKeeps ==
  ASSUME SessionInv, LoopRaises
  PROVE  SessionInv'
<1>1. /\ loop.step = "think" /\ LastUser(mem) > 0
      /\ view' = [mem EXCEPT ![LastUser(mem)].err = TRUE] /\ mem' = view'
      /\ loop' = IdleLoop(loop.n) /\ UNCHANGED <<job, split, said>>
  BY DEF LoopRaises
<1>2. /\ mem \in Seq(Entries) /\ split \in Nat /\ said \in SUBSET Nat /\ IsFiniteSet(said)
      /\ job \in [{"start", "tool"} -> Jobs]
  BY TypesAre
<1>3. RowsHold(mem, said) /\ (split = 0 => InRounds(mem))
  BY <1>1 DEF SessionInv, SaidIsHeld, RoundsAreWhole
<1>4. LastUser(mem) \in DOMAIN mem
  BY <1>1, <1>2, LastUserIs
<1>5. view' \in Seq(Entries) /\ RowsHold(view', said) /\ (InRounds(mem) => InRounds(view'))
  BY <1>1, <1>2, <1>3, <1>4, MarkKeeps
<1>6. job["start"].step = "none"
  BY <1>1, StartIsFree
<1>7. split' \in Nat /\ mem' \in Seq(Entries) /\ said' \in SUBSET Nat /\ IsFiniteSet(said')
      /\ RowsHold(view', said') /\ (split' = 0 => InRounds(view'))
      /\ job' = job
  BY <1>1, <1>2, <1>3, <1>5
<1>8. QED
  BY <1>1, <1>2, <1>5, <1>6, <1>7, EndKeeps

\* Between turns the transcript is compacted by the rule.
LEMMA SweepKeeps ==
  ASSUME SessionInv, Sweep
  PROVE  SessionInv'
<1>1. loop.step = "idle" /\ view' = Rendered(view) /\ UNCHANGED <<mem, loop, job, split, said>>
  BY DEF Sweep, LeaseFree
<1>2. view \in Seq(Entries) /\ RowsHold(view, said) /\ (split = 0 => InRounds(view))
  BY TypesAre DEF SessionInv, RoundsAreWhole
<1>3. view' \in Seq(Entries) /\ RowsHold(view', said)
  BY <1>1, <1>2, RowsRendered
<1>4. split = 0 => InRounds(view')
  BY <1>1, <1>2, RoundsRendered
<1>5. SessionTypes' /\ SaidIsHeld' /\ RoundsAreWhole'
  BY <1>1, <1>3, <1>4 DEF SessionInv, SessionTypes, SaidIsHeld, RoundsAreWhole
<1>6. SummariesAreOwned'
  BY <1>1 DEF SummariesAreOwned, SessionInv
<1>7. RoundsAreCounted' /\ SpaceIsMade' /\ NoDeadZone'
  BY <1>1 DEF RoundsAreCounted, SpaceIsMade, NoDeadZone
<1>8. QED
  BY <1>5, <1>6, <1>7 DEF SessionInv

\* The user asks for a compaction between turns.
LEMMA CompactManuallyKeeps ==
  ASSUME SessionInv, CompactManually
  PROVE  SessionInv'
<1> DEFINE new == [step |-> "asking", snap |-> view, turn |-> 0, force |-> TRUE]
<1>1. /\ loop.step = "idle" /\ Due(view, TRUE) /\ job' = [job EXCEPT !["start"] = new]
      /\ UNCHANGED <<view, mem, loop, split, said>>
  BY DEF CompactManually, LeaseFree
<1>2. view \in Seq(Entries) /\ job \in [{"start", "tool"} -> Jobs]
  BY TypesAre
<1>3. new \in Jobs /\ new.step = "asking" /\ new.snap = view /\ new.turn = 0
  BY <1>2, JobIs
<1>4. Cut(view) # 0
  BY <1>1, <1>2, DueCuts
<1> HIDE DEF new
<1>5. job' \in [{"start", "tool"} -> Jobs] /\ job'["start"] = new /\ job'["tool"] = job["tool"]
  BY <1>1, <1>2, <1>3
<1>6. SessionTypes'
  BY <1>1, <1>5 DEF SessionTypes, SessionInv
<1>7. SaidIsHeld' /\ RoundsAreWhole' /\ RoundsAreCounted' /\ SpaceIsMade' /\ NoDeadZone'
  BY <1>1 DEF SaidIsHeld, RoundsAreWhole, RoundsAreCounted, SpaceIsMade, NoDeadZone, SessionInv
<1>8. SummariesAreOwned'
  BY <1>1, <1>3, <1>4, <1>5 DEF SummariesAreOwned, SessionInv
<1>9. QED
  BY <1>6, <1>7, <1>8 DEF SessionInv

-----------------------------------------------------------------------------
(* Summaries                                                               *)

\* What a transcript becomes when a summary is back, or failed.
LEMMA LandedIs ==
  ASSUME NEW list \in Seq(Entries), NEW S, RowsHold(list, S)
  PROVE  LET new == Append(Rendered(list), Row("side", 0, {}))
         IN  /\ new \in Seq(Entries) /\ RowsHold(new, S)
             /\ InRounds(list) => InRounds(new)
<1> DEFINE new == Append(Rendered(list), Row("side", 0, {}))
<1>1. Rendered(list) \in Seq(Entries) /\ RowsHold(Rendered(list), S)
  BY RowsRendered
<1>2. new \in Seq(Entries) /\ RowsHold(new, S)
  BY <1>1, CostAppended
<1>3. ASSUME InRounds(list)
      PROVE  InRounds(new)
  <2>1. InRounds(Rendered(list))
    BY <1>3, RoundsRendered
  <2>2. QED
    BY <1>1, <2>1, RoundsCost
<1>4. QED
  BY <1>2, <1>3

\* What it becomes by the rule, when there is no summary.
LEMMA CompactedIs ==
  ASSUME NEW list \in Seq(Entries), NEW S, RowsHold(list, S), NEW force
  PROVE  /\ Compacted(list, force) \in Seq(Entries) /\ RowsHold(Compacted(list, force), S)
         /\ InRounds(list) => InRounds(Compacted(list, force))
         /\ Compacted(list, force) = list => Fits(list)
<1>1. CASE Due(list, force)
  <2>1. Compacted(list, force) = Rendered(list)
    BY <1>1 DEF Compacted
  <2>2. Rendered(list) \in Seq(Entries) /\ RowsHold(Rendered(list), S)
    BY RowsRendered
  <2>3. InRounds(list) => InRounds(Rendered(list))
    BY RoundsRendered
  <2>4. Cut(list) # 0
    BY <1>1, DueCuts
  <2>5. Rendered(list) # list
    BY <2>4, CompactionChanges
  <2>6. QED
    BY <2>1, <2>2, <2>3, <2>5
<1>2. CASE ~Due(list, force)
  <2>1. Compacted(list, force) = list
    BY <1>2 DEF Compacted
  <2>2. Fits(list)
    BY <1>2, NotDueFits
  <2>3. QED
    BY <2>1, <2>2
<1>3. QED
  BY <1>1, <1>2

\* A summary is back, or failed: it lands on the rows it was made of, or the
\* rule compacts whatever is there now; the turn that owns it takes the rows.
LEMMA SummaryBackKeeps ==
  ASSUME SessionInv, NEW j \in {"start", "tool"}, NEW ok \in BOOLEAN, SummaryBack(j, ok)
  PROVE  SessionInv'
<1> DEFINE landed == ok /\ StillMatches(job[j].snap)
           list == IF landed THEN Append(Rendered(job[j].snap), Row("side", 0, {}))
                             ELSE Compacted(view, job[j].force)
           mine == loop.step # "idle" /\ job[j].turn = loop.n
           changed == landed \/ list # view
<1>1. /\ job[j].step = "asking" /\ loop.step \notin {"ready", "round"}
      /\ view' = list /\ mem' = IF mine THEN list ELSE mem
      /\ job' = [job EXCEPT ![j] = NoJob]
      /\ loop' = IF j = "start" /\ mine
                 THEN [loop EXCEPT !.step = "ready", !.compacted = changed]
                 ELSE loop
      /\ UNCHANGED <<split, said>>
  BY DEF SummaryBack, Yielding
<1>2. /\ loop \in Loops /\ loop.n \in Nat /\ loop.round \in Nat
      /\ job \in [{"start", "tool"} -> Jobs]
      /\ view \in Seq(Entries) /\ mem \in Seq(Entries)
      /\ split \in Nat /\ said \in SUBSET Nat /\ IsFiniteSet(said) /\ RowsHold(view, said)
  BY TypesAre
<1>3. /\ list \in Seq(Entries) /\ RowsHold(list, said)
      /\ InRounds(view) => InRounds(list)
      /\ ~changed => list = view /\ Fits(view)
      /\ changed \in BOOLEAN
  <2>1. CASE landed
    <3>1. job[j].snap = view
      BY <2>1 DEF StillMatches
    <3> DEFINE new == Append(Rendered(view), Row("side", 0, {}))
    <3>2. list = new
      BY <2>1, <3>1
    <3>3. /\ new \in Seq(Entries) /\ RowsHold(new, said)
          /\ InRounds(view) => InRounds(new)
      BY <1>2, LandedIs
    <3>4. changed
      BY <2>1
    <3> HIDE DEF new, list
    <3>5. QED
      BY <2>1, <3>2, <3>3, <3>4
  <2>2. CASE ~landed
    <3>1. list = Compacted(view, job[j].force)
      BY <2>2
    <3>2. /\ Compacted(view, job[j].force) \in Seq(Entries)
          /\ RowsHold(Compacted(view, job[j].force), said)
          /\ InRounds(view) => InRounds(Compacted(view, job[j].force))
          /\ Compacted(view, job[j].force) = view => Fits(view)
      BY <1>2, CompactedIs
    <3>3. QED
      BY <3>1, <3>2
  <2>3. QED
    BY <2>1, <2>2
<1> HIDE DEF landed, list, changed
<1>4. /\ job' \in [{"start", "tool"} -> Jobs] /\ job'[j].step = "none"
      /\ \A i \in {"start", "tool"} : i # j => job'[i] = job[i]
      /\ job'[j] = NoJob
  BY <1>1, <1>2, NoJobIs
<1>5. split = 0 => InRounds(view')
  BY <1>1, <1>3 DEF SessionInv, RoundsAreWhole
<1>6. CASE j = "start" /\ mine
  <2>1. loop' = [loop EXCEPT !.step = "ready", !.compacted = changed] /\ mem' = list
    BY <1>1, <1>6
  <2>2. changed \in BOOLEAN
    BY <1>3
  <2>3. /\ loop' \in Loops /\ loop'.n = loop.n /\ loop'.step = "ready"
        /\ loop'.round = loop.round
    BY <1>2, <2>1, <2>2 DEF Loops, LoopSteps
  <2>4. loop.step = "compacting"
    BY <1>1, <1>6 DEF SessionInv, SummariesAreOwned
  <2>5. SessionTypes'
    BY <1>1, <1>2, <1>3, <1>4, <2>1, <2>3 DEF SessionTypes
  <2>6. SaidIsHeld'
    BY <1>1, <1>3, <2>1 DEF SaidIsHeld
  <2>7. RoundsAreWhole'
    BY <1>1, <1>5, <2>1, <2>3 DEF RoundsAreWhole
  <2>8. SummariesAreOwned'
    BY <1>4, <1>6, <2>3, <2>4 DEF SummariesAreOwned, SessionInv
  <2>9. loop'.compacted \/ Fits(mem')
    <3>1. loop'.compacted = changed
      BY <1>2, <2>1, <2>2 DEF Loops
    <3>2. QED
      BY <1>3, <2>1, <3>1
  <2>10. SpaceIsMade'
    BY <2>3, <2>9 DEF SpaceIsMade
  <2>11. RoundsAreCounted' /\ NoDeadZone'
    BY <2>3, <2>4 DEF SessionInv, RoundsAreCounted, NoDeadZone
  <2>12. QED
    BY <2>5, <2>6, <2>7, <2>8, <2>10, <2>11 DEF SessionInv
<1>7. CASE ~(j = "start" /\ mine)
  <2>1. loop' = loop
    BY <1>1, <1>7
  <2>2. mem' \in Seq(Entries)
    BY <1>1, <1>2, <1>3
  <2>3. SessionTypes'
    BY <1>1, <1>2, <1>3, <1>4, <2>1, <2>2 DEF SessionTypes
  <2>4. SaidIsHeld'
    BY <1>1, <1>3, <2>1 DEF SaidIsHeld, SessionInv
  <2>5. RoundsAreWhole'
    BY <1>1, <1>3, <1>5, <2>1 DEF RoundsAreWhole, SessionInv
  <2>6. SummariesAreOwned'
    <3>1. CASE j = "start"
      <4>1. loop.step # "compacting"
        BY <1>7, <3>1 DEF SessionInv, SummariesAreOwned
      <4>2. QED
        BY <1>4, <2>1, <3>1, <4>1 DEF SessionInv, SummariesAreOwned
    <3>2. CASE j = "tool"
      BY <1>4, <2>1, <3>2 DEF SessionInv, SummariesAreOwned
    <3>3. QED
      BY <3>1, <3>2
  <2>7. SpaceIsMade'
    BY <1>1, <2>1 DEF SpaceIsMade
  <2>8. NoDeadZone'
    <3>1. CASE mine
      <4>1. j = "tool"
        BY <1>7, <3>1
      <4>2. loop.step = "limit" => loop.round >= 2
        BY <1>1, <3>1, <4>1 DEF SessionInv, SummariesAreOwned
      <4>3. ~(loop.step = "limit" /\ loop.round = 1)
        BY <1>2, <4>2
      <4>4. QED
        BY <2>1, <4>3 DEF NoDeadZone
    <3>2. CASE ~mine
      <4>1. mem' = mem
        BY <1>1, <3>2
      <4>2. QED
        BY <2>1, <4>1 DEF SessionInv, NoDeadZone
    <3>3. QED
      BY <3>1, <3>2
  <2>9. RoundsAreCounted'
    BY <2>1 DEF RoundsAreCounted, SessionInv
  <2>10. QED
    BY <2>3, <2>4, <2>5, <2>6, <2>7, <2>8, <2>9 DEF SessionInv
<1>8. QED
  BY <1>6, <1>7

\* A step that changes nothing.
LEMMA SessionStutters ==
  ASSUME SessionInv, UNCHANGED sessionVars
  PROVE  SessionInv'
<1>1. UNCHANGED <<view, mem, loop, job, asked, split, said>>
  BY DEF sessionVars
<1>2. QED
  BY <1>1 DEF SessionInv, SessionTypes, SaidIsHeld, RoundsAreWhole, SummariesAreOwned,
              RoundsAreCounted, SpaceIsMade, NoDeadZone

\* Every step keeps the invariant.
LEMMA SessionStepKeeps ==
  ASSUME SessionInv, SessionNext
  PROVE  SessionInv'
<1>1. DOMAIN job = {"start", "tool"}
  <2>1. job \in [{"start", "tool"} -> Jobs]
    BY TypesAre
  <2>2. QED
    BY <2>1
<1>2. CASE \E retry \in BOOLEAN : BeginLoop(retry)
  BY <1>2, BeginLoopKeeps
<1>3. CASE PreCompact \/ Assemble \/ Ask
  BY <1>3, PreCompactKeeps, AssembleKeeps, AskKeeps
<1>4. CASE Answered \/ Observe
  BY <1>4, AnsweredKeeps, ObserveKeeps
<1>5. CASE \E calls \in SUBSET ToSet(CallSeq) : CallTools(calls)
  BY <1>5, CallToolsKeeps
<1>6. CASE CallCompact
  BY <1>6, CallCompactKeeps
<1>7. CASE \E j \in DOMAIN job, ok \in BOOLEAN : SummaryBack(j, ok)
  BY <1>1, <1>7, SummaryBackKeeps
<1>8. CASE LoopRaises \/ CancelLoop \/ EndAtLimit
  BY <1>8, LoopRaisesKeeps, CancelLoopKeeps, EndAtLimitKeeps
<1>9. CASE CrashLoop \/ CrashInObserve
  BY <1>9, CrashLoopKeeps, CrashInObserveKeeps
<1>10. CASE Sweep \/ CompactManually
  BY <1>10, SweepKeeps, CompactManuallyKeeps
<1>11. QED
  BY <1>2, <1>3, <1>4, <1>5, <1>6, <1>7, <1>8, <1>9, <1>10 DEF SessionNext

\* Compactions, retries, failures and crashes forget and repeat no row; until a
\* crash cuts a round, every request pairs calls with results, and a turn that is
\* too long for its first request has compacted, unless nothing may go or the
\* budget signal alone took it over (agents/loop.py, core/context.py).
THEOREM SessionsAreSafe == SessionSpec => []SessionSafe
<1>1. SessionInit => SessionInv
  BY SessionStarts
<1>2. SessionInv /\ [SessionNext]_sessionVars => SessionInv'
  BY SessionStepKeeps, SessionStutters
<1>3. SessionInv => SessionSafe
  BY SessionInvIsEnough
<1>4. QED
  BY <1>1, <1>2, <1>3, PTL DEF SessionSpec

=============================================================================

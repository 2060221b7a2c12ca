------------------------------- MODULE BotBus -------------------------------
(***************************************************************************)
(* Mail between bots: the mailbox bus, the delivery of an envelope as a    *)
(* turn of its recipient, and the rows both leave in a room.               *)
(*                                                                         *)
(* All of it runs on one event loop: what happens between two awaits is    *)
(* one action, and bus.take, which empties and refills a mailbox without   *)
(* the lock, is never met half-way.  What interleaves are the turns: the   *)
(* recipient may begin a turn of its own, and read its mailbox, while the  *)
(* delivery of an envelope is queued for its lease.                        *)
(*                                                                         *)
(* An envelope is its position in mail.  The cycle test of the lease is    *)
(* in WorkspaceLease; here a delivery may be refused at any time before    *)
(* it is granted (a cycle, a bot that is paused or gone).                  *)
(***************************************************************************)
EXTENDS Naturals, Sequences, SequencesExt, FiniteSets, Positions

CONSTANTS
    Bots,
    Rooms,
    Thyca,        \* the bot that may delegate into another room
    NoBot,
    Dm,           \* Dm[r]: the bot whose fixed DM r is, NoBot for a room
    MaxSends,     \* bound: envelopes sent
    MaxHops,      \* MAX_HOPS: envelopes on one trace
    LogMax,       \* the 500 events that the bus log keeps
    MaxArtifacts  \* MAX_ARTIFACTS: full bodies that are kept

ASSUME BotBusAssumption ==
    /\ Thyca \in Bots /\ NoBot \notin Bots
    /\ Dm \in [Rooms -> Bots \cup {NoBot}]
    /\ {MaxSends, MaxHops, LogMax, MaxArtifacts} \subseteq Nat \ {0}

VARIABLES
    mail,       \* every envelope sent, in order
    box,        \* box[b]: the mailbox of b, oldest first
    log,        \* the bus log: envelopes not yet recorded in their room
    stage,      \* stage[n]: how far the delivery of n has come
    turn,       \* turn[b]: the turn that holds the lease of b
    members,    \* members[r]: the participants of r
    rows,       \* rows[r]: the bus and result rows of r
    handled,    \* history: handled[n], the turns that were given n, by kind
    trimmed     \* history: envelopes the log dropped before they were rows

busVars == <<mail, box, log, stage, turn, members, rows, handled, trimmed>>

Sends == 1..MaxSends
Idle == [room |-> NoBot, step |-> "idle", text |-> 0, batch |-> {},
         trace |-> 0, loaded |-> FALSE]

BusInit ==
    /\ mail = <<>>
    /\ box = [b \in Bots |-> <<>>]
    /\ log = <<>>
    /\ stage = [n \in Sends |-> "unsent"]
    /\ turn = [b \in Bots |-> Idle]
    /\ members \in [Rooms -> SUBSET Bots]
    /\ \A r \in Rooms : IF Dm[r] \in Bots THEN members[r] = {Dm[r]}
                                          ELSE members[r] # {}
    /\ rows = [r \in Rooms |-> <<>>]
    /\ handled = [n \in Sends |-> [text |-> 0, mailbox |-> 0]]
    /\ trimmed = {}

-----------------------------------------------------------------------------
(* Operators.                                                              *)

Keep(s, max) == IF Len(s) > max THEN SubSeq(s, Len(s) - max + 1, Len(s)) ELSE s

\* MemoryView.can_read_origin, for a turn of b in room r: a group reads what
\* all of its members could read in the room it came from, and no DM.
CanReadOrigin(b, r, origin) ==
    \/ origin = r
    \/ Dm[r] = NoBot /\ Dm[origin] = NoBot /\ members[r] \subseteq members[origin]
    \/ Dm[r] # NoBot /\ IF Dm[origin] # NoBot THEN Dm[origin] = b
                                              ELSE b \in members[origin]

\* Both rows of an exchange show in a room, or in the DM of one of the two.
Shown(n, r) == Dm[r] \in {NoBot, mail[n].sender, mail[n].to}

\* record_bus_events: drain_log(room), one row per event that may show there.
BusRows(r) ==
    LET fresh == KeptAt(log, {i \in DOMAIN log : mail[log[i]].room = r /\ Shown(log[i], r)})
    IN [i \in DOMAIN fresh |-> [kind |-> "bus", n |-> fresh[i]]]
\* MUTANT of LogWithout: the log keeps what was recorded.
LogKeepsAll(r) == log
LogWithout(r) == KeptAt(log, {i \in DOMAIN log : mail[log[i]].room # r})

\* What stays of a mailbox when ns leaves it.
Without(s, ns) == KeptAt(s, {i \in DOMAIN s : s[i] \notin ns})
\* MUTANT of Take: the delivery leaves its envelope in the mailbox.
TakeNothing(n) == box
\* bus.take: one envelope leaves the mailbox, the others stay in order.
Take(n) == [box EXCEPT ![mail[n].to] = Without(@, {n})]

\* drain and drain_matching: those in ns leave it.
Drained(b, ns) == [box EXCEPT ![b] = Without(@, ns)]
\* _promote_participant: a delivery into a group makes the recipient a member.
Promoted(b, r) == IF Dm[r] = NoBot THEN [members EXCEPT ![r] = @ \cup {b}] ELSE members

\* exchange_rows: a bus row knows its pair, a result row needs the bus row.
ExchangeRows(rs) ==
    {x \in ToSet(rs) : x.kind = "bus" \/ \E y \in ToSet(rs) : y.kind = "bus" /\ y.n = x.n}
\* pair_thread: what the rooms hold between two bots, in either direction.
PairThread(a, b) ==
    UNION {{x \in ExchangeRows(rows[r]) :
               {mail[x.n].sender, mail[x.n].to} = {a, b}} : r \in Rooms}

\* The full bodies that are kept, the oldest evicted first (every payload is
\* taken to be longer than its excerpt), and get_for: one is handed to its two
\* parties only.
Artifacts == Keep([n \in DOMAIN mail |-> n], MaxArtifacts)
Fetch(caller, n) == n \in ToSet(Artifacts) /\ caller \in {mail[n].sender, mail[n].to}

-----------------------------------------------------------------------------
(* Turns and envelopes.                                                    *)

\* A user's message, a schedule: b gets its lease and sets its turn up.
BeginTurn(b, r) ==
    /\ turn[b] = Idle
    /\ b \in members[r]
    /\ turn' = [turn EXCEPT ![b] = [Idle EXCEPT !.room = r, !.step = "setup"]]
    /\ UNCHANGED <<mail, box, log, stage, members, rows, handled, trimmed>>

\* _prepend_mailbox: the batch that the turn will read leaves the mailbox.
FreezeMailbox(b) ==
    LET readable == {n \in ToSet(box[b]) : CanReadOrigin(b, turn[b].room, mail[n].room)}
    IN /\ turn[b].step = "setup"
       /\ box' = Drained(b, readable)
       /\ turn' = [turn EXCEPT ![b].step = "run", ![b].batch = readable]
       /\ handled' = [n \in Sends |-> IF n \in readable
                                      THEN [handled[n] EXCEPT !.mailbox = @ + 1]
                                      ELSE handled[n]]
       /\ UNCHANGED <<mail, log, stage, members, rows, trimmed>>

\* bot_send and bot_delegate: only the latter names another room.  A send
\* over the hop limit or to oneself is refused and changes nothing.
Send(b, to, r) ==
    LET n == Len(mail) + 1
        t == IF turn[b].trace = 0 THEN n ELSE turn[b].trace
        hops == Cardinality({m \in DOMAIN mail : mail[m].trace = t})
    IN /\ turn[b].step = "run"
       /\ to # b
       /\ r = turn[b].room \/ b = Thyca
       /\ n <= MaxSends
       /\ hops < MaxHops
       /\ mail' = Append(mail, [sender |-> b, to |-> to, room |-> r,
                                trace |-> t])
       /\ box' = [box EXCEPT ![to] = Append(@, n)]
       /\ log' = Keep(Append(log, n), LogMax)
       /\ trimmed' = trimmed \cup (ToSet(Append(log, n)) \ ToSet(log'))
       /\ stage' = [stage EXCEPT ![n] = "wait"]
       /\ turn' = [turn EXCEPT ![b].trace = t]
       /\ UNCHANGED <<members, rows, handled>>

\* MUTANT of Refuse: the sender stops waiting, and the recipient works on.
RefuseLate(n) ==
    /\ stage[n] \in {"wait", "run"}
    /\ stage' = [stage EXCEPT ![n] = "failed"]
    /\ UNCHANGED <<mail, box, log, turn, members, rows, handled, trimmed>>
\* The lease closes a cycle, or the bot is paused or gone when it is granted:
\* the sender reads "delivery failed" and the envelope stays in the mailbox.
Refuse(n) ==
    /\ stage[n] = "wait"
    /\ stage' = [stage EXCEPT ![n] = "failed"]
    /\ UNCHANGED <<mail, box, log, turn, members, rows, handled, trimmed>>

\* deliver_envelope_claimed up to the recipient's turn; loaded is false when
\* the room cannot be read, and then the delivery leaves no row.
Deliver(n, loaded) ==
    LET b == mail[n].to  r == mail[n].room
    IN /\ stage[n] = "wait"
       /\ turn[b] = Idle
       /\ stage' = [stage EXCEPT ![n] = "run"]
       /\ box' = Take(n)
       /\ members' = IF loaded THEN Promoted(b, r) ELSE members
       /\ rows' = IF loaded THEN [rows EXCEPT ![r] = @ \o BusRows(r)] ELSE rows
       /\ log' = IF loaded THEN LogWithout(r) ELSE log
       /\ turn' = [turn EXCEPT ![b] = [room |-> r, step |-> "setup", text |-> n,
                     batch |-> {}, trace |-> mail[n].trace, loaded |-> loaded]]
       /\ handled' = [handled EXCEPT ![n].text = @ + 1]
       /\ UNCHANGED <<mail, trimmed>>

\* The turn of b raises, in its setup or later: a delivery reports it.
TurnFails(b) ==
    /\ turn[b] # Idle
    /\ turn' = [turn EXCEPT ![b] = Idle]
    /\ stage' = [n \in Sends |-> IF n = turn[b].text THEN "failed" ELSE stage[n]]
    /\ UNCHANGED <<mail, box, log, members, rows, handled, trimmed>>

\* The delivered turn ends: its reply is a result row and the sender's answer.
FinishDelivery(b) ==
    LET n == turn[b].text  r == turn[b].room
    IN /\ turn[b].step = "run"
       /\ n # 0
       /\ rows' = IF turn[b].loaded /\ Shown(n, r)
                  THEN [rows EXCEPT ![r] = Append(@, [kind |-> "result", n |-> n])]
                  ELSE rows
       /\ stage' = [stage EXCEPT ![n] = "answered"]
       /\ turn' = [turn EXCEPT ![b] = Idle]
       /\ UNCHANGED <<mail, box, log, members, handled, trimmed>>

\* The end of _run_bot_turn: fresh bus events of the room, then the reply.
FinishTurn(b) ==
    LET r == turn[b].room
    IN /\ turn[b].step = "run"
       /\ turn[b].text = 0
       /\ rows' = [rows EXCEPT ![r] = @ \o BusRows(r)]
       /\ log' = LogWithout(r)
       /\ turn' = [turn EXCEPT ![b] = Idle]
       /\ UNCHANGED <<mail, box, stage, members, handled, trimmed>>

\* bot_stop: the mailbox is emptied.
Stop(b) ==
    /\ box[b] # <<>>
    /\ box' = Drained(b, ToSet(box[b]))
    /\ UNCHANGED <<mail, log, stage, turn, members, rows, handled, trimmed>>

BusNext ==
    \/ \E b \in Bots, r \in Rooms : BeginTurn(b, r)
    \/ \E b \in Bots : FreezeMailbox(b)
    \/ \E b, to \in Bots, r \in Rooms : Send(b, to, r)
    \/ \E n \in Sends : Refuse(n)
    \/ \E n \in DOMAIN mail, loaded \in BOOLEAN : Deliver(n, loaded)
    \/ \E b \in Bots : TurnFails(b)
    \/ \E b \in Bots : FinishDelivery(b)
    \/ \E b \in Bots : FinishTurn(b)
    \/ \E b \in Bots : Stop(b)

BusSpec == BusInit /\ [][BusNext]_busVars

-----------------------------------------------------------------------------
(* Properties.                                                             *)

\* An envelope is delivered as the text of one turn and read as mailbox
\* context of one turn, at the most, and never both in the same turn: the
\* delivery takes the queued copy before its turn reads the mailbox.  (Both,
\* in two turns, does happen: a turn of the recipient may read the mailbox
\* while the delivery is queued for the lease.)
HandledOnce ==
    /\ \A n \in Sends : handled[n].text <= 1 /\ handled[n].mailbox <= 1
    /\ \A b \in Bots : turn[b].text \notin turn[b].batch

\* Mailboxes are first in, first out, and hold no envelope that was the text
\* of a turn.
MailboxInOrder ==
    \A b \in Bots :
        /\ \A i, j \in DOMAIN box[b] : i < j => box[b][i] < box[b][j]
        /\ \A n \in ToSet(box[b]) : mail[n].to = b /\ handled[n].text = 0

\* A room shows each envelope once and in the order sent, and an answer only
\* with the envelope it answers, so that the pair can be shown as a thread;
\* the envelope is missing only if the bounded log had dropped it.
ThreadIsWhole ==
    \A r \in Rooms : LET rs == rows[r] IN
        /\ \A i, j \in DOMAIN rs :
              i < j /\ rs[i].kind = "bus" /\ rs[j].kind = "bus" => rs[i].n < rs[j].n
        /\ \A i \in DOMAIN rs : rs[i].kind = "result" =>
              \/ \E j \in 1..(i - 1) : rs[j] = [kind |-> "bus", n |-> rs[i].n]
              \/ rs[i].n \in trimmed
        /\ \A x \in ToSet(rs) : x.n \notin trimmed =>
              x \in PairThread(mail[x.n].sender, mail[x.n].to)

\* What a bot reads and what a DM shows stay within the DM's rule: a turn in
\* a group reads no mail that was sent from a DM, and a DM shows no exchange
\* that its owner is not part of.
DmIsPrivate ==
    /\ \A b \in Bots, n \in Sends :
          n \in turn[b].batch /\ Dm[turn[b].room] = NoBot => Dm[mail[n].room] = NoBot
    /\ \A r \in Rooms : Dm[r] # NoBot =>
          \A x \in ToSet(rows[r]) : Dm[r] \in {mail[x.n].sender, mail[x.n].to}

\* The mail is safe: an envelope is handled once and in order, each room shows
\* whole exchanges, and what a DM says stays within its rule (bots/bus.py,
\* app/a2a_delivery).
BusSafe == HandledOnce /\ MailboxInOrder /\ ThreadIsWhole /\ DmIsPrivate
=============================================================================

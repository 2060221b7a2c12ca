------------------------- MODULE PrivateFollowupProofs -------------------------
(***************************************************************************)
(* The safety of the private follow-ups, for any number of processes, any    *)
(* texts and any bounds.                                                     *)
(*                                                                          *)
(* Every step leaves the file alone, adds one pending when none is active,   *)
(* or changes one pending that is not at an end (FileStep), and what it may  *)
(* make of that pending is said once (Lawful).  The text that is posted is   *)
(* the one approved because a card, or a call that is about to post one,     *)
(* shows what the file proposes as long as the revision is the same (Shown): *)
(* a later proposal has another revision, and a text that is withdrawn does  *)
(* not come back under the old one.                                          *)
(***************************************************************************)
EXTENDS PrivateFollowup, TLAPS

-----------------------------------------------------------------------------
(* The inductive invariant                                                 *)

Asked == {"waiting_private", "received", "resumed", "done"}

\* What a card, or a call, says of a revision is what the file says of it.
Shown(i, revision, text) ==
  /\ i \in DOMAIN file
  /\ revision >= 1
  /\ revision <= file[i].revision
  /\ revision = file[i].revision /\ file[i].proposed # NoText
       => file[i].proposed = text

\* What a call knows before its next step.
Good(c) ==
  /\ c.step \notin {"idle", "consume"} => c.pending \in DOMAIN file
  /\ c.step = "consume" => Len(dm) >= 1
  /\ c.step = "receive" => c.number >= 1
  /\ c.step = "wait" => InDm("question", c.pending, 0)
  /\ c.step = "card" => Shown(c.pending, c.number, c.text)
  /\ c.step = "stage" => \E text \in MaybeText :
       /\ <<c.pending, c.number, text>> \in approvals
       /\ Shown(c.pending, c.number, text)
  /\ c.step = "post" => <<c.pending, c.number, c.text>> \in approvals
  /\ c.step = "finalize" /\ origin => Landed(c.pending, c.number)

GoodCalls == \A p \in Procs : Good(call[p])

\* A pending with a proposal on record has a revision.
ProposedOnce(q) == (\E o \in q.operations : o.name = "resume") => q.revision >= 1
ProposalsCounted == \A i \in DOMAIN file : ProposedOnce(file[i])

GoodCards ==
  \A k \in DOMAIN dm : dm[k].kind = "card" =>
    Shown(dm[k].pending, dm[k].revision, dm[k].text)

FollowupInv ==
  /\ TypeOK /\ Loadable /\ OneRowPerRevision /\ PostedIsApproved
  /\ ResumedIsPosted /\ WaitingIsAsked
  /\ ProposalsCounted /\ GoodCards /\ GoodCalls

-----------------------------------------------------------------------------
(* Sequences and steps                                                     *)

LEMMA Updated ==
  ASSUME NEW S, NEW s \in Seq(S), NEW i \in DOMAIN s, NEW x \in S
  PROVE  LET t == [s EXCEPT ![i] = x]
         IN /\ t \in Seq(S) /\ Len(t) = Len(s) /\ DOMAIN t = DOMAIN s
            /\ t[i] = x /\ \A k \in DOMAIN s \ {i} : t[k] = s[k]
  OBVIOUS

LEMMA Appended ==
  ASSUME NEW S, NEW s \in Seq(S), NEW x \in S
  PROVE  LET t == Append(s, x)
         IN /\ t \in Seq(S) /\ Len(t) = Len(s) + 1
            /\ DOMAIN t = DOMAIN s \cup {Len(s) + 1}
            /\ DOMAIN s = 1..Len(s) /\ Len(s) + 1 \notin DOMAIN s
            /\ t[Len(s) + 1] = x /\ \A k \in DOMAIN s : t[k] = s[k]
  OBVIOUS

\* What a step may make of pending i, while it has not ended.
Lawful(i, r) ==
  /\ r \in PendingRecord
  /\ Valid(r) /\ ProposedOnce(r)
  /\ r.revision >= file[i].revision
  /\ r.revision = file[i].revision /\ r.proposed # NoText => r.proposed = file[i].proposed
  /\ r.status \in Asked => InDm("question", i, 0)
  /\ r.status = "resumed" /\ origin => Landed(i, r.approved)

Changes(i, r) ==
  /\ i \in DOMAIN file
  /\ file[i].status \in Nonterminal
  /\ Lawful(i, r)
  /\ file' = [file EXCEPT ![i] = r]

Grows(span) ==
  /\ ActiveIn(file) = {} /\ Len(file) < MaxPendings /\ span \in Nat
  /\ file' = Append(file, NewPending(span))

FileStep ==
  \/ file' = file
  \/ \E span : Grows(span)
  \/ \E i, r : Changes(i, r)

\* The bounds are numbers.
LEMMA BoundsAreNat ==
  MaxPendings \in Nat /\ MaxRevision \in Nat /\ MaxSpans \in Nat /\ MaxRows \in Nat
  BY BoundsAssumption

LEMMA FileTypes ==
  ASSUME FollowupInv
  PROVE  /\ file \in Seq(PendingRecord) /\ Len(file) <= MaxPendings
         /\ \A i \in DOMAIN file : file[i] \in PendingRecord /\ file[i].revision \in Nat
<1>1. file \in Seq(PendingRecord) /\ Len(file) <= MaxPendings
  BY DEF FollowupInv, TypeOK
<1>2. \A q \in PendingRecord : q.revision \in Nat
  BY BoundsAreNat DEF PendingRecord, Revisions
<1> QED
  BY <1>1, <1>2

LEMMA PendingFacts ==
  ASSUME FollowupInv, NEW i \in DOMAIN file
  PROVE  /\ file[i] \in PendingRecord
         /\ Valid(file[i]) /\ ProposedOnce(file[i])
         /\ file[i].status \in Asked => InDm("question", i, 0)
         /\ i \in 1..MaxPendings
<1>1. file \in Seq(PendingRecord) /\ Len(file) <= MaxPendings
  BY DEF FollowupInv, TypeOK
<1> QED
  BY <1>1, BoundsAreNat DEF FollowupInv, Loadable, ProposalsCounted, WaitingIsAsked, Asked

\* What the helpers return: a pending, and its fields.
LEMMA CloseFields ==
  ASSUME NEW q \in PendingRecord,
         NEW status \in {"cancelled", "done"}, NEW outcome \in Outcomes
  PROVE  LET r == Close(q, status, outcome)
         IN /\ r \in PendingRecord
            /\ r.status = status /\ r.approved = 0 /\ r.revision = q.revision
            /\ r.proposed = q.proposed /\ r.operations = q.operations
            /\ r.answer = q.answer
<1>1. 0 \in Revisions /\ status \in Terminal
  BY BoundsAreNat DEF Revisions, Terminal
<1> QED
  BY <1>1 DEF PendingRecord, Close

LEMMA WithdrawFields ==
  ASSUME NEW q \in PendingRecord
  PROVE  LET r == Withdraw(q)
         IN /\ r \in PendingRecord
            /\ r.status = q.status /\ r.approved = 0 /\ r.revision = q.revision
            /\ r.proposed = NoText /\ r.operations = q.operations
            /\ r.answer = q.answer
<1>1. 0 \in Revisions /\ NoText \in MaybeText /\ "ready" \in Outcomes
  BY BoundsAreNat DEF Revisions, MaybeText, Outcomes
<1> QED
  BY <1>1 DEF PendingRecord, Withdraw

LEMMA ProposeFields ==
  ASSUME NEW q \in PendingRecord, NEW text \in Texts, q.revision < MaxRevision
  PROVE  LET r == Propose(q, text)
         IN /\ r \in PendingRecord
            /\ r.status = q.status /\ r.approved = 0
            /\ r.revision = q.revision + 1
            /\ r.proposed = text /\ r.operations = q.operations
            /\ r.answer = q.answer
<1>1. q.revision + 1 \in Revisions /\ 0 \in Revisions
  BY BoundsAreNat DEF PendingRecord, Revisions
<1>2. text \in MaybeText /\ "resume" \in Outcomes
  BY DEF MaybeText, Outcomes
<1> QED
  BY <1>1, <1>2 DEF PendingRecord, Propose

LEMMA CommittedFields ==
  ASSUME NEW q \in PendingRecord, NEW op \in Operations
  PROVE  LET r == Committed(q, op)
         IN /\ r \in PendingRecord
            /\ r.status = q.status /\ r.approved = q.approved
            /\ r.revision = q.revision /\ r.proposed = q.proposed
            /\ r.answer = q.answer /\ r.outcome = q.outcome
            /\ r.operations = q.operations \cup {op}
  BY DEF PendingRecord, Committed

\* The changes of a pending that the actions make are lawful.
LEMMA CloseIsLawful ==
  ASSUME FollowupInv, NEW i \in DOMAIN file,
         NEW status \in {"cancelled", "done"}, NEW outcome \in Outcomes,
         status = "done" => file[i].status = "received"
  PROVE  Lawful(i, Close(file[i], status, outcome))
<1>1. PICK q : q = file[i] /\ q \in PendingRecord /\ Valid(q) /\ ProposedOnce(q)
               /\ (q.status \in Asked => InDm("question", i, 0)) /\ q.revision \in Nat
  BY PendingFacts, BoundsAreNat DEF PendingRecord, Revisions
<1>2. PICK r : r = Close(q, status, outcome)
  OBVIOUS
<1>3. /\ r \in PendingRecord
      /\ r.status = status /\ r.approved = 0 /\ r.revision = q.revision
      /\ r.proposed = q.proposed /\ r.operations = q.operations
      /\ r.answer = q.answer
  BY <1>1, <1>2, CloseFields
<1>4. Lawful(i, r)
  BY <1>1, <1>3 DEF Lawful, Valid, ProposedOnce, Asked
<1> QED
  BY <1>1, <1>2, <1>4

LEMMA WithdrawIsLawful ==
  ASSUME FollowupInv, NEW i \in DOMAIN file, file[i].status = "received"
  PROVE  Lawful(i, Withdraw(file[i]))
<1>1. PICK q : q = file[i] /\ q \in PendingRecord /\ Valid(q) /\ ProposedOnce(q)
               /\ (q.status \in Asked => InDm("question", i, 0)) /\ q.revision \in Nat
  BY PendingFacts, BoundsAreNat DEF PendingRecord, Revisions
<1>2. PICK r : r = Withdraw(q)
  OBVIOUS
<1>3. /\ r \in PendingRecord
      /\ r.status = q.status /\ r.approved = 0 /\ r.revision = q.revision
      /\ r.proposed = NoText /\ r.operations = q.operations
      /\ r.answer = q.answer
  BY <1>1, <1>2, WithdrawFields
<1>4. Lawful(i, r)
  BY <1>1, <1>3 DEF Lawful, Valid, ProposedOnce, Asked
<1> QED
  BY <1>1, <1>2, <1>4

LEMMA ProposeIsLawful ==
  ASSUME FollowupInv, NEW i \in DOMAIN file, NEW text \in Texts,
         file[i].status = "received", file[i].revision < MaxRevision
  PROVE  /\ Lawful(i, Propose(file[i], text))
         /\ Propose(file[i], text).revision >= 1
<1>1. PICK q : q = file[i] /\ q \in PendingRecord /\ Valid(q) /\ ProposedOnce(q)
               /\ (q.status \in Asked => InDm("question", i, 0)) /\ q.revision \in Nat
  BY PendingFacts, BoundsAreNat DEF PendingRecord, Revisions
<1>2. PICK r : r = Propose(q, text)
  OBVIOUS
<1>3. /\ r \in PendingRecord
      /\ r.status = q.status /\ r.approved = 0
      /\ r.revision = q.revision + 1
      /\ r.proposed = text /\ r.operations = q.operations
      /\ r.answer = q.answer
  BY <1>1, <1>2, ProposeFields
<1>4. Lawful(i, r) /\ r.revision >= 1
  BY <1>1, <1>3 DEF Lawful, Valid, ProposedOnce, Asked
<1> QED
  BY <1>1, <1>2, <1>4

\* An operation that is put on record changes nothing else.
LEMMA CommittedIsLawful ==
  ASSUME NEW i, NEW r, Lawful(i, r),
         NEW op \in Operations, op.name = "resume" => r.revision >= 1
  PROVE  Lawful(i, Committed(r, op))
<1>1. PICK s : s = Committed(r, op)
  OBVIOUS
<1>2. /\ s \in PendingRecord
      /\ s.status = r.status /\ s.approved = r.approved
      /\ s.revision = r.revision /\ s.proposed = r.proposed
      /\ s.answer = r.answer /\ s.outcome = r.outcome
      /\ s.operations = r.operations \cup {op}
  BY <1>1, CommittedFields DEF Lawful
<1>3. Lawful(i, s)
  BY <1>2 DEF Lawful, Valid, ProposedOnce
<1> QED
  BY <1>1, <1>3

LEMMA StatusFields ==
  ASSUME NEW q \in PendingRecord, NEW status \in {"waiting_private", "resumed"}
  PROVE  LET r == [q EXCEPT !.status = status]
         IN /\ r \in PendingRecord
            /\ r.status = status /\ r.approved = q.approved
            /\ r.revision = q.revision /\ r.proposed = q.proposed
            /\ r.answer = q.answer /\ r.outcome = q.outcome
            /\ r.operations = q.operations
<1>1. status \in Nonterminal \cup Terminal
  BY DEF Nonterminal, Terminal
<1> QED
  BY <1>1 DEF PendingRecord

LEMMA AnsweredFields ==
  ASSUME NEW q \in PendingRecord, NEW row \in Nat
  PROVE  LET r == Answered(q, row)
         IN /\ r \in PendingRecord
            /\ r.status = "received" /\ r.approved = q.approved
            /\ r.revision = q.revision /\ r.proposed = q.proposed
            /\ r.answer = row /\ r.outcome = q.outcome
            /\ r.operations = q.operations
<1>1. "received" \in Nonterminal
  BY DEF Nonterminal
<1> QED
  BY <1>1 DEF PendingRecord, Answered

LEMMA ApproveFields ==
  ASSUME NEW q \in PendingRecord, NEW revision \in Revisions
  PROVE  LET r == Approve(q, revision)
         IN /\ r \in PendingRecord
            /\ r.status = q.status /\ r.approved = revision
            /\ r.revision = q.revision /\ r.proposed = q.proposed
            /\ r.answer = q.answer /\ r.outcome = q.outcome
            /\ r.operations = q.operations
  BY DEF PendingRecord, Approve

LEMMA WaitingIsLawful ==
  ASSUME FollowupInv, NEW i \in DOMAIN file,
         file[i].status = "open", InDm("question", i, 0)
  PROVE  Lawful(i, [file[i] EXCEPT !.status = "waiting_private"])
<1>1. PICK q : q = file[i] /\ q \in PendingRecord /\ Valid(q) /\ ProposedOnce(q)
               /\ q.revision \in Nat
  BY PendingFacts, BoundsAreNat DEF PendingRecord, Revisions
<1>2. PICK r : r = [q EXCEPT !.status = "waiting_private"]
  OBVIOUS
<1>3. /\ r \in PendingRecord
      /\ r.status = "waiting_private" /\ r.approved = q.approved
      /\ r.revision = q.revision /\ r.proposed = q.proposed
      /\ r.answer = q.answer /\ r.outcome = q.outcome
      /\ r.operations = q.operations
  BY <1>1, <1>2, StatusFields
<1>4. Lawful(i, r)
  BY <1>1, <1>3 DEF Lawful, Valid, ProposedOnce, Asked
<1> QED
  BY <1>1, <1>2, <1>4

LEMMA AnsweredIsLawful ==
  ASSUME FollowupInv, NEW i \in DOMAIN file, NEW row \in Nat,
         file[i].status = "waiting_private", row >= 1
  PROVE  Lawful(i, Answered(file[i], row))
<1>1. PICK q : q = file[i] /\ q \in PendingRecord /\ Valid(q) /\ ProposedOnce(q)
               /\ (q.status \in Asked => InDm("question", i, 0)) /\ q.revision \in Nat
  BY PendingFacts, BoundsAreNat DEF PendingRecord, Revisions
<1>2. PICK r : r = Answered(q, row)
  OBVIOUS
<1>3. /\ r \in PendingRecord
      /\ r.status = "received" /\ r.approved = q.approved
      /\ r.revision = q.revision /\ r.proposed = q.proposed
      /\ r.answer = row /\ r.outcome = q.outcome
      /\ r.operations = q.operations
  BY <1>1, <1>2, AnsweredFields
<1>4. Lawful(i, r)
  BY <1>1, <1>3 DEF Lawful, Valid, ProposedOnce, Asked
<1> QED
  BY <1>1, <1>2, <1>4

LEMMA ApproveIsLawful ==
  ASSUME FollowupInv, NEW i \in DOMAIN file, NEW revision,
         MayApprove(file[i], revision)
  PROVE  Lawful(i, Approve(file[i], revision))
<1>1. PICK q : q = file[i] /\ q \in PendingRecord /\ Valid(q) /\ ProposedOnce(q)
               /\ (q.status \in Asked => InDm("question", i, 0))
               /\ q.revision \in Nat /\ q.revision \in Revisions
  BY PendingFacts, BoundsAreNat DEF PendingRecord, Revisions
<1>2. PICK r : r = Approve(q, revision)
  OBVIOUS
<1>3. /\ r \in PendingRecord
      /\ r.status = q.status /\ r.approved = revision
      /\ r.revision = q.revision /\ r.proposed = q.proposed
      /\ r.answer = q.answer /\ r.outcome = q.outcome
      /\ r.operations = q.operations
  BY <1>1, <1>2, ApproveFields DEF MayApprove
<1>4. Lawful(i, r)
  BY <1>1, <1>3 DEF Lawful, Valid, ProposedOnce, Asked, MayApprove
<1> QED
  BY <1>1, <1>2, <1>4

LEMMA FinalizeIsLawful ==
  ASSUME FollowupInv, NEW i \in DOMAIN file, NEW revision,
         MayFinalize(file[i], revision), origin => Landed(i, revision)
  PROVE  Lawful(i, [file[i] EXCEPT !.status = "resumed"])
<1>1. PICK q : q = file[i] /\ q \in PendingRecord /\ Valid(q) /\ ProposedOnce(q)
               /\ (q.status \in Asked => InDm("question", i, 0)) /\ q.revision \in Nat
  BY PendingFacts, BoundsAreNat DEF PendingRecord, Revisions
<1>2. PICK r : r = [q EXCEPT !.status = "resumed"]
  OBVIOUS
<1>3. /\ r \in PendingRecord
      /\ r.status = "resumed" /\ r.approved = q.approved
      /\ r.revision = q.revision /\ r.proposed = q.proposed
      /\ r.answer = q.answer /\ r.outcome = q.outcome
      /\ r.operations = q.operations
  BY <1>1, <1>2, StatusFields
<1>4. /\ q.status = "received" /\ q.outcome = "resume"
      /\ q.approved = q.revision /\ q.approved = revision /\ q.proposed # NoText
  BY <1>1 DEF MayFinalize
<1>5. q.revision >= 1 /\ q.approved # 0 /\ q.answer # 0
  BY <1>1, <1>4 DEF Valid
<1>6. Valid(r) /\ ProposedOnce(r)
  BY <1>1, <1>3, <1>4, <1>5 DEF Valid, ProposedOnce
<1>7. r.revision >= file[i].revision /\ r.proposed = file[i].proposed
  BY <1>1, <1>3
<1>8. origin => Landed(i, r.approved)
  BY <1>3, <1>4, Zenon
<1>9. InDm("question", i, 0)
  BY <1>1, <1>4 DEF Asked
<1>10. Lawful(i, r)
  BY <1>3, <1>6, <1>7, <1>8, <1>9, Zenon DEF Lawful
<1> QED
  BY <1>1, <1>2, <1>10

-----------------------------------------------------------------------------
(* What a step keeps                                                       *)

DmStep ==
  \/ dm' = dm
  \/ \E row \in Rows :
       /\ dm' = Append(dm, row)
       /\ row.kind = "card" => Shown(row.pending, row.revision, row.text)

RoomStep ==
  \/ room' = room /\ origin' = origin
  \/ room' = <<>> /\ origin' = FALSE
  \/ \E row \in Rows :
       /\ room' = Append(room, row) /\ origin' = origin
       /\ ~Landed(row.pending, row.revision)
       /\ <<row.pending, row.revision, row.text>> \in approvals

TurnStep ==
  /\ turn' \in [Procs -> [window : Windows, span : 0..MaxSpans]]
  /\ spans' \in 0..MaxSpans

ApprovalStep ==
  /\ approvals \subseteq approvals'
  /\ approvals' \subseteq Pendings \X Revisions \X MaybeText

Calls == [step : Steps, pending : 0..MaxPendings, number : Nat, text : MaybeText]

CallStep ==
  \/ call' = call
  \/ \E p \in Procs, c \in Calls : call' = [call EXCEPT ![p] = c] /\ Good(c)'

Step == FileStep /\ DmStep /\ RoomStep /\ TurnStep /\ ApprovalStep

\* Rows of the DM stay.
LEMMA DmKeepsRows ==
  ASSUME FollowupInv, DmStep
  PROVE  /\ dm' \in Seq(Rows)
         /\ DOMAIN dm \subseteq DOMAIN dm' /\ Len(dm) <= Len(dm') /\ Len(dm) \in Nat
         /\ \A k \in DOMAIN dm : dm'[k] = dm[k]
<1>1. dm \in Seq(Rows)
  BY DEF FollowupInv, TypeOK
<1>2. CASE dm' = dm
  BY <1>1, <1>2
<1>3. CASE \E row \in Rows : dm' = Append(dm, row)
  BY <1>1, <1>3, Appended
<1> QED
  BY <1>2, <1>3 DEF DmStep

LEMMA KeepsInDm ==
  ASSUME FollowupInv, DmStep, NEW kind, NEW i, NEW revision, InDm(kind, i, revision)
  PROVE  InDm(kind, i, revision)'
  BY DmKeepsRows DEF InDm

\* So do the rows of the room, while it exists.
LEMMA RoomKeepsRows ==
  ASSUME FollowupInv, RoomStep
  PROVE  /\ room' \in Seq(Rows) /\ origin' \in BOOLEAN
         /\ origin' => /\ origin
                       /\ DOMAIN room \subseteq DOMAIN room'
                       /\ \A k \in DOMAIN room : room'[k] = room[k]
<1>1. room \in Seq(Rows) /\ origin \in BOOLEAN
  BY DEF FollowupInv, TypeOK
<1>2. CASE room' = room /\ origin' = origin
  BY <1>1, <1>2
<1>3. CASE room' = <<>> /\ origin' = FALSE
  <2>1. room' \in Seq(Rows)
    BY <1>3
  <2>2. origin' \in BOOLEAN /\ ~origin'
    BY <1>3, Zenon
  <2> QED
    BY <2>1, <2>2, Zenon
<1>4. CASE \E row \in Rows : room' = Append(room, row) /\ origin' = origin
  BY <1>1, <1>4, Appended
<1> QED
  BY <1>2, <1>3, <1>4 DEF RoomStep

LEMMA KeepsLanded ==
  ASSUME FollowupInv, RoomStep, NEW i, NEW revision, Landed(i, revision), origin'
  PROVE  Landed(i, revision)'
<1>1. PICK k \in DOMAIN room : room[k].pending = i /\ room[k].revision = revision
  BY Zenon DEF Landed
<1>2. k \in DOMAIN room' /\ room'[k] = room[k]
  BY RoomKeepsRows
<1> QED
  BY <1>1, <1>2, Zenon DEF Landed

\* Pendings stay; their revisions only grow, and what is proposed under one
\* changes only to nothing.
LEMMA FileKeepsPendings ==
  ASSUME FollowupInv, FileStep
  PROVE  /\ file' \in Seq(PendingRecord) /\ Len(file') <= MaxPendings
         /\ DOMAIN file \subseteq DOMAIN file'
         /\ \A i \in DOMAIN file :
              /\ file'[i].revision >= file[i].revision
              /\ file'[i].revision = file[i].revision /\ file'[i].proposed # NoText
                   => file'[i].proposed = file[i].proposed
              /\ file[i].status \in Terminal => file'[i] = file[i]
<1>1. /\ file \in Seq(PendingRecord) /\ Len(file) <= MaxPendings
      /\ \A i \in DOMAIN file : file[i].revision \in Nat
  BY FileTypes
<1>2. CASE file' = file
  BY <1>1, <1>2
<1>3. ASSUME NEW span, Grows(span)
      PROVE  /\ file' \in Seq(PendingRecord) /\ Len(file') <= MaxPendings
             /\ DOMAIN file \subseteq DOMAIN file'
             /\ \A i \in DOMAIN file : file'[i] = file[i]
  <2>1. 0 \in Revisions /\ "open" \in Nonterminal /\ NoText \in MaybeText
        /\ "none" \in Outcomes /\ {} \in SUBSET Operations
    BY BoundsAreNat DEF Revisions, Nonterminal, MaybeText, Outcomes
  <2>2. NewPending(span) \in PendingRecord
    BY <1>3, <2>1 DEF Grows, NewPending, PendingRecord
  <2> QED
    BY <1>1, <1>3, <2>2, Appended, BoundsAreNat DEF Grows
<1>4. ASSUME NEW i, NEW r, Changes(i, r)
      PROVE  /\ file' \in Seq(PendingRecord) /\ Len(file') <= MaxPendings
             /\ DOMAIN file \subseteq DOMAIN file'
             /\ \A k \in DOMAIN file :
                  /\ file'[k].revision >= file[k].revision
                  /\ file'[k].revision = file[k].revision /\ file'[k].proposed # NoText
                       => file'[k].proposed = file[k].proposed
                  /\ file[k].status \in Terminal => file'[k] = file[k]
  <2>1. /\ i \in DOMAIN file /\ r \in PendingRecord /\ file' = [file EXCEPT ![i] = r]
        /\ r.revision >= file[i].revision
        /\ r.revision = file[i].revision /\ r.proposed # NoText
             => r.proposed = file[i].proposed
    BY <1>4 DEF Changes, Lawful
  <2>2. file[i].status \notin Terminal
    BY <1>4 DEF Changes, Nonterminal, Terminal
  <2>3. /\ file' \in Seq(PendingRecord) /\ Len(file') = Len(file)
        /\ DOMAIN file' = DOMAIN file
        /\ file'[i] = r /\ \A k \in DOMAIN file \ {i} : file'[k] = file[k]
    BY <1>1, <2>1, Updated
  <2>4. ASSUME NEW k \in DOMAIN file
        PROVE  /\ file'[k].revision >= file[k].revision
               /\ file'[k].revision = file[k].revision /\ file'[k].proposed # NoText
                    => file'[k].proposed = file[k].proposed
               /\ file[k].status \in Terminal => file'[k] = file[k]
    <3>1. CASE k = i
      BY <2>1, <2>2, <2>3, <3>1
    <3>2. CASE k # i
      BY <1>1, <2>3, <3>2
    <3> QED
      BY <3>1, <3>2
  <2> QED
    BY <1>1, <2>3, <2>4
<1> QED
  BY <1>1, <1>2, <1>3, <1>4 DEF FileStep

LEMMA KeepsShown ==
  ASSUME FollowupInv, FileStep, NEW i, NEW revision \in Nat, NEW text,
         Shown(i, revision, text)
  PROVE  Shown(i, revision, text)'
<1>1. /\ i \in DOMAIN file /\ i \in DOMAIN file'
      /\ file[i].revision \in Nat /\ file'[i].revision \in Nat
  <2>1. i \in DOMAIN file /\ i \in DOMAIN file'
    BY FileKeepsPendings DEF Shown
  <2>2. file[i] \in PendingRecord /\ file'[i] \in PendingRecord
    BY <2>1, FileTypes, FileKeepsPendings
  <2> QED
    BY <2>1, <2>2, BoundsAreNat DEF PendingRecord, Revisions
<1>2. /\ file'[i].revision >= file[i].revision
      /\ file'[i].revision = file[i].revision /\ file'[i].proposed # NoText
           => file'[i].proposed = file[i].proposed
  BY <1>1, FileKeepsPendings
<1> QED
  BY <1>1, <1>2 DEF Shown

\* What the invariant says of one pending.
Fine(i, q) ==
  /\ Valid(q) /\ ProposedOnce(q)
  /\ q.status \in Asked => InDm("question", i, 0)
  /\ q.status = "resumed" /\ origin => Landed(i, q.approved)

LEMMA PendingsAreFine ==
  ASSUME FollowupInv, NEW i \in DOMAIN file
  PROVE  Fine(i, file[i])
<1>1. Valid(file[i]) /\ ProposedOnce(file[i])
      /\ (file[i].status \in Asked => InDm("question", i, 0))
  BY PendingFacts
<1>2. file[i].status = "resumed" /\ origin => Landed(i, file[i].approved)
  BY Zenon DEF FollowupInv, ResumedIsPosted, Landed
<1> QED
  BY <1>1, <1>2, Zenon DEF Fine

LEMMA NewPendingIsFine ==
  ASSUME NEW i, NEW span
  PROVE  Fine(i, NewPending(span)) /\ NewPending(span).status = "open"
<1>1. PICK q : q = NewPending(span)
  OBVIOUS
<1>2. q.status = "open" /\ q.proposed = NoText /\ q.approved = 0 /\ q.operations = {}
  BY <1>1 DEF NewPending
<1>3. Valid(q) /\ ProposedOnce(q) /\ q.status \notin Asked /\ q.status # "resumed"
  BY <1>2 DEF Valid, ProposedOnce, Asked
<1> QED
  BY <1>1, <1>2, <1>3, Zenon DEF Fine

LEMMA StepKeepsFine ==
  ASSUME FollowupInv, FileStep
  PROVE  /\ \A i \in DOMAIN file' : Fine(i, file'[i])
         /\ \A i, j \in ActiveIn(file') : i = j
<1>1. /\ file \in Seq(PendingRecord)
      /\ \A i, j \in ActiveIn(file) : i = j
  BY FileTypes DEF FollowupInv, Loadable
<1>2. CASE file' = file
  BY <1>1, <1>2, PendingsAreFine
<1>3. ASSUME NEW span, Grows(span)
      PROVE  /\ \A i \in DOMAIN file' : Fine(i, file'[i])
             /\ \A i, j \in ActiveIn(file') : i = j
  <2>1. PICK q : q = NewPending(span)
    OBVIOUS
  <2>2. /\ file' = Append(file, q) /\ file \in Seq({file[k] : k \in DOMAIN file} \cup {q})
    BY <1>1, <1>3, <2>1 DEF Grows
  <2>3. /\ DOMAIN file' = DOMAIN file \cup {Len(file) + 1}
        /\ file'[Len(file) + 1] = q
        /\ \A k \in DOMAIN file : file'[k] = file[k]
    BY <1>1, <2>2, Appended
  <2>4. \A i \in DOMAIN file : file[i].status \notin Nonterminal
    BY <1>3 DEF Grows, ActiveIn
  <2>5. \A i \in DOMAIN file' : Fine(i, file'[i])
    BY <2>1, <2>3, PendingsAreFine, NewPendingIsFine
  <2>6. \A i \in ActiveIn(file') : i = Len(file) + 1
    BY <2>3, <2>4 DEF ActiveIn
  <2> QED
    BY <2>5, <2>6
<1>4. ASSUME NEW i, NEW r, Changes(i, r)
      PROVE  /\ \A k \in DOMAIN file' : Fine(k, file'[k])
             /\ \A k, j \in ActiveIn(file') : k = j
  <2>1. /\ i \in DOMAIN file /\ file' = [file EXCEPT ![i] = r]
        /\ r \in PendingRecord /\ file[i].status \in Nonterminal
    BY <1>4 DEF Changes, Lawful
  <2>2. /\ DOMAIN file' = DOMAIN file
        /\ file'[i] = r /\ \A k \in DOMAIN file \ {i} : file'[k] = file[k]
    BY <1>1, <2>1, Updated
  <2>3. Fine(i, r)
    BY <1>4, Zenon DEF Changes, Lawful, Fine
  <2>4. \A k \in DOMAIN file' : Fine(k, file'[k])
    BY <2>2, <2>3, PendingsAreFine
  <2>5. \A k \in ActiveIn(file') : k \in ActiveIn(file)
    BY <2>1, <2>2 DEF ActiveIn
  <2> QED
    BY <1>1, <2>4, <2>5
<1> QED
  BY <1>2, <1>3, <1>4 DEF FileStep

LEMMA FileInvKept ==
  ASSUME FollowupInv, FileStep, DmStep, RoomStep
  PROVE  Loadable' /\ ProposalsCounted' /\ WaitingIsAsked' /\ ResumedIsPosted'
<1>1. ASSUME NEW i \in DOMAIN file'
      PROVE  \E q : /\ q = file'[i] /\ Valid(q) /\ ProposedOnce(q)
                    /\ q.status \in Asked => InDm("question", i, 0)'
                    /\ q.status = "resumed" /\ origin' => Landed(i, q.approved)'
  <2>1. PICK q : q = file'[i]
    OBVIOUS
  <2>2. Fine(i, q)
    BY <2>1, StepKeepsFine
  <2>3. InDm("question", i, 0) => InDm("question", i, 0)'
    BY KeepsInDm
  <2>4. origin' /\ Landed(i, q.approved) => Landed(i, q.approved)'
    <3> SUFFICES ASSUME origin', Landed(i, q.approved) PROVE Landed(i, q.approved)'
      OBVIOUS
    <3> QED
      BY KeepsLanded
  <2>5. origin' => origin
    BY RoomKeepsRows
  <2> QED
    BY <2>1, <2>2, <2>3, <2>4, <2>5, Zenon DEF Fine
<1>2. Loadable'
  BY <1>1, StepKeepsFine DEF Loadable
<1>3. ProposalsCounted'
  BY <1>1 DEF ProposalsCounted
<1>4. WaitingIsAsked'
  BY <1>1 DEF WaitingIsAsked, Asked
<1>5. ResumedIsPosted'
  <2> SUFFICES ASSUME NEW i \in DOMAIN file', file'[i].status = "resumed", origin'
               PROVE  \E k \in DOMAIN room' : /\ room'[k].pending = i
                                              /\ room'[k].revision = file'[i].approved
    BY Zenon DEF ResumedIsPosted
  <2>1. PICK q : q = file'[i] /\ Landed(i, q.approved)'
    BY <1>1
  <2> QED
    BY <2>1 DEF Landed
<1> QED
  BY <1>2, <1>3, <1>4, <1>5

LEMMA RoomInvKept ==
  ASSUME FollowupInv, RoomStep, ApprovalStep
  PROVE  OneRowPerRevision' /\ PostedIsApproved'
<1>1. room \in Seq(Rows) /\ OneRowPerRevision /\ PostedIsApproved
  BY DEF FollowupInv, TypeOK
<1>2. approvals \subseteq approvals'
  BY DEF ApprovalStep
<1>3. CASE room' = room
  BY <1>1, <1>2, <1>3 DEF OneRowPerRevision, PostedIsApproved
<1>4. CASE room' = <<>>
  BY <1>4 DEF OneRowPerRevision, PostedIsApproved
<1>5. ASSUME NEW row \in Rows, room' = Append(room, row),
             ~Landed(row.pending, row.revision),
             <<row.pending, row.revision, row.text>> \in approvals
      PROVE  OneRowPerRevision' /\ PostedIsApproved'
  <2>1. /\ DOMAIN room' = DOMAIN room \cup {Len(room) + 1}
        /\ room'[Len(room) + 1] = row
        /\ \A k \in DOMAIN room : room'[k] = room[k]
    BY <1>1, <1>5, Appended
  <2>2. \A k \in DOMAIN room : ~(room[k].pending = row.pending
                                 /\ room[k].revision = row.revision)
    BY <1>5, Zenon DEF Landed
  <2>3. OneRowPerRevision'
    BY <1>1, <2>1, <2>2 DEF OneRowPerRevision
  <2>4. PostedIsApproved'
    BY <1>1, <1>2, <1>5, <2>1 DEF PostedIsApproved
  <2> QED
    BY <2>3, <2>4
<1> QED
  BY <1>3, <1>4, <1>5 DEF RoomStep

LEMMA CardsKept ==
  ASSUME FollowupInv, FileStep, DmStep
  PROVE  GoodCards'
<1>1. dm \in Seq(Rows) /\ GoodCards
  BY DEF FollowupInv, TypeOK
<1>2. ASSUME NEW row \in Rows, Shown(row.pending, row.revision, row.text)
      PROVE  Shown(row.pending, row.revision, row.text)'
  <2>1. row.revision \in Nat
    BY BoundsAreNat DEF Rows, Revisions
  <2> QED
    BY <1>2, <2>1, KeepsShown
<1>3. ASSUME NEW k \in DOMAIN dm, dm[k].kind = "card"
      PROVE  \E row \in Rows : row = dm[k] /\ Shown(row.pending, row.revision, row.text)'
  <2>1. PICK row : row = dm[k] /\ row \in Rows
    BY <1>1
  <2>2. Shown(row.pending, row.revision, row.text)
    BY <1>1, <1>3, <2>1 DEF GoodCards
  <2>3. Shown(row.pending, row.revision, row.text)'
    BY <1>2, <2>1, <2>2
  <2> QED
    BY <2>1, <2>3
<1>4. ASSUME NEW k \in DOMAIN dm', dm'[k].kind = "card"
      PROVE  \E row \in Rows : row = dm'[k] /\ Shown(row.pending, row.revision, row.text)'
  <2>1. CASE dm' = dm
    BY <1>3, <1>4, <2>1
  <2>2. ASSUME NEW row \in Rows, dm' = Append(dm, row),
               row.kind = "card" => Shown(row.pending, row.revision, row.text)
        PROVE  \E seen \in Rows :
                 seen = dm'[k] /\ Shown(seen.pending, seen.revision, seen.text)'
    <3>1. /\ DOMAIN dm' = DOMAIN dm \cup {Len(dm) + 1}
          /\ dm'[Len(dm) + 1] = row
          /\ \A j \in DOMAIN dm : dm'[j] = dm[j]
      BY <1>1, <2>2, Appended
    <3>2. CASE k \in DOMAIN dm
      BY <1>3, <1>4, <3>1, <3>2
    <3>3. CASE k = Len(dm) + 1
      BY <1>2, <1>4, <2>2, <3>1, <3>3
    <3> QED
      BY <3>1, <3>2, <3>3
  <2> QED
    BY <2>1, <2>2 DEF DmStep
<1> QED
  BY <1>4 DEF GoodCards

LEMMA KeepsGood ==
  ASSUME FollowupInv, Step, NEW c \in Calls, Good(c)
  PROVE  Good(c)'
<1>1. c.number \in Nat
  BY DEF Calls
<1>2. c.step \notin {"idle", "consume"} => c.pending \in DOMAIN file'
  BY FileKeepsPendings DEF Good, Step
<1>3. c.step = "consume" => Len(dm') >= 1
  <2>1. Len(dm') \in Nat /\ Len(dm) \in Nat /\ Len(dm') >= Len(dm)
    BY DmKeepsRows DEF Step
  <2> QED
    BY <2>1 DEF Good
<1>4. c.step = "receive" => c.number >= 1
  BY DEF Good
<1>5. c.step = "wait" => InDm("question", c.pending, 0)'
  BY KeepsInDm DEF Good, Step
<1>6. c.step = "card" => Shown(c.pending, c.number, c.text)'
  BY <1>1, KeepsShown DEF Good, Step
<1>7. c.step = "stage" => \E text \in MaybeText :
        /\ <<c.pending, c.number, text>> \in approvals'
        /\ Shown(c.pending, c.number, text)'
  <2> SUFFICES ASSUME c.step = "stage"
               PROVE  \E text \in MaybeText :
                        /\ <<c.pending, c.number, text>> \in approvals'
                        /\ Shown(c.pending, c.number, text)'
    OBVIOUS
  <2>1. PICK text \in MaybeText : /\ <<c.pending, c.number, text>> \in approvals
                                  /\ Shown(c.pending, c.number, text)
    BY DEF Good
  <2>2. Shown(c.pending, c.number, text)'
    BY <1>1, <2>1, KeepsShown DEF Step
  <2> QED
    BY <2>1, <2>2 DEF Step, ApprovalStep
<1>8. c.step = "post" => <<c.pending, c.number, c.text>> \in approvals'
  BY DEF Good, Step, ApprovalStep
<1>9. c.step = "finalize" /\ origin' => Landed(c.pending, c.number)'
  <2> SUFFICES ASSUME c.step = "finalize", origin' PROVE Landed(c.pending, c.number)'
    OBVIOUS
  <2>1. origin
    BY RoomKeepsRows DEF Step
  <2>2. Landed(c.pending, c.number)
    BY <2>1, Zenon DEF Good
  <2> QED
    BY <2>2, KeepsLanded DEF Step
<1> QED
  BY <1>2, <1>3, <1>4, <1>5, <1>6, <1>7, <1>8, <1>9, Zenon DEF Good

\* A lawful step, after which the new call knows what it should, keeps it all.
LEMMA StepKeepsInv ==
  ASSUME FollowupInv, Step, CallStep
  PROVE  FollowupInv'
<1>1. /\ call \in [Procs -> Calls] /\ GoodCalls
  BY DEF FollowupInv, TypeOK, Calls
<1>2. ASSUME NEW p \in Procs, NEW c, c = call[p]
      PROVE  c \in Calls /\ Good(c)'
  <2>1. c \in Calls /\ Good(c)
    BY <1>1, <1>2 DEF GoodCalls
  <2> QED
    BY <2>1, KeepsGood
<1>3. /\ call' \in [Procs -> Calls]
      /\ \A p \in Procs : \E c \in Calls : c = call'[p] /\ Good(c)'
  <2>1. CASE call' = call
    BY <1>1, <1>2, <2>1
  <2>2. ASSUME NEW p \in Procs, NEW c \in Calls, call' = [call EXCEPT ![p] = c], Good(c)'
        PROVE  /\ call' \in [Procs -> Calls]
               /\ \A r \in Procs : \E d \in Calls : d = call'[r] /\ Good(d)'
    <3>1. call' \in [Procs -> Calls]
      BY <1>1, <2>2
    <3>2. \A r \in Procs : call'[r] = IF r = p THEN c ELSE call[r]
      BY <1>1, <2>2
    <3> QED
      BY <1>2, <2>2, <3>1, <3>2
  <2> QED
    BY <2>1, <2>2 DEF CallStep
<1>4. GoodCalls'
  BY <1>3 DEF GoodCalls
<1>5. TypeOK'
  <2>1. file' \in Seq(PendingRecord) /\ Len(file') <= MaxPendings
    BY FileKeepsPendings DEF Step
  <2>2. dm' \in Seq(Rows) /\ room' \in Seq(Rows) /\ origin' \in BOOLEAN
    BY DmKeepsRows, RoomKeepsRows DEF Step
  <2> QED
    BY <1>3, <2>1, <2>2, Zenon DEF TypeOK, Calls, Step, TurnStep, ApprovalStep
<1>6. Loadable' /\ ProposalsCounted' /\ WaitingIsAsked' /\ ResumedIsPosted'
  BY FileInvKept DEF Step
<1>7. OneRowPerRevision' /\ PostedIsApproved' /\ GoodCards'
  BY RoomInvKept, CardsKept DEF Step
<1> QED
  BY <1>4, <1>5, <1>6, <1>7 DEF FollowupInv

-----------------------------------------------------------------------------
(* The steps that leave the file alone                                     *)

\* What a step leaves alone it does lawfully.
LEMMA Untouched ==
  ASSUME FollowupInv
  PROVE  /\ file' = file => FileStep
         /\ dm' = dm => DmStep
         /\ room' = room /\ origin' = origin => RoomStep
         /\ turn' = turn /\ spans' = spans => TurnStep
         /\ approvals' = approvals => ApprovalStep
         /\ call' = call => CallStep
<1>1. room' = room /\ origin' = origin => RoomStep
  BY Zenon DEF RoomStep
<1>2. turn' = turn /\ spans' = spans => TurnStep
  BY DEF TurnStep, FollowupInv, TypeOK
<1>3. approvals' = approvals => ApprovalStep
  BY DEF ApprovalStep, FollowupInv, TypeOK
<1> QED
  BY <1>1, <1>2, <1>3, Zenon DEF FileStep, DmStep, CallStep

LEMMA CallFacts ==
  ASSUME FollowupInv, NEW p \in Procs
  PROVE  /\ call[p] \in Calls /\ Good(call[p])
         /\ call[p].step \in Steps /\ call[p].pending \in 0..MaxPendings
         /\ call[p].number \in Nat /\ call[p].text \in MaybeText
         /\ call[p].step \notin {"idle", "consume"} => call[p].pending \in DOMAIN file
<1>1. call[p] \in Calls /\ Good(call[p])
  BY DEF FollowupInv, TypeOK, Calls, GoodCalls
<1> QED
  BY <1>1 DEF Calls, Good

\* A call that ends.
LEMMA ReturnsStep ==
  ASSUME FollowupInv, NEW p \in Procs, Returns(p)
  PROVE  CallStep
<1>1. NoCall \in Calls /\ NoCall.step = "idle"
  BY BoundsAreNat DEF NoCall, Call, Calls, Steps, MaybeText
<1>2. PICK c \in Calls : c = NoCall /\ c.step = "idle"
  BY <1>1
<1>3. Good(c)'
  BY <1>2, Zenon DEF Good
<1> QED
  BY <1>2, <1>3, Zenon DEF CallStep, Returns, Goto

\* A call that goes on.
LEMMA GotoStep ==
  ASSUME NEW p \in Procs, NEW c \in Calls, Goto(p, c), Good(c)'
  PROVE  CallStep
  BY Zenon DEF CallStep, Goto

LEMMA RaisesStep ==
  ASSUME FollowupInv, NEW p \in Procs, Raises(p), spans' = spans
  PROVE  CallStep /\ TurnStep
<1>1. CallStep
  BY ReturnsStep DEF Raises
<1>2. "none" \in Windows /\ 0 \in 0..MaxSpans
  BY BoundsAreNat DEF Windows
<1>3. TurnStep
  BY <1>2 DEF TurnStep, Raises, NoTurn, FollowupInv, TypeOK
<1> QED
  BY <1>1, <1>3

LEMMA BeginStep ==
  ASSUME FollowupInv, NEW p \in Procs, NEW window \in {"group", "dm"}, Begin(p, window)
  PROVE  TurnStep
<1>1. window \in Windows /\ spans + 1 \in 0..MaxSpans
  BY BoundsAreNat DEF Windows, Begin, FollowupInv, TypeOK
<1> QED
  BY <1>1 DEF TurnStep, Begin, FollowupInv, TypeOK

LEMMA PlainTurnKeeps ==
  ASSUME FollowupInv, NEW p \in Procs, NEW window \in {"group", "dm"}, PlainTurn(p, window)
  PROVE  Step /\ CallStep
  BY Untouched, BeginStep, Zenon DEF PlainTurn, Step

\* What a row that is appended to the DM needs.
LEMMA AppendStep ==
  ASSUME NEW row \in Rows, dm' = Append(dm, row),
         row.kind = "card" => Shown(row.pending, row.revision, row.text)
  PROVE  DmStep
  BY DEF DmStep

LEMMA RowFacts ==
  ASSUME NEW kind \in {"user", "question", "card", "private_resume"},
         NEW i \in 0..MaxPendings, NEW revision \in Revisions, NEW text \in MaybeText
  PROVE  LET row == Row(kind, i, revision, text)
         IN /\ row \in Rows /\ row.kind = kind /\ row.pending = i
            /\ row.revision = revision /\ row.text = text
  BY DEF Row, Rows

LEMMA CallFields ==
  ASSUME NEW step \in Steps, NEW i \in 0..MaxPendings, NEW number \in Nat,
         NEW text \in MaybeText
  PROVE  LET c == Call(step, i, number, text)
         IN /\ c \in Calls /\ c.step = step /\ c.pending = i
            /\ c.number = number /\ c.text = text
  BY DEF Call, Calls

LEMMA MovedFields ==
  ASSUME NEW d \in Calls, NEW step \in Steps
  PROVE  LET c == [d EXCEPT !.step = step]
         IN /\ c \in Calls /\ c.step = step /\ c.pending = d.pending
            /\ c.number = d.number /\ c.text = d.text
  BY DEF Calls

LEMMA UserTurnKeeps ==
  ASSUME FollowupInv, NEW p \in Procs, UserTurn(p)
  PROVE  Step /\ CallStep
<1>1. /\ 0 \in 0..MaxPendings /\ 0 \in Revisions /\ NoText \in MaybeText
      /\ "consume" \in Steps /\ dm \in Seq(Rows)
  BY BoundsAreNat DEF Revisions, MaybeText, Steps, FollowupInv, TypeOK
<1>2. PICK row \in Rows : row = Row("user", 0, 0, NoText) /\ row.kind = "user"
  BY <1>1, RowFacts
<1>3. dm' = Append(dm, row)
  BY <1>2 DEF UserTurn
<1>4. PICK c \in Calls : c = Call("consume", 0, 0, NoText) /\ c.step = "consume"
  BY <1>1, CallFields
<1>5. Len(dm') >= 1
  BY <1>1, <1>3, Appended
<1>6. Good(c)'
  BY <1>4, <1>5, Zenon DEF Good
<1>7. Begin(p, "dm") /\ Goto(p, c) /\ UNCHANGED <<file, room, origin, approvals>>
  BY <1>4 DEF UserTurn
<1>8. CallStep
  BY <1>6, <1>7, GotoStep
<1>9. DmStep
  BY <1>2, <1>3, AppendStep
<1>10. TurnStep
  BY <1>7, BeginStep
<1> QED
  BY <1>7, <1>8, <1>9, <1>10, Untouched, Zenon DEF Step

LEMMA EndTurnKeeps ==
  ASSUME FollowupInv, NEW p \in Procs, EndTurn(p)
  PROVE  Step /\ CallStep
<1>1. "none" \in Windows /\ 0 \in 0..MaxSpans
  BY BoundsAreNat DEF Windows
<1>2. TurnStep
  BY <1>1 DEF TurnStep, EndTurn, NoTurn, FollowupInv, TypeOK
<1> QED
  BY <1>2, Untouched, Zenon DEF EndTurn, Step

LEMMA FailKeeps ==
  ASSUME FollowupInv, NEW p \in Procs, Fail(p) \/ Crash(p)
  PROVE  Step /\ CallStep
<1>1. UNCHANGED <<file, dm, room, origin, spans, approvals>>
  BY Zenon DEF Fail, Crash
<1>2. Raises(p) \/ (Returns(p) /\ UNCHANGED turn)
  BY Zenon DEF Fail, Crash
<1>3. CallStep /\ TurnStep
  BY <1>1, <1>2, RaisesStep, ReturnsStep, Untouched, Zenon
<1> QED
  BY <1>1, <1>3, Untouched, Zenon DEF Step

LEMMA DeleteRoomKeeps ==
  ASSUME FollowupInv, DeleteRoom
  PROVE  Step /\ CallStep
<1>1. RoomStep
  BY Zenon DEF RoomStep, DeleteRoom
<1> QED
  BY <1>1, Untouched, Zenon DEF DeleteRoom, Step

LEMMA ConsumeKeeps ==
  ASSUME FollowupInv, NEW p \in Procs, Consume(p)
  PROVE  Step /\ CallStep
<1>1. Step
  BY Untouched, Zenon DEF Consume, Step
<1>2. CASE Returns(p)
  BY <1>1, <1>2, ReturnsStep
<1>3. ASSUME NEW i \in ActiveIn(file), Goto(p, Call("receive", i, Len(dm), NoText))
      PROVE  CallStep
  <2>1. /\ i \in DOMAIN file /\ i \in 0..MaxPendings
        /\ Len(dm) \in Nat /\ NoText \in MaybeText /\ "receive" \in Steps
    BY PendingFacts, BoundsAreNat
    DEF ActiveIn, MaybeText, Steps, FollowupInv, TypeOK
  <2>2. Len(dm) >= 1
    BY CallFacts DEF Consume, At, Good
  <2>3. PICK c \in Calls : /\ c = Call("receive", i, Len(dm), NoText)
                           /\ c.step = "receive" /\ c.pending = i /\ c.number = Len(dm)
    BY <2>1, CallFields
  <2>4. Good(c)
    BY <2>1, <2>2, <2>3 DEF Good
  <2> QED
    BY <1>1, <1>3, <2>3, <2>4, KeepsGood, GotoStep
<1> QED
  BY <1>1, <1>2, <1>3 DEF Consume

\* A row that is posted once is in the DM afterwards.
LEMMA PostOnceStep ==
  ASSUME FollowupInv, NEW row \in Rows, PostOnce(row),
         row.kind = "card" => Shown(row.pending, row.revision, row.text)
  PROVE  DmStep /\ InDm(row.kind, row.pending, row.revision)'
<1>1. dm \in Seq(Rows)
  BY DEF FollowupInv, TypeOK
<1>2. CASE InDm(row.kind, row.pending, row.revision)
  <2>1. dm' = dm
    BY <1>2 DEF PostOnce
  <2> QED
    BY <1>2, <2>1, Untouched, KeepsInDm
<1>3. CASE ~InDm(row.kind, row.pending, row.revision)
  <2>1. dm' = Append(dm, row)
    BY <1>3 DEF PostOnce
  <2>2. Len(dm) + 1 \in DOMAIN dm' /\ dm'[Len(dm) + 1] = row
    BY <1>1, <2>1, Appended
  <2> QED
    BY <2>1, <2>2, AppendStep DEF InDm
<1> QED
  BY <1>2, <1>3

LEMMA AskInDmKeeps ==
  ASSUME FollowupInv, NEW p \in Procs, AskInDm(p)
  PROVE  Step /\ CallStep
<1>1. PICK d \in Calls : d = call[p] /\ d.step = "ask" /\ d.pending \in DOMAIN file
  BY CallFacts DEF AskInDm, At
<1>2. /\ d.pending \in 0..MaxPendings /\ d.number \in Nat /\ d.text \in MaybeText
      /\ 0 \in Revisions /\ NoText \in MaybeText /\ "wait" \in Steps
  BY BoundsAreNat DEF Calls, Revisions, MaybeText, Steps
<1>3. PICK row \in Rows : /\ row = Row("question", d.pending, 0, NoText)
                          /\ row.kind = "question" /\ row.pending = d.pending
                          /\ row.revision = 0
  BY <1>2, RowFacts
<1>4. PostOnce(row)
  BY <1>1, <1>3 DEF AskInDm
<1>5. DmStep /\ InDm("question", d.pending, 0)'
  BY <1>3, <1>4, PostOnceStep
<1>6. PICK c \in Calls : /\ c = [d EXCEPT !.step = "wait"]
                         /\ c.step = "wait" /\ c.pending = d.pending
  BY <1>2, MovedFields
<1>7. UNCHANGED <<file, room, origin, turn, spans, approvals>> /\ Goto(p, c)
  BY <1>1, <1>6 DEF AskInDm
<1>8. Good(c)'
  BY <1>1, <1>5, <1>6, <1>7 DEF Good
<1> QED
  BY <1>5, <1>7, <1>8, GotoStep, Untouched, Zenon DEF Step

LEMMA PostCardKeeps ==
  ASSUME FollowupInv, NEW p \in Procs, PostCard(p)
  PROVE  Step /\ CallStep
<1>1. PICK d \in Calls : /\ d = call[p] /\ d.step = "card" /\ d.pending \in DOMAIN file
                         /\ Shown(d.pending, d.number, d.text)
  BY CallFacts DEF PostCard, At, Good
<1>2. /\ d.pending \in 0..MaxPendings /\ d.text \in MaybeText
      /\ d.number \in Nat /\ file[d.pending] \in PendingRecord
  BY <1>1, FileTypes DEF Calls
<1>3. d.number \in Revisions
  BY <1>1, <1>2, BoundsAreNat DEF Shown, PendingRecord, Revisions
<1>4. PICK row \in Rows : /\ row = Row("card", d.pending, d.number, d.text)
                          /\ row.kind = "card" /\ row.pending = d.pending
                          /\ row.revision = d.number /\ row.text = d.text
  BY <1>2, <1>3, RowFacts
<1>5. PostOnce(row)
  BY <1>1, <1>4 DEF PostCard
<1>6. DmStep
  BY <1>1, <1>4, <1>5, PostOnceStep
<1>7. UNCHANGED <<file, room, origin, turn, spans, approvals>> /\ Returns(p)
  BY DEF PostCard
<1> QED
  BY <1>6, <1>7, ReturnsStep, Untouched, Zenon DEF Step

LEMMA PostKeeps ==
  ASSUME FollowupInv, NEW p \in Procs, Post(p)
  PROVE  Step /\ CallStep
<1>1. PICK d \in Calls : /\ d = call[p] /\ d.step = "post" /\ d.pending \in DOMAIN file
                         /\ <<d.pending, d.number, d.text>> \in approvals
  BY CallFacts DEF Post, At, Good
<1>2. /\ d.pending \in 0..MaxPendings /\ d.text \in MaybeText /\ d.number \in Revisions
      /\ d.number \in Nat /\ "finalize" \in Steps
  BY <1>1, BoundsAreNat DEF Calls, Steps, Revisions, FollowupInv, TypeOK
<1>3. UNCHANGED <<file, dm, origin, turn, spans, approvals>>
  BY DEF Post
<1>4. CASE ~origin
  <2>1. Returns(p) /\ UNCHANGED room
    BY <1>4, Zenon DEF Post
  <2> QED
    BY <1>3, <2>1, ReturnsStep, Untouched, Zenon DEF Step
<1>5. CASE origin
  <2>1. PICK row \in Rows : /\ row = Row("private_resume", d.pending, d.number, d.text)
                            /\ row.pending = d.pending
                            /\ row.revision = d.number /\ row.text = d.text
    BY <1>2, RowFacts
  <2>2. PICK c \in Calls : /\ c = [d EXCEPT !.step = "finalize"] /\ c.step = "finalize"
                           /\ c.pending = d.pending /\ c.number = d.number
    BY <1>2, MovedFields
  <2>3. /\ room' = IF Landed(d.pending, d.number) THEN room ELSE Append(room, row)
        /\ Goto(p, c)
    BY <1>1, <1>5, <2>1, <2>2, Zenon DEF Post
  <2>4. RoomStep /\ Landed(d.pending, d.number)'
    <3>1. CASE Landed(d.pending, d.number)
      <4>1. room' = room
        BY <2>3, <3>1, Zenon
      <4> QED
        BY <1>3, <3>1, <4>1, Untouched, Zenon DEF Landed
    <3>2. CASE ~Landed(d.pending, d.number)
      <4>1. room' = Append(room, row)
        BY <2>3, <3>2, Zenon
      <4>2. room \in Seq(Rows)
        BY DEF FollowupInv, TypeOK
      <4>3. Len(room) + 1 \in DOMAIN room' /\ room'[Len(room) + 1] = row
        BY <4>1, <4>2, Appended
      <4>4. Landed(d.pending, d.number)'
        BY <2>1, <4>3, Zenon DEF Landed
      <4>5. ~Landed(row.pending, row.revision)
            /\ <<row.pending, row.revision, row.text>> \in approvals
        BY <1>1, <2>1, <3>2
      <4> QED
        BY <1>3, <4>1, <4>4, <4>5, Zenon DEF RoomStep
    <3> QED
      BY <3>1, <3>2
  <2>5. Good(c)'
    BY <1>1, <1>3, <2>2, <2>4, Zenon DEF Good
  <2> QED
    BY <1>3, <2>3, <2>4, <2>5, GotoStep, Untouched, Zenon DEF Step
<1> QED
  BY <1>4, <1>5, Zenon DEF FollowupInv, TypeOK

LEMMA ChooseKeeps ==
  ASSUME FollowupInv, NEW p \in Procs, NEW k \in DOMAIN dm,
         NEW step \in {"stage", "keep", "cancel"}, Choose(p, k, step)
  PROVE  Step /\ CallStep
<1>1. PICK row \in Rows : /\ row = dm[k] /\ row.kind = "card"
                          /\ Shown(row.pending, row.revision, row.text)
  BY DEF Choose, GoodCards, FollowupInv, TypeOK
<1>2. /\ row.pending \in 0..MaxPendings /\ row.pending \in DOMAIN file
      /\ row.pending \in Pendings
      /\ row.revision \in Revisions /\ row.revision \in Nat
      /\ row.text \in MaybeText /\ NoText \in MaybeText /\ step \in Steps
  <2>1. row.pending \in DOMAIN file
    BY <1>1 DEF Shown
  <2>2. row.pending \in 1..MaxPendings
    BY <2>1, PendingFacts
  <2> QED
    BY <2>1, <2>2, BoundsAreNat DEF Rows, MaybeText, Steps, Revisions, Pendings
<1>3. PICK c \in Calls : /\ c = Call(step, row.pending, row.revision, NoText)
                         /\ c.step = step /\ c.pending = row.pending
                         /\ c.number = row.revision
  BY <1>2, CallFields
<1>4. /\ Goto(p, c) /\ UNCHANGED <<file, dm, room, origin, turn, spans>>
      /\ approvals' = IF step = "stage"
                      THEN approvals \cup {<<row.pending, row.revision, row.text>>}
                      ELSE approvals
  BY <1>1, <1>3 DEF Choose
<1>5. ApprovalStep
  BY <1>2, <1>4 DEF ApprovalStep, FollowupInv, TypeOK
<1>6. Step
  BY <1>4, <1>5, Untouched, Zenon DEF Step
<1>7. Shown(row.pending, row.revision, row.text)'
  BY <1>1, <1>2, <1>6, KeepsShown DEF Step
<1>8. step = "stage" => \E text \in MaybeText :
        /\ <<c.pending, c.number, text>> \in approvals'
        /\ Shown(c.pending, c.number, text)'
  BY <1>2, <1>3, <1>4, <1>7
<1>9. Good(c)'
  BY <1>2, <1>3, <1>4, <1>8 DEF Good
<1> QED
  BY <1>4, <1>6, <1>9, GotoStep

-----------------------------------------------------------------------------
(* The steps that change the file                                          *)

\* One pending is changed lawfully, and nothing else but the call.
LEMMA ChangeStep ==
  ASSUME FollowupInv, NEW i \in DOMAIN file, NEW r, Lawful(i, r),
         file[i].status \in {"open", "waiting_private", "received"},
         file' = [file EXCEPT ![i] = r]
  PROVE  FileStep
<1>1. file[i].status \in Nonterminal
  BY DEF Nonterminal
<1> QED
  BY <1>1, Zenon DEF FileStep, Changes

LEMMA CancelStep ==
  ASSUME FollowupInv, NEW i \in DOMAIN file, MayCancel(file[i]),
         file' = [file EXCEPT ![i] = Close(@, "cancelled", "cancel")]
  PROVE  FileStep
<1>1. Lawful(i, Close(file[i], "cancelled", "cancel"))
  BY CloseIsLawful DEF Outcomes
<1>2. file' = [file EXCEPT ![i] = Close(file[i], "cancelled", "cancel")]
  OBVIOUS
<1> QED
  BY <1>1, <1>2, ChangeStep DEF MayCancel, Nonterminal

LEMMA TurnFacts ==
  ASSUME FollowupInv, NEW p \in Procs
  PROVE  turn[p].span \in Nat
  BY BoundsAreNat DEF FollowupInv, TypeOK

LEMMA OperationFacts ==
  ASSUME NEW name \in {"resume", "ready", "done", "approve"}, NEW key \in Nat,
         NEW payload \in MaybeText
  PROVE  Operation(name, key, payload) \in Operations
         /\ Operation(name, key, payload).name = name
  BY DEF Operation, Operations

LEMMA ReceiveKeeps ==
  ASSUME FollowupInv, NEW p \in Procs, Receive(p)
  PROVE  Step /\ CallStep
<1>1. PICK d \in Calls : /\ d = call[p] /\ d.step = "receive" /\ d.pending \in DOMAIN file
                         /\ d.number >= 1 /\ d.number \in Nat
  BY CallFacts DEF Receive, At, Good
<1>2. UNCHANGED <<dm, room, origin, spans, approvals>>
  BY DEF Receive
<1>3. CASE /\ file[d.pending].status = "waiting_private"
           /\ file' = [file EXCEPT ![d.pending] = Answered(@, d.number)]
           /\ Returns(p) /\ UNCHANGED turn
  <2>1. file' = [file EXCEPT ![d.pending] = Answered(file[d.pending], d.number)]
    BY <1>3
  <2>2. FileStep
    BY <1>1, <1>3, <2>1, AnsweredIsLawful, ChangeStep
  <2> QED
    BY <1>2, <1>3, <2>2, ReturnsStep, Untouched, Zenon DEF Step
<1>4. CASE Raises(p) /\ UNCHANGED file
  BY <1>2, <1>4, RaisesStep, Untouched, Zenon DEF Step
<1> QED
  BY <1>1, <1>3, <1>4 DEF Receive

LEMMA AskKeeps ==
  ASSUME FollowupInv, NEW p \in Procs, Ask(p)
  PROVE  Step /\ CallStep
<1>1. UNCHANGED <<dm, room, origin, turn, spans, approvals>>
  BY DEF Ask
<1>2. PICK i : /\ Goto(p, Call("ask", i, 0, NoText))
               /\ \/ i \in DOMAIN file /\ file' = file
                  \/ /\ i = Len(file) + 1 /\ ActiveIn(file) = {}
                     /\ Len(file) < MaxPendings
                     /\ file' = Append(file, NewPending(turn[p].span))
  BY DEF Ask, Created
<1>3. FileStep
  BY <1>2, TurnFacts DEF FileStep, Grows
<1>4. Step
  BY <1>1, <1>3, Untouched, Zenon DEF Step
<1>5. i \in DOMAIN file' /\ i \in 0..MaxPendings
  <2>1. CASE i \in DOMAIN file /\ file' = file
    BY <2>1, PendingFacts, BoundsAreNat
  <2>2. CASE /\ i = Len(file) + 1 /\ Len(file) < MaxPendings
             /\ file' = Append(file, NewPending(turn[p].span))
    <3>1. file' \in Seq(PendingRecord) /\ Len(file') = Len(file) + 1
      BY <1>3, <2>2, FileKeepsPendings, FileTypes
    <3> QED
      BY <2>2, <3>1, FileTypes, BoundsAreNat
  <2> QED
    BY <1>2, <2>1, <2>2
<1>6. PICK c \in Calls : /\ c = Call("ask", i, 0, NoText)
                         /\ c.step = "ask" /\ c.pending = i
  BY <1>5, CallFields DEF Steps, MaybeText
<1>7. Good(c)'
  BY <1>5, <1>6 DEF Good
<1> QED
  BY <1>2, <1>4, <1>6, <1>7, GotoStep

LEMMA MarkWaitingKeeps ==
  ASSUME FollowupInv, NEW p \in Procs, MarkWaiting(p)
  PROVE  Step /\ CallStep
<1>1. PICK d \in Calls : /\ d = call[p] /\ d.pending \in DOMAIN file
                         /\ InDm("question", d.pending, 0)
  BY CallFacts DEF MarkWaiting, At, Good
<1>2. UNCHANGED <<dm, room, origin, turn, spans, approvals>> /\ Returns(p)
  BY DEF MarkWaiting
<1>3. CASE file' = file
  BY <1>2, <1>3, ReturnsStep, Untouched, Zenon DEF Step
<1>4. CASE /\ file[d.pending].status = "open"
           /\ file' = [file EXCEPT ![d.pending].status = "waiting_private"]
  <2>1. FileStep
    BY <1>1, <1>4, WaitingIsLawful, ChangeStep
  <2> QED
    BY <1>2, <2>1, ReturnsStep, Untouched, Zenon DEF Step
<1> QED
  BY <1>1, <1>3, <1>4 DEF MarkWaiting

LEMMA ResumeKeeps ==
  ASSUME FollowupInv, NEW p \in Procs, NEW i \in DOMAIN file, NEW text \in Texts,
         Resume(p, i, text)
  PROVE  Step /\ CallStep
<1>1. PICK op \in Operations : op = Operation("resume", turn[p].span, text)
                               /\ op.name = "resume"
  BY TurnFacts, OperationFacts DEF MaybeText
<1>2. PICK q : q = file[i] /\ q \in PendingRecord /\ ProposedOnce(q) /\ q.revision \in Nat
  BY PendingFacts, FileTypes
<1>3. UNCHANGED <<dm, room, origin, turn, spans, approvals>>
  BY DEF Resume
<1>4. FileStep /\ i \in DOMAIN file' /\ file'[i].revision >= 1
  <2>1. CASE op \in q.operations /\ file' = file
    BY <1>1, <1>2, <2>1, Untouched DEF ProposedOnce
  <2>2. CASE /\ q.status = "received" /\ q.revision < MaxRevision
             /\ file' = [file EXCEPT ![i] = Committed(Propose(@, text), op)]
    <3>1. PICK r : r = Propose(q, text) /\ Lawful(i, r) /\ r.revision >= 1
      BY <1>2, <2>2, ProposeIsLawful
    <3>2. PICK s : s = Committed(r, op) /\ Lawful(i, s) /\ s.revision >= 1
      BY <1>1, <3>1, CommittedIsLawful, CommittedFields DEF Lawful
    <3>3. file' = [file EXCEPT ![i] = s]
      BY <1>2, <2>2, <3>1, <3>2
    <3>4. FileStep
      BY <1>2, <2>2, <3>2, <3>3, ChangeStep
    <3>5. i \in DOMAIN file' /\ file'[i] = s
      BY <3>3, FileTypes
    <3> QED
      BY <3>2, <3>4, <3>5
  <2> QED
    BY <1>1, <1>2, <2>1, <2>2 DEF Resume
<1>5. Step
  BY <1>3, <1>4, Untouched, Zenon DEF Step
<1>6. PICK s : /\ s = file'[i] /\ s \in PendingRecord /\ s.revision >= 1
               /\ s.revision \in Nat /\ s.proposed \in MaybeText
  <2>1. PICK s : s = file'[i] /\ s \in PendingRecord /\ s.revision >= 1
    BY <1>4, FileKeepsPendings
  <2>2. s.revision \in Nat /\ s.proposed \in MaybeText
    BY <2>1, BoundsAreNat DEF PendingRecord, Revisions
  <2> QED
    BY <2>1, <2>2
<1>7. PICK c \in Calls : /\ c = Call("card", i, s.revision, s.proposed)
                         /\ c.step = "card" /\ c.pending = i
                         /\ c.number = s.revision /\ c.text = s.proposed
  <2>1. i \in 0..MaxPendings /\ "card" \in Steps
    BY PendingFacts, BoundsAreNat DEF Steps
  <2> QED
    BY <1>6, <2>1, CallFields
<1>8. Goto(p, c)
  BY <1>6, <1>7 DEF Resume
<1>9. Shown(c.pending, c.number, c.text)'
  BY <1>4, <1>6, <1>7 DEF Shown
<1>10. Good(c)'
  BY <1>4, <1>7, <1>9 DEF Good
<1> QED
  BY <1>5, <1>8, <1>10, GotoStep

LEMMA SettleKeeps ==
  ASSUME FollowupInv, NEW p \in Procs, NEW i \in DOMAIN file,
         NEW action \in {"ready", "done"}, Settle(p, i, action)
  PROVE  Step /\ CallStep
<1>1. PICK op \in Operations : op = Operation(action, turn[p].span, NoText)
                               /\ op.name # "resume"
  BY TurnFacts, OperationFacts DEF MaybeText
<1>2. UNCHANGED <<dm, room, origin, turn, spans, call, approvals>>
      /\ file[i].status = "received"
  BY DEF Settle
<1>3. PICK r : /\ r = IF action = "ready" THEN Withdraw(file[i])
                                          ELSE Close(file[i], "done", "done")
               /\ Lawful(i, r)
  BY <1>2, WithdrawIsLawful, CloseIsLawful DEF Outcomes
<1>4. file' = [file EXCEPT ![i] = Committed(r, op)]
  BY <1>1, <1>3 DEF Settle
<1>5. FileStep
  BY <1>1, <1>2, <1>3, <1>4, CommittedIsLawful, ChangeStep
<1> QED
  BY <1>2, <1>5, Untouched, Zenon DEF Step

LEMMA CancelKeeps ==
  ASSUME FollowupInv, NEW p \in Procs, NEW i \in DOMAIN file,
         ToolCancel(p, i) \/ CancelWindow(p, i)
  PROVE  Step /\ CallStep
<1>1. FileStep
  BY CancelStep, Zenon DEF ToolCancel, CancelWindow
<1>2. UNCHANGED <<dm, room, origin, turn, spans, call, approvals>>
  BY Zenon DEF ToolCancel, CancelWindow
<1> QED
  BY <1>1, <1>2, Untouched, Zenon DEF Step

LEMMA StageKeeps ==
  ASSUME FollowupInv, NEW p \in Procs, Stage(p)
  PROVE  Step /\ CallStep
<1>1. PICK d \in Calls : /\ d = call[p] /\ d.step = "stage" /\ d.pending \in DOMAIN file
                         /\ d.pending \in 0..MaxPendings /\ d.number \in Nat
                         /\ Good(d)
  BY CallFacts DEF Stage, At
<1>2. PICK text \in MaybeText : /\ <<d.pending, d.number, text>> \in approvals
                                /\ Shown(d.pending, d.number, text)
  BY <1>1 DEF Good
<1>3. PICK q : /\ q = file[d.pending] /\ q \in PendingRecord /\ Valid(q)
               /\ q.revision \in Nat
  BY <1>1, PendingFacts, FileTypes
<1>4. /\ d.number >= 1
      /\ d.number = q.revision /\ q.proposed # NoText => q.proposed = text
  BY <1>2, <1>3 DEF Shown
<1>5. PICK op \in Operations : op = Operation("approve", d.number, NoText)
                               /\ op.name # "resume"
  BY <1>1, OperationFacts DEF MaybeText
<1>6. UNCHANGED <<dm, room, origin, turn, spans, approvals>>
  BY DEF Stage
<1>7. CASE Returns(p) /\ UNCHANGED file
  BY <1>6, <1>7, ReturnsStep, Untouched, Zenon DEF Step
<1>8. ASSUME q.proposed = text, FileStep,
             Goto(p, Call("post", d.pending, d.number, q.proposed))
      PROVE  Step /\ CallStep
  <2>1. Step
    BY <1>6, <1>8, Untouched, Zenon DEF Step
  <2>2. PICK c \in Calls : /\ c = Call("post", d.pending, d.number, q.proposed)
                           /\ c.step = "post" /\ c.pending = d.pending
                           /\ c.number = d.number /\ c.text = q.proposed
    BY <1>1, <1>8, CallFields DEF Steps
  <2>3. Good(c)
    BY <1>1, <1>2, <1>8, <2>2 DEF Good
  <2> QED
    BY <1>8, <2>1, <2>2, <2>3, KeepsGood, GotoStep
<1>9. CASE /\ q.approved = d.number /\ UNCHANGED file
           /\ Goto(p, Call("post", d.pending, d.number, q.proposed))
  <2>1. q.proposed = text
    BY <1>1, <1>3, <1>4, <1>9 DEF Valid
  <2> QED
    BY <1>8, <1>9, <2>1, Untouched
<1>10. CASE /\ MayApprove(q, d.number)
            /\ file' = [file EXCEPT ![d.pending] = Committed(Approve(@, d.number), op)]
            /\ Goto(p, Call("post", d.pending, d.number, q.proposed))
  <2>1. q.proposed = text /\ q.status = "received"
    BY <1>4, <1>10 DEF MayApprove
  <2>2. PICK r : r = Approve(q, d.number) /\ Lawful(d.pending, r)
    BY <1>1, <1>3, <1>10, ApproveIsLawful
  <2>3. PICK s : s = Committed(r, op) /\ Lawful(d.pending, s)
    BY <1>5, <2>2, CommittedIsLawful
  <2>4. file' = [file EXCEPT ![d.pending] = s]
    BY <1>3, <1>10, <2>2, <2>3
  <2>5. FileStep
    BY <1>1, <1>3, <2>1, <2>3, <2>4, ChangeStep
  <2> QED
    BY <1>8, <1>10, <2>1, <2>5
<1> QED
  BY <1>1, <1>3, <1>5, <1>7, <1>9, <1>10 DEF Stage

LEMMA FinalizeKeeps ==
  ASSUME FollowupInv, NEW p \in Procs, Finalize(p)
  PROVE  Step /\ CallStep
<1>1. PICK d \in Calls : /\ d = call[p] /\ d.pending \in DOMAIN file
                         /\ (origin => Landed(d.pending, d.number))
  <2>1. PICK d \in Calls : d = call[p] /\ d.step = "finalize" /\ d.pending \in DOMAIN file
                           /\ Good(d)
    BY CallFacts DEF Finalize, At
  <2>2. origin => Landed(d.pending, d.number)
    BY <2>1, Zenon DEF Good
  <2> QED
    BY <2>1, <2>2
<1>2. UNCHANGED <<dm, room, origin, turn, spans, approvals>> /\ Returns(p)
  BY DEF Finalize
<1>3. CASE file' = file
  BY <1>2, <1>3, ReturnsStep, Untouched, Zenon DEF Step
<1>4. CASE /\ MayFinalize(file[d.pending], d.number)
           /\ file' = [file EXCEPT ![d.pending].status = "resumed"]
  <2>1. Lawful(d.pending, [file[d.pending] EXCEPT !.status = "resumed"])
    BY <1>1, <1>4, FinalizeIsLawful
  <2>2. file' = [file EXCEPT ![d.pending] = [file[d.pending] EXCEPT !.status = "resumed"]]
    BY <1>4
  <2>3. file[d.pending].status = "received"
    BY <1>4 DEF MayFinalize
  <2>4. FileStep
    BY <1>1, <2>1, <2>2, <2>3, ChangeStep
  <2> QED
    BY <1>2, <2>4, ReturnsStep, Untouched, Zenon DEF Step
<1> QED
  BY <1>1, <1>3, <1>4 DEF Finalize

LEMMA KeepPrivateKeeps ==
  ASSUME FollowupInv, NEW p \in Procs, KeepPrivate(p)
  PROVE  Step /\ CallStep
<1>1. PICK d \in Calls : d = call[p] /\ d.pending \in DOMAIN file
  BY CallFacts DEF KeepPrivate, At
<1>2. UNCHANGED <<dm, room, origin, turn, spans, approvals>> /\ Returns(p)
  BY DEF KeepPrivate
<1>3. CASE file' = file
  BY <1>2, <1>3, ReturnsStep, Untouched, Zenon DEF Step
<1>4. CASE /\ file[d.pending].status = "received"
           /\ file' = [file EXCEPT ![d.pending] = Withdraw(@)]
  <2>1. file' = [file EXCEPT ![d.pending] = Withdraw(file[d.pending])]
    BY <1>4
  <2>2. FileStep
    BY <1>1, <1>4, <2>1, WithdrawIsLawful, ChangeStep
  <2> QED
    BY <1>2, <2>2, ReturnsStep, Untouched, Zenon DEF Step
<1> QED
  BY <1>1, <1>3, <1>4 DEF KeepPrivate

LEMMA CardCancelKeeps ==
  ASSUME FollowupInv, NEW p \in Procs, CardCancel(p)
  PROVE  Step /\ CallStep
<1>1. PICK d \in Calls : d = call[p] /\ d.pending \in DOMAIN file
  BY CallFacts DEF CardCancel, At
<1>2. UNCHANGED <<dm, room, origin, turn, spans, approvals>> /\ Returns(p)
  BY DEF CardCancel
<1>3. FileStep
  BY <1>1, CancelStep, Untouched DEF CardCancel
<1> QED
  BY <1>2, <1>3, ReturnsStep, Untouched, Zenon DEF Step

-----------------------------------------------------------------------------
(* The theorems                                                            *)

LEMMA FollowupInvInit ==
  ASSUME Init
  PROVE  FollowupInv
<1>1. NoCall \in Calls /\ NoCall.step = "idle"
  BY BoundsAreNat DEF NoCall, Call, Calls, Steps, MaybeText
<1>2. NoTurn \in [window : Windows, span : 0..MaxSpans]
  BY BoundsAreNat DEF NoTurn, Windows
<1>3. /\ file = <<>> /\ dm = <<>> /\ room = <<>> /\ approvals = {} /\ spans = 0
      /\ call = [p \in Procs |-> NoCall] /\ turn = [p \in Procs |-> NoTurn]
  BY DEF Init
<1>4. origin \in BOOLEAN
  BY Zenon DEF Init
<1>5. TypeOK
  <2>1. /\ file \in Seq(PendingRecord) /\ Len(file) <= MaxPendings
        /\ dm \in Seq(Rows) /\ room \in Seq(Rows)
        /\ turn \in [Procs -> [window : Windows, span : 0..MaxSpans]]
        /\ spans \in 0..MaxSpans
        /\ call \in [Procs -> Calls]
        /\ approvals \subseteq Pendings \X Revisions \X MaybeText
    BY <1>1, <1>2, <1>3, BoundsAreNat
  <2> QED
    BY <1>4, <2>1, Zenon DEF TypeOK, Calls
<1>6. Loadable /\ OneRowPerRevision /\ PostedIsApproved /\ WaitingIsAsked
      /\ ProposalsCounted /\ GoodCards
  BY <1>3 DEF Loadable, ActiveIn, OneRowPerRevision, PostedIsApproved, WaitingIsAsked,
              ProposalsCounted, GoodCards
<1>7. ResumedIsPosted
  <2>1. DOMAIN file = {}
    BY <1>3
  <2> QED
    BY <2>1, Zenon DEF ResumedIsPosted
<1>8. GoodCalls
  <2> SUFFICES ASSUME NEW p \in Procs PROVE Good(call[p])
    BY DEF GoodCalls
  <2>1. call[p].step = "idle"
    BY <1>1, <1>3
  <2> QED
    BY <2>1, Zenon DEF Good
<1> QED
  BY <1>5, <1>6, <1>7, <1>8 DEF FollowupInv

LEMMA NextKeeps ==
  ASSUME FollowupInv, Next
  PROVE  Step /\ CallStep
<1>1. ASSUME NEW p \in Procs, Tool(p)
      PROVE  Step /\ CallStep
  <2>1. CASE Ask(p) \/ AskInDm(p) \/ MarkWaiting(p) \/ PostCard(p)
    BY <2>1, AskKeeps, AskInDmKeeps, MarkWaitingKeeps, PostCardKeeps
  <2>2. ASSUME NEW i \in DOMAIN file, NEW text \in Texts, Resume(p, i, text)
        PROVE  Step /\ CallStep
    BY <2>2, ResumeKeeps
  <2>3. ASSUME NEW i \in DOMAIN file, NEW action \in {"ready", "done"},
               Settle(p, i, action)
        PROVE  Step /\ CallStep
    BY <2>3, SettleKeeps
  <2>4. ASSUME NEW i \in DOMAIN file, ToolCancel(p, i)
        PROVE  Step /\ CallStep
    BY <2>4, CancelKeeps
  <2> QED
    BY <1>1, <2>1, <2>2, <2>3, <2>4 DEF Tool
<1>2. ASSUME NEW p \in Procs, Consent(p)
      PROVE  Step /\ CallStep
  <2>1. ASSUME NEW k \in DOMAIN dm, NEW step \in {"stage", "keep", "cancel"},
               Choose(p, k, step)
        PROVE  Step /\ CallStep
    BY <2>1, ChooseKeeps
  <2>2. CASE Stage(p) \/ Post(p) \/ Finalize(p) \/ KeepPrivate(p) \/ CardCancel(p)
    BY <2>2, StageKeeps, PostKeeps, FinalizeKeeps, KeepPrivateKeeps, CardCancelKeeps
  <2>3. ASSUME NEW i \in DOMAIN file, CancelWindow(p, i)
        PROVE  Step /\ CallStep
    BY <2>3, CancelKeeps
  <2> QED
    BY <1>2, <2>1, <2>2, <2>3 DEF Consent
<1>3. ASSUME NEW p \in Procs, NEW window \in {"group", "dm"}, PlainTurn(p, window)
      PROVE  Step /\ CallStep
  BY <1>3, PlainTurnKeeps
<1>4. ASSUME NEW p \in Procs,
             UserTurn(p) \/ EndTurn(p) \/ Consume(p) \/ Receive(p) \/ Fail(p) \/ Crash(p)
      PROVE  Step /\ CallStep
  BY <1>4, UserTurnKeeps, EndTurnKeeps, ConsumeKeeps, ReceiveKeeps, FailKeeps
<1>5. CASE DeleteRoom
  BY <1>5, DeleteRoomKeeps
<1> QED
  BY <1>1, <1>2, <1>3, <1>4, <1>5 DEF Next

LEMMA FollowupInvStep ==
  ASSUME FollowupInv, [Next]_vars
  PROVE  FollowupInv'
<1>1. CASE Next
  BY <1>1, NextKeeps, StepKeepsInv
<1>2. CASE UNCHANGED vars
  <2>1. Step /\ CallStep
    BY <1>2, Untouched, Zenon DEF vars, Step
  <2> QED
    BY <2>1, StepKeepsInv
<1> QED
  BY <1>1, <1>2

LEMMA FollowupInvHolds == Spec => []FollowupInv
  BY FollowupInvInit, FollowupInvStep, PTL DEF Spec

\* The file, the rows and the calls have their types, whatever the processes
\* do and wherever they die.
THEOREM TypesHold == Spec => []TypeOK
<1>1. FollowupInv => TypeOK
  BY DEF FollowupInv
<1> QED
  BY <1>1, FollowupInvHolds, PTL

\* PrivateFollowupStore can load every file that it has saved.
THEOREM FileStaysLoadable == Spec => []Loadable
<1>1. FollowupInv => Loadable
  BY DEF FollowupInv
<1> QED
  BY <1>1, FollowupInvHolds, PTL

\* The room gets one row per revision: an approval that is repeated after a
\* crash between post_bot_room_message and finalize_resumed posts nothing.
THEOREM PostsOnce == Spec => []OneRowPerRevision
<1>1. FollowupInv => OneRowPerRevision
  BY DEF FollowupInv
<1> QED
  BY <1>1, FollowupInvHolds, PTL

\* post_bot_room_message shares nothing that the user has not approved: the
\* text in the room is the text of the card whose button was pressed, although
\* the bot may propose another while the approval is under way.
THEOREM NothingElseIsShared == Spec => []PostedIsApproved
<1>1. FollowupInv => PostedIsApproved
  BY DEF FollowupInv
<1> QED
  BY <1>1, FollowupInvHolds, PTL

\* finalize_resumed never runs ahead of the post, nor mark_waiting of the
\* question.
THEOREM StatusesAreEarned == Spec => []StatusIsEarned
<1>1. FollowupInv => StatusIsEarned
  BY DEF FollowupInv, StatusIsEarned
<1> QED
  BY <1>1, FollowupInvHolds, PTL

\* No transaction of PrivateFollowupStore changes a pending that has ended.
THEOREM EndsAreFinal == Spec => TerminalIsFinal
<1>1. FollowupInv /\ [Next]_vars =>
        [\A i \in DOMAIN file : /\ i \in DOMAIN file'
                                /\ file[i].status \in Terminal => file'[i] = file[i]]_vars
  <2> SUFFICES ASSUME FollowupInv, Next
               PROVE  \A i \in DOMAIN file :
                        /\ i \in DOMAIN file'
                        /\ file[i].status \in Terminal => file'[i] = file[i]
    OBVIOUS
  <2> QED
    BY NextKeeps, FileKeepsPendings DEF Step
<1> QED
  BY <1>1, FollowupInvHolds, PTL DEF Spec, TerminalIsFinal

================================================================================

---------------------------- MODULE PrivateFollowup ----------------------------
(***************************************************************************)
(* One bot's private follow-ups: PrivateFollowupStore of                    *)
(* thyca/bots/private_followups.py, the tools of thyca/bots/channel_tools.py *)
(* that open and decide one, the consent service of                        *)
(* thyca/app/private_followups.py, and the posts of                         *)
(* thyca/app/bot_posting/service.py, for one group room and the bot's DM.    *)
(*                                                                          *)
(* A process (the server, a CLI) runs all of this on one event loop with no  *)
(* await inside a call, and under the bot's lease: per process there is one  *)
(* turn and one call.  Across processes only the files are locked: each      *)
(* transaction of the store, and a whole consent call against another one.   *)
(* So an action is one transaction, or one append to a conversation, and a   *)
(* process may die, or a call raise, between any two.                        *)
(*                                                                          *)
(* The roster of the room and the pause of the bot change at any time and    *)
(* only refuse: a consent call that they refuse at once changes nothing, and  *)
(* a post that they refuse is Fail.                                          *)
(***************************************************************************)
EXTENDS Naturals, Sequences, FiniteSets

CONSTANTS
  Procs,        \* the processes on this root
  Texts,        \* the redacted texts that the bot may propose
  NoText,       \* None
  MaxPendings,  \* bound: the pendings of the file
  MaxRevision,  \* bound: the proposals of one pending
  MaxSpans,     \* bound: the turns ever started
  MaxRows       \* bound: the rows of the DM

ASSUME NoTextAssumption == NoText \notin Texts
ASSUME BoundsAssumption ==
  {MaxPendings, MaxRevision, MaxSpans, MaxRows} \subseteq Nat

VARIABLES
  file,       \* private_followups.json: the pendings, in the order of creation
  dm,         \* the rows of the bot's DM that matter here
  room,       \* the rows of kind private_resume in the origin room
  origin,     \* the origin room exists
  turn,       \* per process: the window of the bot's turn, and its span
  spans,      \* the number of turns started
  call,       \* per process: the call in progress, after its last step
  approvals   \* what the user has approved: pending, revision and text, as read

vars == <<file, dm, room, origin, turn, spans, call, approvals>>

Nonterminal == {"open", "waiting_private", "received"}
Terminal == {"resumed", "done", "cancelled", "expired"}
Outcomes == {"none", "ready", "resume", "done", "cancel"}
Windows == {"none", "group", "dm"}
Steps == {"idle", "ask", "wait", "consume", "receive", "card",
          "stage", "post", "finalize", "keep", "cancel"}

NoTurn == [window |-> "none", span |-> 0]
Call(step, pending, number, text) ==
  [step |-> step, pending |-> pending, number |-> number, text |-> text]
NoCall == Call("idle", 0, 0, NoText)

Init ==
  /\ file = <<>>
  /\ dm = <<>>
  /\ room = <<>>
  /\ origin = TRUE
  /\ turn = [p \in Procs |-> NoTurn]
  /\ spans = 0
  /\ call = [p \in Procs |-> NoCall]
  /\ approvals = {}

-----------------------------------------------------------------------------
(* The pendings                                                            *)

\* answer: the DM's row, 0 for None; approved: the revision, 0 for None.  The
\* markers of an approval and of a post are its pending and revision, so they
\* say nothing more; share_policy is "redacted" exactly when approved # 0.
NewPending(span) ==
  [status |-> "open", key |-> span, answer |-> 0, proposed |-> NoText,
   revision |-> 0, outcome |-> "none", approved |-> 0, operations |-> {}]

\* active: the pendings that are not at an end.
ActiveIn(f) == {i \in DOMAIN f : f[i].status \in Nonterminal}

\* _replayed and _commit, with the key and the payload of an operation.
Operation(name, key, payload) == [name |-> name, key |-> key, payload |-> payload]
Committed(q, op) == [q EXCEPT !.operations = @ \cup {op}]
Seen(q, op) == \E o \in q.operations : o.name = op.name /\ o.key = op.key

\* What receive, decide, keep_private and cancel make of a pending.
Answered(q, row) == [q EXCEPT !.status = "received", !.answer = row]
\* MUTANT of Propose: the approval of the earlier proposal is kept.
ProposeKeepingApproval(q, text) ==
  [q EXCEPT !.proposed = text, !.revision = @ + 1, !.outcome = "resume"]
Propose(q, text) ==
  [q EXCEPT !.proposed = text, !.revision = @ + 1, !.outcome = "resume",
            !.approved = 0]
Withdraw(q) == [q EXCEPT !.proposed = NoText, !.outcome = "ready", !.approved = 0]
Close(q, status, outcome) ==
  [q EXCEPT !.status = status, !.outcome = outcome, !.approved = 0]

\* MUTANT of MayCancel: a posted pending is cancelled.
MayCancelAny(q) == TRUE
MayCancel(q) == q.status \in Nonterminal

\* approve: what the user approved is the proposal as it stands.
\* MUTANT of MayApprove: the revision is not compared.
MayApproveAny(q, revision) == q.status = "received" /\ q.outcome = "resume"
MayApprove(q, revision) ==
  /\ q.status = "received" /\ q.outcome = "resume"
  /\ revision = q.revision /\ q.proposed # NoText

Approve(q, revision) == [q EXCEPT !.approved = revision]

MayFinalize(q, revision) ==
  /\ q.status = "received" /\ q.outcome = "resume"
  /\ q.approved = q.revision /\ q.approved = revision
  /\ q.proposed # NoText

-----------------------------------------------------------------------------
(* Calls and locks                                                         *)

At(p, step) == call[p].step = step
Goto(p, c) == call' = [call EXCEPT ![p] = c]
Returns(p) == Goto(p, NoCall)

\* The call's error ends the turn that made it.
Raises(p) ==
  /\ Returns(p)
  /\ turn' = [turn EXCEPT ![p] = NoTurn]

\* private_delivery.lock: a consent call holds it from its check to its end.
Consenting == {"stage", "post", "finalize", "keep", "cancel"}
DeliveryLockFree == \A p \in Procs : call[p].step \notin Consenting

\* A tool of the bot's turn in one window.
InTurn(p, window) == At(p, "idle") /\ turn[p].window = window
\* A request takes the lease: no turn of the bot in this process.
Leased(p) == At(p, "idle") /\ turn[p] = NoTurn

Row(kind, pending, revision, text) ==
  [kind |-> kind, pending |-> pending, revision |-> revision, text |-> text]
InDm(kind, pending, revision) ==
  \E k \in DOMAIN dm : /\ dm[k].kind = kind
                       /\ dm[k].pending = pending
                       /\ dm[k].revision = revision
\* Append to the DM unless a row with the same marker is there.
PostOnce(row) ==
  dm' = IF InDm(row.kind, row.pending, row.revision) THEN dm ELSE Append(dm, row)

\* MUTANT of Landed: the scan for the marker is left out.
LandedNever(pending, revision) == FALSE
\* MUTANT of Landed: the marker is the pending alone.
LandedEver(pending, revision) == \E k \in DOMAIN room : room[k].pending = pending
Landed(pending, revision) ==
  \E k \in DOMAIN room : room[k].pending = pending /\ room[k].revision = revision

-----------------------------------------------------------------------------
(* Turns                                                                   *)

Begin(p, window) ==
  /\ Leased(p)
  /\ spans < MaxSpans
  /\ spans' = spans + 1
  /\ turn' = [turn EXCEPT ![p] = [window |-> window, span |-> spans + 1]]

\* A turn in the group, or one in the DM that brings no new user message: a
\* retry, or the scheduler's.
PlainTurn(p, window) ==
  /\ window = "group" => origin
  /\ Begin(p, window)
  /\ UNCHANGED <<file, dm, room, origin, call, approvals>>

\* The user writes in the DM: the row lands before the turn goes on.
UserTurn(p) ==
  /\ Begin(p, "dm")
  /\ Len(dm) < MaxRows
  /\ dm' = Append(dm, Row("user", 0, 0, NoText))
  /\ Goto(p, Call("consume", 0, 0, NoText))
  /\ UNCHANGED <<file, room, origin, approvals>>

EndTurn(p) ==
  /\ At(p, "idle") /\ turn[p] # NoTurn
  /\ turn' = [turn EXCEPT ![p] = NoTurn]
  /\ UNCHANGED <<file, dm, room, origin, spans, call, approvals>>

\* consume_dm_pending: is an answer awaited, and which row is the last one?
Consume(p) ==
  /\ At(p, "consume")
  /\ \/ \E i \in ActiveIn(file) :
          /\ file[i].status = "waiting_private"
          /\ Goto(p, Call("receive", i, Len(dm), NoText))
     \/ /\ \A i \in ActiveIn(file) : file[i].status # "waiting_private"
        /\ Returns(p)
  /\ UNCHANGED <<file, dm, room, origin, turn, spans, approvals>>

\* receive; the key is the event's, which no other call has.
Receive(p) ==
  /\ At(p, "receive")
  /\ LET i == call[p].pending
     IN \/ /\ file[i].status = "waiting_private"
           /\ file' = [file EXCEPT ![i] = Answered(@, call[p].number)]
           /\ Returns(p)
           /\ UNCHANGED turn
        \/ /\ file[i].status # "waiting_private"
           /\ Raises(p)
           /\ UNCHANGED file
  /\ UNCHANGED <<dm, room, origin, spans, approvals>>

-----------------------------------------------------------------------------
(* The tool ask_private                                                    *)

\* MUTANT of Created: the pending waits before its question is posted.
CreatedWaiting(f, span) == Append(f, [NewPending(span) EXCEPT !.status = "waiting_private"])
\* The file with one more pending.
Created(f, span) == Append(f, NewPending(span))

\* create: the pending of the same call, or a new one if none is active.
Ask(p) ==
  /\ InTurn(p, "group")
  /\ LET span == turn[p].span
         again == {i \in DOMAIN file : file[i].key = span}
     IN \/ \E i \in again :
             /\ file[i].status = "open"
             /\ Goto(p, Call("ask", i, 0, NoText))
             /\ UNCHANGED file
        \/ /\ again = {} /\ ActiveIn(file) = {}
           /\ Len(file) < MaxPendings
           /\ file' = Created(file, span)
           /\ Goto(p, Call("ask", Len(file) + 1, 0, NoText))
  /\ UNCHANGED <<dm, room, origin, turn, spans, approvals>>

\* post_bot_dm_message, once per question.
AskInDm(p) ==
  /\ At(p, "ask")
  /\ Len(dm) < MaxRows
  /\ PostOnce(Row("question", call[p].pending, 0, NoText))
  /\ Goto(p, [call[p] EXCEPT !.step = "wait"])
  /\ UNCHANGED <<file, room, origin, turn, spans, approvals>>

\* mark_waiting; it raises when the pending has gone on.
MarkWaiting(p) ==
  /\ At(p, "wait")
  /\ file' = IF file[call[p].pending].status = "open"
             THEN [file EXCEPT ![call[p].pending].status = "waiting_private"]
             ELSE file
  /\ Returns(p)
  /\ UNCHANGED <<dm, room, origin, turn, spans, approvals>>

-----------------------------------------------------------------------------
(* The tool private_followup                                               *)

\* decide with "resume": a replay shows the pending as it now stands.
Resume(p, i, text) ==
  LET op == Operation("resume", turn[p].span, text)
  IN /\ InTurn(p, "dm")
     /\ \/ op \in file[i].operations /\ UNCHANGED file
        \/ /\ ~Seen(file[i], op)
           /\ file[i].status = "received" /\ file[i].revision < MaxRevision
           /\ file' = [file EXCEPT ![i] = Committed(Propose(@, text), op)]
     /\ Goto(p, Call("card", i, file'[i].revision, file'[i].proposed))
     /\ UNCHANGED <<dm, room, origin, turn, spans, approvals>>

\* post_bot_dm_card: the preview, once per revision.
PostCard(p) ==
  /\ At(p, "card")
  /\ Len(dm) < MaxRows
  /\ PostOnce(Row("card", call[p].pending, call[p].number, call[p].text))
  /\ Returns(p)
  /\ UNCHANGED <<file, room, origin, turn, spans, approvals>>

\* decide with "ready" or "done"; a replay changes nothing.
Settle(p, i, action) ==
  LET op == Operation(action, turn[p].span, NoText)
  IN /\ InTurn(p, "dm")
     /\ ~Seen(file[i], op)
     /\ file[i].status = "received"
     /\ file' = [file EXCEPT ![i] = Committed(
          IF action = "ready" THEN Withdraw(@) ELSE Close(@, "done", "done"), op)]
     /\ UNCHANGED <<dm, room, origin, turn, spans, call, approvals>>

\* cancel, from the DM or the origin room: no delivery lock.
ToolCancel(p, i) ==
  /\ At(p, "idle") /\ turn[p] # NoTurn
  /\ MayCancel(file[i])
  /\ file' = [file EXCEPT ![i] = Close(@, "cancelled", "cancel")]
  /\ UNCHANGED <<dm, room, origin, turn, spans, call, approvals>>

-----------------------------------------------------------------------------
(* The consent service                                                     *)

\* _decide, up to the choice: the user has pressed a button of a card.
Choose(p, k, step) ==
  LET i == dm[k].pending
      revision == dm[k].revision
  IN /\ Leased(p) /\ DeliveryLockFree
     /\ dm[k].kind = "card"
     /\ revision = file[i].revision
     /\ step = "stage" => file[i].status # "resumed" /\ origin
     /\ Goto(p, Call(step, i, revision, NoText))
     /\ approvals' = IF step = "stage"
                     THEN approvals \cup {<<i, revision, dm[k].text>>}
                     ELSE approvals
     /\ UNCHANGED <<file, dm, room, origin, turn, spans>>

\* approve: staged now, or by the call that this one repeats.
Stage(p) ==
  /\ At(p, "stage")
  /\ LET i == call[p].pending
         revision == call[p].number
         op == Operation("approve", revision, NoText)
         again == Seen(file[i], op)
     IN \/ /\ again /\ file[i].approved = revision
           /\ Goto(p, Call("post", i, revision, file[i].proposed))
           /\ UNCHANGED file
        \/ /\ ~again /\ MayApprove(file[i], revision)
           /\ file' = [file EXCEPT ![i] =
                Committed(Approve(@, revision), op)]
           /\ Goto(p, Call("post", i, revision, file[i].proposed))
        \/ /\ IF again THEN file[i].approved # revision
                       ELSE ~MayApprove(file[i], revision)
           /\ Returns(p)
           /\ UNCHANGED file
  /\ UNCHANGED <<dm, room, origin, turn, spans, approvals>>

\* post_bot_room_message: refused when the room is gone.
Post(p) ==
  /\ At(p, "post")
  /\ LET c == call[p]
     IN IF ~origin
        THEN Returns(p) /\ UNCHANGED room
        ELSE /\ room' = IF Landed(c.pending, c.number) THEN room
                        ELSE Append(room, Row("private_resume", c.pending, c.number, c.text))
             /\ Goto(p, [c EXCEPT !.step = "finalize"])
  /\ UNCHANGED <<file, dm, origin, turn, spans, approvals>>

\* finalize_resumed.
Finalize(p) ==
  /\ At(p, "finalize")
  /\ LET i == call[p].pending
     IN file' = IF MayFinalize(file[i], call[p].number)
                THEN [file EXCEPT ![i].status = "resumed"]
                ELSE file
  /\ Returns(p)
  /\ UNCHANGED <<dm, room, origin, turn, spans, approvals>>

\* keep_private.
KeepPrivate(p) ==
  /\ At(p, "keep")
  /\ LET i == call[p].pending
     IN file' = IF /\ file[i].status = "received"
                   /\ file[i].revision = call[p].number
                THEN [file EXCEPT ![i] = Withdraw(@)]
                ELSE file
  /\ Returns(p)
  /\ UNCHANGED <<dm, room, origin, turn, spans, approvals>>

\* cancel, pressed on the card.
CardCancel(p) ==
  /\ At(p, "cancel")
  /\ LET i == call[p].pending
     IN file' = IF MayCancel(file[i])
                THEN [file EXCEPT ![i] = Close(@, "cancelled", "cancel")]
                ELSE file
  /\ Returns(p)
  /\ UNCHANGED <<dm, room, origin, turn, spans, approvals>>

\* cancel_window: the stop button of the DM or of the origin room.
CancelWindow(p, i) ==
  /\ Leased(p) /\ DeliveryLockFree
  /\ MayCancel(file[i])
  /\ file' = [file EXCEPT ![i] = Close(@, "cancelled", "cancel")]
  /\ UNCHANGED <<dm, room, origin, turn, spans, call, approvals>>

-----------------------------------------------------------------------------
(* What may go wrong, and the rest of the program                          *)

\* A store or a post raises: the tool reports it, a request fails, and the turn
\* that consumes an answer ends.
Fail(p) ==
  /\ call[p] # NoCall
  /\ IF call[p].step \in {"consume", "receive"}
     THEN Raises(p)
     ELSE Returns(p) /\ UNCHANGED turn
  /\ UNCHANGED <<file, dm, room, origin, spans, approvals>>

\* The process dies; the kernel drops its file locks.
Crash(p) ==
  /\ call[p] # NoCall \/ turn[p] # NoTurn
  /\ Raises(p)
  /\ UNCHANGED <<file, dm, room, origin, spans, approvals>>

\* The room is deleted.
DeleteRoom ==
  /\ origin
  /\ origin' = FALSE
  /\ room' = <<>>
  /\ UNCHANGED <<file, dm, turn, spans, call, approvals>>

Tool(p) ==
  \/ Ask(p) \/ AskInDm(p) \/ MarkWaiting(p) \/ PostCard(p)
  \/ \E i \in DOMAIN file :
       \/ \E text \in Texts : Resume(p, i, text)
       \/ \E action \in {"ready", "done"} : Settle(p, i, action)
       \/ ToolCancel(p, i)

Consent(p) ==
  \/ \E k \in DOMAIN dm, step \in {"stage", "keep", "cancel"} : Choose(p, k, step)
  \/ Stage(p) \/ Post(p) \/ Finalize(p) \/ KeepPrivate(p) \/ CardCancel(p)
  \/ \E i \in DOMAIN file : CancelWindow(p, i)

Next ==
  \/ \E p \in Procs :
       \/ \E window \in {"group", "dm"} : PlainTurn(p, window)
       \/ UserTurn(p) \/ EndTurn(p) \/ Consume(p) \/ Receive(p)
       \/ Tool(p) \/ Consent(p) \/ Fail(p) \/ Crash(p)
  \/ DeleteRoom

Spec == Init /\ [][Next]_vars

-----------------------------------------------------------------------------
(* Properties                                                              *)

Revisions == 0..MaxRevision
Pendings == 1..MaxPendings
MaybeText == Texts \cup {NoText}
Operations ==
  [name : {"resume", "ready", "done", "approve"}, key : Nat, payload : MaybeText]
PendingRecord ==
  [status : Nonterminal \cup Terminal, key : Nat, answer : Nat,
   proposed : MaybeText, revision : Revisions, outcome : Outcomes,
   approved : Revisions, operations : SUBSET Operations]
Rows == [kind : {"user", "question", "card", "private_resume"},
         pending : 0..MaxPendings, revision : Revisions, text : MaybeText]

\* Types.
TypeOK ==
  /\ file \in Seq(PendingRecord)
  /\ Len(file) <= MaxPendings
  /\ dm \in Seq(Rows)
  /\ room \in Seq(Rows)
  /\ origin \in BOOLEAN
  /\ turn \in [Procs -> [window : Windows, span : 0..MaxSpans]]
  /\ spans \in 0..MaxSpans
  /\ call \in [Procs -> [step : Steps, pending : 0..MaxPendings,
                         number : Nat, text : MaybeText]]
  /\ approvals \subseteq Pendings \X Revisions \X MaybeText

\* The file can be read again: _save and the next _load accept every pending
\* (from_dict), and at most one is active.  A pending that they refuse would
\* leave the bot without any follow-up for good.
Valid(q) ==
  /\ q.proposed # NoText => q.revision >= 1
  /\ q.approved # 0 => /\ q.approved = q.revision
                       /\ q.proposed # NoText
                       /\ q.outcome = "resume"
                       /\ q.status \in {"received", "resumed"}
  /\ q.status \in {"received", "resumed", "done"} => q.answer # 0
  /\ q.status = "resumed" => q.approved # 0
Loadable ==
  /\ \A i \in DOMAIN file : Valid(file[i])
  /\ \A i, j \in ActiveIn(file) : i = j

\* The room gets the text of one revision once, whatever dies between the post
\* and the finalization, and whoever repeats the approval.
OneRowPerRevision ==
  \A j, k \in DOMAIN room :
    room[j].pending = room[k].pending /\ room[j].revision = room[k].revision
      => j = k

\* Every text in the room is one that the user has read on a card and approved.
PostedIsApproved ==
  \A k \in DOMAIN room :
    <<room[k].pending, room[k].revision, room[k].text>> \in approvals

\* A pending that counts as resumed has its text in the room.
ResumedIsPosted ==
  \A i \in DOMAIN file :
    file[i].status = "resumed" /\ origin =>
      \E k \in DOMAIN room : /\ room[k].pending = i
                             /\ room[k].revision = file[i].approved

\* A pending is taken to wait, or to be answered, only after its question is in
\* the DM.
WaitingIsAsked ==
  \A i \in DOMAIN file :
    file[i].status \in {"waiting_private", "received", "resumed", "done"}
      => InDm("question", i, 0)

\* What the status of a pending says has been done: the approved text is in the
\* room of one that is resumed, and the question in the DM of one that waits.
StatusIsEarned == ResumedIsPosted /\ WaitingIsAsked

\* A pending that has ended stays as it is, and none is ever removed.
TerminalIsFinal ==
  [][\A i \in DOMAIN file :
       /\ i \in DOMAIN file'
       /\ file[i].status \in Terminal => file'[i] = file[i]]_vars

================================================================================

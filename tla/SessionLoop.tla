----------------------------- MODULE SessionLoop -----------------------------
(***************************************************************************)
(* One canonical session of a bot: its turns (agents/loop.py: rounds of    *)
(* model replies and tool calls, the shrinking of old tool results, the    *)
(* limits), and the compactions of its transcript                          *)
(* (agents/compacting.py, conversations/runtime/compaction.py and          *)
(* manager.py).                                                            *)
(*                                                                         *)
(* A turn, a manual compaction and the idle sweep hold the bot's lease.    *)
(* The compact tool does not end with it: a tool that outlives the soft    *)
(* timeout, or the cancellation of its turn, goes on, so its summary may   *)
(* come back in a later round or during a later turn.  All of it runs on   *)
(* one event loop.                                                         *)
(***************************************************************************)
EXTENDS Integers, Sequences, SequencesExt, FiniteSets, FiniteSetsExt, Positions

CONSTANTS
    CallSeq,      \* the call ids a reply may use, in order; rounds reuse them
    MaxTurns,     \* bound: turns
    MaxRounds,    \* loop_max
    MaxJobs,      \* bound: summaries asked for
    MaxTorn,      \* bound: crashes amid the rows of a round
    Backstop,     \* 95% of the context: compacts before a turn, ends a round
    Trigger,      \* 80%: above it old tool results are shrunk ...
    Target,       \* 70%: ... until the estimate is below this
    Signal,       \* what the context_budget section weighs, in each request
    TailBudget    \* what a compaction may keep

\* A reply uses an id once.
ASSUME SessionLoopAssumption ==
    /\ CallSeq \in Seq(ToSet(CallSeq)) /\ IsInjective(CallSeq)
    /\ {MaxTurns, MaxRounds, MaxJobs, MaxTorn} \subseteq Nat
    /\ {Backstop, Trigger, Target, Signal, TailBudget} \subseteq Nat

VARIABLES
    view,       \* the stored transcript (the projection of the journal)
    mem,        \* session.messages of the running turn's manager
    loop,       \* the running turn
    job,        \* job["start"], job["tool"]: compactions that await a summary
    asked,      \* summaries asked for so far
    split,      \* crashes amid the rows of a round so far
    said        \* history: ids of the rows said and not retracted by a retry

sessionVars == <<view, mem, loop, job, asked, split, said>>

\* A row: set is the calls of a call row, the call a tool row answers, the
\* rows that a compaction marker stands for.
Row(kind, id, set) == [kind |-> kind, id |-> id, set |-> set, err |-> FALSE]
NoJob == [step |-> "none", snap |-> <<>>, turn |-> 0, force |-> FALSE]
IdleLoop(n) == [n |-> n, step |-> "idle", stage |-> <<>>, round |-> 0,
                calls |-> {}, retry |-> FALSE, start |-> 0, compacted |-> FALSE]

SessionInit ==
    /\ view = <<>>
    /\ mem = <<>>
    /\ loop = IdleLoop(0)
    /\ job = [j \in {"start", "tool"} |-> NoJob]
    /\ asked = 0
    /\ split = 0
    /\ said = {}

Ids(rows) == {rows[i].id : i \in DOMAIN rows} \ {0}
Covered(rows) == UNION {rows[i].set : i \in {k \in DOMAIN rows : rows[k].kind = "mark"}}
NextId == Max({0} \cup said \cup Ids(view) \cup Covered(view)) + 1
LastUser(rows) == Max({0} \cup {i \in DOMAIN rows : rows[i].kind = "user"})

-----------------------------------------------------------------------------
(* The compaction plan.                                                    *)

\* Wire tokens: a tool result is twice any other row until it is shrunk.
Weight(rows) == Len(rows) + Cardinality({i \in DOMAIN rows : rows[i].kind = "tool"})

\* _turns: a piece ends with an assistant or tool row when no call is pending.
PendingAt(rows, i) ==
    {c \in ToSet(CallSeq) :
        \E j \in 1..i : /\ rows[j].kind = "call" /\ c \in rows[j].set
                        /\ \A k \in j..i : rows[k].kind = "tool" => c \notin rows[k].set}
\* MUTANT of EndsPiece: a piece may end between a call and its answer.
EndsAnywhere(rows, i) == TRUE
EndsPiece(rows, i) == rows[i].kind # "user" /\ PendingAt(rows, i) = {}

Body(rows) == KeptAt(rows, {i \in DOMAIN rows : rows[i].kind # "mark"})
Marks(rows) == KeptAt(rows, {i \in DOMAIN rows : rows[i].kind = "mark"})
\* The rows that go: everything before the longest tail of whole pieces that
\* the budget allows, or before the last piece if that is over it alone.
Omit(body) ==
    LET cuts == {0} \cup {i \in 1..(Len(body) - 1) : EndsPiece(body, i)}
        fits == {c \in cuts : Weight(SubSeq(body, c + 1, Len(body))) <= TailBudget}
    IN IF body = <<>> THEN 0 ELSE IF fits # {} THEN Min(fits) ELSE Max(cuts)

\* MUTANT of Due: the text that the user is about to add is not counted.
DueWithoutPending(rows, force) ==
    /\ force \/ Weight(rows) > Backstop
    /\ Omit(Body(rows)) > 0
\* plan, then render: nothing is due below the threshold (unless forced), or
\* when all rows fit.  An earlier marker is merged into the new one.
Due(rows, force) ==
    /\ force \/ Weight(rows) + 1 > Backstop
    /\ Omit(Body(rows)) > 0
Rendered(rows) ==
    LET body == Body(rows)
        cut == Omit(body)
        covers == Ids(SubSeq(body, 1, cut)) \cup Covered(rows)
    IN <<Row("mark", 0, covers)>> \o SubSeq(body, cut + 1, Len(body))
Compacted(rows, force) == IF Due(rows, force) THEN Rendered(rows) ELSE rows

\* MUTANT of StillMatches: the transcript is not compared with what was summarised.
StillMatchesAny(snap) == TRUE
\* apply_compaction: the summary lands only on the rows it was made of.
StillMatches(snap) == view = snap

-----------------------------------------------------------------------------
(* A turn.                                                                 *)

\* Steps with no await in them: nothing else runs on the loop.
Yielding == loop.step \notin {"ready", "round"}
LeaseFree == loop.step = "idle" /\ job["start"] = NoJob

\* load, and for a retry truncate_to_last_user: the rows after the last user
\* row leave the view, and so does its failure mark.
BeginLoop(retry) ==
    LET kept == SubSeq(view, 1, LastUser(view))
    IN /\ LeaseFree /\ loop.n < MaxTurns
       /\ retry => LastUser(view) > 0
       /\ mem' = IF retry THEN [kept EXCEPT ![Len(kept)].err = FALSE] ELSE view
       /\ view' = mem'
       /\ said' = Ids(view') \cup Covered(view')
       /\ loop' = [IdleLoop(loop.n + 1) EXCEPT !.step = "loaded", !.retry = retry]
       /\ UNCHANGED <<job, asked, split>>

\* run, to the first await: the plan is made from the rows in memory.
PreCompact ==
    /\ loop.step = "loaded"
    /\ IF Due(mem, FALSE)
       THEN /\ asked < MaxJobs /\ asked' = asked + 1
            /\ job' = [job EXCEPT !["start"] = [step |-> "asking", snap |-> mem,
                                                turn |-> loop.n, force |-> FALSE]]
            /\ loop' = [loop EXCEPT !.step = "compacting"]
       ELSE /\ loop' = [loop EXCEPT !.step = "ready"]
            /\ UNCHANGED <<job, asked>>
    /\ UNCHANGED <<view, mem, split, said>>

\* The summary comes back, or fails: the marker lands if the transcript is
\* still what was summarized, followed by the row with its cost; else the
\* rule-based excerpt compacts whatever is there now.
SummaryBack(j, ok) ==
    LET landed == ok /\ StillMatches(job[j].snap)
        rows == IF landed THEN Append(Rendered(job[j].snap), Row("side", 0, {}))
                          ELSE Compacted(view, job[j].force)
        mine == loop.step # "idle" /\ job[j].turn = loop.n
    IN /\ job[j].step = "asking" /\ Yielding
       /\ view' = rows
       /\ mem' = IF mine THEN rows ELSE mem
       /\ job' = [job EXCEPT ![j] = NoJob]
       /\ loop' = IF j = "start" /\ mine
                  THEN [loop EXCEPT !.step = "ready", !.compacted = (landed \/ rows # view)]
                  ELSE loop
       /\ UNCHANGED <<asked, split, said>>

\* The budget signal joins the hot prompt, then assemble: markers first, no cost
\* rows, then the user's text, which is put on record unless it already is (a
\* retry).
Wire(rows) ==
    Marks(rows) \o KeptAt(rows, {i \in DOMAIN rows : rows[i].kind \notin {"mark", "side"}})
Assemble ==
    LET fresh == IF loop.retry THEN <<>> ELSE <<Row("user", NextId, {})>>
    IN /\ loop.step = "ready"
       /\ mem' = mem \o fresh
       /\ view' = view \o fresh
       /\ said' = said \cup Ids(fresh)
       /\ loop' = [loop EXCEPT !.step = "round", !.stage = Wire(mem) \o fresh,
                               !.start = Len(mem)]
       /\ UNCHANGED <<job, asked, split>>

\* What the guard counts: the signal too, which no plan above has counted.
Estimate(s) == Weight(s) + Signal
\* shrink_stage_messages: oldest tool results first, those of this run's last
\* three rounds excepted (MaxRounds is below three: all of this run's), until
\* the estimate is under the target.  Only the stage is changed.
Shrinkable(s) == {i \in DOMAIN s : s[i].kind = "tool" /\ i <= loop.start}
Shrunk(s) ==
    LET old == Shrinkable(s)
        n == Cardinality(old)
        enough == Min({n} \cup {k \in 1..n : Estimate(s) - k < Target})
    IN IF Estimate(s) <= Trigger THEN s
       ELSE [i \in DOMAIN s |->
               IF i \in old /\ Cardinality({k \in old : k <= i}) <= enough
               THEN [s[i] EXCEPT !.kind = "shrunk"] ELSE s[i]]

Put(rows) ==
    /\ view' = view \o rows
    /\ mem' = mem \o rows
    /\ said' = said \cup Ids(rows)

\* The top of a round: the request goes out, or the turn ends at the limit.
Ask ==
    LET sent == Shrunk(loop.stage)
    IN /\ loop.step = "round"
       /\ IF Estimate(sent) > Backstop
          THEN /\ Put(<<Row("reply", NextId, {})>>)
               /\ loop' = [IdleLoop(loop.n) EXCEPT !.step = "limit", !.round = loop.round + 1,
                                                   !.start = loop.start,
                                                   !.compacted = loop.compacted]
          ELSE /\ loop' = [loop EXCEPT !.step = "think", !.stage = sent, !.round = @ + 1]
               /\ UNCHANGED <<view, mem, said>>
       /\ UNCHANGED <<job, asked, split>>

\* A reply without calls ends the turn; one with calls starts them.
Answered ==
    /\ loop.step = "think"
    /\ Put(<<Row("reply", NextId, {})>>)
    /\ loop' = IdleLoop(loop.n)
    /\ UNCHANGED <<job, asked, split>>
CallTools(calls) ==
    /\ loop.step = "think"
    /\ calls # {}
    /\ loop' = [loop EXCEPT !.step = "act", !.calls = calls]
    /\ UNCHANGED <<view, mem, job, asked, split, said>>

\* The compact tool: one at a time, forced, planned from the rows in memory,
\* which the current round is not part of yet.
CallCompact ==
    /\ loop.step = "act"
    /\ job["tool"] = NoJob /\ asked < MaxJobs
    /\ Due(mem, TRUE)
    /\ asked' = asked + 1
    /\ job' = [job EXCEPT !["tool"] = [step |-> "asking", snap |-> mem,
                                       turn |-> loop.n, force |-> TRUE]]
    /\ UNCHANGED <<view, mem, loop, split, said>>

\* observe: the calls and then their results, one append each; the results of
\* tools that run on say so.  At the last round a closing row follows.
RoundRows ==
    LET answered == KeptAt(CallSeq, {i \in DOMAIN CallSeq : CallSeq[i] \in loop.calls})
    IN <<Row("call", NextId, loop.calls)>>
       \o [i \in DOMAIN answered |-> Row("tool", NextId + i, {answered[i]})]
Observe ==
    LET last == loop.round = MaxRounds
        limit == <<Row("reply", NextId + Len(RoundRows), {})>>
    IN /\ loop.step = "act"
       /\ Put(IF last THEN RoundRows \o limit ELSE RoundRows)
       /\ loop' = IF last THEN IdleLoop(loop.n)
                  ELSE [loop EXCEPT !.step = "round", !.stage = @ \o RoundRows, !.calls = {}]
       /\ UNCHANGED <<job, asked, split>>

\* The provider fails: mark_turn_error rewrites the view from the rows in
\* memory, with the mark on the user's row.
LoopRaises ==
    /\ loop.step = "think" /\ LastUser(mem) > 0
    /\ view' = [mem EXCEPT ![LastUser(mem)].err = TRUE]
    /\ mem' = view'
    /\ loop' = IdleLoop(loop.n)
    /\ UNCHANGED <<job, asked, split, said>>

\* Stop: no row is written; a compaction that the turn waits for ends with it,
\* the compact tool runs on.
CancelLoop ==
    /\ loop.step \in {"compacting", "think", "act"}
    /\ loop' = IdleLoop(loop.n)
    /\ job' = [job EXCEPT !["start"] = NoJob]
    /\ UNCHANGED <<view, mem, asked, split, said>>

EndAtLimit ==
    /\ loop.step = "limit"
    /\ loop' = IdleLoop(loop.n)
    /\ UNCHANGED <<view, mem, job, asked, split, said>>

\* The process dies, between two steps or amid the appends of a round.
Restart ==
    /\ loop' = IdleLoop(loop.n)
    /\ mem' = <<>>
    /\ job' = [j \in DOMAIN job |-> NoJob]
CrashLoop == loop.step # "idle" /\ Restart /\ UNCHANGED <<view, asked, split, said>>
CrashInObserve ==
    /\ loop.step = "act" /\ split < MaxTorn
    /\ split' = split + 1
    /\ \E k \in 1..(Len(RoundRows) - 1) :
          /\ view' = view \o SubSeq(RoundRows, 1, k)
          /\ said' = said \cup Ids(SubSeq(RoundRows, 1, k))
    /\ Restart
    /\ UNCHANGED asked

\* The idle sweep compacts by the rule; the user's compaction asks for a summary.
Sweep ==
    /\ LeaseFree /\ Due(view, TRUE)
    /\ view' = Rendered(view)
    /\ UNCHANGED <<mem, loop, job, asked, split, said>>
CompactManually ==
    /\ LeaseFree /\ Due(view, TRUE) /\ asked < MaxJobs
    /\ asked' = asked + 1
    /\ job' = [job EXCEPT !["start"] = [step |-> "asking", snap |-> view,
                                        turn |-> 0, force |-> TRUE]]
    /\ UNCHANGED <<view, mem, loop, split, said>>

SessionNext ==
    \/ \E retry \in BOOLEAN : BeginLoop(retry)
    \/ PreCompact \/ Assemble \/ Ask \/ Answered \/ Observe
    \/ \E calls \in SUBSET ToSet(CallSeq) : CallTools(calls)
    \/ CallCompact
    \/ \E j \in DOMAIN job, ok \in BOOLEAN : SummaryBack(j, ok)
    \/ LoopRaises \/ CancelLoop \/ EndAtLimit \/ CrashLoop \/ CrashInObserve
    \/ Sweep \/ CompactManually

SessionSpec == SessionInit /\ [][SessionNext]_sessionVars

-----------------------------------------------------------------------------
(* Properties.                                                             *)

\* Compactions that race with appends, retries, failures and one another lose
\* no row and keep none twice: each is in the transcript or behind its marker.
NothingForgotten ==
    /\ Ids(view) \cup Covered(view) = said
    /\ Ids(view) \cap Covered(view) = {}
    /\ \A i, k \in DOMAIN view : view[i].id = view[k].id /\ view[i].id > 0 => i = k

\* Every request pairs each call with its results, right behind it, and has no
\* result without its call: no compaction or retry has split a round.
Paired(s) ==
    \A i \in DOMAIN s :
       /\ s[i].kind = "call" =>
             /\ i + Cardinality(s[i].set) <= Len(s)
             /\ \A c \in s[i].set : \E k \in (i + 1)..(i + Cardinality(s[i].set)) :
                   s[k].kind \in {"tool", "shrunk"} /\ s[k].set = {c}
       /\ s[i].kind \in {"tool", "shrunk"} => \E k \in 1..(i - 1) : s[k].kind = "call"
RequestsArePaired == loop.step = "think" => Paired(loop.stage)

\* A turn that ends at the context limit before its first request has compacted
\* first, unless all it found was one piece, of which nothing may be omitted, or
\* what it found was within the signal's weight of the backstop.  (That last case
\* is the dead zone that core/context.py says there is none of: compaction.py
\* plans without the signal, which the guard of the first request counts.)
NoDeadZone ==
    LET found == SubSeq(mem, 1, loop.start)
    IN loop.step = "limit" /\ loop.round = 1
           => \/ loop.compacted
              \/ Omit(Body(found)) = 0
              \/ Weight(found) + 1 \in (Backstop - Signal + 1)..Backstop

\* NothingForgotten holds whatever dies; the other two as long as no round was
\* cut by a crash between the appends of observe.
SessionSafe == NothingForgotten /\ (split = 0 => RequestsArePaired /\ NoDeadZone)
=============================================================================

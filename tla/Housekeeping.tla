----------------------------- MODULE Housekeeping -----------------------------
(***************************************************************************)
(* The scheduler thread of the server (serve/server.py, bots/scheduler.py) *)
(* and the jobs it runs (app/background_jobs): a tick sweeps the idle      *)
(* windows of the bots, has Thyca merge the profiles that the bots wrote,  *)
(* and gives the bots that are due a turn; then it sleeps for a minute.    *)
(* Turns of the user, edits of the profiles and the clock go on meanwhile. *)
(*                                                                         *)
(* Time is counted in half minutes.  Each bot has one window, whose rows   *)
(* are numbered from 1.                                                    *)
(***************************************************************************)
EXTENDS Naturals, Sequences, FiniteSets

CONSTANTS
    HostedBots,
    Thyca,
    Schedule,       \* Schedule[b]: the cron fields of the card, or NoSchedule
    NoSchedule,
    DayLength,      \* minutes of a day, hour and minute being one field
    IdleAfter,      \* idle_s, in half minutes
    ReviewEvery,    \* 24 h, in half minutes
    TailRows,       \* the rows that transcript_tail keeps: 12000 characters
    MaxTime,        \* bound: the clock
    MaxTurnRows,    \* bound: rows that the user's turns append to a window
    MaxEdits        \* bound: versions of a profile

ASSUME HousekeepingAssumption ==
    /\ Thyca \in HostedBots /\ DOMAIN Schedule = HostedBots
    /\ {DayLength, TailRows} \subseteq Nat \ {0}
    /\ {IdleAfter, ReviewEvery, MaxTime, MaxTurnRows, MaxEdits} \subseteq Nat

VARIABLES
    now,
    tick,        \* the pass of the scheduler thread
    wakeAt,      \* when it wakes up next
    lease,       \* lease[b]: "free", "turn" or "sweep"
    appended,    \* appended[b]: the newest row of the window, 0 if there is none
    trimmed,     \* trimmed[b]: the newest row that was compacted away
    touched,     \* touched[b]: when the newest was appended
    profile,     \* profile[b]: the version of the bot's profile, 0 if it has none
    signatures,  \* _profile_signatures: the versions last reviewed, or none
    reviewedAt,  \* _profile_last_run
    handed,      \* history: handed[b]: rows that were given to the extractor
    reviewed,    \* history: the profile versions that Thyca was shown, 0 for none
    missed,      \* history: the versions that could not be read for a review
    fired        \* history: the minutes for which each bot was given a turn

jobVars == <<appended, trimmed, touched, lease, handed>>
profileVars == <<profile, signatures, reviewedAt, reviewed, missed>>
housekeepingVars == <<now, tick, wakeAt, jobVars, profileVars, fired>>

\* A pass.  at: the newest row of the transcript in hand, later the time of the
\* signatures.
Asleep == [phase |-> "asleep", moment |-> 0, todo |-> {}, bot |-> Thyca,
           at |-> 0, signed |-> <<>>, read |-> <<>>]
Tick(phase) == tick.phase = phase

HousekeepingInit ==
    /\ now = 0 /\ tick = Asleep /\ wakeAt = 0
    /\ lease = [b \in HostedBots |-> "free"]
    /\ appended = [b \in HostedBots |-> 0]
    /\ trimmed = [b \in HostedBots |-> 0]
    /\ touched = [b \in HostedBots |-> 0]
    /\ profile = [b \in HostedBots |-> 0]
    /\ signatures = <<>> /\ reviewedAt = 0
    /\ handed = [b \in HostedBots |-> {}]
    /\ reviewed = [b \in HostedBots |-> {}]
    /\ missed = [b \in HostedBots |-> {}]
    /\ fired = [b \in HostedBots |-> <<>>]

-----------------------------------------------------------------------------
(* Cron.  A field is a set of parts; a part is a range with a step, "star" *)
(* and a single number being ranges.                                       *)

Part(low, high, step) == [low |-> low, high |-> high, step |-> step]
MatchField(field, value) ==
    \E p \in field : /\ p.low <= value /\ value <= p.high
                     /\ (value - p.low) % p.step = 0

\* _dow_matches: 7 is Sunday too.
DowMatches(field, day) == \E d \in 0 .. 7 : MatchField(field, d) /\ d % 7 = day

\* due: day of month and day of week are alternatives when both are restricted.
Due(schedule, moment) ==
    LET minute == moment \div 2
        day == minute \div DayLength
        dom == MatchField(schedule.dom, 1 + day)
        dow == DowMatches(schedule.dow, day % 7)
    IN /\ schedule # NoSchedule
       /\ MatchField(schedule.minute, minute % DayLength)
       /\ IF schedule.anyDom \/ schedule.anyDow THEN dom /\ dow ELSE dom \/ dow

-----------------------------------------------------------------------------
(* The world around the thread.                                            *)

Passes ==
    /\ now < MaxTime
    /\ now' = now + 1
    /\ UNCHANGED <<tick, wakeAt, jobVars, profileVars, fired>>

\* A turn of the user: under the lease it appends a row.
UserTurn(b) ==
    /\ lease[b] = "free"
    /\ lease' = [lease EXCEPT ![b] = "turn"]
    /\ UNCHANGED <<now, tick, wakeAt, appended, trimmed, touched, handed,
                   profileVars, fired>>

UserTurnEnds(b) ==
    /\ lease[b] = "turn"
    /\ lease' = [lease EXCEPT ![b] = "free"]
    /\ appended[b] < MaxTurnRows
    /\ appended' = [appended EXCEPT ![b] = @ + 1]
    /\ touched' = [touched EXCEPT ![b] = now]
    /\ UNCHANGED <<now, tick, wakeAt, trimmed, handed, profileVars, fired>>

EditProfile(b) ==
    /\ profile[b] < MaxEdits
    /\ profile' = [profile EXCEPT ![b] = @ + 1]
    /\ UNCHANGED <<now, tick, wakeAt, jobVars, signatures, reviewedAt, reviewed, missed, fired>>

-----------------------------------------------------------------------------
(* The sweep.                                                              *)

\* start_scheduler's loop and tick: the moment is that of the start of the pass.
Wake ==
    /\ Tick("asleep") /\ now >= wakeAt
    /\ tick' = [Asleep EXCEPT !.phase = "sweep", !.moment = now, !.todo = HostedBots]
    /\ UNCHANGED <<now, wakeAt, jobVars, profileVars, fired>>

Empty(b) == trimmed[b] = appended[b]

\* A window that is empty, or whose bot works, is passed over; ...
SweepPasses(b) ==
    /\ Tick("sweep") /\ b \in tick.todo
    /\ lease[b] # "free" \/ Empty(b)
    /\ tick' = [tick EXCEPT !.todo = @ \ {b}]
    /\ UNCHANGED <<now, wakeAt, jobVars, profileVars, fired>>

\* ... for another a coroutine is submitted that waits for the lease.
SweepSubmits(b) ==
    /\ Tick("sweep") /\ b \in tick.todo
    /\ lease[b] = "free" /\ ~Empty(b)
    /\ tick' = [tick EXCEPT !.phase = "claim", !.todo = @ \ {b}, !.bot = b,
                            !.at = appended[b]]
    /\ UNCHANGED <<now, wakeAt, jobVars, profileVars, fired>>

\* MUTANT of SweepReads: the transcript of before the lease.
SweepReadsCopy(b) == tick.at
\* Under the lease the transcript is read anew, never a copy from before it.
SweepReads(b) == appended[b]

SweepBegins ==
    LET b == tick.bot IN
    /\ Tick("claim") /\ lease[b] = "free"
    /\ IF now - touched[b] >= IdleAfter
         THEN /\ lease' = [lease EXCEPT ![b] = "sweep"]
              /\ tick' = [tick EXCEPT !.phase = "flush", !.at = SweepReads(b)]
         ELSE /\ tick' = [tick EXCEPT !.phase = "sweep", !.at = 0]
              /\ UNCHANGED lease
    /\ UNCHANGED <<now, wakeAt, appended, trimmed, touched, handed, profileVars, fired>>

\* _flush_bot_memory: the tail of the transcript is given to the extractor.  When the
\* model fails or answers nonsense nothing is extracted and the sweep goes on.
SweepFlushes ==
    LET b == tick.bot IN
    /\ Tick("flush")
    /\ handed' = [handed EXCEPT ![b] =
            @ \cup {r \in trimmed[b] + 1 .. tick.at : r + TailRows > tick.at}]
    /\ tick' = [tick EXCEPT !.phase = "compact"]
    /\ UNCHANGED <<now, wakeAt, appended, trimmed, touched, lease, profileVars, fired>>

\* Without a valid card, when what was extracted cannot be written, or when the
\* compaction fails, the transcript stays as it is.
SweepGivesUp ==
    /\ Tick("flush") \/ Tick("compact")
    /\ lease' = [lease EXCEPT ![tick.bot] = "free"]
    /\ tick' = [tick EXCEPT !.phase = "sweep", !.at = 0]
    /\ UNCHANGED <<now, wakeAt, appended, trimmed, touched, handed, profileVars, fired>>

\* compact_manual on a fresh load: what does not fit its tail, never the newest row.
SweepTrims ==
    LET b == tick.bot IN
    /\ Tick("compact")
    /\ \E n \in trimmed[b] .. appended[b] - 1 : trimmed' = [trimmed EXCEPT ![b] = n]
    /\ lease' = [lease EXCEPT ![b] = "free"]
    /\ tick' = [tick EXCEPT !.phase = "sweep", !.at = 0]
    /\ UNCHANGED <<now, wakeAt, appended, touched, handed, profileVars, fired>>

-----------------------------------------------------------------------------
(* The profiles.                                                           *)

\* The profiles as they are found; a file that cannot be reached is taken for none.
Found(failed) == [b \in HostedBots |-> IF b \in failed THEN 0 ELSE profile[b]]

\* aggregate_team_profiles: stat the files; nothing to do if they are as they
\* were, and were reviewed today.
SignProfiles ==
    /\ Tick("sweep") /\ tick.todo = {}
    /\ \E failed \in SUBSET HostedBots :
        tick' = IF signatures = Found(failed) /\ now - reviewedAt < ReviewEvery
                THEN [tick EXCEPT !.phase = "fire", !.todo = HostedBots]
                ELSE [tick EXCEPT !.phase = "read", !.signed = Found(failed), !.at = now]
    /\ UNCHANGED <<now, wakeAt, jobVars, profileVars, fired>>

\* MUTANT of Recorded: the signatures are taken after the review.
RecordedLate == profile
\* What _profile_signatures is set to: the signatures of before the reading.
Recorded == tick.signed

Reviewed(read) ==
    /\ reviewed' = [b \in HostedBots |-> reviewed[b] \cup {read[b]}]
    /\ signatures' = Recorded
    /\ reviewedAt' = tick.at
    /\ tick' = [tick EXCEPT !.phase = "fire", !.todo = HostedBots, !.at = 0,
                            !.signed = <<>>, !.read = <<>>]

\* The files are read; with nothing in any of them, and no observation of the
\* user's own, no turn is needed.
ReadProfiles ==
    /\ Tick("read")
    /\ \E failed \in SUBSET HostedBots :
        /\ missed' = [b \in HostedBots |->
                IF b \in failed THEN missed[b] \cup {profile[b]} ELSE missed[b]]
        /\ \/ /\ \A b \in HostedBots : Found(failed)[b] = 0
              /\ Reviewed(Found(failed))
           \/ /\ tick' = [tick EXCEPT !.phase = "review", !.read = Found(failed)]
              /\ UNCHANGED <<signatures, reviewedAt, reviewed>>
    /\ UNCHANGED <<now, wakeAt, jobVars, profile, fired>>

\* Thyca's turn, while profiles change and time passes, ...
ReviewProfiles ==
    /\ Tick("review") /\ lease[Thyca] = "free"
    /\ Reviewed(tick.read)
    /\ UNCHANGED <<now, wakeAt, jobVars, profile, missed, fired>>

\* ... or it is refused or fails: the next tick tries again.
ReviewFails ==
    /\ Tick("review")
    /\ tick' = [tick EXCEPT !.phase = "fire", !.todo = HostedBots, !.at = 0,
                            !.signed = <<>>, !.read = <<>>]
    /\ UNCHANGED <<now, wakeAt, jobVars, profileVars, fired>>

-----------------------------------------------------------------------------
(* The bots that are due.                                                  *)

\* scheduled_turn blocks the thread until the reply; a busy room is skipped,
\* never queued behind.
Fire(b) ==
    /\ Tick("fire") /\ b \in tick.todo
    /\ Due(Schedule[b], tick.moment) /\ lease[b] = "free"
    /\ fired' = [fired EXCEPT ![b] = Append(@, tick.moment \div 2)]
    /\ tick' = [tick EXCEPT !.todo = @ \ {b}]
    /\ UNCHANGED <<now, wakeAt, jobVars, profileVars>>

SkipBot(b) ==
    /\ Tick("fire") /\ b \in tick.todo
    /\ Schedule[b] = NoSchedule \/ ~Due(Schedule[b], tick.moment) \/ lease[b] # "free"
    /\ tick' = [tick EXCEPT !.todo = @ \ {b}]
    /\ UNCHANGED <<now, wakeAt, jobVars, profileVars, fired>>

\* MUTANT of Interval: the pass runs twice a minute.
IntervalHalf == 1
\* stop.wait(SCHEDULER_INTERVAL_S): from the end of this pass.
Interval == 2
FallAsleep ==
    /\ Tick("fire") /\ tick.todo = {}
    /\ tick' = Asleep
    /\ wakeAt' = now + Interval
    /\ UNCHANGED <<now, jobVars, profileVars, fired>>

HousekeepingNext ==
    \/ Passes \/ Wake
    \/ \E b \in HostedBots : \/ UserTurn(b) \/ UserTurnEnds(b) \/ EditProfile(b)
                       \/ SweepPasses(b) \/ SweepSubmits(b)
                       \/ Fire(b) \/ SkipBot(b)
    \/ SweepBegins \/ SweepFlushes \/ SweepGivesUp \/ SweepTrims
    \/ SignProfiles \/ ReadProfiles \/ ReviewProfiles \/ ReviewFails
    \/ FallAsleep

HousekeepingSpec == HousekeepingInit /\ [][HousekeepingNext]_housekeepingVars

-----------------------------------------------------------------------------
(* Properties.                                                             *)

\* What a sweep compacts away was given to the extractor before, or TailRows newer
\* rows of its window were: a turn that slips in between the choice of the window
\* and its lease adds no row that goes unread for another reason.
OfferedFirst ==
    \A b \in HostedBots : \A r \in 1 .. trimmed[b] :
        \/ r \in handed[b]
        \/ \E t \in handed[b] : r + TailRows <= t /\ t - TailRows + 1 .. t \subseteq handed[b]

\* A bot is given one turn for a minute of its schedule, however long the passes
\* take and whenever they start.
FiresOncePerMinute ==
    \A b \in HostedBots : \A i \in DOMAIN fired[b] :
        /\ Due(Schedule[b], 2 * fired[b][i])
        /\ \A j \in DOMAIN fired[b] : i # j => fired[b][i] # fired[b][j]

\* A version of a profile that counts as reviewed was in what Thyca was shown, or its
\* file could not be read for that; also when it changed while Thyca reviewed it.
ReviewedIsShown ==
    signatures # <<>> =>
        \A b \in HostedBots : signatures[b] = profile[b] => profile[b] \in reviewed[b] \cup missed[b]

\* The scheduler thread and its jobs (serve/server.py, bots/scheduler.py,
\* app/background_jobs): nothing compacted before the extractor had the tail of its
\* window, no turn twice, no profile taken for reviewed that could have been shown
\* and was not.
HousekeepingSafe ==
    /\ OfferedFirst
    /\ FiresOncePerMinute
    /\ ReviewedIsShown

=============================================================================

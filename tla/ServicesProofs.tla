---------------------------- MODULE ServicesProofs ----------------------------
(***************************************************************************)
(* Proofs about what serves the bots: housekeeping, the configuration of a *)
(* team, the memories, the naming step of a door, the gateway that calls   *)
(* their tools and the MCP servers that offer some of them. The components *)
(* share no state; each has an inductive invariant of its own.             *)
(***************************************************************************)
EXTENDS Housekeeping, TeamConfig, MemoryNotebook, DoorNaming, ToolGateway, McpServers,
        PositionsProofs, TLAPS

-----------------------------------------------------------------------------
(***************************************************************************)
(* Housekeeping: for any bots, schedules, periods and turns.               *)
(*                                                                         *)
(* HouseInv is inductive. Beside the types it says of a sweep that holds   *)
(* the lease of its bot that the transcript it has read is all there is    *)
(* (SweepInv: a turn that would append needs that lease), and of the       *)
(* schedule that the minutes in which turns were given lie before the next *)
(* pass, and during a pass before its moment for the bots still to be      *)
(* looked at (FireInv): that a tick which outlasts its minute fires no     *)
(* minute twice follows from it.                                           *)
(***************************************************************************)
(* Housekeeping                                                            *)

SweepPhases == {"claim", "flush", "compact"}
TickPhases == {"asleep", "sweep", "read", "review", "fire"} \cup SweepPhases
Signed == [HostedBots -> Nat]
Ticks == [phase : TickPhases, moment : Nat, todo : SUBSET HostedBots, bot : HostedBots,
          at : Nat, signed : Signed \cup {<<>>}, read : Signed \cup {<<>>}]

HouseTypes ==
    /\ now \in Nat /\ wakeAt \in Nat
    /\ appended \in [HostedBots -> Nat] /\ trimmed \in [HostedBots -> Nat]
    /\ tick \in Ticks
    /\ lease \in [HostedBots -> {"free", "turn", "sweep"}]
    /\ handed \in [HostedBots -> SUBSET Nat]
    /\ profile \in Signed
    /\ signatures \in Signed \cup {<<>>}
    /\ reviewed \in [HostedBots -> SUBSET Nat] /\ missed \in [HostedBots -> SUBSET Nat]
    /\ fired \in [HostedBots -> Seq(Nat)]

\* The newest rows of a window have been given to the extractor.
TailHanded(b) ==
    \A r \in trimmed[b] + 1 .. appended[b] : r + TailRows > appended[b] => r \in handed[b]

\* A sweep that holds the lease of its bot has read all the rows there are, and
\* has given away their tail before it compacts.
SweepInv ==
    /\ OfferedFirst
    /\ \A b \in HostedBots : trimmed[b] <= appended[b]
    /\ tick.phase \in SweepPhases => trimmed[tick.bot] < appended[tick.bot]
    /\ tick.phase \in {"flush", "compact"} =>
        lease[tick.bot] = "sweep" /\ tick.at = appended[tick.bot]
    /\ tick.phase = "compact" => TailHanded(tick.bot)

\* The minutes for which turns were given lie before the next pass, and in a
\* pass before its moment for the bots that it has not looked at.
FireInv ==
    /\ FiresOncePerMinute
    /\ tick.moment <= now
    /\ \A b \in HostedBots : \A i \in DOMAIN fired[b] :
        IF tick.phase = "asleep" THEN 2 * fired[b][i] + 2 <= wakeAt
        ELSE /\ 2 * fired[b][i] <= tick.moment
             /\ tick.phase # "fire" \/ b \in tick.todo => 2 * fired[b][i] + 2 <= tick.moment

\* Signatures are taken before the profiles are read, and profiles only grow.
ReviewInv ==
    /\ tick.phase \in {"read", "review"} =>
        tick.signed \in Signed /\ \A b \in HostedBots : tick.signed[b] <= profile[b]
    /\ tick.phase = "review" =>
        /\ tick.read \in Signed
        /\ \A b \in HostedBots :
            tick.signed[b] = profile[b] => profile[b] \in {tick.read[b]} \cup missed[b]
    /\ signatures # <<>> => \A b \in HostedBots :
        /\ signatures[b] <= profile[b]
        /\ signatures[b] = profile[b] => profile[b] \in reviewed[b] \cup missed[b]

HouseInv == HouseTypes /\ SweepInv /\ FireInv /\ ReviewInv

\* A moment and the start of its minute are due alike.
LEMMA DueByTheMinute ==
    ASSUME NEW schedule, NEW moment \in Nat
    PROVE  Due(schedule, 2 * (moment \div 2)) <=> Due(schedule, moment)
<1>1. (2 * (moment \div 2)) \div 2 = moment \div 2
  OBVIOUS
<1> QED
  BY <1>1 DEF Due

\* What a pass does to its own record.
LEMMA TickFields ==
    ASSUME HouseTypes
    PROVE  /\ tick.phase \in TickPhases /\ tick.moment \in Nat
           /\ tick.todo \in SUBSET HostedBots /\ tick.bot \in HostedBots
           /\ tick.at \in Nat
           /\ tick.signed \in Signed \cup {<<>>} /\ tick.read \in Signed \cup {<<>>}
  BY DEF HouseTypes, Ticks

LEMMA AsleepIsATick == Asleep \in Ticks
  BY HousekeepingAssumption DEF Asleep, Ticks, TickPhases

LEMMA HouseInit == HousekeepingInit => HouseInv
<1> SUFFICES ASSUME HousekeepingInit PROVE HouseInv
  OBVIOUS
<1>1. HouseTypes
  BY AsleepIsATick DEF HousekeepingInit, HouseTypes, Signed
<1>2. tick.phase = "asleep" /\ tick.moment = 0
  BY DEF HousekeepingInit, Asleep
<1>3. SweepInv
  BY <1>2 DEF HousekeepingInit, SweepInv, OfferedFirst, SweepPhases
<1>4. FireInv
  BY <1>2 DEF HousekeepingInit, FireInv, FiresOncePerMinute
<1>5. ReviewInv
  BY <1>2 DEF HousekeepingInit, ReviewInv
<1> QED
  BY <1>1, <1>3, <1>4, <1>5 DEF HouseInv


\* A record of a pass, by its fields.
TickIs(phase, moment, todo, bot, at, signed, read) ==
    /\ tick' \in Ticks
    /\ tick'.phase = phase /\ tick'.moment = moment /\ tick'.todo = todo /\ tick'.bot = bot
    /\ tick'.at = at /\ tick'.signed = signed /\ tick'.read = read

LEMMA SetTick ==
    ASSUME NEW phase \in TickPhases, NEW moment \in Nat, NEW todo \in SUBSET HostedBots,
           NEW bot \in HostedBots, NEW at \in Nat,
           NEW signed \in Signed \cup {<<>>}, NEW read \in Signed \cup {<<>>},
           tick' = [phase |-> phase, moment |-> moment, todo |-> todo, bot |-> bot,
                    at |-> at, signed |-> signed, read |-> read]
    PROVE  TickIs(phase, moment, todo, bot, at, signed, read)
  BY DEF TickIs, Ticks

LEMMA TickSteps ==
    ASSUME HouseTypes, NEW phase \in TickPhases, NEW todo \in SUBSET HostedBots,
           NEW bot \in HostedBots, NEW at \in Nat,
           NEW signed \in Signed \cup {<<>>}, NEW read \in Signed \cup {<<>>}
    PROVE  /\ tick' = [tick EXCEPT !.phase = phase] =>
                TickIs(phase, tick.moment, tick.todo, tick.bot, tick.at, tick.signed, tick.read)
           /\ tick' = [tick EXCEPT !.todo = todo] =>
                TickIs(tick.phase, tick.moment, todo, tick.bot, tick.at, tick.signed, tick.read)
           /\ tick' = [tick EXCEPT !.phase = phase, !.todo = todo] =>
                TickIs(phase, tick.moment, todo, tick.bot, tick.at, tick.signed, tick.read)
           /\ tick' = [tick EXCEPT !.phase = phase, !.at = at] =>
                TickIs(phase, tick.moment, tick.todo, tick.bot, at, tick.signed, tick.read)
           /\ tick' = [tick EXCEPT !.phase = phase, !.read = read] =>
                TickIs(phase, tick.moment, tick.todo, tick.bot, tick.at, tick.signed, read)
           /\ tick' = [tick EXCEPT !.phase = phase, !.signed = signed, !.at = at] =>
                TickIs(phase, tick.moment, tick.todo, tick.bot, at, signed, tick.read)
           /\ tick' = [tick EXCEPT !.phase = phase, !.todo = todo, !.bot = bot, !.at = at] =>
                TickIs(phase, tick.moment, todo, bot, at, tick.signed, tick.read)
           /\ tick' = [tick EXCEPT !.phase = phase, !.todo = todo, !.at = at,
                                   !.signed = signed, !.read = read] =>
                TickIs(phase, tick.moment, todo, tick.bot, at, signed, read)
<1>1. tick \in Ticks
  BY DEF HouseTypes
<1>2. /\ tick.phase \in TickPhases /\ tick.moment \in Nat
      /\ tick.todo \in SUBSET HostedBots /\ tick.bot \in HostedBots
      /\ tick.at \in Nat
      /\ tick.signed \in Signed \cup {<<>>} /\ tick.read \in Signed \cup {<<>>}
  BY TickFields
<1> HIDE DEF TickPhases, Signed
<1> QED
  BY ZenonT(60), <1>1, <1>2 DEF Ticks, TickIs


-----------------------------------------------------------------------------

\* A step that leaves the windows, and does not enter a sweep's own steps.
LEMMA SweepFrame ==
    ASSUME SweepInv, UNCHANGED <<appended, trimmed, lease, handed>>,
           \/ tick'.phase \notin SweepPhases
           \/ tick'.phase = tick.phase /\ tick'.bot = tick.bot /\ tick'.at = tick.at
    PROVE  SweepInv'
  BY DEF SweepInv, OfferedFirst, SweepPhases, TailHanded

\* A step of a pass that gives no turn.
LEMMA FireFrame ==
    ASSUME HouseTypes, FireInv, UNCHANGED <<fired, wakeAt>>, now' \in Nat, now' >= now,
           tick'.moment = tick.moment,
           \/ tick'.phase = tick.phase /\ tick'.todo \subseteq tick.todo
           \/ tick.phase \notin {"asleep", "fire"} /\ tick'.phase # "asleep"
    PROVE  FireInv'
<1>1. tick.moment \in Nat
  BY TickFields
<1>2. FiresOncePerMinute' /\ tick'.moment <= now'
  BY <1>1 DEF HouseTypes, FireInv, FiresOncePerMinute
<1>3. ASSUME NEW b \in HostedBots, NEW i \in DOMAIN fired'[b]
      PROVE  IF tick'.phase = "asleep" THEN 2 * fired'[b][i] + 2 <= wakeAt'
             ELSE /\ 2 * fired'[b][i] <= tick'.moment
                  /\ tick'.phase # "fire" \/ b \in tick'.todo =>
                        2 * fired'[b][i] + 2 <= tick'.moment
  BY <1>3 DEF FireInv
<1> QED
  BY <1>2, <1>3 DEF FireInv

\* A step that leaves the profiles, and does not enter a review.
LEMMA ReviewFrame ==
    ASSUME ReviewInv, UNCHANGED <<profile, signatures, reviewed, missed>>,
           \/ tick'.phase \notin {"read", "review"}
           \/ tick'.phase = tick.phase /\ tick'.signed = tick.signed /\ tick'.read = tick.read
    PROVE  ReviewInv'
  BY DEF ReviewInv

LEMMA PassesStep ==
    ASSUME HouseInv, Passes
    PROVE  HouseInv'
<1>1. now' = now + 1 /\ UNCHANGED <<tick, wakeAt, jobVars, profileVars, fired>>
  BY DEF Passes
<1>2. HouseTypes'
  BY <1>1 DEF HouseInv, HouseTypes, jobVars, profileVars
<1>3. SweepInv' /\ ReviewInv'
  BY <1>1, SweepFrame, ReviewFrame DEF HouseInv, jobVars, profileVars
<1>4. FireInv'
  BY <1>1, FireFrame DEF HouseInv, HouseTypes
<1> QED
  BY <1>2, <1>3, <1>4 DEF HouseInv

LEMMA UserTurnStep ==
    ASSUME HouseInv, NEW b \in HostedBots, UserTurn(b)
    PROVE  HouseInv'
<1>1. /\ lease[b] = "free" /\ lease' = [lease EXCEPT ![b] = "turn"]
      /\ UNCHANGED <<now, tick, wakeAt, appended, trimmed, handed, profile,
                     signatures, reviewed, missed, fired>>
  BY DEF UserTurn, profileVars
<1>2. HouseTypes'
  BY <1>1 DEF HouseInv, HouseTypes
<1>3. SweepInv'
  BY <1>1 DEF HouseInv, HouseTypes, SweepInv, OfferedFirst, SweepPhases, TailHanded
<1>4. ReviewInv' /\ FireInv'
  BY <1>1, ReviewFrame, FireFrame DEF HouseInv, HouseTypes
<1> QED
  BY <1>2, <1>3, <1>4 DEF HouseInv

LEMMA UserTurnEndsStep ==
    ASSUME HouseInv, NEW b \in HostedBots, UserTurnEnds(b)
    PROVE  HouseInv'
<1>1. /\ lease[b] = "turn" /\ lease' = [lease EXCEPT ![b] = "free"]
      /\ appended' = [appended EXCEPT ![b] = @ + 1]
      /\ UNCHANGED <<now, tick, wakeAt, trimmed, handed, profile, signatures,
                     reviewed, missed, fired>>
  BY DEF UserTurnEnds, profileVars
<1>2. tick.bot \in HostedBots
  BY TickFields DEF HouseInv
<1>3. HouseTypes'
  BY <1>1 DEF HouseInv, HouseTypes
<1>4. /\ \A c \in HostedBots \ {b} : appended'[c] = appended[c] /\ lease'[c] = lease[c]
      /\ appended'[b] = appended[b] + 1 /\ appended[b] \in Nat /\ trimmed[b] \in Nat
  BY <1>1 DEF HouseInv, HouseTypes
<1>5. SweepInv'
  <2>1. OfferedFirst'
    BY <1>1 DEF HouseInv, SweepInv, OfferedFirst
  <2>2. \A c \in HostedBots : trimmed'[c] <= appended'[c]
    BY <1>1, <1>4 DEF HouseInv, SweepInv
  <2>3. tick.phase \in SweepPhases => trimmed'[tick.bot] < appended'[tick.bot]
    BY <1>1, <1>2, <1>4 DEF HouseInv, SweepInv
  <2>4. tick.phase \in {"flush", "compact"} => tick.bot # b
    BY <1>1 DEF HouseInv, SweepInv
  <2>5. tick.phase = "compact" => TailHanded(tick.bot)'
    BY <1>1, <1>2, <1>4, <2>4 DEF HouseInv, SweepInv, TailHanded
  <2> QED
    BY <1>1, <1>2, <1>4, <2>1, <2>2, <2>3, <2>4, <2>5 DEF HouseInv, SweepInv
<1>6. ReviewInv' /\ FireInv'
  BY <1>1, ReviewFrame, FireFrame DEF HouseInv, HouseTypes
<1> QED
  BY <1>3, <1>5, <1>6 DEF HouseInv

LEMMA EditProfileStep ==
    ASSUME HouseInv, NEW b \in HostedBots, EditProfile(b)
    PROVE  HouseInv'
<1>1. /\ profile' = [profile EXCEPT ![b] = @ + 1]
      /\ UNCHANGED <<now, tick, wakeAt, appended, trimmed, touched, lease, handed,
                     signatures, reviewed, missed, fired>>
  BY DEF EditProfile, jobVars
<1>2. profile' \in Signed /\ \A c \in HostedBots : profile[c] \in Nat /\
        (profile'[c] = profile[c] \/ profile'[c] = profile[c] + 1)
  BY <1>1 DEF HouseInv, HouseTypes, Signed
<1>3. HouseTypes'
  BY <1>1, <1>2 DEF HouseInv, HouseTypes
<1>4. SweepInv' /\ FireInv'
  BY <1>1, SweepFrame, FireFrame DEF HouseInv, HouseTypes
<1>5. ReviewInv'
  <2>1. signatures # <<>> => \A c \in HostedBots : signatures[c] \in Nat
    BY DEF HouseInv, HouseTypes, Signed
  <2>3. tick.phase \in {"read", "review"} => \A c \in HostedBots : tick.signed[c] \in Nat
    BY DEF HouseInv, ReviewInv, Signed
  <2>4. \A c \in HostedBots : profile[c] <= profile'[c]
    BY <1>2
  <2>5. signatures # <<>> => \A c \in HostedBots :
          signatures[c] <= profile'[c] /\ (signatures[c] = profile'[c] => profile'[c] \in reviewed[c] \cup missed[c])
    BY <1>2, <2>1 DEF HouseInv, ReviewInv
  <2>6. tick.phase \in {"read", "review"} => \A c \in HostedBots : tick.signed[c] <= profile'[c]
    BY <1>2, <2>3, <2>4 DEF HouseInv, ReviewInv
  <2>7. tick.phase = "review" => \A c \in HostedBots :
          tick.signed[c] = profile'[c] => profile'[c] \in {tick.read[c]} \cup missed[c]
    BY <1>2, <2>3 DEF HouseInv, ReviewInv
  <2> QED
    BY <1>1, <2>5, <2>6, <2>7 DEF HouseInv, ReviewInv
<1> QED
  BY <1>3, <1>4, <1>5 DEF HouseInv

LEMMA WakeStep ==
    ASSUME HouseInv, Wake
    PROVE  HouseInv'
<1>1. /\ tick.phase = "asleep" /\ now >= wakeAt
      /\ tick' = [Asleep EXCEPT !.phase = "sweep", !.moment = now, !.todo = HostedBots]
      /\ UNCHANGED <<now, wakeAt, appended, trimmed, lease, handed, profile,
                     signatures, reviewed, missed, fired>>
  BY DEF Wake, Tick, jobVars, profileVars
<1>2. now \in Nat /\ Thyca \in HostedBots
  BY HousekeepingAssumption DEF HouseInv, HouseTypes
<1>3. tick' = [phase |-> "sweep", moment |-> now, todo |-> HostedBots, bot |-> Thyca,
               at |-> 0, signed |-> <<>>, read |-> <<>>]
  BY <1>1 DEF Asleep
<1>4. TickIs("sweep", now, HostedBots, Thyca, 0, <<>>, <<>>)
  BY <1>2, <1>3, SetTick DEF TickPhases
<1>5. HouseTypes'
  BY <1>1, <1>4 DEF HouseInv, HouseTypes, TickIs
<1>6. SweepInv' /\ ReviewInv'
  BY <1>1, <1>4, SweepFrame, ReviewFrame DEF HouseInv, TickIs, SweepPhases
<1>7. FireInv'
  <2>1. FiresOncePerMinute' /\ tick'.moment <= now'
    BY <1>1, <1>2, <1>4 DEF HouseInv, FireInv, FiresOncePerMinute, TickIs
  <2>2. ASSUME NEW b \in HostedBots, NEW k \in DOMAIN fired[b]
        PROVE  2 * fired[b][k] <= now /\ 2 * fired[b][k] + 2 <= now
    <3>1. fired[b][k] \in Nat /\ wakeAt \in Nat
      BY <2>2 DEF HouseInv, HouseTypes
    <3>2. 2 * fired[b][k] + 2 <= wakeAt
      BY <1>1, <2>2 DEF HouseInv, FireInv
    <3> QED
      BY <1>1, <1>2, <3>1, <3>2
  <2> QED
    BY <1>1, <1>4, <2>1, <2>2 DEF FireInv, TickIs
<1> QED
  BY <1>5, <1>6, <1>7 DEF HouseInv

LEMMA SweepPassesStep ==
    ASSUME HouseInv, NEW b \in HostedBots, SweepPasses(b)
    PROVE  HouseInv'
<1>1. /\ tick.phase = "sweep" /\ tick' = [tick EXCEPT !.todo = tick.todo \ {b}]
      /\ UNCHANGED <<now, wakeAt, appended, trimmed, lease, handed, profile,
                     signatures, reviewed, missed, fired>>
  BY DEF SweepPasses, Tick, jobVars, profileVars
<1>2. TickIs("sweep", tick.moment, tick.todo \ {b}, tick.bot, tick.at, tick.signed, tick.read)
  BY <1>1, TickSteps, TickFields DEF HouseInv
<1>3. HouseTypes'
  BY <1>1, <1>2 DEF HouseInv, HouseTypes, TickIs
<1> QED
  BY <1>1, <1>2, <1>3, SweepFrame, FireFrame, ReviewFrame
     DEF HouseInv, HouseTypes, TickIs, SweepPhases

LEMMA SweepSubmitsStep ==
    ASSUME HouseInv, NEW b \in HostedBots, SweepSubmits(b)
    PROVE  HouseInv'
<1>1. /\ tick.phase = "sweep" /\ ~Empty(b)
      /\ tick' = [tick EXCEPT !.phase = "claim", !.todo = tick.todo \ {b}, !.bot = b,
                              !.at = appended[b]]
      /\ UNCHANGED <<now, wakeAt, appended, trimmed, lease, handed, profile,
                     signatures, reviewed, missed, fired>>
  BY DEF SweepSubmits, Tick, jobVars, profileVars
<1>2. appended[b] \in Nat
  BY DEF HouseInv, HouseTypes
<1>3. TickIs("claim", tick.moment, tick.todo \ {b}, b, appended[b], tick.signed, tick.read)
  BY <1>1, <1>2, TickSteps, TickFields DEF HouseInv, TickPhases, SweepPhases
<1>4. HouseTypes'
  BY <1>1, <1>3 DEF HouseInv, HouseTypes, TickIs
<1>5. SweepInv'
  BY <1>1, <1>3 DEF HouseInv, HouseTypes, SweepInv, OfferedFirst, TickIs, Empty
<1> QED
  BY <1>1, <1>3, <1>4, <1>5, FireFrame, ReviewFrame DEF HouseInv, HouseTypes, TickIs

LEMMA SweepBeginsStep ==
    ASSUME HouseInv, SweepBegins
    PROVE  HouseInv'
<1> DEFINE b == tick.bot
<1>1. /\ tick.phase = "claim"
      /\ \/ /\ lease' = [lease EXCEPT ![b] = "sweep"]
            /\ tick' = [tick EXCEPT !.phase = "flush", !.at = appended[b]]
         \/ /\ tick' = [tick EXCEPT !.phase = "sweep", !.at = 0]
            /\ lease' = lease
      /\ UNCHANGED <<now, wakeAt, appended, trimmed, handed, profile,
                     signatures, reviewed, missed, fired>>
  BY DEF SweepBegins, SweepReads, Tick, profileVars
<1>2. b \in HostedBots /\ appended[b] \in Nat
  BY TickFields DEF HouseInv, HouseTypes
<1>3. \/ /\ lease' = [lease EXCEPT ![b] = "sweep"]
         /\ TickIs("flush", tick.moment, tick.todo, b, appended[b], tick.signed, tick.read)
      \/ /\ lease' = lease
         /\ TickIs("sweep", tick.moment, tick.todo, b, 0, tick.signed, tick.read)
  BY <1>1, <1>2, TickSteps, TickFields DEF HouseInv, TickPhases, SweepPhases
<1>4. HouseTypes'
  BY <1>1, <1>2, <1>3 DEF HouseInv, HouseTypes, TickIs
<1>5. SweepInv'
  BY <1>1, <1>2, <1>3 DEF HouseInv, HouseTypes, SweepInv, OfferedFirst, TickIs, SweepPhases
<1>6. FireInv' /\ ReviewInv'
  <2>1. tick'.phase \in {"flush", "sweep"} /\ tick'.moment = tick.moment
    BY <1>3 DEF TickIs
  <2> QED
    BY <1>1, <2>1, FireFrame, ReviewFrame DEF HouseInv, HouseTypes
<1> QED
  BY <1>4, <1>5, <1>6 DEF HouseInv

LEMMA SweepFlushesStep ==
    ASSUME HouseInv, SweepFlushes
    PROVE  HouseInv'
<1> DEFINE b == tick.bot
           tail == {r \in trimmed[b] + 1 .. tick.at : r + TailRows > tick.at}
<1>1. /\ tick.phase = "flush" /\ handed' = [handed EXCEPT ![b] = @ \cup tail]
      /\ tick' = [tick EXCEPT !.phase = "compact"]
      /\ UNCHANGED <<now, wakeAt, appended, trimmed, lease, profile,
                     signatures, reviewed, missed, fired>>
  BY DEF SweepFlushes, Tick, profileVars
<1>2. TickIs("compact", tick.moment, tick.todo, tick.bot, tick.at, tick.signed, tick.read)
  BY <1>1, TickSteps, TickFields DEF HouseInv, TickPhases, SweepPhases
<1>3. b \in HostedBots /\ tail \in SUBSET Nat
  BY TickFields DEF HouseInv, HouseTypes
<1>4. /\ handed' \in [HostedBots -> SUBSET Nat] /\ handed'[b] = handed[b] \cup tail
      /\ \A c \in HostedBots : handed[c] \subseteq handed'[c]
  <2> HIDE DEF tail, b
  <2> QED
    BY <1>1, <1>3 DEF HouseInv, HouseTypes
<1>5. HouseTypes'
  BY <1>1, <1>2, <1>4 DEF HouseInv, HouseTypes, TickIs
<1>6. SweepInv'
  <2>1. OfferedFirst'
    BY <1>1, <1>4 DEF HouseInv, SweepInv, OfferedFirst
  <2>2. TailHanded(b)'
    BY <1>1, <1>2, <1>4 DEF HouseInv, SweepInv, TailHanded, TickIs
  <2> QED
    BY <1>1, <1>2, <2>1, <2>2 DEF HouseInv, SweepInv, TickIs, SweepPhases
<1> QED
  BY <1>1, <1>2, <1>5, <1>6, FireFrame, ReviewFrame DEF HouseInv, HouseTypes, TickIs

LEMMA SweepGivesUpStep ==
    ASSUME HouseInv, SweepGivesUp
    PROVE  HouseInv'
<1>1. /\ tick.phase \in {"flush", "compact"} /\ lease' = [lease EXCEPT ![tick.bot] = "free"]
      /\ tick' = [tick EXCEPT !.phase = "sweep", !.at = 0]
      /\ UNCHANGED <<now, wakeAt, appended, trimmed, handed, profile,
                     signatures, reviewed, missed, fired>>
  BY DEF SweepGivesUp, Tick, profileVars
<1>2. TickIs("sweep", tick.moment, tick.todo, tick.bot, 0, tick.signed, tick.read)
  BY <1>1, TickSteps, TickFields DEF HouseInv, TickPhases
<1>3. HouseTypes'
  BY <1>1, <1>2 DEF HouseInv, HouseTypes, TickIs
<1>4. SweepInv'
  BY <1>1, <1>2 DEF HouseInv, SweepInv, OfferedFirst, TickIs, SweepPhases
<1> QED
  BY <1>1, <1>2, <1>3, <1>4, FireFrame, ReviewFrame DEF HouseInv, HouseTypes, TickIs

LEMMA SweepTrimsStep ==
    ASSUME HouseInv, SweepTrims
    PROVE  HouseInv'
<1> DEFINE b == tick.bot
<1>1. PICK n \in trimmed[b] .. appended[b] - 1 :
      /\ tick.phase = "compact"
      /\ trimmed' = [trimmed EXCEPT ![b] = n]
      /\ lease' = [lease EXCEPT ![b] = "free"]
      /\ tick' = [tick EXCEPT !.phase = "sweep", !.at = 0]
      /\ UNCHANGED <<now, wakeAt, appended, handed, profile, signatures, reviewed,
                     missed, fired>>
  BY DEF SweepTrims, Tick, profileVars
<1>2. /\ b \in HostedBots /\ appended[b] \in Nat /\ trimmed[b] \in Nat
      /\ trimmed[b] < appended[b] /\ n \in Nat /\ n < appended[b]
      /\ TailHanded(b) /\ TailRows \in Nat \ {0}
  <2>1. /\ b \in HostedBots /\ appended[b] \in Nat /\ trimmed[b] \in Nat
        /\ trimmed[b] < appended[b] /\ TailHanded(b) /\ TailRows \in Nat \ {0}
    BY <1>1, TickFields, HousekeepingAssumption DEF HouseInv, HouseTypes, SweepInv, SweepPhases
  <2>2. n \in trimmed[b] .. appended[b] - 1
    OBVIOUS
  <2>3. n \in Nat /\ n < appended[b]
    BY <2>1, <2>2
  <2> QED
    BY <2>1, <2>3
<1>3. /\ trimmed' \in [HostedBots -> Nat] /\ trimmed'[b] = n
      /\ \A c \in HostedBots \ {b} : trimmed'[c] = trimmed[c]
  BY <1>1, <1>2 DEF HouseInv, HouseTypes
<1>4. TickIs("sweep", tick.moment, tick.todo, b, 0, tick.signed, tick.read)
  BY <1>1, TickSteps, TickFields DEF HouseInv, TickPhases
<1>5. HouseTypes'
  BY <1>1, <1>3, <1>4 DEF HouseInv, HouseTypes, TickIs
<1> HIDE DEF b
<1>6. ASSUME NEW r \in 1 .. n
      PROVE  \/ r \in handed[b]
             \/ \E t \in handed[b] : /\ r + TailRows <= t
                                    /\ t - TailRows + 1 .. t \subseteq handed[b]
  <2>1. CASE r <= trimmed[b]
    <3>1. r \in 1 .. trimmed[b]
      BY <1>2, <2>1
    <3> QED
      BY <1>2, <3>1 DEF HouseInv, SweepInv, OfferedFirst
  <2>2. CASE r > trimmed[b] /\ r + TailRows > appended[b]
    <3>1. r \in trimmed[b] + 1 .. appended[b]
      BY <1>2, <2>2
    <3> QED
      BY <2>2, <3>1, <1>2 DEF TailHanded
  <2>3. CASE r > trimmed[b] /\ r + TailRows <= appended[b]
    <3>1. ASSUME NEW x \in appended[b] - TailRows + 1 .. appended[b]
          PROVE  x \in handed[b]
      <4>1. x \in trimmed[b] + 1 .. appended[b] /\ x + TailRows > appended[b]
        BY <1>2, <2>3
      <4> QED
        BY <1>2, <4>1 DEF TailHanded
    <3>2. appended[b] \in appended[b] - TailRows + 1 .. appended[b]
      BY <1>2
    <3> QED
      BY <2>3, <3>1, <3>2
  <2> QED
    BY <1>2, <2>1, <2>2, <2>3
<1>7. OfferedFirst'
  <2>1. ASSUME NEW c \in HostedBots, NEW r \in 1 .. trimmed'[c]
        PROVE  \/ r \in handed'[c]
               \/ \E t \in handed'[c] : /\ r + TailRows <= t
                                       /\ t - TailRows + 1 .. t \subseteq handed'[c]
    <3>1. CASE c = b
      BY <1>1, <1>3, <1>6, <3>1
    <3>2. CASE c # b
      BY <1>1, <1>3, <3>2 DEF HouseInv, SweepInv, OfferedFirst
    <3> QED
      BY <3>1, <3>2
  <2> QED
    BY <2>1 DEF OfferedFirst
<1>8. SweepInv'
  BY <1>1, <1>2, <1>3, <1>4, <1>7 DEF HouseInv, SweepInv, TickIs, SweepPhases
<1> QED
  BY <1>1, <1>4, <1>5, <1>8, FireFrame, ReviewFrame DEF HouseInv, HouseTypes, TickIs

-----------------------------------------------------------------------------

LEMMA FoundIs ==
    ASSUME HouseInv, NEW failed
    PROVE  /\ Found(failed) \in Signed
           /\ \A b \in HostedBots : /\ Found(failed)[b] <= profile[b]
                                    /\ b \notin failed => Found(failed)[b] = profile[b]
  BY DEF Found, HouseInv, HouseTypes, Signed

LEMMA SignProfilesStep ==
    ASSUME HouseInv, SignProfiles
    PROVE  HouseInv'
<1>1. PICK failed \in SUBSET HostedBots :
        \/ tick' = [tick EXCEPT !.phase = "fire", !.todo = HostedBots]
        \/ tick' = [tick EXCEPT !.phase = "read", !.signed = Found(failed), !.at = now]
  BY DEF SignProfiles
<1>2. /\ tick.phase = "sweep"
      /\ UNCHANGED <<now, wakeAt, appended, trimmed, lease, handed, profile,
                     signatures, reviewed, missed, fired>>
  BY DEF SignProfiles, Tick, jobVars, profileVars
<1> DEFINE signed == Found(failed)
<1>3. now \in Nat /\ signed \in Signed /\ \A b \in HostedBots : signed[b] <= profile[b]
  BY FoundIs DEF HouseInv, HouseTypes
<1> HIDE DEF signed
<1>4. \/ TickIs("fire", tick.moment, HostedBots, tick.bot, tick.at, tick.signed, tick.read)
      \/ TickIs("read", tick.moment, tick.todo, tick.bot, now, signed, tick.read)
  <2>1. signed \in Signed \cup {<<>>}
    BY <1>3
  <2>2. "fire" \in TickPhases /\ "read" \in TickPhases
    BY DEF TickPhases
  <2>3. HouseTypes
    BY DEF HouseInv
  <2>4. \/ tick' = [tick EXCEPT !.phase = "fire", !.todo = HostedBots]
        \/ tick' = [tick EXCEPT !.phase = "read", !.signed = signed, !.at = now]
    BY <1>1 DEF signed
  <2> HIDE DEF TickPhases, Signed
  <2> QED
    BY <1>3, <2>1, <2>2, <2>3, <2>4, TickSteps, TickFields
<1>5. HouseTypes'
  BY <1>2, <1>4 DEF HouseInv, HouseTypes, TickIs
<1>6. tick'.moment = tick.moment /\ tick'.phase \in {"fire", "read"}
  BY <1>4 DEF TickIs
<1>7. SweepInv' /\ FireInv'
  BY <1>2, <1>6, SweepFrame, FireFrame DEF HouseInv, HouseTypes, SweepPhases
<1>8. ReviewInv'
  BY <1>2, <1>3, <1>4 DEF HouseInv, ReviewInv, TickIs
<1> QED
  BY <1>5, <1>7, <1>8 DEF HouseInv

\* What a review leaves, whether it needed a turn or not.
LEMMA ReviewedStep ==
    ASSUME HouseInv, NEW read \in Signed, Reviewed(read),
           tick.phase \in {"read", "review"}, missed' \in [HostedBots -> SUBSET Nat],
           \A b \in HostedBots :
                /\ missed[b] \subseteq missed'[b]
                /\ tick.signed[b] = profile[b] => profile[b] \in {read[b]} \cup missed'[b],
           UNCHANGED <<now, wakeAt, appended, trimmed, lease, handed, profile, fired>>
    PROVE  HouseInv'
<1>1. /\ reviewed' = [b \in HostedBots |-> reviewed[b] \cup {read[b]}]
      /\ signatures' = tick.signed
      /\ tick' = [tick EXCEPT !.phase = "fire", !.todo = HostedBots, !.at = 0,
                              !.signed = <<>>, !.read = <<>>]
  BY DEF Reviewed, Recorded
<1>2. TickIs("fire", tick.moment, HostedBots, tick.bot, 0, <<>>, <<>>)
  BY <1>1, TickSteps, TickFields DEF HouseInv, TickPhases
<1>3. tick.signed \in Signed /\ \A b \in HostedBots : tick.signed[b] <= profile[b]
  BY DEF HouseInv, ReviewInv
<1>4. \A b \in HostedBots : read[b] \in Nat
  BY DEF Signed
<1>5. HouseTypes'
  BY <1>1, <1>2, <1>3, <1>4 DEF HouseInv, HouseTypes, TickIs
<1>6. SweepInv' /\ FireInv'
  BY <1>2, SweepFrame, FireFrame DEF HouseInv, HouseTypes, TickIs, SweepPhases
<1>7. ASSUME NEW b \in HostedBots
      PROVE  /\ signatures'[b] <= profile'[b]
             /\ signatures'[b] = profile'[b] => profile'[b] \in reviewed'[b] \cup missed'[b]
  BY <1>1, <1>3
<1>8. ReviewInv'
  BY <1>2, <1>7 DEF ReviewInv, TickIs
<1> QED
  BY <1>5, <1>6, <1>8 DEF HouseInv

LEMMA ReadProfilesStep ==
    ASSUME HouseInv, ReadProfiles
    PROVE  HouseInv'
<1>1. /\ tick.phase = "read"
      /\ UNCHANGED <<now, wakeAt, appended, trimmed, lease, handed, profile, fired>>
  BY DEF ReadProfiles, Tick, jobVars
<1>2. PICK failed \in SUBSET HostedBots :
        /\ missed' = [b \in HostedBots |->
                IF b \in failed THEN missed[b] \cup {profile[b]} ELSE missed[b]]
        /\ \/ Reviewed(Found(failed))
           \/ /\ tick' = [tick EXCEPT !.phase = "review", !.read = Found(failed)]
              /\ UNCHANGED <<signatures, reviewed>>
  BY DEF ReadProfiles
<1> DEFINE read == Found(failed)
<1>3. /\ read \in Signed
      /\ \A b \in HostedBots : b \notin failed => read[b] = profile[b]
  BY FoundIs
<1>4. /\ missed' \in [HostedBots -> SUBSET Nat]
      /\ \A b \in HostedBots : /\ missed[b] \subseteq missed'[b]
                               /\ profile[b] \in {read[b]} \cup missed'[b]
  <2> HIDE DEF read
  <2>1. \A b \in HostedBots : profile[b] \in Nat /\ missed[b] \in SUBSET Nat
    BY DEF HouseInv, HouseTypes, Signed
  <2> QED
    BY <1>2, <1>3, <2>1
<1>5. tick.signed \in Signed /\ \A b \in HostedBots : tick.signed[b] <= profile[b]
  BY <1>1 DEF HouseInv, ReviewInv
<1>6. CASE Reviewed(read)
  <2> HIDE DEF read
  <2> QED
    BY <1>1, <1>3, <1>4, <1>6, ReviewedStep
<1>7. CASE /\ tick' = [tick EXCEPT !.phase = "review", !.read = read]
           /\ UNCHANGED <<signatures, reviewed>>
  <2> HIDE DEF read
  <2>1. TickIs("review", tick.moment, tick.todo, tick.bot, tick.at, tick.signed, read)
    <3>1. read \in Signed \cup {<<>>} /\ "review" \in TickPhases /\ HouseTypes
      BY <1>3 DEF TickPhases, HouseInv
    <3> HIDE DEF TickPhases, Signed
    <3>2. /\ tick.todo \in SUBSET HostedBots /\ tick.bot \in HostedBots
          /\ tick.at \in Nat /\ tick.signed \in Signed \cup {<<>>}
      BY <3>1, TickFields
    <3>3. tick' = [tick EXCEPT !.phase = "review", !.read = read] =>
            TickIs("review", tick.moment, tick.todo, tick.bot, tick.at, tick.signed, read)
      BY ZenonT(60), <3>1, <3>2, TickSteps
    <3> QED
      BY <1>7, <3>3
  <2>2. tick' \in Ticks
    BY <2>1 DEF TickIs
  <2>3. HouseTypes'
    BY <1>1, <1>4, <1>7, <2>2 DEF HouseInv, HouseTypes
  <2>4. SweepInv' /\ FireInv'
    BY <1>1, <2>1, SweepFrame, FireFrame DEF HouseInv, HouseTypes, TickIs, SweepPhases
  <2>5. ReviewInv'
    BY <1>1, <1>3, <1>4, <1>5, <1>7, <2>1 DEF HouseInv, ReviewInv, TickIs
  <2> QED
    BY <2>3, <2>4, <2>5 DEF HouseInv
<1> QED
  BY <1>2, <1>6, <1>7

LEMMA ReviewProfilesStep ==
    ASSUME HouseInv, ReviewProfiles
    PROVE  HouseInv'
<1>1. /\ tick.phase = "review" /\ Reviewed(tick.read) /\ missed' = missed
      /\ UNCHANGED <<now, wakeAt, appended, trimmed, lease, handed, profile, fired>>
  BY DEF ReviewProfiles, Tick, jobVars
<1>2. /\ tick.read \in Signed
      /\ \A b \in HostedBots :
            tick.signed[b] = profile[b] => profile[b] \in {tick.read[b]} \cup missed[b]
  BY <1>1 DEF HouseInv, ReviewInv
<1>3. missed' \in [HostedBots -> SUBSET Nat]
  BY <1>1 DEF HouseInv, HouseTypes
<1> QED
  BY <1>1, <1>2, <1>3, ReviewedStep

LEMMA ReviewFailsStep ==
    ASSUME HouseInv, ReviewFails
    PROVE  HouseInv'
<1>1. /\ tick.phase = "review"
      /\ tick' = [tick EXCEPT !.phase = "fire", !.todo = HostedBots, !.at = 0,
                              !.signed = <<>>, !.read = <<>>]
      /\ UNCHANGED <<now, wakeAt, appended, trimmed, lease, handed, profile,
                     signatures, reviewed, missed, fired>>
  BY DEF ReviewFails, Tick, jobVars, profileVars
<1>2. TickIs("fire", tick.moment, HostedBots, tick.bot, 0, <<>>, <<>>)
  BY <1>1, TickSteps, TickFields DEF HouseInv, TickPhases
<1>3. HouseTypes'
  BY <1>1, <1>2 DEF HouseInv, HouseTypes, TickIs
<1> QED
  BY <1>1, <1>2, <1>3, SweepFrame, FireFrame, ReviewFrame
     DEF HouseInv, HouseTypes, TickIs, SweepPhases

-----------------------------------------------------------------------------

LEMMA FireStep ==
    ASSUME HouseInv, NEW b \in HostedBots, Fire(b)
    PROVE  HouseInv'
<1> DEFINE minute == tick.moment \div 2
<1>1. /\ tick.phase = "fire" /\ b \in tick.todo /\ Due(Schedule[b], tick.moment)
      /\ fired' = [fired EXCEPT ![b] = Append(@, minute)]
      /\ tick' = [tick EXCEPT !.todo = tick.todo \ {b}]
      /\ UNCHANGED <<now, wakeAt, appended, trimmed, lease, handed, profile,
                     signatures, reviewed, missed>>
  BY DEF Fire, Tick, jobVars, profileVars
<1>2. tick.moment \in Nat /\ fired[b] \in Seq(Nat)
  BY TickFields DEF HouseInv, HouseTypes
<1>3. minute \in Nat /\ 2 * minute <= tick.moment /\ tick.moment < 2 * minute + 2
  BY <1>2
<1>4. Due(Schedule[b], 2 * minute)
  BY <1>1, <1>2, DueByTheMinute
<1> HIDE DEF minute
<1>5. TickIs("fire", tick.moment, tick.todo \ {b}, tick.bot, tick.at, tick.signed, tick.read)
  BY <1>1, TickSteps, TickFields DEF HouseInv
<1>6. Append(fired[b], minute) \in Seq(Nat)
  BY <1>2, <1>3
<1>7. HouseTypes'
  BY <1>1, <1>5, <1>6 DEF HouseInv, HouseTypes, TickIs
<1>8. SweepInv' /\ ReviewInv'
  BY <1>1, <1>5, SweepFrame, ReviewFrame DEF HouseInv, TickIs, SweepPhases
<1>15. /\ \A c \in HostedBots \ {b} : fired'[c] = fired[c]
       /\ fired'[b] = Append(fired[b], minute)
  BY <1>1 DEF HouseInv, HouseTypes
<1>9. /\ \A c \in HostedBots \ {b} : fired'[c] = fired[c]
      /\ fired'[b] = Append(fired[b], minute)
      /\ DOMAIN fired'[b] = 1 .. Len(fired[b]) + 1 /\ DOMAIN fired[b] = 1 .. Len(fired[b])
      /\ fired'[b][Len(fired[b]) + 1] = minute
      /\ \A i \in DOMAIN fired[b] : fired'[b][i] = fired[b][i]
  BY <1>2, <1>3, <1>15
<1>10. \A i \in DOMAIN fired[b] :
          fired[b][i] \in Nat /\ 2 * fired[b][i] + 2 <= tick.moment /\ fired[b][i] # minute
  <2> SUFFICES ASSUME NEW i \in DOMAIN fired[b]
               PROVE  fired[b][i] \in Nat /\ 2 * fired[b][i] + 2 <= tick.moment
                      /\ fired[b][i] # minute
    OBVIOUS
  <2>1. fired[b][i] \in Nat
    BY <1>2
  <2>2. 2 * fired[b][i] + 2 <= tick.moment
    BY <1>1 DEF HouseInv, FireInv
  <2> QED
    BY <1>2, <1>3, <2>1, <2>2
<1>11. \A i \in DOMAIN fired'[b] : i \in DOMAIN fired[b] \/ i = Len(fired[b]) + 1
  BY <1>2, <1>9
<1>12. FiresOncePerMinute'
  <2>1. ASSUME NEW c \in HostedBots, NEW i \in DOMAIN fired'[c]
        PROVE  /\ Due(Schedule[c], 2 * fired'[c][i])
               /\ \A j \in DOMAIN fired'[c] : i # j => fired'[c][i] # fired'[c][j]
    <3>1. CASE c # b
      BY <1>9, <2>1, <3>1 DEF HouseInv, FireInv, FiresOncePerMinute
    <3>2. CASE c = b /\ i \in DOMAIN fired[b]
      <4>1. /\ Due(Schedule[b], 2 * fired[b][i])
            /\ \A j \in DOMAIN fired[b] : i # j => fired[b][i] # fired[b][j]
        BY <3>2 DEF HouseInv, FireInv, FiresOncePerMinute
      <4> QED
        BY <1>9, <1>10, <1>11, <3>2, <4>1
    <3>3. CASE c = b /\ i = Len(fired[b]) + 1
      BY <1>4, <1>9, <1>10, <1>11, <3>3
    <3> QED
      BY <1>11, <2>1, <3>1, <3>2, <3>3
  <2> QED
    BY <2>1 DEF FiresOncePerMinute
<1>13. ASSUME NEW c \in HostedBots, NEW i \in DOMAIN fired'[c]
       PROVE  /\ 2 * fired'[c][i] <= tick.moment
              /\ c \in tick.todo \ {b} => 2 * fired'[c][i] + 2 <= tick.moment
  <2>1. CASE c # b
    BY <1>1, <1>9, <1>13, <2>1 DEF HouseInv, FireInv
  <2>2. CASE c = b /\ i \in DOMAIN fired[b]
    BY <1>1, <1>9, <2>2 DEF HouseInv, FireInv
  <2>3. CASE c = b /\ i = Len(fired[b]) + 1
    BY <1>3, <1>9, <2>3
  <2> QED
    BY <1>11, <1>13, <2>1, <2>2, <2>3
<1>14. FireInv'
  BY <1>1, <1>5, <1>12, <1>13 DEF HouseInv, FireInv, TickIs
<1> QED
  BY <1>7, <1>8, <1>14 DEF HouseInv

LEMMA SkipBotStep ==
    ASSUME HouseInv, NEW b \in HostedBots, SkipBot(b)
    PROVE  HouseInv'
<1>1. /\ tick.phase = "fire" /\ tick' = [tick EXCEPT !.todo = tick.todo \ {b}]
      /\ UNCHANGED <<now, wakeAt, appended, trimmed, lease, handed, profile,
                     signatures, reviewed, missed, fired>>
  BY DEF SkipBot, Tick, jobVars, profileVars
<1>2. TickIs("fire", tick.moment, tick.todo \ {b}, tick.bot, tick.at, tick.signed, tick.read)
  BY <1>1, TickSteps, TickFields DEF HouseInv
<1>3. HouseTypes'
  BY <1>1, <1>2 DEF HouseInv, HouseTypes, TickIs
<1> QED
  BY <1>1, <1>2, <1>3, SweepFrame, FireFrame, ReviewFrame
     DEF HouseInv, HouseTypes, TickIs, SweepPhases

LEMMA FallAsleepStep ==
    ASSUME HouseInv, FallAsleep
    PROVE  HouseInv'
<1>1. /\ tick.phase = "fire" /\ tick' = Asleep /\ wakeAt' = now + 2
      /\ UNCHANGED <<now, appended, trimmed, lease, handed, profile,
                     signatures, reviewed, missed, fired>>
  BY DEF FallAsleep, Interval, Tick, jobVars, profileVars
<1>2. now \in Nat /\ tick.moment \in Nat /\ tick.moment <= now
  BY TickFields DEF HouseInv, HouseTypes, FireInv
<1>3. tick' \in Ticks /\ tick'.phase = "asleep" /\ tick'.moment = 0
  BY <1>1, AsleepIsATick DEF Asleep
<1>4. HouseTypes'
  BY <1>1, <1>2, <1>3 DEF HouseInv, HouseTypes
<1>5. SweepInv' /\ ReviewInv'
  BY <1>1, <1>3, SweepFrame, ReviewFrame DEF HouseInv, SweepPhases
<1>6. ASSUME NEW c \in HostedBots, NEW i \in DOMAIN fired[c]
      PROVE  2 * fired[c][i] + 2 <= now + 2
  <2>1. fired[c][i] \in Nat
    BY <1>6 DEF HouseInv, HouseTypes
  <2>2. 2 * fired[c][i] <= tick.moment
    BY <1>1, <1>6 DEF HouseInv, FireInv
  <2> QED
    BY <1>2, <2>1, <2>2
<1>7. FireInv'
  BY <1>1, <1>2, <1>3, <1>6 DEF HouseInv, FireInv, FiresOncePerMinute
<1> QED
  BY <1>4, <1>5, <1>7 DEF HouseInv

LEMMA HouseStep ==
    ASSUME HouseInv, [HousekeepingNext]_housekeepingVars
    PROVE  HouseInv'
<1>1. CASE UNCHANGED housekeepingVars
  BY <1>1 DEF housekeepingVars, jobVars, profileVars, HouseInv, HouseTypes, SweepInv,
     OfferedFirst, TailHanded, FireInv, FiresOncePerMinute, ReviewInv
<1>2. CASE HousekeepingNext
  BY <1>2, PassesStep, WakeStep, UserTurnStep, UserTurnEndsStep, EditProfileStep,
     SweepPassesStep, SweepSubmitsStep, FireStep, SkipBotStep, SweepBeginsStep,
     SweepFlushesStep, SweepGivesUpStep, SweepTrimsStep, SignProfilesStep,
     ReadProfilesStep, ReviewProfilesStep, ReviewFailsStep, FallAsleepStep
     DEF HousekeepingNext
<1> QED
  BY <1>1, <1>2

\* The jobs of the scheduler thread (bots/scheduler.py, app/background_jobs): however
\* the passes, the turns and the edits interleave, nothing is compacted before it, or
\* as much as an extraction holds of what is newer, was given to the extractor, no bot
\* is given two turns for a minute of its schedule, and no version of a profile counts
\* as reviewed that could be read and that Thyca was not shown.
THEOREM HousekeepingIsSafe == HousekeepingSpec => []HousekeepingSafe
<1>1. HouseInv => HousekeepingSafe
  BY DEF HouseInv, SweepInv, FireInv, ReviewInv, HousekeepingSafe, ReviewedIsShown
<1> QED
  BY <1>1, HouseInit, HouseStep, PTL DEF HousekeepingSpec

-----------------------------------------------------------------------------
(***************************************************************************)
(* The safety of the two stores of a team's configuration, for any writers,*)
(* bots and models and any number of requests: a bot is set to a model that *)
(* is registered, conditional posts replace what their client saw, and no   *)
(* file outlives its bot.                                                   *)
(*                                                                         *)
(* TeamInv is inductive.  Beside the types and the three properties it says *)
(*   - StepFitsKind: which operations have which steps;                    *)
(*   - LocksAreHeld: whoever is past a lock has it still;                  *)
(*   - what a writer has checked under a lock is still true while it holds *)
(*     that lock: SaveIsAllowed, ModelIsRegistered, PauseKeeps, CardFollows.*)
(* The invariants about one writer survive the others' steps because each  *)
(* of those needs a lock that the first one has.                           *)
(***************************************************************************)
Settable == Models \cup {Inherit}
Configs == [models : SUBSET Models, default : Models]
Steps == {"coordinate", "check", "save", "lock", "settings", "card", "rmtree"}
Ops == [kind : {"post", "settings", "create", "pause", "delete"}, bot : TeamBots,
        model : Settable \cup {NoModel}, base : Configs, next : Configs, step : Steps]

TeamTypes ==
    /\ config \in Configs
    /\ coordLock \in Writers \cup {NoWriter}
    /\ botLock \in [TeamBots -> Writers \cup {NoWriter}]
    /\ settings \in [TeamBots -> Settable \cup {NoModel}]
    /\ card \in [TeamBots -> {"none", "plain"} \cup Models]
    /\ folder \subseteq TeamBots
    /\ op \in [Writers -> Ops \cup {NoOp}]
    /\ unlisted \subseteq Models
    /\ bared \subseteq TeamBots


Setter(w) == op[w].kind \in {"settings", "create"}

StepFitsKind(w) ==
    /\ op[w].step \in {"coordinate", "check"} => op[w].kind \in Coordinated
    /\ op[w].step = "save" => op[w].kind = "post"
    /\ op[w].step = "lock" => op[w].kind # "post"
    /\ op[w].step \in {"settings", "card"} => Setter(w) \/ op[w].kind = "pause"
    /\ Setter(w) => op[w].model # NoModel

HoldsCoordination(w) ==
    \/ op[w].step \in {"check", "save"}
    \/ Setter(w) /\ op[w].step \in {"lock", "settings", "card"}
HoldsBot(w) == op[w].step \in {"settings", "card", "rmtree"}
LocksAreHeld(w) ==
    /\ HoldsCoordination(w) => coordLock = w
    /\ HoldsBot(w) => botLock[op[w].bot] = w

\* The models that the bots may be set to.
Registered == {Inherit} \cup config.models \cup unlisted
DefaultIsListed == config.default \in config.models \cup unlisted

SaveIsAllowed(w) ==
    op[w].step = "save" =>
        /\ op[w].model = Inherit \/ op[w].base = config
        /\ \A b \in folder \ bared :
              Explicit(b) \in {Inherit} \cup op[w].next.models \cup unlisted

ModelIsRegistered(w) ==
    Setter(w) /\ op[w].step \in {"lock", "settings"} => op[w].model \in Registered

PauseKeeps(w) ==
    op[w].step = "settings" /\ op[w].kind = "pause" => op[w].model = Explicit(op[w].bot)

CardFollows(w) ==
    op[w].step = "card" =>
        /\ op[w].bot \in folder
        /\ settings[op[w].bot] = op[w].model
        /\ op[w].model # NoModel

WriterInv(w) ==
    /\ StepFitsKind(w)
    /\ LocksAreHeld(w)
    /\ SaveIsAllowed(w)
    /\ ModelIsRegistered(w)
    /\ PauseKeeps(w)
    /\ CardFollows(w)

StoresInv == DefaultIsListed /\ RefsAreRegistered /\ GoneIsGone
TeamInv == TeamTypes /\ StoresInv /\ \A w \in Writers : WriterInv(w)

-----------------------------------------------------------------------------
(* Frames                                                                  *)

\* A writer that has begun has an operation.
LEMMA BegunHasOp ==
  ASSUME TeamTypes, NEW w \in Writers, op[w].step # "idle"
  PROVE  op[w] \in Ops
BY DEF TeamTypes, NoOp

\* What is set for a bot is a model or Inherit.
LEMMA ExplicitIsSettable ==
  ASSUME TeamTypes, NEW b \in TeamBots
  PROVE  Explicit(b) \in Settable
BY DEF TeamTypes, Explicit, Settable

\* A writer keeps its invariant when the two stores, its operation and its
\* locks stay as they are.
LEMMA BystanderKeeps ==
  ASSUME NEW v \in Writers, WriterInv(v), op'[v] = op[v],
         UNCHANGED <<confVars, botVars>>,
         coordLock = v => coordLock' = v,
         \A b \in TeamBots : botLock[b] = v => botLock'[b] = v,
         HoldsBot(v) => op[v].bot \in TeamBots
  PROVE  WriterInv(v)'
<1> USE DEF Setter, confVars, botVars
<1>1. StepFitsKind(v)'
  BY DEF WriterInv, StepFitsKind
<1>2. LocksAreHeld(v)'
  BY DEF WriterInv, LocksAreHeld, HoldsCoordination, HoldsBot
<1>3. SaveIsAllowed(v)'
  BY DEF WriterInv, SaveIsAllowed, Explicit
<1>4. ModelIsRegistered(v)' /\ PauseKeeps(v)' /\ CardFollows(v)'
  BY DEF WriterInv, ModelIsRegistered, PauseKeeps, CardFollows, Explicit, Registered
<1>5. QED
  BY <1>1, <1>2, <1>3, <1>4 DEF WriterInv

\* The stores keep their invariant when they stay as they are.
LEMMA StoresKeep ==
  ASSUME StoresInv, UNCHANGED <<confVars, botVars>>
  PROVE  StoresInv'
BY DEF StoresInv, DefaultIsListed, RefsAreRegistered, GoneIsGone, Explicit, confVars, botVars

\* A writer keeps its invariant when another one, w, changes the bot b, whose
\* lock it has: no bot is set to anything that it was not set to before, unless
\* w also has the coordination lock.
LEMMA OthersKeep ==
  ASSUME TeamTypes, NEW v \in Writers, NEW w \in Writers, v # w, NEW b \in TeamBots,
         WriterInv(v), op'[v] = op[v], botLock[b] = w,
         UNCHANGED confVars,
         coordLock = v => coordLock' = v,
         \A c \in TeamBots : botLock[c] = v => botLock'[c] = v,
         \A c \in TeamBots \ {b} :
            /\ settings'[c] = settings[c] /\ card'[c] = card[c]
            /\ c \in folder <=> c \in folder',
         \/ coordLock = w
         \/ \A c \in folder' \ bared' :
               \/ c \in folder \ bared /\ Explicit(c)' = Explicit(c)
               \/ Explicit(c)' = Inherit
  PROVE  WriterInv(v)'
<1> USE DEF Setter, confVars
<1>1. HoldsBot(v) => op[v].bot \in TeamBots \ {b}
  <2> SUFFICES ASSUME HoldsBot(v)
               PROVE  op[v].bot \in TeamBots \ {b}
    OBVIOUS
  <2>1. op[v] \in Ops
    BY BegunHasOp DEF HoldsBot
  <2>2. botLock[op[v].bot] = v
    BY DEF WriterInv, LocksAreHeld
  <2>3. QED
    BY <2>1, <2>2 DEF Ops
<1>2. StepFitsKind(v)'
  BY DEF WriterInv, StepFitsKind
<1>3. LocksAreHeld(v)'
  BY <1>1 DEF WriterInv, LocksAreHeld, HoldsCoordination, HoldsBot
<1>4. SaveIsAllowed(v)'
  <2>1. CASE coordLock = w
    <3>1. op[v].step # "save"
      BY <2>1 DEF WriterInv, LocksAreHeld, HoldsCoordination
    <3>2. QED
      BY <3>1 DEF SaveIsAllowed
  <2>2. CASE \A c \in folder' \ bared' :
               \/ c \in folder \ bared /\ Explicit(c)' = Explicit(c)
               \/ Explicit(c)' = Inherit
    BY <2>2 DEF WriterInv, SaveIsAllowed
  <2>3. QED
    BY <2>1, <2>2
<1>5. ModelIsRegistered(v)'
  BY DEF WriterInv, ModelIsRegistered, Registered
<1>6. PauseKeeps(v)'
  BY <1>1 DEF WriterInv, PauseKeeps, HoldsBot, Explicit
<1>7. CardFollows(v)'
  BY <1>1 DEF WriterInv, CardFollows, HoldsBot
<1>8. QED
  BY <1>2, <1>3, <1>4, <1>5, <1>6, <1>7 DEF WriterInv

-----------------------------------------------------------------------------
(* The first state                                                         *)

LEMMA TeamInitInv == TeamInit => TeamInv
<1> SUFFICES ASSUME TeamInit
             PROVE  TeamInv
  OBVIOUS
<1> USE TeamConfigAssumption
<1>1. TeamTypes
  BY DEF TeamInit, TeamTypes, Configs, Settable
<1>2. StoresInv
  <2>1. DefaultIsListed
    BY DEF TeamInit, DefaultIsListed
  <2>2. \A b \in TeamBots : Explicit(b) \in {Inherit} \cup config.models
    BY DEF TeamInit, Explicit
  <2>3. RefsAreRegistered
    BY <1>1, <2>2 DEF RefsAreRegistered, TeamTypes
  <2>4. GoneIsGone
    BY DEF TeamInit, GoneIsGone
  <2>5. QED
    BY <2>1, <2>3, <2>4 DEF StoresInv
<1>3. ASSUME NEW w \in Writers
      PROVE  WriterInv(w)
  <2>1. op[w] = NoOp /\ op[w].step = "idle" /\ op[w].kind = "none"
    BY DEF TeamInit, NoOp
  <2>2. QED
    BY <2>1 DEF WriterInv, StepFitsKind, LocksAreHeld, SaveIsAllowed, ModelIsRegistered,
                PauseKeeps, CardFollows, HoldsCoordination, HoldsBot, Setter
<1>4. QED
  BY <1>1, <1>2, <1>3 DEF TeamInv

-----------------------------------------------------------------------------
(* The steps that change no store                                          *)

\* A writer that is idle satisfies its invariant.
LEMMA IdleWriterInv ==
  ASSUME NEW w \in Writers, op[w] = NoOp
  PROVE  WriterInv(w)
<1>1. op[w].step = "idle" /\ op[w].kind = "none"
  BY DEF NoOp
<1>2. QED
  BY <1>1 DEF WriterInv, StepFitsKind, LocksAreHeld, SaveIsAllowed, ModelIsRegistered,
              PauseKeeps, CardFollows, HoldsCoordination, HoldsBot, Setter

\* What Unlocked leaves to the others.
LEMMA OthersLocks ==
  ASSUME TeamTypes, NEW w \in Writers, NEW v \in Writers, v # w, Unlocked(w)
  PROVE  /\ coordLock = v => coordLock' = v
         /\ \A b \in TeamBots : botLock[b] = v => botLock'[b] = v
BY DEF TeamTypes, Unlocked

LEMMA UnlockedTypes ==
  ASSUME TeamTypes, NEW w \in Writers, Unlocked(w)
  PROVE  /\ coordLock' \in Writers \cup {NoWriter}
         /\ botLock' \in [TeamBots -> Writers \cup {NoWriter}]
BY DEF TeamTypes, Unlocked

\* The bot of a writer that has a bot lock is a bot.
LEMMA HolderHasBot ==
  ASSUME TeamTypes, NEW v \in Writers, HoldsBot(v)
  PROVE  op[v].bot \in TeamBots
<1>1. op[v] \in Ops
  BY BegunHasOp DEF HoldsBot
<1>2. QED
  BY <1>1 DEF Ops

\* The writers other than w keep their invariants in a step of w that changes
\* no store.
LEMMA NoStoreStep ==
  ASSUME TeamInv, NEW w \in Writers,
         UNCHANGED <<confVars, botVars>>,
         \A v \in Writers \ {w} :
            /\ op'[v] = op[v]
            /\ coordLock = v => coordLock' = v
            /\ \A b \in TeamBots : botLock[b] = v => botLock'[b] = v,
         TeamTypes', WriterInv(w)'
  PROVE  TeamInv'
<1>1. StoresInv'
  BY StoresKeep DEF TeamInv
<1>2. ASSUME NEW v \in Writers \ {w}
      PROVE  WriterInv(v)'
  <2>1. WriterInv(v) /\ (HoldsBot(v) => op[v].bot \in TeamBots)
    BY HolderHasBot DEF TeamInv
  <2>2. QED
    BY <2>1, BystanderKeeps
<1>3. QED
  BY <1>1, <1>2 DEF TeamInv

LEMMA BeginInv ==
  ASSUME TeamInv, NEW w \in Writers, NEW r \in Requests, Begin(w, r[1], r[2], r[3])
  PROVE  TeamInv'
<1> USE DEF Begin
<1>1. /\ r[1] \in {"post", "settings", "create", "pause", "delete"}
      /\ r[2] \in TeamBots /\ r[3] \in Settable \cup {NoModel}
      /\ r[1] \in {"settings", "create"} => r[3] # NoModel
  BY TeamConfigAssumption DEF Requests, Settable
<1>2. /\ op' \in [Writers -> Ops \cup {NoOp}]
      /\ op'[w].kind = r[1] /\ op'[w].model = r[3]
      /\ op'[w].step = IF r[1] \in Coordinated THEN "coordinate" ELSE "lock"
  BY <1>1 DEF TeamInv, TeamTypes, Ops, Configs, Steps
<1>3. TeamTypes'
  BY <1>2 DEF TeamInv, TeamTypes, confVars, botVars
<1>4. WriterInv(w)'
  BY <1>1, <1>2 DEF WriterInv, StepFitsKind, LocksAreHeld, SaveIsAllowed, ModelIsRegistered,
                    PauseKeeps, CardFollows, HoldsCoordination, HoldsBot, Setter, Coordinated
<1>5. \A v \in Writers \ {w} : op'[v] = op[v]
  BY DEF TeamInv, TeamTypes
<1>6. QED
  BY <1>3, <1>4, <1>5, NoStoreStep

LEMMA LeavesInv ==
  ASSUME TeamInv, NEW w \in Writers, Leaves(w)
  PROVE  TeamInv'
<1> USE DEF Leaves
<1>1. op' \in [Writers -> Ops \cup {NoOp}] /\ op'[w] = NoOp
  BY DEF TeamInv, TeamTypes
<1>2. TeamTypes'
  BY <1>1, UnlockedTypes DEF TeamInv, TeamTypes, confVars, botVars
<1>3. WriterInv(w)'
  BY <1>1 DEF NoOp, WriterInv, StepFitsKind, LocksAreHeld, SaveIsAllowed, ModelIsRegistered,
              PauseKeeps, CardFollows, HoldsCoordination, HoldsBot, Setter
<1>4. \A v \in Writers \ {w} :
         /\ op'[v] = op[v]
         /\ coordLock = v => coordLock' = v
         /\ \A b \in TeamBots : botLock[b] = v => botLock'[b] = v
  BY OthersLocks DEF TeamInv, TeamTypes
<1>5. QED
  BY <1>2, <1>3, <1>4, NoStoreStep

LEMMA TakeCoordinationInv ==
  ASSUME TeamInv, NEW w \in Writers, TakeCoordination(w)
  PROVE  TeamInv'
<1> USE DEF TakeCoordination, At, Moved
<1>1. op[w] \in Ops
  BY BegunHasOp DEF TeamInv
<1>2. /\ op' \in [Writers -> Ops \cup {NoOp}]
      /\ op'[w].kind = op[w].kind /\ op'[w].model = op[w].model
      /\ op'[w].step = "check"
  BY <1>1 DEF TeamInv, TeamTypes, Ops, Steps
<1>3. TeamTypes'
  BY <1>2 DEF TeamInv, TeamTypes, confVars, botVars
<1>4. WriterInv(w)'
  BY <1>2 DEF TeamInv, WriterInv, StepFitsKind, LocksAreHeld, SaveIsAllowed, ModelIsRegistered,
              PauseKeeps, CardFollows, HoldsCoordination, HoldsBot, Setter
<1>5. \A v \in Writers \ {w} :
         /\ op'[v] = op[v]
         /\ coordLock = v => coordLock' = v
         /\ \A b \in TeamBots : botLock[b] = v => botLock'[b] = v
  BY TeamConfigAssumption DEF TeamInv, TeamTypes
<1>6. QED
  BY <1>3, <1>4, <1>5, NoStoreStep

\* What the verdict on a POST means for the bots.
LEMMA CheckPostInv ==
  ASSUME TeamInv, NEW w \in Writers, NEW new \in Configs, CheckPost(w, new)
  PROVE  TeamInv'
<1> USE DEF CheckPost, At
<1>1. op[w] \in Ops
  BY BegunHasOp DEF TeamInv
<1>2. /\ op' \in [Writers -> Ops \cup {NoOp}]
      /\ op'[w].kind = "post" /\ op'[w].model = op[w].model /\ op'[w].base = op[w].base
      /\ op'[w].step = "save" /\ op'[w].next = new
  BY <1>1 DEF TeamInv, TeamTypes, Ops, Steps
<1>3. TeamTypes'
  BY <1>2 DEF TeamInv, TeamTypes, confVars, botVars
<1>4. op'[w].model = Inherit \/ op'[w].base = config'
  BY <1>2 DEF Allowed, confVars
<1>5. ASSUME NEW b \in folder \ bared
      PROVE  Explicit(b) \in {Inherit} \cup new.models \cup unlisted
  <2>1. Explicit(b) \in {Inherit} \cup config.models \cup unlisted
    BY DEF TeamInv, StoresInv, RefsAreRegistered
  <2>2. Explicit(b) \notin config.models \ new.models
    BY DEF Allowed, Referenced
  <2>3. QED
    BY <2>1, <2>2
<1>6. SaveIsAllowed(w)'
  BY <1>2, <1>4, <1>5 DEF SaveIsAllowed, Explicit, confVars, botVars
<1>7. StepFitsKind(w)' /\ LocksAreHeld(w)'
  BY <1>2 DEF TeamInv, WriterInv, StepFitsKind, LocksAreHeld, HoldsCoordination, HoldsBot, Setter
<1>8. WriterInv(w)'
  BY <1>2, <1>6, <1>7 DEF WriterInv, ModelIsRegistered, PauseKeeps, CardFollows
<1>9. \A v \in Writers \ {w} : op'[v] = op[v]
  BY DEF TeamInv, TeamTypes
<1>10. QED
  BY <1>3, <1>8, <1>9, NoStoreStep

LEMMA TakeBotLockInv ==
  ASSUME TeamInv, NEW w \in Writers, TakeBotLock(w)
  PROVE  TeamInv'
<1> USE DEF TakeBotLock, At
<1>1. op[w] \in Ops /\ op[w].bot \in TeamBots
  BY BegunHasOp DEF TeamInv, Ops
<1>2. Kept(w) \in Settable
  BY <1>1, ExplicitIsSettable DEF TeamInv, Kept
<1>3. /\ op' \in [Writers -> Ops \cup {NoOp}]
      /\ op'[w].kind = op[w].kind /\ op'[w].bot = op[w].bot
      /\ op'[w].model = IF op[w].kind = "pause" THEN Kept(w) ELSE op[w].model
      /\ op'[w].step = IF op[w].kind = "delete" THEN "rmtree" ELSE "settings"
  <2> DEFINE to == [[op[w] EXCEPT !.step = IF op[w].kind = "delete" THEN "rmtree" ELSE "settings"]
                       EXCEPT !.model = IF op[w].kind = "pause" THEN Kept(w) ELSE op[w].model]
  <2>1. op' = [op EXCEPT ![w] = to]
    BY <1>1 DEF TeamInv, TeamTypes, Ops
  <2>2. to \in Ops
    BY <1>1, <1>2 DEF Ops, Steps
  <2>3. op'[w] = to
    BY <2>1 DEF TeamInv, TeamTypes
  <2>4. op' \in [Writers -> Ops \cup {NoOp}]
    BY <2>1, <2>2 DEF TeamInv, TeamTypes
  <2>5. /\ to.kind = op[w].kind /\ to.bot = op[w].bot
        /\ to.model = IF op[w].kind = "pause" THEN Kept(w) ELSE op[w].model
        /\ to.step = IF op[w].kind = "delete" THEN "rmtree" ELSE "settings"
    BY <1>1 DEF Ops
  <2>6. QED
    BY <2>3, <2>4, <2>5
<1>4. TeamTypes'
  BY <1>1, <1>3 DEF TeamInv, TeamTypes, confVars, botVars
<1>5. botLock'[op[w].bot] = w
  BY <1>1 DEF TeamInv, TeamTypes
<1>6. StepFitsKind(w)' /\ LocksAreHeld(w)'
  BY <1>1, <1>3, <1>5
    DEF TeamInv, WriterInv, StepFitsKind, LocksAreHeld, HoldsCoordination, HoldsBot, Setter, Ops
<1>7. ModelIsRegistered(w)'
  BY <1>3 DEF TeamInv, WriterInv, ModelIsRegistered, Setter, Registered, confVars
<1>8. PauseKeeps(w)'
  BY <1>3 DEF PauseKeeps, Kept, Explicit, botVars
<1>9. WriterInv(w)'
  BY <1>3, <1>6, <1>7, <1>8 DEF WriterInv, SaveIsAllowed, CardFollows
<1>10. \A v \in Writers \ {w} :
         /\ op'[v] = op[v]
         /\ coordLock = v => coordLock' = v
         /\ \A b \in TeamBots : botLock[b] = v => botLock'[b] = v
  BY <1>1, TeamConfigAssumption DEF TeamInv, TeamTypes, Free
<1>11. QED
  BY <1>4, <1>9, <1>10, NoStoreStep

-----------------------------------------------------------------------------
(* The steps that change a store                                           *)

\* A save: who has the coordination lock is alone with what it checked.
LEMMA SaveConfigInv ==
  ASSUME TeamInv, NEW w \in Writers, SaveConfig(w)
  PROVE  TeamInv'
<1> USE DEF SaveConfig, At
<1>1. op[w] \in Ops /\ op[w].next \in Configs
  BY BegunHasOp DEF TeamInv, Ops
<1>2. coordLock = w
  BY DEF TeamInv, WriterInv, LocksAreHeld, HoldsCoordination
<1>3. op' \in [Writers -> Ops \cup {NoOp}] /\ op'[w] = NoOp
  BY DEF TeamInv, TeamTypes
<1>4. TeamTypes'
  <2>1. config' \in Configs /\ unlisted' \subseteq Models
    BY <1>1 DEF TeamInv, TeamTypes, Configs
  <2>2. QED
    BY <1>3, <2>1, UnlockedTypes DEF TeamInv, TeamTypes, botVars
<1>5. StoresInv'
  <2>1. DefaultIsListed'
    BY DEF DefaultIsListed
  <2>2. \A b \in folder \ bared :
           Explicit(b) \in {Inherit} \cup config'.models \cup unlisted
    BY DEF TeamInv, WriterInv, SaveIsAllowed
  <2>3. RefsAreRegistered'
    BY <2>2 DEF RefsAreRegistered, Explicit, botVars
  <2>4. GoneIsGone'
    BY DEF TeamInv, StoresInv, GoneIsGone, botVars
  <2>5. QED
    BY <2>1, <2>3, <2>4 DEF StoresInv
<1>6. WriterInv(w)'
  BY <1>3 DEF NoOp, WriterInv, StepFitsKind, LocksAreHeld, SaveIsAllowed, ModelIsRegistered,
              PauseKeeps, CardFollows, HoldsCoordination, HoldsBot, Setter
<1>7. ASSUME NEW v \in Writers, v # w
      PROVE  WriterInv(v)'
  <2>1. /\ op'[v] = op[v] /\ WriterInv(v)
        /\ coordLock = v => coordLock' = v
        /\ \A b \in TeamBots : botLock[b] = v => botLock'[b] = v
        /\ HoldsBot(v) => op[v].bot \in TeamBots
    BY <1>7, OthersLocks, HolderHasBot DEF TeamInv, TeamTypes
  <2>2. ~HoldsCoordination(v)
    BY <1>2, <1>7, <2>1 DEF WriterInv, LocksAreHeld
  <2>3. StepFitsKind(v)' /\ LocksAreHeld(v)'
    BY <2>1 DEF WriterInv, StepFitsKind, LocksAreHeld, HoldsCoordination, HoldsBot, Setter
  <2>4. SaveIsAllowed(v)' /\ ModelIsRegistered(v)'
    BY <2>1, <2>2 DEF SaveIsAllowed, ModelIsRegistered, HoldsCoordination, Setter
  <2>5. PauseKeeps(v)' /\ CardFollows(v)'
    BY <2>1 DEF WriterInv, PauseKeeps, CardFollows, Explicit, botVars
  <2>6. QED
    BY <2>3, <2>4, <2>5 DEF WriterInv
<1>8. QED
  BY <1>4, <1>5, <1>6, <1>7 DEF TeamInv

\* A setter's model is registered when it is checked; create may add a
\* directory, which is set to nothing yet.
LEMMA CheckModelInv ==
  ASSUME TeamInv, NEW w \in Writers, CheckModel(w)
  PROVE  TeamInv'
<1> DEFINE b == op[w].bot
<1> USE DEF CheckModel, At, Moved
<1>1. op[w] \in Ops /\ b \in TeamBots
  BY BegunHasOp DEF TeamInv, Ops
<1>2. coordLock = w
  BY DEF TeamInv, WriterInv, LocksAreHeld, HoldsCoordination
<1>3. /\ op' \in [Writers -> Ops \cup {NoOp}]
      /\ op'[w].kind = op[w].kind /\ op'[w].model = op[w].model
      /\ op'[w].step = "lock"
  BY <1>1 DEF TeamInv, TeamTypes, Ops, Steps
<1>4. folder \subseteq folder' /\ folder' \subseteq folder \cup {b}
  OBVIOUS
<1>5. TeamTypes'
  BY <1>1, <1>3, <1>4 DEF TeamInv, TeamTypes, confVars
<1>6. StoresInv'
  <2>1. DefaultIsListed' /\ GoneIsGone'
    BY <1>4 DEF TeamInv, StoresInv, DefaultIsListed, GoneIsGone, confVars
  <2>2. ASSUME NEW c \in folder' \ bared'
        PROVE  Explicit(c)' \in {Inherit} \cup config'.models \cup unlisted'
    <3>1. CASE c \in folder
      BY <3>1 DEF TeamInv, StoresInv, RefsAreRegistered, Explicit, confVars
    <3>2. CASE c \notin folder
      <4>1. c = b /\ settings[c] = NoModel /\ card[c] = "none"
        BY <1>1, <1>4, <3>2 DEF TeamInv, StoresInv, GoneIsGone
      <4>2. QED
        BY <4>1, TeamConfigAssumption DEF Explicit
    <3>3. QED
      BY <3>1, <3>2
  <2>3. QED
    BY <2>1, <2>2 DEF StoresInv, RefsAreRegistered
<1>7. WriterInv(w)'
  <2>1. op[w].model \in Registered
    BY DEF TeamInv, StoresInv, Known, DefaultIsListed, Registered
  <2>2. StepFitsKind(w)' /\ LocksAreHeld(w)'
    BY <1>2, <1>3
      DEF TeamInv, WriterInv, StepFitsKind, LocksAreHeld, HoldsCoordination, HoldsBot, Setter
  <2>3. ModelIsRegistered(w)'
    BY <1>3, <2>1 DEF ModelIsRegistered, Registered, confVars
  <2>4. QED
    BY <1>3, <2>2, <2>3 DEF WriterInv, SaveIsAllowed, PauseKeeps, CardFollows
<1>8. ASSUME NEW v \in Writers, v # w
      PROVE  WriterInv(v)'
  <2>1. op'[v] = op[v] /\ WriterInv(v) /\ (HoldsBot(v) => op[v].bot \in TeamBots)
    BY <1>8, HolderHasBot DEF TeamInv, TeamTypes
  <2>2. ~HoldsCoordination(v)
    BY <1>2, <1>8, <2>1 DEF WriterInv, LocksAreHeld
  <2>3. StepFitsKind(v)' /\ LocksAreHeld(v)'
    BY <2>1 DEF WriterInv, StepFitsKind, LocksAreHeld, HoldsCoordination, HoldsBot, Setter
  <2>4. SaveIsAllowed(v)' /\ ModelIsRegistered(v)'
    BY <2>1, <2>2 DEF SaveIsAllowed, ModelIsRegistered, HoldsCoordination, Setter
  <2>5. PauseKeeps(v)' /\ CardFollows(v)'
    BY <1>4, <2>1 DEF WriterInv, PauseKeeps, CardFollows, Explicit
  <2>6. QED
    BY <2>3, <2>4, <2>5 DEF WriterInv
<1>9. QED
  BY <1>5, <1>6, <1>7, <1>8 DEF TeamInv

\* The stores in a step that changes one bot: its references are what they
\* were, none, or registered.
LEMMA BotStepStores ==
  ASSUME TeamInv, UNCHANGED confVars,
         \A c \in folder' \ bared' :
            \/ c \in folder \ bared /\ Explicit(c)' = Explicit(c)
            \/ Explicit(c)' \in Registered,
         GoneIsGone'
  PROVE  StoresInv'
<1>1. DefaultIsListed'
  BY DEF TeamInv, StoresInv, DefaultIsListed, confVars
<1>2. RefsAreRegistered'
  BY DEF TeamInv, StoresInv, RefsAreRegistered, Registered, confVars
<1>3. QED
  BY <1>1, <1>2 DEF StoresInv

LEMMA WriteSettingsInv ==
  ASSUME TeamInv, NEW w \in Writers, WriteSettings(w)
  PROVE  TeamInv'
<1> DEFINE b == op[w].bot
<1> USE DEF WriteSettings, At, Moved
<1>1. op[w] \in Ops /\ b \in TeamBots
  BY BegunHasOp DEF TeamInv, Ops
<1>2. /\ botLock[b] = w
      /\ Setter(w) => coordLock = w
      /\ Setter(w) \/ op[w].kind = "pause"
  BY DEF TeamInv, WriterInv, LocksAreHeld, HoldsCoordination, HoldsBot, StepFitsKind
<1>3. /\ op' \in [Writers -> Ops \cup {NoOp}]
      /\ op'[w].kind = op[w].kind /\ op'[w].model = op[w].model /\ op'[w].bot = b
      /\ op'[w].step = "card"
  BY <1>1 DEF TeamInv, TeamTypes, Ops, Steps
<1>4. op[w].model # NoModel
  <2>1. CASE Setter(w)
    BY <2>1 DEF TeamInv, WriterInv, StepFitsKind
  <2>2. CASE op[w].kind = "pause"
    BY <1>1, <2>2, ExplicitIsSettable, TeamConfigAssumption
      DEF TeamInv, WriterInv, PauseKeeps, Settable
  <2>3. QED
    BY <1>2, <2>1, <2>2
<1>5. /\ settings'[b] = op[w].model
      /\ \A c \in TeamBots \ {b} : settings'[c] = settings[c]
  BY <1>1 DEF TeamInv, TeamTypes
<1>6. Explicit(b)' = op[w].model
  BY <1>4, <1>5 DEF Explicit
<1>7. TeamTypes'
  BY <1>1, <1>3 DEF TeamInv, TeamTypes, Ops, confVars
<1>8. \A c \in TeamBots \ {b} : Explicit(c)' = Explicit(c)
  BY <1>5 DEF Explicit
<1>9. CASE Setter(w)
  <2>1. op[w].model \in Registered /\ op[w].kind # "pause"
    BY <1>9 DEF TeamInv, WriterInv, ModelIsRegistered, Setter
  <2>2. \A c \in folder' \ bared' :
            \/ c \in folder \ bared /\ Explicit(c)' = Explicit(c)
            \/ Explicit(c)' \in Registered
    BY <1>6, <1>8, <2>1 DEF TeamInv, TeamTypes
  <2>3. GoneIsGone'
    BY <1>5 DEF TeamInv, StoresInv, GoneIsGone
  <2>4. StoresInv'
    BY <2>2, <2>3, BotStepStores
  <2>5. WriterInv(w)'
    BY <1>2, <1>3, <1>4, <1>5, <1>9
      DEF TeamInv, WriterInv, StepFitsKind, LocksAreHeld, SaveIsAllowed, ModelIsRegistered,
          PauseKeeps, CardFollows, HoldsCoordination, HoldsBot, Setter
  <2>6. ASSUME NEW v \in Writers, v # w
        PROVE  WriterInv(v)'
    BY <1>1, <1>2, <1>5, <1>9, <2>6, OthersKeep DEF TeamInv, TeamTypes
  <2>7. QED
    BY <1>7, <2>4, <2>5, <2>6 DEF TeamInv
<1>10. CASE op[w].kind = "pause"
  <2>1. Explicit(b)' = Explicit(b) /\ bared' = bared
    BY <1>6, <1>10 DEF TeamInv, WriterInv, PauseKeeps
  <2>2. \A c \in folder' \ bared' : c \in folder \ bared /\ Explicit(c)' = Explicit(c)
    BY <1>8, <2>1 DEF TeamInv, TeamTypes
  <2>3. GoneIsGone'
    BY <1>5 DEF TeamInv, StoresInv, GoneIsGone
  <2>4. StoresInv'
    BY <2>2, <2>3, BotStepStores
  <2>5. WriterInv(w)'
    BY <1>2, <1>3, <1>4, <1>5, <1>10
      DEF TeamInv, WriterInv, StepFitsKind, LocksAreHeld, SaveIsAllowed, ModelIsRegistered,
          PauseKeeps, CardFollows, HoldsCoordination, HoldsBot, Setter
  <2>6. ASSUME NEW v \in Writers, v # w
        PROVE  WriterInv(v)'
    BY <1>1, <1>2, <1>5, <2>2, <2>6, OthersKeep DEF TeamInv, TeamTypes
  <2>7. QED
    BY <1>7, <2>4, <2>5, <2>6 DEF TeamInv
<1>11. QED
  BY <1>2, <1>9, <1>10

\* The rest of a step of w that changes the bot b and sets it to nothing new.
LEMMA BotStepInv ==
  ASSUME TeamInv, NEW w \in Writers, NEW b \in TeamBots, botLock[b] = w,
         UNCHANGED confVars, TeamTypes', GoneIsGone', WriterInv(w)',
         \A c \in TeamBots \ {b} :
            /\ settings'[c] = settings[c] /\ card'[c] = card[c]
            /\ c \in folder <=> c \in folder',
         \A v \in Writers \ {w} :
            /\ op'[v] = op[v]
            /\ coordLock = v => coordLock' = v
            /\ \A c \in TeamBots : botLock[c] = v => botLock'[c] = v,
         \A c \in folder' \ bared' :
            \/ c \in folder \ bared /\ Explicit(c)' = Explicit(c)
            \/ Explicit(c)' = Inherit
  PROVE  TeamInv'
<1>1. StoresInv'
  BY BotStepStores DEF Registered
<1>2. ASSUME NEW v \in Writers, v # w
      PROVE  WriterInv(v)'
  BY <1>2, OthersKeep DEF TeamInv
<1>3. QED
  BY <1>1, <1>2 DEF TeamInv

LEMMA WriteCardInv ==
  ASSUME TeamInv, NEW w \in Writers, WriteCard(w)
  PROVE  TeamInv'
<1> DEFINE b == op[w].bot
<1> USE DEF WriteCard, At
<1>1. op[w] \in Ops /\ b \in TeamBots
  BY BegunHasOp DEF TeamInv, Ops
<1>2. botLock[b] = w /\ b \in folder /\ settings[b] # NoModel
  BY DEF TeamInv, WriterInv, LocksAreHeld, HoldsBot, CardFollows
<1>3. op' \in [Writers -> Ops \cup {NoOp}] /\ op'[w] = NoOp
  BY DEF TeamInv, TeamTypes
<1>4. TeamTypes'
  BY <1>3, UnlockedTypes DEF TeamInv, TeamTypes, confVars
<1>5. GoneIsGone'
  BY <1>2 DEF TeamInv, TeamTypes, StoresInv, GoneIsGone
<1>6. WriterInv(w)'
  BY <1>3 DEF NoOp, WriterInv, StepFitsKind, LocksAreHeld, SaveIsAllowed, ModelIsRegistered,
              PauseKeeps, CardFollows, HoldsCoordination, HoldsBot, Setter
<1>7. \A c \in TeamBots \ {b} : settings'[c] = settings[c] /\ card'[c] = card[c]
  BY DEF TeamInv, TeamTypes
<1>8. \A c \in folder' \ bared' : Explicit(c)' = Explicit(c)
  BY <1>2, <1>7 DEF TeamInv, TeamTypes, Explicit
<1>9. \A v \in Writers \ {w} :
         /\ op'[v] = op[v]
         /\ coordLock = v => coordLock' = v
         /\ \A c \in TeamBots : botLock[c] = v => botLock'[c] = v
  BY OthersLocks DEF TeamInv, TeamTypes
<1>10. QED
  BY <1>1, <1>2, <1>4, <1>5, <1>6, <1>7, <1>8, <1>9, BotStepInv

\* A delete that is under way keeps its own invariant: it has no other step.
LEMMA DeleterKeeps ==
  ASSUME TeamInv, NEW w \in Writers, op[w].step = "rmtree", op'[w] = op[w],
         UNCHANGED <<coordLock, botLock>>
  PROVE  WriterInv(w)'
BY DEF TeamInv, WriterInv, StepFitsKind, LocksAreHeld, SaveIsAllowed, ModelIsRegistered,
       PauseKeeps, CardFollows, HoldsCoordination, HoldsBot, Setter

LEMMA RemoveSettingsInv ==
  ASSUME TeamInv, NEW w \in Writers, RemoveSettings(w)
  PROVE  TeamInv'
<1> DEFINE b == op[w].bot
<1> USE DEF RemoveSettings, At
<1>1. op[w] \in Ops /\ b \in TeamBots
  BY BegunHasOp DEF TeamInv, Ops
<1>2. botLock[b] = w
  BY DEF TeamInv, WriterInv, LocksAreHeld, HoldsBot
<1>3. TeamTypes'
  BY <1>1 DEF TeamInv, TeamTypes, confVars
<1>4. GoneIsGone'
  BY <1>1 DEF TeamInv, TeamTypes, StoresInv, GoneIsGone
<1>5. WriterInv(w)'
  BY DeleterKeeps
<1>6. \A c \in TeamBots \ {b} : settings'[c] = settings[c] /\ card'[c] = card[c]
  BY DEF TeamInv, TeamTypes
<1>7. ASSUME NEW c \in folder' \ bared'
      PROVE  \/ c \in folder \ bared /\ Explicit(c)' = Explicit(c)
             \/ Explicit(c)' = Inherit
  <2>1. CASE c = b
    <3>1. card[b] \notin Models
      BY <2>1, <1>7
    <3>2. settings'[b] = NoModel
      BY <1>1 DEF TeamInv, TeamTypes
    <3>3. QED
      BY <2>1, <3>1, <3>2 DEF Explicit
  <2>2. CASE c # b
    BY <1>6, <1>7, <2>2 DEF TeamInv, TeamTypes, Explicit
  <2>3. QED
    BY <2>1, <2>2
<1>8. QED
  BY <1>1, <1>2, <1>3, <1>4, <1>5, <1>6, <1>7, BotStepInv

LEMMA RemoveCardInv ==
  ASSUME TeamInv, NEW w \in Writers, RemoveCard(w)
  PROVE  TeamInv'
<1> DEFINE b == op[w].bot
<1> USE DEF RemoveCard, At
<1>1. op[w] \in Ops /\ b \in TeamBots
  BY BegunHasOp DEF TeamInv, Ops
<1>2. botLock[b] = w
  BY DEF TeamInv, WriterInv, LocksAreHeld, HoldsBot
<1>3. TeamTypes'
  BY <1>1 DEF TeamInv, TeamTypes, confVars
<1>4. GoneIsGone'
  BY <1>1 DEF TeamInv, TeamTypes, StoresInv, GoneIsGone
<1>5. WriterInv(w)'
  BY DeleterKeeps
<1>6. /\ card'[b] = "none"
      /\ \A c \in TeamBots \ {b} : settings'[c] = settings[c] /\ card'[c] = card[c]
  BY <1>1 DEF TeamInv, TeamTypes
<1>7. \A c \in folder' \ bared' :
         \/ c \in folder \ bared /\ Explicit(c)' = Explicit(c)
         \/ Explicit(c)' = Inherit
  BY <1>6, TeamConfigAssumption DEF TeamInv, TeamTypes, Explicit
<1>8. QED
  BY <1>1, <1>2, <1>3, <1>4, <1>5, <1>6, <1>7, BotStepInv

LEMMA RemoveFolderInv ==
  ASSUME TeamInv, NEW w \in Writers, RemoveFolder(w)
  PROVE  TeamInv'
<1> DEFINE b == op[w].bot
<1> USE DEF RemoveFolder, At
<1>1. op[w] \in Ops /\ b \in TeamBots
  BY BegunHasOp DEF TeamInv, Ops
<1>2. botLock[b] = w
  BY DEF TeamInv, WriterInv, LocksAreHeld, HoldsBot
<1>3. op' \in [Writers -> Ops \cup {NoOp}] /\ op'[w] = NoOp
  BY DEF TeamInv, TeamTypes
<1>4. TeamTypes'
  BY <1>3, UnlockedTypes DEF TeamInv, TeamTypes, confVars
<1>5. GoneIsGone'
  BY <1>1 DEF TeamInv, TeamTypes, StoresInv, GoneIsGone
<1>6. WriterInv(w)'
  BY <1>3 DEF NoOp, WriterInv, StepFitsKind, LocksAreHeld, SaveIsAllowed, ModelIsRegistered,
              PauseKeeps, CardFollows, HoldsCoordination, HoldsBot, Setter
<1>7. \A v \in Writers \ {w} :
         /\ op'[v] = op[v]
         /\ coordLock = v => coordLock' = v
         /\ \A c \in TeamBots : botLock[c] = v => botLock'[c] = v
  BY OthersLocks DEF TeamInv, TeamTypes
<1>8. \A c \in folder' \ bared' : c \in folder \ bared /\ Explicit(c)' = Explicit(c)
  BY DEF Explicit
<1>9. QED
  BY <1>1, <1>2, <1>4, <1>5, <1>6, <1>7, <1>8, BotStepInv

-----------------------------------------------------------------------------
(* The theorems                                                            *)

LEMMA TeamNextInv == TeamInv /\ [TeamNext]_teamVars => TeamInv'
<1> SUFFICES ASSUME TeamInv, [TeamNext]_teamVars
             PROVE  TeamInv'
  OBVIOUS
<1>1. CASE UNCHANGED teamVars
  <2>1. UNCHANGED <<confVars, botVars>> /\ UNCHANGED <<coordLock, botLock, op>>
    BY <1>1 DEF teamVars
  <2>2. TeamTypes'
    BY <2>1 DEF TeamInv, TeamTypes, confVars, botVars
  <2>3. StoresInv'
    BY <2>1, StoresKeep DEF TeamInv
  <2>4. ASSUME NEW v \in Writers
        PROVE  WriterInv(v)'
    BY <2>1, BystanderKeeps, HolderHasBot DEF TeamInv
  <2>5. QED
    BY <2>2, <2>3, <2>4 DEF TeamInv
<1>2. ASSUME NEW w \in Writers, NEW r \in Requests, Begin(w, r[1], r[2], r[3])
      PROVE  TeamInv'
  BY <1>2, BeginInv
<1>3. ASSUME NEW w \in Writers, Leaves(w) \/ TakeCoordination(w) \/ TakeBotLock(w)
      PROVE  TeamInv'
  BY <1>3, LeavesInv, TakeCoordinationInv, TakeBotLockInv
<1>4. ASSUME NEW w \in Writers, SaveConfig(w) \/ CheckModel(w)
      PROVE  TeamInv'
  BY <1>4, SaveConfigInv, CheckModelInv
<1>5. ASSUME NEW w \in Writers, WriteSettings(w) \/ WriteCard(w)
      PROVE  TeamInv'
  BY <1>5, WriteSettingsInv, WriteCardInv
<1>6. ASSUME NEW w \in Writers, RemoveSettings(w) \/ RemoveCard(w) \/ RemoveFolder(w)
      PROVE  TeamInv'
  BY <1>6, RemoveSettingsInv, RemoveCardInv, RemoveFolderInv
<1>7. ASSUME NEW w \in Writers, NEW models \in SUBSET Models, NEW default \in Models,
             CheckPost(w, [models |-> models, default |-> default])
      PROVE  TeamInv'
  BY <1>7, CheckPostInv DEF Configs
<1>8. QED
  BY <1>1, <1>2, <1>3, <1>4, <1>5, <1>6, <1>7 DEF TeamNext

\* The two stores stay typed, whatever dies (configs/, bots/settings.py).
THEOREM TeamTypesInvariant == TeamSpec => []TeamTypes
<1>1. TeamInv => TeamTypes
  BY DEF TeamInv
<1>2. QED
  BY <1>1, TeamInitInv, TeamNextInv, PTL DEF TeamSpec

\* No writers, in any number and order and dying anywhere, leave a bot set to a
\* model that is not registered, replace a config that their client did not see,
\* or bring back a file of a bot that was deleted (configs/coordination.py,
\* serve/config_api.py, bots/registry.py).
THEOREM TeamConfigIsSafe == TeamSpec => []TeamConfigSafe
<1>1. TeamInv => TeamConfigSafe
  <2>1. TeamInv => ConditionalIsOnTop
    BY TeamConfigAssumption DEF TeamInv, WriterInv, SaveIsAllowed, ConditionalIsOnTop, At
  <2>2. QED
    BY <2>1 DEF TeamInv, StoresInv, TeamConfigSafe
<1>2. QED
  BY <1>1, TeamInitInv, TeamNextInv, PTL DEF TeamSpec

-----------------------------------------------------------------------------
(***************************************************************************)
(* Memories: for any bots, windows, kinds and lifetimes.                   *)
(*                                                                         *)
(* NotebookInv is inductive. That the paths of reading agree needs what    *)
(* no rewrite changes: ids are given out once (IdsAreKeys), the index and  *)
(* the files say the same day and owner of an id, and an entry of today is *)
(* in no index (EntriesKeep). That the forgotten stays away needs that a   *)
(* mutation in progress has already taken what it drops out of the files   *)
(* (DropsStay).                                                            *)
(***************************************************************************)
Owners == NoteBots \cup {Team}
Entries == [id : Nat, day : Nat, owner : Owners, chat : NoteWindows, ttl : Ttls,
            exp : Nat, kind : NoteKinds]
Jobs == [step : {"idle", "written", "purged"}, drops : SUBSET Nat]

NotebookTypes ==
    /\ notes \subseteq Entries /\ indexed \subseteq Entries
    /\ today \in Nat /\ minted \in Nat
    /\ mutation \in Jobs
    /\ gone \subseteq Nat /\ untidy \in BOOLEAN

\* Ids are given out once, and no file or index says two things of one.
IdsAreKeys ==
    /\ \A e \in notes \cup indexed : 1 <= e.id /\ e.id <= minted
    /\ \A n \in gone \cup mutation.drops : n <= minted
    /\ \A d, e \in notes : d.id = e.id => d = e
    /\ \A d, e \in indexed : d.id = e.id => d = e

\* What no rewrite changes, and when an entry is in the index.
EntriesKeep ==
    /\ \A e \in notes : e.day <= today /\ e.day < e.exp
    /\ \A e \in indexed : e.day < today
    /\ \A d \in indexed, e \in notes : d.id = e.id => d.day = e.day /\ d.owner = e.owner

\* What was dropped does not come back.
DropsStay ==
    /\ ForgottenIsGone
    /\ \A e \in notes : e.id \notin mutation.drops

NotebookInv == NotebookTypes /\ IdsAreKeys /\ EntriesKeep /\ DropsStay /\ IndexIsFaithful

LEMMA NotebookStarts == NotebookInit => NotebookInv
<1> SUFFICES ASSUME NotebookInit PROVE NotebookInv
  OBVIOUS
<1>1. /\ notes = {} /\ indexed = {} /\ gone = {} /\ today = 1 /\ minted = 0 /\ untidy = FALSE
      /\ mutation \in Jobs /\ mutation.drops = {}
  BY DEF NotebookInit, IdleJob, Jobs
<1>2. untidy \in BOOLEAN
  BY <1>1
<1>3. NotebookTypes
  BY <1>1, <1>2 DEF NotebookTypes
<1> QED
  BY <1>1, <1>3 DEF NotebookInv, IdsAreKeys, EntriesKeep, DropsStay, ForgottenIsGone,
     IndexIsFaithful

\* A mutation that renames nothing and revives nothing.
LEMMA MutationFrame ==
    ASSUME NotebookInv, NEW drops \in SUBSET Nat, \A n \in drops : n <= minted,
           mutation' = [step |-> "written", drops |-> drops],
           UNCHANGED <<indexed, today, gone, untidy, minted>>,
           notes' \subseteq Entries,
           \A e \in notes' : e.day < e.exp /\ e.id \notin drops,
           \A d, e \in notes' : d.id = e.id => d = e,
           \A e \in notes' : \E d \in notes : d.id = e.id /\ d.day = e.day /\ d.owner = e.owner
    PROVE  NotebookInv'
<1>1. mutation' \in Jobs /\ mutation'.step = "written" /\ mutation'.drops = drops
  BY DEF Jobs
<1>2. NotebookTypes'
  BY <1>1 DEF NotebookInv, NotebookTypes
<1>3. IdsAreKeys'
  BY <1>1 DEF NotebookInv, IdsAreKeys
<1>4. EntriesKeep'
  BY DEF NotebookInv, EntriesKeep
<1>5. DropsStay'
  BY <1>1 DEF NotebookInv, DropsStay, ForgottenIsGone
<1>6. IndexIsFaithful'
  BY <1>1 DEF IndexIsFaithful, Quiet
<1> QED
  BY <1>2, <1>3, <1>4, <1>5, <1>6 DEF NotebookInv

\* An entry that replaces the one with its id.
LEMMA RewriteStep ==
    ASSUME NotebookInv, NEW d \in notes, NEW e \in Entries,
           e.id = d.id, e.day = d.day, e.owner = d.owner, e.day < e.exp,
           notes' = Rewritten(d.id, e), Begins({}), UNCHANGED minted
    PROVE  NotebookInv'
<1>1. /\ mutation' = [step |-> "written", drops |-> {}]
      /\ UNCHANGED <<indexed, today, gone, untidy, minted>>
  BY DEF Begins
<1>2. \A n \in notes' : n = e \/ (n \in notes /\ n.id # d.id)
  BY DEF Rewritten
<1>3. notes' \subseteq Entries /\ \A n \in notes' : n.day < n.exp
  BY <1>2 DEF NotebookInv, NotebookTypes, EntriesKeep
<1>4. \A m, n \in notes' : m.id = n.id => m = n
  BY <1>2 DEF NotebookInv, IdsAreKeys
<1>5. \A n \in notes' : \E m \in notes : m.id = n.id /\ m.day = n.day /\ m.owner = n.owner
  BY <1>2
<1> QED
  BY <1>1, <1>3, <1>4, <1>5, MutationFrame

\* A mutation that takes entries out, and all of those that it names.
LEMMA DropStep ==
    ASSUME NotebookInv, NEW S \in SUBSET notes,
           notes' = notes \ S, Begins({e.id : e \in S}), UNCHANGED minted
    PROVE  NotebookInv'
<1>1. /\ mutation' = [step |-> "written", drops |-> {e.id : e \in S}]
      /\ UNCHANGED <<indexed, today, gone, untidy, minted>>
  BY DEF Begins
<1>2. /\ {e.id : e \in S} \in SUBSET Nat
      /\ \A n \in {e.id : e \in S} : n <= minted
  BY DEF NotebookInv, NotebookTypes, IdsAreKeys, Entries
<1>3. \A n \in notes' : n.day < n.exp /\ n.id \notin {e.id : e \in S}
  BY DEF NotebookInv, IdsAreKeys, EntriesKeep
<1>4. notes' \subseteq Entries /\ \A m, n \in notes' : m.id = n.id => m = n
  BY DEF NotebookInv, NotebookTypes, IdsAreKeys
<1> QED
  BY <1>1, <1>2, <1>3, <1>4, MutationFrame

LEMMA EntryFields ==
    ASSUME NotebookInv, NEW e \in notes
    PROVE  /\ e \in Entries /\ e.day \in Nat /\ e.ttl \in Nat \ {0} /\ e.exp \in Nat
           /\ e.id \in Nat /\ e.day <= today /\ e.day < e.exp /\ today \in Nat
  BY NotebookAssumption DEF NotebookInv, NotebookTypes, EntriesKeep, Entries

LEMMA RememberStep ==
    ASSUME NotebookInv, NEW b \in Askers, NEW owner \in Owners, NEW kind \in NoteKinds,
           NEW ttl \in Ttls, NEW w \in NoteWindows, Remember(b, owner, kind, ttl, w)
    PROVE  NotebookInv'
<1> DEFINE new == [id |-> minted + 1, day |-> today, owner |-> owner,
                   chat |-> w, ttl |-> ttl, exp |-> today + ttl, kind |-> kind]
<1>1. /\ notes' = notes \cup {new} /\ minted' = minted + 1
      /\ mutation' = [step |-> "written", drops |-> {}]
      /\ UNCHANGED <<indexed, today, gone, untidy>>
  BY DEF Remember, Begins
<1>2. today \in Nat /\ minted \in Nat /\ ttl \in Nat /\ ttl > 0
  BY NotebookAssumption DEF NotebookInv, NotebookTypes
<1>3. new \in Entries
  BY <1>2 DEF Entries
<1>4. new.id = minted + 1 /\ new.day = today /\ new.exp = today + ttl
  OBVIOUS
<1> HIDE DEF new
<1>5. mutation' \in Jobs /\ mutation'.step = "written" /\ mutation'.drops = {}
  BY <1>1 DEF Jobs
<1>6. NotebookTypes'
  BY <1>1, <1>2, <1>3, <1>5 DEF NotebookInv, NotebookTypes
<1>7. /\ \A e \in notes \cup indexed : e.id \in Nat /\ 1 <= e.id /\ e.id <= minted
      /\ \A n \in gone : n \in Nat /\ n <= minted
  BY DEF NotebookInv, NotebookTypes, IdsAreKeys, Entries
<1>8. /\ \A e \in notes \cup indexed : 1 <= e.id /\ e.id <= minted' /\ e.id # new.id
      /\ \A n \in gone : n <= minted' /\ n # new.id
      /\ 1 <= new.id /\ new.id <= minted'
  BY <1>1, <1>2, <1>4, <1>7
<1>9. IdsAreKeys'
  BY <1>1, <1>5, <1>8 DEF NotebookInv, IdsAreKeys
<1>10. EntriesKeep'
  BY <1>1, <1>2, <1>4, <1>8 DEF NotebookInv, EntriesKeep
<1>11. DropsStay'
  BY <1>1, <1>5, <1>8 DEF NotebookInv, DropsStay, ForgottenIsGone
<1>12. IndexIsFaithful'
  BY <1>5 DEF IndexIsFaithful, Quiet
<1> QED
  BY <1>6, <1>9, <1>10, <1>11, <1>12 DEF NotebookInv

LEMMA ForgetStep ==
    ASSUME NotebookInv, NEW b \in Askers, NEW e \in notes, Forget(b, e)
    PROVE  NotebookInv'
<1>1. {d.id : d \in {e}} = {e.id}
  OBVIOUS
<1> QED
  BY <1>1, DropStep DEF Forget

LEMMA UpdateStep ==
    ASSUME NotebookInv, NEW b \in Askers, NEW e \in notes, NEW kind \in NoteKinds,
           Update(b, e, kind)
    PROVE  NotebookInv'
<1> DEFINE f == [e EXCEPT !.kind = kind]
<1>1. f \in Entries /\ f.id = e.id /\ f.day = e.day /\ f.owner = e.owner /\ f.day < f.exp
  BY EntryFields DEF Entries
<1> HIDE DEF f
<1>2. notes' = Rewritten(e.id, f) /\ Begins({}) /\ UNCHANGED minted
  BY DEF Update, f
<1> QED
  BY <1>1, <1>2, RewriteStep

LEMMA ReinforceStep ==
    ASSUME NotebookInv, NEW b \in Askers, NEW e \in notes, NEW ttl \in Ttls,
           Reinforce(b, e, ttl)
    PROVE  NotebookInv'
<1> DEFINE f == [e EXCEPT !.ttl = ttl, !.exp = today + ttl]
<1>1. ttl \in Nat /\ ttl > 0 /\ today + ttl \in Nat
  BY NotebookAssumption, EntryFields
<1>2. f \in Entries /\ f.id = e.id /\ f.day = e.day /\ f.owner = e.owner /\ f.exp = today + ttl
  BY <1>1, EntryFields DEF Entries
<1> HIDE DEF f
<1>3. f.day < f.exp
  BY <1>1, <1>2, EntryFields
<1>4. notes' = Rewritten(e.id, f) /\ Begins({}) /\ UNCHANGED minted
  BY DEF Reinforce, f
<1> QED
  BY <1>2, <1>3, <1>4, RewriteStep

LEMMA GetStep ==
    ASSUME NotebookInv, NEW b \in Askers, NEW w \in NoteWindows, NEW id \in 1 .. minted,
           Get(b, w, id)
    PROVE  NotebookInv'
<1>1. PICK e \in notes : e.id = id /\ notes' = Rewritten(id, [e EXCEPT !.exp = today + e.ttl])
  BY DEF Get
<1> DEFINE f == [e EXCEPT !.exp = today + e.ttl]
<1>2. f \in Entries /\ f.id = e.id /\ f.day = e.day /\ f.owner = e.owner /\ f.exp = today + e.ttl
  BY EntryFields DEF Entries
<1>3. notes' = Rewritten(e.id, f) /\ Begins({}) /\ UNCHANGED minted
  BY <1>1 DEF Get
<1> HIDE DEF f
<1>4. f.day < f.exp
  BY <1>2, EntryFields
<1> QED
  BY <1>2, <1>3, <1>4, RewriteStep

LEMMA ForgetBotStep ==
    ASSUME NotebookInv, NEW b \in NoteBots, ForgetBot(b)
    PROVE  NotebookInv'
<1> DEFINE S == {d \in notes : d.owner = b}
<1>1. notes' = notes \ S /\ Begins({e.id : e \in S}) /\ UNCHANGED minted
  BY DEF ForgetBot
<1> QED
  BY <1>1, DropStep

LEMMA JobSteps ==
    ASSUME NotebookInv
    PROVE  /\ [mutation EXCEPT !.step = "purged"] \in Jobs
           /\ [mutation EXCEPT !.step = "purged"].step = "purged"
           /\ [mutation EXCEPT !.step = "purged"].drops = mutation.drops
           /\ IdleJob \in Jobs /\ IdleJob.step = "idle" /\ IdleJob.drops = {}
           /\ mutation.drops \in SUBSET Nat
  BY DEF NotebookInv, NotebookTypes, Jobs, IdleJob

LEMMA PurgeStep ==
    ASSUME NotebookInv, Purge
    PROVE  NotebookInv'
<1>1. /\ notes' \subseteq notes
      /\ mutation' \in Jobs /\ mutation'.step = "purged" /\ mutation'.drops = mutation.drops
      /\ UNCHANGED <<indexed, today, minted, gone, untidy>>
  BY JobSteps DEF Purge
<1> QED
  BY <1>1 DEF NotebookInv, NotebookTypes, IdsAreKeys, EntriesKeep, DropsStay,
     ForgottenIsGone, IndexIsFaithful, Quiet

LEMMA ReindexStep ==
    ASSUME NotebookInv, Reindex
    PROVE  NotebookInv'
<1>1. /\ indexed' = {e \in notes : e.day < today}
      /\ gone' = gone \cup mutation.drops
      /\ mutation' \in Jobs /\ mutation'.step = "idle" /\ mutation'.drops = {}
      /\ mutation.drops \in SUBSET Nat /\ untidy' = FALSE
      /\ UNCHANGED <<notes, today, minted>>
  BY JobSteps DEF Reindex, Reindexed
<1> QED
  BY <1>1 DEF NotebookInv, NotebookTypes, IdsAreKeys, EntriesKeep, DropsStay,
     ForgottenIsGone, IndexIsFaithful, Quiet

LEMMA RefreshFailsStep ==
    ASSUME NotebookInv, RefreshFails
    PROVE  NotebookInv'
<1>1. /\ mutation' \in Jobs /\ mutation'.step = "idle" /\ mutation'.drops = {} /\ untidy' = TRUE
      /\ UNCHANGED <<notes, indexed, today, minted, gone>>
  BY JobSteps DEF RefreshFails
<1> QED
  BY <1>1 DEF NotebookInv, NotebookTypes, IdsAreKeys, EntriesKeep, DropsStay,
     ForgottenIsGone, IndexIsFaithful, Quiet

LEMMA CrashAndRestartStep ==
    ASSUME NotebookInv, CrashAndRestart
    PROVE  NotebookInv'
<1>1. /\ indexed' = {e \in notes : e.day < today}
      /\ mutation' \in Jobs /\ mutation'.step = "idle" /\ mutation'.drops = {}
      /\ untidy' = FALSE /\ UNCHANGED <<notes, today, minted, gone>>
  BY JobSteps DEF CrashAndRestart, Reindexed
<1> QED
  BY <1>1 DEF NotebookInv, NotebookTypes, IdsAreKeys, EntriesKeep, DropsStay,
     ForgottenIsGone, IndexIsFaithful, Quiet

LEMMA NextDayStep ==
    ASSUME NotebookInv, NextDay
    PROVE  NotebookInv'
<1>1. today' = today + 1 /\ UNCHANGED <<notes, indexed, mutation, minted, gone, untidy>>
  BY DEF NextDay
<1>2. today \in Nat /\ \A e \in notes \cup indexed : e.day \in Nat
  BY DEF NotebookInv, NotebookTypes, Entries
<1>3. EntriesKeep'
  BY <1>1, <1>2 DEF NotebookInv, EntriesKeep
<1> QED
  BY <1>1, <1>2, <1>3 DEF NotebookInv, NotebookTypes, IdsAreKeys, DropsStay,
     ForgottenIsGone, IndexIsFaithful, Quiet

LEMMA NotebookStep ==
    ASSUME NotebookInv, [NotebookNext]_notebookVars
    PROVE  NotebookInv'
<1>1. CASE UNCHANGED <<notes, indexed, today, mutation, minted, gone, untidy>>
  BY <1>1 DEF NotebookInv, NotebookTypes, IdsAreKeys, EntriesKeep, DropsStay,
     ForgottenIsGone, IndexIsFaithful, Quiet
<1>2. CASE NotebookNext
  BY <1>1, <1>2, RememberStep, ForgetStep, UpdateStep, ReinforceStep, GetStep, ForgetBotStep,
     PurgeStep, ReindexStep, RefreshFailsStep, CrashAndRestartStep, NextDayStep
     DEF NotebookNext, SweepHabits, Owners
<1> QED
  BY <1>1, <1>2 DEF notebookVars

-----------------------------------------------------------------------------

\* Whose an entry is, the index and the file of its day say alike.
LEMMA OwnersAreKnown ==
    ASSUME NotebookInv
    PROVE  /\ \A e \in indexed : LookupOwner(e.id) = e.owner
           /\ \A e \in notes : Visible(e) => LookupOwner(e.id) = e.owner
<1>1. ASSUME NEW e \in indexed
      PROVE  LookupOwner(e.id) = e.owner
  <2>1. \A d \in {d \in indexed : d.id = e.id} : d = e
    BY DEF NotebookInv, IdsAreKeys
  <2>2. e \in {d \in indexed : d.id = e.id}
    OBVIOUS
  <2>3. (CHOOSE d \in {d \in indexed : d.id = e.id} : TRUE) = e
    BY <2>1, <2>2
  <2> QED
    BY <2>2, <2>3 DEF LookupOwner
<1>2. ASSUME NEW e \in notes, Visible(e), \A d \in indexed : d.id # e.id
      PROVE  LookupOwner(e.id) = e.owner
  <2>1. \A d \in {d \in notes : d.id = e.id /\ Visible(d)} : d = e
    BY DEF NotebookInv, IdsAreKeys
  <2>2. e \in {d \in notes : d.id = e.id /\ Visible(d)}
    BY <1>2
  <2>3. (CHOOSE d \in {d \in notes : d.id = e.id /\ Visible(d)} : TRUE) = e
    BY <2>1, <2>2
  <2>4. {d \in indexed : d.id = e.id} = {}
    BY <1>2
  <2> QED
    BY <2>2, <2>3, <2>4 DEF LookupOwner
<1>3. ASSUME NEW e \in notes, Visible(e)
      PROVE  LookupOwner(e.id) = e.owner
  <2>1. CASE \A d \in indexed : d.id # e.id
    BY <1>2, <1>3, <2>1
  <2>2. CASE \E d \in indexed : d.id = e.id
    BY <1>1, <2>2 DEF NotebookInv, EntriesKeep
  <2> QED
    BY <2>1, <2>2
<1> QED
  BY <1>1, <1>3

\* What memory_get finds, as a set of entries.
LEMMA GotEntries ==
    ASSUME NotebookInv, NEW b \in NoteBots, NEW w \in NoteWindows, NEW leaf \in BOOLEAN, NEW e
    PROVE  e \in Gets(b, w, leaf) <=>
             /\ e \in indexed \/ (e \in notes /\ \A d \in indexed : d.id # e.id)
             /\ Visible(e) /\ e.owner \in {b, Team}
             /\ IF leaf /\ e \notin indexed THEN w.dm # Team ELSE CanReadOrigin(b, w, e.chat)
             /\ e \notin Orphans(b)
<1> DEFINE Origin == IF leaf /\ e \notin indexed THEN w.dm # Team ELSE CanReadOrigin(b, w, e.chat)
<1>1. b # Privileged /\ b # Team
  BY NotebookAssumption
<1>2. e \in indexed \/ e \in notes => e.id \in 1 .. minted
  BY DEF NotebookInv, NotebookTypes, IdsAreKeys, Entries
<1> HIDE DEF Origin
<1>3. e \in Gets(b, w, leaf) <=>
        \E id \in 1 .. minted :
            e \in GetFinds(id) /\ MayRead(b, id) /\ Origin /\ Renews(b, id)
  BY DEF Gets, GetsEntry, Readable, Origin
<1>4. ASSUME NEW id
      PROVE  e \in GetFinds(id) <=>
               /\ e.id = id /\ Visible(e)
               /\ e \in indexed \/ (e \in notes /\ \A d \in indexed : d.id # id)
  BY DEF GetFinds
<1>5. e \in Gets(b, w, leaf) <=>
        /\ e \in indexed \/ (e \in notes /\ \A d \in indexed : d.id # e.id)
        /\ Visible(e) /\ MayRead(b, e.id) /\ Origin /\ Renews(b, e.id)
  BY <1>2, <1>3, <1>4
<1>6. ASSUME e \in indexed \/ (e \in notes /\ Visible(e))
      PROVE  /\ MayRead(b, e.id) <=> e.owner \in {b, Team}
             /\ MayMutate(b, e.id) <=> e.owner = b
  BY <1>1, <1>6, OwnersAreKnown DEF MayRead, MayMutate
<1>7. ASSUME e \in indexed \/ (e \in notes /\ Visible(e))
      PROVE  Renews(b, e.id) <=> e \notin Orphans(b)
  <2>1. CASE e \in notes
    <3>1. e \notin Orphans(b)
      BY <2>1 DEF Orphans
    <3> QED
      BY <2>1, <3>1 DEF Renews
  <2>2. CASE e \notin notes
    BY <1>6, <1>7, <2>2 DEF Renews, Orphans
  <2> QED
    BY <2>1, <2>2
<1>8. e \in Gets(b, w, leaf) <=>
        /\ e \in indexed \/ (e \in notes /\ \A d \in indexed : d.id # e.id)
        /\ Visible(e) /\ e.owner \in {b, Team} /\ Origin /\ e \notin Orphans(b)
  BY <1>5, <1>6, <1>7
<1> QED
  BY <1>8 DEF Origin

LEMMA PathsDoAgree ==
    ASSUME NotebookInv
    PROVE  PathsAgree
<1> SUFFICES ASSUME NEW b \in NoteBots, NEW w \in NoteWindows PROVE AgreeFor(b, w)
  BY DEF PathsAgree
<1> DEFINE Got == Gets(b, w, FALSE)
           ByLeaf == Gets(b, w, TRUE)
<1>1. b # Privileged
  BY NotebookAssumption
<1>2. \A e \in indexed : e.day # today
  BY DEF NotebookInv, NotebookTypes, EntriesKeep, Entries
<1>3. \A e \in notes : e.day = today =>
        Visible(e) /\ (\A d \in indexed : d.id # e.id) /\ e \notin Orphans(b)
  BY <1>2 DEF NotebookInv, NotebookTypes, EntriesKeep, Entries, Visible, Orphans
<1>4. ASSUME NEW e
      PROVE  e \in Got <=>
               /\ e \in indexed \/ (e \in notes /\ \A d \in indexed : d.id # e.id)
               /\ Visible(e) /\ e.owner \in {b, Team} /\ CanReadOrigin(b, w, e.chat)
               /\ e \notin Orphans(b)
  BY GotEntries
<1>5. ASSUME NEW e
      PROVE  e \in ByLeaf <=>
               /\ e \in indexed \/ (e \in notes /\ \A d \in indexed : d.id # e.id)
               /\ Visible(e) /\ e.owner \in {b, Team}
               /\ IF e \notin indexed THEN w.dm # Team ELSE CanReadOrigin(b, w, e.chat)
               /\ e \notin Orphans(b)
  BY GotEntries
<1> HIDE DEF Got, ByLeaf
<1>6. SearchFinds(b, w) \ Orphans(b) = Got \cap indexed
  BY <1>1, <1>4 DEF SearchFinds, RowFor
<1>7. PromptShows(b, w) = {e \in Got : e.day = today}
  BY <1>1, <1>2, <1>3, <1>4 DEF PromptShows, VisibleTo
<1>8. ASSUME NEW e
      PROVE  e \in TaskRows(b, w) \ Orphans(b) <=>
               /\ e \in Got /\ e.kind \in {"open", "done"}
               /\ e \in indexed \/ e.day = today
  <2>1. e \in TaskRows(b, w) <=>
          \/ e \in SearchFinds(b, w) /\ e.kind \in {"open", "done"}
          \/ /\ e \in PromptShows(b, w) /\ e.kind \in {"open", "done"} /\ Visible(e)
             /\ \A r \in SearchFinds(b, w) : r.kind \in {"open", "done"} => r.id # e.id
    BY DEF TaskRows, PromptShows
  <2>2. e \in PromptShows(b, w) =>
          /\ Visible(e) /\ \A r \in SearchFinds(b, w) : r.id # e.id
          /\ e \notin Orphans(b)
    BY <1>3 DEF PromptShows, SearchFinds
  <2> QED
    BY <1>6, <1>7, <2>1, <2>2
<1>9. TaskRows(b, w) \ Orphans(b) = {e \in Got : /\ e.kind \in {"open", "done"}
                                                 /\ e \in indexed \/ e.day = today}
  BY <1>8
<1>10. ByLeaf \cap indexed = Got \cap indexed
  BY <1>4, <1>5
<1>11. w.dm = Team => ByLeaf \subseteq Got
  BY <1>4, <1>5
<1>12. \A e \in ByLeaf : e.owner \in {b, Team}
  BY <1>5
<1> QED
  BY <1>6, <1>7, <1>9, <1>10, <1>11, <1>12 DEF AgreeFor, Got, ByLeaf

\* The memories (memories/facade.py, archive_store.py): search, prompt, catalog and
\* memory_get agree on what a bot may read but for orphans and leaves that are not
\* indexed, as AgreeFor says, nothing forgotten comes back, and what the
\* index says of an entry is what its file says once a mutation has returned.
THEOREM NotebookIsSound == NotebookSpec => []NotebookHolds
<1>1. NotebookInv => NotebookHolds
  BY PathsDoAgree DEF NotebookInv, DropsStay, NotebookHolds
<1> QED
  BY <1>1, NotebookStarts, NotebookStep, PTL DEF NotebookSpec

-----------------------------------------------------------------------------
(***************************************************************************)
(* A door spends at most one naming call in its life, for any bots,        *)
(* editors, titles and number of turns.                                    *)
(*                                                                         *)
(* Attempt says why: a turn that is on its way to the mark read the row    *)
(* while the attempt was unspent, only a turn spends it and there is one   *)
(* turn at a time, so it is still unspent; and a turn that is about to     *)
(* call has marked the row, so that no later turn gets past its check.     *)
(***************************************************************************)
Attempt ==
  /\ ~metadata.naming_attempted => calls = 0
  /\ turn.pc \in {"loaded", "mark", "marking"} =>
       turn.loaded.naming_attempted = metadata.naming_attempted
  /\ turn.pc \in {"mark", "marking"} => ~metadata.naming_attempted
  /\ turn.pc = "marking" => turn.loaded.title # AutoTitle
  /\ turn.pc = "propose" => metadata.naming_attempted /\ calls = 0
  /\ turn.pc = "store" => calls = 1
RosterKept ==
  /\ \A e \in Editors : edit[e].busy => edit[e].roster # {}
  /\ turn.pc # "idle" => turn.loaded.participants # {}
NamingInv == TypeOK /\ RosterKept /\ OneAttempt /\ Attempt

\* The idle turn and the idle request have their types.
LEMMA IdleRecords ==
  /\ NoTurn \in [pc : {"idle"}, bot : Bots, loaded : Metadata] /\ NoTurn.pc = "idle"
  /\ NoEdit \in [busy : BOOLEAN, roster : SUBSET Bots] /\ NoEdit.busy = FALSE
<1>1. (CHOOSE b \in Bots : TRUE) \in Bots
  BY SomeBot
<1> QED
  BY <1>1 DEF NoTurn, NoEdit, Metadata, Titles

\* The invariant holds for a new door.
LEMMA NamingInvInit == Init => NamingInv
<1> SUFFICES ASSUME Init PROVE NamingInv
  OBVIOUS
<1>1. /\ metadata \in Metadata /\ metadata.participants # {}
      /\ metadata.naming_attempted = FALSE /\ metadata.title = NoTitle
  <2>1. PICK bots \in (SUBSET Bots) \ {{}} :
          metadata = [title |-> NoTitle, title_source |-> "none",
                      naming_attempted |-> FALSE, participants |-> bots]
    BY DEF Init
  <2> QED
    BY <2>1 DEF Metadata, Titles
<1>2. TypeOK
  BY <1>1, IdleRecords DEF Init, TypeOK
<1>3. RosterKept
  BY IdleRecords DEF Init, RosterKept
<1>4. OneAttempt /\ Attempt
  BY <1>1, IdleRecords, TitlesAssumption DEF Init, OneAttempt, Attempt
<1> QED
  BY <1>2, <1>3, <1>4 DEF NamingInv

\* Every step keeps it.
LEMMA NamingInvStep == NamingInv /\ [Next]_vars => NamingInv'
<1> SUFFICES ASSUME NamingInv, [Next]_vars PROVE NamingInv'
  OBVIOUS
<1> USE DEF NamingInv, TypeOK, RosterKept, OneAttempt, Attempt, Metadata
<1>1. CASE UNCHANGED vars
  BY <1>1 DEF vars
<1>2. ASSUME NEW b \in Bots, Load(b) PROVE NamingInv'
  BY <1>2 DEF Load
<1>3. CASE Check
  BY <1>3, IdleRecords DEF Check, EndTurn
<1>4. CASE MarkRead
  BY <1>4, IdleRecords DEF MarkRead, EndTurn, MayWrite
<1>5. CASE MarkWrite
  <2>1. CASE /\ metadata' = [turn.loaded EXCEPT !.naming_attempted = TRUE]
             /\ turn' = [turn EXCEPT !.pc = "propose"]
    <3>1. TypeOK'
      BY <1>5, <2>1 DEF MarkWrite
    <3>2. RosterKept'
      BY <1>5, <2>1 DEF MarkWrite
    <3>3. (OneAttempt /\ Attempt)'
      BY <1>5, <2>1 DEF MarkWrite
    <3> QED
      BY <3>1, <3>2, <3>3
  <2>2. CASE EndTurn /\ UNCHANGED metadata
    BY <1>5, <2>2, IdleRecords DEF MarkWrite, EndTurn
  <2> QED
    BY <1>5, <2>1, <2>2 DEF MarkWrite
<1>6. CASE Propose
  BY <1>6, IdleRecords DEF Propose, EndTurn
<1>7. CASE StoreTitleIfMissing
  BY <1>7, IdleRecords DEF StoreTitleIfMissing, EndTurn, Titles
<1>8. CASE Crash
  BY <1>8, IdleRecords DEF Crash, EndTurn
<1>9. ASSUME NEW title \in UserTitles, Rename(title) PROVE NamingInv'
  BY <1>9, TitlesAssumption DEF Rename, Titles
<1>10. ASSUME NEW e \in Editors, NEW b \in Bots, EditRead(e, b) PROVE NamingInv'
  BY <1>10 DEF EditRead, Removable
<1>11. ASSUME NEW e \in Editors, EditWrite(e) PROVE NamingInv'
  BY <1>11, IdleRecords DEF EditWrite
<1> QED
  BY <1>1, <1>2, <1>3, <1>4, <1>5, <1>6, <1>7, <1>8, <1>9, <1>10, <1>11 DEF Next

\* Every variable has its type, and a door always has a bot.
THEOREM NamingTypeCorrect == Spec => []TypeOK
<1>1. NamingInv => TypeOK
  BY DEF NamingInv
<1> QED
  BY <1>1, NamingInvInit, NamingInvStep, PTL DEF Spec

\* The model is asked for a title at most once in the life of a door.
THEOREM OneNamingCall == Spec => []OneAttempt
<1>1. NamingInv => OneAttempt
  BY DEF NamingInv
<1> QED
  BY <1>1, NamingInvInit, NamingInvStep, PTL DEF Spec

-----------------------------------------------------------------------------
(***************************************************************************)
(* Tool gateway: for any calls, callers, keyed tools and cap of retention. *)
(*                                                                         *)
(* GatewayInv is inductive. It says of each call where it stands and what  *)
(* its record, its handler and its entry are then (StepInv), what its shell *)
(* does (ShellInv) and what its id leads to (IdInv), and of the locks that *)
(* the holder is the one call that works inside (CallLocksAreHeld). An     *)
(* eviction takes only what these show to have ended, so an id that is     *)
(* given out leads to its call for as long as that runs.                   *)
(***************************************************************************)
Calls == [tool : Tools \cup {"none"}, owner : Callers \cup {AllSeeing},
          step : {"new", "locking", "waiting", "id", "tracked", "result", "cancelled"}]

RecordsAre(rec) ==
    /\ rec = [e \in ExecIds |-> rec[e]]
    /\ \A e \in ExecIds :
        /\ DOMAIN rec[e] = {"kind", "status", "exposed", "at"}
        /\ rec[e].kind \in {"none", "task", "proc"}
        /\ rec[e].exposed \in BOOLEAN
        /\ rec[e] # NoRecord => rec[e].kind # "none"

Handlers == {"none", "running", "ok", "error", "cancelled"}
Shells == {"none", "spawning", "running", "killed", "exited"}

GatewayTypes ==
    /\ call \in [ExecIds -> Calls]
    /\ holder \in [Keyed -> ExecIds \cup {0}]
    /\ RecordsAre(record)
    /\ handler \in [ExecIds -> Handlers]
    /\ process \in [ExecIds -> Shells]
    /\ shut \in {"no", "closing", "done"}

\* The holder of a lock is the one call that works inside it.
CallLocksAreHeld ==
    /\ \A e \in ExecIds : call[e].step = "locking" => Key(call[e].tool) \in Keyed
    /\ \A t \in Keyed, e \in ExecIds :
        (Key(call[e].tool) = t /\ call[e].step = "waiting") <=> holder[t] = e

\* What the id of e is answerable for.
Works(e) ==
    \/ handler[e] = "running"
    \/ process[e] = "running" /\ ~(call[e].tool = "detach" /\ call[e].step = "tracked")

\* Where a call stands, and what its record, its handler and its entry are then.
StepInv(e) ==
    /\ call[e].step # "new" => call[e].tool \in Tools
    /\ call[e].step \in {"new", "locking"} =>
        record[e] = NoRecord /\ handler[e] = "none" /\ process[e] = "none"
    /\ call[e].step = "waiting" =>
        /\ shut # "done" => record[e] # NoRecord
        /\ record[e] # NoRecord => record[e].status = "running" /\ ~record[e].exposed
        /\ handler[e] = "running" => e \in stored
        /\ call[e].tool = "detach" =>
            record[e].kind # "proc" /\ (handler[e] = "ok" => e \in known)
    /\ call[e].step = "id" =>
        call[e].tool = "detach" /\ record[e].kind # "task" /\ handler[e] # "running"
    /\ (call[e].step = "tracked" /\ call[e].tool = "detach") => record[e].kind # "proc"
    /\ call[e].step = "result" => handler[e] # "running"
    /\ killer = e \/ e \in kills => call[e].step \in {"id", "tracked"}

\* What its process does: a shell that is being spawned is still its handler's.
ShellInv(e) ==
    /\ call[e].tool \notin {"bash", "detach"} => process[e] = "none"
    /\ process[e] = "spawning" =>
        /\ handler[e] = "running" /\ killer # e /\ e \notin kills
        /\ record[e] # NoRecord => record[e].kind = "task" /\ record[e].status = "running"
    /\ (call[e].tool # "detach" /\ record[e].kind = "task") => process[e] # "running"
    /\ process[e] = "running" => e \in known
    /\ record[e].kind = "proc" => e \in known
    /\ (shut # "no" /\ process[e] \in {"spawning", "running"}) =>
        call[e].step = "cancelled" \/ e \in late

\* What its id leads to.
IdInv(e) ==
    /\ record[e].exposed => record[e].kind = "proc" \/ e \in stored
    /\ (shut # "done" /\ call[e].step \in {"id", "tracked"} /\ e \notin kills /\ Works(e)) =>
        record[e].exposed /\ record[e].status = "running"

CallInv(e) == StepInv(e) /\ ShellInv(e) /\ IdInv(e)

GatewayInv == GatewayTypes /\ CallLocksAreHeld /\ \A e \in ExecIds : CallInv(e)

LEMMA IdsAreNotZero == \A e \in ExecIds : e # 0
<1>1. Cardinality(ExecIds) \in Nat
  BY FS_CardinalityType, ToolGatewayAssumption
<1>2. \A e \in 1 .. Cardinality(ExecIds) : e # 0
  BY <1>1
<1> QED
  BY <1>2, ToolGatewayAssumption

LEMMA GatewayStarts == GatewayInit => GatewayInv
<1> SUFFICES ASSUME GatewayInit PROVE GatewayInv
  OBVIOUS
<1>1. \A e \in ExecIds : e # 0
  BY IdsAreNotZero
<1>2. /\ call = [e \in ExecIds |-> NoCall] /\ holder = [t \in Keyed |-> 0]
      /\ record = [e \in ExecIds |-> NoRecord] /\ stored = {} /\ known = {} /\ shut = "no"
      /\ killer = 0 /\ kills = {}
      /\ handler = [e \in ExecIds |-> "none"] /\ process = [e \in ExecIds |-> "none"]
  BY DEF GatewayInit
<1>3. RecordsAre(record)
  BY <1>2 DEF RecordsAre, NoRecord
<1>4. shut \in {"no", "closing", "done"}
  BY <1>2
<1>5. GatewayTypes
  BY <1>2, <1>3, <1>4 DEF GatewayTypes, Calls, NoCall, Handlers, Shells
<1>6. CallLocksAreHeld
  BY <1>1, <1>2 DEF CallLocksAreHeld, NoCall
<1>7. ASSUME NEW e \in ExecIds PROVE CallInv(e)
  BY <1>1, <1>2 DEF CallInv, StepInv, ShellInv, IdInv, NoCall, NoRecord
<1> QED
  BY <1>5, <1>6, <1>7 DEF GatewayInv

-----------------------------------------------------------------------------
(* What the operators do to records and calls.                             *)

\* rec with e's record finished, whichever way.
IsFinished(f, rec, e) ==
    IF rec[e].status # "running" THEN f = rec
    ELSE \E status \in {"done", "failed"} : \E at :
            f = [rec EXCEPT ![e].status = status, ![e].at = at]

LEMMA FinishedIs ==
    ASSUME NEW rec, NEW e, NEW error
    PROVE  IsFinished(Finished(rec, e, error), rec, e)
<1> DEFINE status == IF error THEN "failed" ELSE "done"
           at == Max({rec[d].at : d \in ExecIds}) + 1
<1>1. status \in {"done", "failed"}
  OBVIOUS
<1>2. rec[e].status = "running" =>
        Finished(rec, e, error) = [rec EXCEPT ![e].status = status, ![e].at = at]
  BY DEF Finished
<1>3. rec[e].status # "running" => Finished(rec, e, error) = rec
  BY DEF Finished
<1> HIDE DEF status, at
<1> QED
  BY <1>1, <1>2, <1>3 DEF IsFinished

LEMMA FinishedRecord ==
    ASSUME NEW rec, RecordsAre(rec), NEW e \in ExecIds, NEW f, IsFinished(f, rec, e)
    PROVE  /\ RecordsAre(f)
           /\ \A d \in ExecIds : /\ f[d].kind = rec[d].kind /\ f[d].exposed = rec[d].exposed
                                 /\ f[d] = NoRecord <=> rec[d] = NoRecord
                                 /\ d # e => f[d] = rec[d]
           /\ f[e].status # "running"
<1>1. CASE rec[e].status # "running"
  BY <1>1 DEF IsFinished
<1>2. CASE rec[e].status = "running"
  <2>1. PICK status \in {"done", "failed"} : \E at :
          f = [rec EXCEPT ![e].status = status, ![e].at = at]
    BY <1>2 DEF IsFinished
  <2>2. PICK at : f = [rec EXCEPT ![e].status = status, ![e].at = at]
    BY <2>1
  <2>3. /\ f = [d \in ExecIds |-> f[d]]
        /\ \A d \in ExecIds \ {e} : f[d] = rec[d]
        /\ DOMAIN f[e] = {"kind", "status", "exposed", "at"}
        /\ f[e].kind = rec[e].kind /\ f[e].exposed = rec[e].exposed /\ f[e].status = status
    BY <2>2 DEF RecordsAre
  <2>4. rec[e] # NoRecord
    BY <1>2 DEF NoRecord
  <2>5. f[e] # NoRecord
    BY <2>3, <2>4 DEF RecordsAre, NoRecord
  <2> QED
    BY <2>3, <2>4, <2>5 DEF RecordsAre
<1> QED
  BY <1>1, <1>2

LEMMA ExposedRecord ==
    ASSUME RecordsAre(record), NEW e \in ExecIds, NEW kind \in {"none", "task", "proc"},
           record[e] # NoRecord => kind # "none", NEW f, f = Exposed(e, kind)
    PROVE  /\ RecordsAre(f)
           /\ \A d \in ExecIds \ {e} : f[d] = record[d]
           /\ record[e] = NoRecord => f[e] = NoRecord
           /\ record[e] # NoRecord =>
                /\ f[e] # NoRecord /\ f[e].kind = kind /\ f[e].exposed
                /\ f[e].status = record[e].status
<1>1. CASE record[e] = NoRecord
  BY <1>1 DEF Exposed
<1>2. CASE record[e] # NoRecord
  <2>1. f = [record EXCEPT ![e].kind = kind, ![e].exposed = TRUE]
    BY <1>2 DEF Exposed
  <2>2. /\ f = [d \in ExecIds |-> f[d]]
        /\ \A d \in ExecIds \ {e} : f[d] = record[d]
    BY <2>1 DEF RecordsAre
  <2>3. DOMAIN f[e] = {"kind", "status", "exposed", "at"}
    BY <2>1 DEF RecordsAre
  <2>4. f[e].kind = kind
    BY <2>1 DEF RecordsAre
  <2>5. f[e].exposed = TRUE
    BY <2>1 DEF RecordsAre
  <2>6. f[e].status = record[e].status
    BY <2>1 DEF RecordsAre
  <2>7. f[e] # NoRecord
    BY <1>2, <2>4 DEF NoRecord
  <2>8. f[e].exposed \in BOOLEAN
    BY <2>5
  <2>9. RecordsAre(f)
    BY <1>2, <2>2, <2>3, <2>4, <2>8 DEF RecordsAre
  <2> QED
    BY <1>2, <2>2, <2>4, <2>5, <2>6, <2>7, <2>9
<1> QED
  BY <1>1, <1>2

LEMMA UntrackedRecord ==
    ASSUME NEW rec, RecordsAre(rec), NEW es, NEW f, f = Untracked(rec, es)
    PROVE  /\ RecordsAre(f)
           /\ \A d \in ExecIds : f[d] = IF d \in es THEN NoRecord ELSE rec[d]
  BY DEF RecordsAre, Untracked, NoRecord

LEMMA CallSteps ==
    ASSUME GatewayTypes, NEW e \in ExecIds,
           NEW step \in {"new", "locking", "waiting", "id", "tracked", "result", "cancelled"},
           call' = [call EXCEPT ![e].step = step]
    PROVE  /\ call' \in [ExecIds -> Calls]
           /\ \A d \in ExecIds : call'[d].tool = call[d].tool /\ (d # e => call'[d] = call[d])
           /\ call'[e].step = step
<1>1. call \in [ExecIds -> Calls]
  BY DEF GatewayTypes
<1>2. call'[e] \in Calls /\ call'[e].tool = call[e].tool /\ call'[e].step = step
  BY <1>1 DEF Calls
<1> QED
  BY <1>1, <1>2

LEMMA NewCall ==
    ASSUME GatewayTypes, NEW e \in ExecIds, NEW b \in Callers, NEW t \in Tools,
           NEW step \in {"locking", "waiting"},
           call' = [call EXCEPT ![e] = [tool |-> t, owner |-> b, step |-> step]]
    PROVE  /\ call' \in [ExecIds -> Calls]
           /\ \A d \in ExecIds \ {e} : call'[d] = call[d]
           /\ call'[e].tool = t /\ call'[e].step = step
<1>1. [tool |-> t, owner |-> b, step |-> step] \in Calls
  BY DEF Calls
<1> QED
  BY <1>1 DEF GatewayTypes

\* A call that answers gives its lock back.
LEMMA AnswerStep ==
    ASSUME GatewayTypes, CallLocksAreHeld, NEW e \in ExecIds, call[e].step = "waiting",
           NEW step \in {"id", "tracked", "result", "cancelled"}, Answer(e, step)
    PROVE  /\ CallLocksAreHeld'
           /\ call' \in [ExecIds -> Calls] /\ holder' \in [Keyed -> ExecIds \cup {0}]
           /\ \A d \in ExecIds : call'[d].tool = call[d].tool /\ (d # e => call'[d] = call[d])
           /\ call'[e].step = step
<1>1. /\ call' \in [ExecIds -> Calls]
      /\ \A d \in ExecIds : call'[d].tool = call[d].tool /\ (d # e => call'[d] = call[d])
      /\ call'[e].step = step
  BY CallSteps DEF Answer
<1>2. \A t \in Keyed : holder'[t] = IF t = Key(call[e].tool) THEN 0 ELSE holder[t]
  BY DEF Answer, GatewayTypes
<1>3. holder' \in [Keyed -> ExecIds \cup {0}]
  BY DEF Answer, GatewayTypes
<1>4. \A d \in ExecIds : d # 0
  BY IdsAreNotZero
<1>5. ASSUME NEW t \in Keyed, NEW d \in ExecIds
      PROVE  (Key(call'[d].tool) = t /\ call'[d].step = "waiting") <=> holder'[t] = d
  <2>1. (Key(call[d].tool) = t /\ call[d].step = "waiting") <=> holder[t] = d
    BY DEF CallLocksAreHeld
  <2>2. (Key(call[e].tool) = t) <=> holder[t] = e
    BY DEF CallLocksAreHeld
  <2> QED
    BY <1>1, <1>2, <1>4, <2>1, <2>2
<1>6. \A d \in ExecIds : call'[d].step = "locking" => Key(call'[d].tool) \in Keyed
  BY <1>1 DEF CallLocksAreHeld
<1> QED
  BY <1>1, <1>3, <1>5, <1>6 DEF CallLocksAreHeld

\* A call that nothing happened to, ...
LEMMA SameCall ==
    ASSUME NEW d \in ExecIds, CallInv(d), shut' = shut, call'[d] = call[d],
           record'[d] = record[d], handler'[d] = handler[d], process'[d] = process[d],
           d \in stored => d \in stored', d \in known => d \in known',
           d \in kills <=> d \in kills', d \in late => d \in late', killer' = d => killer = d
    PROVE  CallInv(d)'
<1>1. StepInv(d)'
  BY DEF CallInv, StepInv
<1>2. ShellInv(d)'
  BY DEF CallInv, ShellInv
<1>3. IdInv(d)'
  BY DEF CallInv, IdInv, Works
<1> QED
  BY <1>1, <1>2, <1>3 DEF CallInv

\* ... and one whose settled record is dropped.
LEMMA DroppedCall ==
    ASSUME NEW d \in ExecIds, CallInv(d), shut' = shut, call'[d] = call[d],
           record[d] # NoRecord, record[d].status # "running",
           record'[d] = NoRecord, handler'[d] = handler[d],
           kills' = kills, killer' = killer, late' = late,
           IF record[d].kind = "proc" THEN process'[d] # "running" /\
                process'[d] \in Shells /\
                (process[d] = "none" <=> process'[d] = "none") /\
                (process[d] = "spawning" <=> process'[d] = "spawning")
           ELSE process'[d] = process[d] /\ (d \in known => d \in known')
    PROVE  CallInv(d)'
<1>1. /\ record'[d].kind = "none" /\ ~record'[d].exposed /\ record'[d].status = "none"
  BY DEF NoRecord
<1>2. call[d].step \notin {"new", "locking", "waiting"}
  BY DEF CallInv, StepInv
<1>3. /\ process'[d] = "running" => process[d] = "running" /\ d \in known'
      /\ process'[d] # "spawning" /\ process[d] # "spawning"
  BY DEF CallInv, ShellInv
<1>4. StepInv(d)'
  BY <1>1, <1>2 DEF CallInv, StepInv
<1>5. ShellInv(d)'
  BY <1>1, <1>3 DEF CallInv, ShellInv
<1>6. IdInv(d)'
  BY <1>1, <1>3 DEF CallInv, IdInv, Works
<1> QED
  BY <1>4, <1>5, <1>6 DEF CallInv

\* The processes of records that are dropped.
LEMMA DropsProcessesStep ==
    ASSUME GatewayTypes, NEW es, DropsProcesses(es)
    PROVE  /\ process' \in [ExecIds -> Shells]
           /\ \A d \in ExecIds :
                IF d \in es /\ record[d].kind = "proc"
                THEN /\ process'[d] # "running"
                     /\ process'[d] = "none" <=> process[d] = "none"
                     /\ process'[d] = "spawning" <=> process[d] = "spawning"
                ELSE process'[d] = process[d] /\ (d \in known => d \in known')
<1>1. \A d \in ExecIds : process[d] \in Shells
  BY DEF GatewayTypes
<1>3. "killed" \in Shells /\ "killed" \notin {"none", "spawning", "running"}
  BY DEF Shells
<1>2. process' = [d \in ExecIds |->
            IF d \in es /\ record[d].kind = "proc" /\ process[d] = "running"
            THEN "killed" ELSE process[d]]
      /\ known' = known \ {d \in es : record[d].kind = "proc"}
  BY DEF DropsProcesses
<1> QED
  BY <1>1, <1>2, <1>3

LEMMA EvictedAreSettled ==
    ASSUME NEW rec, NEW d \in Evicted(rec)
    PROVE  d \in ExecIds /\ rec[d] # NoRecord /\ rec[d].status # "running"
  BY DEF Evicted, Evictable, Tracked

-----------------------------------------------------------------------------

\* The record, the entry and the task of a handler that starts.
LEMMA StartedStep ==
    ASSUME GatewayTypes, NEW e \in ExecIds, NEW tool, Started(e, tool)
    PROVE  /\ RecordsAre(record')
           /\ handler' \in [ExecIds -> Handlers] /\ process' \in [ExecIds -> Shells]
           /\ \A d \in ExecIds \ {e} : /\ record'[d] = record[d] /\ handler'[d] = handler[d]
                                        /\ process'[d] = process[d]
           /\ record'[e] # NoRecord /\ record'[e].kind = "task" /\ ~record'[e].exposed
           /\ record'[e].status = "running" /\ handler'[e] = "running"
           /\ process'[e] = IF tool = "plain" THEN process[e] ELSE "spawning"
           /\ stored' = stored \cup {e} /\ late \subseteq late' /\ (shut # "no" => e \in late')
<1> DEFINE new == [kind |-> "task", status |-> "running", exposed |-> FALSE, at |-> 0]
<1>1. /\ new.kind = "task" /\ new.status = "running" /\ new.exposed = FALSE
      /\ DOMAIN new = {"kind", "status", "exposed", "at"}
  OBVIOUS
<1>2. new # NoRecord
  BY <1>1 DEF NoRecord
<1> HIDE DEF new
<1>3. record' = [record EXCEPT ![e] = new]
  BY DEF Started, new
<1>4. RecordsAre(record) /\ record'[e] = new /\ \A d \in ExecIds \ {e} : record'[d] = record[d]
  BY <1>3 DEF GatewayTypes, RecordsAre
<1>5. record' = [d \in ExecIds |-> record'[d]]
  BY <1>3 DEF GatewayTypes, RecordsAre
<1>6. new.exposed \in BOOLEAN
  BY <1>1
<1>7. RecordsAre(record')
  BY <1>1, <1>2, <1>4, <1>5, <1>6 DEF RecordsAre
<1>8. /\ handler' \in [ExecIds -> Handlers] /\ handler'[e] = "running"
      /\ \A d \in ExecIds \ {e} : handler'[d] = handler[d]
  BY DEF Started, GatewayTypes, Handlers
<1>9. /\ process' \in [ExecIds -> Shells]
      /\ process'[e] = IF tool = "plain" THEN process[e] ELSE "spawning"
      /\ \A d \in ExecIds \ {e} : process'[d] = process[d]
  BY DEF Started, GatewayTypes, Shells
<1>10. stored' = stored \cup {e} /\ late \subseteq late' /\ (shut # "no" => e \in late')
  BY DEF Started
<1> QED
  BY <1>1, <1>2, <1>4, <1>7, <1>8, <1>9, <1>10

\* A call that starts inside its lock.
LEMMA WorkingCall ==
    ASSUME GatewayInv, NEW e \in ExecIds, NEW tool \in Tools, Started(e, tool),
           call[e].step \in {"new", "locking"}, call'[e].step = "waiting", call'[e].tool = tool,
           known' = known, killer' = killer, kills' = kills, shut' = shut
    PROVE  CallInv(e)'
<1>1. process[e] = "none" /\ killer # e /\ e \notin kills
  BY DEF GatewayInv, CallInv, StepInv
<1>2. tool \in {"plain", "bash", "detach"}
  BY ToolGatewayAssumption
<1>3. /\ record'[e] # NoRecord /\ record'[e].kind = "task" /\ ~record'[e].exposed
      /\ record'[e].status = "running" /\ handler'[e] = "running" /\ e \in stored'
      /\ process'[e] = IF tool = "plain" THEN "none" ELSE "spawning"
      /\ shut # "no" => e \in late'
  BY <1>1, StartedStep DEF GatewayInv
<1>4. StepInv(e)'
  BY <1>1, <1>3 DEF StepInv
<1>5. ShellInv(e)'
  BY <1>1, <1>2, <1>3 DEF ShellInv
<1>6. IdInv(e)'
  BY <1>3 DEF IdInv
<1> QED
  BY <1>4, <1>5, <1>6 DEF CallInv

LEMMA SubmitStep ==
    ASSUME GatewayInv, NEW b \in Callers, NEW t \in Tools, Submit(b, t)
    PROVE  GatewayInv'
<1>1. PICK e \in ExecIds :
        /\ call[e].step = "new"
        /\ \/ /\ Key(t) \in Keyed
              /\ call' = [call EXCEPT ![e] = [tool |-> t, owner |-> b, step |-> "locking"]]
              /\ UNCHANGED <<holder, record, stored, handler, process, late>>
           \/ /\ Key(t) \in Keyed => holder[Key(t)] = 0
              /\ Started(e, t)
              /\ holder' = IF Key(t) \in Keyed THEN [holder EXCEPT ![Key(t)] = e] ELSE holder
              /\ call' = [call EXCEPT ![e] = [tool |-> t, owner |-> b, step |-> "waiting"]]
  BY DEF Submit
<1>2. UNCHANGED <<known, shut, kills, killer>>
  BY DEF Submit
<1>3. CASE /\ Key(t) \in Keyed
           /\ call' = [call EXCEPT ![e] = [tool |-> t, owner |-> b, step |-> "locking"]]
           /\ UNCHANGED <<holder, record, stored, handler, process, late>>
  <2>1. /\ call' \in [ExecIds -> Calls]
        /\ \A d \in ExecIds \ {e} : call'[d] = call[d]
        /\ call'[e].tool = t /\ call'[e].step = "locking"
    BY <1>3, NewCall DEF GatewayInv
  <2>2. GatewayTypes'
    BY <1>2, <1>3, <2>1 DEF GatewayInv, GatewayTypes, RecordsAre
  <2>3. CallLocksAreHeld'
    BY <1>1, <1>3, <2>1 DEF GatewayInv, CallLocksAreHeld
  <2>4. CallInv(e)'
    <3>1. CallInv(e)
      BY DEF GatewayInv
    <3>2. /\ record[e] = NoRecord /\ handler[e] = "none" /\ process[e] = "none"
          /\ killer # e /\ e \notin kills
      BY <1>1, <3>1 DEF CallInv, StepInv
    <3>3. record[e].kind = "none" /\ ~record[e].exposed
      BY <3>2 DEF NoRecord
    <3>4. StepInv(e)'
      BY <1>2, <1>3, <2>1, <3>2 DEF StepInv
    <3>5. ShellInv(e)'
      BY <1>2, <1>3, <2>1, <3>2, <3>3 DEF ShellInv
    <3>6. IdInv(e)'
      BY <1>2, <1>3, <2>1, <3>2, <3>3 DEF IdInv
    <3> QED
      BY <3>4, <3>5, <3>6 DEF CallInv
  <2>5. \A d \in ExecIds \ {e} : CallInv(d)'
    BY <1>2, <1>3, <2>1, SameCall DEF GatewayInv
  <2> QED
    BY <2>2, <2>3, <2>4, <2>5 DEF GatewayInv
<1>4. CASE /\ Key(t) \in Keyed => holder[Key(t)] = 0
           /\ Started(e, t)
           /\ holder' = IF Key(t) \in Keyed THEN [holder EXCEPT ![Key(t)] = e] ELSE holder
           /\ call' = [call EXCEPT ![e] = [tool |-> t, owner |-> b, step |-> "waiting"]]
  <2>1. /\ call' \in [ExecIds -> Calls]
        /\ \A d \in ExecIds \ {e} : call'[d] = call[d]
        /\ call'[e].tool = t /\ call'[e].step = "waiting"
    BY <1>4, NewCall DEF GatewayInv
  <2>2. GatewayTypes'
    BY <1>2, <1>4, <2>1, StartedStep DEF GatewayInv, GatewayTypes
  <2>3. CallLocksAreHeld'
    BY <1>1, <1>4, <2>1, IdsAreNotZero DEF GatewayInv, GatewayTypes, CallLocksAreHeld
  <2>4. CallInv(e)'
    BY <1>1, <1>2, <1>4, <2>1, WorkingCall
  <2>5. \A d \in ExecIds \ {e} : CallInv(d)'
    BY <1>2, <1>4, <2>1, StartedStep, SameCall DEF GatewayInv
  <2> QED
    BY <2>2, <2>3, <2>4, <2>5 DEF GatewayInv
<1> QED
  BY <1>1, <1>3, <1>4

LEMMA GrantedStep ==
    ASSUME GatewayInv, NEW e \in ExecIds, Granted(e)
    PROVE  GatewayInv'
<1> DEFINE t == Key(call[e].tool)
<1>1. /\ call[e].step = "locking" /\ holder[t] = 0
      /\ holder' = [holder EXCEPT ![t] = e]
      /\ call' = [call EXCEPT ![e].step = "waiting"]
      /\ Started(e, call[e].tool) /\ UNCHANGED <<known, shut, kills, killer>>
  BY DEF Granted
<1>2. t \in Keyed
  BY <1>1 DEF GatewayInv, CallLocksAreHeld
<1>3. /\ call' \in [ExecIds -> Calls]
      /\ \A d \in ExecIds : call'[d].tool = call[d].tool /\ (d # e => call'[d] = call[d])
      /\ call'[e].step = "waiting"
  BY <1>1, CallSteps DEF GatewayInv
<1> HIDE DEF t
<1>4. GatewayTypes'
  BY <1>1, <1>3, StartedStep DEF GatewayInv, GatewayTypes
<1>5. CallLocksAreHeld'
  BY <1>1, <1>2, <1>3, IdsAreNotZero DEF GatewayInv, GatewayTypes, CallLocksAreHeld, t
<1>6. CallInv(e)'
  <2>1. call[e].tool \in Tools
    BY <1>1 DEF GatewayInv, CallInv, StepInv
  <2> QED
    BY <1>1, <1>3, <2>1, WorkingCall
<1>7. \A d \in ExecIds \ {e} : CallInv(d)'
  BY <1>1, <1>3, StartedStep, SameCall DEF GatewayInv
<1> QED
  BY <1>4, <1>5, <1>6, <1>7 DEF GatewayInv

\* A step of a handler or a process, or a kill: no call moves.
LEMMA WorkFrame ==
    ASSUME GatewayInv, UNCHANGED <<call, holder, shut>>, RecordsAre(record'),
           handler' \in [ExecIds -> Handlers],
           process' \in [ExecIds -> Shells],
           late' = late, known \subseteq known', NEW e \in ExecIds, CallInv(e)',
           \A d \in ExecIds \ {e} : /\ record'[d] = record[d] /\ handler'[d] = handler[d]
                                    /\ process'[d] = process[d] /\ (d \in stored => d \in stored')
                                    /\ (killer' = d => killer = d)
                                    /\ (d \in kills <=> d \in kills')
    PROVE  GatewayInv'
<1>1. GatewayTypes'
  BY DEF GatewayInv, GatewayTypes
<1>2. CallLocksAreHeld'
  BY DEF GatewayInv, CallLocksAreHeld
<1>3. \A d \in ExecIds \ {e} : CallInv(d)'
  BY SameCall DEF GatewayInv
<1> QED
  BY <1>1, <1>2, <1>3 DEF GatewayInv

\* The record of a handler that ends.
LEMMA SettledStep ==
    ASSUME GatewayTypes, NEW e \in ExecIds, NEW error, Settled(e, error)
    PROVE  /\ RecordsAre(record') /\ \A d \in ExecIds \ {e} : record'[d] = record[d]
           /\ record'[e].kind = record[e].kind /\ record'[e].exposed = record[e].exposed
           /\ (record'[e] = NoRecord <=> record[e] = NoRecord)
           /\ ~record[e].exposed => record'[e] = record[e]
           /\ (record[e].exposed /\ e \in stored) => e \in stored'
           /\ \A d \in ExecIds \ {e} : d \in stored => d \in stored'
<1>1. RecordsAre(record)
  BY DEF GatewayTypes
<1>2. CASE record[e].exposed
  <2>1. stored' = stored /\ record' = Finished(record, e, error)
    BY <1>2 DEF Settled
  <2>2. IsFinished(record', record, e)
    BY <2>1, FinishedIs, Zenon
  <2>3. /\ RecordsAre(record') /\ \A d \in ExecIds \ {e} : record'[d] = record[d]
        /\ record'[e].kind = record[e].kind /\ record'[e].exposed = record[e].exposed
        /\ (record'[e] = NoRecord <=> record[e] = NoRecord)
    BY <1>1, <2>2, FinishedRecord
  <2> QED
    BY <1>2, <2>1, <2>3
<1>3. CASE ~record[e].exposed
  BY <1>1, <1>3 DEF Settled
<1> QED
  BY <1>2, <1>3

LEMMA SpawnedStep ==
    ASSUME GatewayInv, NEW e \in ExecIds, Spawned(e)
    PROVE  GatewayInv'
<1>1. /\ process[e] = "spawning" /\ handler[e] = "running"
      /\ process' = [process EXCEPT ![e] = "running"] /\ known' = known \cup {e}
      /\ UNCHANGED <<call, holder, shut, late, kills, killer>>
  BY DEF Spawned, GatewayInv, CallInv, ShellInv
<1>2. /\ process' \in [ExecIds -> Shells]
      /\ process'[e] = "running" /\ \A d \in ExecIds \ {e} : process'[d] = process[d]
      /\ RecordsAre(record) /\ handler \in [ExecIds -> Handlers]
  BY <1>1 DEF GatewayInv, GatewayTypes, Shells
<1>3. StepInv(e) /\ ShellInv(e) /\ IdInv(e)
  BY DEF GatewayInv, CallInv
<1>4. CASE call[e].tool = "bash" /\ record[e] # NoRecord
  <2>1. record' = [record EXCEPT ![e].kind = "proc"] /\ UNCHANGED <<handler, stored>>
    BY <1>4 DEF Spawned
  <2>2. /\ RecordsAre(record') /\ \A d \in ExecIds \ {e} : record'[d] = record[d]
        /\ record'[e] # NoRecord /\ record'[e].kind = "proc"
        /\ record'[e].exposed = record[e].exposed /\ record'[e].status = record[e].status
    <3>1. RecordsAre(record) /\ record[e] # NoRecord
      BY <1>2, <1>4
    <3>2. /\ record' = [d \in ExecIds |-> record'[d]]
          /\ \A d \in ExecIds \ {e} : record'[d] = record[d]
          /\ DOMAIN record'[e] = {"kind", "status", "exposed", "at"}
          /\ record'[e].kind = "proc" /\ record'[e].exposed = record[e].exposed
          /\ record'[e].status = record[e].status
      BY <2>1, <3>1 DEF RecordsAre
    <3>3. record'[e] # NoRecord
      BY <3>2 DEF NoRecord
    <3> QED
      BY <3>1, <3>2, <3>3 DEF RecordsAre
  <2>3. StepInv(e)'
    BY <1>1, <1>3, <1>4, <2>1, <2>2 DEF StepInv
  <2>4. ShellInv(e)'
    BY <1>1, <1>2, <1>3, <1>4, <2>1, <2>2 DEF ShellInv
  <2>5. IdInv(e)'
    BY <1>1, <1>2, <1>3, <1>4, <2>1, <2>2 DEF IdInv, Works
  <2> QED
    BY <1>1, <1>2, <2>1, <2>2, <2>3, <2>4, <2>5, WorkFrame DEF CallInv
<1>5. CASE call[e].tool = "bash" /\ record[e] = NoRecord
  <2>1. UNCHANGED <<record, handler, stored>>
    BY <1>5 DEF Spawned
  <2>2. StepInv(e)'
    BY <1>1, <1>3, <1>5, <2>1 DEF StepInv
  <2>3. ShellInv(e)'
    BY <1>1, <1>2, <1>3, <1>5, <2>1 DEF ShellInv, NoRecord
  <2>4. IdInv(e)'
    BY <1>1, <1>2, <1>3, <1>5, <2>1 DEF IdInv, Works
  <2> QED
    BY <1>1, <1>2, <2>1, <2>2, <2>3, <2>4, WorkFrame DEF CallInv
<1>6. CASE call[e].tool # "bash"
  <2>1. handler' = [handler EXCEPT ![e] = "ok"] /\ Settled(e, TRUE)
    BY <1>6 DEF Spawned
  <2>2. /\ handler' \in [ExecIds -> Handlers]
        /\ handler'[e] = "ok" /\ \A d \in ExecIds \ {e} : handler'[d] = handler[d]
    BY <1>2, <2>1 DEF Handlers
  <2>3. call[e].tool = "detach"
    BY <1>1, <1>3, <1>6 DEF ShellInv
  <2>4. /\ RecordsAre(record') /\ \A d \in ExecIds \ {e} : record'[d] = record[d]
        /\ record'[e].kind = record[e].kind /\ record'[e].exposed = record[e].exposed
        /\ (record'[e] = NoRecord <=> record[e] = NoRecord)
        /\ ~record[e].exposed => record'[e] = record[e]
        /\ (record[e].exposed /\ e \in stored) => e \in stored'
        /\ \A d \in ExecIds \ {e} : d \in stored => d \in stored'
    BY <2>1, SettledStep DEF GatewayInv
  <2>5. StepInv(e)'
    BY <1>1, <1>3, <2>2, <2>3, <2>4 DEF StepInv
  <2>6. ShellInv(e)'
    BY <1>1, <1>2, <1>3, <2>2, <2>3, <2>4 DEF ShellInv
  <2>7. IdInv(e)'
    <3>1. call[e].step # "id"
      BY <1>1, <1>3 DEF StepInv
    <3> QED
      BY <1>1, <1>2, <1>3, <2>2, <2>3, <2>4, <3>1 DEF IdInv, Works
  <2> QED
    BY <1>1, <1>2, <2>2, <2>4, <2>5, <2>6, <2>7, WorkFrame DEF CallInv
<1> QED
  BY <1>4, <1>5, <1>6

LEMMA ProcessEndsStep ==
    ASSUME GatewayInv, NEW e \in ExecIds, ProcessEnds(e)
    PROVE  GatewayInv'
<1>1. /\ process[e] \in {"running", "killed"}
      /\ process' = [process EXCEPT ![e] = "exited"]
      /\ UNCHANGED <<call, holder, stored, handler, known, shut, late, kills, killer>>
  BY DEF ProcessEnds
<1>2. /\ process' \in [ExecIds -> Shells]
      /\ process'[e] = "exited" /\ \A d \in ExecIds \ {e} : process'[d] = process[d]
      /\ RecordsAre(record) /\ handler \in [ExecIds -> Handlers]
  BY <1>1 DEF GatewayInv, GatewayTypes, Shells
<1>3. StepInv(e) /\ ShellInv(e) /\ IdInv(e)
  BY DEF GatewayInv, CallInv
<1>4. CASE call[e].tool = "detach" /\ record[e].kind = "proc"
  <2>1. record' = Finished(record, e, process[e] = "killed")
    BY <1>4 DEF ProcessEnds
  <2>2. IsFinished(record', record, e)
    BY <2>1, FinishedIs, Zenon
  <2>3. /\ RecordsAre(record') /\ record'[e].kind = "proc"
        /\ record'[e].exposed = record[e].exposed
        /\ (record'[e] = NoRecord <=> record[e] = NoRecord)
        /\ \A d \in ExecIds \ {e} : record'[d] = record[d]
    BY <1>2, <1>4, <2>2, FinishedRecord
  <2>4. call[e].step # "waiting"
    BY <1>3, <1>4 DEF StepInv
  <2>5. StepInv(e)'
    BY <1>1, <1>2, <1>3, <1>4, <2>3, <2>4 DEF StepInv, NoRecord
  <2>6. ShellInv(e)'
    BY <1>1, <1>2, <1>3, <1>4, <2>3 DEF ShellInv
  <2>7. IdInv(e)'
    <3>1. call[e].step # "tracked" /\ (call[e].step = "id" => handler[e] # "running")
      BY <1>3, <1>4 DEF StepInv
    <3> QED
      BY <1>1, <1>2, <1>3, <1>4, <2>3, <3>1 DEF IdInv, Works
  <2> QED
    BY <1>1, <1>2, <2>3, <2>5, <2>6, <2>7, WorkFrame DEF CallInv
<1>5. CASE ~(call[e].tool = "detach" /\ record[e].kind = "proc")
  <2>1. record' = record
    BY <1>5 DEF ProcessEnds
  <2>2. StepInv(e)'
    BY <1>1, <1>2, <1>3, <2>1 DEF StepInv
  <2>3. ShellInv(e)'
    BY <1>1, <1>2, <1>3, <2>1 DEF ShellInv
  <2>4. IdInv(e)'
    BY <1>1, <1>2, <1>3, <2>1 DEF IdInv, Works
  <2> QED
    BY <1>1, <1>2, <2>1, <2>2, <2>3, <2>4, WorkFrame DEF CallInv
<1> QED
  BY <1>4, <1>5

LEMMA HandlerEndsStep ==
    ASSUME GatewayInv, NEW e \in ExecIds, NEW how \in {"ok", "error"}, HandlerEnds(e, how)
    PROVE  GatewayInv'
<1>1. /\ handler[e] = "running"
      /\ call[e].tool \in {"bash", "detach"} => process[e] \in {"spawning", "exited"}
      /\ call[e].tool = "detach" => how = "error"
      /\ handler' = [handler EXCEPT ![e] = how]
      /\ process' = IF process[e] = "spawning" THEN [process EXCEPT ![e] = "none"] ELSE process
      /\ Settled(e, how # "ok")
      /\ UNCHANGED <<call, holder, known, shut, late, kills, killer>>
  BY DEF HandlerEnds
<1>2. StepInv(e) /\ ShellInv(e) /\ IdInv(e)
  BY DEF GatewayInv, CallInv
<1>3. /\ handler' \in [ExecIds -> Handlers]
      /\ handler'[e] = how /\ \A d \in ExecIds \ {e} : handler'[d] = handler[d]
  BY <1>1 DEF GatewayInv, GatewayTypes, Handlers
<1>4. /\ process' \in [ExecIds -> Shells]
      /\ process'[e] \in {"none", "exited"} /\ (process[e] = "none" => process'[e] = "none")
      /\ \A d \in ExecIds \ {e} : process'[d] = process[d]
  BY <1>1, <1>2 DEF GatewayInv, GatewayTypes, Shells, ShellInv
<1>5. /\ RecordsAre(record') /\ \A d \in ExecIds \ {e} : record'[d] = record[d]
      /\ record'[e].kind = record[e].kind /\ record'[e].exposed = record[e].exposed
      /\ (record'[e] = NoRecord <=> record[e] = NoRecord)
      /\ ~record[e].exposed => record'[e] = record[e]
      /\ (record[e].exposed /\ e \in stored) => e \in stored'
      /\ \A d \in ExecIds \ {e} : d \in stored => d \in stored'
  BY <1>1, SettledStep DEF GatewayInv
<1>6. StepInv(e)'
  BY <1>1, <1>2, <1>3, <1>4, <1>5 DEF StepInv
<1>7. ShellInv(e)'
  BY <1>1, <1>2, <1>3, <1>4, <1>5 DEF ShellInv
<1>8. IdInv(e)'
  BY <1>1, <1>2, <1>3, <1>4, <1>5 DEF IdInv, Works
<1> QED
  BY <1>1, <1>3, <1>4, <1>5, <1>6, <1>7, <1>8, WorkFrame DEF CallInv

-----------------------------------------------------------------------------
(* A call answers, and the records past the cap go.                        *)

\* What becomes of the calls other than the one that answers.
LEMMA OthersAnswered ==
    ASSUME GatewayInv, NEW e \in ExecIds, NEW rec, NEW dead \in SUBSET Evicted(rec),
           \A d \in ExecIds \ {e} : rec[d] = record[d] /\ call'[d] = call[d],
           \A d \in ExecIds \ {e} : record'[d] = IF d \in dead THEN NoRecord ELSE record[d],
           DropsProcesses(dead), \A d \in ExecIds \ {e} : d \in stored /\ d \notin dead => d \in stored',
           UNCHANGED <<handler, shut, late, kills, killer>>, NEW d \in ExecIds \ {e}
    PROVE  CallInv(d)'
<1>1. CallInv(d)
  BY DEF GatewayInv
<1>2. IF d \in dead /\ record[d].kind = "proc"
      THEN /\ process'[d] # "running" /\ process'[d] \in Shells
           /\ process'[d] = "none" <=> process[d] = "none"
           /\ process'[d] = "spawning" <=> process[d] = "spawning"
      ELSE process'[d] = process[d] /\ (d \in known => d \in known')
  BY DropsProcessesStep DEF GatewayInv
<1>3. CASE d \in dead
  <2>1. record[d] # NoRecord /\ record[d].status # "running" /\ record'[d] = NoRecord
    BY <1>3, EvictedAreSettled
  <2> QED
    BY <1>1, <1>2, <1>3, <2>1, DroppedCall
<1>4. CASE d \notin dead
  BY <1>1, <1>2, <1>4, SameCall
<1> QED
  BY <1>3, <1>4

LEMMA AnswerFrame ==
    ASSUME GatewayInv, NEW e \in ExecIds, call[e].step = "waiting",
           NEW step \in {"id", "tracked", "result", "cancelled"}, Answer(e, step),
           RecordsAre(record'), UNCHANGED <<handler, shut, late, kills, killer>>,
           process' \in [ExecIds -> Shells],
           \A d \in ExecIds : CallInv(d)'
    PROVE  GatewayInv'
<1>1. /\ CallLocksAreHeld' /\ call' \in [ExecIds -> Calls]
      /\ holder' \in [Keyed -> ExecIds \cup {0}]
  BY AnswerStep DEF GatewayInv
<1>2. GatewayTypes'
  BY <1>1 DEF GatewayInv, GatewayTypes
<1> QED
  BY <1>1, <1>2 DEF GatewayInv

\* A call that keeps nothing.
LEMMA ForgottenCall ==
    ASSUME GatewayInv, NEW e \in ExecIds, call[e].step = "waiting",
           NEW step \in {"result", "cancelled"}, Answer(e, step),
           step = "result" => handler[e] # "running",
           Dropped({e}), record' = Untracked(record, {e}), UNCHANGED <<handler, shut, late, kills, killer>>
    PROVE  GatewayInv'
<1>1. /\ \A d \in ExecIds : call'[d].tool = call[d].tool /\ (d # e => call'[d] = call[d])
      /\ call'[e].step = step
  BY AnswerStep DEF GatewayInv
<1>2. /\ RecordsAre(record') /\ record'[e] = NoRecord
      /\ \A d \in ExecIds \ {e} : record'[d] = record[d]
  BY UntrackedRecord DEF GatewayInv, GatewayTypes
<1>3. /\ process' \in [ExecIds -> Shells]
      /\ \A d \in ExecIds :
           IF d \in {e} /\ record[d].kind = "proc"
           THEN /\ process'[d] # "running"
                /\ process'[d] = "none" <=> process[d] = "none"
                /\ process'[d] = "spawning" <=> process[d] = "spawning"
           ELSE process'[d] = process[d] /\ (d \in known => d \in known')
  BY DropsProcessesStep DEF GatewayInv, Dropped
<1>4. stored' = stored \ {e}
  BY DEF Dropped
<1>5. CallInv(e)
  BY DEF GatewayInv
<1>6. CallInv(e)'
  <2>1. record'[e].kind = "none" /\ ~record'[e].exposed
    BY <1>2 DEF NoRecord
  <2>2. killer # e /\ e \notin kills
    BY <1>5 DEF CallInv, StepInv
  <2>3. StepInv(e)'
    BY <1>1, <1>2, <1>5, <2>2 DEF CallInv, StepInv
  <2>4. ShellInv(e)'
    BY <1>1, <1>2, <1>3, <1>5, <2>1 DEF CallInv, ShellInv
  <2>5. IdInv(e)'
    BY <1>1, <2>1 DEF IdInv
  <2> QED
    BY <2>3, <2>4, <2>5 DEF CallInv
<1>7. \A d \in ExecIds \ {e} : CallInv(d)'
  BY <1>1, <1>2, <1>3, <1>4, SameCall DEF GatewayInv
<1> QED
  BY <1>2, <1>3, <1>6, <1>7, AnswerFrame

\* A call whose id is given out.
LEMMA IdGiven ==
    ASSUME GatewayInv, NEW e \in ExecIds, call[e].step = "waiting",
           NEW step \in {"id", "tracked"}, Answer(e, step), NEW kind \in {"none", "task", "proc"},
           record[e] # NoRecord => kind # "none",
           NEW rec, rec = Exposed(e, kind), NEW fin, RecordsAre(fin),
           \A d \in ExecIds \ {e} : fin[d] = rec[d],
           fin[e] = rec[e] \/ (fin[e].kind = rec[e].kind /\ fin[e].exposed = rec[e].exposed
                               /\ ~Works(e) /\ (fin[e] = NoRecord <=> rec[e] = NoRecord)),
           record' = Untracked(fin, Evicted(rec)), DropsProcesses(Evicted(rec)),
           \A d \in ExecIds \ {e} : d \in stored /\ d \notin Evicted(rec) => d \in stored',
           UNCHANGED <<handler, shut, late, kills, killer>>,
           \/ /\ step = "id" /\ call[e].tool = "detach" /\ handler[e] # "running"
              /\ kind = "proc" /\ e \in known
           \/ /\ step = "tracked" /\ handler[e] = "running" /\ kind = record[e].kind
              /\ e \in stored /\ stored' = stored \ Evicted(rec)
    PROVE  GatewayInv'
<1>1. CallInv(e) /\ RecordsAre(record)
  BY DEF GatewayInv, GatewayTypes
<1>2. /\ \A d \in ExecIds : call'[d].tool = call[d].tool /\ (d # e => call'[d] = call[d])
      /\ call'[e].step = step
  BY AnswerStep DEF GatewayInv
<1>3. /\ \A d \in ExecIds \ {e} : rec[d] = record[d]
      /\ record[e] = NoRecord => rec[e] = NoRecord
      /\ record[e] # NoRecord => /\ rec[e] # NoRecord /\ rec[e].kind = kind /\ rec[e].exposed
                                 /\ rec[e].status = record[e].status
  BY <1>1, ExposedRecord
<1>4. e \notin Evicted(rec)
  <2>1. record[e] # NoRecord => record[e].status = "running"
    BY <1>1 DEF CallInv, StepInv
  <2> QED
    BY <1>3, <2>1, EvictedAreSettled
<1>5. /\ RecordsAre(record') /\ record'[e] = fin[e]
      /\ \A d \in ExecIds \ {e} : record'[d] = IF d \in Evicted(rec) THEN NoRecord ELSE record[d]
  BY <1>3, <1>4, UntrackedRecord
<1>6. /\ process' \in [ExecIds -> Shells]
      /\ process'[e] = process[e] /\ (e \in known => e \in known')
  BY <1>4, DropsProcessesStep DEF GatewayInv
<1>7. \A d \in ExecIds \ {e} : CallInv(d)'
  BY <1>2, <1>3, <1>5, OthersAnswered
<1>8. CASE record[e] = NoRecord
  <2>1. record'[e] = NoRecord /\ record'[e].kind = "none" /\ ~record'[e].exposed
    BY <1>3, <1>5, <1>8 DEF NoRecord
  <2>2. shut = "done"
    BY <1>1, <1>8 DEF CallInv, StepInv
  <2>3. StepInv(e)'
    BY <1>1, <1>2, <2>1 DEF CallInv, StepInv
  <2>4. ShellInv(e)'
    BY <1>1, <1>2, <1>6, <2>1 DEF CallInv, ShellInv
  <2>5. IdInv(e)'
    BY <2>1, <2>2 DEF IdInv
  <2> QED
    BY <1>5, <1>6, <1>7, <2>3, <2>4, <2>5, AnswerFrame DEF CallInv
<1>9. CASE record[e] # NoRecord
  <2>1. /\ record'[e].kind = kind /\ record'[e].exposed
        /\ record'[e].status = "running" \/ ~Works(e)
    BY <1>1, <1>3, <1>5, <1>9 DEF CallInv, StepInv
  <2>2. StepInv(e)'
    BY <1>1, <1>2, <1>6, <2>1 DEF CallInv, StepInv
  <2>3. ShellInv(e)'
    <3>1. process[e] = "spawning" =>
            /\ handler[e] = "running" /\ record'[e].status = "running"
            /\ record'[e].kind = "task"
      BY <1>1, <1>9, <2>1 DEF CallInv, ShellInv, Works
    <3>2. kind = "proc" => e \in known
      BY <1>1 DEF CallInv, ShellInv
    <3>3. (call[e].tool # "detach" /\ kind = "task") => process[e] # "running"
      BY <1>1 DEF CallInv, ShellInv
    <3> QED
      BY <1>1, <1>2, <1>6, <2>1, <3>1, <3>2, <3>3 DEF CallInv, ShellInv
  <2>4. IdInv(e)'
    BY <1>1, <1>2, <1>4, <1>6, <2>1 DEF IdInv, Works
  <2> QED
    BY <1>5, <1>6, <1>7, <2>2, <2>3, <2>4, AnswerFrame DEF CallInv
<1> QED
  BY <1>8, <1>9

LEMMA AnswerResultStep ==
    ASSUME GatewayInv, NEW e \in ExecIds, AnswerResult(e)
    PROVE  GatewayInv'
<1>1. call[e].step = "waiting" /\ Ended(e) /\ UNCHANGED <<handler, shut, late, kills, killer>>
  BY DEF AnswerResult
<1>2. CASE call[e].tool = "detach" /\ handler[e] = "ok"
  <2> DEFINE rec == Exposed(e, "proc")
             fin == IF process[e] = "exited" THEN Finished(rec, e, FALSE) ELSE rec
  <2>1. /\ record' = Untracked(fin, Evicted(rec))
        /\ stored' = stored \ ({e} \cup Evicted(rec))
        /\ DropsProcesses(Evicted(rec)) /\ Answer(e, "id")
    BY <1>2 DEF AnswerResult
  <2>2. CallInv(e) /\ RecordsAre(record)
    BY DEF GatewayInv, GatewayTypes
  <2>3. RecordsAre(rec)
    BY <2>2, ExposedRecord
  <2>4. e \in known
    BY <1>1, <1>2, <2>2 DEF CallInv, StepInv
  <2>5. /\ RecordsAre(fin) /\ \A d \in ExecIds \ {e} : fin[d] = rec[d]
        /\ fin[e] = rec[e] \/ (fin[e].kind = rec[e].kind /\ fin[e].exposed = rec[e].exposed
                               /\ ~Works(e) /\ (fin[e] = NoRecord <=> rec[e] = NoRecord))
    <3> HIDE DEF rec
    <3>1. CASE process[e] = "exited"
      <4>1. fin = Finished(rec, e, FALSE)
        BY <3>1
      <4>2. ~Works(e)
        BY <1>2, <3>1 DEF Works
      <4> HIDE DEF fin
      <4>3. IsFinished(fin, rec, e)
        BY <4>1, FinishedIs, Zenon
      <4> QED
        BY <2>3, <4>2, <4>3, FinishedRecord
    <3>2. CASE process[e] # "exited"
      BY <2>3, <3>2
    <3> QED
      BY <3>1, <3>2
  <2> HIDE DEF fin
  <2>6. \A d \in ExecIds \ {e} : d \in stored /\ d \notin Evicted(rec) => d \in stored'
    BY <2>1
  <2>7. handler[e] # "running"
    BY <1>2
  <2> QED
    BY <1>1, <1>2, <2>1, <2>4, <2>5, <2>6, <2>7, IdGiven
<1>3. CASE ~(call[e].tool = "detach" /\ handler[e] = "ok")
  <2>1. Dropped({e}) /\ record' = Untracked(record, {e}) /\ Answer(e, "result")
    BY <1>3 DEF AnswerResult
  <2>2. handler[e] # "running"
    BY <1>1 DEF Ended
  <2> QED
    BY <1>1, <2>1, <2>2, ForgottenCall
<1> QED
  BY <1>2, <1>3

LEMMA SoftTimeoutStep ==
    ASSUME GatewayInv, NEW e \in ExecIds, SoftTimeout(e)
    PROVE  GatewayInv'
<1> DEFINE rec == Exposed(e, record[e].kind)
<1>1. /\ call[e].step = "waiting" /\ handler[e] = "running"
      /\ record' = Untracked(rec, Evicted(rec))
      /\ stored' = stored \ Evicted(rec) /\ DropsProcesses(Evicted(rec))
      /\ Answer(e, "tracked") /\ UNCHANGED <<handler, shut, late, kills, killer>>
  BY DEF SoftTimeout, Dropped
<1>2. CallInv(e) /\ RecordsAre(record)
  BY DEF GatewayInv, GatewayTypes
<1>3. /\ record[e].kind \in {"none", "task", "proc"}
      /\ record[e] # NoRecord => record[e].kind # "none"
  BY <1>2 DEF RecordsAre
<1>4. RecordsAre(rec)
  BY <1>2, <1>3, ExposedRecord
<1>5. e \in stored
  BY <1>1, <1>2 DEF CallInv, StepInv
<1>6. \A d \in ExecIds \ {e} : d \in stored /\ d \notin Evicted(rec) => d \in stored'
  BY <1>1
<1> QED
  BY <1>1, <1>3, <1>4, <1>5, <1>6, IdGiven

LEMMA CancelCallStep ==
    ASSUME GatewayInv, NEW e \in ExecIds, CancelCall(e)
    PROVE  GatewayInv'
<1>1. UNCHANGED <<handler, shut, late, kills, killer>>
  BY DEF CancelCall
<1>2. CASE call[e].step = "locking"
  <2>1. /\ call' = [call EXCEPT ![e].step = "cancelled"]
        /\ UNCHANGED <<holder, record, stored, process, known>>
    BY <1>2 DEF CancelCall
  <2>2. /\ call' \in [ExecIds -> Calls]
        /\ \A d \in ExecIds : call'[d].tool = call[d].tool /\ (d # e => call'[d] = call[d])
        /\ call'[e].step = "cancelled"
    BY <2>1, CallSteps DEF GatewayInv
  <2>3. GatewayTypes'
    BY <1>1, <2>1, <2>2 DEF GatewayInv, GatewayTypes
  <2>4. CallLocksAreHeld'
    BY <1>2, <2>1, <2>2 DEF GatewayInv, CallLocksAreHeld
  <2>5. CallInv(e)'
    <3>1. record[e] = NoRecord /\ process[e] = "none" /\ killer # e /\ e \notin kills
      BY <1>2 DEF GatewayInv, CallInv, StepInv
    <3>2. record[e].kind = "none" /\ ~record[e].exposed
      BY <3>1 DEF NoRecord
    <3>3. StepInv(e)'
      BY <1>1, <1>2, <2>1, <2>2, <3>1 DEF GatewayInv, CallInv, StepInv
    <3>4. ShellInv(e)'
      BY <1>1, <2>1, <2>2, <3>1, <3>2 DEF GatewayInv, CallInv, ShellInv
    <3>5. IdInv(e)'
      BY <1>1, <2>1, <2>2, <3>2 DEF IdInv
    <3> QED
      BY <3>3, <3>4, <3>5 DEF CallInv
  <2>6. \A d \in ExecIds \ {e} : CallInv(d)'
    BY <1>1, <2>1, <2>2, SameCall DEF GatewayInv
  <2> QED
    BY <2>3, <2>4, <2>5, <2>6 DEF GatewayInv
<1>3. CASE call[e].step # "locking"
  <2>1. /\ call[e].step = "waiting" /\ Dropped({e})
        /\ record' = Untracked(record, {e}) /\ Answer(e, "cancelled")
    BY <1>3 DEF CancelCall
  <2> QED
    BY <1>1, <2>1, ForgottenCall
<1> QED
  BY <1>2, <1>3

-----------------------------------------------------------------------------

LEMMA KillStep ==
    ASSUME GatewayInv, NEW b \in Callers \cup {AllSeeing}, NEW e \in ExecIds, Kill(b, e)
    PROVE  GatewayInv'
<1>1. /\ call[e].step \in {"id", "tracked"}
      /\ record[e] # NoRecord /\ record[e].status = "running"
      /\ killer' = e /\ UNCHANGED <<call, holder, stored, known, shut, late, kills>>
  BY DEF Kill, Finds
<1>2. /\ StepInv(e) /\ ShellInv(e) /\ IdInv(e) /\ RecordsAre(record)
      /\ handler \in [ExecIds -> Handlers] /\ process \in [ExecIds -> Shells]
  BY DEF GatewayInv, GatewayTypes, CallInv
<1>3. CASE /\ record[e].kind = "proc" /\ process[e] = "running"
           /\ process' = [process EXCEPT ![e] = "killed"]
           /\ UNCHANGED <<handler, record>>
  <2>1. /\ process' \in [ExecIds -> Shells] /\ process'[e] = "killed"
        /\ \A d \in ExecIds \ {e} : process'[d] = process[d]
    BY <1>2, <1>3 DEF Shells
  <2>2. StepInv(e)'
    BY <1>1, <1>2, <1>3 DEF StepInv
  <2>3. ShellInv(e)'
    BY <1>1, <1>2, <1>3, <2>1 DEF ShellInv
  <2>4. IdInv(e)'
    BY <1>1, <1>2, <1>3, <2>1 DEF IdInv, Works
  <2> QED
    BY <1>1, <1>2, <1>3, <2>1, <2>2, <2>3, <2>4, WorkFrame DEF CallInv
<1>4. CASE /\ IF record[e].kind = "proc" THEN process[e] # "running" ELSE call[e].tool = "plain"
           /\ UNCHANGED <<handler, process, record>>
  <2>1. process[e] # "spawning"
    BY <1>1, <1>2, <1>4 DEF ShellInv
  <2>2. StepInv(e)'
    BY <1>1, <1>2, <1>4 DEF StepInv
  <2>3. ShellInv(e)'
    BY <1>1, <1>2, <1>4, <2>1 DEF ShellInv
  <2>4. IdInv(e)'
    BY <1>1, <1>2, <1>4 DEF IdInv, Works
  <2> QED
    BY <1>1, <1>2, <1>4, <2>2, <2>3, <2>4, WorkFrame DEF CallInv
<1>5. CASE /\ record[e].kind = "task"
           /\ handler' = [handler EXCEPT ![e] = "cancelled"]
           /\ process' = IF process[e] = "spawning" THEN [process EXCEPT ![e] = "none"]
                                                   ELSE process
           /\ record' = Finished(record, e, TRUE)
  <2>1. IsFinished(record', record, e)
    BY <1>5, FinishedIs, Zenon
  <2>2. /\ RecordsAre(record') /\ record'[e].kind = record[e].kind
        /\ record'[e].exposed = record[e].exposed
        /\ (record'[e] = NoRecord <=> record[e] = NoRecord)
        /\ \A d \in ExecIds \ {e} : record'[d] = record[d]
    BY <1>2, <2>1, FinishedRecord
  <2>3. /\ handler' \in [ExecIds -> Handlers] /\ handler'[e] = "cancelled"
        /\ \A d \in ExecIds \ {e} : handler'[d] = handler[d]
    BY <1>2, <1>5 DEF Handlers
  <2>4. /\ process' \in [ExecIds -> Shells] /\ process'[e] # "spawning"
        /\ process'[e] = "running" => process[e] = "running"
        /\ process[e] = "none" => process'[e] = "none"
        /\ \A d \in ExecIds \ {e} : process'[d] = process[d]
    BY <1>2, <1>5 DEF Shells
  <2>5. StepInv(e)'
    BY <1>1, <1>2, <1>5, <2>2, <2>3 DEF StepInv
  <2>6. ShellInv(e)'
    BY <1>1, <1>2, <1>5, <2>2, <2>4 DEF ShellInv
  <2>7. IdInv(e)'
    <3>1. call[e].step # "id" /\ (call[e].tool # "detach" => process[e] # "running")
      BY <1>2, <1>5 DEF StepInv, ShellInv
    <3> QED
      BY <1>1, <1>2, <2>2, <2>3, <2>4, <3>1 DEF IdInv, Works
  <2> QED
    BY <1>1, <1>2, <2>2, <2>3, <2>4, <2>5, <2>6, <2>7, WorkFrame DEF CallInv
<1> QED
  BY <1>3, <1>4, <1>5 DEF Kill

LEMMA KilledStep ==
    ASSUME GatewayInv, NEW e \in ExecIds, Killed(e)
    PROVE  GatewayInv'
<1>1. /\ killer = e /\ killer' = 0
      /\ record' = Finished(record, e, TRUE) /\ kills' = kills \cup {e}
      /\ UNCHANGED <<call, holder, stored, handler, process, known, shut, late>>
  BY DEF Killed
<1>2. /\ StepInv(e) /\ ShellInv(e) /\ IdInv(e) /\ RecordsAre(record)
      /\ handler \in [ExecIds -> Handlers] /\ process \in [ExecIds -> Shells]
  BY DEF GatewayInv, GatewayTypes, CallInv
<1>3. IsFinished(record', record, e)
  BY <1>1, FinishedIs, Zenon
<1>4. /\ RecordsAre(record') /\ record'[e].kind = record[e].kind
      /\ record'[e].exposed = record[e].exposed
      /\ (record'[e] = NoRecord <=> record[e] = NoRecord)
      /\ \A d \in ExecIds \ {e} : record'[d] = record[d]
  BY <1>2, <1>3, FinishedRecord
<1>5. /\ call[e].step \in {"id", "tracked"} /\ process[e] # "spawning"
      /\ \A d \in ExecIds : killer' # d
  BY <1>1, <1>2, IdsAreNotZero DEF StepInv, ShellInv
<1>6. StepInv(e)'
  BY <1>1, <1>2, <1>4, <1>5 DEF StepInv
<1>7. ShellInv(e)'
  BY <1>1, <1>2, <1>4, <1>5 DEF ShellInv
<1>8. IdInv(e)'
  BY <1>1, <1>2, <1>4 DEF IdInv
<1> QED
  BY <1>1, <1>2, <1>4, <1>5, <1>6, <1>7, <1>8, WorkFrame DEF CallInv

\* A victim's handler and shell, once the shutdown has cancelled what it cancels.
LEMMA ShutdownStep ==
    ASSUME GatewayInv, NEW cancelled \in SUBSET Victims, Shutdown(cancelled)
    PROVE  GatewayInv'
<1> DEFINE at == Max({record[d].at : d \in ExecIds}) + 1
<1>1. /\ shut = "no" /\ shut' = "closing"
      /\ UNCHANGED <<call, holder, known, killer, late, kills>>
      /\ {e \in Victims : call[e].tool # "plain"} \subseteq cancelled
      /\ handler' = [e \in ExecIds |-> IF e \in cancelled THEN "cancelled" ELSE handler[e]]
      /\ process' = [e \in ExecIds |->
            CASE e \in known /\ process[e] = "running" -> "killed"
              [] e \in cancelled /\ process[e] = "spawning" -> "none"
              [] OTHER -> process[e]]
      /\ stored' = stored \ {e \in cancelled : ~record[e].exposed}
      /\ record' = [e \in ExecIds |->
            IF e \in cancelled /\ record[e].exposed
            THEN [record[e] EXCEPT !.status = "failed", !.at = at] ELSE record[e]]
  BY DEF Shutdown
<1> HIDE DEF at
<1>2. RecordsAre(record) /\ handler \in [ExecIds -> Handlers] /\ process \in [ExecIds -> Shells]
  BY DEF GatewayInv, GatewayTypes
<1>3. ASSUME NEW e \in ExecIds
      PROVE  /\ handler'[e] = IF e \in cancelled THEN "cancelled" ELSE handler[e]
             /\ handler'[e] \in Handlers
  BY <1>1, <1>2 DEF Handlers
<1>4. ASSUME NEW e \in ExecIds
      PROVE  /\ process'[e] \in Shells
             /\ process'[e] = "running" => process[e] = "running" /\ e \notin known
             /\ process'[e] = "spawning" => process[e] = "spawning" /\ e \notin cancelled
             /\ process[e] = "none" => process'[e] = "none"
  BY <1>1, <1>2 DEF Shells
<1>5. ASSUME NEW e \in ExecIds
      PROVE  /\ DOMAIN record'[e] = {"kind", "status", "exposed", "at"}
             /\ record'[e].kind = record[e].kind /\ record'[e].exposed = record[e].exposed
             /\ e \notin cancelled => record'[e] = record[e]
             /\ ~record[e].exposed => record'[e] = record[e]
             /\ record'[e] = NoRecord <=> record[e] = NoRecord
  <2>1. CASE e \in cancelled /\ record[e].exposed
    <3>1. record'[e] = [record[e] EXCEPT !.status = "failed", !.at = at]
      BY <1>1, <2>1
    <3>2. /\ DOMAIN record'[e] = {"kind", "status", "exposed", "at"}
          /\ record'[e].kind = record[e].kind /\ record'[e].exposed = record[e].exposed
      BY <1>2, <3>1 DEF RecordsAre
    <3>3. record'[e] # NoRecord /\ record[e] # NoRecord
      <4>1. record[e].kind = "task"
        BY <2>1 DEF Victims
      <4> QED
        BY <3>2, <4>1 DEF NoRecord
    <3> QED
      BY <2>1, <3>2, <3>3
  <2>2. CASE ~(e \in cancelled /\ record[e].exposed)
    BY <1>1, <1>2, <2>2 DEF RecordsAre
  <2> QED
    BY <2>1, <2>2
<1>6. RecordsAre(record')
  <2>1. record' = [e \in ExecIds |-> record'[e]]
    BY <1>1
  <2> QED
    BY <1>2, <1>5, <2>1 DEF RecordsAre
<1>7. GatewayTypes'
  <2>1. handler' \in [ExecIds -> Handlers]
    BY <1>1, <1>3
  <2>2. process' \in [ExecIds -> Shells]
    BY <1>1, <1>4
  <2> QED
    BY <1>1, <1>6, <2>1, <2>2 DEF GatewayInv, GatewayTypes
<1>8. CallLocksAreHeld'
  BY <1>1 DEF GatewayInv, CallLocksAreHeld
<1>9. ASSUME NEW e \in ExecIds
      PROVE  CallInv(e)'
  <2>1. StepInv(e) /\ ShellInv(e) /\ IdInv(e)
    BY DEF GatewayInv, CallInv
  <2>2. e \in cancelled => /\ handler[e] = "running" /\ record[e].kind = "task"
                           /\ record[e].status = "running"
    BY DEF Victims
  <2>3. (e \in stored /\ e \notin stored') => e \in cancelled /\ ~record[e].exposed
    BY <1>1
  <2>4. process'[e] = "spawning" => call[e].step = "cancelled"
    <3> SUFFICES ASSUME process[e] = "spawning", e \notin cancelled
                 PROVE  call[e].step = "cancelled"
      BY <1>4
    <3>1. handler[e] = "running" /\ e \notin kills /\ call[e].tool # "plain"
      BY <2>1 DEF ShellInv
    <3>2. record[e] = NoRecord
      BY <1>1, <2>1, <3>1 DEF ShellInv, Victims
    <3>3. ~record[e].exposed
      BY <3>2 DEF NoRecord
    <3>4. call[e].step \notin {"id", "tracked"}
      BY <1>1, <2>1, <3>1, <3>3 DEF IdInv, Works
    <3>5. call[e].step \notin {"new", "locking", "waiting", "result"}
      BY <1>1, <2>1, <3>1, <3>2 DEF StepInv
    <3>6. call[e].step \in {"new", "locking", "waiting", "id", "tracked", "result", "cancelled"}
      BY DEF GatewayInv, GatewayTypes, Calls
    <3> QED
      BY <3>4, <3>5, <3>6
  <2>5. process'[e] # "running"
    BY <1>4, <2>1 DEF ShellInv
  <2>6. StepInv(e)'
    BY <1>1, <1>3, <1>4, <1>5, <2>1, <2>2, <2>3 DEF StepInv
  <2>7. ShellInv(e)'
    BY <1>1, <1>3, <1>4, <1>5, <2>1, <2>4, <2>5 DEF ShellInv
  <2>8. IdInv(e)'
    BY <1>1, <1>3, <1>5, <2>1, <2>3, <2>5 DEF IdInv, Works
  <2> QED
    BY <2>6, <2>7, <2>8 DEF CallInv
<1> QED
  BY <1>7, <1>8, <1>9 DEF GatewayInv

LEMMA ShutdownEndsStep ==
    ASSUME GatewayInv, ShutdownEnds
    PROVE  GatewayInv'
<1>1. /\ shut = "closing" /\ shut' = "done" /\ record' = [e \in ExecIds |-> NoRecord]
      /\ UNCHANGED <<call, holder, stored, handler, process, known, killer, late, kills>>
  BY DEF ShutdownEnds
<1>2. RecordsAre(record')
  BY <1>1 DEF RecordsAre, NoRecord
<1>3. GatewayTypes'
  BY <1>1, <1>2 DEF GatewayInv, GatewayTypes
<1>4. CallLocksAreHeld'
  BY <1>1 DEF GatewayInv, CallLocksAreHeld
<1>5. ASSUME NEW e \in ExecIds
      PROVE  CallInv(e)'
  <2>1. StepInv(e) /\ ShellInv(e)
    BY DEF GatewayInv, CallInv
  <2>2. record'[e] = NoRecord /\ record'[e].kind = "none" /\ ~record'[e].exposed
    BY <1>1 DEF NoRecord
  <2>3. StepInv(e)'
    BY <1>1, <2>1, <2>2 DEF StepInv
  <2>4. ShellInv(e)'
    BY <1>1, <2>1, <2>2 DEF ShellInv
  <2>5. IdInv(e)'
    BY <1>1, <2>2 DEF IdInv
  <2> QED
    BY <2>3, <2>4, <2>5 DEF CallInv
<1> QED
  BY <1>3, <1>4, <1>5 DEF GatewayInv

LEMMA GatewayStep ==
    ASSUME GatewayInv, [GatewayNext]_gatewayVars
    PROVE  GatewayInv'
<1>1. CASE UNCHANGED gatewayVars
  BY <1>1 DEF gatewayVars, GatewayInv, GatewayTypes, RecordsAre, CallLocksAreHeld, CallInv, StepInv,
     ShellInv, IdInv, Works
<1>2. CASE GatewayNext
  BY <1>2, SubmitStep, GrantedStep, SpawnedStep, ProcessEndsStep, HandlerEndsStep,
     AnswerResultStep, SoftTimeoutStep, CancelCallStep, KillStep, KilledStep, ShutdownStep,
     ShutdownEndsStep
     DEF GatewayNext
<1> QED
  BY <1>1, <1>2

\* A set whose members are all alike has at most one.
LEMMA AtMostOne ==
    ASSUME NEW S, NEW x, S \subseteq {x}
    PROVE  Cardinality(S) <= 1
<1>1. S = {} \/ S = {x}
  OBVIOUS
<1>2. Cardinality({}) = 0 /\ Cardinality({x}) = 1
  BY FS_EmptySet, FS_Singleton
<1>3. Cardinality(S) = 0 \/ Cardinality(S) = 1
  BY <1>1, <1>2
<1> QED
  BY <1>3

\* The tool gateway (tools/gateway/gateway.py): a keyed resource has one user at a
\* time and is free when its calls have gone, an id that was given out leads to its
\* call as long as it runs (but for a background command tracked before its shell was
\* there), and a shutdown leaves no shell running but of a call whose turn was
\* cancelled during the spawn or of one that started later.
THEOREM GatewayIsSound == GatewaySpec => []GatewayHolds
<1>1. ASSUME GatewayInv PROVE GatewayHolds
  <2>1. ResourceIsExclusive
    <3> SUFFICES ASSUME NEW t \in Keyed
                 PROVE  LET inside == {e \in ExecIds : /\ Key(call[e].tool) = t
                                                       /\ call[e].step = "waiting"}
                        IN Cardinality(inside) <= 1 /\ (holder[t] # 0 => holder[t] \in inside)
      BY DEF ResourceIsExclusive
    <3> DEFINE inside == {e \in ExecIds : Key(call[e].tool) = t /\ call[e].step = "waiting"}
    <3>1. \A e \in ExecIds : e \in inside <=> holder[t] = e
      BY <1>1 DEF GatewayInv, CallLocksAreHeld
    <3>2. Cardinality(inside) <= 1
      <4>1. inside \subseteq {holder[t]}
        BY <3>1
      <4> HIDE DEF inside
      <4> QED
        BY <4>1, AtMostOne
    <3>3. holder[t] # 0 => holder[t] \in inside
      BY <1>1, <3>1 DEF GatewayInv, GatewayTypes
    <3> QED
      BY <3>2, <3>3
  <2>2. IdLeadsSomewhere
    BY <1>1 DEF GatewayInv, CallInv, ShellInv, IdInv, Works, IdLeadsSomewhere, LeadsTo
  <2>3. ProcessesAreKnown
    BY <1>1 DEF GatewayInv, CallInv, ShellInv, ProcessesAreKnown
  <2> QED
    BY <2>1, <2>2, <2>3 DEF GatewayHolds
<1> QED
  BY <1>1, GatewayStarts, GatewayStep, PTL DEF GatewaySpec

-----------------------------------------------------------------------------
(***************************************************************************)
(* MCP servers: for any servers, shared names and turns that sync.         *)
(*                                                                         *)
(* McpInv is inductive. A sync works step by step, so the properties,      *)
(* which speak of the time between syncs, follow from what holds within    *)
(* one: only one turn is past the lock and a server has one process        *)
(* (OneOfEach); what runs has the version of the last snapshot or is still *)
(* to be stopped (LiveAsWanted); and a name that the sync has not          *)
(* unregistered leads to the first process that has it and stays           *)
(* (NamesAreCanonical).                                                    *)
(***************************************************************************)
Launches == [server : Servers, version : Versions, up : BOOLEAN]
Wants == [Servers -> Versions \cup {Absent}]
Syncs == [step : {"idle", "waiting", "stopping", "starting"}, want : Wants,
          todo : SUBSET Servers, removed : SUBSET Names]

McpTypes ==
    /\ wanted \in Wants /\ lastWanted \in Wants
    /\ live \in Seq(Launches)
    /\ offered \in [Names -> Launches \cup {NoProc}]
    /\ sync \in [McpTurns -> Syncs]

Busy(t) == sync[t].step \in {"stopping", "starting"}

\* One sync at a time, and one process of a server.
OneOfEach ==
    /\ \A t, u \in McpTurns : Busy(t) /\ Busy(u) => t = u
    /\ \A i, k \in DOMAIN live : live[i].server = live[k].server => i = k

\* What is live has the version that the last sync was given, what the sync is
\* yet to stop apart.
LiveAsWanted ==
    /\ \A t \in McpTurns : sync[t].step \in {"stopping", "starting"} => lastWanted = sync[t].want
    /\ \A i \in DOMAIN live :
        \/ live[i].version = lastWanted[live[i].server]
        \/ \E t \in McpTurns : sync[t].step = "stopping" /\ live[i].server \in sync[t].todo
    /\ \A t \in McpTurns : sync[t].step = "starting" =>
        \A s \in sync[t].todo :
            lastWanted[s] # Absent /\ \A i \in DOMAIN live : live[i].server # s

\* A registered name calls the first live process that has it; in a sync, one
\* whose server it has not stopped.
NamesAreCanonical ==
    /\ \A t \in McpTurns : sync[t].step = "waiting" => sync[t].removed = {}
    /\ \A n \in Names :
        /\ NobodySyncs => offered[n] = Canonical(live, n)
        /\ \A t \in McpTurns :
            Busy(t) /\ n \notin sync[t].removed /\ offered[n].server # Absent =>
                offered[n] = Canonical(live, n)

McpInv == McpTypes /\ OneOfEach /\ LiveAsWanted /\ NamesAreCanonical


(***************************************************************************)
(* The first process that offers a name.                                   *)
(***************************************************************************)
IsFirst(procs, n, i) ==
    /\ i \in DOMAIN procs /\ n \in Offers(procs[i].server)
    /\ \A k \in DOMAIN procs : n \in Offers(procs[k].server) => i <= k

LEMMA LaunchFields ==
    ASSUME NEW p \in Launches
    PROVE  p.server \in Servers /\ p.version \in Versions
BY DEF Launches

LEMMA ProcessTypes ==
    ASSUME NEW procs \in Seq(Launches)
    PROVE  /\ Len(procs) \in Nat /\ DOMAIN procs = 1..Len(procs)
           /\ \A i \in DOMAIN procs : /\ procs[i] \in Launches
                                      /\ procs[i].server \in Servers
                                      /\ procs[i].version \in Versions
<1>1. Len(procs) \in Nat /\ DOMAIN procs = 1..Len(procs)
  BY LenProperties
<1>2. \A i \in 1..Len(procs) : procs[i] \in Launches
  BY ElementOfSeq
<1> QED
  BY <1>1, <1>2, LaunchFields

\* Canonical (mcp.py _canonical_tools): a name nobody offers has no process.
LEMMA CanonicalNone ==
    ASSUME NEW procs \in Seq(Launches), NEW n,
           \A i \in DOMAIN procs : n \notin Offers(procs[i].server)
    PROVE  Canonical(procs, n) = NoProc
BY DEF Canonical

\* A name somebody offers has the process of the first.
LEMMA CanonicalFirst ==
    ASSUME NEW procs \in Seq(Launches), NEW n, NEW i, IsFirst(procs, n, i)
    PROVE  Canonical(procs, n) = procs[i]
<1> DEFINE mine == {k \in DOMAIN procs : n \in Offers(procs[k].server)}
<1> DEFINE least == CHOOSE k \in mine : \A j \in mine : k <= j
<1>1. i \in mine /\ \A j \in mine : i <= j
  BY DEF IsFirst
<1>2. least \in mine /\ \A j \in mine : least <= j
  BY <1>1
<1>3. least = i
  <2>1. least <= i /\ i <= least
    BY <1>1, <1>2
  <2> QED
    BY <1>1, <1>2, <2>1
<1> QED
  BY <1>1, <1>3 DEF Canonical

LEMMA CanonicalCases ==
    ASSUME NEW procs \in Seq(Launches), NEW n
    PROVE  \/ \A i \in DOMAIN procs : n \notin Offers(procs[i].server)
           \/ \E i \in DOMAIN procs : IsFirst(procs, n, i) /\ Canonical(procs, n) = procs[i]
<1> DEFINE mine == {k \in DOMAIN procs : n \in Offers(procs[k].server)}
<1> SUFFICES ASSUME mine # {}
             PROVE  \E i \in DOMAIN procs : IsFirst(procs, n, i)
  BY CanonicalFirst
<1>1. mine \in SUBSET Nat
  OBVIOUS
<1>2. PICK i \in mine : \A k \in mine : i <= k
  <2> HIDE DEF mine
  <2> QED BY <1>1, LeastNumber
<1> QED
  BY <1>2 DEF IsFirst

LEMMA NoProcIsNone == NoProc \notin Launches /\ Absent \notin Servers
BY McpAssumption DEF NoProc, Launches

LEMMA RemovalIs ==
    ASSUME NEW procs \in Seq(Launches), NEW i \in DOMAIN procs
    PROVE  /\ RemoveAt(procs, i) \in Seq(Launches)
           /\ DOMAIN RemoveAt(procs, i) = 1..(Len(procs) - 1)
           /\ \A k \in 1..(Len(procs) - 1) :
                RemoveAt(procs, i)[k] = IF k < i THEN procs[k] ELSE procs[k + 1]
<1> DEFINE before == SubSeq(procs, 1, i - 1)
<1> DEFINE after == SubSeq(procs, i + 1, Len(procs))
<1>1. /\ DOMAIN procs = 1..Len(procs) /\ Len(procs) \in Nat
      /\ i \in 1..Len(procs)
      /\ \A k \in 1..Len(procs) : procs[k] \in Launches
  BY ProcessTypes
<1>2. /\ before \in Seq(Launches) /\ Len(before) = i - 1
      /\ \A k \in 1..(i - 1) : before[k] = procs[k]
  <2>1. /\ before \in Seq(Launches)
        /\ Len(before) = IF 1 <= i - 1 THEN i - 1 - 1 + 1 ELSE 0
        /\ \A k \in 1..(i - 1 - 1 + 1) : before[k] = procs[1 + k - 1]
    <3>1. 1 \in Int /\ i - 1 \in Int /\ \A k \in 1..(i - 1) : procs[k] \in Launches
      BY <1>1
    <3> QED BY <3>1, SubSeqProperties
  <2> HIDE DEF before
  <2> QED BY <1>1, <2>1
<1> HIDE DEF before
<1>3. /\ after \in Seq(Launches) /\ Len(after) = Len(procs) - i
      /\ \A k \in 1..(Len(procs) - i) : after[k] = procs[i + k]
  <2>1. /\ after \in Seq(Launches)
        /\ Len(after) = IF i + 1 <= Len(procs) THEN Len(procs) - (i + 1) + 1 ELSE 0
        /\ \A k \in 1..(Len(procs) - (i + 1) + 1) : after[k] = procs[i + 1 + k - 1]
    <3>1. /\ i + 1 \in Int /\ Len(procs) \in Int
          /\ \A k \in (i + 1)..Len(procs) : procs[k] \in Launches
      BY <1>1
    <3> QED BY <3>1, SubSeqProperties
  <2> HIDE DEF after
  <2>2. Len(after) = Len(procs) - i
    BY <1>1, <2>1
  <2>3. \A k \in 1..(Len(procs) - i) : after[k] = procs[i + k]
    <3> TAKE k \in 1..(Len(procs) - i)
    <3>1. k \in 1..(Len(procs) - (i + 1) + 1) /\ i + 1 + k - 1 = i + k
      BY <1>1
    <3> QED
      BY <2>1, <3>1
  <2> QED
    BY <2>1, <2>2, <2>3
<1>4. RemoveAt(procs, i) = before \o after
  BY DEF RemoveAt, before
<1> HIDE DEF after
<1>5. /\ before \o after \in Seq(Launches)
      /\ Len(before \o after) = Len(before) + Len(after)
      /\ \A k \in 1..(Len(before) + Len(after)) : (before \o after)[k] =
            IF k <= Len(before) THEN before[k] ELSE after[k - Len(before)]
  BY <1>2, <1>3, ConcatProperties
<1> DEFINE rest == before \o after
<1>6. DOMAIN rest = 1..Len(rest)
  BY <1>5
<1> HIDE DEF rest
<1>7. Len(rest) = Len(procs) - 1
  BY <1>1, <1>2, <1>3, <1>5 DEF rest
<1>8. \A k \in 1..(Len(procs) - 1) : rest[k] = IF k < i THEN procs[k] ELSE procs[k + 1]
  <2> TAKE k \in 1..(Len(procs) - 1)
  <2>1. rest[k] = IF k <= i - 1 THEN before[k] ELSE after[k - (i - 1)]
    <3>1. /\ Len(before) = i - 1 /\ k \in 1..(Len(before) + Len(after))
      BY <1>1, <1>2, <1>3
    <3> QED
      BY <1>5, <3>1 DEF rest
  <2>2. CASE k < i
    BY <1>1, <1>2, <2>1, <2>2
  <2>3. CASE ~(k < i)
    <3>1. k - (i - 1) \in 1..(Len(procs) - i) /\ i + (k - (i - 1)) = k + 1
      BY <1>1, <2>3
    <3>2. after[k - (i - 1)] = procs[k + 1]
      BY <1>3, <3>1
    <3> QED BY <1>1, <2>1, <2>3, <3>2
  <2> QED BY <2>2, <2>3
<1> QED
  BY <1>4, <1>5, <1>6, <1>7, <1>8 DEF rest

\* What is left comes from another place.
LEMMA RemovalLeaves ==
    ASSUME NEW procs \in Seq(Launches), NEW i \in DOMAIN procs,
           NEW k \in DOMAIN RemoveAt(procs, i)
    PROVE  \E j \in DOMAIN procs : RemoveAt(procs, i)[k] = procs[j] /\ j # i
<1> DEFINE rest == RemoveAt(procs, i)
<1>1. /\ DOMAIN rest = 1..(Len(procs) - 1)
      /\ \A m \in 1..(Len(procs) - 1) : rest[m] = IF m < i THEN procs[m] ELSE procs[m + 1]
  BY RemovalIs
<1>2. DOMAIN procs = 1..Len(procs) /\ Len(procs) \in Nat
  BY ProcessTypes
<1>3. k \in DOMAIN rest
  OBVIOUS
<1> HIDE DEF rest
<1>4. k \in DOMAIN procs /\ k + 1 \in DOMAIN procs
  BY <1>1, <1>2, <1>3
<1>5. rest[k] = IF k < i THEN procs[k] ELSE procs[k + 1]
  BY <1>1, <1>3
<1>6. CASE k < i
  BY <1>2, <1>4, <1>5, <1>6 DEF rest
<1>7. CASE ~(k < i)
  <2>1. k + 1 # i
    BY <1>2, <1>4, <1>7
  <2> QED
    BY <1>4, <1>5, <1>7, <2>1 DEF rest
<1> QED
  BY <1>6, <1>7

\* Canonical of the names that a process which goes does not offer.
LEMMA CanonicalWithout ==
    ASSUME NEW procs \in Seq(Launches), NEW n, NEW i \in DOMAIN procs,
           n \notin Offers(procs[i].server)
    PROVE  Canonical(RemoveAt(procs, i), n) = Canonical(procs, n)
<1> DEFINE rest == RemoveAt(procs, i)
<1>1. /\ rest \in Seq(Launches)
      /\ DOMAIN rest = 1..(Len(procs) - 1)
      /\ \A k \in 1..(Len(procs) - 1) : rest[k] = IF k < i THEN procs[k] ELSE procs[k + 1]
  BY RemovalIs
<1>2. DOMAIN procs = 1..Len(procs) /\ Len(procs) \in Nat
  BY ProcessTypes
<1> HIDE DEF rest
<1>3. CASE \A j \in DOMAIN procs : n \notin Offers(procs[j].server)
  <2>1. ASSUME NEW k \in DOMAIN rest PROVE n \notin Offers(rest[k].server)
    <3>1. PICK j \in DOMAIN procs : rest[k] = procs[j]
      BY RemovalLeaves DEF rest
    <3> QED
      BY <1>3, <3>1
  <2> QED
    BY <1>1, <1>3, <2>1, CanonicalNone DEF rest
<1>4. ASSUME NEW j \in DOMAIN procs, IsFirst(procs, n, j), Canonical(procs, n) = procs[j]
      PROVE  Canonical(rest, n) = Canonical(procs, n)
  <2> DEFINE m == IF j < i THEN j ELSE j - 1
  <2>1. j # i
    BY <1>4 DEF IsFirst
  <2>2. m \in DOMAIN rest /\ rest[m] = procs[j]
    BY <1>1, <1>2, <2>1
  <2>3. ASSUME NEW k \in DOMAIN rest, n \in Offers(rest[k].server)
        PROVE  m <= k
    <3>1. CASE k < i
      BY <1>1, <1>2, <1>4, <2>1, <2>3, <3>1 DEF IsFirst
    <3>2. CASE ~(k < i)
      <4>1. k + 1 \in DOMAIN procs /\ n \in Offers(procs[k + 1].server)
        BY <1>1, <1>2, <2>3, <3>2
      <4>2. j <= k + 1
        BY <1>4, <4>1 DEF IsFirst
      <4> QED
        BY <1>1, <1>2, <2>1, <3>2, <4>2
    <3> QED
      BY <3>1, <3>2
  <2>4. IsFirst(rest, n, m)
    BY <1>4, <2>2, <2>3 DEF IsFirst
  <2> QED
    BY <1>1, <1>4, <2>2, <2>4, CanonicalFirst
<1> QED
  BY <1>3, <1>4, CanonicalCases DEF rest

\* A name that has a process has the first that offers it.
LEMMA CanonicalHas ==
    ASSUME NEW procs \in Seq(Launches), NEW n, Canonical(procs, n).server # Absent
    PROVE  \E j \in DOMAIN procs : IsFirst(procs, n, j) /\ Canonical(procs, n) = procs[j]
BY CanonicalCases, CanonicalNone DEF NoProc

\* Canonical when a server is added at the end: who has a name keeps it.
LEMMA CanonicalWithLast ==
    ASSUME NEW procs \in Seq(Launches), NEW n, NEW p \in Launches,
           Canonical(procs, n).server # Absent
    PROVE  Canonical(Append(procs, p), n) = Canonical(procs, n)
<1> DEFINE more == Append(procs, p)
<1>1. /\ more \in Seq(Launches)
      /\ DOMAIN more = 1..(Len(procs) + 1)
      /\ \A k \in 1..Len(procs) : more[k] = procs[k]
  <2>1. /\ more \in Seq(Launches) /\ Len(more) = Len(procs) + 1
        /\ \A k \in 1..Len(procs) : more[k] = procs[k]
    BY AppendProperties
  <2> QED
    BY <2>1, ProcessTypes
<1>2. DOMAIN procs = 1..Len(procs) /\ Len(procs) \in Nat
  BY ProcessTypes
<1>3. PICK j \in DOMAIN procs : IsFirst(procs, n, j) /\ Canonical(procs, n) = procs[j]
  BY CanonicalHas
<1> HIDE DEF more
<1>4. IsFirst(more, n, j)
  BY <1>1, <1>2, <1>3 DEF IsFirst
<1> QED
  BY <1>1, <1>2, <1>3, <1>4, CanonicalFirst DEF more

\* Canonical when the processes of a server end: the same process has a name.
Down(p, s) == IF p.server = s THEN [p EXCEPT !.up = FALSE] ELSE p

LEMMA DownKeepsIdentity ==
    ASSUME NEW p \in Launches, NEW s
    PROVE  /\ Down(p, s) \in Launches
           /\ Down(p, s).server = p.server /\ Down(p, s).version = p.version
BY DEF Down, Launches

LEMMA CanonicalDown ==
    ASSUME NEW procs \in Seq(Launches), NEW n, NEW s \in Servers
    PROVE  LET marked == [i \in DOMAIN procs |-> Down(procs[i], s)] IN
           /\ marked \in Seq(Launches)
           /\ Canonical(marked, n) = Down(Canonical(procs, n), s)
<1> DEFINE marked == [i \in DOMAIN procs |-> Down(procs[i], s)]
<1>1. /\ marked \in Seq(Launches)
      /\ DOMAIN marked = DOMAIN procs
      /\ \A k \in DOMAIN procs : marked[k] = Down(procs[k], s)
                                /\ marked[k].server = procs[k].server
  <2>1. \A k \in DOMAIN procs : procs[k] \in Launches
    BY ProcessTypes
  <2>2. \A k \in DOMAIN procs : Down(procs[k], s) \in Launches
                                /\ Down(procs[k], s).server = procs[k].server
    BY <2>1, DownKeepsIdentity
  <2>3. DOMAIN procs = 1..Len(procs) /\ Len(procs) \in Nat
    BY ProcessTypes
  <2> QED
    BY <2>2, <2>3
<1> HIDE DEF marked
<1>2. CASE \A j \in DOMAIN procs : n \notin Offers(procs[j].server)
  <2>1. Canonical(procs, n) = NoProc /\ Canonical(marked, n) = NoProc
    BY <1>1, <1>2, CanonicalNone
  <2>2. Down(NoProc, s) = NoProc
    BY NoProcIsNone DEF Down, NoProc
  <2> QED
    BY <1>1, <2>1, <2>2 DEF marked
<1>3. ASSUME NEW j \in DOMAIN procs, IsFirst(procs, n, j), Canonical(procs, n) = procs[j]
      PROVE  Canonical(marked, n) = Down(Canonical(procs, n), s)
  <2>1. IsFirst(marked, n, j)
    BY <1>1, <1>3 DEF IsFirst
  <2> QED
    BY <1>1, <1>3, <2>1, CanonicalFirst
<1> QED
  BY <1>1, <1>2, <1>3, CanonicalCases DEF marked

-----------------------------------------------------------------------------
(***************************************************************************)
(* The invariant holds at first, and each action keeps it.                 *)
(***************************************************************************)
LEMMA InitHolds == McpInit => McpInv
<1> SUFFICES ASSUME McpInit PROVE McpInv
  OBVIOUS
<1>1. McpTypes
  <2>1. [s \in Servers |-> Absent] \in Wants
    BY DEF Wants
  <2>2. NoSync \in Syncs
    BY <2>1 DEF NoSync, Syncs
  <2>3. live \in Seq(Launches)
    BY DEF McpInit
  <2> QED
    BY <2>1, <2>2, <2>3 DEF McpInit, McpTypes, Wants
<1>2. \A t \in McpTurns : sync[t].step = "idle"
  BY DEF McpInit, NoSync
<1>3. live = <<>> /\ live \in Seq(Launches) /\ DOMAIN live = {} /\ \A n \in Names : offered[n] = NoProc
  BY DEF McpInit
<1>4. \A n \in Names : Canonical(live, n) = NoProc
  BY <1>3, CanonicalNone
<1> QED
  BY <1>1, <1>2, <1>3, <1>4 DEF McpInv, OneOfEach, LiveAsWanted, NamesAreCanonical, Busy

LEMMA EditConfigKeeps ==
    ASSUME McpInv, NEW s \in Servers, NEW v \in Versions \cup {Absent}, EditConfig(s, v)
    PROVE  McpInv'
<1>1. wanted' \in Wants
  BY DEF McpInv, McpTypes, EditConfig, Wants
<1> QED
  BY <1>1 DEF McpInv, McpTypes, EditConfig, OneOfEach, LiveAsWanted, NamesAreCanonical,
      NobodySyncs, Busy

\* The sync of one turn changes: what the others' say is what it was.
LEMMA ReadConfigKeeps ==
    ASSUME McpInv, NEW t \in McpTurns, ReadConfig(t)
    PROVE  McpInv'
<1> DEFINE mine == [NoSync EXCEPT !.step = "waiting", !.want = wanted]
<1>1. mine \in Syncs /\ mine.step = "waiting" /\ mine.removed = {}
  BY DEF McpInv, McpTypes, NoSync, Syncs, Wants
<1>2. sync' = [sync EXCEPT ![t] = mine]
  BY DEF ReadConfig
<1> HIDE DEF mine
<1>3. /\ sync' \in [McpTurns -> Syncs] /\ sync'[t] = mine
      /\ \A u \in McpTurns : u # t => sync'[u] = sync[u]
  BY <1>1, <1>2 DEF McpInv, McpTypes
<1>4. sync[t].step = "idle" /\ UNCHANGED <<wanted, live, offered, lastWanted>>
  BY DEF ReadConfig
<1>5. McpTypes'
  BY <1>3, <1>4 DEF McpInv, McpTypes
<1>6. OneOfEach'
  BY <1>1, <1>3, <1>4 DEF McpInv, OneOfEach, Busy
<1>7. LiveAsWanted'
  BY <1>1, <1>3, <1>4 DEF McpInv, LiveAsWanted
<1>8. NamesAreCanonical'
  BY <1>1, <1>3, <1>4 DEF McpInv, NamesAreCanonical, NobodySyncs, Busy
<1> QED
  BY <1>5, <1>6, <1>7, <1>8 DEF McpInv

LEMMA BeginSyncKeeps ==
    ASSUME McpInv, NEW t \in McpTurns, BeginSync(t)
    PROVE  McpInv'
<1>1. /\ sync' \in [McpTurns -> Syncs]
      /\ sync'[t].step = "stopping" /\ sync'[t].todo = Stale(sync[t].want)
      /\ sync'[t].want = sync[t].want /\ sync'[t].removed = sync[t].removed
      /\ \A u \in McpTurns : u # t => sync'[u] = sync[u]
  BY DEF BeginSync, McpInv, McpTypes, Syncs, Stale
<1>2. /\ sync[t].step = "waiting" /\ lastWanted' = sync[t].want
      /\ \A u \in McpTurns : sync[u].step \in {"idle", "waiting"}
      /\ UNCHANGED <<wanted, live, offered>>
  BY DEF BeginSync
<1>3. McpTypes'
  BY <1>1, <1>2 DEF McpInv, McpTypes, Syncs
<1>4. OneOfEach'
  BY <1>1, <1>2 DEF McpInv, OneOfEach, Busy
<1>5. LiveAsWanted'
  <2>1. \A i \in DOMAIN live : live[i].version \in Launched(live[i].server)
    BY DEF Launched
  <2>2. \A i \in DOMAIN live : live[i].server \in Servers
    BY ProcessTypes DEF McpInv, McpTypes
  <2>3. \A i \in DOMAIN live :
          live[i].version = sync[t].want[live[i].server] \/ live[i].server \in sync'[t].todo
    BY <1>1, <2>1, <2>2 DEF Stale
  <2>4. \A u \in McpTurns : sync'[u].step \in {"stopping", "starting"} => u = t
    BY <1>1, <1>2
  <2> QED
    BY <1>1, <1>2, <2>3, <2>4 DEF LiveAsWanted
<1>6. NamesAreCanonical'
  BY <1>1, <1>2 DEF McpInv, NamesAreCanonical, NobodySyncs, Busy
<1> QED
  BY <1>3, <1>4, <1>5, <1>6 DEF McpInv

LEMMA StopServerKeeps ==
    ASSUME McpInv, NEW t \in McpTurns, StopServer(t)
    PROVE  McpInv'
<1> PICK i \in DOMAIN live :
        /\ live[i].server \in sync[t].todo
        /\ live' = RemoveAt(live, i)
        /\ sync' = [sync EXCEPT ![t].todo = @ \ {live[i].server},
                                ![t].removed = @ \cup RemovedWith(live[i].server)]
        /\ offered' = [n \in Names |->
                IF offered[n].server = live[i].server
                THEN [offered[n] EXCEPT !.up = FALSE] ELSE offered[n]]
  BY DEF StopServer
<1> DEFINE s == live[i].server
<1>1. /\ live \in Seq(Launches) /\ live[i] \in Launches /\ s \in Servers
      /\ DOMAIN live = 1..Len(live) /\ Len(live) \in Nat
  BY ProcessTypes DEF McpInv, McpTypes
<1>2. RemovedWith(s) \subseteq Names /\ RemovedWith(s) = Offers(s)
  BY <1>1 DEF RemovedWith, Names
<1>3. /\ sync' \in [McpTurns -> Syncs]
      /\ sync'[t].step = sync[t].step /\ sync'[t].todo = sync[t].todo \ {s}
      /\ sync'[t].want = sync[t].want /\ sync'[t].removed = sync[t].removed \cup Offers(s)
      /\ \A u \in McpTurns : u # t => sync'[u] = sync[u]
  BY <1>2 DEF McpInv, McpTypes, Syncs
<1>4. sync[t].step = "stopping" /\ UNCHANGED <<wanted, lastWanted>>
  BY DEF StopServer
<1>5. \A n \in Names :
        /\ offered'[n] \in Launches \cup {NoProc}
        /\ offered'[n].server = offered[n].server
        /\ offered[n].server # s => offered'[n] = offered[n]
  <2> TAKE n \in Names
  <2>1. offered'[n] = Down(offered[n], s)
    BY DEF Down
  <2>2. offered[n] \in Launches \/ offered[n] = NoProc
    BY DEF McpInv, McpTypes
  <2>3. s # Absent /\ NoProc.server = Absent
    BY <1>1, NoProcIsNone DEF NoProc
  <2> QED
    BY <2>1, <2>2, <2>3, DownKeepsIdentity DEF Down
<1>6. /\ live' \in Seq(Launches)
      /\ DOMAIN live' = 1..(Len(live) - 1)
      /\ \A k \in 1..(Len(live) - 1) : live'[k] = IF k < i THEN live[k] ELSE live[k + 1]
  BY <1>1, RemovalIs
<1>7. \A k \in DOMAIN live' : \E j \in DOMAIN live : live'[k] = live[j] /\ j # i
  BY <1>1, RemovalLeaves
<1>8. McpTypes'
  <2>1. offered' \in [Names -> Launches \cup {NoProc}]
    BY <1>5
  <2> QED
    BY <1>3, <1>4, <1>6, <2>1 DEF McpInv, McpTypes
<1>9. OneOfEach'
  <2>1. \A j, k \in DOMAIN live : live[j].server = live[k].server => j = k
    BY DEF McpInv, OneOfEach
  <2>2. ASSUME NEW j \in DOMAIN live', NEW k \in DOMAIN live',
               live'[j].server = live'[k].server
        PROVE  j = k
    <3> DEFINE at(m) == IF m < i THEN m ELSE m + 1
    <3>1. /\ at(j) \in DOMAIN live /\ live'[j] = live[at(j)]
          /\ at(k) \in DOMAIN live /\ live'[k] = live[at(k)]
      BY <1>1, <1>6
    <3>2. at(j) = at(k)
      <4> HIDE DEF at
      <4> QED BY <2>1, <2>2, <3>1
    <3> QED
      BY <1>1, <1>6, <3>2
  <2>3. \A u, v \in McpTurns : Busy(u)' /\ Busy(v)' => u = v
    BY <1>3, <1>4 DEF McpInv, OneOfEach, Busy
  <2> QED
    BY <2>2, <2>3 DEF OneOfEach
<1>10. LiveAsWanted'
  <2>1. \A u \in McpTurns : Busy(u) => u = t
    BY <1>4 DEF McpInv, OneOfEach, Busy
  <2>2. \A u \in McpTurns : sync'[u].step \in {"stopping", "starting"} => u = t
    BY <1>3, <2>1 DEF Busy
  <2>3. ASSUME NEW k \in DOMAIN live'
        PROVE  \/ live'[k].version = lastWanted[live'[k].server]
               \/ live'[k].server \in sync'[t].todo
    <3>1. PICK j \in DOMAIN live : live'[k] = live[j] /\ j # i
      BY <1>7
    <3>2. live[j].server # s
      BY <3>1 DEF McpInv, OneOfEach
    <3>3. live[j].version = lastWanted[live[j].server] \/ live[j].server \in sync[t].todo
      BY <2>1 DEF McpInv, LiveAsWanted, Busy
    <3> QED
      BY <1>3, <3>1, <3>2, <3>3
  <2>4. lastWanted = sync[t].want
    BY <1>4 DEF McpInv, LiveAsWanted
  <2> QED
    BY <1>3, <1>4, <2>2, <2>3, <2>4 DEF LiveAsWanted
<1>11. NamesAreCanonical'
  <2>1. ~NobodySyncs'
    BY <1>3, <1>4 DEF NobodySyncs
  <2>2. ASSUME NEW n \in Names, NEW u \in McpTurns, Busy(u)', n \notin sync'[u].removed,
               offered'[n].server # Absent
        PROVE  offered'[n] = Canonical(live, n)'
    <3>1. u = t /\ Busy(t)
      BY <1>3, <1>4, <2>2 DEF McpInv, OneOfEach, Busy
    <3>2. n \notin sync[t].removed /\ n \notin Offers(s)
      BY <1>3, <2>2, <3>1
    <3>3. offered[n] = Canonical(live, n) /\ offered[n].server # Absent
      BY <1>5, <2>2, <3>1, <3>2 DEF McpInv, NamesAreCanonical
    <3>4. PICK j \in DOMAIN live : IsFirst(live, n, j) /\ Canonical(live, n) = live[j]
      BY <1>1, <3>3, CanonicalHas
    <3>5. offered[n].server # s
      BY <3>2, <3>3, <3>4 DEF IsFirst
    <3>6. Canonical(RemoveAt(live, i), n) = Canonical(live, n)
      BY <1>1, <3>2, CanonicalWithout
    <3>7. Canonical(live, n)' = Canonical(RemoveAt(live, i), n)
      BY DEF Canonical
    <3> QED
      BY <1>5, <3>3, <3>5, <3>6, <3>7
  <2>3. \A u \in McpTurns : sync'[u].step = "waiting" => sync'[u].removed = {}
    BY <1>3, <1>4 DEF McpInv, NamesAreCanonical
  <2> QED
    BY <2>1, <2>2, <2>3 DEF NamesAreCanonical
<1> QED
  BY <1>8, <1>9, <1>10, <1>11 DEF McpInv

LEMMA StopsDoneKeeps ==
    ASSUME McpInv, NEW t \in McpTurns, StopsDone(t)
    PROVE  McpInv'
<1> DEFINE missing == {s \in Servers : sync[t].want[s] # Absent /\ Launched(s) = {}}
<1>1. missing \subseteq Servers
  OBVIOUS
<1>2. sync' = [sync EXCEPT ![t].step = "starting", ![t].todo = missing]
  BY DEF StopsDone
<1>3. \A s \in missing : sync[t].want[s] # Absent /\ \A i \in DOMAIN live : live[i].server # s
  BY DEF Launched
<1> HIDE DEF missing
<1>4. /\ sync' \in [McpTurns -> Syncs]
      /\ sync'[t].step = "starting" /\ sync'[t].todo = missing
      /\ sync'[t].want = sync[t].want /\ sync'[t].removed = sync[t].removed
      /\ \A u \in McpTurns : u # t => sync'[u] = sync[u]
  BY <1>1, <1>2 DEF McpInv, McpTypes, Syncs
<1>5. /\ sync[t].step = "stopping" /\ sync[t].todo = {}
      /\ UNCHANGED <<wanted, live, offered, lastWanted>>
  BY DEF StopsDone
<1>6. \A u \in McpTurns : Busy(u) <=> u = t
  BY <1>5 DEF McpInv, OneOfEach, Busy
<1>7. \A u \in McpTurns : sync'[u].step \in {"stopping", "starting"} => u = t
  BY <1>4, <1>6 DEF Busy
<1>8. McpTypes'
  BY <1>4, <1>5 DEF McpInv, McpTypes
<1>9. OneOfEach'
  BY <1>5, <1>7 DEF McpInv, OneOfEach, Busy
<1>10. LiveAsWanted'
  <2>1. \A i \in DOMAIN live : live[i].version = lastWanted[live[i].server]
    BY <1>5, <1>6 DEF McpInv, LiveAsWanted, Busy
  <2>2. lastWanted = sync[t].want
    BY <1>5 DEF McpInv, LiveAsWanted
  <2> QED
    BY <1>3, <1>4, <1>5, <1>7, <2>1, <2>2 DEF LiveAsWanted
<1>11. NamesAreCanonical'
  BY <1>4, <1>5, <1>6, <1>7 DEF McpInv, NamesAreCanonical, NobodySyncs, Busy
<1> QED
  BY <1>8, <1>9, <1>10, <1>11 DEF McpInv

LEMMA StartServerKeeps ==
    ASSUME McpInv, NEW t \in McpTurns, NEW starts \in BOOLEAN, StartServer(t, starts)
    PROVE  McpInv'
<1> PICK i \in DOMAIN ServerSeq :
        /\ ServerSeq[i] \in sync[t].todo
        /\ live' = IF starts
                   THEN Append(live, [server |-> ServerSeq[i],
                                      version |-> sync[t].want[ServerSeq[i]], up |-> TRUE])
                   ELSE live
        /\ sync' = [sync EXCEPT ![t].todo = @ \ {ServerSeq[i]}]
  BY DEF StartServer
<1> DEFINE s == ServerSeq[i]
<1> DEFINE p == [server |-> s, version |-> sync[t].want[s], up |-> TRUE]
<1>1. /\ sync' \in [McpTurns -> Syncs]
      /\ sync'[t].step = sync[t].step /\ sync'[t].todo = sync[t].todo \ {s}
      /\ sync'[t].want = sync[t].want /\ sync'[t].removed = sync[t].removed
      /\ \A u \in McpTurns : u # t => sync'[u] = sync[u]
  BY DEF McpInv, McpTypes, Syncs
<1>2. /\ sync[t].step = "starting" /\ s \in sync[t].todo
      /\ UNCHANGED <<wanted, offered, lastWanted>>
  BY DEF StartServer
<1>3. \A u \in McpTurns : Busy(u) <=> u = t
  BY <1>2 DEF McpInv, OneOfEach, Busy
<1>4. /\ s \in Servers /\ sync[t].want \in Wants /\ lastWanted = sync[t].want
      /\ lastWanted[s] # Absent /\ \A k \in DOMAIN live : live[k].server # s
  BY <1>2 DEF McpInv, McpTypes, Syncs, LiveAsWanted
<1>5. p \in Launches /\ p.server = s /\ p.version = lastWanted[s]
  BY <1>4 DEF Launches, Wants
<1>6. live \in Seq(Launches) /\ DOMAIN live = 1..Len(live) /\ Len(live) \in Nat
  BY ProcessTypes DEF McpInv, McpTypes
<1>7. \/ live' = live
      \/ live' = Append(live, p)
  OBVIOUS
<1> HIDE DEF p
<1>8. /\ live' \in Seq(Launches)
      /\ \A k \in DOMAIN live' : \/ k \in DOMAIN live /\ live'[k] = live[k]
                                 \/ k = Len(live) + 1 /\ live'[k] = p
  <2>1. CASE live' = live
    BY <1>6, <2>1
  <2>2. CASE live' = Append(live, p)
    <3>1. /\ live' \in Seq(Launches) /\ Len(live') = Len(live) + 1
          /\ \A k \in 1..Len(live) : live'[k] = live[k]
          /\ live'[Len(live) + 1] = p
      BY <1>5, <1>6, <2>2, AppendProperties
    <3>2. DOMAIN live' = 1..(Len(live) + 1)
      BY <3>1, ProcessTypes
    <3>3. \A k \in 1..(Len(live) + 1) : k \in 1..Len(live) \/ k = Len(live) + 1
      BY <1>6
    <3> SUFFICES ASSUME NEW k \in DOMAIN live'
                 PROVE  \/ k \in DOMAIN live /\ live'[k] = live[k]
                        \/ k = Len(live) + 1 /\ live'[k] = p
      BY <3>1
    <3>4. CASE k \in 1..Len(live)
      BY <1>6, <3>1, <3>4
    <3>5. CASE k = Len(live) + 1
      BY <3>1, <3>5
    <3> QED
      BY <3>2, <3>3, <3>4, <3>5
  <2> QED
    BY <1>7, <2>1, <2>2
<1>9. McpTypes'
  BY <1>1, <1>2, <1>8 DEF McpInv, McpTypes
<1>10. OneOfEach'
  <2>1. \A u, v \in McpTurns : Busy(u)' /\ Busy(v)' => u = v
    BY <1>1, <1>3 DEF Busy
  <2>2. \A j, k \in DOMAIN live' : live'[j].server = live'[k].server => j = k
    BY <1>4, <1>5, <1>8 DEF McpInv, OneOfEach
  <2> QED
    BY <2>1, <2>2 DEF OneOfEach
<1>11. LiveAsWanted'
  <2>1. \A u \in McpTurns : sync'[u].step \in {"stopping", "starting"} => u = t
    BY <1>1, <1>3 DEF Busy
  <2>2. \A k \in DOMAIN live : live[k].version = lastWanted[live[k].server]
    BY <1>2, <1>3 DEF McpInv, LiveAsWanted, Busy
  <2>3. \A k \in DOMAIN live' : live'[k].version = lastWanted[live'[k].server]
    BY <1>5, <1>8, <2>2
  <2>4. \A r \in sync'[t].todo :
            lastWanted[r] # Absent /\ \A k \in DOMAIN live' : live'[k].server # r
    BY <1>1, <1>2, <1>5, <1>8 DEF McpInv, LiveAsWanted
  <2> QED
    BY <1>1, <1>2, <1>4, <2>1, <2>3, <2>4 DEF LiveAsWanted
<1>12. NamesAreCanonical'
  <2>1. ~NobodySyncs'
    BY <1>1, <1>2 DEF NobodySyncs
  <2>2. ASSUME NEW n \in Names, NEW u \in McpTurns, Busy(u)', n \notin sync'[u].removed,
               offered'[n].server # Absent
        PROVE  offered'[n] = Canonical(live', n)
    <3>1. u = t /\ Busy(t)
      BY <1>1, <1>3, <2>2 DEF Busy
    <3>2. offered[n] = Canonical(live, n) /\ offered[n].server # Absent
      BY <1>1, <1>2, <2>2, <3>1 DEF McpInv, NamesAreCanonical
    <3>3. Canonical(Append(live, p), n) = Canonical(live, n)
      BY <1>5, <1>6, <3>2, CanonicalWithLast
    <3> QED
      BY <1>2, <1>7, <3>2, <3>3
  <2>3. \A u \in McpTurns : sync'[u].step = "waiting" => sync'[u].removed = {}
    BY <1>1, <1>2 DEF McpInv, NamesAreCanonical
  <2>4. \A n : Canonical(live, n)' = Canonical(live', n)
    BY DEF Canonical
  <2> QED
    BY <2>1, <2>2, <2>3, <2>4 DEF NamesAreCanonical
<1> QED
  BY <1>9, <1>10, <1>11, <1>12 DEF McpInv

LEMMA RegisterKeeps ==
    ASSUME McpInv, NEW t \in McpTurns, Register(t)
    PROVE  McpInv'
<1>1. /\ sync[t].step = "starting" /\ sync[t].todo = {}
      /\ sync' = [sync EXCEPT ![t] = NoSync]
      /\ UNCHANGED <<wanted, live, lastWanted>>
  BY DEF Register
<1>2. \A u \in McpTurns : Busy(u) <=> u = t
  BY <1>1 DEF McpInv, OneOfEach, Busy
<1>3. NoSync \in Syncs /\ NoSync.step = "idle"
  BY DEF NoSync, Syncs, Wants
<1>4. /\ sync' \in [McpTurns -> Syncs] /\ sync'[t].step = "idle"
      /\ \A u \in McpTurns : u # t => sync'[u] = sync[u]
  BY <1>1, <1>3 DEF McpInv, McpTypes
<1>5. \A u \in McpTurns : sync'[u].step \in {"idle", "waiting"}
  BY <1>2, <1>4 DEF McpInv, McpTypes, Syncs, Busy
<1>6. \A n \in Names : offered'[n] = Canonical(live, n)
  <2> TAKE n \in Names
  <2>1. offered'[n] = IF offered[n].server # Absent /\ n \notin sync[t].removed
                      THEN offered[n] ELSE Canonical(live, n)
    BY DEF Register
  <2> QED
    BY <1>2, <2>1 DEF McpInv, NamesAreCanonical
<1>7. \A n \in Names : Canonical(live, n) \in Launches \cup {NoProc}
  BY CanonicalCases, CanonicalNone DEF McpInv, McpTypes
<1>8. McpTypes'
  <2>1. offered' \in [Names -> Launches \cup {NoProc}]
    BY <1>6, <1>7 DEF Register
  <2> QED
    BY <1>1, <1>4, <2>1 DEF McpInv, McpTypes
<1>9. OneOfEach' /\ LiveAsWanted'
  <2>1. \A i \in DOMAIN live : live[i].version = lastWanted[live[i].server]
    BY <1>1, <1>2 DEF McpInv, LiveAsWanted, Busy
  <2> QED
    BY <1>1, <1>5, <2>1 DEF McpInv, OneOfEach, LiveAsWanted, Busy
<1>10. NamesAreCanonical'
  <2>1. \A n : Canonical(live, n)' = Canonical(live, n)
    BY <1>1 DEF Canonical
  <2> QED
    BY <1>4, <1>5, <1>6, <2>1 DEF McpInv, NamesAreCanonical, Busy
<1> QED
  BY <1>8, <1>9, <1>10 DEF McpInv

LEMMA ServerDiesKeeps ==
    ASSUME McpInv, NEW s \in Servers, ServerDies(s)
    PROVE  McpInv'
<1>1. /\ live' = [i \in DOMAIN live |-> Down(live[i], s)]
      /\ offered' = [n \in Names |-> Down(offered[n], s)]
      /\ UNCHANGED <<wanted, sync, lastWanted>>
  BY DEF ServerDies, Down
<1>2. live \in Seq(Launches) /\ \A i \in DOMAIN live : live[i] \in Launches
  BY ProcessTypes DEF McpInv, McpTypes
<1>3. live' \in Seq(Launches) /\ \A n : Canonical(live', n) = Down(Canonical(live, n), s)
  BY <1>1, <1>2, CanonicalDown
<1>4. /\ DOMAIN live' = DOMAIN live
      /\ \A i \in DOMAIN live : /\ live'[i].server = live[i].server
                                /\ live'[i].version = live[i].version
  BY <1>1, <1>2, DownKeepsIdentity
<1>5. Down(NoProc, s) = NoProc
  BY NoProcIsNone DEF Down, NoProc
<1>6. offered' \in [Names -> Launches \cup {NoProc}]
  BY <1>1, <1>5, DownKeepsIdentity DEF McpInv, McpTypes
<1>7. McpTypes'
  BY <1>1, <1>3, <1>6 DEF McpInv, McpTypes
<1>8. OneOfEach' /\ LiveAsWanted'
  BY <1>1, <1>4 DEF McpInv, OneOfEach, LiveAsWanted, Busy
<1>9. NamesAreCanonical'
  <2>1. \A n \in Names : offered'[n].server = offered[n].server
    BY <1>1, <1>5, DownKeepsIdentity DEF McpInv, McpTypes
  <2>2. \A n \in Names : offered[n] = Canonical(live, n) => offered'[n] = Canonical(live', n)
    BY <1>1, <1>3
  <2>3. \A n : Canonical(live, n)' = Canonical(live', n)
    BY DEF Canonical
  <2> QED
    BY <1>1, <2>1, <2>2, <2>3 DEF McpInv, NamesAreCanonical, NobodySyncs, Busy
<1> QED
  BY <1>7, <1>8, <1>9 DEF McpInv

LEMMA NextHolds == McpInv /\ [McpNext]_mcpVars => McpInv'
<1> SUFFICES ASSUME McpInv, [McpNext]_mcpVars PROVE McpInv'
  OBVIOUS
<1>1. ASSUME McpNext PROVE McpInv'
  BY <1>1, EditConfigKeeps, ReadConfigKeeps, BeginSyncKeeps, StopServerKeeps,
     StopsDoneKeeps, StartServerKeeps, RegisterKeeps, ServerDiesKeeps DEF McpNext
<1>2. CASE UNCHANGED mcpVars
  <2>1. UNCHANGED <<wanted, live, offered, sync, lastWanted>>
    BY <1>2 DEF mcpVars
  <2>2. McpTypes' /\ OneOfEach' /\ LiveAsWanted'
    BY <2>1 DEF McpInv, McpTypes, OneOfEach, LiveAsWanted, Busy
  <2>3. \A n : Canonical(live, n)' = Canonical(live, n)
    BY <2>1 DEF Canonical
  <2>4. NamesAreCanonical'
    BY <2>1, <2>3 DEF McpInv, NamesAreCanonical, NobodySyncs, Busy
  <2> QED
    BY <2>2, <2>4 DEF McpInv
<1> QED
  BY <1>1, <1>2

LEMMA AtMostOneProcess ==
    ASSUME McpInv, NEW s \in Servers
    PROVE  Cardinality({i \in DOMAIN live : live[i].server = s}) <= 1
<1> DEFINE its == {i \in DOMAIN live : live[i].server = s}
<1>1. \A i, k \in its : i = k
  BY DEF McpInv, OneOfEach
<1>2. CASE its = {}
  BY <1>2, FS_EmptySet
<1>3. ASSUME NEW i \in its PROVE Cardinality(its) <= 1
  <2>1. its = {i}
    BY <1>1, <1>3
  <2>2. Cardinality({i}) = 1
    BY FS_Singleton
  <2> HIDE DEF its
  <2> QED
    BY <2>1, <2>2
<1> QED
  BY <1>2, <1>3

LEMMA InvGivesServers == McpInv => ServersHold
<1> SUFFICES ASSUME McpInv PROVE ServersHold
  OBVIOUS
<1>1. RegistryMatchesServers
  BY DEF McpInv, NamesAreCanonical, RegistryMatchesServers
<1>2. ServersMatchSnapshot
  <2> SUFFICES ASSUME NobodySyncs, NEW s \in Servers
               PROVE  Launched(s) \subseteq {lastWanted[s]} \ {Absent}
    BY AtMostOneProcess DEF ServersMatchSnapshot
  <2>1. \A i \in DOMAIN live : live[i].version = lastWanted[live[i].server]
    BY DEF McpInv, LiveAsWanted, NobodySyncs
  <2>2. \A i \in DOMAIN live : live[i].version \in Versions
    BY ProcessTypes DEF McpInv, McpTypes
  <2> QED
    BY <2>1, <2>2, McpAssumption DEF Launched
<1> QED
  BY <1>1, <1>2 DEF ServersHold

\* The MCP servers (tools/mcp.py): whatever turns sync at once and whatever servers
\* die or fail to start and stop, between syncs every server that runs is configured,
\* with the version of the last sync, and runs once, and a name calls the first server
\* that has it.
THEOREM ServersAreAsConfigured == McpSpec => []ServersHold
<1>1. McpInv /\ [McpNext]_mcpVars => McpInv'
  BY NextHolds
<1> QED
  BY <1>1, InitHolds, InvGivesServers, PTL DEF McpSpec
=============================================================================

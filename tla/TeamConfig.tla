------------------------------ MODULE TeamConfig ------------------------------
(***************************************************************************)
(* The registered models of config.json (configs/, serve/config_api.py)    *)
(* and the bots that refer to them (bots/registry.py, bots/settings.py):   *)
(* two stores that writers of several threads and processes change, each   *)
(* under a lock of its own.  A model coordination lock around the writers  *)
(* keeps a model registered while a bot is set to it.                      *)
(*                                                                         *)
(* A writer is a request or a tool call.  It goes through its locks in the *)
(* order coordination lock, config file or bot lock, gives up when it      *)
(* cannot have one for five seconds, and may die anywhere.                 *)
(***************************************************************************)
EXTENDS Naturals, FiniteSets

CONSTANTS
    Writers,
    TeamBots,        \* the child bots that may exist
    Models,
    NoModel,     \* no settings file, or a card without a model
    Inherit,     \* the model id "default"
    NoWriter,
    MaxWrites    \* bound: writers that ever begin

ASSUME TeamConfigAssumption ==
    /\ NoModel \notin Models /\ Inherit \notin Models /\ NoModel # Inherit
    /\ "none" \notin Models /\ "plain" \notin Models
    /\ NoWriter \notin Writers /\ MaxWrites \in Nat

VARIABLES
    config,      \* config.json: the registered models and the default one
    coordLock,   \* config_models.lock
    botLock,     \* bots/<id>.lock
    settings,    \* settings[b]: the model of settings.json
    card,        \* card[b]: "none", "plain", or the model of a legacy card
    folder,      \* the bot directories
    op,          \* op[w]: what the writer does, and what it read
    begun,
    unlisted,    \* history: defaults that were not registered
    bared        \* history: bots whose legacy model counts again, because a
                 \* delete that has not ended took the settings before the card,
                 \* until a checked model is written to their settings

confVars == <<config, unlisted>>
botVars == <<settings, card, folder, bared>>
teamVars == <<confVars, botVars, coordLock, botLock, op, begun>>

NoOp == [kind |-> "none", step |-> "idle"]
\* The operations that may change a model, and take the coordination lock; a
\* card edit that names a model (bot_edit_card) goes the way of the settings.
Coordinated == {"post", "settings", "create"}

TeamInit ==
    /\ config \in [models : SUBSET Models, default : Models]
    /\ coordLock = NoWriter
    /\ botLock = [b \in TeamBots |-> NoWriter]
    /\ \E live \in SUBSET TeamBots :
        /\ folder = live
        /\ card \in [TeamBots -> {"none", "plain"} \cup config.models]
        /\ \A b \in TeamBots : card[b] = "none" <=> b \notin live
        /\ settings = [b \in TeamBots |-> IF card[b] = "plain" THEN Inherit ELSE NoModel]
    /\ op = [w \in Writers |-> NoOp]
    /\ begun = 0
    /\ unlisted = {config.default} \ config.models
    /\ bared = {}

-----------------------------------------------------------------------------
(* Reading.                                                                *)

\* _hydrate: the settings win over a model that a legacy card still has.
Explicit(b) == IF settings[b] # NoModel THEN settings[b]
               ELSE IF card[b] \in Models THEN card[b] ELSE Inherit
Valid(b) == b \in folder /\ card[b] # "none"

\* check_model_against_config: the default may be unregistered.
Known(m) == m \in {Inherit, config.default} \cup config.models

\* _model_references: one unreadable bot blocks, and so does a reference.
InventoryReadable == \A b \in folder : Valid(b)
Referenced == {Explicit(b) : b \in folder}

-----------------------------------------------------------------------------
(* Beginning, locks and dying.                                             *)

\* A request; the conditional POST comes with the config that its client saw.
Begin(w, kind, b, m) ==
    /\ op[w] = NoOp
    /\ begun < MaxWrites
    /\ begun' = begun + 1
    /\ op' = [op EXCEPT ![w] =
                [kind |-> kind, bot |-> b, model |-> m, base |-> config, next |-> config,
                 step |-> IF kind \in Coordinated THEN "coordinate" ELSE "lock"]]
    /\ UNCHANGED <<confVars, botVars, coordLock, botLock>>

At(w, step) == op[w].step = step
Moved(w, step) == op' = [op EXCEPT ![w].step = step]

Unlocked(w) == /\ coordLock' = IF coordLock = w THEN NoWriter ELSE coordLock
               /\ botLock' = [b \in TeamBots |-> IF botLock[b] = w THEN NoWriter
                                                               ELSE botLock[b]]

\* Refused, out of patience with a lock, dead, or done: its locks are free.
Leaves(w) ==
    /\ op[w] # NoOp
    /\ op' = [op EXCEPT ![w] = NoOp]
    /\ Unlocked(w)
    /\ UNCHANGED <<confVars, botVars, begun>>

TakeCoordination(w) ==
    /\ At(w, "coordinate") /\ coordLock = NoWriter
    /\ coordLock' = w
    /\ Moved(w, "check")
    /\ UNCHANGED <<confVars, botVars, botLock, begun>>

-----------------------------------------------------------------------------
(* POST /api/config.                                                       *)

\* MUTANT of Allowed: the bots that refer to the model are not looked at.
AllowedUnread(w, new) ==
    /\ op[w].model = Inherit \/ op[w].base = config
    /\ config.default \notin config.models \ new.models
\* The verdict on the new set of models and default, with the config loaded
\* under the lock: the revision that the client saw, then the bots that refer to
\* a model that goes, then the registered default.
Allowed(w, new) ==
    LET removed == config.models \ new.models
    IN /\ op[w].model = Inherit \/ op[w].base = config
       /\ removed # {} => InventoryReadable /\ removed \cap Referenced = {}
       /\ config.default \notin removed

CheckPost(w, new) ==
    /\ At(w, "check") /\ op[w].kind = "post"
    /\ Allowed(w, new)
    /\ op' = [op EXCEPT ![w].step = "save", ![w].next = new]
    /\ UNCHANGED <<confVars, botVars, coordLock, botLock, begun>>

\* save: auth.json first, then config.json replaced in one piece.
SaveConfig(w) ==
    /\ At(w, "save")
    /\ config' = op[w].next
    /\ unlisted' = unlisted \cup ({config'.default} \ config'.models)
    /\ op' = [op EXCEPT ![w] = NoOp]
    /\ Unlocked(w)
    /\ UNCHANGED <<botVars, begun>>

-----------------------------------------------------------------------------
(* The bots.                                                               *)

\* update_bot_settings, bot_create and a bot_edit_card that names a model check
\* it against the config that is live under the coordination lock; create makes
\* the directory before it has the bot lock.
CheckModel(w) ==
    LET b == op[w].bot IN
    /\ At(w, "check") /\ op[w].kind # "post"
    /\ Known(op[w].model)
    /\ IF op[w].kind = "create" THEN card[b] = "none" /\ folder' = folder \cup {b}
                                ELSE Valid(b) /\ UNCHANGED folder
    /\ Moved(w, "lock")
    /\ UNCHANGED <<confVars, settings, card, bared, coordLock, botLock, begun>>

\* MUTANT of Free: the lock of the bot is not waited for.
FreeAlways(b) == TRUE
\* A bot lock that is free.
Free(b) == botLock[b] = NoWriter

\* Under the bot lock the bot is looked up again, and an operation that keeps the
\* model (pause, restore, an edit of the identity) takes the one it reads now.
Kept(w) == Explicit(op[w].bot)
StillThere(w) == op[w].kind # "create" => Valid(op[w].bot)

TakeBotLock(w) ==
    LET b == op[w].bot IN
    /\ At(w, "lock") /\ Free(b)
    /\ StillThere(w)
    /\ botLock' = [botLock EXCEPT ![b] = w]
    /\ op' = [op EXCEPT ![w].step = IF op[w].kind = "delete" THEN "rmtree" ELSE "settings",
                        ![w].model = IF op[w].kind = "pause" THEN Kept(w) ELSE @]
    /\ UNCHANGED <<confVars, botVars, coordLock, begun>>

\* _persist_settings_first: settings.json lands before the card, in a directory
\* that is there, ...
WriteSettings(w) ==
    /\ At(w, "settings") /\ op[w].bot \in folder
    /\ settings' = [settings EXCEPT ![op[w].bot] = op[w].model]
    /\ bared' = IF op[w].kind = "pause" THEN bared ELSE bared \ {op[w].bot}
    /\ Moved(w, "card")
    /\ UNCHANGED <<confVars, card, folder, coordLock, botLock, begun>>

\* ... and _write_card or _strip_legacy_model leaves a card without a model.
WriteCard(w) ==
    /\ At(w, "card")
    /\ card' = [card EXCEPT ![op[w].bot] = "plain"]
    /\ op' = [op EXCEPT ![w] = NoOp]
    /\ Unlocked(w)
    /\ UNCHANGED <<confVars, settings, folder, bared, begun>>

\* rmtree: the files go one by one, in any order, then the directory.
RemoveSettings(w) ==
    /\ At(w, "rmtree") /\ settings[op[w].bot] # NoModel
    /\ settings' = [settings EXCEPT ![op[w].bot] = NoModel]
    /\ bared' = IF card[op[w].bot] \in Models THEN bared \cup {op[w].bot} ELSE bared
    /\ UNCHANGED <<confVars, card, folder, coordLock, botLock, op, begun>>

RemoveCard(w) ==
    /\ At(w, "rmtree") /\ card[op[w].bot] # "none"
    /\ card' = [card EXCEPT ![op[w].bot] = "none"]
    /\ UNCHANGED <<confVars, settings, folder, bared, coordLock, botLock, op, begun>>

RemoveFolder(w) ==
    LET b == op[w].bot IN
    /\ At(w, "rmtree") /\ settings[b] = NoModel /\ card[b] = "none"
    /\ folder' = folder \ {b}
    /\ bared' = bared \ {b}
    /\ op' = [op EXCEPT ![w] = NoOp]
    /\ Unlocked(w)
    /\ UNCHANGED <<confVars, settings, card, begun>>

\* A POST is told by its model field whether it is conditional.
Requests ==
    {<<"post", b, m>> : b \in TeamBots, m \in {Inherit, NoModel}}
      \cup {<<k, b, m>> : k \in {"settings", "create"}, b \in TeamBots,
                          m \in Models \cup {Inherit}}
      \cup {<<k, b, NoModel>> : k \in {"pause", "delete"}, b \in TeamBots}

TeamNext ==
    \/ \E w \in Writers, r \in Requests : Begin(w, r[1], r[2], r[3])
    \/ \E w \in Writers :
        \/ Leaves(w) \/ TakeCoordination(w) \/ SaveConfig(w) \/ CheckModel(w)
        \/ TakeBotLock(w) \/ WriteSettings(w) \/ WriteCard(w)
        \/ RemoveSettings(w) \/ RemoveCard(w) \/ RemoveFolder(w)
        \/ \E models \in SUBSET Models, default \in Models :
              CheckPost(w, [models |-> models, default |-> default])

TeamSpec == TeamInit /\ [][TeamNext]_teamVars

-----------------------------------------------------------------------------
(* Properties.                                                             *)

\* A model that a bot is set to is registered, or was the default without being
\* registered, which the checks let pass.  (A bot whose delete is under way or
\* died may name a model that only its old card had, and a pause then writes
\* that model to its settings.)
RefsAreRegistered ==
    \A b \in folder \ bared : Explicit(b) \in {Inherit} \cup config.models \cup unlisted

\* A conditional POST replaces the config that its client saw, and no other.
ConditionalIsOnTop ==
    \A w \in Writers :
        At(w, "save") /\ op[w].model = NoModel => op[w].base = config

\* A file of a bot does not outlive its directory: a delete is not undone by an
\* operation that began before it.
GoneIsGone ==
    \A b \in TeamBots \ folder : settings[b] = NoModel /\ card[b] = "none"

\* The invariant that the two stores share (configs/coordination.py), with the
\* conditional writes and the deletion of bots, under any order of the writers
\* and with crashes between any two of their steps.
TeamConfigSafe ==
    /\ RefsAreRegistered
    /\ ConditionalIsOnTop
    /\ GoneIsGone

=============================================================================

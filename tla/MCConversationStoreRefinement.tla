-------------------- MODULE MCConversationStoreRefinement --------------------
(***************************************************************************)
(* Two instances of ConversationStoreRefinement for TLC, one beside the    *)
(* other: a reader that assembles page by page while two bots append, join *)
(* and leave and one compactor, purge and deletion remove rows under it;   *)
(* and two compactions of one conversation, with appends, purges and       *)
(* deletion between their snapshots and their final phases.                *)
(***************************************************************************)
EXTENDS ConversationStoreRefinement

CONSTANTS
  Second,   \* the bot and the compactor that only one of the instances has
  ReadSeq,  \* bound: the highest event seq while a reader assembles
  ReadTime  \* bound: the last tick while a reader assembles

VARIABLE scenario   \* the instance that this behaviour is of

OfReading ==
  /\ \A c \in Second \cap Compactors : ~compaction[c].busy
  /\ \A d \in Doors : event_high_water[d] <= ReadSeq
  /\ clock <= ReadTime
OfCompacting ==
  /\ \A r \in Readers : assembly[r] = NoAssembly("idle")
  /\ \A d \in Doors : participants[d] \cap Second = {}

ScenarioInit == Init /\ scenario \in {"reading", "compacting"}
ScenarioNext ==
  /\ Next
  /\ scenario' = scenario
  /\ IF scenario = "reading" THEN OfReading' ELSE OfCompacting'
ScenarioSpec == ScenarioInit /\ [][ScenarioNext]_<<vars, scenario>>
==============================================================================

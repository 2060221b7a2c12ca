--------------------------- MODULE ConversationLog ---------------------------
(***************************************************************************)
(* What the conversation store promises, without rows, generations,        *)
(* cursors or compaction: a conversation is the set of the messages that   *)
(* were posted to it and not forgotten on purpose, each newer than those   *)
(* before it; a bot that asks for a conversation gets, if anything, all of *)
(* it as it is at one moment at which the bot takes part in it.            *)
(***************************************************************************)
EXTENDS Naturals

CONSTANTS
  Doors,   \* the conversations
  Bots,    \* who takes part in them
  Readers, \* those that ask for a conversation, one at a time
  Ids      \* names of messages, numbers in the order of posting

VARIABLES
  lifecycle,  \* "unborn", "ready", "gone"
  members,    \* the bots that take part
  posted,     \* every message ever posted
  forgotten,  \* those purged, or deleted with their conversation
  fetched     \* per reader: the answer to its last question, if there is one

vars == <<lifecycle, members, posted, forgotten, fetched>>

Init ==
  /\ lifecycle = [d \in Doors |-> "unborn"]
  /\ members = [d \in Doors |-> {}]
  /\ posted = [d \in Doors |-> {}]
  /\ forgotten = [d \in Doors |-> {}]
  /\ fetched = [r \in Readers |-> {}]

Open(d, bots) ==
  /\ lifecycle[d] = "unborn"
  /\ lifecycle' = [lifecycle EXCEPT ![d] = "ready"]
  /\ members' = [members EXCEPT ![d] = bots]
  /\ UNCHANGED <<posted, forgotten, fetched>>

Invite(d, bot, bots) ==
  /\ lifecycle[d] = "ready"
  /\ bot \in members[d]
  /\ members' = [members EXCEPT ![d] = bots]
  /\ UNCHANGED <<lifecycle, posted, forgotten, fetched>>

Post(d, id) ==
  /\ lifecycle[d] = "ready"
  /\ \A earlier \in posted[d] : earlier < id
  /\ posted' = [posted EXCEPT ![d] = @ \cup {id}]
  /\ UNCHANGED <<lifecycle, members, forgotten, fetched>>

\* Retention, of all conversations at once.
Forget ==
  /\ forgotten' \in [Doors -> SUBSET Ids]
  /\ \A d \in Doors : /\ forgotten[d] \subseteq forgotten'[d]
                      /\ forgotten'[d] \subseteq posted[d]
  /\ UNCHANGED <<lifecycle, members, posted, fetched>>

Close(d) ==
  /\ lifecycle[d] = "ready"
  /\ lifecycle' = [lifecycle EXCEPT ![d] = "gone"]
  /\ forgotten' = [forgotten EXCEPT ![d] = posted[d]]
  /\ UNCHANGED <<members, posted, fetched>>

Ask(r) ==
  /\ fetched' = [fetched EXCEPT ![r] = {}]
  /\ UNCHANGED <<lifecycle, members, posted, forgotten>>

Fetch(r, d, bot) ==
  /\ lifecycle[d] = "ready"
  /\ bot \in members[d]
  /\ fetched' = [fetched EXCEPT ![r] = {<<d, posted[d] \ forgotten[d]>>}]
  /\ UNCHANGED <<lifecycle, members, posted, forgotten>>

Next ==
  \/ \E d \in Doors, bots \in SUBSET Bots : Open(d, bots)
  \/ \E d \in Doors, bot \in Bots, bots \in SUBSET Bots : Invite(d, bot, bots)
  \/ \E d \in Doors, id \in Ids : Post(d, id)
  \/ Forget
  \/ \E d \in Doors : Close(d)
  \/ \E r \in Readers : Ask(r)
  \/ \E r \in Readers, d \in Doors, bot \in Bots : Fetch(r, d, bot)

Spec == Init /\ [][Next]_vars
=============================================================================

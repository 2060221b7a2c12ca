--------------------- MODULE ConversationStoreRefinement ---------------------
(***************************************************************************)
(* The conversation store implements ConversationLog.  A message is named  *)
(* by the seq it was appended under; a caller of assemble_history has its  *)
(* answer when it is done, and the answer is what the collected rows stand *)
(* for.  Compaction, cursors, resyncs and the generation do not show.      *)
(***************************************************************************)
EXTENDS ConversationStore

\* What a caller of assemble_history was given.
Answer(a) ==
  IF a.state = "done"
  THEN {<<a.door, UNION {a.collected[i].covers : i \in DOMAIN a.collected}>>}
  ELSE {}

Log == INSTANCE ConversationLog WITH
         Ids <- 1 .. MaxSeq,
         members <- participants,
         posted <- appended,
         forgotten <- dropped,
         fetched <- [r \in Readers |-> Answer(assembly[r])]

\* Every behaviour of the store is one of the log: compaction shows nowhere,
\* and a history assembled over several transactions is one answer of one
\* moment, given to a bot that takes part in the conversation at that moment.
ImplementsLog == Log!Spec
=============================================================================

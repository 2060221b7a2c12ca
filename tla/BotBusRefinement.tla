-------------------------- MODULE BotBusRefinement --------------------------
(***************************************************************************)
(* The bus and the deliveries implement BotMail.  The letter that a bot    *)
(* has to answer is the text of its turn; turns of its own, rooms, rows    *)
(* and the bus log do not show.                                            *)
(***************************************************************************)
EXTENDS BotBus

Mail == INSTANCE BotMail WITH
          Ids <- Sends,
          letters <- [n \in DOMAIN mail |-> [sender |-> mail[n].sender, to |-> mail[n].to]],
          queue <- [b \in Bots |-> ToSet(box[b])],
          outcome <- stage,
          desk <- [b \in Bots |-> turn[b].text],
          seen <- {n \in Sends : handled[n].mailbox > 0}

\* Every behaviour of the bus is one of the mail: bot_send gets one answer or
\* one failure, whatever the recipient's turns, refusals, failures and stops
\* do meanwhile, and no mailbox gives out what was delivered or read.
ImplementsMail == Mail!Spec
=============================================================================

------------------------------- MODULE BotMail -------------------------------
(***************************************************************************)
(* What the mail between bots promises, without turns, rooms, traces or    *)
(* logs.  A letter joins the queue of the bot that it is for, and is given *)
(* to it to answer, one letter of a bot at a time, or refused.  A letter   *)
(* that was given has left the queue, and comes to one end: its sender is  *)
(* told an answer, or that there is none, and never anything else later.   *)
(* A bot may also read some of its queue in passing; what it has read it   *)
(* does not read again.                                                    *)
(***************************************************************************)
EXTENDS Naturals, Sequences

CONSTANTS
  Bots,
  Ids      \* the numbers of the letters, in the order of sending

VARIABLES
  letters,  \* every letter sent: from whom, to whom
  queue,    \* queue[b]: the letters that wait for b
  outcome,  \* outcome[n]: "unsent", "wait", "run", "answered", "failed"
  desk,     \* desk[b]: the letter that b has to answer, 0 for none
  seen      \* the letters that were read in passing

vars == <<letters, queue, outcome, desk, seen>>

Init ==
  /\ letters = <<>>
  /\ queue = [b \in Bots |-> {}]
  /\ outcome = [n \in Ids |-> "unsent"]
  /\ desk = [b \in Bots |-> 0]
  /\ seen = {}

Post(sender, to) ==
  LET n == Len(letters) + 1
  IN /\ n \in Ids /\ outcome[n] = "unsent"
     /\ sender # to
     /\ letters' = Append(letters, [sender |-> sender, to |-> to])
     /\ queue' = [queue EXCEPT ![to] = @ \cup {n}]
     /\ outcome' = [outcome EXCEPT ![n] = "wait"]
     /\ UNCHANGED <<desk, seen>>

\* A letter that is refused stays in the queue, where it can be read.
Refuse(n) ==
  /\ outcome[n] = "wait"
  /\ outcome' = [outcome EXCEPT ![n] = "failed"]
  /\ UNCHANGED <<letters, queue, desk, seen>>

Give(n) ==
  LET b == letters[n].to
  IN /\ outcome[n] = "wait"
     /\ desk[b] = 0
     /\ outcome' = [outcome EXCEPT ![n] = "run"]
     /\ desk' = [desk EXCEPT ![b] = n]
     /\ queue' = [queue EXCEPT ![b] = @ \ {n}]
     /\ UNCHANGED <<letters, seen>>

Settle(b, ending) ==
  LET n == desk[b]
  IN /\ n \in Ids /\ outcome[n] = "run"
     /\ outcome' = [outcome EXCEPT ![n] = ending]
     /\ desk' = [desk EXCEPT ![b] = 0]
     /\ UNCHANGED <<letters, queue, seen>>

Read(b, ns) ==
  /\ ns \subseteq queue[b] \ seen
  /\ queue' = [queue EXCEPT ![b] = @ \ ns]
  /\ seen' = seen \cup ns
  /\ UNCHANGED <<letters, outcome, desk>>

Empty(b) ==
  /\ queue' = [queue EXCEPT ![b] = {}]
  /\ UNCHANGED <<letters, outcome, desk, seen>>

Next ==
  \/ \E b \in Bots : Empty(b)
  \/ \E b, to \in Bots : Post(b, to)
  \/ \E n \in Ids : Refuse(n)
  \/ \E n \in DOMAIN letters : Give(n)
  \/ \E b \in Bots, ending \in {"answered", "failed"} : Settle(b, ending)
  \/ \E b \in Bots : \E ns \in SUBSET queue[b] : Read(b, ns)

Spec == Init /\ [][Next]_vars
=============================================================================

----------------------------- MODULE MCTurnClaims -----------------------------
(***************************************************************************)
(* Instances of TurnClaims for TLC.                                        *)
(***************************************************************************)
EXTENDS TurnClaims, TLC

\* The requests of one kind are interchangeable, and so are the doors.
Symmetric ==
  Permutations(Doors) \cup Permutations(Turns) \cup Permutations(Compactions)
  \cup Permutations(Cancels) \cup Permutations(Followers)

===============================================================================

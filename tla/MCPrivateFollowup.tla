--------------------------- MODULE MCPrivateFollowup ---------------------------
(***************************************************************************)
(* Instances of PrivateFollowup for TLC.                                   *)
(***************************************************************************)
EXTENDS PrivateFollowup, TLC

\* Neither the processes nor the texts are told apart by any definition.
Symmetric == Permutations(Procs) \cup Permutations(Texts)

================================================================================

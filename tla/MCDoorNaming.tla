----------------------------- MODULE MCDoorNaming -----------------------------
(***************************************************************************)
(* Instances of DoorNaming for TLC.                                        *)
(***************************************************************************)
EXTENDS DoorNaming, TLC

\* The requests and the titles typed are interchangeable.
Symmetric == Permutations(Editors) \cup Permutations(UserTitles)

===============================================================================

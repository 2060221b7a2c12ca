-------------------------- MODULE MCMemoryNotebook ---------------------------
(***************************************************************************)
(* An instance for TLC of the memories alone: a group of two bots and the  *)
(* DM of one of them.                                                      *)
(***************************************************************************)
EXTENDS MemoryNotebook

MCNoteWindows == {[dm |-> Team, members |-> {"p", "q"}], [dm |-> "p", members |-> {"p"}]}
=============================================================================

------------------------- MODULE MCWorkspaceTimeline -------------------------
(***************************************************************************)
(* An instance for TLC of the timeline whose two handles live in different *)
(* processes, such as the server and the command line.  The constructor    *)
(* scans the file and asks for its size without the lock, so an append of  *)
(* the other process may come between.                                     *)
(***************************************************************************)
EXTENDS WorkspaceTimeline

MCProcOf == [h \in Handles |-> h]
=============================================================================

--------------------------- MODULE MCStoreLifecycle ---------------------------
(***************************************************************************)
(* Instances of StoreLifecycle for TLC: processes that start together on   *)
(* one root.                                                               *)
(***************************************************************************)
EXTENDS StoreLifecycle

===============================================================================

--------------------------- MODULE MCEventManager ---------------------------
(* Model of EventManager for TLC. *)
EXTENDS EventManager, TLC
==============================================================================

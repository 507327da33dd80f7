---------------------------- MODULE MCEventLatch ----------------------------
(* Model of EventLatch for TLC. *)
EXTENDS EventLatch, TLC
==============================================================================

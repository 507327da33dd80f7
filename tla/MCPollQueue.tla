----------------------------- MODULE MCPollQueue -----------------------------
(* Model of PollQueue for TLC. *)
EXTENDS PollQueue, TLC
==============================================================================

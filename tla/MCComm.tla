------------------------------- MODULE MCComm -------------------------------
(***************************************************************************)
(* A thread that owns the Comm, connects and serves, and one that uses the *)
(* connections.                                                            *)
(***************************************************************************)
EXTENDS Comm

CONSTANTS owner, user

MCMay == owner :> {"client", "server", "data", "sync", "terminate"} @@
         user  :> {"data", "sync", "close", "closeSync"}
=============================================================================

------------------------------ MODULE MCPoller ------------------------------
(* Models of Poller for TLC: three descriptors, two masks, and the removals *)
(* user code makes in each of the runs.                                     *)
EXTENDS Poller, TLC

CONSTANTS h1, h2, h3, fd1, fd2, fd3, none, in

MCFdOf == (h1 :> fd1) @@ (h2 :> fd2) @@ (h3 :> fd3)

\* Callbacks remove their own pollable or a later one, as the handlers of
\* comm2.crk and pollqueue.crk do; user code removes what nx() has passed.
MaySelf == {<<"prep", "self">>, <<"nx", "self">>,
            <<"prep", "later">>, <<"nx", "later">>, <<"check", "later">>,
            <<"idle", "earlier">>, <<"idle", "later">>}
==============================================================================

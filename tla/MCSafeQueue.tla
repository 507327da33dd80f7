----------------------------- MODULE MCSafeQueue -----------------------------
(* Model of SafeQueue for TLC: three threads, each free to call any of the  *)
(* three operations, two element values.                                    *)
EXTENDS SafeQueue, TLC

Symmetry == Permutations(Thread) \cup Permutations(Elem)
==============================================================================

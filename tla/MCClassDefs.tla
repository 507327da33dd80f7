----------------------------- MODULE MCClassDefs -----------------------------
(* Instances of ClassDefs for TLC.                                         *)
EXTENDS ClassDefs

Symmetry == Permutations(Names)
=============================================================================

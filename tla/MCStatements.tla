---------------------------- MODULE MCStatements ----------------------------
(* Instances of Statements for TLC.                                        *)
EXTENDS Statements

CONSTANTS base, derived, other

\* One class derived from another, and one that is not.
MCAncestors == [x \in ExTypes |-> {x} \union IF x = derived THEN {base} \cap ExTypes ELSE {}]
=============================================================================

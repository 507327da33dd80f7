--------------------------- MODULE MCModuleLoader ---------------------------
(* Models of ModuleLoader for TLC: three modules and the texts their        *)
(* sources may have.                                                        *)
EXTENDS ModuleLoader, TLC

CONSTANTS a, b, c,      \* the modules
          i1, i2, i3    \* interfaces

\* Any module imports nothing, a, c, or both a and b; a module that imports
\* nothing has one of two interfaces.
FlatTexts ==
  [imports : {{}, {a}, {c}, {a, b}}, iface : {i1}, base : {NoModule}]
    \cup [imports : {{}}, iface : {i2}, base : {NoModule}]

\* The class of a module may derive from the class of the module imported.
DerivedTexts ==
  [imports : {{}}, iface : {i1, i2}, base : {NoModule}]
    \cup {[imports |-> {m}, iface |-> i3, base |-> m] : m \in {a, b}}
=============================================================================

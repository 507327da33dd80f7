--------------------------- MODULE MCModuleCache ---------------------------
EXTENDS ModuleCache, TLC

\* Processes and versions are interchangeable (used by safety runs only).
Symmetry == Permutations(Procs) \cup Permutations(Versions)
=============================================================================

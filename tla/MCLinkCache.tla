---------------------------- MODULE MCLinkCache ----------------------------
EXTENDS LinkCache, TLC

\* Processes are alike, and so are notes when every folder is one of them.
Symmetry == Permutations(Procs) \cup Permutations(Notes)

=============================================================================

---------------------------- MODULE MCKanvaBin ----------------------------
EXTENDS KanvaBin
\* Threads that may not stall are interchangeable.
ThreadSymmetry == Permutations(Threads \ Stalled)
=============================================================================

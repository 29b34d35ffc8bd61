---- MODULE MCFreezeList ----
EXTENDS FreezeList, TLC

ThreadSymmetry == Permutations(Thread)
====

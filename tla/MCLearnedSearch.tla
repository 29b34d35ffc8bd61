---- MODULE MCLearnedSearch ----
EXTENDS LearnedSearch

\* The definition by divisors is the usual one.
ASSUME PowersAreShifts == \A s \in 1 .. 64 : PowerOfTwo(s) <=> \E k \in 0 .. 6 : s = 2 ^ k
====

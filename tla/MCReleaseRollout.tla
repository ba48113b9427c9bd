--------------------------- MODULE MCReleaseRollout ---------------------------
EXTENDS ReleaseRollout, TLC

CONSTANTS t1, t2

\* Ticks are interchangeable (safety runs only).
TickSymmetry == Permutations(Ticks)
===============================================================================

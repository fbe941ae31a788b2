--------------------------- MODULE MCTimerRegistry ---------------------------
EXTENDS TimerRegistry, TLC

Symmetry == Permutations(Threads)

=============================================================================

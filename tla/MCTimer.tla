------------------------------- MODULE MCTimer -------------------------------
EXTENDS Timer, TLC

Symmetry == Permutations(Ids)

=============================================================================

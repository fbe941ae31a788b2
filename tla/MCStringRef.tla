---------------------------- MODULE MCStringRef ----------------------------
EXTENDS StringRef, TLC

Symmetry ==
  Permutations(Threads) \cup Permutations(Handles) \cup Permutations(Buffers)

=============================================================================

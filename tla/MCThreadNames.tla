--------------------------- MODULE MCThreadNames ---------------------------
EXTENDS ThreadNames, TLC

CONSTANTS short, long, prefix

MCContents == {Empty, short, long, prefix, DefName}
MCCut == [n \in MCContents |-> IF n = long THEN prefix ELSE n]

Defined == ~ undefined

Symmetry == Permutations(Threads) \cup Permutations(Buffers)

=============================================================================

----------------------------- MODULE MCLogRecords -----------------------------
(* Two threads that share a logger with a threshold and one without.        *)
EXTENDS LogRecords, TLC

CONSTANTS t1, t2, coarse, fine, here, there

MCThreads == {t1, t2}
MCLoggers == {coarse, fine}
MCLocations == {here, there}
MCLevels == {0, 1}
MCThreshold == (coarse :> 1) @@ (fine :> 0)

Symmetry == Permutations(MCThreads) \cup Permutations(MCLocations)
==============================================================================

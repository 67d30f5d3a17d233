--------------------------- MODULE MCWakeFlagTso ---------------------------
EXTENDS WakeFlagTso, TLC

Perms == Permutations(Nodes) \cup Permutations(Threads)
=============================================================================

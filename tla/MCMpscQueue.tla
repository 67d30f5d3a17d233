---------------------------- MODULE MCMpscQueue ----------------------------
EXTENDS MpscQueueInv, TLC

Perms == Permutations(Nodes) \cup Permutations(Producers)
=============================================================================

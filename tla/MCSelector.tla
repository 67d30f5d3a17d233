----------------------------- MODULE MCSelector -----------------------------
EXTENDS Selector, TLC

Perms == Permutations(Nodes) \cup Permutations(Threads)
=============================================================================

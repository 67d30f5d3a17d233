--------------------------- MODULE MCNodeLifetime ---------------------------
EXTENDS NodeLifetimeInv
=============================================================================

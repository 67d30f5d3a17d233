---------------------------- MODULE MCStreamMap ----------------------------
EXTENDS StreamMap
=============================================================================

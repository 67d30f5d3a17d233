---------------------------- MODULE MCCustomTask ----------------------------
EXTENDS CustomTask
=============================================================================

----------------------------- MODULE MCTaskList -----------------------------
EXTENDS TaskList
=============================================================================

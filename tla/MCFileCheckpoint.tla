------------------------- MODULE MCFileCheckpoint -------------------------
EXTENDS FileCheckpoint
=============================================================================

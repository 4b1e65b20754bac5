-------------------------- MODULE MCStagedTraining --------------------------
EXTENDS StagedTraining
=============================================================================

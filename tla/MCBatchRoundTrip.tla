-------------------------- MODULE MCBatchRoundTrip --------------------------
(* Instance of BatchRoundTrip for TLC. *)
EXTENDS BatchRoundTrip
MCLengths == 1 .. 3
MCGroups  == 1 .. 3
MCBudgets == {0, 4, 5}
=============================================================================

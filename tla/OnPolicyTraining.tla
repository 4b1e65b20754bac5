-------------------------- MODULE OnPolicyTraining --------------------------
(***************************************************************************)
(* What synchronous reinforcement learning promises: every update of the   *)
(* policy uses samples that the policy drew as it was before that update.  *)
(* Nothing is said of where the policy is sampled or how its weights get   *)
(* there.                                                                  *)
(***************************************************************************)
EXTENDS Integers

CONSTANTS Starts,  \* versions a run may begin with (0, or a checkpoint's)
          Total    \* num_training_steps

VARIABLES version, \* updates applied to the policy
          batch    \* the versions the samples of the current step came from

Init == version \in Starts /\ batch = {}

Sample ==
  /\ version < Total
  /\ batch' = batch \cup {version}
  /\ UNCHANGED version

Update ==
  /\ batch = {version}
  /\ version' = version + 1
  /\ batch' = {}

Spec == Init /\ [][Sample \/ Update]_<<version, batch>>
=============================================================================

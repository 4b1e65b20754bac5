-------------------------- MODULE LockstepTraining --------------------------
(***************************************************************************)
(* What data-parallel distillation promises: every rank trains on the      *)
(* batches of steps Start, Start+1, ..., Total-1, each exactly once and in *)
(* order, and no rank starts a step before every rank has finished the     *)
(* step before it.  Nothing is said of how the batches reach the ranks.    *)
(***************************************************************************)
EXTENDS Integers, Sequences

CONSTANTS WorldSize,  \* number of ranks
          Start,      \* global_step the run starts or resumes at
          Total       \* num_training_steps

VARIABLE trained      \* trained[r]: the batches rank r has trained on, in order

Ranks == 0 .. (WorldSize - 1)

Init == trained = [r \in Ranks |-> <<>>]

\* Rank r trains on the next batch; its peers are at the same step or one ahead.
Train(r) ==
  /\ Start + Len(trained[r]) < Total
  /\ \A q \in Ranks : Len(trained[q]) \in {Len(trained[r]), Len(trained[r]) + 1}
  /\ trained' = [trained EXCEPT ![r] = Append(@, Start + Len(@))]

Next == \E r \in Ranks : Train(r)

SafeSpec == Init /\ [][Next]_trained
Spec == SafeSpec /\ WF_trained(Next)
=============================================================================

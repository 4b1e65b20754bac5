--------------------------- MODULE StagedTraining ---------------------------
(***************************************************************************)
(* AsyncRLTrainer.train, the staged pipeline of trainer/async_trainer.py:  *)
(* every micro step rank 0 generates with the ATOM engine and broadcasts   *)
(* the batch, all ranks train on it, and after sync_every updates all      *)
(* ranks push a weight snapshot to one shared directory                    *)
(* (trainer/weight_sync.py).                                               *)
(*                                                                         *)
(* Ranks are separate processes that only meet in collectives.  A          *)
(* collective completes when every rank is in one and all are in the same  *)
(* one; ranks that meet in different ones are stuck.                       *)
(***************************************************************************)
EXTENDS Integers, FiniteSets

CONSTANTS
  WorldSize,
  Total,             \* num_training_steps
  SyncEvery,         \* trigger_parameter_sync_step
  RequireBatches,    \* prompts generated per micro step
  KeepVersions,      \* snapshots FilesystemWeightSync keeps
  Leftovers,         \* versions that earlier runs left in its directory
  UseRolloutLogProbs,\* log-probs of the actor are computed with each sample
  SaveEvery,         \* save_steps, in sync steps; 0 without a checkpoint_dir
  GenerateMayFail,   \* wake or generate may raise
  PushMayFail,       \* writing a snapshot may raise
  RemoveMayFail      \* rmtree may leave a version directory behind

ASSUME StagedAssumption ==
  /\ {WorldSize, Total, SyncEvery, RequireBatches, KeepVersions} \subseteq Nat \ {0}
  /\ SaveEvery \in Nat
  /\ Leftovers \subseteq Nat /\ IsFiniteSet(Leftovers)
  /\ {UseRolloutLogProbs, GenerateMayFail, PushMayFail, RemoveMayFail} \subseteq BOOLEAN

Ranks == 0 .. (WorldSize - 1)
MicroSteps == Total * SyncEvery
None == "none"

VARIABLES
  pc, step,      \* of each rank
  entered,       \* entered[r]: the collective rank r is in, or None
  prompt,        \* prompts rank 0 has gone through in this micro step
  samples,       \* of them, those that gave a sample
  batch,         \* batch[r]: size of the batch rank r trains on
  localUpdates, paramVersion, \* of each rank
  optimizerOn,   \* where rank 0's optimizer state is: "gpu" or "cpu"
  snapshots      \* the version directories on disk

vars == <<pc, step, entered, prompt, samples, batch, localUpdates, paramVersion,
          optimizerOn, snapshots>>

\* Versions count from 0 in every run, in a directory that is not emptied.
Init ==
  /\ pc = [r \in Ranks |-> "begin"]
  /\ step = [r \in Ranks |-> 0]
  /\ entered = [r \in Ranks |-> None]
  /\ prompt = 0 /\ samples = 0
  /\ batch = [r \in Ranks |-> 0]
  /\ localUpdates = [r \in Ranks |-> 0]
  /\ paramVersion = [r \in Ranks |-> 0]
  /\ optimizerOn = "gpu"
  /\ snapshots = Leftovers

\* Rank r enters a collective and goes on at place once it completes.
Enter(r, collective, place) ==
  /\ entered' = [entered EXCEPT ![r] = collective]
  /\ pc' = [pc EXCEPT ![r] = place]
Goto(r, place) == pc' = [pc EXCEPT ![r] = place] /\ UNCHANGED entered
Runs(r, place) == pc[r] = place /\ entered[r] = None

\* torch.distributed: everybody is in, and in the same collective.
Complete ==
  /\ \E c \in {entered[r] : r \in Ranks} \ {None} : \A r \in Ranks : entered[r] = c
  /\ entered' = [r \in Ranks |-> None]
  /\ UNCHANGED <<pc, step, prompt, samples, batch, localUpdates, paramVersion, optimizerOn, snapshots>>

\* The callbacks rank 0 runs before a sync step only log.
BeginStep(r) ==
  /\ Runs(r, "begin")
  /\ step[r] < MicroSteps
  /\ Enter(r, "barrier", IF r = 0 THEN "offload" ELSE "broadcast")
  /\ UNCHANGED <<step, prompt, samples, batch, localUpdates, paramVersion, optimizerOn, snapshots>>

\* _generate_rollout_batch on rank 0.
Offload ==
  /\ Runs(0, "offload")
  /\ optimizerOn' = IF step[0] > 0 THEN "cpu" ELSE optimizerOn
  /\ prompt' = 0 /\ samples' = 0
  /\ Goto(0, "generate")
  /\ UNCHANGED <<step, batch, localUpdates, paramVersion, snapshots>>

\* One prompt: wake, generate, sleep and, with use_rollout_log_probs, a forward
\* pass of the sharded actor, which gathers parameters from every rank.
GenerateSample ==
  /\ Runs(0, "generate")
  /\ prompt < RequireBatches
  /\ prompt' = prompt + 1
  /\ samples' = samples + 1
  /\ IF UseRolloutLogProbs THEN Enter(0, "allGather", "generate") ELSE Goto(0, "generate")
  /\ UNCHANGED <<step, batch, localUpdates, paramVersion, optimizerOn,
                 snapshots>>

\* The exception is logged and the prompt dropped.
GenerateFail ==
  /\ Runs(0, "generate")
  /\ prompt < RequireBatches
  /\ GenerateMayFail
  /\ prompt' = prompt + 1
  /\ UNCHANGED <<pc, entered, step, samples, batch, localUpdates, paramVersion, optimizerOn, snapshots>>

Reload ==
  /\ Runs(0, "generate")
  /\ prompt = RequireBatches
  /\ optimizerOn' = "gpu"
  /\ Goto(0, "broadcast")
  /\ UNCHANGED <<step, prompt, samples, batch, localUpdates, paramVersion,
                 snapshots>>

\* Mutant: rank 0 keeps an empty batch to itself.
MutBroadcastBatch(r) ==
  \/ /\ Runs(r, "broadcast")
     /\ r # 0 \/ samples > 0
     /\ Enter(r, "broadcastSize", "broadcastData")
     /\ UNCHANGED <<step, prompt, samples, batch, localUpdates, paramVersion, optimizerOn, snapshots>>
  \/ /\ Runs(r, "broadcast")
     /\ r = 0 /\ samples = 0
     /\ Goto(r, "begin")
     /\ step' = [step EXCEPT ![r] = @ + 1]
     /\ UNCHANGED <<prompt, samples, batch, localUpdates, paramVersion, optimizerOn, snapshots>>

\* _broadcast_batch: the size, then the bytes.
BroadcastBatch(r) ==
  /\ Runs(r, "broadcast")
  /\ Enter(r, "broadcastSize", "broadcastData")
  /\ UNCHANGED <<step, prompt, samples, batch, localUpdates, paramVersion, optimizerOn, snapshots>>

BroadcastData(r) ==
  /\ Runs(r, "broadcastData")
  /\ batch' = [batch EXCEPT ![r] = samples]
  /\ Enter(r, "broadcastData", "received")
  /\ UNCHANGED <<step, prompt, samples, localUpdates, paramVersion, optimizerOn, snapshots>>

\* An empty batch skips the rest of the micro step, callbacks included.
SkipEmpty(r) ==
  /\ Runs(r, "received")
  /\ batch[r] = 0
  /\ step' = [step EXCEPT ![r] = @ + 1]
  /\ Goto(r, "begin")
  /\ UNCHANGED <<prompt, samples, batch, localUpdates, paramVersion, optimizerOn, snapshots>>

\* Old log-probs: a forward pass of every chunk of the batch.
OldLogProbs(r) ==
  /\ Runs(r, "received")
  /\ batch[r] > 0
  /\ Enter(r, "allGather", "update")
  /\ UNCHANGED <<step, prompt, samples, batch, localUpdates, paramVersion, optimizerOn, snapshots>>

\* Advantages, mini-batches, gradient clipping and the optimizer step; every
\* rank has the whole batch, so a NaN loss is everybody's.
Update(r) ==
  /\ Runs(r, "update")
  /\ localUpdates' = [localUpdates EXCEPT ![r] = @ + 1]
  /\ Enter(r, "reduceScatter", "sync")
  /\ UNCHANGED <<step, prompt, samples, batch, paramVersion, optimizerOn,
                 snapshots>>

\* _trigger_param_sync: a new version every sync_every updates.
TriggerParamSync(r) ==
  /\ Runs(r, "sync")
  /\ IF localUpdates[r] >= SyncEvery
     THEN /\ paramVersion' = [paramVersion EXCEPT ![r] = @ + 1]
          /\ localUpdates' = [localUpdates EXCEPT ![r] = 0]
          /\ Goto(r, "push")
     ELSE /\ Goto(r, "metrics")
          /\ UNCHANGED <<paramVersion, localUpdates>>
  /\ UNCHANGED <<step, prompt, samples, batch, optimizerOn, snapshots>>

\* FilesystemWeightSync.push: every rank writes the same directory.
Push(r) ==
  /\ Runs(r, "push")
  /\ snapshots' = snapshots \cup {paramVersion[r]}
  /\ Goto(r, "prune")
  /\ UNCHANGED <<step, prompt, samples, batch, localUpdates, paramVersion, optimizerOn>>

\* Mutant: the exception of a push leaves train().
MutPushFail(r) ==
  /\ Runs(r, "push")
  /\ PushMayFail
  /\ Goto(r, "failed")
  /\ UNCHANGED <<step, prompt, samples, batch, localUpdates, paramVersion, optimizerOn, snapshots>>

\* An exception of a push is logged only; the directory may have been made.
PushFail(r) ==
  /\ Runs(r, "push")
  /\ PushMayFail
  /\ snapshots' \in {snapshots, snapshots \cup {paramVersion[r]}}
  /\ Goto(r, "metrics")
  /\ UNCHANGED <<step, prompt, samples, batch, localUpdates, paramVersion, optimizerOn>>

\* Mutant: the newest snapshots go first.
MutOutdated == {v \in snapshots : Cardinality({w \in snapshots : w < v}) >= KeepVersions}

\* _cleanup_old_versions: all but the KeepVersions highest.
Outdated == {v \in snapshots : Cardinality({w \in snapshots : w > v}) >= KeepVersions}
Prune(r) ==
  /\ Runs(r, "prune")
  /\ snapshots' = snapshots \ Outdated
  /\ Goto(r, "metrics")
  /\ UNCHANGED <<step, prompt, samples, batch, localUpdates, paramVersion, optimizerOn>>

\* rmtree(ignore_errors=True): what cannot be removed stays, nobody is told.
PruneFail(r) ==
  /\ Runs(r, "prune")
  /\ RemoveMayFail
  /\ \E left \in SUBSET Outdated : snapshots' = (snapshots \ Outdated) \cup left
  /\ Goto(r, "metrics")
  /\ UNCHANGED <<step, prompt, samples, batch, localUpdates, paramVersion, optimizerOn>>

ReduceMetrics(r) ==
  /\ Runs(r, "metrics")
  /\ Enter(r, "allReduce", "end")
  /\ UNCHANGED <<step, prompt, samples, batch, localUpdates, paramVersion, optimizerOn, snapshots>>

\* CheckpointCallback.on_step_end saves after every SaveEvery-th sync step.
SaveDue(r) ==
  /\ r = 0
  /\ SaveEvery > 0
  /\ (step[r] + 1) % (SyncEvery * SaveEvery) = 0

\* The callbacks run on rank 0 only; a save gathers the state of the sharded
\* model, one collective after the other (here: one).
EndStep(r) ==
  /\ Runs(r, "end")
  /\ step' = [step EXCEPT ![r] = @ + 1]
  /\ IF SaveDue(r) THEN Enter(r, "saveState", "begin") ELSE Goto(r, "begin")
  /\ UNCHANGED <<prompt, samples, batch, localUpdates, paramVersion, optimizerOn,
                 snapshots>>

Finish(r) ==
  /\ Runs(r, "begin")
  /\ step[r] = MicroSteps
  /\ Goto(r, "done")
  /\ UNCHANGED <<step, prompt, samples, batch, localUpdates, paramVersion, optimizerOn, snapshots>>

Rank(r) ==
  \/ BeginStep(r) \/ BroadcastBatch(r) \/ BroadcastData(r) \/ SkipEmpty(r) \/ OldLogProbs(r)
  \/ Update(r) \/ TriggerParamSync(r) \/ Push(r) \/ PushFail(r) \/ Prune(r)
  \/ PruneFail(r) \/ ReduceMetrics(r) \/ EndStep(r) \/ Finish(r)
Rank0 == Offload \/ GenerateSample \/ GenerateFail \/ Reload

Next == Complete \/ Rank0 \/ \E r \in Ranks : Rank(r)
Spec == Init /\ [][Next]_vars

\* Every rank keeps running and a complete collective finishes.
FairSpec ==
  Spec /\ WF_vars(Complete) /\ WF_vars(Rank0) /\ \A r \in Ranks : WF_vars(Rank(r))

-----------------------------------------------------------------------------
(* Properties *)

\* While rank 0 generates the other ranks wait for it: the ranks never meet in
\* different collectives (train: "Rank 0 runs the ATOM engine for generation
\* while other ranks wait, then all ranks participate in the FSDP2 training
\* step").
CollectivesPaired ==
  (\A r \in Ranks : entered[r] # None) => Cardinality({entered[r] : r \in Ranks}) = 1

\* Fewer than KeepVersions leftovers of earlier runs are newer than version v.
Covered(v) == Cardinality({w \in Leftovers : w > v}) < KeepVersions

\* A rank that ends a push (_cleanup_old_versions) finds the version it pushed on
\* disk and leaves it there, whatever the other ranks pushed and pruned meanwhile,
\* unless KeepVersions leftovers of earlier runs count as newer.  No more than
\* KeepVersions stay when every removal succeeds, and whether it does or not no
\* directory goes before KeepVersions newer ones are there.
SnapshotKept ==
  [][/\ \A r \in Ranks : (Prune(r) \/ PruneFail(r)) /\ Covered(paramVersion[r])
                            => paramVersion[r] \in snapshots'
     /\ \A r \in Ranks : Prune(r) => Cardinality(snapshots') <= KeepVersions
     /\ \A v \in snapshots \ snapshots' :
          Cardinality({w \in snapshots' : w > v}) >= KeepVersions]_vars

\* No failure of the engine or of the shared directory stops the run.
AllFinish == <>(\A r \in Ranks : pc[r] = "done")
=============================================================================

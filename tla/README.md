# Lumen-RL: a TLA+ verification project

Lumen-RL trains language models with reinforcement learning and distillation. Most of
its code is tensor computation. What can go wrong beyond the numbers is the machinery
around them: threads that feed teacher data to every rank, ranks that must meet in the
same collectives, processes that hand weights to each other through shared memory or a
broadcast, servers that sleep and wake around every training step, checkpoints that must
survive a crash. This project models that machinery, checks it with TLC on small
instances and proves most of its safety properties with TLAPS for every value of the
parameters.

Paths below are relative to `src/lumenrl/`. `PROJECT.json` maps every definition to its
lines, and lists the runs, the mutants, the hazards, the findings and the theorems.

## 1. Inventory

| Component | State | Operations | Interacts through | What is hard | Correct means |
|---|---|---|---|---|---|
| Teacher-data pipeline (`trainer/spec_distill_trainer.py`) | four queues, `slot_free` events, slot directories in `/dev/shm` with `READY_{step}` files, futures, collectives | prefetch, write a slot, poll and load a slot, fetch, barrier, release, train, stop | queues inside a process, files between processes, NCCL collectives | 2 threads + main + executor on rank 0, 1 + main + executor elsewhere; timeouts; errors that are only logged; leftovers of a killed run | each rank trains each step on its own batch, in lockstep; no slot is overwritten unread; the job ends |
| Bucketed IPC weight transfer (`engine/inference/bucketed_weight_transfer.py`) | shared buffer in one or two slots, ZMQ request/reply, bucket metadata, version | handshake, pack, flush, direct send, receive, load, acknowledge | shared buffer + REQ/REP, joined by `_sync_weights_ipc` | asynchronous copies, early acknowledgement, exceptions on either side | every weight loaded once, whole, in order, of the expected version; the controller always gets an answer |
| RDMA weight broadcast (`engine/inference/rdma_weight_transfer.py`) | process group, bucket, staged and loaded tensors | pack, broadcast header, metadata and payload, load, verify, join, clean up | collectives, joined by `_sync_weights_rdma` | one member raises while the others are inside a broadcast | members agree on every broadcast; a committed synchronisation reached every worker; nobody stays inside |
| RL loop under the Ray controller (`trainer/rl_trainer.py`, `engine/inference/vllm_ray_server.py`, `vllm_http_engine.py`) | step, `_sleeping`, per replica: weights, mapped memory pools, prefix cache, pending calls | resume, generate, filter, drain, sleep, update, wake, load, validate, clean up | Ray calls joined by `ray.get` | `ray.get` raises at the first failure while other calls still run; four weight backends with different orders | samples come from the current policy; generation only on a ready replica; training only while replicas sleep |
| One data-parallel training step (`trainer/rl_trainer.py`, `workers/actor_worker.py`, `engine/training/fsdp_engine.py`) | rows per rank, passes, log-probs, token count, rows in the gradient | shard, log-probs, advantages, balance, mini-batches, padding, forward, backward, optimizer, metrics | FSDP collectives | every local decision (chunks, NaN, empty shards, metric keys) changes the collectives a rank enters | ranks meet in the same collectives; each row once in the gradient; the loss divided by the tokens in it |
| Staged training (`trainer/async_trainer.py`, `weight_sync.py`) | step, batch, version, optimizer location, snapshot directories | generate on rank 0, broadcast, update, push and prune snapshots, reduce, callbacks | collectives, a shared directory | work on rank 0 only; several ranks prune one directory | ranks meet in the same collectives; snapshots last; the run ends |
| Ray-controller checkpoints (`trainer/callbacks.py`, `workers/actor_worker.py`, `utils/checkpoint.py`, `trainer/rl_trainer.py`) | directories and files per node, tracker file, step | prune, write in phases, track, find latest, load | Ray calls; node-local file systems | a crash anywhere; two prunings on different nodes; partial files | what the tracker names is complete; little is redone; the disk does not fill up |
| File checkpoints of the other trainers | one `checkpoint_N.pt` per save, scheduler epoch | prune, save, load, restore the schedule | file system | written in place; resume off by one; directory of another run | the newest checkpoint survives; little is redone; the schedule stays near the updates |
| Packing, length balancing, dispatch (`engine/training/packing.py`, `utils/seqlen_balancing.py`, `core/protocol.py`, `controller/dispatch.py`) | none | pure functions | calls | budgets, remainders, off-by-one shifts, borders computed in two places | every row in exactly one place, every log-prob in its column |
| Engines, models, algorithms, rewards, data, configuration, plugins | tensors, configuration | computation | calls | numerical | outside TLA+ |

`PROJECT.json` lists all of them with their files, those left out too, with the reason.

## 2. Modules

| Module | Models |
|---|---|
| `LockstepTraining` | abstract: what data-parallel distillation promises (each batch once, in order, on every rank, no rank a step ahead of another by more than one) |
| `ShmPipeline` | the teacher-data pipeline, every thread of every rank; implements `LockstepTraining` |
| `BucketedTransfer` | one weight transfer between a sender and a receiver, and the controller's join |
| `RdmaBroadcast` | weight synchronisations over a persistent group: sender, receivers, controller |
| `OnPolicyTraining` | abstract: every update uses samples of the policy it starts from |
| `RayTraining` | the controller's loop and the rollout replicas; implements `OnPolicyTraining` |
| `Batching` | the pure functions on batches: split, dispatch, chunk, balance, pack |
| `BatchRoundTrip` | a generator of batches, and what `Batching` promises about each |
| `DataParallelStep` | one training step of all ranks, under torchrun and under Ray; built on `Batching` |
| `StagedTraining` | the staged pipeline of `AsyncRLTrainer` |
| `RayCheckpoint` | saving, pruning, crashing and resuming under the Ray controller |
| `FileCheckpoint` | the one-file checkpoints of the other trainers, with the learning-rate schedule |
| `…Proofs` | the theorems about the module they are named after, with the inductive invariants |
| `NumberLemmas` | facts about numbers the proofs share: least and greatest elements, multiples, running sums |
| `MC…` | the instances TLC checks; constants are set in the `.cfg` files |

How they compose: `DataParallelStep` extends `Batching`, so the operators the batching run
checks are the ones the step uses. `RayTraining` takes one weight transfer as a step that
leaves a replica with the sender's weights or raises and leaves a mixture: that is
`LoadsPrefix`, `DoneMeansLoaded` and `AlwaysSettles` of `BucketedTransfer` and
`CommittedEverywhere` and `AllReleased` of `RdmaBroadcast`. Its update is what
`DataParallelStep` details, and its step counter is what `RayCheckpoint` saves.

Operators named `Mut…` are wrong versions of the definition that follows them. The
specifications do not use them; each shows that a property notices a plausible slip.

### ShmPipeline

Rank 0 runs a `_TeacherPrefetcher` (actions `Prefetch*`) and a `_ShmWriterThread`
(`Writer*`); every rank runs a `_ShmLoaderThread` (`Loader*`), the main thread of
`train()` (`Main*`) and an executor thread that resolves the future for the next batch
(`FutureRun`). One action is what a thread does between two points where another thread
or process can see a difference:

* `_loop` of the writer: take an item and a prefetch result (`WriterGet`), put into
  `rank0_buffer` (`WriterBuffer`, blocks when full), claim the slot and start overwriting
  it (`WriterClaim`), or give up after `_SHM_TIMEOUT` (`WriterTimeout`), finish and create
  the sentinel (`WriterPublish`), or raise half way (`WriterFail`);
* the loader: see the sentinel and open the slot (`LoaderOpen`), finish the copy
  (`LoaderCopy`; torn if the slot changed meanwhile) or raise (`LoaderFail`), or time out
  (`LoaderTimeout`), hand the result on (`LoaderPut`);
* `train()`: clear old sentinels and enter the barrier (`MainBegin`), prime (`MainPrime`),
  take the data and enter the barrier (`MainFetch`), release, submit the next step and ask
  for the next batch (`MainRelease`), train and enter the metrics all-reduce (`MainTrain`),
  end the step (`MainStepEnd`), stop the threads (`MainStop`), die of an exception
  (`MainRaise`).

A batch is the number of the step it belongs to; bytes of another run or a mixture are
`Torn`. A collective is a counter per rank: the n-th returns when all ranks entered their
n-th. A slot holds at most one sentinel because `_publish` removes all others first;
initially any slot may hold a sentinel and bytes of an earlier run. `TeacherMayFail`,
`ShmMayFail` and `TimeoutsMayFire` turn the failures on.

`numAccum` is the number of micro-batches of each step, chosen initially from `Accums`: the
code derives it from the length of the sequences. They are dealt out round robin
(`MyMicroBatches`); a sharded draft model gathers parameters in every pass, a replicated one
sums gradients once (`Passes`). Ranks with the same number of passes get through the loop
together; if the numbers differ (`~Paired`), no rank gets through, and the timeout of the
process group (`NCCL_TIMEOUT`, `trainer/main.py:48`) ends it (`GroupTimeout`). A timeout is modelled as a choice
that is possible whenever the awaited condition is false, so every length of delay is
covered.

### BucketedTransfer

A weight has a size in bytes and an item size; the buffer is a function from addresses to
the name whose byte is there. A copy enqueued by the sender is `Torn` until `_sync()`.
The receiver builds views (copies with `use_shm`), acknowledges at once when the message
says so, and loads in two steps, so that overwriting during a load shows. Every
exception is an action: the generator of weights, a weight too large for shared memory, a
wrong version, a view torch refuses, the loader, the optional debug timeout. The transport
(slots, shared memory, debug timeout) is chosen initially from `Configs`. `Settled` is what
`ray.wait(..., num_returns=1)` in `_sync_weights_ipc` sees: both sides done, or one failed.

### RdmaBroadcast

A broadcast is a value: its kind and what fixes its size. A member that has entered one is
`inside` it; `Broadcast` completes when all are inside. A receiver posts a header without
knowing what comes, and decides by its contents what to enter next (`AfterHeader`); the
sender sends three broadcasts per bucket and one header at the end. `SenderFail`,
`LoadFail` and a refused header stop a member; the others stay inside until the timeout of
the group ends their process (`GroupTimeout`). The controller joins with its own timeout
(`Commit`, `Raise`) and always reaches `Cleanup`.

### RayTraining

The controller is a program counter; a fan-out adds one pending call per replica
(`Fanout`), a replica serves its pending calls in any order (`Serve…`), and `ray.get` is a
pair of actions: the join when no call is pending, or `Raise` as soon as one has failed,
with the other calls still running. A replica has a version of the weights (`Lost` after a
level-2 sleep, `Torn` after a load that raised), the memory pools that are mapped, and the
versions behind its prefix cache. Sleeping, waking and loading follow each of the four
backends in the code's order: IPC wakes the weights, transfers, then wakes the cache; the
path backend reloads one replica after the other; `_sleeping` is the only thing the
controller looks at. Filtering of prompt groups repeats the generation up to `MaxRounds`.

### Batching and BatchRoundTrip

A row is its number, its length is looked up; a packed sequence is a sequence of (row,
column) pairs, a log-prob is the token it belongs to. `KarmarkarKarp` keeps the code's
states, order and tie-breaks. `BatchRoundTrip` only enumerates batches and layouts; its
invariants compare the operators with what they promise.

### DataParallelStep

`pc[r]` names the collective rank r has entered. What a rank computes between two
collectives is part of the action of the collective before. Nothing makes the ranks enter
the same one: each decides by its own rows, budget, padding, losses and statistics. Ranks
in different collectives stay there until `Abort` (the process group's timeout). `bad` is
a row whose loss is NaN, chosen initially; `counted` is how often each row entered the
gradient.

### StagedTraining

A rank enters a named collective and goes on when all are in it. Between them rank 0
generates (with the forward of the actor if `UseRolloutLogProbs`), and runs the callbacks;
every rank pushes a snapshot of each version to one directory and prunes it. Failures of
the engine and of the push are caught, as in the code. The directory is a fixed path
(`core/config.py:850`) that nobody empties while versions count from 0 in every run: at the
start it holds `Leftovers`, any set of versions. `rmtree(ignore_errors=True)` may leave any
of the outdated directories (`PruneFail`). `SnapshotKept` is about steps, not states: a push
that raises leaves its directory and skips the pruning, so there is no bound on the
directories between two pushes that succeed; there is one after each that does and whose
removals succeed.

### FileCheckpoint

A directory of numbered files, some truncated. A save prunes first, opens the file
(truncated) and completes it. An `unlink` may raise an `OSError` that the loop swallows
(`PruneFail`): the entry is popped (`cursor`), the file stays, and `leftover` remembers it
until it is removed or written again. `Crash` may come anywhere; the next start has `resume`
or not. `run` tells the weights of two trainings in one directory apart; `epoch` is
`scheduler.last_epoch`, restored the way each trainer does.

### RayCheckpoint

The controller counts steps, prunes on its node, asks rank 0 to prune on its node, makes
the directory, lets the ranks write in the phases of `checkpoint_rank_phases`, writes the
tracker, prunes again. A file is opened (`Torn`) and then complete, stamped with the start
of the job it belongs to, so that a checkpoint mixed from two saves of one step is told
apart. `shutil.rmtree` removes some file first and everything at last; on the controller,
where it ignores errors, it may also remove some files, leave the directory and go on with
the next one (`PruneFail`, `cursor`, `leftover`). `Crash` may happen between any two of these
steps, and stands for an `rmtree` that raises on an actor's node; a job that is down or
finished may be started with `resume: false` (`StartFresh`), which begins a new training at
step 0 over whatever the disks hold. `Start` numbers the starts of the job; `Resume` follows `_find_latest_ray_checkpoint` and
`load_checkpoint`; `ResumeRaise` is a restart that fails (and fails again each time). The
placement of controller and ranks on nodes is chosen initially.

## 3. Runs

Passing runs (distinct states in brackets):

| Run | Instance | Checks |
|---|---|---|
| `shm_normal` (139 k) | 2 ranks, 3 slots, steps 1..5, any old sentinels, 4 micro-batches per step, sharded model, no failures | `ImplementsLockstep` (refinement with liveness), `ClaimNeverWaits` (the writer's timeout branch is unreachable), `TypeOK` |
| `shm_faults` (445 k) | 2 ranks, 2 slots, steps 1..3, inference, files and waits may fail, micro-batches may not divide by the ranks | `UnreadSlotKept`, `StaysInLockstep` (refinement, safety), `EventuallyEnds` |
| `shm_single` (136 k) | 1 rank, 2 slots, steps 0..4, file operations and waits may fail | `ImplementsLockstep`: without a barrier a slot may be released before it is claimed; the claim then leaves it taken, the writer gives up on a later step, and still no batch is lost, because rank 0 reads only its buffer |
| `transfer` (420 k) | all lists of up to 4 weights of 0..3 bytes and two dtypes; two IPC slots, one IPC slot, two shared-memory slots with debug timeout; gathering and loading may raise | `LoadsPrefix`, `DoneMeansLoaded`, `AlwaysSettles` |
| `rdma_broadcast` (341 k) | 2 receivers, 2 synchronisations of up to 3 tensors of 0, 1 or 3 bytes, two bucket sizes, all failures and timeouts | `BroadcastsPair` (with the types and the bound of the bucket), `CommittedEverywhere`, `AllReleased` |
| `ray_training` (206 k) | 2 replicas, 3 steps, 4 backends, sleep, filter, validation and resume on or off, any call may fail | `GenerateReady`, `TrainsAlone`, `ImplementsOnPolicy` (refinement), `EventuallyEnds` |
| `data_parallel_step` (92 k) | 2 ranks, up to 4 rows of 0..2 response tokens, three token budgets, groups of 1 or 2, one NaN row or none | `LogProbsAligned`, `CollectivesPaired`, `EveryRowOnce`, `TokensNormalised`, `GroupsWhole`, `StepEnds` |
| `batching` (39 k) | up to 6 rows of 1..3 tokens, 1..3 groups, 1 or 2 peers in both layouts, three budgets | `DispatchRoundTrip`, `ChunksFillBudget`, `PartitionsBalanced`, `WorkersGetTheirBin`, `PackRoundTrip` |
| `staged_training` (36 k) | 3 ranks, 8 micro steps, 2 prompts each, 2 snapshots kept, versions 2 and 9 left by an earlier run, engine, push and removals may fail; no rollout log-probs, no checkpoints | `CollectivesPaired`, `SnapshotKept`, `AllFinish` |
| `checkpoint_crashes` (572 k) | 2 ranks beside the controller or on two training nodes, saves at 2, 4, 6, 8, limit 3, two crashes or new trainings, the controller's removals may fail | `TrackedIsComplete`, `BoundedRedo`, `FinishesOnceTracked`, `PeakUsage` |
| `file_checkpoint` (53 k) | both trainers, 9 steps, saves every 2, limit 2, up to 3 crashes, restarts with and without resume, removals may fail | `PeakUsage`, `NewestKept`, `ScheduleDrift`, `BoundedRedo`, `EndsOrBreaks` |

One run expects a violation, and a finding quotes the lines it contradicts:

| Run | Shows |
|---|---|
| `staged_collectives` | With rollout log-probs (the default) rank 0 enters the all-gather of the sharded actor's forward while the other ranks are in the broadcast of the batch. The callbacks, run on rank 0 only, do the same when a checkpoint is due. |

### Conditions in the properties

Some properties name the cases in which the code does not keep them. Each condition is as
narrow as TLC allows, and says something about the code:

* `CollectivesPaired` (step): under torchrun the ranks do part when a loss is NaN on one
  rank (`_train_step` returns before `backward`, line 3177), when a rank gets no row, when
  an estimator that checks group sizes meets a shard border inside a group, and when
  balancing gives one rank fewer rows than there are ranks and another not (one of the two
  has balance statistics to reduce). Under Ray only the empty shard remains.
* `EveryRowOnce`: not with `balance_batch` under torchrun, see below.
* `GroupsWhole`: under torchrun only when no shard border cuts a prompt group; under Ray
  always, because advantages are computed before the rows are dispatched.
* `ImplementsLockstep`: its liveness half is checked for steps whose micro-batches divide by
  the ranks. With others no rank gets through the step; `shm_faults` checks that such a job
  ends (`EventuallyEnds`) and never trains on anything wrong (`StaysInLockstep`).
* `NewestKept`, `BoundedRedo` (files), `TrackedIsComplete`, `BoundedRedo` and
  `FinishesOnceTracked` (Ray): for a directory that only one training has written to. A new
  training in a used directory is in the models, and TLC violates each of them without the
  condition (section 5).
* `PeakUsage` (both): beside what a failed removal has left. The comments in the code promise
  the limit without that exception; a failed removal is ignored and the save goes on, so the
  directory may hold one more for each.
* `BoundedRedo` (files): with a limit of 1 only if no removal fails (`NoStaleFile`).
* `SnapshotKept`: a pushed version stays unless `KeepVersions` leftovers of earlier runs are
  newer (`Covered`).
* `ScheduleDrift`: exact until the first restart; then at most one ahead per restart for
  distillation, and behind (back in the warm-up) for the RL trainer.
* `EndsOrBreaks`: a truncated file with the highest number makes every restart raise.
* `BoundedRedo` (Ray): what is restored is complete if the tracker can be read.
* `PeakUsage` (Ray): on the controller's node and that of rank 0, the only ones pruned.

### Bounds, and why they are enough

* Two ranks are the smallest number with a rank 0 and another one, in every module with
  ranks; one rank, where no collective orders anything, has a run of its own; three in `StagedTraining`, so that two ranks other than 0 race for the snapshot
  directory. The theorems below hold for any number.
* Two or three slots, and runs longer than the slots, so that every slot is reused at
  least once; starting at step 1 makes the first slot differ from slot 0. Two slots in the
  faulty run keep it small; three are the code's `_SHM_SLOTS`.
* Weights of 0, 1, exactly one bucket and more than one bucket, in every order: both
  slots are reused, buckets end full, short and empty, direct sends come first, last and
  between.
* Two synchronisations over one group: a member left behind in the first would meet the
  second. Two replicas, one of which fails or gets no request.
* Rows that do and do not divide by ranks, groups and budgets; no rows for some rank; rows
  longer than the budget; shards with different numbers of chunks.
* Four saves with a limit of three: the oldest checkpoint is pruned; two crashes can hit
  a save and the next start's save, and a new training can follow a crash or a complete run
  (`MaxStarts` bounds both together; the safety properties were also checked with one more,
  7.4 M states). The limit matters: `TrackedIsComplete`
  needs it to be at least 3, because directories of interrupted saves are counted too;
  with 2, one crash is enough for a partial directory to displace the complete
  checkpoint. That 3 is enough for any number of crashes is proved (section 4): a
  restart saves the interrupted step again, so there is never more than one partial
  directory beyond the tracked one.
* Leftover snapshots 2 and 9 with two versions kept: version 1 has two newer ones and is
  deleted by its own push, versions 2, 3 and 4 have one and must stay.
* `MaxCrashes`, `MaxStarts`, `MaxRows`, `MaxRounds`, `Syncs`, `Total` and the lists of weights are the
  only bounds on otherwise unbounded behaviour. No state constraint and no symmetry is used.
* Deadlock is checked where the module ends in a stuttering step. It is not where a
  finished job simply stops (`RayTraining`, `RdmaBroadcast`, `DataParallelStep`,
  `StagedTraining`, `BatchRoundTrip`); in the first four, liveness properties say that it
  stops only there.

### Fairness

* `ShmPipeline!Fairness`: weak fairness of each thread as a whole. The operating system
  schedules every thread; inference and file operations return; a wait with a deadline
  ends (polling in `_wait_sentinel` and `Event.wait` both have one); torchrun kills the
  remaining ranks when one has failed; the timeout of the process group ends a rank in a
  collective that another one never enters. No fairness on a particular branch, so a failure
  is never forced and never excluded.
* `BucketedTransfer!FairSpec`: both processes are scheduled and ZMQ over a local socket
  delivers.
* `RdmaBroadcast!FairSpec`: every process runs, a complete broadcast ends, and the timeout
  of the group, which `init_independent_process_group` sets, ends an incomplete one.
* `RayTraining!FairSpec`: the controller and every replica run; `ray.get` delivers a result
  or an exception.
* `DataParallelStep!FairSpec`, `StagedTraining!FairSpec`: every rank runs, and a collective
  all ranks are in completes. In the first, ranks in different collectives are ended by
  the process group's timeout.
* `RayCheckpoint!FairSpec`, `FileCheckpoint!FairSpec`: the job goes on, and is started again
  after a crash. A restart of the Ray job that raises makes no progress and gets no fairness.

## 4. What is proved

Every theorem holds for all values of the constants its module's `ASSUME` allows, which
the runs also evaluate. An implication in the table is a hypothesis on the constants; the
instance of the run satisfies it, so it is not empty. Each safety property is proved from
an inductive invariant (`IInv` of the proof module), which TLC checked first as an
invariant of an instance; the properties themselves are too weak to be inductive.

| Module | Theorem | States |
|---|---|---|
| `ShmPipelineProofs` | `TypeCorrect` | `Spec => []TypeOK` |
| | `SlotSafety` | `Spec => []UnreadSlotKept` |
| | `SlotIsFree` | `Spec => []ClaimNeverWaits` |
| | `TrainsInLockstep` | `WorldSize > 1 \/ ~TeacherMayFail => (Spec => StaysInLockstep)` |
| `BucketedTransferProofs` | `LoadsArePrefixes` | `Spec => []LoadsPrefix` |
| | `DoneIsLoaded` | `Spec => []DoneMeansLoaded` |
| `RdmaBroadcastProofs` | `StreamsPair` | `Spec => []BroadcastsPair` |
| | `CommitIsComplete` | `Spec => []CommittedEverywhere` |
| `RayTrainingProofs` | `RolloutsAreReady` | `~ValidationSleepMayFail => (Spec => []GenerateReady)` |
| | `ActorsTrainAlone` | `~ValidationSleepMayFail => (Spec => []TrainsAlone)` |
| | `LoopIsOnPolicy` | `~ValidationSleepMayFail => (Spec => ImplementsOnPolicy)` |
| `StagedTrainingProofs` | `RanksMeet` | `~UseRolloutLogProbs /\ SaveEvery = 0 => (Spec => []CollectivesPaired)` |
| | `SnapshotsKept` | `Spec => SnapshotKept` |
| `RayCheckpointProofs` | `PeakBounded` | `Spec => []PeakUsage` |
| | `TrackedStaysComplete` | `Limit >= 3 => (Spec => []TrackedIsComplete)` |
| | `RedoBounded` | `Limit >= 3 => (Spec => BoundedRedo)` |
| `FileCheckpointProofs` | `PeakBounded` | `Spec => []PeakUsage` |
| | `NewestSurvives` | `Spec => []NewestKept` |
| | `DriftBounded` | `Spec => []ScheduleDrift` |
| | `RedoBounded` | `Spec => BoundedRedo` |

The hypotheses are where the code itself stops keeping the property: TLC violates
`GenerateReady` with `ValidationSleepMayFail` (section 5), `CollectivesPaired` with rollout
log-probs (the run `staged_collectives`), `TrackedIsComplete` with a limit of 2, and
`StaysInLockstep` with one rank and a teacher that fails (section 5).

**ShmPipeline.** The types alone are not inductive: the invariant adds what each program
counter says of the item and data in hand, for example that a loader in `put` holds work
and not a stop item. The other three theorems share one inductive invariant, `Delivered`:
`PipelineInv(e)` holds for some e, where e is the step the writer dropped because its
inference failed, or `Stop` if there is none. The proof of `PipelineStep` shows how a
failure changes e (`LossStep`, `DropLost`); everything else keeps it. Its parts:

* *Chains.* Each main thread sits at the end of a chain: its work queue, the item in hand,
  its ready queue, its future. The chain holds consecutive steps, each with the slot
  `step % Slots` (`WorkChain`, `ReadyChain`, `EndChain`), it is as long as what was submitted
  minus what was taken (`FullChain`), and what was taken is half the number of collectives
  entered (`Count`): that ties the data of a rank to a counter all ranks synchronise on.
  A failed inference leaves rank 0's chain one step short; then `Lost(e)` holds in place of
  rank 0's chain: no other rank ever gets e, so none enters the barrier after the fetch of
  e, and rank 0 neither releases nor trains a step from e on (`LostBehind`). It may fetch
  the data of a later step in e's place, but then waits in that barrier.
* *Slots.* Everything in the writer's queue, in its hand or in a sentinel is a step less than
  `Start + Slots + collectives[q] \div 2` for *every* rank q (`AssignedInv`, `FileReuse`),
  because rank 0 submits a step only after a barrier all ranks have entered. An unread step
  of rank r is at least `Start + collectives[r] \div 2`. Two steps of one slot are `Slots`
  apart, so the later cannot be with the writer while the earlier is unread
  (`SharedSuffices`, which gives `SlotSafety`). `BegunInv` takes care of old sentinels: rank 0
  has entered the first barrier, after deleting them, before any loader has work.
* *Events.* A slot whose event is clear is taken for a step that was claimed and not yet
  released, and no released step is still with the writer (`ClaimInv`; released before it
  was claimed, as can happen with one rank, a slot would stay taken). Steps pass the writer in
  order (`OrderInv`) and rank 0 has at most `Slots` unreleased steps out (`FrontierNear`), so
  the step to be claimed next finds its slot free (`ClaimFree`, which gives `SlotIsFree`).
* *Data.* The prefetcher's results are those of the writer's items (`AlignInv`), so a sentinel
  of a step stands for that step's data (`FileInv`), a loader has loaded its own step's data
  or an error (`LoadInv`), and so has rank 0's buffer up to e (`FrontInv`). With `BarrierInv`
  and `TrainedInv`, which count collectives and trained steps, a rank that trains has the
  data of its step and its peers are at most one step away (`TrainsOnStep`). Micro-batches play
  no part in this: uneven ones only keep `MainTrain` from happening. `MainTrain` is
  therefore a step of `LockstepTraining` and every other action a stutter (`LockstepStep`).

**BucketedTransfer**, for any list of weights, bucket size, one slot or two. The entries of
the bucket lie back to back in the sender's slot (`MetaInv`), so `_sync()` puts each tensor
where its entry says (`SyncPlaces`: no byte has two owners). `TurnInv` says who has the
turn: a bucket that is answered and still being loaded was acknowledged early, and is not
where the sender packs, so packing leaves it in place. That is why two slots are enough:
the sender comes back to a slot only after the bucket in the other one is answered,
and the receiver takes that bucket only after it has loaded the first. `LoadedInv`, `MessageInv`,
`RequestInv` and `CountInv` number the weights: loaded, in hand, requested and packed ones
continue each other without a gap. The last bucket is never acknowledged early, so its
answer proves that all is loaded.

**RdmaBroadcast**, for any number of receivers. A receiver that has not failed is in the
broadcast the sender is in or comes to next, or still loads the bucket before
(`ReceiverInv`); this is inductive because a receiver posts the header before it knows
what comes and the header decides the rest. `StreamInv` numbers the tensors: loaded, staged
and in the bucket, once and in order.

**RayTraining**, for any number of replicas and rounds. `ReplicaInv` says for each place of
the controller which calls may still run on a replica and what the replica is like, in
three stages: not served yet, failed, or served with its effect. `ray.get` turns "not
pending and not failed" into the effect. A drain whose exception was swallowed may be
pending for the rest of the run (`Pending`), and the proof shows that it does no harm.
`VersionInv`, `BatchInv` and `SleepInv` relate step, version, batch and the `_sleeping`
flag; they give the step simulation of `OnPolicyTraining` (`LoopIsOnPolicy`), where only
`EndRound` and `Update` are not stutters.

**StagedTraining**, for any number of ranks. All ranks are always in the same segment
between two collectives of all ranks, with the same counters on entering it (`Abreast`).
The versions they push are therefore newer than all but leftovers of earlier runs (`Newest`).
If fewer than `KeepVersions` of those are newer still, the pushed version is never outdated
(`CoveredNotOutdated`), whichever rank prunes and whichever removals fail; and what goes has
`KeepVersions` newer ones among those that must stay (`NewerStay`).

**RayCheckpoint**, for any number of ranks, placement, crashes, new trainings and failed
removals. `RoomInv`: the pruned nodes have room for the checkpoint until they hold its
directory, whatever directories crashes and earlier trainings left behind, not counting
what failed removals left; `CursorInv` says that what a pass skips is exactly that. `RInv`,
which gives `PeakBounded`, holds throughout; the rest only while `trainings = 1`
(`OneTraining`): a new training makes it false, and it stays out of the way from then on. `RestartInv`: there is a step h a restart would continue
from, and no pruned node holds a directory later than one interval after it. With three
directories to keep, the oldest of more than two is therefore not h, and pruning
never removes it (`RestartIsKept`). `WrittenInv` ties the phases of the ranks to the files
that are complete.

**FileCheckpoint**, for any number of crashes, restarts and failed removals. `CursorInv`: what
the pruning pass has skipped is left over, so the others stay within the limit. `SingleInv`:
in the directory of one training, if `NoStaleFile`, only a file above the newest complete one can be truncated, and progress is
at most one interval past it. `DriftInv`: what a job that is down may restore is one
restart behind the bound on the drift.

`NumberLemmas` replaces what cannot be had from the library: its induction theorems take an
operator as a parameter, which the installed provers cannot instantiate, but a set of
numbers can be quantified over. `LeastNumber` (a non-empty set of numbers has a least
element) is proved once from the library and gives induction wherever it is needed
(`RunningSum`, `SumUnique`).

Only model-checked: liveness (`EventuallyEnds`, `AlwaysSettles`, `AllReleased`, `StepEnds`,
`AllFinish`, `FinishesOnceTracked`, `EndsOrBreaks`) and the fairness half of
`ImplementsLockstep`, which are out of the prover's reach; the invariants of `BatchRoundTrip`
and `DataParallelStep`, which say what the recursive functions and folds of `Batching`
compute and need induction over that data.

## 5. Observations

Met while modelling; each was reproduced with TLC by changing a constant or dropping a
condition, or read in the code, and has no run of its own.

* Resuming distillation at its last step (`Start = Total`): `train()` primes nothing and
  waits without a timeout for a batch that never comes (`spec_distill_trainer.py:1940`).
* The comment at `spec_distill_trainer.py:1976` says every rank has copied the slot before it
  is freed. Rank 0's own loader may not have; nobody reads its result.
* One rank with a failing teacher trains step s on the batch of s+1 and waits for ever
  for the last.
* Tensors are packed back to back; a two-byte tensor behind an odd number of bytes
  cannot be viewed by the receiver, which raises (`bucketed_weight_transfer.py:402`). The
  model has it as one of the exceptions.
* After a crash in the first Ray save there is no tracker; the highest directory is used,
  complete or not, and a missing optimizer file is passed over (`rl_trainer.py:1523`), so
  some ranks continue with a fresh optimizer, against `examples/docs/04-launching.md:334`
  ("Never resume from an incomplete checkpoint.").
* With `save_total_limit` 2 one crash in a save is enough: when the restarted job comes to
  the same save, the partial directory counts as a checkpoint and the pruning before the
  save removes the complete one, which the tracker still names (`workers/actor_worker.py:1368`; `examples/GRPO/configs/grpo_dsv4_flash_vllm_longrun.yaml:195`
  has 2). From 3 on this cannot happen to the only training of a directory.
* A new training (`resume: false`) in the `checkpoint_dir` of an older, longer one, at any
  limit: pruning by number removes the new checkpoints first. Under Ray with
  `global_step_4`, `6` and `8` on disk, the new training saves and tracks step 2, and the
  pruning before its next save removes it: the tracker names a directory
  that is gone or half gone, and a later resume raises or continues the older training
  (`callbacks.py:256`, `workers/actor_worker.py:1368`). `TrackedIsComplete`, `BoundedRedo`
  and `FinishesOnceTracked` are violated without `trainings = 1`.
* A removal that fails is ignored (`callbacks.py:241`, `callbacks.py:257`) and the save goes
  on, so the directory holds one checkpoint more than `save_total_limit`, which the comments
  at `callbacks.py:157` and `callbacks.py:163` rule out. On the controller's node a directory
  half removed in this way may be the highest one a restart without a readable tracker finds.
  With `save_total_limit` 1 a `checkpoint_N.pt` that could not be removed is the only
  complete file while the next is written, and a restart may go back behind the last save.
* The snapshots of an earlier run of the staged trainer stay in `/tmp/lumenrl_weight_sync`,
  and versions start at 1 again: with `v9` and `v10` there and two versions kept,
  `_cleanup_old_versions` deletes `v1` in the push that wrote it (`trainer/weight_sync.py:111`).
* The micro-batches of a distillation step are dealt out round robin
  (`spec_distill_trainer.py:2034`), and their number follows the sequence length unless it
  is configured (2020). If it does not divide by the ranks, the sharded model is gathered
  more often on some ranks than on others, and the job hangs until the timeout of the process
  group; there is no padding as in `RLTrainer`. With `Accums` uneven `ImplementsLockstep` is
  violated.
* A snapshot push that raises leaves its directory behind and skips the pruning
  (`trainer/async_trainer.py:486`), so failing pushes fill the directory until one succeeds.
* `prune_checkpoints` does something only on rank 0, so other training nodes keep every
  checkpoint (`workers/actor_worker.py:1354`).
* `balance_batch` is described as partitioning across data-parallel ranks
  (`core/config.py:384`), but under torchrun `_balance_batch` runs on a batch that is
  already this rank's shard, and keeps one part of it: the other rows of the shard are
  not trained on (`rl_trainer.py:3004`).
* The sleep after a validation is in a `try` that swallows the exception
  (`rl_trainer.py:4514`). If one replica sleeps and another raises, `_sleeping` stays false
  and the next rollout generates on a sleeping replica. `ValidationSleepMayFail = TRUE`
  violates `GenerateReady`; the run leaves it `FALSE`.
* With neither weight synchronisation nor sleep nothing refreshes the replicas; such jobs
  are excluded by `RayTrainingAssumption`.
* `_prompt_cursor` is not restored when a Ray run resumes, so the prompts start over.
* In the staged trainer nothing sets `_weight_dir` on the path `train()` takes: rollouts keep
  the initial weights although `_trigger_param_sync` announces new ones. An empty batch
  skips `on_step_end`.
* `reload_weights_from_http` stages the files only on the node of the first server.

## 6. Limits of the models

* The HF-teacher branch, validation and callbacks inside the distillation `train()` do not
  touch the pipeline and are part of `MainTrain` and `MainStepEnd`.
* In `ShmPipeline` the barriers and the metrics reduction do not time out; the launcher's
  kill plays that part. The micro-batch loop is one step: which pass of an uneven loop a
  rank hangs in, and what it has computed by then, is not modelled.
* The metrics reduction of distillation is one collective. In the code it is one per key
  (`spec_distill_trainer.py:2201`), over keys from which NaN values were dropped (2135), and
  each rank averages its own micro-batches: a metric that is NaN on some ranks only makes
  them run different numbers of reductions, so that later barriers pair with the wrong
  call or nothing at all. All properties of `ShmPipeline`, and the theorems about it, assume
  that a metric is NaN on every rank or on none.
* In `RayCheckpoint` a directory that a failed removal leaves keeps its `actor` subdirectory,
  so a restart can find it. The placement of the processes is the same at every start.
* Creating a directory is atomic. File contents are complete or torn; what the operating
  system keeps after a power loss is not modelled.
* A crash takes the whole job down; partial restarts of actors do not exist in the code.
* Floating-point values do not occur. `Workload` is the exact integer polynomial of the
  code; a NaN loss is a property of a row.
* `RayTraining` leaves out `bypass_mode` (log-probs reused from the rollout), rewards and
  metrics, and the ATOM servers, which the controller drives through the same calls.
* `DataParallelStep` leaves out the critic, pack-level micro-batching of Megatron and
  validation under torchrun.

## 7. Not modelled, and why

* **Megatron engines and bridges** (`engine/training/megatron_*`, `bridges/`, the older
  `engine/training/actor_worker.py`; about 9,000 lines): scheduling, collectives and the
  distributed checkpoint are Megatron-Core's; this code names, reshapes and quantises
  tensors and fills in configuration. There is no state machine of its own to check.
* **Models, losses, quantisation, weight conversion, advantage formulas, rollout
  correction**: floating-point computation.
* **Hidden-state stores, teacher servers, in-process engines**: thin clients whose ordering
  guarantees live in Mooncake, MORI, vLLM, SGLang and ATOM.
* **`_rollout_loop`, `message_queue.py` and the sync events of the asynchronous trainer**: not
  reached from `train()`.
* **Configuration, registries, data sets, parsers, plugins, profiling, examples and
  scripts** (patch scripts for other projects included): declarations and I/O.

The map therefore covers most of the coordination code and a small share of all lines.

## 8. Plan

Done: all modules above, two refinements, both proved step by step, eleven passing runs and
the theorems of section 4.

Left open: from `DataParallelStep`, which rows a shard has and that the shards make up the
batch. That is an induction over what the recursive functions and folds of `Batching`
compute, for which `NumberLemmas` is only a beginning.

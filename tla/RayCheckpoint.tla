--------------------------- MODULE RayCheckpoint ---------------------------
(***************************************************************************)
(* Checkpoints of the Ray controller: CheckpointCallback (on_step_end and  *)
(* _save_ray_controller_checkpoint, trainer/callbacks.py), save_checkpoint *)
(* and load_checkpoint of the actor workers (workers/actor_worker.py), and *)
(* the restart in RLTrainer._try_resume_ray_checkpoint.                    *)
(*                                                                         *)
(* The controller drives a save; every actor writes the files of its own   *)
(* shard, on its own node.  The job may crash between any two steps, in    *)
(* the middle of a file too, and is then started again from what the disks *)
(* hold, or, with checkpointing.resume off, from scratch beside it.        *)
(***************************************************************************)
EXTENDS Integers, FiniteSets

CONSTANTS
  WorldSize,         \* number of actor ranks
  Nodes,             \* file systems
  Placements,        \* possible homes: the controller's node and each rank's
  SaveInterval,      \* checkpointing.save_steps
  Limit,             \* checkpointing.save_total_limit
  Total,             \* num_training_steps
  HasParameterState, \* the optimizer has save_/load_parameter_state (Megatron)
  ResumeFlags,       \* values checkpointing.resume may have at a start
  RemoveMayFail,     \* the controller's rmtree(ignore_errors=True) may fail
  MaxStarts          \* bound on the crashes and new trainings of one behaviour

Ranks == 0 .. (WorldSize - 1)

ASSUME CheckpointAssumption ==
  /\ WorldSize \in Nat \ {0} /\ SaveInterval \in Nat \ {0} /\ Limit \in Nat \ {0}
  /\ Total \in Nat /\ MaxStarts \in Nat \ {0}
  /\ Placements \subseteq [controller : Nodes, rank : [Ranks -> Nodes]]
  /\ HasParameterState \in BOOLEAN /\ RemoveMayFail \in BOOLEAN
  /\ ResumeFlags \subseteq BOOLEAN

SavePoints == {s \in 1 .. Total : s % SaveInterval = 0}

\* The files of one rank, in the order save_checkpoint writes them.
FileNames == 1 .. 4
Model == 1   Optim == 2   Parameter == 3   Extra == 4
Written == IF HasParameterState THEN FileNames ELSE FileNames \ {Parameter}

\* What a file holds: nothing, a part, or the state of the n-th start of the job.
Absent == 0
Torn   == -1
Starts == 1 .. MaxStarts

\* Non-step values of latest_checkpointed_iteration.txt.
NoTracker    == 0
EmptyTracker == -1

VARIABLES
  placement,               \* where the processes of this job run
  dirs, files, tracker,    \* the disks
  leftover,                \* history: what failed removals left, controller's node
  pc, step,                \* controller: where it is, training steps done
  removing, cursor,        \* pruning: inside rmtree, the last entry passed over
  phase, progress,         \* actors: rank phase, last file begun and ended
  crashes, reached, trainings \* history

\* The number of this start of the job.
Start == crashes + trainings

disk    == <<dirs, files, tracker, leftover>>
pass    == <<removing, cursor>>
history == <<crashes, reached, trainings>>
vars == <<placement, disk, pc, step, pass, phase, progress, history>>

Pcs == {"train", "pruneController", "pruneActors", "mkdir", "save", "tracker",
        "trackerText", "pruneControllerAfter", "pruneActorsAfter", "down", "finished"}

\* Every variable has its type.
TypeOK ==
  /\ placement \in Placements
  /\ dirs \in [Nodes -> SUBSET SavePoints]
  /\ files \in [SavePoints -> [Ranks -> [FileNames -> Starts \cup {Absent, Torn}]]]
  /\ tracker \in SavePoints \cup {NoTracker, EmptyTracker}
  /\ leftover \subseteq SavePoints
  /\ pc \in Pcs /\ step \in 0 .. Total
  /\ removing \in BOOLEAN /\ cursor \in 0 .. Total
  /\ phase \in 0 .. WorldSize
  /\ progress \in [Ranks -> [begun : -1 .. 4, ended : -1 .. 4]]
  /\ crashes \in Nat /\ trainings \in Nat \ {0} /\ Start \in Starts
  /\ reached \in 0 .. Total

NoFiles == [f \in FileNames |-> Absent]
Idle    == [r \in Ranks |-> [begun |-> -1, ended |-> -1]]

Init ==
  /\ placement \in Placements
  /\ dirs = [n \in Nodes |-> {}]
  /\ files = [s \in SavePoints |-> [r \in Ranks |-> NoFiles]]
  /\ tracker = NoTracker /\ leftover = {}
  /\ pc = "train" /\ step = 0 /\ removing = FALSE /\ cursor = 0
  /\ phase = 0 /\ progress = Idle
  /\ crashes = 0 /\ reached = 0 /\ trainings = 1

Home(r) == placement.rank[r]

-----------------------------------------------------------------------------
(* The training loop and the pruning of old checkpoints *)

\* on_step_end saves after the s-th step.
Due(s) == s % SaveInterval = 0

\* One step of training.
Train ==
  /\ pc = "train" /\ step < Total
  /\ step' = step + 1
  /\ pc' = IF Due(step + 1) THEN "pruneController" ELSE "train"
  /\ UNCHANGED <<placement, disk, pass, phase, progress, history>>

Finish ==
  /\ pc = "train" /\ step = Total
  /\ pc' = "finished"
  /\ UNCHANGED <<placement, disk, step, pass, phase, progress, history>>

\* Mutants: the new checkpoint is not counted; one too many is removed.
MutKeepLimit == Limit
MutKeepLess  == IF pc \in {"pruneController", "pruneActors"} THEN Limit - 2 ELSE Limit

\* Checkpoints to keep: room for the new one before writing, Limit afterwards.
Keep == IF pc \in {"pruneController", "pruneActors"} THEN Limit - 1 ELSE Limit

\* The controller prunes its own file system, rank 0 of the actors its own.
PrunedNode == IF pc \in {"pruneController", "pruneControllerAfter"}
                THEN placement.controller ELSE Home(0)

Pruning == pc \in {"pruneController", "pruneActors", "pruneControllerAfter",
                   "pruneActorsAfter"}

\* What is left of the sorted list of the node's checkpoints: the pass pops the
\* entries in the order of their numbers, also one whose removal failed.
Listing == {s \in dirs[PrunedNode] : s > cursor}
Oldest  == CHOOSE s \in Listing : \A t \in Listing : s <= t

\* The checkpoint s on the pruned node, without the given files.
Without(s, gone) ==
  [files EXCEPT ![s] = [r \in Ranks |->
     IF Home(r) = PrunedNode
       THEN [f \in FileNames |-> IF f \in gone THEN Absent ELSE @[r][f]] ELSE @[r]]]

\* rmtree of the oldest checkpoint starts: some file of it is gone.
PruneBegin ==
  /\ Pruning /\ ~removing
  /\ Cardinality(Listing) > Keep
  /\ removing' = TRUE
  /\ \E f \in FileNames : files' = Without(Oldest, {f})
  /\ UNCHANGED <<placement, dirs, tracker, leftover, pc, step, cursor, phase,
                 progress, history>>

\* ... and ends: the directory and all of its files are gone.
PruneEnd ==
  /\ Pruning /\ removing
  /\ removing' = FALSE
  /\ dirs' = [dirs EXCEPT ![PrunedNode] = @ \ {Oldest}]
  /\ files' = Without(Oldest, FileNames)
  /\ leftover' = IF PrunedNode = placement.controller
                    THEN leftover \ {Oldest} ELSE leftover
  /\ UNCHANGED <<placement, tracker, pc, step, cursor, phase, progress, history>>

\* The controller's rmtree ignores errors: some files are gone, the directory is
\* not, and the pass goes on with the next entry.  (An error in the actors' rmtree
\* is raised, and takes the job down: Crash.)
PruneFail ==
  /\ RemoveMayFail
  /\ pc \in {"pruneController", "pruneControllerAfter"} /\ ~removing
  /\ Cardinality(Listing) > Keep
  /\ \E gone \in SUBSET FileNames : files' = Without(Oldest, gone)
  /\ leftover' = leftover \cup {Oldest}
  /\ cursor' = Oldest
  /\ UNCHANGED <<placement, dirs, tracker, pc, step, removing, phase, progress,
                 history>>

PruneDone ==
  /\ Pruning /\ ~removing
  /\ Cardinality(Listing) <= Keep
  /\ cursor' = 0
  /\ pc' = CASE pc = "pruneController"      -> "pruneActors"
             [] pc = "pruneActors"          -> "mkdir"
             [] pc = "pruneControllerAfter" -> "pruneActorsAfter"
             [] pc = "pruneActorsAfter"     -> "train"
  /\ UNCHANGED <<placement, disk, step, removing, phase, progress, history>>

-----------------------------------------------------------------------------
(* Writing a checkpoint *)

\* The controller creates global_step_N/actor on its node and calls the actors.
MakeDir ==
  /\ pc = "mkdir"
  /\ dirs' = [dirs EXCEPT ![placement.controller] = @ \cup {step}]
  /\ leftover' = leftover \ {step}
  /\ pc' = "save"
  /\ phase' = 0 /\ progress' = Idle
  /\ UNCHANGED <<placement, files, tracker, step, pass, history>>

\* save_checkpoint of rank r creates the directory on the rank's own node.
ActorMakeDir(r) ==
  /\ pc = "save" /\ progress[r].begun = -1
  /\ dirs' = [dirs EXCEPT ![Home(r)] = @ \cup {step}]
  /\ progress' = [progress EXCEPT ![r] = [begun |-> 0, ended |-> 0]]
  /\ UNCHANGED <<placement, files, tracker, leftover, pc, step, pass, phase,
                 history>>

\* checkpoint_rank_phases: the n-th ranks of all nodes write together.
PhaseOf(r) == Cardinality({q \in Ranks : q < r /\ Home(q) = Home(r)})

\* The first file after the n-th that this optimizer writes (5: none).
FileAfter(n) == CHOOSE f \in (Written \cup {5}) :
                  f > n /\ \A g \in Written \cup {5} : g > n => f <= g

Writes(r) ==
  /\ pc = "save"
  /\ \A q \in Ranks : progress[q].begun >= 0    \* the all_gather of host names
  /\ PhaseOf(r) = phase

\* torch.save opens, and truncates, the next file of rank r ...
WriteBegin(r) ==
  /\ Writes(r)
  /\ progress[r].begun = progress[r].ended /\ FileAfter(progress[r].ended) # 5
  /\ progress' = [progress EXCEPT ![r].begun = FileAfter(@)]
  /\ files' = [files EXCEPT ![step][r][FileAfter(progress[r].ended)] = Torn]
  /\ UNCHANGED <<placement, dirs, tracker, leftover, pc, step, pass, phase,
                 history>>

\* ... and has written all of it.
WriteEnd(r) ==
  /\ Writes(r)
  /\ progress[r].begun > progress[r].ended
  /\ progress' = [progress EXCEPT ![r].ended = progress[r].begun]
  /\ files' = [files EXCEPT ![step][r][progress[r].begun] = Start]
  /\ UNCHANGED <<placement, dirs, tracker, leftover, pc, step, pass, phase,
                 history>>

HasWritten(r) == progress[r].begun = progress[r].ended /\ FileAfter(progress[r].ended) = 5

\* The barrier after each phase; execute_all_sync returns after the last.
PhaseBarrier ==
  /\ pc = "save"
  /\ \A r \in Ranks : progress[r].begun >= 0
  /\ \A r \in Ranks : PhaseOf(r) = phase => HasWritten(r)
  /\ phase' = phase + 1
  /\ pc' = IF \E r \in Ranks : PhaseOf(r) > phase THEN "save" ELSE "tracker"
  /\ UNCHANGED <<placement, disk, step, pass, progress, history>>

\* checkpoint_N.pt, which no restart reads, then write_text opens, and
\* truncates, latest_checkpointed_iteration.txt ...
TrackerOpen ==
  /\ pc = "tracker"
  /\ tracker' = EmptyTracker
  /\ pc' = "trackerText"
  /\ UNCHANGED <<placement, dirs, files, leftover, step, pass, phase, progress,
                 history>>

\* ... and writes the step.
TrackerWrite ==
  /\ pc = "trackerText"
  /\ tracker' = step
  /\ pc' = "pruneControllerAfter"
  /\ UNCHANGED <<placement, dirs, files, leftover, step, pass, phase, progress,
                 history>>

-----------------------------------------------------------------------------
(* Crash and restart *)

\* A process dies and takes the job with it; the disks keep what they hold.
Crash ==
  /\ pc \notin {"down", "finished"} /\ Start < MaxStarts
  /\ pc' = "down"
  /\ reached' = step
  /\ crashes' = crashes + 1
  /\ removing' = FALSE /\ cursor' = 0 /\ phase' = 0 /\ progress' = Idle
  /\ UNCHANGED <<placement, disk, step, trainings>>

Found == dirs[placement.controller]

\* Mutants: the highest directory, whatever the tracker says; the lowest one.
MutHighest == IF Found = {} THEN 0 ELSE CHOOSE s \in Found : \A t \in Found : s >= t
MutLowest  == IF Found = {} THEN 0 ELSE CHOOSE s \in Found : \A t \in Found : s <= t

\* _find_latest_ray_checkpoint: the tracker's step if its actor directory is
\* there, else the highest directory there is (0: start from scratch).
Latest ==
  IF tracker \in Found THEN tracker
  ELSE IF Found = {} THEN 0
  ELSE CHOOSE s \in Found : \A t \in Found : s >= t

\* load_checkpoint of rank r raises: no model, no parameter state although the
\* optimizer has one, or a file torch.load cannot read.  A missing optim_ or
\* extra_state_ file is passed over.
LoadRaises(s, r) ==
  \/ files[s][r][Model] = Absent
  \/ HasParameterState /\ files[s][r][Parameter] = Absent
  \/ \E f \in Written : files[s][r][f] = Torn

\* All files of all ranks are there, and of one save.
Complete(s) ==
  \E start \in Starts : \A r \in Ranks : \A f \in Written : files[s][r][f] = start

\* _try_resume_ray_checkpoint, with checkpointing.resume on.
Resume ==
  /\ pc = "down" /\ TRUE \in ResumeFlags
  /\ Latest # 0 => \A r \in Ranks : ~LoadRaises(Latest, r)
  /\ step' = Latest
  /\ pc' = "train"
  /\ UNCHANGED <<placement, disk, pass, phase, progress, history>>

\* Some rank's load raises: the job ends again, and its next start does the same.
ResumeRaise ==
  /\ pc = "down" /\ TRUE \in ResumeFlags
  /\ Latest # 0 /\ \E r \in Ranks : LoadRaises(Latest, r)
  /\ UNCHANGED vars

\* ... with checkpointing.resume off: a training from scratch, whatever earlier
\* ones have left in checkpoint_dir.
StartFresh ==
  /\ pc \in {"down", "finished"} /\ FALSE \in ResumeFlags
  /\ Start < MaxStarts
  /\ trainings' = trainings + 1
  /\ step' = 0 /\ reached' = 0
  /\ pc' = "train"
  /\ UNCHANGED <<placement, disk, pass, phase, progress, crashes>>

Finished == pc = "finished" /\ UNCHANGED vars

-----------------------------------------------------------------------------
Next ==
  \/ Train \/ Finish \/ PruneBegin \/ PruneEnd \/ PruneFail \/ PruneDone \/ MakeDir
  \/ \E r \in Ranks : ActorMakeDir(r) \/ WriteBegin(r) \/ WriteEnd(r)
  \/ PhaseBarrier \/ TrackerOpen \/ TrackerWrite
  \/ Crash \/ Resume \/ ResumeRaise \/ StartFresh \/ Finished

Spec == Init /\ [][Next]_vars

\* The job keeps running, and is started again after a crash.
Progress == \/ Train \/ Finish \/ PruneBegin \/ PruneEnd \/ PruneFail \/ PruneDone
            \/ MakeDir
            \/ \E r \in Ranks : ActorMakeDir(r) \/ WriteBegin(r) \/ WriteEnd(r)
            \/ PhaseBarrier \/ TrackerOpen \/ TrackerWrite \/ Resume
FairSpec == Spec /\ WF_vars(Progress)

-----------------------------------------------------------------------------
(* Properties *)

\* The checkpoints of a node that no failed removal has left there.
Live(n) == IF n = placement.controller THEN dirs[n] \ leftover ELSE dirs[n]

\* The comment in _save_ray_controller_checkpoint: "Prune on the owning node
\* before writing so checkpoint peak usage never exceeds save_total_limit."  It
\* holds on the controller's node and on that of rank 0, the only ones pruned,
\* through crashes and new trainings in the same directory, except for what the
\* controller's rmtree could not remove.
PeakUsage ==
  /\ TypeOK
  /\ \A n \in {placement.controller, Home(0)} : Cardinality(Live(n)) <= Limit

\* In a directory that only one training has written to, what the tracker names
\* is a complete checkpoint of one save: neither pruning nor a later, interrupted
\* save of whatever step ever damages it.
TrackedIsComplete ==
  trainings = 1 /\ tracker \in SavePoints => Complete(tracker)

\* A restart of the only training of its directory repeats at most SaveInterval
\* steps of what the job had done and, if the tracker can be read, restores the
\* whole of the save it names.
BoundedRedo ==
  [][Resume /\ trainings = 1 =>
       /\ reached - step' <= SaveInterval
       /\ tracker \in SavePoints => step' = tracker /\ Complete(tracker)]_vars

\* Once no more crash comes, a job that is running gets to its end, and so does
\* one that is down, if its training is the only one of the directory and the
\* tracker can be read.
FinishesOnceTracked ==
  (/\ Start = MaxStarts
   /\ pc = "down" => trainings = 1 /\ tracker \in SavePoints) ~> (pc = "finished")
=============================================================================

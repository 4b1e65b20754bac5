--------------------------- MODULE FileCheckpoint ---------------------------
(***************************************************************************)
(* The one-file checkpoints of the trainers that do not use the Ray        *)
(* controller: CheckpointCallback.on_step_end (trainer/callbacks.py),      *)
(* CheckpointManager (utils/checkpoint.py), and the two restarts that read *)
(* them, RLTrainer._try_resume_checkpoint ("rl") and                       *)
(* SpecDistillTrainer._resume_from_checkpoint ("sddd").                    *)
(*                                                                         *)
(* Rank 0 writes checkpoint_<step>.pt in place.  The job may be killed     *)
(* between any two file operations and is then started again, with or      *)
(* without checkpointing.resume.                                           *)
(***************************************************************************)
EXTENDS Integers, FiniteSets

CONSTANTS
  Kinds,         \* trainers considered, a subset of {"rl", "sddd"}
  SaveInterval,  \* checkpointing.save_steps
  Limit,         \* checkpointing.save_total_limit
  Total,         \* num_training_steps
  ResumeFlags,   \* values checkpointing.resume may have at a start
  UnlinkMayFail, \* removing an old file may raise an OSError
  MaxCrashes     \* bound on the crashes of one behaviour

ASSUME FileCheckpointAssumption ==
  /\ Kinds \subseteq {"rl", "sddd"} /\ ResumeFlags \subseteq BOOLEAN
  /\ SaveInterval \in Nat \ {0} /\ Limit \in Nat \ {0}
  /\ Total \in Nat /\ MaxCrashes \in Nat /\ UnlinkMayFail \in BOOLEAN

SavePoints == {s \in 1 .. Total : s % SaveInterval = 0}
Runs       == 1 .. (MaxCrashes + 1)
Epochs     == 0 .. (Total + MaxCrashes)

VARIABLES
  kind,                \* which trainer
  names, torn, saved,  \* the directory: files, the truncated ones, payloads
  leftover,            \* history: the files a failed unlink has left
  pc, step, epoch,     \* the process: updates done, scheduler.last_epoch
  cursor,              \* pruning: the last entry that could not be removed
  run,                 \* which training from scratch the weights belong to
  last, reached, fresh, crashes \* history

disk == <<names, torn, saved, leftover>>
vars == <<kind, disk, pc, step, epoch, cursor, run, last, reached, fresh, crashes>>

Payloads == [run : Runs, step : 0 .. Total, epoch : Epochs]

\* Every variable has its type.
TypeOK ==
  /\ kind \in Kinds
  /\ names \subseteq SavePoints /\ torn \subseteq names /\ leftover \subseteq names
  /\ saved \in [SavePoints -> Payloads]
  /\ pc \in {"down", "train", "prune", "write", "finished", "broken"}
  /\ step \in 0 .. Total /\ epoch \in Epochs /\ run \in Runs
  /\ cursor \in 0 .. Total /\ last \in 0 .. Total /\ reached \in 0 .. Total
  /\ fresh \in 0 .. (MaxCrashes + 1) /\ crashes \in 0 .. MaxCrashes

Init ==
  /\ kind \in Kinds
  /\ names = {} /\ torn = {} /\ leftover = {} /\ cursor = 0
  /\ saved = [s \in SavePoints |-> [run |-> 1, step |-> 0, epoch |-> 0]]
  /\ pc = "down" /\ step = 0 /\ epoch = 0 /\ run = 1
  /\ last = 0 /\ reached = 0 /\ fresh = 0 /\ crashes = 0

Oldest(S) == CHOOSE s \in S : \A t \in S : s <= t
Newest(S) == CHOOSE s \in S : \A t \in S : t <= s

-----------------------------------------------------------------------------
(* Starting the job *)

\* checkpointing.resume is off, or the directory has no checkpoint.
StartFresh ==
  /\ pc \in {"down", "broken"}
  /\ \E resume \in ResumeFlags : resume => names = {}
  /\ fresh <= MaxCrashes
  /\ pc' = "train" /\ step' = 0 /\ epoch' = 0
  /\ run' = fresh + 1 /\ fresh' = fresh + 1 /\ last' = 0 /\ reached' = 0
  /\ UNCHANGED <<kind, disk, cursor, crashes>>

\* Mutant: the oldest file is taken.
MutRestored == saved[Oldest(names)]

\* get_latest and max(ckpt_files): the file with the highest number.
Restored == saved[Newest(names)]

\* Mutant: the restored scheduler is stepped once for every resumed step too.
MutRestoredEpoch ==
  IF kind = "sddd" THEN (Restored.epoch + Restored.step) % (Total + MaxCrashes + 1) ELSE 0

\* The SDDD trainer sets last_epoch and then steps the scheduler.  The RL
\* trainer's optimizer is the engine's AdamW, which has no scheduler to save or
\* restore: the engine's own schedule starts at 0 again.
RestoredEpoch == IF kind = "sddd" THEN Restored.epoch + 1 ELSE 0

\* The latest file can be read: weights, optimizer and step come from it.
Resume ==
  /\ pc \in {"down", "broken"}
  /\ TRUE \in ResumeFlags /\ names # {} /\ Newest(names) \notin torn
  /\ pc' = "train"
  /\ step' = Restored.step /\ run' = Restored.run /\ epoch' = RestoredEpoch
  /\ UNCHANGED <<kind, disk, cursor, last, reached, fresh, crashes>>

\* The latest file is truncated: torch.load raises and setup fails.
StartFails ==
  /\ pc = "down"
  /\ TRUE \in ResumeFlags /\ names # {} /\ Newest(names) \in torn
  /\ pc' = "broken"
  /\ UNCHANGED <<kind, disk, cursor, step, epoch, run, last, reached, fresh, crashes>>

-----------------------------------------------------------------------------
(* Training and saving *)

\* on_step_end saves after the s-th step.
Due(s) == s % SaveInterval = 0

\* One update: optimizer and scheduler step once.
Train ==
  /\ pc = "train" /\ step < Total
  /\ step' = step + 1
  /\ epoch' = epoch + 1
  /\ reached' = IF step + 1 > reached THEN step + 1 ELSE reached
  /\ pc' = IF Due(step + 1) THEN "prune" ELSE "train"
  /\ UNCHANGED <<kind, disk, cursor, run, last, fresh, crashes>>

\* Mutant: the end is tested against one step too many.
MutFinish ==
  /\ pc = "train" /\ step = Total + 1
  /\ pc' = "finished"
  /\ UNCHANGED <<kind, disk, cursor, step, epoch, run, last, reached, fresh, crashes>>

Finish ==
  /\ pc = "train" /\ step = Total
  /\ pc' = "finished"
  /\ UNCHANGED <<kind, disk, cursor, step, epoch, run, last, reached, fresh, crashes>>

\* What is left of the sorted list of files in this pruning pass: entries that
\* could not be removed are popped like the others.
Listing == {n \in names : n > cursor}

\* Mutants: the new file is not counted; the newest is removed first.
MutKeep   == Limit
MutVictim == Newest(Listing)

\* _prune_old_checkpoints runs before the write, with room for the new file.
Keep == Limit - 1

\* The files are removed in the order of their numbers.
Victim == Oldest(Listing)

\* One unlink of the pruning loop.
Prune ==
  /\ pc = "prune" /\ Cardinality(Listing) > Keep
  /\ names' = names \ {Victim} /\ torn' = torn \ {Victim}
  /\ leftover' = leftover \ {Victim}
  /\ UNCHANGED <<kind, saved, pc, step, epoch, cursor, run, last, reached, fresh, crashes>>

\* The unlink raises an OSError, which the loop swallows: the file stays.
PruneFail ==
  /\ pc = "prune" /\ Cardinality(Listing) > Keep
  /\ UnlinkMayFail
  /\ leftover' = leftover \cup {Victim}
  /\ cursor' = Victim
  /\ UNCHANGED <<kind, names, torn, saved, pc, step, epoch, run, last, reached, fresh,
                 crashes>>

\* torch.save opens, and truncates, the file under its final name.
BeginWrite ==
  /\ pc = "prune" /\ Cardinality(Listing) <= Keep
  /\ names' = names \cup {step} /\ torn' = torn \cup {step}
  /\ leftover' = leftover \ {step}
  /\ pc' = "write" /\ cursor' = 0
  /\ UNCHANGED <<kind, saved, step, epoch, run, last, reached, fresh, crashes>>

\* The file is complete; the ranks meet at the barrier and go on.
EndWrite ==
  /\ pc = "write"
  /\ torn' = torn \ {step}
  /\ saved' = [saved EXCEPT ![step] = [run |-> run, step |-> step, epoch |-> epoch]]
  /\ last' = step /\ pc' = "train"
  /\ UNCHANGED <<kind, names, leftover, step, epoch, cursor, run, reached, fresh, crashes>>

\* The job is killed; what was being written stays truncated.
Crash ==
  /\ pc \in {"train", "prune", "write"} /\ crashes < MaxCrashes
  /\ crashes' = crashes + 1 /\ pc' = "down" /\ cursor' = 0
  /\ UNCHANGED <<kind, disk, step, epoch, run, last, reached, fresh>>

Stopped == pc \in {"finished", "broken"} /\ UNCHANGED vars

Steps == StartFresh \/ Resume \/ StartFails \/ Train \/ Finish \/ Prune
           \/ PruneFail \/ BeginWrite \/ EndWrite

Next == Steps \/ Crash \/ Stopped

Spec     == Init /\ [][Next]_vars
\* The process runs until it ends or dies, and a dead job is started again.
FairSpec == Spec /\ WF_vars(Steps)

-----------------------------------------------------------------------------
(* Properties *)

\* on_step_end prunes before writing for a peak of save_total_limit files, the one
\* being written included.  That is what there is, in every order of crashes,
\* restarts and new trainings, beside the files whose unlink failed.
PeakUsage == TypeOK /\ Cardinality(names \ leftover) <= Limit

\* In a directory that only one training has written to, the newest completed
\* checkpoint is still there, whole, unless a limit of 1 made on_step_end remove
\* it before its successor was written.
NewestKept == fresh = 1 /\ last # 0 /\ Limit > 1 => last \in names \ torn

\* How far the learning-rate schedule is from the number of updates: on it until
\* the first restart, then ahead by at most one per restart of the SDDD trainer
\* (scheduler.step() after last_epoch is set) and behind, back in the warm-up,
\* for the RL trainer.
ScheduleDrift ==
  /\ crashes = 0 => epoch = step
  /\ kind = "sddd" => epoch \in step .. (step + crashes)
  /\ kind = "rl"   => epoch <= step

\* No file that should be gone can be taken for the newest one.  (With a limit of
\* 1, an older file that could not be removed is all there is until the next save.)
NoStaleFile == Limit > 1 \/ ~UnlinkMayFail

\* A restart that resumes the only training of its directory repeats at most
\* the steps since the last save, and never goes back behind that save.
BoundedRedo ==
  [][Resume /\ fresh = 1 /\ NoStaleFile =>
       step' >= last /\ reached - step' <= SaveInterval]_vars

\* The job finishes, or a start fails on a truncated file.
EndsOrBreaks == <>(pc \in {"finished", "broken"})
=============================================================================

-------------------------- MODULE RayTrainingProofs -------------------------
(***************************************************************************)
(* Proofs about RayTraining, for any number of replicas, steps, rounds and *)
(* every configuration: as long as the sleep after a validation does not   *)
(* fail (only the drain before it may), a replica only generates when it   *)
(* is mapped and up to date, the actors train while all replicas are       *)
(* asleep, and the loop implements on-policy training.                     *)
(***************************************************************************)
EXTENDS RayTraining, NumberLemmas

RESTING == {"step", "generate", "validate", "stepEnd", "update"}
ENDED   == {"done", "failed", "ended"}
ROLLING == {"generate", "generating", "sleep", "drainJoin", "sleepJoin"}
LOADING == {"transfer", "transferJoin", "wakeCache", "wakeCacheJoin"}
SYNCING == {"sync", "wakeWeights", "wakeWeightsJoin"} \cup LOADING
Places  == RESTING \cup ENDED \cup ROLLING \cup SYNCING

Streams == job.backend \in {"ipc", "rdma"}

-----------------------------------------------------------------------------
(* The controller *)

\* Whether the update of the current step has been applied.
Updated ==
  \/ pc \in {"validate", "stepEnd"}
  \/ pc \in ROLLING /\ phase = "validation"
  \/ pc \in SYNCING /\ (ret = "validate" \/ (ret = "generate" /\ phase = "validation"))

\* The samples of the current step may be incomplete.
Sampling ==
  /\ phase = "rollout"
  /\ pc \in {"generate", "generating"} \/ (pc \in SYNCING /\ ret = "generate")

\* The samples of the current step are complete.
Sampled == pc = "update" \/ (pc \in {"sleep", "drainJoin", "sleepJoin"} /\ phase = "rollout")

CtlType ==
  /\ job \in Jobs /\ pc \in Places /\ ret \in {"step", "generate", "validate"}
  /\ phase \in {"rollout", "validation"} /\ sleeping \in BOOLEAN
  /\ turn \in Nat /\ rounds \in Nat /\ kept \in 0 .. TrainPrompts
  /\ disk \in {Lost} \cup 0 .. Total

VersionInv ==
  /\ version <= Total
  /\ pc \notin ENDED => version = IF Updated THEN step + 1 ELSE step
  /\ pc \in ROLLING \cup {"update", "validate", "stepEnd"} => step < Total
  /\ pc \in SYNCING /\ ret # "step" => step < Total
  /\ pc \in {"wakeWeights", "wakeWeightsJoin", "transfer", "transferJoin"} /\ ~Streams =>
       disk = version

BatchInv ==
  /\ Sampling => batch \subseteq {version}
  /\ Sampled => batch = {version}
  /\ pc \notin ENDED /\ ~Sampling /\ ~Sampled => batch = {}

SleepInv ==
  /\ sleeping => job.sleep
  /\ pc \in {"generating", "sleep", "drainJoin"} \cup LOADING => ~sleeping
  /\ pc = "update" => sleeping = job.sleep
  /\ pc \in {"drainJoin", "sleepJoin", "wakeWeightsJoin", "wakeCacheJoin"} => job.sleep
  /\ pc \in {"wakeWeights", "wakeWeightsJoin"} => turn = 1
  /\ pc \in {"transfer", "transferJoin"} => turn \in Replicas
  /\ pc = "sleepJoin" /\ phase = "validation" => errors = {}

-----------------------------------------------------------------------------
(* A replica *)

Fresh(b)  == awake[b] = Pools /\ weights[b] = version /\ cached[b] \subseteq {version}
Loaded(b) == weights[b] = version /\ cached[b] = {}

\* The calls that may be pending on a replica.  A drain may still be, after the
\* exception of another replica's drain was swallowed.
Pending ==
  CASE pc = "generating"      -> {"generate", "drain"}
    [] pc = "sleepJoin"       -> {"sleep"}
    [] pc = "wakeWeightsJoin" -> {"weights", "drain"}
    [] pc = "transferJoin"    -> {"load", "reset", "drain"}
    [] pc = "wakeCacheJoin"   -> {"kv_cache", "drain"}
    [] OTHER                  -> {"drain"}

ReplicaInv(b) ==
  /\ pc \notin ENDED => calls[b] \subseteq Pending
  /\ pc \in {"generating", "sleep", "drainJoin"} \/ (pc \in RESTING /\ ~sleeping) => Fresh(b)
  /\ pc \in RESTING /\ sleeping => awake[b] = {}
  /\ pc = "generating" /\ b \in Busy =>
       "generate" \in calls[b] \/ b \in errors \/ drawn[b] = {version}
  /\ pc = "sleepJoin" => "sleep" \in calls[b] \/ b \in errors \/ awake[b] = {}
  /\ pc = "wakeWeightsJoin" => "weights" \in calls[b] \/ b \in errors \/ "weights" \in awake[b]
  /\ pc \in LOADING => "weights" \in awake[b]
  /\ pc = "transfer" /\ b < turn => Loaded(b)
  /\ pc = "transferJoin" /\ (b \in Targets \/ b < turn) =>
       \/ "load" \in calls[b] \/ b \in errors \/ Loaded(b)
       \/ "reset" \in calls[b] /\ weights[b] = version
  /\ pc \in {"wakeCache", "wakeCacheJoin"} => Loaded(b)
  /\ pc = "wakeCacheJoin" => "kv_cache" \in calls[b] \/ b \in errors \/ "kv_cache" \in awake[b]
  /\ "sleep" \in calls[b] => job.sleep
  /\ ~job.sleep => awake[b] = Pools

ServerType ==
  /\ cached = [b \in Replicas |-> cached[b]] /\ drawn = [b \in Replicas |-> drawn[b]]

CtlInv == CtlType /\ VersionInv /\ BatchInv /\ SleepInv
IInv == TypeOK /\ ServerType /\ CtlInv /\ \A b \in Replicas : ReplicaInv(b)

-----------------------------------------------------------------------------
(* Steps of the controller *)

\* What a configuration is.
LEMMA JobFacts ==
  /\ NumReplicas \in Nat \ {0} /\ Total \in Nat \ {0} /\ MaxRounds \in Nat \ {0}
  /\ TrainPrompts \in Nat \ {0} /\ ValBatches \in Nat \ {0}
  /\ CtlType => /\ job.backend \in Backends /\ job.sleep \in BOOLEAN /\ job.sync \in BOOLEAN
                /\ job.filter \in BOOLEAN /\ job.valSteps \in Nat /\ job.requests \in Nat \ {0}
                /\ job.start \in 0 .. Total /\ (job.sync \/ job.sleep)
  BY RayTrainingAssumption DEF CtlType

USE DEF RESTING, ENDED, ROLLING, LOADING, SYNCING, Places, Goto, Stay, ctlVars, serverVars

\* A round that was joined has samples of the current version only, and some: the
\* first replica always has a request.
LEMMA SamplesFresh ==
  ASSUME IInv, pc = "generating", Joined("generate")
  PROVE  Samples = {version}
<1>1. \A b \in Busy : drawn[b] = {version}
  BY DEF IInv, ReplicaInv, Joined, Busy
<1>2. 1 \in Busy
  BY JobFacts DEF Busy, Replicas, IInv, CtlInv
<1> QED
  BY <1>1, <1>2 DEF Samples

\* A step starts with no samples, on replicas that are up to date or asleep.
LEMMA BeginStepStep ==
  ASSUME IInv, BeginStep
  PROVE  IInv'
<1> USE JobFacts
<1>1. TypeOK' /\ ServerType'
  BY DEF IInv, TypeOK, ServerType, BeginStep
<1>2. CtlType' /\ VersionInv'
  BY DEF IInv, CtlInv, CtlType, VersionInv, Updated, BeginStep
<1>3. BatchInv'
  BY DEF BatchInv, Sampled, BeginStep
<1>4. SleepInv'
  BY DEF IInv, CtlInv, SleepInv, BeginStep
<1>5. ASSUME NEW b \in Replicas PROVE ReplicaInv(b)'
  <2>1. ReplicaInv(b)
    BY DEF IInv
  <2> QED
    BY <2>1 DEF ReplicaInv, Pending, Fresh, BeginStep
<1> QED
  BY <1>1, <1>2, <1>3, <1>4, <1>5 DEF IInv, CtlInv

\* The last step is over.
LEMMA FinishTrainingStep ==
  ASSUME IInv, FinishTraining
  PROVE  IInv'
<1> USE JobFacts
<1>1. TypeOK' /\ ServerType'
  BY DEF IInv, TypeOK, ServerType, FinishTraining
<1>2. CtlType' /\ VersionInv'
  BY DEF IInv, CtlInv, CtlType, VersionInv, FinishTraining
<1>3. BatchInv'
  BY DEF BatchInv, Sampling, Sampled, FinishTraining
<1>4. SleepInv'
  BY DEF IInv, CtlInv, SleepInv, FinishTraining
<1>5. ASSUME NEW b \in Replicas PROVE ReplicaInv(b)'
  <2>1. ReplicaInv(b)
    BY DEF IInv
  <2> QED
    BY <2>1 DEF ReplicaInv, FinishTraining
<1> QED
  BY <1>1, <1>2, <1>3, <1>4, <1>5 DEF IInv, CtlInv

\* A sleeping engine is refreshed first; otherwise the replicas are ready.
LEMMA GenerateStep ==
  ASSUME IInv, Generate
  PROVE  IInv'
<1> USE JobFacts
<1>1. TypeOK' /\ ServerType'
  BY DEF IInv, TypeOK, ServerType, Generate, Fanout
<1>2. CtlType' /\ VersionInv'
  BY DEF IInv, CtlInv, CtlType, VersionInv, Updated, Generate
<1>3. BatchInv'
  BY DEF IInv, CtlInv, BatchInv, Sampling, Sampled, Generate
<1>4. SleepInv'
  BY DEF IInv, CtlInv, SleepInv, Generate
<1>5. ASSUME NEW b \in Replicas PROVE ReplicaInv(b)'
  <2>1. ReplicaInv(b)
    BY DEF IInv
  <2> QED
    BY <2>1 DEF ReplicaInv, Pending, Fresh, Generate, Fanout, Busy
<1> QED
  BY <1>1, <1>2, <1>3, <1>4, <1>5 DEF IInv, CtlInv

\* A rollout round adds samples of the current version.
LEMMA EndRoundStep ==
  ASSUME IInv, EndRound
  PROVE  IInv'
<1> USE JobFacts
<1>1. TypeOK' /\ ServerType'
  BY DEF IInv, TypeOK, ServerType, EndRound
<1>2. CtlType' /\ VersionInv'
  BY DEF IInv, CtlInv, CtlType, VersionInv, Updated, EndRound
<1>3. BatchInv'
  BY SamplesFresh DEF IInv, CtlInv, BatchInv, Sampling, Sampled, EndRound
<1>4. SleepInv'
  BY DEF IInv, CtlInv, SleepInv, EndRound
<1>5. ASSUME NEW b \in Replicas PROVE ReplicaInv(b)'
  <2>1. ReplicaInv(b)
    BY DEF IInv
  <2> QED
    BY <2>1 DEF IInv, CtlInv, SleepInv, ReplicaInv, Pending, Fresh, EndRound, Joined
<1> QED
  BY <1>1, <1>2, <1>3, <1>4, <1>5 DEF IInv, CtlInv

\* A validation batch adds none.
LEMMA EndValidationStep ==
  ASSUME IInv, EndValidation
  PROVE  IInv'
<1> USE JobFacts
<1>1. TypeOK' /\ ServerType'
  BY DEF IInv, TypeOK, ServerType, EndValidation
<1>2. CtlType' /\ VersionInv'
  BY DEF IInv, CtlInv, CtlType, VersionInv, Updated, EndValidation
<1>3. BatchInv'
  BY DEF IInv, CtlInv, BatchInv, Sampling, Sampled, EndValidation
<1>4. SleepInv'
  BY DEF IInv, CtlInv, SleepInv, EndValidation
<1>5. ASSUME NEW b \in Replicas PROVE ReplicaInv(b)'
  <2>1. ReplicaInv(b)
    BY DEF IInv
  <2> QED
    BY <2>1 DEF IInv, CtlInv, SleepInv, ReplicaInv, Pending, Fresh, EndValidation, Joined
<1> QED
  BY <1>1, <1>2, <1>3, <1>4, <1>5 DEF IInv, CtlInv

\* Without sleep the replicas stay as they are, up to date.
LEMMA DrainStep ==
  ASSUME IInv, Drain
  PROVE  IInv'
<1> USE JobFacts
<1>1. TypeOK' /\ ServerType'
  BY DEF IInv, TypeOK, ServerType, Drain, Fanout
<1>2. CtlType' /\ VersionInv'
  BY DEF IInv, CtlInv, CtlType, VersionInv, Updated, Drain, AfterSleep
<1>3. BatchInv'
  BY DEF IInv, CtlInv, BatchInv, Sampling, Sampled, Drain, AfterSleep
<1>4. SleepInv'
  BY DEF IInv, CtlInv, CtlType, SleepInv, Drain, AfterSleep
<1>5. ASSUME NEW b \in Replicas PROVE ReplicaInv(b)'
  <2>1. ReplicaInv(b)
    BY DEF IInv
  <2> QED
    BY <2>1 DEF IInv, CtlInv, SleepInv, ReplicaInv, Pending, Fresh, Drain, Fanout, AfterSleep
<1> QED
  BY <1>1, <1>2, <1>3, <1>4, <1>5 DEF IInv, CtlInv

\* After the drain no other call is pending.
LEMMA SleepStep ==
  ASSUME IInv, Sleep
  PROVE  IInv'
<1> USE JobFacts
<1>1. TypeOK' /\ ServerType'
  BY DEF IInv, TypeOK, ServerType, Sleep, Fanout
<1>2. CtlType' /\ VersionInv'
  BY DEF IInv, CtlInv, CtlType, VersionInv, Updated, Sleep
<1>3. BatchInv'
  BY DEF IInv, CtlInv, BatchInv, Sampling, Sampled, Sleep
<1>4. SleepInv'
  BY DEF IInv, CtlInv, SleepInv, Sleep, Joined
<1>5. ASSUME NEW b \in Replicas PROVE ReplicaInv(b)'
  <2>1. ReplicaInv(b)
    BY DEF IInv
  <2> QED
    BY <2>1 DEF IInv, CtlInv, SleepInv, ReplicaInv, Pending, Sleep, Fanout, Joined
<1> QED
  BY <1>1, <1>2, <1>3, <1>4, <1>5 DEF IInv, CtlInv

\* The flag is set once every replica has slept.
LEMMA SleepJoinStep ==
  ASSUME IInv, SleepJoin
  PROVE  IInv'
<1> USE JobFacts
<1>1. TypeOK' /\ ServerType'
  BY DEF IInv, TypeOK, ServerType, SleepJoin
<1>2. CtlType' /\ VersionInv'
  BY DEF IInv, CtlInv, CtlType, VersionInv, Updated, SleepJoin, AfterSleep
<1>3. BatchInv'
  BY DEF IInv, CtlInv, BatchInv, Sampling, Sampled, SleepJoin, AfterSleep
<1>4. SleepInv'
  BY DEF IInv, CtlInv, SleepInv, SleepJoin, AfterSleep
<1>5. ASSUME NEW b \in Replicas PROVE ReplicaInv(b)'
  <2>1. ReplicaInv(b)
    BY DEF IInv
  <2> QED
    BY <2>1 DEF ReplicaInv, Pending, SleepJoin, Joined, AfterSleep
<1> QED
  BY <1>1, <1>2, <1>3, <1>4, <1>5 DEF IInv, CtlInv

\* The actors move on: a replica that is awake is out of date until the
\* synchronisation that follows, which a configuration without sleep has.
LEMMA UpdateStep ==
  ASSUME IInv, Update
  PROVE  IInv'
<1> USE JobFacts
<1>1. TypeOK' /\ ServerType'
  BY DEF IInv, TypeOK, ServerType, CtlInv, VersionInv, Updated, Update
<1>2. CtlType' /\ VersionInv'
  BY DEF IInv, TypeOK, CtlInv, CtlType, VersionInv, Updated, Update
<1>3. BatchInv'
  BY DEF BatchInv, Sampled, Update
<1>4. SleepInv'
  BY DEF IInv, CtlInv, SleepInv, Update
<1>5. ASSUME NEW b \in Replicas PROVE ReplicaInv(b)'
  <2>1. ReplicaInv(b)
    BY DEF IInv
  <2> QED
    BY <2>1 DEF IInv, CtlInv, SleepInv, ReplicaInv, Pending, Update
<1> QED
  BY <1>1, <1>2, <1>3, <1>4, <1>5 DEF IInv, CtlInv

\* A validation generates with the new version.
LEMMA ValidateStep ==
  ASSUME IInv, Validate
  PROVE  IInv'
<1> USE JobFacts
<1>1. TypeOK' /\ ServerType'
  BY DEF IInv, TypeOK, ServerType, Validate
<1>2. CtlType' /\ VersionInv'
  BY DEF IInv, CtlInv, CtlType, VersionInv, Updated, Validate
<1>3. BatchInv'
  BY DEF IInv, CtlInv, BatchInv, Sampling, Sampled, Validate
<1>4. SleepInv'
  BY DEF IInv, CtlInv, SleepInv, Validate
<1>5. ASSUME NEW b \in Replicas PROVE ReplicaInv(b)'
  <2>1. ReplicaInv(b)
    BY DEF IInv
  <2> QED
    BY <2>1 DEF ReplicaInv, Pending, Fresh, Validate
<1> QED
  BY <1>1, <1>2, <1>3, <1>4, <1>5 DEF IInv, CtlInv

\* The step counter catches up with the version.
LEMMA StepEndStep ==
  ASSUME IInv, StepEnd
  PROVE  IInv'
<1> USE JobFacts
<1>1. TypeOK' /\ ServerType'
  BY DEF IInv, TypeOK, ServerType, CtlInv, VersionInv, Updated, StepEnd
<1>2. CtlType' /\ VersionInv'
  BY DEF IInv, CtlInv, CtlType, VersionInv, Updated, StepEnd
<1>3. BatchInv'
  BY DEF IInv, CtlInv, BatchInv, Sampling, Sampled, StepEnd
<1>4. SleepInv'
  BY DEF IInv, CtlInv, SleepInv, StepEnd
<1>5. ASSUME NEW b \in Replicas PROVE ReplicaInv(b)'
  <2>1. ReplicaInv(b)
    BY DEF IInv
  <2> QED
    BY <2>1 DEF ReplicaInv, Pending, Fresh, StepEnd
<1> QED
  BY <1>1, <1>2, <1>3, <1>4, <1>5 DEF IInv, CtlInv

\* The file backends export the current version.
LEMMA ExportStep ==
  ASSUME IInv, Export
  PROVE  IInv'
<1> USE JobFacts
<1>1. TypeOK' /\ ServerType'
  BY DEF IInv, TypeOK, ServerType, Export
<1>2. CtlType' /\ VersionInv'
  BY DEF IInv, TypeOK, CtlInv, CtlType, VersionInv, Updated, Streams, Backends, Export
<1>3. BatchInv'
  BY DEF IInv, CtlInv, BatchInv, Sampling, Sampled, Export
<1>4. SleepInv'
  BY DEF IInv, CtlInv, SleepInv, Export
<1>5. ASSUME NEW b \in Replicas PROVE ReplicaInv(b)'
  <2>1. ReplicaInv(b)
    BY DEF IInv
  <2> QED
    BY <2>1 DEF ReplicaInv, Pending, Export
<1> QED
  BY <1>1, <1>2, <1>3, <1>4, <1>5 DEF IInv, CtlInv

\* The weight memory is mapped, or always was.
LEMMA WakeWeightsStep ==
  ASSUME IInv, WakeWeights
  PROVE  IInv'
<1> USE JobFacts
<1>1. TypeOK' /\ ServerType'
  BY DEF IInv, TypeOK, ServerType, Pools, WakeWeights, Wake, Fanout
<1>2. CtlType' /\ VersionInv'
  BY DEF IInv, CtlInv, CtlType, VersionInv, Updated, Streams, WakeWeights, Wake
<1>3. BatchInv'
  BY DEF IInv, CtlInv, BatchInv, Sampling, Sampled, WakeWeights, Wake
<1>4. SleepInv'
  BY DEF IInv, CtlInv, SleepInv, Replicas, WakeWeights, Wake
<1>5. ASSUME NEW b \in Replicas PROVE ReplicaInv(b)'
  <2>1. ReplicaInv(b)
    BY DEF IInv
  <2>2. CASE job.sleep
    BY <2>1, <2>2 DEF ReplicaInv, Pending, WakeWeights, Wake, Fanout
  <2>3. CASE ~job.sleep
    BY <2>1, <2>3 DEF IInv, CtlInv, SleepInv, ReplicaInv, Pending, Pools, Replicas,
       WakeWeights, Wake
  <2> QED
    BY <2>2, <2>3
<1> QED
  BY <1>1, <1>2, <1>3, <1>4, <1>5 DEF IInv, CtlInv

\* Every replica has mapped it.
LEMMA WakeWeightsJoinStep ==
  ASSUME IInv, WakeWeightsJoin
  PROVE  IInv'
<1> USE JobFacts
<1>1. TypeOK' /\ ServerType'
  BY DEF IInv, TypeOK, ServerType, WakeWeightsJoin, WakeJoin
<1>2. CtlType' /\ VersionInv'
  BY DEF IInv, CtlInv, CtlType, VersionInv, Updated, Streams, WakeWeightsJoin, WakeJoin
<1>3. BatchInv'
  BY DEF IInv, CtlInv, BatchInv, Sampling, Sampled, WakeWeightsJoin, WakeJoin
<1>4. SleepInv'
  BY DEF IInv, CtlInv, SleepInv, Replicas, WakeWeightsJoin, WakeJoin
<1>5. ASSUME NEW b \in Replicas PROVE ReplicaInv(b)'
  <2>1. ReplicaInv(b)
    BY DEF IInv
  <2> QED
    BY <2>1 DEF IInv, CtlInv, SleepInv, ReplicaInv, Pending, Replicas, WakeWeightsJoin,
       WakeJoin, Joined
<1> QED
  BY <1>1, <1>2, <1>3, <1>4, <1>5 DEF IInv, CtlInv

\* A load is sent to all replicas, or to the next one.
LEMMA TransferStep ==
  ASSUME IInv, Transfer
  PROVE  IInv'
<1> USE JobFacts
<1>1. TypeOK' /\ ServerType'
  BY DEF IInv, TypeOK, ServerType, Transfer, Fanout
<1>2. CtlType' /\ VersionInv'
  BY DEF IInv, CtlInv, CtlType, VersionInv, Updated, Streams, Transfer
<1>3. BatchInv'
  BY DEF IInv, CtlInv, BatchInv, Sampling, Sampled, Transfer
<1>4. SleepInv'
  BY DEF IInv, CtlInv, SleepInv, Transfer
<1>5. ASSUME NEW b \in Replicas PROVE ReplicaInv(b)'
  <2>1. ReplicaInv(b)
    BY DEF IInv
  <2> QED
    BY <2>1 DEF ReplicaInv, Pending, Loaded, Transfer, Fanout, Targets
<1> QED
  BY <1>1, <1>2, <1>3, <1>4, <1>5 DEF IInv, CtlInv

\* The replicas up to this turn are loaded; after the last turn all are.
LEMMA TransferJoinStep ==
  ASSUME IInv, TransferJoin
  PROVE  IInv'
<1> USE JobFacts
<1>1. TypeOK' /\ ServerType'
  BY DEF IInv, TypeOK, ServerType, TransferJoin
<1>2. CtlType' /\ VersionInv'
  BY DEF IInv, CtlInv, CtlType, VersionInv, Updated, Streams, TransferJoin
<1>3. BatchInv'
  BY DEF IInv, CtlInv, BatchInv, Sampling, Sampled, TransferJoin
<1>4. SleepInv'
  BY DEF IInv, CtlInv, SleepInv, Replicas, TransferJoin, LastTurn
<1>5. ASSUME NEW b \in Replicas PROVE ReplicaInv(b)'
  <2>1. ReplicaInv(b)
    BY DEF IInv
  <2>2. "load" \notin calls[b] /\ "reset" \notin calls[b] /\ b \notin errors
    BY DEF TransferJoin, Joined
  <2>3. b \in Targets \/ b < turn => Loaded(b)
    BY <2>1, <2>2 DEF ReplicaInv, TransferJoin
  <2>4. CASE LastTurn
    <3>1. Loaded(b)
      BY <2>3, <2>4 DEF Replicas, LastTurn, Targets
    <3> QED
      BY <2>1, <2>2, <2>4, <3>1 DEF ReplicaInv, Pending, Loaded, TransferJoin
  <2>5. CASE ~LastTurn
    <3>1. b < turn + 1 => Loaded(b)
      BY <2>3, <2>5 DEF IInv, CtlInv, SleepInv, Replicas, Targets, TransferJoin
    <3> QED
      BY <2>1, <2>2, <2>5, <3>1 DEF ReplicaInv, Pending, Loaded, TransferJoin
  <2> QED
    BY <2>4, <2>5
<1> QED
  BY <1>1, <1>2, <1>3, <1>4, <1>5 DEF IInv, CtlInv

\* Without sleep the loaded replicas are ready.
LEMMA WakeCacheStep ==
  ASSUME IInv, WakeCache
  PROVE  IInv'
<1> USE JobFacts
<1>1. TypeOK' /\ ServerType'
  BY DEF IInv, TypeOK, ServerType, Pools, WakeCache, Wake, Fanout
<1>2. CtlType' /\ VersionInv'
  BY DEF IInv, CtlInv, CtlType, VersionInv, Updated, WakeCache, Wake
<1>3. BatchInv'
  BY DEF IInv, CtlInv, CtlType, BatchInv, Sampling, Sampled, WakeCache, Wake
<1>4. SleepInv'
  BY DEF IInv, CtlInv, CtlType, SleepInv, WakeCache, Wake
<1>5. ASSUME NEW b \in Replicas PROVE ReplicaInv(b)'
  <2>1. ReplicaInv(b)
    BY DEF IInv
  <2> QED
    BY <2>1 DEF IInv, CtlInv, CtlType, SleepInv, ReplicaInv, Pending, Fresh, Loaded, WakeCache,
       Wake, Fanout
<1> QED
  BY <1>1, <1>2, <1>3, <1>4, <1>5 DEF IInv, CtlInv

\* With both pools mapped they are ready.
LEMMA WakeCacheJoinStep ==
  ASSUME IInv, WakeCacheJoin
  PROVE  IInv'
<1> USE JobFacts
<1>1. TypeOK' /\ ServerType'
  BY DEF IInv, TypeOK, ServerType, WakeCacheJoin, WakeJoin
<1>2. CtlType' /\ VersionInv'
  BY DEF IInv, CtlInv, CtlType, VersionInv, Updated, WakeCacheJoin, WakeJoin
<1>3. BatchInv'
  BY DEF IInv, CtlInv, CtlType, BatchInv, Sampling, Sampled, WakeCacheJoin, WakeJoin
<1>4. SleepInv'
  BY DEF IInv, CtlInv, CtlType, SleepInv, WakeCacheJoin, WakeJoin
<1>5. ASSUME NEW b \in Replicas PROVE ReplicaInv(b)'
  <2>1. ReplicaInv(b)
    BY DEF IInv
  <2> QED
    BY <2>1 DEF IInv, TypeOK, CtlInv, CtlType, ReplicaInv, Pending, Fresh, Loaded, Pools,
       WakeCacheJoin, WakeJoin, Joined
<1> QED
  BY <1>1, <1>2, <1>3, <1>4, <1>5 DEF IInv, CtlInv

\* After an exception nothing more is promised.
LEMMA RaiseStep ==
  ASSUME IInv, Raise
  PROVE  IInv'
<1> USE JobFacts
<1>1. TypeOK' /\ ServerType'
  BY DEF IInv, TypeOK, ServerType, Raise
<1>2. CtlType' /\ VersionInv'
  BY DEF IInv, CtlInv, CtlType, VersionInv, Raise
<1>3. BatchInv'
  BY DEF BatchInv, Sampling, Sampled, Raise
<1>4. SleepInv'
  BY DEF IInv, CtlInv, SleepInv, Raise
<1>5. ASSUME NEW b \in Replicas PROVE ReplicaInv(b)'
  <2>1. ReplicaInv(b)
    BY DEF IInv
  <2> QED
    BY <2>1 DEF ReplicaInv, Raise
<1> QED
  BY <1>1, <1>2, <1>3, <1>4, <1>5 DEF IInv, CtlInv

\* Only a drain can have raised: no replica sleeps, all are still up to date.
LEMMA SwallowSleepErrorStep ==
  ASSUME IInv, SwallowSleepError
  PROVE  IInv'
<1> USE JobFacts
<1>1. TypeOK' /\ ServerType'
  BY DEF IInv, TypeOK, ServerType, SwallowSleepError
<1>2. CtlType' /\ VersionInv'
  BY DEF IInv, CtlInv, CtlType, VersionInv, Updated, SwallowSleepError, Swallowed
<1>3. BatchInv'
  BY DEF IInv, CtlInv, BatchInv, Sampling, Sampled, SwallowSleepError, Swallowed
<1>4. SleepInv'
  BY DEF IInv, CtlInv, SleepInv, SwallowSleepError
<1>5. ASSUME NEW b \in Replicas PROVE ReplicaInv(b)'
  <2>1. ReplicaInv(b)
    BY DEF IInv
  <2> QED
    BY <2>1 DEF IInv, CtlInv, SleepInv, ReplicaInv, Pending, Fresh, SwallowSleepError, Swallowed
<1> QED
  BY <1>1, <1>2, <1>3, <1>4, <1>5 DEF IInv, CtlInv

\* The replicas are shut down.
LEMMA CleanupStep ==
  ASSUME IInv, Cleanup
  PROVE  IInv'
<1> USE JobFacts
<1>1. TypeOK' /\ ServerType'
  BY DEF IInv, TypeOK, ServerType, Cleanup
<1>2. CtlType' /\ VersionInv'
  BY DEF IInv, CtlInv, CtlType, VersionInv, Cleanup
<1>3. BatchInv'
  BY DEF BatchInv, Sampling, Sampled, Cleanup
<1>4. SleepInv'
  BY DEF IInv, CtlInv, SleepInv, Cleanup
<1>5. ASSUME NEW b \in Replicas PROVE ReplicaInv(b)'
  <2>1. ReplicaInv(b)
    BY DEF IInv
  <2> QED
    BY <2>1 DEF ReplicaInv, Cleanup
<1> QED
  BY <1>1, <1>2, <1>3, <1>4, <1>5 DEF IInv, CtlInv

-----------------------------------------------------------------------------
(* Steps of the replicas *)

\* A step of a replica leaves the controller alone.
LEMMA ControllerFrame ==
  ASSUME CtlInv, UNCHANGED <<ctlVars, pc>>,
         pc = "sleepJoin" /\ phase = "validation" => errors' = {}
  PROVE  CtlInv'
  BY DEF CtlInv, CtlType, VersionInv, BatchInv, SleepInv, Updated, Sampling, Sampled, Streams

\* A replica that a step leaves alone.
LEMMA ReplicaFrame ==
  ASSUME NEW q \in Replicas, ReplicaInv(q), UNCHANGED <<ctlVars, pc>>,
         UNCHANGED <<calls[q], weights[q], awake[q], cached[q], drawn[q]>>,
         q \in errors => q \in errors'
  PROVE  ReplicaInv(q)'
  BY DEF ReplicaInv, Pending, Fresh, Loaded, Busy, Targets

\* A replica generates with the version it holds.
LEMMA ServeGenerateStep ==
  ASSUME IInv, NEW b \in Replicas, ServeGenerate(b)
  PROVE  IInv'
<1> USE JobFacts
<1>1. TypeOK' /\ ServerType'
  BY DEF IInv, TypeOK, ServerType, ServeGenerate
<1>2. CtlInv'
  BY ControllerFrame DEF IInv, ReplicaInv, Pending, ServeGenerate
<1>3. ASSUME NEW q \in Replicas, q # b PROVE ReplicaInv(q)'
  BY <1>3, ReplicaFrame DEF IInv, ServeGenerate
<1>4. ReplicaInv(b)'
  <2>1. ReplicaInv(b)
    BY DEF IInv
  <2> QED
    BY <2>1 DEF IInv, ServerType, ReplicaInv, Pending, Fresh, ServeGenerate
<1> QED
  BY <1>1, <1>2, <1>3, <1>4 DEF IInv

\* A replica has drained.
LEMMA ServeDrainStep ==
  ASSUME IInv, NEW b \in Replicas, ServeDrain(b)
  PROVE  IInv'
<1> USE JobFacts
<1>1. TypeOK' /\ ServerType'
  BY DEF IInv, TypeOK, ServerType, ServeDrain
<1>2. CtlInv'
  BY ControllerFrame DEF IInv, ReplicaInv, Pending, ServeDrain
<1>3. ASSUME NEW q \in Replicas, q # b PROVE ReplicaInv(q)'
  BY <1>3, ReplicaFrame DEF IInv, ServeDrain
<1>4. ReplicaInv(b)'
  <2>1. ReplicaInv(b)
    BY DEF IInv
  <2> QED
    BY <2>1 DEF ReplicaInv, Pending, Fresh, Loaded, Busy, Targets, ServeDrain
<1> QED
  BY <1>1, <1>2, <1>3, <1>4 DEF IInv

\* A replica releases its memory, which only a job with sleep asks for.
LEMMA ServeSleepStep ==
  ASSUME IInv, NEW b \in Replicas, ServeSleep(b)
  PROVE  IInv'
<1> USE JobFacts
<1>1. TypeOK' /\ ServerType'
  BY DEF IInv, TypeOK, ServerType, ServeSleep
<1>2. CtlInv'
  BY ControllerFrame DEF IInv, CtlInv, SleepInv, ServeSleep
<1>3. ASSUME NEW q \in Replicas, q # b PROVE ReplicaInv(q)'
  BY <1>3, ReplicaFrame DEF IInv, ServeSleep
<1>4. ReplicaInv(b)'
  <2>1. ReplicaInv(b)
    BY DEF IInv
  <2> QED
    BY <2>1 DEF IInv, TypeOK, ReplicaInv, Pending, ServeSleep
<1> QED
  BY <1>1, <1>2, <1>3, <1>4 DEF IInv

\* A replica gets the version of the actors or of the disk; its cache is stale
\* until the reset that follows in the same call.
LEMMA ServeLoadStep ==
  ASSUME IInv, NEW b \in Replicas, ServeLoad(b)
  PROVE  IInv'
<1> USE JobFacts
<1>1. TypeOK' /\ ServerType'
  BY DEF IInv, TypeOK, ServerType, CtlInv, CtlType, VersionInv, Sent, ServeLoad
<1>2. CtlInv'
  BY ControllerFrame DEF IInv, ReplicaInv, Pending, ServeLoad
<1>3. ASSUME NEW q \in Replicas, q # b PROVE ReplicaInv(q)'
  BY <1>3, ReplicaFrame DEF IInv, ServeLoad
<1>4. ReplicaInv(b)'
  <2>1. ReplicaInv(b)
    BY DEF IInv
  <2> QED
    BY <2>1 DEF IInv, TypeOK, CtlInv, VersionInv, ReplicaInv, Pending, Streams, Sent, ServeLoad
<1> QED
  BY <1>1, <1>2, <1>3, <1>4 DEF IInv

\* The cache is empty.
LEMMA ServeResetStep ==
  ASSUME IInv, NEW b \in Replicas, ServeReset(b)
  PROVE  IInv'
<1> USE JobFacts
<1>1. TypeOK' /\ ServerType'
  BY DEF IInv, TypeOK, ServerType, ServeReset
<1>2. CtlInv'
  BY ControllerFrame DEF IInv, ReplicaInv, Pending, ServeReset
<1>3. ASSUME NEW q \in Replicas, q # b PROVE ReplicaInv(q)'
  BY <1>3, ReplicaFrame DEF IInv, ServeReset
<1>4. ReplicaInv(b)'
  <2>1. ReplicaInv(b)
    BY DEF IInv
  <2> QED
    BY <2>1 DEF IInv, ServerType, ReplicaInv, Pending, Loaded, Targets, ServeReset
<1> QED
  BY <1>1, <1>2, <1>3, <1>4 DEF IInv

\* A pool is mapped.
LEMMA ServeWakeStep ==
  ASSUME IInv, NEW b \in Replicas, NEW pool \in Pools, ServeWake(b, pool)
  PROVE  IInv'
<1> USE JobFacts
<1>1. TypeOK' /\ ServerType'
  BY DEF IInv, TypeOK, ServerType, ServeWake
<1>2. CtlInv'
  BY ControllerFrame DEF IInv, CtlInv, SleepInv, ServeWake
<1>3. ASSUME NEW q \in Replicas, q # b PROVE ReplicaInv(q)'
  BY <1>3, ReplicaFrame DEF IInv, ServeWake
<1>4. ReplicaInv(b)'
  <2>1. ReplicaInv(b)
    BY DEF IInv
  <2> QED
    BY <2>1 DEF IInv, TypeOK, ReplicaInv, Pending, Loaded, Pools, ServeWake
<1> QED
  BY <1>1, <1>2, <1>3, <1>4 DEF IInv

\* A call raises, and not the sleep after a validation.
LEMMA ServeFailStep ==
  ASSUME IInv, NEW b \in Replicas, NEW call \in calls[b], ~ValidationSleepMayFail,
         ServeFail(b, call)
  PROVE  IInv'
<1> USE JobFacts
<1>1. TypeOK' /\ ServerType'
  BY DEF IInv, TypeOK, ServerType, ServeFail
<1>2. CtlInv'
  BY ControllerFrame DEF IInv, ReplicaInv, Pending, ServeFail
<1>3. ASSUME NEW q \in Replicas, q # b PROVE ReplicaInv(q)'
  BY <1>3, ReplicaFrame DEF IInv, ServeFail
<1>4. ReplicaInv(b)'
  <2>1. ReplicaInv(b)
    BY DEF IInv
  <2> QED
    BY <2>1 DEF ReplicaInv, Pending, Fresh, Loaded, ServeFail
<1> QED
  BY <1>1, <1>2, <1>3, <1>4 DEF IInv

-----------------------------------------------------------------------------
(* Theorems *)

\* The replicas start with the base model, which a run from the start needs; a
\* resumed one begins with a synchronisation.
LEMMA IInvInit == Init => IInv
<1> SUFFICES ASSUME Init PROVE IInv
  OBVIOUS
<1>1. CtlType
  <2>1. pc \in Places
    BY DEF Init, Entry
  <2>2. kept \in 0 .. TrainPrompts
    BY JobFacts DEF Init
  <2> QED
    BY <2>1, <2>2 DEF Init, CtlType
<1>2. TypeOK /\ ServerType
  BY <1>1, JobFacts DEF Init, TypeOK, ServerType
<1>3. VersionInv /\ BatchInv /\ SleepInv
  BY <1>1, JobFacts DEF Init, Entry, VersionInv, BatchInv, SleepInv, Updated, Sampled
<1>4. \A b \in Replicas : ReplicaInv(b)
  BY <1>1, JobFacts DEF Init, Entry, ReplicaInv, Fresh
<1> QED
  BY <1>1, <1>2, <1>3, <1>4 DEF IInv, CtlInv

\* IInv is inductive.
LEMMA IInvStep ==
  ASSUME ~ValidationSleepMayFail, IInv, [Next]_vars
  PROVE  IInv'
<1>1. CASE Control
  BY <1>1, BeginStepStep, FinishTrainingStep, GenerateStep, EndRoundStep, EndValidationStep,
     DrainStep, SleepStep, SleepJoinStep, UpdateStep, ValidateStep, StepEndStep, ExportStep,
     WakeWeightsStep, WakeWeightsJoinStep, TransferStep, TransferJoinStep, WakeCacheStep,
     WakeCacheJoinStep, RaiseStep, SwallowSleepErrorStep, CleanupStep
     DEF Control
<1>2. ASSUME NEW b \in Replicas, Serve(b) PROVE IInv'
  BY <1>2, ServeGenerateStep, ServeDrainStep, ServeSleepStep, ServeLoadStep, ServeResetStep,
     ServeWakeStep, ServeFailStep
     DEF Serve
<1>3. CASE UNCHANGED vars
  <2>1. CtlInv'
    BY <1>3, ControllerFrame DEF vars, IInv, CtlInv, SleepInv
  <2>2. \A q \in Replicas : ReplicaInv(q)'
    BY <1>3, ReplicaFrame DEF vars, IInv
  <2> QED
    BY <1>3, <2>1, <2>2 DEF vars, IInv, TypeOK, ServerType
<1> QED
  BY <1>1, <1>2, <1>3 DEF Next

\* IInv holds in every reachable state.
LEMMA Invariance == ~ValidationSleepMayFail => (Spec => []IInv)
<1> SUFFICES ASSUME ~ValidationSleepMayFail PROVE Spec => []IInv
  OBVIOUS
<1>1. IInv /\ [Next]_vars => IInv'
  BY IInvStep
<1> QED
  BY <1>1, IInvInit, PTL DEF Spec

\* A replica only generates while both its memory pools are mapped, it holds
\* exactly the actors' current weights and its prefix cache holds nothing older:
\* the _sleeping flag that _rollout_with_ray_vllm tests is enough, whichever
\* calls are still running on the replicas and whichever of them raise.
THEOREM RolloutsAreReady == ~ValidationSleepMayFail => (Spec => []GenerateReady)
<1>1. IInv => GenerateReady
  BY DEF IInv, ReplicaInv, Pending, Fresh, GenerateReady
<1> QED
  BY <1>1, Invariance, PTL

\* The values have their types, and with enable_sleep every replica has released
\* its memory before the policy update begins, because VLLMHttpEngine.sleep waits
\* for all of them before it sets the flag.
THEOREM ActorsTrainAlone == ~ValidationSleepMayFail => (Spec => []TrainsAlone)
<1>1. IInv => TrainsAlone
  BY JobFacts DEF IInv, CtlInv, SleepInv, ReplicaInv, TrainsAlone
<1> QED
  BY <1>1, Invariance, PTL

\* A step of the loop is a step of on-policy training or leaves its variables
\* alone: a round adds samples of the current version only, and an update finds
\* nothing else in its batch.
LEMMA StepRefines ==
  ASSUME IInv, [Next]_vars
  PROVE  [OnPolicy!Sample \/ OnPolicy!Update]_<<version, batch>>
<1>1. CASE EndRound
  <2>1. Samples = {version} /\ version < Total
    BY <1>1, JobFacts, SamplesFresh DEF IInv, CtlInv, VersionInv, Updated, EndRound
  <2> QED
    BY <1>1, <2>1 DEF EndRound, OnPolicy!Sample
<1>2. CASE Update
  BY <1>2 DEF IInv, CtlInv, BatchInv, Sampled, Update, OnPolicy!Update
<1>3. CASE BeginStep
  BY <1>3 DEF IInv, CtlInv, BatchInv, Sampling, Sampled, BeginStep
<1>4. CASE Control /\ ~EndRound /\ ~Update /\ ~BeginStep
  BY <1>4 DEF Control, FinishTraining, Generate, EndValidation, Drain, Sleep, SleepJoin,
     Validate,
     StepEnd, Export, Wake, WakeWeights, WakeCache, WakeJoin, WakeWeightsJoin, WakeCacheJoin,
     Transfer, TransferJoin, Raise, SwallowSleepError, Cleanup
<1>5. ASSUME NEW b \in Replicas, Serve(b) PROVE UNCHANGED <<version, batch>>
  BY <1>5 DEF Serve, ServeGenerate, ServeDrain, ServeSleep, ServeLoad, ServeReset, ServeWake,
     ServeFail
<1>6. CASE UNCHANGED vars
  BY <1>6 DEF vars
<1> QED
  BY <1>1, <1>2, <1>3, <1>4, <1>5, <1>6 DEF Next

\* The training loop with its replicas implements on-policy training.
THEOREM LoopIsOnPolicy == ~ValidationSleepMayFail => (Spec => ImplementsOnPolicy)
<1> SUFFICES ASSUME ~ValidationSleepMayFail PROVE Spec => ImplementsOnPolicy
  OBVIOUS
<1>1. Init => OnPolicy!Init
  BY RayTrainingAssumption DEF Init, OnPolicy!Init
<1>2. IInv /\ [Next]_vars => [OnPolicy!Sample \/ OnPolicy!Update]_<<version, batch>>
  BY StepRefines
<1> QED
  BY <1>1, <1>2, Invariance, PTL DEF Spec, ImplementsOnPolicy, OnPolicy!Spec
=============================================================================

---------------------------- MODULE RayTraining ----------------------------
(***************************************************************************)
(* RLTrainer._train_with_ray_controller and the rollout replicas it drives:*)
(* rollout rounds, sleep, update, weight synchronisation, validation.      *)
(*                                                                         *)
(* The controller is one thread.  A fan-out sends one remote call to every *)
(* replica and joins them with ray.get, which raises as soon as one call   *)
(* has failed: the calls to the other replicas are then still running.     *)
(* Replicas are asynchronous Ray actors and serve pending calls in any     *)
(* order.  What a transfer does in detail is BucketedTransfer (IPC) and    *)
(* RdmaBroadcast; here it leaves a replica with the weights of the sender, *)
(* or raises and leaves it with a mixture.                                 *)
(***************************************************************************)
EXTENDS Integers, FiniteSets

CONSTANTS
  NumReplicas,        \* rollout servers of the VLLMReplicaManager
  Total,              \* num_training_steps
  Jobs,               \* configurations, see RayTrainingAssumption
  MaxRounds,          \* filter_groups.max_num_gen_batches
  TrainPrompts,       \* prompt groups a step needs
  ValBatches,         \* batches of one validation
  CallsMayFail,       \* a remote call may raise
  ValidationSleepMayFail \* so may the sleep (not only the drain) after a validation

Backends == {"ipc", "rdma", "path", "http"}

ASSUME RayTrainingAssumption ==
  /\ {NumReplicas, Total, MaxRounds, TrainPrompts, ValBatches} \subseteq Nat \ {0}
  /\ {CallsMayFail, ValidationSleepMayFail} \subseteq BOOLEAN
  /\ \A j \in Jobs :
       /\ j.backend \in Backends
       /\ j.sleep \in BOOLEAN      \* vllm_cfg.enable_sleep
       /\ j.sync \in BOOLEAN       \* weight_sync.enabled
       /\ j.filter \in BOOLEAN     \* dapo.filter_groups.enable
       /\ j.valSteps \in Nat       \* val_steps, 0 for no validation
       /\ j.requests \in Nat \ {0} \* prompts * generations of one round
       /\ j.start \in 0 .. Total   \* step of the checkpoint resumed from
       /\ j.sync \/ j.sleep        \* otherwise nothing refreshes the replicas

Replicas == 1 .. NumReplicas
Pools == {"weights", "kv_cache"}

VARIABLES
  job,      \* the chosen configuration
  pc,       \* where the controller is
  ret,      \* where it goes on after a weight synchronisation
  phase,    \* "rollout" or "validation": who is generating
  step,     \* loop variable of the training loop
  rounds, kept, \* generation rounds and prompt groups kept so far
  sleeping, \* VLLMHttpEngine._sleeping
  turn,     \* the replica a reload from files has come to
  disk,     \* version of the exported safetensors
  version,  \* updates applied to the actor
  batch,    \* versions behind the samples of the current step
  calls,    \* calls[b]: remote calls pending on replica b
  errors,   \* replicas with a call that has raised
  weights,  \* weights[b]: version in the engine of b, Lost or Torn
  awake,    \* awake[b]: memory pools of b that are mapped
  cached,   \* cached[b]: versions behind the blocks of the prefix cache
  drawn     \* drawn[b]: versions behind the samples of b's last call

ctlVars == <<job, ret, phase, step, rounds, kept, sleeping, turn, disk, version, batch>>
serverVars == <<weights, awake, cached, drawn>>
vars == <<ctlVars, pc, calls, errors, serverVars>>

Lost == -1  \* memory released by a level 2 sleep
Torn == -2  \* a load that raised halfway

\* Mutant: the replicas keep the base model after a resume.
MutEntry == "step"

\* A resumed run pushes the restored weights before its first rollout.
Entry == IF job.start > 0 THEN "sync" ELSE "step"

Init ==
  /\ job \in Jobs
  /\ pc = Entry
  /\ ret = "step"
  /\ phase = "rollout"
  /\ step = job.start
  /\ version = job.start
  /\ rounds = 0 /\ kept = 0
  /\ sleeping = FALSE
  /\ turn = 1
  /\ disk = Lost
  /\ batch = {}
  /\ calls = [b \in Replicas |-> {}]
  /\ errors = {}
  /\ weights = [b \in Replicas |-> 0]
  /\ awake = [b \in Replicas |-> Pools]
  /\ cached = [b \in Replicas |-> {}]
  /\ drawn = [b \in Replicas |-> {}]

-----------------------------------------------------------------------------
(* Replicas *)

\* One pending call runs to its end (VLLMRayServer.generate_batch, sleep,
\* wake_up, the weight receivers, reset_prefix_cache).
ServeGenerate(b) ==
  /\ "generate" \in calls[b]
  /\ calls' = [calls EXCEPT ![b] = @ \ {"generate"}]
  /\ drawn' = [drawn EXCEPT ![b] =
                 IF awake[b] = Pools THEN cached[b] \cup {weights[b]} ELSE {Lost}]
  /\ cached' = [cached EXCEPT ![b] = @ \cup {weights[b]}]
  /\ UNCHANGED <<ctlVars, pc, errors, weights, awake>>

\* No unfinished request is left, or the 60 seconds are over.
ServeDrain(b) ==
  /\ "drain" \in calls[b]
  /\ calls' = [calls EXCEPT ![b] = @ \ {"drain"}]
  /\ UNCHANGED <<ctlVars, pc, errors, serverVars>>

ServeSleep(b) ==
  /\ "sleep" \in calls[b]
  /\ calls' = [calls EXCEPT ![b] = @ \ {"sleep"}]
  /\ awake' = [awake EXCEPT ![b] = {}]
  /\ weights' = [weights EXCEPT ![b] = Lost]
  /\ UNCHANGED <<ctlVars, pc, errors, cached, drawn>>

ServeWake(b, pool) ==
  /\ pool \in calls[b]
  /\ calls' = [calls EXCEPT ![b] = @ \ {pool}]
  /\ awake' = [awake EXCEPT ![b] = @ \cup {pool}]
  /\ UNCHANGED <<ctlVars, pc, errors, weights, cached, drawn>>

\* The actors' weights, or those on disk; the prefix cache is reset in a second
\* step of the same call.
Sent == IF job.backend \in {"ipc", "rdma"} THEN version ELSE disk
\* Mutant: new weights without reset_prefix_cache.
MutServeLoad(b) ==
  /\ "load" \in calls[b]
  /\ calls' = [calls EXCEPT ![b] = @ \ {"load"}]
  /\ weights' = [weights EXCEPT ![b] = Sent]
  /\ UNCHANGED <<ctlVars, pc, errors, awake, cached, drawn>>

ServeLoad(b) ==
  /\ "load" \in calls[b]
  /\ calls' = [calls EXCEPT ![b] = (@ \ {"load"}) \cup {"reset"}]
  /\ weights' = [weights EXCEPT ![b] = Sent]
  /\ UNCHANGED <<ctlVars, pc, errors, awake, cached, drawn>>

ServeReset(b) ==
  /\ "reset" \in calls[b]
  /\ calls' = [calls EXCEPT ![b] = @ \ {"reset"}]
  /\ cached' = [cached EXCEPT ![b] = {}]
  /\ UNCHANGED <<ctlVars, pc, errors, weights, awake, drawn>>

\* Any call may raise; a load that does leaves the engine with a mixture.
ServeFail(b, call) ==
  /\ call \in calls[b]
  /\ CallsMayFail
  /\ phase = "validation" /\ call = "sleep" => ValidationSleepMayFail
  /\ calls' = [calls EXCEPT ![b] = @ \ {call}]
  /\ errors' = errors \cup {b}
  /\ weights' = [weights EXCEPT ![b] = IF call = "load" THEN Torn ELSE @]
  /\ UNCHANGED <<ctlVars, pc, awake, cached, drawn>>

Serve(b) ==
  \/ ServeGenerate(b) \/ ServeDrain(b) \/ ServeSleep(b) \/ ServeLoad(b) \/ ServeReset(b)
  \/ \E pool \in Pools : ServeWake(b, pool)
  \/ \E call \in calls[b] : ServeFail(b, call)

-----------------------------------------------------------------------------
(* The training loop *)

Goto(place) == pc' = place
Stay == UNCHANGED <<errors, serverVars>>
Fanout(call, targets) ==
  calls' = [b \in Replicas |-> IF b \in targets THEN calls[b] \cup {call} ELSE calls[b]]
\* ray.get returned: every call of the fan-out is done, none has raised.
Joined(call) == errors = {} /\ \A b \in Replicas : call \notin calls[b]

BeginStep ==
  /\ pc = "step"
  /\ step < Total
  /\ Goto("generate")
  /\ phase' = "rollout" /\ rounds' = 0 /\ kept' = 0 /\ batch' = {}
  /\ UNCHANGED <<job, ret, step, sleeping, turn, disk, version, calls>> /\ Stay

FinishTraining ==
  /\ pc = "step"
  /\ step = Total
  /\ Goto("done")
  /\ UNCHANGED <<ctlVars, calls>> /\ Stay

\* Requests go round robin to the replicas; a sleeping engine is refreshed
\* first.
Busy == {b \in Replicas : b <= job.requests}
Generate ==
  /\ pc = "generate"
  /\ IF sleeping
     THEN /\ Goto("sync")
          /\ ret' = "generate"
          /\ UNCHANGED calls
     ELSE /\ Goto("generating")
          /\ Fanout("generate", Busy)
          /\ UNCHANGED ret
  /\ UNCHANGED <<job, phase, step, rounds, kept, sleeping, turn, disk, version, batch>>
  /\ Stay

\* A round is over.  filter_groups keeps some of its groups and generates
\* again while too few were kept and rounds are left.
Samples == UNION {drawn[b] : b \in Busy}
MoreRounds(k) == job.filter /\ k < TrainPrompts /\ rounds + 1 < MaxRounds
EndRound ==
  /\ pc = "generating"
  /\ phase = "rollout"
  /\ Joined("generate")
  /\ rounds' = rounds + 1
  /\ kept' \in IF job.filter THEN kept .. TrainPrompts ELSE {TrainPrompts}
  /\ batch' = batch \cup Samples
  /\ Goto(IF MoreRounds(kept') THEN "generate"
          ELSE IF kept' = 0 THEN "failed" ELSE "sleep")
  /\ UNCHANGED <<job, ret, phase, step, sleeping, turn, disk, version, calls>> /\ Stay

EndValidation ==
  /\ pc = "generating"
  /\ phase = "validation"
  /\ Joined("generate")
  /\ rounds' = rounds + 1
  /\ Goto(IF rounds + 1 < ValBatches THEN "generate" ELSE "sleep")
  /\ UNCHANGED <<job, ret, phase, step, kept, sleeping, turn, disk, version, batch, calls>>
  /\ Stay

\* VLLMHttpEngine.sleep: drain all, sleep all, set the flag.
AfterSleep == IF phase = "rollout" THEN "update" ELSE "stepEnd"
Drain ==
  /\ pc = "sleep"
  /\ IF job.sleep
     THEN Goto("drainJoin") /\ Fanout("drain", Replicas)
     ELSE Goto(AfterSleep) /\ UNCHANGED calls
  /\ UNCHANGED ctlVars /\ Stay

Sleep ==
  /\ pc = "drainJoin"
  /\ Joined("drain")
  /\ Goto("sleepJoin")
  /\ Fanout("sleep", Replicas)
  /\ UNCHANGED ctlVars /\ Stay

\* Mutant: the calls are sent and not waited for.
MutSleepJoin ==
  /\ pc = "sleepJoin"
  /\ sleeping' = TRUE
  /\ Goto(AfterSleep)
  /\ UNCHANGED <<job, ret, phase, step, rounds, kept, turn, disk, version, batch, calls>>
  /\ Stay

SleepJoin ==
  /\ pc = "sleepJoin"
  /\ Joined("sleep")
  /\ sleeping' = TRUE
  /\ Goto(AfterSleep)
  /\ UNCHANGED <<job, ret, phase, step, rounds, kept, turn, disk, version, batch, calls>>
  /\ Stay

\* Log-probs, advantages and the policy update of all actors.
Update ==
  /\ pc = "update"
  /\ version' = version + 1
  /\ batch' = {}
  /\ ret' = "validate"
  /\ Goto(IF job.sync THEN "sync" ELSE "validate")
  /\ UNCHANGED <<job, phase, step, rounds, kept, sleeping, turn, disk, calls>> /\ Stay

Validate ==
  /\ pc = "validate"
  /\ IF job.valSteps > 0 /\ (step + 1) % job.valSteps = 0
     THEN Goto("generate") /\ phase' = "validation" /\ rounds' = 0
     ELSE Goto("stepEnd") /\ UNCHANGED <<phase, rounds>>
  /\ UNCHANGED <<job, ret, step, kept, sleeping, turn, disk, version, batch, calls>>
  /\ Stay

StepEnd ==
  /\ pc = "stepEnd"
  /\ step' = step + 1
  /\ Goto("step")
  /\ UNCHANGED <<job, ret, phase, rounds, kept, sleeping, turn, disk, version, batch, calls>>
  /\ Stay

-----------------------------------------------------------------------------
(* _sync_weights_ipc, _sync_weights_rdma, _sync_weights_safetensors *)

\* The file backends export before the replicas' weight memory is woken.
Export ==
  /\ pc = "sync"
  /\ disk' = IF job.backend \in {"path", "http"} THEN version ELSE disk
  /\ turn' = 1
  /\ Goto("wakeWeights")
  /\ UNCHANGED <<job, ret, phase, step, rounds, kept, sleeping, version, batch, calls>>
  /\ Stay

\* VLLMHttpEngine.wake(tags) when sleep is in use.
Wake(from, pool, join, next) ==
  /\ pc = from
  /\ IF job.sleep
     THEN Goto(join) /\ Fanout(pool, Replicas)
     ELSE Goto(next) /\ UNCHANGED calls
  /\ UNCHANGED ctlVars /\ Stay
WakeJoin(join, pool, next) ==
  /\ pc = join
  /\ Joined(pool)
  /\ sleeping' = FALSE
  /\ Goto(next)
  /\ UNCHANGED <<job, ret, phase, step, rounds, kept, turn, disk, version, batch, calls>>
  /\ Stay

WakeWeights == Wake("wakeWeights", "weights", "wakeWeightsJoin", "transfer")
WakeWeightsJoin == WakeJoin("wakeWeightsJoin", "weights", "transfer")
WakeCache == Wake("wakeCache", "kv_cache", "wakeCacheJoin", ret)
WakeCacheJoin == WakeJoin("wakeCacheJoin", "kv_cache", ret)

\* IPC and RDMA load all replicas at once, the file backends one after another.
Targets == IF job.backend \in {"ipc", "rdma"} THEN Replicas ELSE {turn}
Transfer ==
  /\ pc = "transfer"
  /\ Fanout("load", Targets)
  /\ Goto("transferJoin")
  /\ UNCHANGED ctlVars /\ Stay

LastTurn == job.backend \in {"ipc", "rdma"} \/ turn = NumReplicas
TransferJoin ==
  /\ pc = "transferJoin"
  /\ Joined("load") /\ Joined("reset")
  /\ turn' = turn + 1
  /\ Goto(IF LastTurn THEN "wakeCache" ELSE "transfer")
  /\ UNCHANGED <<job, ret, phase, step, rounds, kept, sleeping, disk, version, batch, calls>>
  /\ Stay

-----------------------------------------------------------------------------
(* Failures *)

JOINING == {"generating", "drainJoin", "sleepJoin", "wakeWeightsJoin", "wakeCacheJoin",
            "transferJoin"}
\* run_validation catches what the sleep after it raises.
Swallowed == pc \in {"drainJoin", "sleepJoin"} /\ phase = "validation"

\* Mutant: what a receiver raised is not looked at while the rest is pending.
MutRaise ==
  /\ pc \in JOINING
  /\ pc = "transferJoin" /\ job.backend = "rdma" /\ CallsMayFail
  /\ Goto("failed")
  /\ UNCHANGED <<ctlVars, calls>> /\ Stay

\* RolloutClient.generate takes the results in the order of the replicas.
Delivered ==
  \E b \in errors : pc = "generating" => \A c \in 1 .. (b - 1) : "generate" \notin calls[c]

\* The exception leaves the loop (GetTimeoutError too, which only RDMA has).
Raise ==
  /\ pc \in JOINING
  /\ Delivered \/ (pc = "transferJoin" /\ job.backend = "rdma" /\ CallsMayFail)
  /\ ~Swallowed
  /\ Goto("failed")
  /\ UNCHANGED <<ctlVars, calls>> /\ Stay

SwallowSleepError ==
  /\ Swallowed
  /\ errors # {}
  /\ errors' = {}
  /\ Goto("stepEnd")
  /\ UNCHANGED <<ctlVars, calls, serverVars>>

\* cleanup shuts the replicas down and kills them.
Cleanup ==
  /\ pc \in {"done", "failed"}
  /\ Goto("ended")
  /\ calls' = [b \in Replicas |-> {}]
  /\ UNCHANGED ctlVars /\ Stay

Control ==
  \/ BeginStep \/ FinishTraining \/ Generate \/ EndRound \/ EndValidation
  \/ Drain \/ Sleep \/ SleepJoin \/ Update \/ Validate \/ StepEnd
  \/ Export \/ WakeWeights \/ WakeWeightsJoin \/ Transfer \/ TransferJoin
  \/ WakeCache \/ WakeCacheJoin \/ Raise \/ SwallowSleepError \/ Cleanup

Next == Control \/ \E b \in Replicas : Serve(b)

Spec == Init /\ [][Next]_vars

\* The controller and every replica keep running; ray.get delivers.
FairSpec == Spec /\ WF_vars(Control) /\ \A b \in Replicas : WF_vars(Serve(b))

-----------------------------------------------------------------------------
(* Properties *)

TypeOK ==
  /\ step \in 0 .. Total /\ version \in step .. (step + 1)
  /\ calls \in [Replicas -> SUBSET ({"generate", "drain", "sleep", "load", "reset"} \cup Pools)]
  /\ weights \in [Replicas -> {Lost, Torn} \cup 0 .. Total]
  /\ awake \in [Replicas -> SUBSET Pools]
  /\ errors \subseteq Replicas

\* A replica is only asked to generate (for a rollout or for a validation) when
\* both its memory pools are mapped, it holds exactly the actors' current
\* weights and its prefix cache holds nothing older (_rollout_with_ray_vllm,
\* whose only test is the engine's _sleeping flag).
GenerateReady ==
  \A b \in Replicas : "generate" \in calls[b] /\ pc = "generating" =>
    /\ awake[b] = Pools
    /\ weights[b] = version
    /\ cached[b] \subseteq {version}
    /\ "sleep" \notin calls[b]

\* With enable_sleep, the actors train while every replica's memory is
\* released ("free rollout KV so the FSDP training pass has GPU headroom").
TrainsAlone ==
  /\ TypeOK
  /\ job.sleep /\ pc = "update" => \A b \in Replicas : awake[b] = {}

\* The loop implements on-policy training: every update uses samples of the
\* weights it starts from, whatever the backend, the replica that drew them
\* and the number of rounds.
OnPolicy == INSTANCE OnPolicyTraining WITH
  Starts <- 0 .. Total, Total <- Total, version <- version, batch <- batch
ImplementsOnPolicy == OnPolicy!Spec

\* A run ends, by finishing its steps or by an exception.
EventuallyEnds == <>(pc = "ended")
=============================================================================

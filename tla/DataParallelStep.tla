-------------------------- MODULE DataParallelStep --------------------------
(***************************************************************************)
(* One training step of the data-parallel ranks, from the full rollout     *)
(* batch to the optimizer step.                                            *)
(*                                                                         *)
(*  "torchrun": RLTrainer.train on every rank (trainer/rl_trainer.py);     *)
(*  "ray":      the controller's _update_actor_with_ray and, on every      *)
(*              worker, compute_log_probs and update_policy                *)
(*              (workers/actor_worker.py, engine/training/fsdp_engine.py). *)
(*                                                                         *)
(* Under FSDP every forward, backward and reduction is a collective: it    *)
(* completes only when all ranks are in the same one.  pc[r] names the     *)
(* collective rank r has entered.  What a rank does between two            *)
(* collectives is local to it, so it is part of the action of the          *)
(* collective before.  Ranks in different collectives wait until the       *)
(* process group's timeout ends the job.                                   *)
(***************************************************************************)
EXTENDS Batching

CONSTANTS
  WorldSize,     \* ranks
  Jobs           \* the batches and configurations considered: path, response
                 \* tokens of each row, token budget, micro-batch size, samples
                 \* per prompt, estimator that checks, balance_batch, epochs

\* The rollout returns g samples of every prompt.
ASSUME StepAssumption ==
  /\ WorldSize \in Nat \ {0}
  /\ \A j \in Jobs : Len(j.resp) > 0 /\ Len(j.resp) % j.g = 0

Ranks == 0 .. (WorldSize - 1)

VARIABLES
  job,           \* configuration and batch of this step
  bad,           \* rows whose loss is not a number
  pc,            \* collective each rank is in
  local,         \* rows each rank holds, in order
  work,          \* passes a rank runs: rows and whether they count
  at,            \* pass a rank is in
  kept,          \* rows each rank has old log-probs for, in order
  groups,        \* sets of rows whose rewards were compared with each other
  tokens,        \* tokens the loss is divided by
  epoch,
  counted,       \* how often each row has entered the gradient
  finite         \* ranks that had a finite loss in this step

vars == <<job, bad, pc, local, work, at, kept, groups, tokens, epoch, counted, finite>>

batch   == RowsOf(Len(job.resp))
Resp(r) == job.resp[r] \* tokens of the response mask
Att == [r \in DOMAIN job.resp |-> job.resp[r] + 1] \* tokens of the attention mask
Torch   == job.path = "torchrun"


\* Every variable has its type; the passes of a rank are passes over its rows.
TypeOK ==
  /\ bad \subseteq ToSet(batch)
  /\ pc \in [Ranks -> {"shard", "count_lp", "fwd_lp", "advantage", "sum_tokens", "update", "count_mb",
                       "fwd", "bwd", "norm", "metric", "sync", "returned", "raised", "dead"}]
  /\ \A r \in Ranks :
       /\ ToSet(local[r]) \subseteq ToSet(batch) /\ ToSet(kept[r]) \subseteq ToSet(batch)
       /\ \A i \in DOMAIN work[r] : /\ work[r][i].real \in BOOLEAN
                                    /\ ToSet(work[r][i].rows) \subseteq ToSet(batch)
       /\ at[r] \in Nat
  /\ tokens \in Nat /\ epoch \in 1 .. job.epochs
  /\ counted \in [ToSet(batch) -> Nat] /\ finite \subseteq Ranks

Init ==
  /\ job \in Jobs
  /\ bad \in {{}} \union {{r} : r \in ToSet(batch)}
  /\ pc = [r \in Ranks |-> "shard"]
  /\ local = [r \in Ranks |-> <<>>] /\ work = [r \in Ranks |-> <<>>]
  /\ at = [r \in Ranks |-> 0] /\ kept = [r \in Ranks |-> <<>>]
  /\ groups = {} /\ tokens = 0 /\ epoch = 1
  /\ counted = [r \in ToSet(batch) |-> 0] /\ finite = {}

\* All ranks are in collective c.
Meet(c) == \A r \in Ranks : pc[r] = c

Longest(seqs) == CHOOSE n \in {Len(seqs[r]) : r \in Ranks} : \A r \in Ranks : Len(seqs[r]) <= n
Real(chunks)  == MapSeq(LAMBDA c : [rows |-> c, real |-> TRUE], chunks)

-----------------------------------------------------------------------------
(* Old log-probs *)

Clip(n) == IF n < Len(batch) THEN n ELSE Len(batch)

\* Mutant: the last rank takes a chunk like the others.
MutShardOf(r) ==
  LET chunk == IF Len(batch) < WorldSize THEN 1 ELSE Len(batch) \div WorldSize
  IN Slice(batch, r * chunk, Clip(r * chunk + chunk))

\* train shards by the floor of the row count and gives the rest to the last
\* rank; the controller's dispatch uses DataProto.split.
ShardOf(r) ==
  LET chunk == IF Len(batch) < WorldSize THEN 1 ELSE Len(batch) \div WorldSize
  IN IF Torch
     THEN Slice(batch, r * chunk,
                IF r < WorldSize - 1 THEN Clip(r * chunk + chunk) ELSE Len(batch))
     ELSE Split(batch, WorldSize)[r + 1]

\* The rollout batch, the same on every rank, is sharded and cut into chunks.
Shard ==
  /\ Meet("shard")
  /\ local' = [r \in Ranks |-> ShardOf(r)]
  /\ work' = [r \in Ranks |-> Real(GreedyChunks(ShardOf(r), Att, job.maxTok))]
  /\ pc' = [r \in Ranks |-> "count_lp"]
  /\ UNCHANGED <<job, bad, at, kept, groups, tokens, epoch, counted, finite>>

\* Mutants: the passes of a rank are not padded; the padding counts.
MutPadded(passes, target, real)    == passes
MutPaddedReal(passes, target, real) ==
  passes \o [i \in 1 .. (target - Len(passes)) |-> Last(passes)]

\* A rank with fewer passes than the others repeats its last one.
Padded(passes, target, real) ==
  passes \o [i \in 1 .. (target - Len(passes)) |-> [rows |-> Last(passes).rows, real |-> real]]

\* all_reduce MAX of the chunk counts.  A rank without a row has no last chunk
\* to repeat: chunks[-1] raises.
CountChunks ==
  LET target == Longest(work)
  IN /\ Meet("count_lp")
     /\ work' = [r \in Ranks |-> IF work[r] = <<>> THEN <<>> ELSE Padded(work[r], target, FALSE)]
     /\ at' = [r \in Ranks |-> 1]
     /\ pc' = [r \in Ranks |-> IF work[r] = <<>> THEN "raised" ELSE "fwd_lp"]
     /\ UNCHANGED <<job, bad, local, kept, groups, tokens, epoch, counted, finite>>

\* Mutant: the log-probs of a padding pass are kept as well.
MutKeeps(pass) == TRUE

\* Only the log-probs of the rank's own chunks are concatenated.
Keeps(pass) == pass.real

\* One packed forward of the actor on every rank.
ForwardLogProbs ==
  /\ Meet("fwd_lp")
  /\ kept' = [r \in Ranks |-> LET p == work[r][at[r]]
                              IN IF Keeps(p) THEN kept[r] \o p.rows ELSE kept[r]]
  /\ at' = [r \in Ranks |-> at[r] + 1]
  /\ pc' = [r \in Ranks |-> IF at[r] < Len(work[r]) THEN "fwd_lp" ELSE "advantage"]
  /\ UNCHANGED <<job, bad, local, work, groups, tokens, epoch, counted, finite>>

-----------------------------------------------------------------------------
(* Advantages and balancing *)

\* Consecutive runs of g rows are taken for the samples of one prompt.
GroupsOf(s) == ToSet(MapSeq(ToSet, FixedMiniBatches(s, job.g)))

\* The GRPO and DAPO estimators raise unless the rows divide by g.
Refuses(s) == job.checked /\ Len(s) % job.g # 0

\* _balance_batch: every rank partitions its own shard into WorldSize parts and
\* keeps the part with its rank's number; a shard of fewer rows is left alone.
BalanceBatch(r) ==
  IF job.balance /\ Len(local[r]) >= WorldSize
  THEN LET parts == BalancedPartitions(MapSeq(LAMBDA x : Workload(Resp(x)), local[r]), WorldSize)
       IN MapSeq(LAMBDA i : local[r][i], parts[r + 1])
  ELSE local[r]

\* torchrun: every rank compares the rewards of its own shard.
Advantage ==
  /\ Torch /\ Meet("advantage")
  /\ groups' = UNION {GroupsOf(local[r]) : r \in {q \in Ranks : ~Refuses(local[q])}}
  /\ local' = [r \in Ranks |-> BalanceBatch(r)]
  /\ pc' = [r \in Ranks |-> IF Refuses(local[r]) THEN "raised" ELSE "sum_tokens"]
  /\ UNCHANGED <<job, bad, work, at, kept, tokens, epoch, counted, finite>>

\* The orders in which a rank may visit its rows and the passes they give:
\* _dynamic_mini_batches sorts by length unless the budget is off.
MiniBatches(s) ==
  IF job.maxTok <= 0
  THEN {Real(FixedMiniBatches(s, job.micro))}
  ELSE {Real(GreedyChunks(o, Att, job.maxTok)) : o \in SortedOrders(s, Att)}

\* _prepare_micro_batches keeps the order of the rows.
MicroBatches(s) ==
  Real(IF job.maxTok > 0 THEN GreedyChunks(s, Att, job.maxTok) ELSE FixedMiniBatches(s, 1))

\* all_reduce SUM of the response tokens, after balancing.
SumTokens ==
  /\ Meet("sum_tokens")
  /\ tokens' = Total(LAMBDA r : Total(Resp, local[r - 1]), RowsOf(WorldSize))
  /\ work' \in [Ranks -> UNION {MiniBatches(local[r]) : r \in Ranks}]
  /\ \A r \in Ranks : work'[r] \in MiniBatches(local[r])
  /\ pc' = [r \in Ranks |-> "count_mb"]
  /\ UNCHANGED <<job, bad, local, at, kept, groups, epoch, counted, finite>>

\* Mutant: the rows are balanced before the advantages are computed.
MutAdvantageOrder == BalanceRows(batch, Att, WorldSize)

\* The order of the rows when the controller computes advantages.
AdvantageOrder == batch

\* ray: the controller computes advantages and the token count on the whole
\* batch (whole groups, so the estimator accepts it), balances the rows and
\* dispatches them.
DispatchUpdate ==
  /\ ~Torch /\ Meet("advantage") /\ ~Refuses(batch)
  /\ groups' = GroupsOf(AdvantageOrder)
  /\ tokens' = Total(Resp, batch)
  /\ local' = [r \in Ranks |-> Split(BalanceRows(batch, Att, WorldSize), WorldSize)[r + 1]]
  /\ pc' = [r \in Ranks |-> "update"]
  /\ UNCHANGED <<job, bad, work, at, kept, epoch, counted, finite>>

\* update_policy on the workers; one without a row returns at once.
UpdatePolicy ==
  /\ Meet("update")
  /\ work' = [r \in Ranks |-> MicroBatches(local[r])]
  /\ pc' = [r \in Ranks |-> IF local[r] = <<>> THEN "returned" ELSE "count_mb"]
  /\ UNCHANGED <<job, bad, local, at, kept, groups, tokens, epoch, counted, finite>>

-----------------------------------------------------------------------------
(* Forward, backward, optimizer *)

\* all_reduce MAX of the mini-batch counts; short ranks run copies of their last
\* mini-batch with a response mask of zeros.
CountMiniBatches ==
  LET target == Longest(work)
  IN /\ Meet("count_mb")
     /\ work' = [r \in Ranks |-> IF work[r] = <<>> THEN <<>> ELSE Padded(work[r], target, FALSE)]
     /\ at' = [r \in Ranks |-> 1]
     /\ pc' = [r \in Ranks |-> IF work[r] = <<>> THEN "raised" ELSE "fwd"]
     /\ UNCHANGED <<job, bad, local, kept, groups, tokens, epoch, counted, finite>>

Now(r)  == work[r][at[r]]
Then(r) == IF at[r] < Len(work[r]) THEN "fwd" ELSE "norm"

\* The loss of a pass is NaN if it reads a bad row; a masked copy may or may not
\* turn 0 * NaN into a finite loss, depending on the loss function.
NaNLoss(r, masked) ==
  ToSet(Now(r).rows) \intersect bad # {} /\ (Now(r).real \/ masked)

\* _train_step returns before backward() when the loss is NaN; the engine of the
\* Ray workers runs backward in any case.
SkipsBackward(r, masked) == Torch /\ NaNLoss(r, masked)

\* One forward on every rank.
Forward ==
  \E masked \in BOOLEAN :
    /\ Meet("fwd")
    /\ pc' = [r \in Ranks |-> IF SkipsBackward(r, masked) THEN Then(r) ELSE "bwd"]
    /\ at' = [r \in Ranks |-> IF SkipsBackward(r, masked) THEN at[r] + 1 ELSE at[r]]
    /\ finite' = finite \union {r \in Ranks : ~NaNLoss(r, masked)}
    /\ UNCHANGED <<job, bad, local, work, kept, groups, tokens, epoch, counted>>

\* Rows that enter the gradient in this backward.
Entering == {r \in Ranks : Now(r).real}

\* One backward on every rank: parameters are gathered again and, with gradient
\* sync on, gradients are reduced.
Backward ==
  /\ Meet("bwd")
  /\ counted' = [x \in ToSet(batch) |->
       counted[x] + Cardinality({r \in Entering : x \in ToSet(Now(r).rows)})]
  /\ at' = [r \in Ranks |-> at[r] + 1]
  /\ pc' = [r \in Ranks |-> Then(r)]
  /\ UNCHANGED <<job, bad, local, work, kept, groups, tokens, epoch, finite>>

MoreEpochs == epoch < job.epochs

\* optimizer_step: the gradient norm is a reduction over all ranks.  torchrun
\* permutes the rows for the next epoch.
OptimizerStep ==
  /\ Meet("norm")
  /\ at' = [r \in Ranks |-> 1]
  /\ IF Torch /\ MoreEpochs
     THEN /\ epoch' = epoch + 1
          /\ local' \in [Ranks -> UNION {SetToSeqs(ToSet(local[r])) : r \in Ranks}]
          /\ \A r \in Ranks : ToSet(local'[r]) = ToSet(local[r])
          /\ work' \in [Ranks -> UNION {MiniBatches(local'[r]) : r \in Ranks}]
          /\ \A r \in Ranks : work'[r] \in MiniBatches(local'[r])
          /\ pc' = [r \in Ranks |-> "count_mb"]
     ELSE /\ pc' = [r \in Ranks |-> IF Torch THEN "metric" ELSE "returned"]
          /\ UNCHANGED <<epoch, local, work>>
  /\ UNCHANGED <<job, bad, kept, groups, tokens, counted, finite>>

-----------------------------------------------------------------------------
(* Metrics and weight sync *)

\* The metrics of a rank: common ones; loss, KL and entropy only if a loss was
\* finite; the balance statistics only if its shard was balanced.
Metrics(r) ==
  {"common"} \union (IF r \in finite THEN {"loss"} ELSE {})
             \union (IF job.balance /\ Len(ShardOf(r)) >= WorldSize THEN {"balance"} ELSE {})

\* One all_reduce for each key of the rank's own dictionary.
ReduceMetric ==
  /\ Meet("metric")
  /\ at' = [r \in Ranks |-> at[r] + 1]
  /\ pc' = [r \in Ranks |-> IF at[r] < Cardinality(Metrics(r)) THEN "metric" ELSE "sync"]
  /\ UNCHANGED <<job, bad, local, work, kept, groups, tokens, epoch, counted, finite>>

\* _sync_rollout_weights: barriers and the gathering of the full weights.
SyncWeights ==
  /\ Meet("sync")
  /\ pc' = [r \in Ranks |-> "returned"]
  /\ UNCHANGED <<job, bad, local, work, at, kept, groups, tokens, epoch, counted, finite>>

Apart == (\E r, q \in Ranks : pc[r] # pc[q]) \/ (\E r \in Ranks : pc[r] = "raised")

\* Mutant: only an exception ends the job, collectives wait for ever.
MutAbort ==
  /\ \E r \in Ranks : pc[r] = "raised"
  /\ pc' = [r \in Ranks |-> "dead"]
  /\ UNCHANGED <<job, bad, local, work, at, kept, groups, tokens, epoch, counted, finite>>

\* A rank that raised, or ranks waiting in different collectives: the launcher
\* or the process group's timeout ends the job.
Abort ==
  /\ Apart
  /\ pc' = [r \in Ranks |-> "dead"]
  /\ UNCHANGED <<job, bad, local, work, at, kept, groups, tokens, epoch, counted, finite>>

Next == \/ Shard \/ CountChunks \/ ForwardLogProbs \/ Advantage \/ SumTokens
        \/ DispatchUpdate \/ UpdatePolicy \/ CountMiniBatches \/ Forward \/ Backward \/ OptimizerStep
        \/ ReduceMetric \/ SyncWeights \/ Abort

Spec     == Init /\ [][Next]_vars
FairSpec == Spec /\ WF_vars(Next)

-----------------------------------------------------------------------------
(* Properties *)

Completed  == Meet("returned")
CutsGroup  == \E r \in Ranks : Len(ShardOf(r)) % job.g # 0
OneSided   == \E r, q \in Ranks : Len(ShardOf(r)) < WorldSize /\ Len(ShardOf(q)) >= WorldSize

\* When the ranks leave the log-prob phase, each has exactly the log-probs of
\* its own rows in the order of its rows, although it may have run more forwards
\* than it has chunks (_compute_log_probs_for_model, compute_log_probs).
LogProbsAligned ==
  /\ TypeOK
  /\ Meet("advantage") => kept = local

\* The ranks never part ways, and none raises, unless a loss was NaN under torchrun
\* (the Ray workers survive it), a rank got
\* no row, the estimator refuses a shard that cuts a prompt group, or balancing
\* left a rank without statistics (rl_trainer.py: all ranks MUST run the same
\* number of forward/backward passes).
CollectivesPaired ==
  Apart => \/ Torch /\ bad # {}
           \/ Len(batch) < WorldSize
           \/ Torch /\ job.checked /\ CutsGroup
           \/ job.balance /\ OneSided

\* In a completed step without NaN, every row of the rollout batch entered the
\* gradient once per epoch, over all ranks together, unless _balance_batch ran.
EveryRowOnce ==
  Completed /\ bad = {} /\ (Torch => ~job.balance)
    => counted = [x \in ToSet(batch) |-> job.epochs]

\* In a completed step without NaN, the response tokens that entered the
\* gradient of an epoch are the tokens the loss was divided by: padding passes
\* weigh nothing and balancing changes both alike (full_batch_num_tokens).
TokensNormalised ==
  Completed /\ bad = {}
    => Total(LAMBDA x : counted[x] * Resp(x), batch) = job.epochs * tokens

\* Rewards are compared within whole prompt groups if every shard holds a
\* multiple of g rows; under the Ray controller always, since its advantages are
\* computed before the rows are dispatched.
GroupsWhole ==
  groups # {} /\ (Torch => ~CutsGroup) => groups = GroupsOf(batch)

\* Every step is completed or aborted.
StepEnds == <>[](Completed \/ Meet("dead"))
=============================================================================

------------------------ MODULE StagedTrainingProofs ------------------------
(***************************************************************************)
(* Proofs about StagedTraining, for any number of ranks, steps and kept    *)
(* versions: the ranks go through the collectives of a micro step side by  *)
(* side, so they never meet in different ones (unless log-probabilities or *)
(* checkpoints add collectives on rank 0 alone), and the pruning of one    *)
(* rank never removes the snapshot another one has just pushed, unless     *)
(* KeepVersions leftovers of earlier runs count as newer.                  *)
(***************************************************************************)
EXTENDS StagedTraining, NumberLemmas

Places == {"begin", "offload", "generate", "broadcast", "broadcastData", "received",
           "update", "sync", "push", "prune", "metrics", "end", "done"}
Collectives == {"barrier", "allGather", "broadcastSize", "broadcastData",
                "reduceScatter", "allReduce", "saveState"}

TypeInv ==
  /\ pc \in [Ranks -> Places]
  /\ entered \in [Ranks -> Collectives \cup {None}]
  /\ step \in [Ranks -> Nat]
  /\ prompt \in Nat /\ samples \in Nat
  /\ batch \in [Ranks -> Nat]
  /\ localUpdates \in [Ranks -> Nat] /\ paramVersion \in [Ranks -> Nat]
  /\ snapshots \in SUBSET Nat /\ IsFiniteSet(snapshots)

At(r, place, collective) == pc[r] = place /\ entered[r] = collective

\* The places of a rank between two collectives of all ranks: segment k ends
\* with the rank inside the collective that leads to the next segment.
Segment(r, k) ==
  \/ k = 0 /\ \/ At(r, "end", None) \/ At(r, "begin", None) \/ At(r, "done", None)
              \/ At(r, "received", None) /\ batch[r] = 0
              \/ At(r, "offload", "barrier") \/ At(r, "broadcast", "barrier")
              \/ At(r, "begin", "saveState") /\ SaveEvery > 0
  \/ k = 1 /\ \/ At(r, "offload", None) \/ At(r, "generate", None) \/ At(r, "broadcast", None)
              \/ At(r, "broadcastData", "broadcastSize")
              \/ At(r, "generate", "allGather") /\ UseRolloutLogProbs
  \/ k = 2 /\ (At(r, "broadcastData", None) \/ At(r, "received", "broadcastData"))
  \/ k = 3 /\ ((At(r, "received", None) /\ batch[r] > 0) \/ At(r, "update", "allGather"))
  \/ k = 4 /\ (At(r, "update", None) \/ At(r, "sync", "reduceScatter"))
  \/ k = 5 /\ \/ At(r, "sync", None) \/ At(r, "push", None) \/ At(r, "prune", None)
              \/ At(r, "metrics", None) \/ At(r, "end", "allReduce")

\* The counters of a rank when u updates and v versions were counted as all
\* ranks came into segment k.
Counts(r, k, u, v) ==
  \/ k \in 0 .. 3 /\ localUpdates[r] = u /\ paramVersion[r] = v
  \/ k = 4 /\ localUpdates[r] = (IF pc[r] = "sync" THEN u + 1 ELSE u) /\ paramVersion[r] = v
  \/ k = 5 /\ IF u >= SyncEvery /\ pc[r] # "sync"
              THEN localUpdates[r] = 0 /\ paramVersion[r] = v + 1
              ELSE /\ localUpdates[r] = u /\ paramVersion[r] = v
                   /\ pc[r] \notin {"push", "prune"}

\* The newest version a rank may have pushed.
Newest(k, u, v) == IF k = 5 /\ u >= SyncEvery THEN v + 1 ELSE v

Abreast(k, u, v) ==
  /\ \A r \in Ranks : Segment(r, k) /\ Counts(r, k, u, v)
  /\ \A s \in snapshots \ Leftovers : s <= Newest(k, u, v)

SyncInv ==
  /\ \E k \in 0 .. 5, u \in Nat, v \in Nat : Abreast(k, u, v)
  /\ \A r \in Ranks : pc[r] = "received" => batch[r] = samples
  /\ \A r \in Ranks : pc[r] = "prune" /\ Covered(paramVersion[r]) => paramVersion[r] \in snapshots

IInv == TypeInv /\ SyncInv

-----------------------------------------------------------------------------
(* Every step keeps the invariant *)

\* What the numbers of the configuration are.
LEMMA Constants ==
  /\ SyncEvery \in Nat /\ SyncEvery > 0 /\ KeepVersions \in Nat /\ KeepVersions > 0
  /\ WorldSize \in Nat /\ WorldSize > 0 /\ SaveEvery \in Nat /\ 0 \in Ranks
  /\ Leftovers \in SUBSET Nat /\ IsFiniteSet(Leftovers)
BY StagedAssumption DEF Ranks

\* A rank that a step does not touch stays where it was.
LEMMA OthersStay ==
  ASSUME NEW q, NEW k, NEW u, NEW v, Segment(q, k) /\ Counts(q, k, u, v),
         pc'[q] = pc[q] /\ entered'[q] = entered[q] /\ batch'[q] = batch[q],
         localUpdates'[q] = localUpdates[q] /\ paramVersion'[q] = paramVersion[q]
  PROVE  Segment(q, k)' /\ Counts(q, k, u, v)'
<1>1. Segment(q, k)'
  BY DEF Segment, At
<1>2. Counts(q, k, u, v)'
  BY DEF Counts
<1> QED BY <1>1, <1>2

\* Steps of one rank r that stay in the segment and add no snapshot but the one
\* that is due, nor remove that one.
LEMMA RankMoves ==
  ASSUME IInv, TypeInv', NEW r \in Ranks, NEW k \in 0 .. 5, NEW u \in Nat, NEW v \in Nat,
         Abreast(k, u, v),
         Segment(r, k)', Counts(r, k, u, v)',
         \A q \in Ranks \ {r} :
           /\ pc'[q] = pc[q] /\ entered'[q] = entered[q] /\ batch'[q] = batch[q]
           /\ localUpdates'[q] = localUpdates[q] /\ paramVersion'[q] = paramVersion[q],
         samples' = samples \/ k = 1,
         pc'[r] = "received" => batch'[r] = samples',
         pc'[r] = "prune" /\ Covered(paramVersion'[r]) => paramVersion'[r] \in snapshots',
         \/ snapshots' = snapshots
         \/ k = 5 /\ u >= SyncEvery /\ snapshots' \subseteq snapshots \cup {v + 1}
              /\ (Covered(v + 1) /\ v + 1 \in snapshots => v + 1 \in snapshots')
  PROVE  IInv'
<1> USE Constants
<1>1. \A q \in Ranks : Segment(q, k)' /\ Counts(q, k, u, v)'
  BY OthersStay DEF Abreast
<1>2. \A s \in snapshots' \ Leftovers : s <= Newest(k, u, v)
  BY DEF Abreast, Newest, TypeInv, IInv
<1>3. Abreast(k, u, v)'
  BY <1>1, <1>2 DEF Abreast, Newest
<1>4. \A q \in Ranks : pc'[q] = "received" => batch'[q] = samples'
  <2> SUFFICES ASSUME NEW q \in Ranks, q # r, pc[q] = "received" PROVE batch[q] = samples'
    OBVIOUS
  <2>1. k # 1
    BY DEF Abreast, Segment, At
  <2> QED BY <2>1 DEF IInv, SyncInv
<1>5. \A q \in Ranks : pc'[q] = "prune" /\ Covered(paramVersion'[q]) => paramVersion'[q] \in snapshots'
  <2> SUFFICES ASSUME NEW q \in Ranks, q # r, pc[q] = "prune", Covered(paramVersion[q])
               PROVE  paramVersion[q] \in snapshots'
    OBVIOUS
  <2>1. paramVersion[q] \in snapshots
    BY DEF IInv, SyncInv
  <2>2. k = 5 /\ u >= SyncEvery => paramVersion[q] = v + 1
    BY DEF Abreast, Counts
  <2> QED BY <2>1, <2>2
<1> QED BY <1>3, <1>4, <1>5 DEF IInv, SyncInv, Covered

\* All ranks start the first micro step together.
LEMMA InitIInv == Init => IInv
<1> SUFFICES ASSUME Init PROVE IInv
  OBVIOUS
<1> USE Constants
<1>1. TypeInv
  BY DEF Init, TypeInv, Places
<1>2. Abreast(0, 0, 0)
  BY DEF Init, Abreast, Segment, At, Counts, Newest
<1>3. \A r \in Ranks : pc[r] # "received" /\ pc[r] # "prune"
  BY DEF Init
<1> QED BY <1>1, <1>2, <1>3 DEF IInv, SyncInv

\* Every step keeps the types.
LEMMA TypeStep == TypeInv /\ Next => TypeInv'
<1> SUFFICES ASSUME TypeInv, Next PROVE TypeInv'
  OBVIOUS
<1> USE Constants DEF TypeInv, Places, Collectives
<1>1. CASE Complete
  BY <1>1 DEF Complete
<1>2. CASE Rank0
  <2>1. CASE Offload
    BY <2>1 DEF Offload, Goto
  <2>2. CASE GenerateSample
    BY <2>2 DEF GenerateSample, Goto, Enter
  <2>3. CASE GenerateFail
    BY <2>3 DEF GenerateFail
  <2>4. CASE Reload
    BY <2>4 DEF Reload, Goto
  <2> QED BY <1>2, <2>1, <2>2, <2>3, <2>4 DEF Rank0
<1>3. ASSUME NEW r \in Ranks, Rank(r) PROVE TypeInv'
  <2>1. CASE BeginStep(r) \/ BroadcastBatch(r) \/ OldLogProbs(r) \/ ReduceMetrics(r) \/ Finish(r)
    BY <2>1 DEF BeginStep, BroadcastBatch, OldLogProbs, ReduceMetrics, Finish, Goto, Enter
  <2>6. CASE BroadcastData(r)
    BY <2>6 DEF BroadcastData, Enter
  <2>7. CASE SkipEmpty(r)
    BY <2>7 DEF SkipEmpty, Goto
  <2>8. CASE Update(r)
    BY <2>8 DEF Update, Enter
  <2>2. CASE EndStep(r)
    BY <2>2 DEF EndStep, Goto, Enter
  <2>3. CASE TriggerParamSync(r)
    BY <2>3 DEF TriggerParamSync, Goto
  <2>4. CASE Push(r) \/ PushFail(r)
    <3>1. paramVersion[r] \in Nat /\ IsFiniteSet(snapshots \cup {paramVersion[r]})
      BY FS_AddElement
    <3> QED BY <2>4, <3>1 DEF Push, PushFail, Goto
  <2>5. CASE Prune(r)
    <3>1. IsFiniteSet(snapshots \ Outdated)
      BY FS_Difference
    <3> QED BY <2>5, <3>1 DEF Prune, Goto
  <2>9. CASE PruneFail(r)
    <3>1. PICK left \in SUBSET Outdated : snapshots' = (snapshots \ Outdated) \cup left
      BY <2>9 DEF PruneFail
    <3>2. snapshots' \subseteq snapshots
      BY <3>1 DEF Outdated
    <3>3. IsFiniteSet(snapshots')
      BY <3>2, FS_Subset
    <3> QED BY <2>9, <3>2, <3>3 DEF PruneFail, Goto
  <2> QED BY <1>3, <2>1, <2>2, <2>3, <2>4, <2>5, <2>6, <2>7, <2>8, <2>9 DEF Rank
<1> QED BY <1>1, <1>2, <1>3 DEF Next

\* The barrier of a micro step.
LEMMA BeginStepKeeps ==
  ASSUME IInv, TypeInv', NEW r \in Ranks, BeginStep(r)
  PROVE  IInv'
<1> USE Constants
<1>1. PICK k \in 0 .. 5, u \in Nat, v \in Nat : Abreast(k, u, v)
  BY DEF IInv, SyncInv
<1>2. k = 0 /\ Segment(r, k) /\ Counts(r, k, u, v)
  BY <1>1 DEF Abreast, Segment, At, BeginStep, Runs, None
<1>3. Segment(r, k)'
  BY <1>2 DEF Segment, At, BeginStep, Runs, Goto, Enter, IInv, TypeInv, None
<1>4. Counts(r, k, u, v)'
  BY <1>2 DEF Counts, BeginStep, Runs, Goto, Enter, IInv, TypeInv, None
<1>5. \A q \in Ranks \ {r} :
        /\ pc'[q] = pc[q] /\ entered'[q] = entered[q] /\ batch'[q] = batch[q]
        /\ localUpdates'[q] = localUpdates[q] /\ paramVersion'[q] = paramVersion[q]
  BY DEF BeginStep, Runs, Goto, Enter, IInv, TypeInv, None
<1>6. /\ samples' = samples \/ k = 1
      /\ pc'[r] = "received" => batch'[r] = samples'
      /\ pc'[r] # "prune" /\ snapshots' = snapshots
  BY <1>2 DEF BeginStep, Runs, Goto, Enter, IInv, TypeInv, None
<1> QED BY <1>1, <1>2, <1>3, <1>4, <1>5, <1>6, RankMoves

\* Rank 0 makes room for the engine.
LEMMA OffloadKeeps ==
  ASSUME IInv, TypeInv', Offload
  PROVE  IInv'
<1> USE Constants
<1>1. PICK k \in 0 .. 5, u \in Nat, v \in Nat : Abreast(k, u, v)
  BY DEF IInv, SyncInv
<1>2. k = 1 /\ Segment(0, k) /\ Counts(0, k, u, v)
  BY <1>1 DEF Abreast, Segment, At, Offload, Runs, None
<1>3. Segment(0, k)'
  BY <1>2 DEF Segment, At, Offload, Runs, Goto, Enter, IInv, TypeInv, None
<1>4. Counts(0, k, u, v)'
  BY <1>2 DEF Counts, Offload, Runs, Goto, Enter, IInv, TypeInv, None
<1>5. \A q \in Ranks \ {0} :
        /\ pc'[q] = pc[q] /\ entered'[q] = entered[q] /\ batch'[q] = batch[q]
        /\ localUpdates'[q] = localUpdates[q] /\ paramVersion'[q] = paramVersion[q]
  BY DEF Offload, Runs, Goto, Enter, IInv, TypeInv, None
<1>6. /\ samples' = samples \/ k = 1
      /\ pc'[0] = "received" => batch'[0] = samples'
      /\ pc'[0] # "prune" /\ snapshots' = snapshots
  BY <1>2 DEF Offload, Runs, Goto, Enter, IInv, TypeInv, None
<1> QED BY <1>1, <1>2, <1>3, <1>4, <1>5, <1>6, RankMoves

\* A prompt that gives a sample.
LEMMA GenerateSampleKeeps ==
  ASSUME IInv, TypeInv', GenerateSample
  PROVE  IInv'
<1> USE Constants
<1>1. PICK k \in 0 .. 5, u \in Nat, v \in Nat : Abreast(k, u, v)
  BY DEF IInv, SyncInv
<1>2. k = 1 /\ Segment(0, k) /\ Counts(0, k, u, v)
  BY <1>1 DEF Abreast, Segment, At, GenerateSample, Runs, None
<1>3. Segment(0, k)'
  BY <1>2 DEF Segment, At, GenerateSample, Runs, Goto, Enter, IInv, TypeInv, None
<1>4. Counts(0, k, u, v)'
  BY <1>2 DEF Counts, GenerateSample, Runs, Goto, Enter, IInv, TypeInv, None
<1>5. \A q \in Ranks \ {0} :
        /\ pc'[q] = pc[q] /\ entered'[q] = entered[q] /\ batch'[q] = batch[q]
        /\ localUpdates'[q] = localUpdates[q] /\ paramVersion'[q] = paramVersion[q]
  BY DEF GenerateSample, Runs, Goto, Enter, IInv, TypeInv, None
<1>6. /\ samples' = samples \/ k = 1
      /\ pc'[0] = "received" => batch'[0] = samples'
      /\ pc'[0] # "prune" /\ snapshots' = snapshots
  BY <1>2 DEF GenerateSample, Runs, Goto, Enter, IInv, TypeInv, None
<1> QED BY <1>1, <1>2, <1>3, <1>4, <1>5, <1>6, RankMoves

\* A prompt that is dropped.
LEMMA GenerateFailKeeps ==
  ASSUME IInv, TypeInv', GenerateFail
  PROVE  IInv'
<1> USE Constants
<1>1. PICK k \in 0 .. 5, u \in Nat, v \in Nat : Abreast(k, u, v)
  BY DEF IInv, SyncInv
<1>2. k = 1 /\ Segment(0, k) /\ Counts(0, k, u, v)
  BY <1>1 DEF Abreast, Segment, At, GenerateFail, Runs, None
<1>3. Segment(0, k)'
  BY <1>2 DEF Segment, At, GenerateFail, Runs, Goto, Enter, IInv, TypeInv, None
<1>4. Counts(0, k, u, v)'
  BY <1>2 DEF Counts, GenerateFail, Runs, Goto, Enter, IInv, TypeInv, None
<1>5. \A q \in Ranks \ {0} :
        /\ pc'[q] = pc[q] /\ entered'[q] = entered[q] /\ batch'[q] = batch[q]
        /\ localUpdates'[q] = localUpdates[q] /\ paramVersion'[q] = paramVersion[q]
  BY DEF GenerateFail, Runs, Goto, Enter, IInv, TypeInv, None
<1>6. /\ samples' = samples \/ k = 1
      /\ pc'[0] = "received" => batch'[0] = samples'
      /\ pc'[0] # "prune" /\ snapshots' = snapshots
  BY <1>2 DEF GenerateFail, Runs, Goto, Enter, IInv, TypeInv, None
<1> QED BY <1>1, <1>2, <1>3, <1>4, <1>5, <1>6, RankMoves

\* Rank 0 has its batch.
LEMMA ReloadKeeps ==
  ASSUME IInv, TypeInv', Reload
  PROVE  IInv'
<1> USE Constants
<1>1. PICK k \in 0 .. 5, u \in Nat, v \in Nat : Abreast(k, u, v)
  BY DEF IInv, SyncInv
<1>2. k = 1 /\ Segment(0, k) /\ Counts(0, k, u, v)
  BY <1>1 DEF Abreast, Segment, At, Reload, Runs, None
<1>3. Segment(0, k)'
  BY <1>2 DEF Segment, At, Reload, Runs, Goto, Enter, IInv, TypeInv, None
<1>4. Counts(0, k, u, v)'
  BY <1>2 DEF Counts, Reload, Runs, Goto, Enter, IInv, TypeInv, None
<1>5. \A q \in Ranks \ {0} :
        /\ pc'[q] = pc[q] /\ entered'[q] = entered[q] /\ batch'[q] = batch[q]
        /\ localUpdates'[q] = localUpdates[q] /\ paramVersion'[q] = paramVersion[q]
  BY DEF Reload, Runs, Goto, Enter, IInv, TypeInv, None
<1>6. /\ samples' = samples \/ k = 1
      /\ pc'[0] = "received" => batch'[0] = samples'
      /\ pc'[0] # "prune" /\ snapshots' = snapshots
  BY <1>2 DEF Reload, Runs, Goto, Enter, IInv, TypeInv, None
<1> QED BY <1>1, <1>2, <1>3, <1>4, <1>5, <1>6, RankMoves

\* The size of the batch.
LEMMA BroadcastBatchKeeps ==
  ASSUME IInv, TypeInv', NEW r \in Ranks, BroadcastBatch(r)
  PROVE  IInv'
<1> USE Constants
<1>1. PICK k \in 0 .. 5, u \in Nat, v \in Nat : Abreast(k, u, v)
  BY DEF IInv, SyncInv
<1>2. k = 1 /\ Segment(r, k) /\ Counts(r, k, u, v)
  BY <1>1 DEF Abreast, Segment, At, BroadcastBatch, Runs, None
<1>3. Segment(r, k)'
  BY <1>2 DEF Segment, At, BroadcastBatch, Runs, Goto, Enter, IInv, TypeInv, None
<1>4. Counts(r, k, u, v)'
  BY <1>2 DEF Counts, BroadcastBatch, Runs, Goto, Enter, IInv, TypeInv, None
<1>5. \A q \in Ranks \ {r} :
        /\ pc'[q] = pc[q] /\ entered'[q] = entered[q] /\ batch'[q] = batch[q]
        /\ localUpdates'[q] = localUpdates[q] /\ paramVersion'[q] = paramVersion[q]
  BY DEF BroadcastBatch, Runs, Goto, Enter, IInv, TypeInv, None
<1>6. /\ samples' = samples \/ k = 1
      /\ pc'[r] = "received" => batch'[r] = samples'
      /\ pc'[r] # "prune" /\ snapshots' = snapshots
  BY <1>2 DEF BroadcastBatch, Runs, Goto, Enter, IInv, TypeInv, None
<1> QED BY <1>1, <1>2, <1>3, <1>4, <1>5, <1>6, RankMoves

\* The bytes of the batch.
LEMMA BroadcastDataKeeps ==
  ASSUME IInv, TypeInv', NEW r \in Ranks, BroadcastData(r)
  PROVE  IInv'
<1> USE Constants
<1>1. PICK k \in 0 .. 5, u \in Nat, v \in Nat : Abreast(k, u, v)
  BY DEF IInv, SyncInv
<1>2. k = 2 /\ Segment(r, k) /\ Counts(r, k, u, v)
  BY <1>1 DEF Abreast, Segment, At, BroadcastData, Runs, None
<1>3. Segment(r, k)'
  BY <1>2 DEF Segment, At, BroadcastData, Runs, Goto, Enter, IInv, TypeInv, None
<1>4. Counts(r, k, u, v)'
  BY <1>2 DEF Counts, BroadcastData, Runs, Goto, Enter, IInv, TypeInv, None
<1>5. \A q \in Ranks \ {r} :
        /\ pc'[q] = pc[q] /\ entered'[q] = entered[q] /\ batch'[q] = batch[q]
        /\ localUpdates'[q] = localUpdates[q] /\ paramVersion'[q] = paramVersion[q]
  BY DEF BroadcastData, Runs, Goto, Enter, IInv, TypeInv, None
<1>6. /\ samples' = samples \/ k = 1
      /\ pc'[r] = "received" => batch'[r] = samples'
      /\ pc'[r] # "prune" /\ snapshots' = snapshots
  BY <1>2 DEF BroadcastData, Runs, Goto, Enter, IInv, TypeInv, None
<1> QED BY <1>1, <1>2, <1>3, <1>4, <1>5, <1>6, RankMoves

\* An empty batch.
LEMMA SkipEmptyKeeps ==
  ASSUME IInv, TypeInv', NEW r \in Ranks, SkipEmpty(r)
  PROVE  IInv'
<1> USE Constants
<1>1. PICK k \in 0 .. 5, u \in Nat, v \in Nat : Abreast(k, u, v)
  BY DEF IInv, SyncInv
<1>2. k = 0 /\ Segment(r, k) /\ Counts(r, k, u, v)
  BY <1>1 DEF Abreast, Segment, At, SkipEmpty, Runs, None
<1>3. Segment(r, k)'
  BY <1>2 DEF Segment, At, SkipEmpty, Runs, Goto, Enter, IInv, TypeInv, None
<1>4. Counts(r, k, u, v)'
  BY <1>2 DEF Counts, SkipEmpty, Runs, Goto, Enter, IInv, TypeInv, None
<1>5. \A q \in Ranks \ {r} :
        /\ pc'[q] = pc[q] /\ entered'[q] = entered[q] /\ batch'[q] = batch[q]
        /\ localUpdates'[q] = localUpdates[q] /\ paramVersion'[q] = paramVersion[q]
  BY DEF SkipEmpty, Runs, Goto, Enter, IInv, TypeInv, None
<1>6. /\ samples' = samples \/ k = 1
      /\ pc'[r] = "received" => batch'[r] = samples'
      /\ pc'[r] # "prune" /\ snapshots' = snapshots
  BY <1>2 DEF SkipEmpty, Runs, Goto, Enter, IInv, TypeInv, None
<1> QED BY <1>1, <1>2, <1>3, <1>4, <1>5, <1>6, RankMoves

\* The old log-probabilities.
LEMMA OldLogProbsKeeps ==
  ASSUME IInv, TypeInv', NEW r \in Ranks, OldLogProbs(r)
  PROVE  IInv'
<1> USE Constants
<1>1. PICK k \in 0 .. 5, u \in Nat, v \in Nat : Abreast(k, u, v)
  BY DEF IInv, SyncInv
<1>2. k = 3 /\ Segment(r, k) /\ Counts(r, k, u, v)
  BY <1>1 DEF Abreast, Segment, At, OldLogProbs, Runs, None
<1>3. Segment(r, k)'
  BY <1>2 DEF Segment, At, OldLogProbs, Runs, Goto, Enter, IInv, TypeInv, None
<1>4. Counts(r, k, u, v)'
  BY <1>2 DEF Counts, OldLogProbs, Runs, Goto, Enter, IInv, TypeInv, None
<1>5. \A q \in Ranks \ {r} :
        /\ pc'[q] = pc[q] /\ entered'[q] = entered[q] /\ batch'[q] = batch[q]
        /\ localUpdates'[q] = localUpdates[q] /\ paramVersion'[q] = paramVersion[q]
  BY DEF OldLogProbs, Runs, Goto, Enter, IInv, TypeInv, None
<1>6. /\ samples' = samples \/ k = 1
      /\ pc'[r] = "received" => batch'[r] = samples'
      /\ pc'[r] # "prune" /\ snapshots' = snapshots
  BY <1>2 DEF OldLogProbs, Runs, Goto, Enter, IInv, TypeInv, None
<1> QED BY <1>1, <1>2, <1>3, <1>4, <1>5, <1>6, RankMoves

\* The optimizer step.
LEMMA UpdateKeeps ==
  ASSUME IInv, TypeInv', NEW r \in Ranks, Update(r)
  PROVE  IInv'
<1> USE Constants
<1>1. PICK k \in 0 .. 5, u \in Nat, v \in Nat : Abreast(k, u, v)
  BY DEF IInv, SyncInv
<1>2. k = 4 /\ Segment(r, k) /\ Counts(r, k, u, v)
  BY <1>1 DEF Abreast, Segment, At, Update, Runs, None
<1>3. Segment(r, k)'
  BY <1>2 DEF Segment, At, Update, Runs, Goto, Enter, IInv, TypeInv, None
<1>4. Counts(r, k, u, v)'
  BY <1>2 DEF Counts, Update, Runs, Goto, Enter, IInv, TypeInv, None
<1>5. \A q \in Ranks \ {r} :
        /\ pc'[q] = pc[q] /\ entered'[q] = entered[q] /\ batch'[q] = batch[q]
        /\ localUpdates'[q] = localUpdates[q] /\ paramVersion'[q] = paramVersion[q]
  BY DEF Update, Runs, Goto, Enter, IInv, TypeInv, None
<1>6. /\ samples' = samples \/ k = 1
      /\ pc'[r] = "received" => batch'[r] = samples'
      /\ pc'[r] # "prune" /\ snapshots' = snapshots
  BY <1>2 DEF Update, Runs, Goto, Enter, IInv, TypeInv, None
<1> QED BY <1>1, <1>2, <1>3, <1>4, <1>5, <1>6, RankMoves

\* The count of updates.
LEMMA TriggerParamSyncKeeps ==
  ASSUME IInv, TypeInv', NEW r \in Ranks, TriggerParamSync(r)
  PROVE  IInv'
<1> USE Constants
<1>1. PICK k \in 0 .. 5, u \in Nat, v \in Nat : Abreast(k, u, v)
  BY DEF IInv, SyncInv
<1>2. k = 5 /\ Segment(r, k) /\ Counts(r, k, u, v)
  BY <1>1 DEF Abreast, Segment, At, TriggerParamSync, Runs, None
<1>3. Segment(r, k)'
  BY <1>2 DEF Segment, At, TriggerParamSync, Runs, Goto, Enter, IInv, TypeInv, None
<1>4. Counts(r, k, u, v)'
  BY <1>2 DEF Counts, TriggerParamSync, Runs, Goto, Enter, IInv, TypeInv, None
<1>5. \A q \in Ranks \ {r} :
        /\ pc'[q] = pc[q] /\ entered'[q] = entered[q] /\ batch'[q] = batch[q]
        /\ localUpdates'[q] = localUpdates[q] /\ paramVersion'[q] = paramVersion[q]
  BY DEF TriggerParamSync, Runs, Goto, Enter, IInv, TypeInv, None
<1>6. /\ samples' = samples \/ k = 1
      /\ pc'[r] = "received" => batch'[r] = samples'
      /\ pc'[r] # "prune" /\ snapshots' = snapshots
  BY <1>2 DEF TriggerParamSync, Runs, Goto, Enter, IInv, TypeInv, None
<1> QED BY <1>1, <1>2, <1>3, <1>4, <1>5, <1>6, RankMoves

\* The metrics.
LEMMA ReduceMetricsKeeps ==
  ASSUME IInv, TypeInv', NEW r \in Ranks, ReduceMetrics(r)
  PROVE  IInv'
<1> USE Constants
<1>1. PICK k \in 0 .. 5, u \in Nat, v \in Nat : Abreast(k, u, v)
  BY DEF IInv, SyncInv
<1>2. k = 5 /\ Segment(r, k) /\ Counts(r, k, u, v)
  BY <1>1 DEF Abreast, Segment, At, ReduceMetrics, Runs, None
<1>3. Segment(r, k)'
  BY <1>2 DEF Segment, At, ReduceMetrics, Runs, Goto, Enter, IInv, TypeInv, None
<1>4. Counts(r, k, u, v)'
  BY <1>2 DEF Counts, ReduceMetrics, Runs, Goto, Enter, IInv, TypeInv, None
<1>5. \A q \in Ranks \ {r} :
        /\ pc'[q] = pc[q] /\ entered'[q] = entered[q] /\ batch'[q] = batch[q]
        /\ localUpdates'[q] = localUpdates[q] /\ paramVersion'[q] = paramVersion[q]
  BY DEF ReduceMetrics, Runs, Goto, Enter, IInv, TypeInv, None
<1>6. /\ samples' = samples \/ k = 1
      /\ pc'[r] = "received" => batch'[r] = samples'
      /\ pc'[r] # "prune" /\ snapshots' = snapshots
  BY <1>2 DEF ReduceMetrics, Runs, Goto, Enter, IInv, TypeInv, None
<1> QED BY <1>1, <1>2, <1>3, <1>4, <1>5, <1>6, RankMoves

\* The end of a micro step.
LEMMA EndStepKeeps ==
  ASSUME IInv, TypeInv', NEW r \in Ranks, EndStep(r)
  PROVE  IInv'
<1> USE Constants
<1>1. PICK k \in 0 .. 5, u \in Nat, v \in Nat : Abreast(k, u, v)
  BY DEF IInv, SyncInv
<1>2. k = 0 /\ Segment(r, k) /\ Counts(r, k, u, v)
  BY <1>1 DEF Abreast, Segment, At, EndStep, Runs, None
<1>3. Segment(r, k)'
  BY <1>2 DEF Segment, At, EndStep, Runs, Goto, Enter, IInv, TypeInv, None, SaveDue
<1>4. Counts(r, k, u, v)'
  BY <1>2 DEF Counts, EndStep, Runs, Goto, Enter, IInv, TypeInv, None
<1>5. \A q \in Ranks \ {r} :
        /\ pc'[q] = pc[q] /\ entered'[q] = entered[q] /\ batch'[q] = batch[q]
        /\ localUpdates'[q] = localUpdates[q] /\ paramVersion'[q] = paramVersion[q]
  BY DEF EndStep, Runs, Goto, Enter, IInv, TypeInv, None
<1>6. /\ samples' = samples \/ k = 1
      /\ pc'[r] = "received" => batch'[r] = samples'
      /\ pc'[r] # "prune" /\ snapshots' = snapshots
  BY <1>2 DEF EndStep, Runs, Goto, Enter, IInv, TypeInv, None
<1> QED BY <1>1, <1>2, <1>3, <1>4, <1>5, <1>6, RankMoves

\* The end of the run.
LEMMA FinishKeeps ==
  ASSUME IInv, TypeInv', NEW r \in Ranks, Finish(r)
  PROVE  IInv'
<1> USE Constants
<1>1. PICK k \in 0 .. 5, u \in Nat, v \in Nat : Abreast(k, u, v)
  BY DEF IInv, SyncInv
<1>2. k = 0 /\ Segment(r, k) /\ Counts(r, k, u, v)
  BY <1>1 DEF Abreast, Segment, At, Finish, Runs, None
<1>3. Segment(r, k)'
  BY <1>2 DEF Segment, At, Finish, Runs, Goto, Enter, IInv, TypeInv, None
<1>4. Counts(r, k, u, v)'
  BY <1>2 DEF Counts, Finish, Runs, Goto, Enter, IInv, TypeInv, None
<1>5. \A q \in Ranks \ {r} :
        /\ pc'[q] = pc[q] /\ entered'[q] = entered[q] /\ batch'[q] = batch[q]
        /\ localUpdates'[q] = localUpdates[q] /\ paramVersion'[q] = paramVersion[q]
  BY DEF Finish, Runs, Goto, Enter, IInv, TypeInv, None
<1>6. /\ samples' = samples \/ k = 1
      /\ pc'[r] = "received" => batch'[r] = samples'
      /\ pc'[r] # "prune" /\ snapshots' = snapshots
  BY <1>2 DEF Finish, Runs, Goto, Enter, IInv, TypeInv, None
<1> QED BY <1>1, <1>2, <1>3, <1>4, <1>5, <1>6, RankMoves

\* A successful write of a snapshot.
LEMMA PushKeeps ==
  ASSUME IInv, TypeInv', NEW r \in Ranks, Push(r)
  PROVE  IInv'
<1> USE Constants
<1>1. PICK k \in 0 .. 5, u \in Nat, v \in Nat : Abreast(k, u, v)
  BY DEF IInv, SyncInv
<1>2. k = 5 /\ Segment(r, k) /\ Counts(r, k, u, v)
  BY <1>1 DEF Abreast, Segment, At, Push, Runs, None
<1>3. u >= SyncEvery /\ paramVersion[r] = v + 1
  BY <1>2 DEF Counts, Push, Runs
<1>4. Segment(r, k)' /\ Counts(r, k, u, v)'
  BY <1>2, <1>3 DEF Segment, At, Counts, Push, Runs, Goto, IInv, TypeInv, None
<1>5. \A q \in Ranks \ {r} :
        /\ pc'[q] = pc[q] /\ entered'[q] = entered[q] /\ batch'[q] = batch[q]
        /\ localUpdates'[q] = localUpdates[q] /\ paramVersion'[q] = paramVersion[q]
  BY DEF Push, Goto, IInv, TypeInv
<1>6. /\ samples' = samples /\ pc'[r] = "prune" /\ paramVersion'[r] \in snapshots'
      /\ snapshots' = snapshots \cup {v + 1}
  BY <1>3 DEF Push, Goto, IInv, TypeInv
<1> QED BY <1>1, <1>2, <1>3, <1>4, <1>5, <1>6, RankMoves

\* A push that raises.
LEMMA PushFailKeeps ==
  ASSUME IInv, TypeInv', NEW r \in Ranks, PushFail(r)
  PROVE  IInv'
<1> USE Constants
<1>1. PICK k \in 0 .. 5, u \in Nat, v \in Nat : Abreast(k, u, v)
  BY DEF IInv, SyncInv
<1>2. k = 5 /\ Segment(r, k) /\ Counts(r, k, u, v)
  BY <1>1 DEF Abreast, Segment, At, PushFail, Runs, None
<1>3. u >= SyncEvery /\ paramVersion[r] = v + 1
  BY <1>2 DEF Counts, PushFail, Runs
<1>4. Segment(r, k)' /\ Counts(r, k, u, v)'
  BY <1>2, <1>3 DEF Segment, At, Counts, PushFail, Runs, Goto, IInv, TypeInv, None
<1>5. \A q \in Ranks \ {r} :
        /\ pc'[q] = pc[q] /\ entered'[q] = entered[q] /\ batch'[q] = batch[q]
        /\ localUpdates'[q] = localUpdates[q] /\ paramVersion'[q] = paramVersion[q]
  BY DEF PushFail, Goto, IInv, TypeInv
<1>6. /\ samples' = samples /\ pc'[r] = "metrics"
      /\ snapshots' = snapshots \/ snapshots' = snapshots \cup {v + 1}
  BY <1>3 DEF PushFail, Goto, IInv, TypeInv
<1> QED BY <1>1, <1>2, <1>3, <1>4, <1>5, <1>6, RankMoves

\* A version with too few newer leftovers is never outdated when nothing else is newer.
LEMMA CoveredNotOutdated ==
  ASSUME NEW n, Covered(n), \A s \in snapshots \ Leftovers : ~(s > n)
  PROVE  n \notin Outdated
<1> DEFINE A == {w \in snapshots : w > n}
           B == {w \in Leftovers : w > n}
<1> USE Constants
<1>1. A \subseteq B /\ B \subseteq Leftovers
  OBVIOUS
<1>2. IsFiniteSet(B)
  BY <1>1, FS_Subset
<1>3. Cardinality(A) <= Cardinality(B) /\ Cardinality(A) \in Nat /\ Cardinality(B) \in Nat
  BY <1>1, <1>2, FS_Subset, FS_CardinalityType
<1>4. Cardinality(B) < KeepVersions
  BY DEF Covered
<1>5. n \in Outdated => Cardinality(A) >= KeepVersions
  BY DEF Outdated
<1> HIDE DEF A, B
<1> QED BY <1>3, <1>4, <1>5

\* Only leftovers are newer than the version a rank in _cleanup_old_versions pushed.
LEMMA PushedIsNewest ==
  ASSUME IInv, NEW r \in Ranks, Runs(r, "prune")
  PROVE  /\ Covered(paramVersion[r]) => /\ paramVersion[r] \in snapshots
                                        /\ paramVersion[r] \notin Outdated
         /\ \E u \in Nat, v \in Nat : /\ Abreast(5, u, v) /\ u >= SyncEvery
                                      /\ Covered(v + 1) => v + 1 \notin Outdated
                                      /\ paramVersion[r] = v + 1
<1> USE Constants
<1>1. PICK k \in 0 .. 5, u \in Nat, v \in Nat : Abreast(k, u, v)
  BY DEF IInv, SyncInv
<1>2. k = 5 /\ Segment(r, k) /\ Counts(r, k, u, v)
  BY <1>1 DEF Abreast, Segment, At, Runs, None
<1>3. u >= SyncEvery /\ paramVersion[r] = v + 1
  BY <1>2 DEF Counts, Runs
<1>4. \A s \in snapshots \ Leftovers : ~(s > v + 1)
  BY <1>1, <1>2, <1>3 DEF Abreast, Newest, IInv, TypeInv
<1>5. Covered(v + 1) => v + 1 \notin Outdated
  BY <1>4, CoveredNotOutdated
<1>6. Covered(paramVersion[r]) => paramVersion[r] \in snapshots
  BY DEF IInv, SyncInv, Runs
<1> QED BY <1>1, <1>2, <1>3, <1>5, <1>6

\* The removal of old versions.
LEMMA PruneKeeps ==
  ASSUME IInv, TypeInv', NEW r \in Ranks, Prune(r)
  PROVE  IInv'
<1> USE Constants
<1>1. PICK u \in Nat, v \in Nat : /\ Abreast(5, u, v) /\ u >= SyncEvery
                                  /\ Covered(v + 1) => v + 1 \notin Outdated
                                  /\ paramVersion[r] = v + 1
  BY PushedIsNewest DEF Prune
<1>2. Segment(r, 5) /\ Counts(r, 5, u, v)
  BY <1>1 DEF Abreast
<1>3. Segment(r, 5)' /\ Counts(r, 5, u, v)'
  BY <1>1, <1>2 DEF Segment, At, Counts, Prune, Runs, Goto, IInv, TypeInv, None
<1>4. \A q \in Ranks \ {r} :
        /\ pc'[q] = pc[q] /\ entered'[q] = entered[q] /\ batch'[q] = batch[q]
        /\ localUpdates'[q] = localUpdates[q] /\ paramVersion'[q] = paramVersion[q]
  BY DEF Prune, Goto, IInv, TypeInv
<1>5. /\ samples' = samples /\ pc'[r] = "metrics"
      /\ snapshots' \subseteq snapshots \cup {v + 1}
      /\ Covered(v + 1) /\ v + 1 \in snapshots => v + 1 \in snapshots'
  <2>1. snapshots' \subseteq snapshots /\ snapshots \ Outdated \subseteq snapshots'
    BY DEF Prune, Outdated
  <2> QED BY <1>1, <2>1 DEF Prune, Goto, IInv, TypeInv
<1>6. 5 \in 0 .. 5
  OBVIOUS
<1> QED BY <1>1, <1>3, <1>4, <1>5, <1>6, RankMoves

\* A removal that leaves some of them.
LEMMA PruneFailKeeps ==
  ASSUME IInv, TypeInv', NEW r \in Ranks, PruneFail(r)
  PROVE  IInv'
<1> USE Constants
<1>1. PICK u \in Nat, v \in Nat : /\ Abreast(5, u, v) /\ u >= SyncEvery
                                  /\ Covered(v + 1) => v + 1 \notin Outdated
                                  /\ paramVersion[r] = v + 1
  BY PushedIsNewest DEF PruneFail
<1>2. Segment(r, 5) /\ Counts(r, 5, u, v)
  BY <1>1 DEF Abreast
<1>3. Segment(r, 5)' /\ Counts(r, 5, u, v)'
  BY <1>1, <1>2 DEF Segment, At, Counts, PruneFail, Runs, Goto, IInv, TypeInv, None
<1>4. \A q \in Ranks \ {r} :
        /\ pc'[q] = pc[q] /\ entered'[q] = entered[q] /\ batch'[q] = batch[q]
        /\ localUpdates'[q] = localUpdates[q] /\ paramVersion'[q] = paramVersion[q]
  BY DEF PruneFail, Goto, IInv, TypeInv
<1>5. /\ samples' = samples /\ pc'[r] = "metrics"
      /\ snapshots' \subseteq snapshots \cup {v + 1}
      /\ Covered(v + 1) /\ v + 1 \in snapshots => v + 1 \in snapshots'
  <2>1. snapshots' \subseteq snapshots /\ snapshots \ Outdated \subseteq snapshots'
    BY DEF PruneFail, Outdated
  <2> QED BY <1>1, <2>1 DEF PruneFail, Goto, IInv, TypeInv
<1>6. 5 \in 0 .. 5
  OBVIOUS
<1> QED BY <1>1, <1>3, <1>4, <1>5, <1>6, RankMoves

\* A collective that completes brings every rank into the same next segment.
LEMMA CompleteKeeps ==
  ASSUME IInv, TypeInv', Complete
  PROVE  IInv'
<1> USE Constants
<1>1. PICK k \in 0 .. 5, u \in Nat, v \in Nat : Abreast(k, u, v)
  BY DEF IInv, SyncInv
<1>2. PICK c \in Collectives : \A r \in Ranks : entered[r] = c
  BY DEF Complete, IInv, TypeInv
<1>3. /\ pc' = pc /\ batch' = batch /\ samples' = samples /\ snapshots' = snapshots
      /\ localUpdates' = localUpdates /\ paramVersion' = paramVersion
      /\ \A r \in Ranks : entered'[r] = None
  BY DEF Complete
<1>4. None \notin Collectives
  BY DEF None, Collectives
<1>5. \A r \in Ranks : Segment(r, k) /\ Counts(r, k, u, v)
  BY <1>1 DEF Abreast
<1>6. \A s \in snapshots \ Leftovers : s <= Newest(k, u, v)
  BY <1>1 DEF Abreast
<1>7. SUFFICES \E j \in 0 .. 5, x \in Nat, y \in Nat :
                 /\ \A r \in Ranks : Segment(r, j)' /\ Counts(r, j, x, y)'
                 /\ Newest(k, u, v) <= Newest(j, x, y)
  <2>1. PICK j \in 0 .. 5, x \in Nat, y \in Nat :
                 /\ \A r \in Ranks : Segment(r, j)' /\ Counts(r, j, x, y)'
                 /\ Newest(k, u, v) <= Newest(j, x, y)
    BY <1>7
  <2>2. \A s \in snapshots \ Leftovers : s <= Newest(j, x, y)
    BY <2>1, <1>6 DEF Newest, IInv, TypeInv
  <2>3. Abreast(j, x, y)'
    BY <2>1, <2>2, <1>3 DEF Abreast, Newest
  <2> QED BY <2>3, <1>3 DEF IInv, SyncInv, Covered
<1>10. CASE k = 0
  <2>1. \A r \in Ranks : Counts(r, 0, u, v)' /\ Counts(r, 1, u, v)'
    BY <1>10, <1>3, <1>5 DEF Counts
  <2>2. CASE c = "saveState"
    <3>1. \A r \in Ranks : Segment(r, 0)'
      BY <1>10, <2>2, <1>2, <1>3, <1>5 DEF Segment, At, None
    <3> QED BY <2>1, <3>1, <1>10 DEF Newest
  <2>3. CASE c # "saveState"
    <3>1. \A r \in Ranks : Segment(r, 1)'
      BY <1>10, <2>3, <1>2, <1>3, <1>4, <1>5 DEF Segment, At
    <3> QED BY <2>1, <3>1, <1>10 DEF Newest
  <2> QED BY <2>2, <2>3
<1>11. CASE k = 1
  <2>1. \A r \in Ranks : Counts(r, 1, u, v)' /\ Counts(r, 2, u, v)'
    BY <1>11, <1>3, <1>5 DEF Counts
  <2>2. CASE c = "allGather"
    <3>1. \A r \in Ranks : Segment(r, 1)'
      BY <1>11, <2>2, <1>2, <1>3, <1>5 DEF Segment, At, None
    <3> QED BY <2>1, <3>1, <1>11 DEF Newest
  <2>3. CASE c # "allGather"
    <3>1. \A r \in Ranks : Segment(r, 2)'
      BY <1>11, <2>3, <1>2, <1>3, <1>4, <1>5 DEF Segment, At
    <3> QED BY <2>1, <3>1, <1>11 DEF Newest
  <2> QED BY <2>2, <2>3
<1>12. CASE k = 2
  <2>1. \A r \in Ranks : Counts(r, 0, u, v)' /\ Counts(r, 3, u, v)'
    BY <1>12, <1>3, <1>5 DEF Counts
  <2>2. \A r \in Ranks : pc[r] = "received" /\ batch[r] = samples
    BY <1>12, <1>2, <1>4, <1>5 DEF Segment, At, IInv, SyncInv
  <2>3. CASE samples = 0
    <3>1. \A r \in Ranks : Segment(r, 0)'
      BY <2>2, <2>3, <1>3 DEF Segment, At
    <3> QED BY <2>1, <3>1, <1>12 DEF Newest
  <2>4. CASE samples # 0
    <3>1. \A r \in Ranks : Segment(r, 3)'
      BY <2>2, <2>4, <1>3 DEF Segment, At, IInv, TypeInv
    <3> QED BY <2>1, <3>1, <1>12 DEF Newest
  <2> QED BY <2>3, <2>4
<1>13. CASE k = 3
  <2>1. \A r \in Ranks : Segment(r, 4)' /\ pc[r] = "update"
    BY <1>13, <1>2, <1>3, <1>4, <1>5 DEF Segment, At
  <2>2. \A r \in Ranks : Counts(r, 4, u, v)'
    BY <1>13, <2>1, <1>3, <1>5 DEF Counts
  <2> QED BY <2>1, <2>2, <1>13 DEF Newest
<1>14. CASE k = 4
  <2>1. \A r \in Ranks : Segment(r, 5)' /\ pc[r] = "sync"
    BY <1>14, <1>2, <1>3, <1>4, <1>5 DEF Segment, At
  <2>2. \A r \in Ranks : Counts(r, 5, u + 1, v)'
    BY <1>14, <2>1, <1>3, <1>5 DEF Counts
  <2>3. u + 1 \in Nat
    OBVIOUS
  <2> QED BY <2>1, <2>2, <2>3, <1>14 DEF Newest
<1>15. CASE k = 5
  <2>1. \A r \in Ranks : Segment(r, 0)' /\ pc[r] = "end"
    BY <1>15, <1>2, <1>3, <1>4, <1>5 DEF Segment, At
  <2>2. CASE u >= SyncEvery
    <3>1. \A r \in Ranks : Counts(r, 0, 0, v + 1)'
      BY <1>15, <2>1, <2>2, <1>3, <1>5 DEF Counts
    <3> QED BY <2>1, <2>2, <3>1, <1>15 DEF Newest
  <2>3. CASE ~(u >= SyncEvery)
    <3>1. \A r \in Ranks : Counts(r, 0, u, v)'
      BY <1>15, <2>1, <2>3, <1>3, <1>5 DEF Counts
    <3> QED BY <2>1, <2>3, <3>1, <1>15 DEF Newest
  <2> QED BY <2>2, <2>3
<1> QED BY <1>10, <1>11, <1>12, <1>13, <1>14, <1>15

\* IInv is inductive.
LEMMA IInvStep == IInv /\ [Next]_vars => IInv'
<1> SUFFICES ASSUME IInv, [Next]_vars PROVE IInv'
  OBVIOUS
<1>1. CASE UNCHANGED vars
  <2>1. TypeInv'
    BY <1>1 DEF vars, IInv, TypeInv
  <2>2. PICK k \in 0 .. 5, u \in Nat, v \in Nat : Abreast(k, u, v)
    BY DEF IInv, SyncInv
  <2>3. \A r \in Ranks : Segment(r, k)' /\ Counts(r, k, u, v)'
    BY <1>1, <2>2, OthersStay DEF vars, Abreast
  <2>4. Abreast(k, u, v)'
    BY <1>1, <2>2, <2>3 DEF vars, Abreast, Newest
  <2> QED BY <1>1, <2>1, <2>4 DEF vars, IInv, SyncInv, Covered
<1>2. CASE Next
  <2>1. TypeInv'
    BY <1>2, TypeStep DEF IInv
  <2>2. CASE Complete
    BY <2>1, <2>2, CompleteKeeps
  <2>3. CASE Rank0
    BY <2>1, <2>3, OffloadKeeps, GenerateSampleKeeps, GenerateFailKeeps, ReloadKeeps DEF Rank0
  <2>4. ASSUME NEW r \in Ranks, Rank(r) PROVE IInv'
    BY <2>1, <2>4, BeginStepKeeps, BroadcastBatchKeeps, BroadcastDataKeeps, SkipEmptyKeeps,
       OldLogProbsKeeps, UpdateKeeps, TriggerParamSyncKeeps, PushKeeps, PushFailKeeps,
       PruneKeeps, PruneFailKeeps, ReduceMetricsKeeps, EndStepKeeps, FinishKeeps DEF Rank
  <2> QED BY <1>2, <2>2, <2>3, <2>4 DEF Next
<1> QED BY <1>1, <1>2

\* IInv holds in every reachable state.
LEMMA Invariant == Spec => []IInv
BY InitIInv, IInvStep, PTL DEF Spec

-----------------------------------------------------------------------------
(* What _cleanup_old_versions leaves *)

\* At most KeepVersions versions have fewer than KeepVersions newer ones.
LEMMA KeptAreFew ==
  ASSUME TypeInv
  PROVE  Cardinality(snapshots \ Outdated) <= KeepVersions
<1> DEFINE T == snapshots \ Outdated
<1> USE Constants
<1>1. CASE T = {}
  BY <1>1, FS_EmptySet
<1>2. CASE T # {}
  <2>1. T \in SUBSET Nat /\ IsFiniteSet(T) /\ Cardinality(T) \in Nat
    BY FS_Difference, FS_CardinalityType DEF TypeInv
  <2>2. PICK m \in T : \A s \in T : m <= s
    BY <2>1, <1>2, LeastNumber
  <2> DEFINE A == {w \in snapshots : w > m}
  <2>3. A \in SUBSET snapshots /\ IsFiniteSet(A) /\ Cardinality(A) \in Nat
    BY FS_Subset, FS_CardinalityType DEF TypeInv
  <2>4. Cardinality(A) < KeepVersions
    BY <2>2, <2>3 DEF Outdated
  <2>5. T \ {m} \in SUBSET A
    BY <2>1, <2>2 DEF TypeInv
  <2>6. Cardinality(T \ {m}) = Cardinality(T) - 1
    BY <2>1, <2>2, FS_RemoveElement
  <2>7. Cardinality(T \ {m}) <= Cardinality(A)
    BY <2>3, <2>5, FS_Subset
  <2> HIDE DEF T, A
  <2>8. Cardinality(T) <= KeepVersions
    BY <2>1, <2>3, <2>4, <2>6, <2>7
  <2> QED BY <2>8 DEF T
<1> QED BY <1>1, <1>2

\* A version that goes has KeepVersions newer ones that stay, whichever of the
\* outdated ones do.
LEMMA NewerStay ==
  ASSUME TypeInv, NEW S \in SUBSET snapshots, snapshots \ Outdated \subseteq S,
         NEW v \in Outdated
  PROVE  Cardinality({w \in S : w > v}) >= KeepVersions
<1> USE Constants
<1>1. Outdated \in SUBSET Nat /\ IsFiniteSet(Outdated) /\ v \in snapshots
  BY FS_Subset DEF Outdated, TypeInv
<1>2. PICK b \in Nat : \A s \in Outdated : s <= b
  BY <1>1, FiniteBounded
<1>3. PICK g \in Outdated : \A s \in Outdated : s <= g
  BY <1>1, <1>2, GreatestNumber
<1> DEFINE A == {w \in snapshots : w > g}
           B == {w \in S : w > v}
<1>4. Cardinality(A) >= KeepVersions
  BY <1>3 DEF Outdated
<1>5. A \in SUBSET B
  <2> SUFFICES ASSUME NEW w \in snapshots, w > g PROVE w \in B
    OBVIOUS
  <2>1. w \in Nat /\ g \in Nat /\ v \in Nat /\ v <= g
    BY <1>1, <1>3 DEF TypeInv
  <2>2. w \notin Outdated /\ w > v
    BY <2>1, <1>3
  <2> QED BY <2>2
<1>6. IsFiniteSet(B)
  <2>1. B \in SUBSET snapshots
    OBVIOUS
  <2> QED BY <2>1, FS_Subset DEF TypeInv
<1>7. Cardinality(A) <= Cardinality(B) /\ Cardinality(A) \in Nat /\ Cardinality(B) \in Nat
  BY <1>5, <1>6, FS_Subset, FS_CardinalityType
<1> HIDE DEF A, B
<1>8. Cardinality(B) >= KeepVersions
  BY <1>4, <1>7
<1> QED BY <1>8 DEF B

-----------------------------------------------------------------------------
(* The theorems *)

\* Without the log-probabilities rank 0 computes while it generates, and without
\* the checkpoints it saves alone, the ranks never meet in different collectives:
\* for any number of ranks, whatever wake, generate or push raise.
THEOREM RanksMeet ==
  ~UseRolloutLogProbs /\ SaveEvery = 0 => (Spec => []CollectivesPaired)
<1> SUFFICES ASSUME ~UseRolloutLogProbs, SaveEvery = 0 PROVE Spec => []CollectivesPaired
  OBVIOUS
<1>1. IInv => CollectivesPaired
  <2> SUFFICES ASSUME IInv, \A r \in Ranks : entered[r] # None
               PROVE  Cardinality({entered[r] : r \in Ranks}) = 1
    BY DEF CollectivesPaired
  <2>1. PICK k \in 0 .. 5 : \A r \in Ranks : Segment(r, k)
    BY DEF IInv, SyncInv, Abreast
  <2>2. \A r, q \in Ranks : entered[r] = entered[q]
    BY <2>1, Constants DEF Segment, At
  <2>3. {entered[r] : r \in Ranks} = {entered[0]}
    BY <2>2, Constants
  <2> QED BY <2>3, FS_Singleton
<1> QED BY <1>1, Invariant, PTL

\* For any number of ranks that push the same version and prune the same directory
\* in any order, any leftovers of earlier runs and any failures of a push or a
\* removal: a finished push leaves its own version unless KeepVersions leftovers are
\* newer, at most KeepVersions stay when every removal succeeds, and none goes
\* before KeepVersions newer ones are there.
THEOREM SnapshotsKept == Spec => SnapshotKept
<1> DEFINE A == /\ \A r \in Ranks : (Prune(r) \/ PruneFail(r)) /\ Covered(paramVersion[r])
                                       => paramVersion[r] \in snapshots'
                /\ \A r \in Ranks : Prune(r) => Cardinality(snapshots') <= KeepVersions
                /\ \A v \in snapshots \ snapshots' :
                     Cardinality({w \in snapshots' : w > v}) >= KeepVersions
<1>1. IInv /\ [Next]_vars => [A]_vars
  <2> SUFFICES ASSUME IInv, Next PROVE A
    OBVIOUS
  <2>1. ASSUME NEW r \in Ranks, Prune(r) \/ PruneFail(r)
        PROVE  /\ Covered(paramVersion[r]) => paramVersion[r] \in snapshots'
               /\ \A v \in snapshots \ snapshots' :
                    Cardinality({w \in snapshots' : w > v}) >= KeepVersions
    <3>1. /\ snapshots' \subseteq snapshots /\ snapshots \ Outdated \subseteq snapshots'
          /\ Runs(r, "prune")
      BY <2>1 DEF Prune, PruneFail, Outdated
    <3>2. Covered(paramVersion[r]) => paramVersion[r] \in snapshots'
      BY <3>1, PushedIsNewest
    <3>3. ASSUME NEW v \in snapshots \ snapshots'
          PROVE  Cardinality({w \in snapshots' : w > v}) >= KeepVersions
      BY <3>1, <3>3, NewerStay DEF IInv
    <3> QED BY <3>2, <3>3
  <2>2. ASSUME NEW r \in Ranks, Prune(r) PROVE Cardinality(snapshots') <= KeepVersions
    BY <2>2, KeptAreFew DEF IInv, Prune
  <2>3. CASE \E r \in Ranks : Prune(r) \/ PruneFail(r)
    BY <2>1, <2>2, <2>3
  <2>4. CASE ~\E r \in Ranks : Prune(r) \/ PruneFail(r)
    <3>1. snapshots \subseteq snapshots'
      BY <2>4 DEF Next, Complete, Rank0, Offload, GenerateSample, GenerateFail, Reload, Rank,
         BeginStep, BroadcastBatch, BroadcastData, SkipEmpty, OldLogProbs, Update,
         TriggerParamSync, Push, PushFail, ReduceMetrics, EndStep, Finish
    <3> QED BY <2>4, <3>1
  <2> QED BY <2>3, <2>4
<1> QED BY <1>1, Invariant, PTL DEF Spec, SnapshotKept
=============================================================================

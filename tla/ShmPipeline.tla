---------------------------- MODULE ShmPipeline ----------------------------
(***************************************************************************)
(* The teacher-data pipeline of SpecDistillTrainer.train with an engine    *)
(* teacher (trainer/spec_distill_trainer.py).                              *)
(*                                                                         *)
(* On rank 0 a _TeacherPrefetcher thread runs teacher inference and a      *)
(* _ShmWriterThread copies each result into one of Slots directories under *)
(* /dev/shm and then creates the sentinel file READY_{step}.  On every     *)
(* rank a _ShmLoaderThread polls for the sentinels and copies the slot     *)
(* out.  The main thread of rank 0 takes its data from the writer's        *)
(* rank0_buffer, every other main thread from its own loader; a            *)
(* torch.distributed barrier separates taking the data of a step from      *)
(* handing its slot back to the writer.                                    *)
(***************************************************************************)
EXTENDS Integers, Sequences, FiniteSets

CONSTANTS
  WorldSize,      \* number of ranks
  Slots,          \* _SHM_SLOTS
  PrefetchDepth,  \* maxsize of the prefetcher's result queue
  Start,          \* global_step at which train() begins (> 0 after a resume)
  Total,          \* num_training_steps
  Accums,         \* the possible num_accum, micro-batches, of each step
  Sharded,        \* the draft model is sharded (FSDP2), else replicated
  TeacherMayFail, \* teacher inference may raise
  ShmMayFail,     \* writing or reading the files of a slot may raise
  TimeoutsMayFire \* waits longer than _SHM_TIMEOUT may happen

ASSUME PipelineAssumption ==
  /\ WorldSize \in Nat \ {0}
  /\ Slots \in Nat \ {0}
  /\ PrefetchDepth \in Nat \ {0}
  /\ Start \in Nat
  /\ Total \in Nat
  /\ Start <= Total
  /\ TeacherMayFail \in BOOLEAN
  /\ ShmMayFail \in BOOLEAN
  /\ TimeoutsMayFire \in BOOLEAN

Ranks == 0 .. (WorldSize - 1)
SlotSet == 0 .. (Slots - 1)
Steps == Start .. (Total - 1)

ASSUME TrainAssumption ==
  Accums \subseteq [Steps -> Nat \ {0}] /\ Sharded \in BOOLEAN

\* Non-step values of a queue item or of the bytes in a slot.
Stop  == -1   \* _PREFETCH_SENTINEL
Error == -2   \* an exception object travelling through a queue
Torn  == -3   \* a slot (or a copy of one) holding a mixture of two batches

VARIABLES
  \* _TeacherPrefetcher
  reqQueue, resQueue, prefetchPc, prefetched,
  \* _ShmWriterThread
  writerWork, writerPc, writerItem, writerData, rank0Buffer, slotFree,
  \* files under /dev/shm/_teacher_{slot}
  slotData, readyFile,
  \* _ShmLoaderThread of each rank; the item in hand is the head of its work
  loaderWork, loaderPc, loaderData, loaderReady,
  \* train() of each rank
  mainPc, mainStep, future, loaded, collectives, trained,
  numAccum \* of each step, fixed by the length of its sequences

prefetchVars == <<reqQueue, resQueue, prefetchPc, prefetched>>
writerVars   == <<writerWork, writerPc, writerItem, writerData, rank0Buffer,
                  slotFree>>
fileVars     == <<slotData, readyFile>>
loaderVars   == <<loaderWork, loaderPc, loaderData, loaderReady>>
mainVars     == <<mainPc, mainStep, future, loaded, collectives, trained,
                  numAccum>>
vars == <<prefetchVars, writerVars, fileVars, loaderVars, mainVars>>

Item(s, k)  == [step |-> s, slot |-> k]    \* (step, slot) in a work queue
Batch(d, k) == [data |-> d, slot |-> k]    \* teacher tensors, with "_slot"
StopItem    == Item(Stop, Stop)
NoBatch     == Batch(Stop, Stop)           \* no future submitted
Pending     == Batch(Torn, Stop)           \* future submitted, not resolved

-----------------------------------------------------------------------------
(* Type invariant *)

WorkItems == [step : Steps, slot : SlotSet]
Results   == [data : Steps \cup {Error, Torn}, slot : SlotSet]

PrefetchType ==
  /\ reqQueue \in Seq(Steps \cup {Stop})
  /\ resQueue \in Seq(Steps \cup {Error})
  /\ prefetchPc \in {"get", "put", "stopped"}
  /\ prefetched \in Steps \cup {Stop, Error}

WriterType ==
  /\ writerWork \in Seq(WorkItems \cup {StopItem})
  /\ writerPc \in {"get", "buffer", "slot", "publish", "stopped"}
  /\ writerItem \in WorkItems \cup {StopItem}
  /\ writerData \in Steps \cup {Stop, Error}
  /\ rank0Buffer \in Seq(Results)
  /\ slotFree \in [SlotSet -> BOOLEAN]

FileType ==
  /\ slotData \in [SlotSet -> Steps \cup {Torn}]
  /\ readyFile \in [SlotSet -> Steps \cup {Stop}]

LoaderType ==
  /\ loaderWork \in [Ranks -> Seq(WorkItems \cup {StopItem})]
  /\ loaderPc \in [Ranks -> {"wait", "load", "put", "stopped"}]
  /\ loaderData \in [Ranks -> Steps \cup {Stop, Error, Torn}]
  /\ loaderReady \in [Ranks -> Seq(Results)]

MainType ==
  /\ mainPc \in [Ranks -> {"begin", "prime", "fetch", "release", "train",
                           "reduce", "stop", "done", "failed"}]
  /\ mainStep \in [Ranks -> Nat]
  /\ future \in [Ranks -> Results \cup {NoBatch, Pending}]
  /\ loaded \in [Ranks -> Results \cup {NoBatch}]
  /\ collectives \in [Ranks -> Nat]
  /\ trained \in [Ranks -> Seq(Steps \cup {Torn})]
  /\ numAccum \in Accums

\* Every variable has its type.
TypeOK ==
  PrefetchType /\ WriterType /\ FileType /\ LoaderType /\ MainType

-----------------------------------------------------------------------------
\* An earlier run, finished or killed, may have left bytes of its own (Torn: no
\* batch of this run) and a sentinel of any step in every slot.  readyFile[k]
\* is the step of the one READY_ file in slot k (Stop: none).
Init ==
  /\ reqQueue = <<>> /\ resQueue = <<>>
  /\ prefetchPc = "get" /\ prefetched = Stop
  /\ writerWork = <<>> /\ writerPc = "get" /\ writerItem = StopItem
  /\ writerData = Stop /\ rank0Buffer = <<>>
  /\ slotFree = [k \in SlotSet |-> TRUE]
  /\ slotData = [k \in SlotSet |-> Torn]
  /\ readyFile \in [SlotSet -> {Stop} \cup Steps]
  /\ loaderWork = [r \in Ranks |-> <<>>]
  /\ loaderPc = [r \in Ranks |-> "wait"]
  /\ loaderData = [r \in Ranks |-> Stop]
  /\ loaderReady = [r \in Ranks |-> <<>>]
  /\ mainPc = [r \in Ranks |-> "begin"]
  /\ mainStep = [r \in Ranks |-> Start]
  /\ future = [r \in Ranks |-> NoBatch]
  /\ loaded = [r \in Ranks |-> NoBatch]
  /\ collectives = [r \in Ranks |-> 0]
  /\ trained = [r \in Ranks |-> <<>>]
  /\ numAccum \in Accums

\* The daemon threads of a rank run as long as its process does.
Alive(r) == mainPc[r] # "failed"

-----------------------------------------------------------------------------
(* _TeacherPrefetcher._loop *)

\* Take a requested step and run teacher inference on its sequences.
PrefetchInfer ==
  /\ Alive(0) /\ prefetchPc = "get"
  /\ reqQueue # <<>> /\ Head(reqQueue) # Stop
  /\ \/ prefetched' = Head(reqQueue)
     \/ TeacherMayFail /\ prefetched' = Error
  /\ reqQueue' = Tail(reqQueue)
  /\ prefetchPc' = "put"
  /\ UNCHANGED <<resQueue, writerVars, fileVars, loaderVars, mainVars>>

\* Put the result, or the exception; blocks while the queue is full.
PrefetchPut ==
  /\ Alive(0) /\ prefetchPc = "put"
  /\ Len(resQueue) < PrefetchDepth
  /\ resQueue' = Append(resQueue, prefetched)
  /\ prefetchPc' = "get"
  /\ UNCHANGED <<reqQueue, prefetched, writerVars, fileVars, loaderVars, mainVars>>

PrefetchStop ==
  /\ Alive(0) /\ prefetchPc = "get"
  /\ reqQueue # <<>> /\ Head(reqQueue) = Stop
  /\ reqQueue' = Tail(reqQueue)
  /\ prefetchPc' = "stopped"
  /\ UNCHANGED <<resQueue, prefetched, writerVars, fileVars, loaderVars, mainVars>>

-----------------------------------------------------------------------------
(* _ShmWriterThread._loop *)

\* Take a work item and the next prefetch result.  prefetcher.get() raises an
\* exception it finds there: the loop logs it and drops the item.
WriterGet ==
  /\ Alive(0) /\ writerPc = "get"
  /\ writerWork # <<>> /\ Head(writerWork) # StopItem
  /\ resQueue # <<>>
  /\ writerItem' = Head(writerWork)
  /\ writerWork' = Tail(writerWork)
  /\ writerData' = Head(resQueue)
  /\ resQueue' = Tail(resQueue)
  /\ writerPc' = IF Head(resQueue) = Error THEN "get" ELSE "buffer"
  /\ UNCHANGED <<reqQueue, prefetchPc, prefetched, rank0Buffer, slotFree,
                 fileVars, loaderVars, mainVars>>

\* Hand the entry to rank 0; blocks while rank0_buffer is full.
WriterBuffer ==
  /\ Alive(0) /\ writerPc = "buffer"
  /\ Len(rank0Buffer) < Slots
  /\ rank0Buffer' = Append(rank0Buffer, Batch(writerData, writerItem.slot))
  /\ writerPc' = "slot"
  /\ UNCHANGED <<writerWork, writerItem, writerData, slotFree,
                 prefetchVars, fileVars, loaderVars, mainVars>>

\* The slot is free: claim it, delete its READY_ files and start copying.
WriterClaim ==
  /\ Alive(0) /\ writerPc = "slot"
  /\ slotFree[writerItem.slot]
  /\ slotFree' = [slotFree EXCEPT ![writerItem.slot] = FALSE]
  /\ readyFile' = [readyFile EXCEPT ![writerItem.slot] = Stop]
  /\ slotData' = [slotData EXCEPT ![writerItem.slot] = Torn]
  /\ writerPc' = "publish"
  /\ UNCHANGED <<writerWork, writerItem, writerData, rank0Buffer,
                 prefetchVars, loaderVars, mainVars>>

\* The slot stayed taken for _SHM_TIMEOUT: give up publishing this step.
WriterTimeout ==
  /\ Alive(0) /\ writerPc = "slot"
  /\ TimeoutsMayFire /\ ~slotFree[writerItem.slot]
  /\ writerPc' = "get"
  /\ UNCHANGED <<writerWork, writerItem, writerData, rank0Buffer, slotFree,
                 prefetchVars, fileVars, loaderVars, mainVars>>

\* The copy is complete; creating READY_{step} is the last thing _publish does.
WriterPublish ==
  /\ Alive(0) /\ writerPc = "publish"
  /\ slotData' = [slotData EXCEPT ![writerItem.slot] = writerData]
  /\ readyFile' = [readyFile EXCEPT ![writerItem.slot] = writerItem.step]
  /\ writerPc' = "get"
  /\ UNCHANGED <<writerWork, writerItem, writerData, rank0Buffer, slotFree,
                 prefetchVars, loaderVars, mainVars>>

\* _publish raises: the loop logs it and goes on; the slot stays claimed.
WriterFail ==
  /\ Alive(0) /\ writerPc = "publish"
  /\ ShmMayFail
  /\ writerPc' = "get"
  /\ UNCHANGED <<writerWork, writerItem, writerData, rank0Buffer, slotFree,
                 prefetchVars, fileVars, loaderVars, mainVars>>

WriterStop ==
  /\ Alive(0) /\ writerPc = "get"
  /\ writerWork # <<>> /\ Head(writerWork) = StopItem
  /\ writerWork' = Tail(writerWork)
  /\ writerPc' = "stopped"
  /\ UNCHANGED <<writerItem, writerData, rank0Buffer, slotFree,
                 prefetchVars, fileVars, loaderVars, mainVars>>

-----------------------------------------------------------------------------
(* _ShmLoaderThread._loop *)

InHand(r) == Head(loaderWork[r])

LoaderWaits(r) ==
  /\ Alive(r) /\ loaderPc[r] = "wait"
  /\ loaderWork[r] # <<>> /\ InHand(r) # StopItem

\* Mutant: the sentinel's name does not carry the step.
MutAnySentinel(r) == readyFile[InHand(r).slot] # Stop

\* READY_{step} exists in the slot the loader was told to read.
SentinelExists(r) == readyFile[InHand(r).slot] = InHand(r).step

\* _wait_sentinel finds the file: open the slot and start copying it.
LoaderOpen(r) ==
  /\ LoaderWaits(r)
  /\ SentinelExists(r)
  /\ loaderData' = [loaderData EXCEPT ![r] = slotData[InHand(r).slot]]
  /\ loaderPc' = [loaderPc EXCEPT ![r] = "load"]
  /\ UNCHANGED <<loaderWork, loaderReady, prefetchVars, writerVars, fileVars,
                 mainVars>>

\* The copy ends; it is torn if the writer has touched the slot since.
LoaderCopy(r) ==
  /\ Alive(r) /\ loaderPc[r] = "load"
  /\ loaderData' = [loaderData EXCEPT ![r] =
                      IF slotData[InHand(r).slot] = @ THEN @ ELSE Torn]
  /\ loaderPc' = [loaderPc EXCEPT ![r] = "put"]
  /\ UNCHANGED <<loaderWork, loaderReady, prefetchVars, writerVars, fileVars,
                 mainVars>>

\* _load raises: the exception travels on.
LoaderFail(r) ==
  /\ Alive(r) /\ loaderPc[r] = "load"
  /\ ShmMayFail
  /\ loaderData' = [loaderData EXCEPT ![r] = Error]
  /\ loaderPc' = [loaderPc EXCEPT ![r] = "put"]
  /\ UNCHANGED <<loaderWork, loaderReady, prefetchVars, writerVars, fileVars,
                 mainVars>>

\* Mutant: polling has no deadline.
MutPollForever(r) == FALSE

\* The sentinel did not appear within _SHM_TIMEOUT: a TimeoutError travels on.
LoaderTimeout(r) ==
  /\ LoaderWaits(r)
  /\ TimeoutsMayFire /\ ~SentinelExists(r)
  /\ loaderData' = [loaderData EXCEPT ![r] = Error]
  /\ loaderPc' = [loaderPc EXCEPT ![r] = "put"]
  /\ UNCHANGED <<loaderWork, loaderReady, prefetchVars, writerVars, fileVars,
                 mainVars>>

\* Put the result or the exception; blocks while the queue is full.
LoaderPut(r) ==
  /\ Alive(r) /\ loaderPc[r] = "put"
  /\ Len(loaderReady[r]) < Slots
  /\ loaderReady' = [loaderReady EXCEPT ![r] =
                       Append(@, Batch(loaderData[r], InHand(r).slot))]
  /\ loaderWork' = [loaderWork EXCEPT ![r] = Tail(@)]
  /\ loaderPc' = [loaderPc EXCEPT ![r] = "wait"]
  /\ UNCHANGED <<loaderData, prefetchVars, writerVars, fileVars, mainVars>>

LoaderStop(r) ==
  /\ Alive(r) /\ loaderPc[r] = "wait"
  /\ loaderWork[r] # <<>> /\ InHand(r) = StopItem
  /\ loaderWork' = [loaderWork EXCEPT ![r] = Tail(@)]
  /\ loaderPc' = [loaderPc EXCEPT ![r] = "stopped"]
  /\ UNCHANGED <<loaderData, loaderReady, prefetchVars, writerVars, fileVars,
                 mainVars>>

-----------------------------------------------------------------------------
(* SpecDistillTrainer.train *)

\* torch.distributed.barrier and all_reduce: the n-th collective of a rank
\* returns once every rank has entered its n-th.
Arrive(r) == collectives' = [collectives EXCEPT ![r] = @ + 1]

Complete(r) == \A q \in Ranks : collectives[q] >= collectives[r]

\* Mutant: sentinels of an earlier run are left in place.
MutKeepReady(r) == readyFile' = readyFile

\* Rank 0 removes every READY_ file before any loader is given work.
ClearReady(r) ==
  readyFile' = IF r = 0 THEN [k \in SlotSet |-> Stop] ELSE readyFile

\* Rank 0 deletes the sentinels an earlier run left; every rank enters the barrier.
MainBegin(r) ==
  /\ mainPc[r] = "begin"
  /\ ClearReady(r)
  /\ Arrive(r)
  /\ mainPc' = [mainPc EXCEPT ![r] = "prime"]
  /\ UNCHANGED <<numAccum, slotData, mainStep, future, loaded, trained,
                 prefetchVars, writerVars, loaderVars>>

\* prefetcher.prefetch (rank 0), shm_writer.submit (rank 0), shm_loader.submit.
Submit(r, items) ==
  /\ reqQueue' = IF r = 0
                   THEN reqQueue \o [i \in 1 .. Len(items) |-> items[i].step]
                   ELSE reqQueue
  /\ writerWork' = IF r = 0 THEN writerWork \o items ELSE writerWork
  /\ loaderWork' = [loaderWork EXCEPT ![r] = @ \o items]

\* The first Slots steps (fewer if the run is shorter), step s in slot s % Slots.
PrimeItems ==
  LET n == IF Start + Slots <= Total THEN Slots ELSE Total - Start
  IN  [i \in 1 .. n |-> Item(Start + i - 1, (Start + i - 1) % Slots)]

\* Fill the pipeline, then block for the data of the first step, whether or
\* not there is one.
MainPrime(r) ==
  /\ mainPc[r] = "prime" /\ Complete(r)
  /\ Submit(r, PrimeItems)
  /\ future' = [future EXCEPT ![r] = Pending]
  /\ mainPc' = [mainPc EXCEPT ![r] = "fetch"]
  /\ UNCHANGED <<numAccum, resQueue, prefetchPc, prefetched, writerPc, writerItem,
                 writerData, rank0Buffer, slotFree, fileVars, loaderPc,
                 loaderData, loaderReady, mainStep, loaded, collectives, trained>>

\* shm_writer.get_rank0 on rank 0, shm_loader.get elsewhere, run by the executor
\* thread while the main thread trains.
FutureRun(r) ==
  /\ Alive(r) /\ future[r] = Pending
  /\ IF r = 0
       THEN /\ rank0Buffer # <<>>
            /\ future' = [future EXCEPT ![r] = Head(rank0Buffer)]
            /\ rank0Buffer' = Tail(rank0Buffer)
            /\ UNCHANGED loaderReady
       ELSE /\ loaderReady[r] # <<>>
            /\ future' = [future EXCEPT ![r] = Head(loaderReady[r])]
            /\ loaderReady' = [loaderReady EXCEPT ![r] = Tail(@)]
            /\ UNCHANGED rank0Buffer
  /\ UNCHANGED <<numAccum, writerWork, writerPc, writerItem, writerData, slotFree,
                 loaderWork, loaderPc, loaderData, mainPc, mainStep, loaded,
                 collectives, trained, prefetchVars, fileVars>>

\* The data of this step is here: enter the barrier.
MainFetch(r) ==
  /\ mainPc[r] = "fetch"
  /\ future[r] \notin {Pending, NoBatch} /\ future[r].data # Error
  /\ loaded' = [loaded EXCEPT ![r] = future[r]]
  /\ future' = [future EXCEPT ![r] = NoBatch]
  /\ Arrive(r)
  /\ mainPc' = [mainPc EXCEPT ![r] = "release"]
  /\ UNCHANGED <<numAccum, mainStep, trained, prefetchVars, writerVars, fileVars,
                 loaderVars>>

\* The loader's exception is re-raised in the main thread, which dies of it.
MainRaise(r) ==
  /\ mainPc[r] = "fetch"
  /\ future[r].data = Error
  /\ mainPc' = [mainPc EXCEPT ![r] = "failed"]
  /\ UNCHANGED <<numAccum, mainStep, future, loaded, collectives, trained,
                 prefetchVars, writerVars, fileVars, loaderVars>>

\* Mutant: the consumed slot is never handed back.
MutReleaseNothing(r) == slotFree' = slotFree

\* shm_writer.release_slot, on rank 0 only.
ReleaseSlot(r) ==
  slotFree' = IF r = 0 THEN [slotFree EXCEPT ![loaded[0].slot] = TRUE] ELSE slotFree

\* Mutants of NextItems: one step too many, the wrong slot, a step repeated.
MutPastEnd(r) ==
  IF mainStep[r] + Slots <= Total
    THEN <<Item(mainStep[r] + Slots, loaded[r].slot)>> ELSE <<>>
MutWrongSlot(r) ==
  IF mainStep[r] + Slots < Total
    THEN <<Item(mainStep[r] + Slots, (loaded[r].slot + 1) % Slots)>> ELSE <<>>
MutRepeat(r) ==
  IF mainStep[r] + Slots < Total
    THEN <<Item(mainStep[r] + Slots - 1, loaded[r].slot)>> ELSE <<>>

\* The step that will reuse the slot just consumed, if the run is that long.
NextItems(r) ==
  IF mainStep[r] + Slots < Total
    THEN <<Item(mainStep[r] + Slots, loaded[r].slot)>> ELSE <<>>

\* Past the barrier: rank 0 releases the slot; every rank submits the step that
\* will reuse it and asks for the data of the next step.
MainRelease(r) ==
  /\ mainPc[r] = "release" /\ Complete(r)
  /\ ReleaseSlot(r)
  /\ Submit(r, NextItems(r))
  /\ future' = [future EXCEPT ![r] =
                  IF mainStep[r] + 1 < Total THEN Pending ELSE NoBatch]
  /\ mainPc' = [mainPc EXCEPT ![r] = "train"]
  /\ UNCHANGED <<numAccum, resQueue, prefetchPc, prefetched, writerPc, writerItem,
                 writerData, rank0Buffer, fileVars, loaderPc, loaderData,
                 loaderReady, mainStep, loaded, collectives, trained>>

\* my_mbs: the micro-batches of a step are dealt out round robin.
MyMicroBatches(r, s) == {i \in 0 .. (numAccum[s] - 1) : i % WorldSize = r}

\* How often rank r meets the others in the micro-batch loop: FSDP2 gathers the
\* parameters in every pass, a replicated model sums gradients in the last one.
Passes(r, s) ==
  IF Sharded THEN Cardinality(MyMicroBatches(r, s))
  ELSE IF MyMicroBatches(r, s) = {} THEN 0 ELSE 1

\* All ranks run the same collectives in the micro-batch loop of step s.
Paired(s) == \A r, q \in Ranks : Passes(r, s) = Passes(q, s)

\* The micro-batch loop and the optimizer step, then the metrics all_reduce.  Ranks
\* with different numbers of passes do not get through the loop.
MainTrain(r) ==
  /\ mainPc[r] = "train" /\ Paired(mainStep[r])
  /\ trained' = [trained EXCEPT ![r] = Append(@, loaded[r].data)]
  /\ Arrive(r)
  /\ mainPc' = [mainPc EXCEPT ![r] = "reduce"]
  /\ UNCHANGED <<numAccum, mainStep, future, loaded, prefetchVars, writerVars,
                 fileVars, loaderVars>>

MainStepEnd(r) ==
  /\ mainPc[r] = "reduce" /\ Complete(r)
  /\ mainStep' = [mainStep EXCEPT ![r] = @ + 1]
  /\ mainPc' = [mainPc EXCEPT ![r] =
                  IF mainStep[r] + 1 < Total THEN "fetch" ELSE "stop"]
  /\ UNCHANGED <<numAccum, future, loaded, collectives, trained, prefetchVars,
                 writerVars, fileVars, loaderVars>>

\* shm_writer.stop sets every slot_free event; the threads get their sentinel.
\* The joins are bounded by a timeout, so the main thread never waits for them.
MainStop(r) ==
  /\ mainPc[r] = "stop"
  /\ Submit(r, <<StopItem>>)
  /\ slotFree' = IF r = 0 THEN [k \in SlotSet |-> TRUE] ELSE slotFree
  /\ mainPc' = [mainPc EXCEPT ![r] = "done"]
  /\ UNCHANGED <<numAccum, resQueue, prefetchPc, prefetched, writerPc, writerItem,
                 writerData, rank0Buffer, fileVars, loaderPc, loaderData,
                 loaderReady, mainStep, future, loaded, collectives, trained>>

\* The launcher (torchrun) kills the ranks left behind when one of them dies.
LauncherKill(r) ==
  /\ \E q \in Ranks : mainPc[q] = "failed"
  /\ mainPc[r] \notin {"done", "failed"}
  /\ mainPc' = [mainPc EXCEPT ![r] = "failed"]
  /\ UNCHANGED <<numAccum, mainStep, future, loaded, collectives, trained,
                 prefetchVars, writerVars, fileVars, loaderVars>>

\* A collective of the micro-batch loop that some rank never enters: the timeout of
\* the process group ends the rank that waits in it.
GroupTimeout(r) ==
  /\ mainPc[r] = "train" /\ ~Paired(mainStep[r])
  /\ mainPc' = [mainPc EXCEPT ![r] = "failed"]
  /\ UNCHANGED <<numAccum, mainStep, future, loaded, collectives, trained,
                 prefetchVars, writerVars, fileVars, loaderVars>>

\* Every process has ended: daemon threads end with their process.
Ended == \A r \in Ranks : mainPc[r] \in {"done", "failed"}
Terminated == Ended /\ UNCHANGED vars

-----------------------------------------------------------------------------
Prefetcher == PrefetchInfer \/ PrefetchPut \/ PrefetchStop
Writer == \/ WriterGet \/ WriterBuffer \/ WriterClaim \/ WriterTimeout
          \/ WriterPublish \/ WriterFail \/ WriterStop
Loader(r) == \/ LoaderOpen(r) \/ LoaderCopy(r) \/ LoaderFail(r)
             \/ LoaderTimeout(r) \/ LoaderPut(r) \/ LoaderStop(r)
Main(r) == \/ MainBegin(r) \/ MainPrime(r) \/ MainFetch(r) \/ MainRaise(r)
           \/ MainRelease(r) \/ MainTrain(r) \/ MainStepEnd(r) \/ MainStop(r)

Killed(r) == LauncherKill(r) \/ GroupTimeout(r)

Next ==
  \/ Prefetcher \/ Writer
  \/ \E r \in Ranks : Loader(r) \/ Main(r) \/ FutureRun(r) \/ Killed(r)
  \/ Terminated

Spec == Init /\ [][Next]_vars

\* Every thread is scheduled by the operating system, inference returns, a wait
\* with a deadline ends, the process group's timeout expires, and the launcher reaps
\* the survivors of a failure.
Fairness ==
  /\ WF_vars(Prefetcher) /\ WF_vars(Writer)
  /\ \A r \in Ranks : /\ WF_vars(Loader(r)) /\ WF_vars(Main(r))
                      /\ WF_vars(FutureRun(r)) /\ WF_vars(Killed(r))
FairSpec == Spec /\ Fairness

-----------------------------------------------------------------------------
(* Properties *)

\* Rank r still has to copy step s out of slot k.
Unread(r, s, k) ==
  \E i \in 1 .. Len(loaderWork[r]) :
    /\ loaderWork[r][i] = Item(s, k)
    /\ i = 1 => loaderPc[r] # "put"

\* Slot k is being, or has been, overwritten with a step later than s.
Overwritten(s, k) ==
  \/ writerPc = "publish" /\ writerItem.slot = k /\ writerItem.step > s
  \/ readyFile[k] > s

KeptFor(ranks) ==
  \A r \in ranks : \A s \in Steps : \A k \in SlotSet :
    Unread(r, s, k) => ~Overwritten(s, k)

\* A slot is never overwritten while the loader of a rank other than 0 has yet
\* to copy it: _publish deletes READY_{step} only after all of them are done.
UnreadSlotKept == KeptFor(Ranks \ {0})

\* In a distributed run the writer never finds its slot taken, so the timeout
\* branch of _ShmWriterThread._loop is unreachable: whoever submits a step has
\* released the slot first, and the release never precedes the claim it undoes.
ClaimNeverWaits ==
  WorldSize > 1 /\ writerPc = "slot" => slotFree[writerItem.slot]

\* Every run of train() ends: a teacher failure or a timeout on one rank makes
\* every process end instead of leaving some waiting for data for ever.
EventuallyEnds == <>Ended

Lockstep == INSTANCE LockstepTraining WITH
  WorldSize <- WorldSize, Start <- Start, Total <- Total, trained <- trained

\* The pipeline delivers what data-parallel training needs: every rank trains on
\* the teacher data of exactly the steps it has run, in order and in lockstep,
\* none skipped, repeated, torn or left over from an earlier run, between
\* _teacher_inference_rank0 and the micro-batch loop of train() (safety; holds
\* with failures too).
StaysInLockstep == Lockstep!SafeSpec

\* ... and, when nothing fails, every rank gets through every step.
ImplementsLockstep == Lockstep!Spec
=============================================================================

-------------------------- MODULE ShmPipelineProofs -------------------------
(***************************************************************************)
(* Machine-checked proofs about ShmPipeline, for every number of ranks,    *)
(* slots and steps.                                                        *)
(***************************************************************************)
EXTENDS ShmPipeline, SequenceTheorems, TLAPS

USE DEF Stop, Error, Torn

-----------------------------------------------------------------------------
(* Type correctness *)

\* The types, with what each program counter says of the registers it guards.
PrefetchInv == PrefetchType /\ (prefetchPc = "put" => prefetched # Stop)

WriterInv ==
  /\ WriterType
  /\ writerPc \in {"buffer", "slot", "publish"} =>
       writerItem \in WorkItems /\ writerData \in Steps

LoaderInv ==
  /\ LoaderType
  /\ \A r \in Ranks :
       /\ loaderPc[r] \in {"load", "put"} =>
            loaderWork[r] # <<>> /\ InHand(r) \in WorkItems
       /\ loaderPc[r] = "load" => loaderData[r] \in Steps \cup {Torn}
       /\ loaderPc[r] = "put" => loaderData[r] # Stop

MainInv ==
  /\ MainType
  /\ \A r \in Ranks :
       /\ mainPc[r] \in {"release", "train"} =>
            loaded[r] \in Results /\ loaded[r].data # Error
       /\ mainStep[r] >= Start

TypeInv == PrefetchInv /\ WriterInv /\ FileType /\ LoaderInv /\ MainInv

\* Rank 0 exists, and the special items are not work items or results.
LEMMA ConstantFacts ==
  /\ 0 \in Ranks
  /\ StopItem \notin WorkItems
  /\ NoBatch \notin Results /\ Pending \notin Results
  /\ NoBatch # Pending
  /\ \A w \in WorkItems : w.step \in Steps /\ w.slot \in SlotSet
  /\ \A b \in Results : b.data \in Steps \cup {Error, Torn} /\ b.slot \in SlotSet
  /\ Steps \subseteq Nat
  /\ NoBatch.data = Stop /\ Pending.data = Torn
BY PipelineAssumption
   DEF Ranks, StopItem, Item, WorkItems, NoBatch, Pending, Batch, Results, Steps, SlotSet

\* The primed work of train() is a sequence of work items.
LEMMA PrimeType == PrimeItems \in Seq(WorkItems \cup {StopItem})
<1> DEFINE n == IF Start + Slots <= Total THEN Slots ELSE Total - Start
<1>1. n \in Nat /\ Start + n <= Total
  BY PipelineAssumption
<1>2. \A i \in 1 .. n : Item(Start + i - 1, (Start + i - 1) % Slots) \in WorkItems
  <2> SUFFICES ASSUME NEW i \in 1 .. n
               PROVE Item(Start + i - 1, (Start + i - 1) % Slots) \in WorkItems
    OBVIOUS
  <2>1. (Start + i - 1) % Slots \in SlotSet
    BY <1>1, PipelineAssumption DEF SlotSet
  <2>2. Start + i - 1 \in Steps
    BY <1>1, PipelineAssumption DEF Steps
  <2> QED BY <2>1, <2>2 DEF Item, WorkItems
<1> HIDE DEF n
<1>3. [i \in 1 .. n |-> Item(Start + i - 1, (Start + i - 1) % Slots)] \in Seq(WorkItems)
  BY <1>1, <1>2
<1>4. PrimeItems = [i \in 1 .. n |-> Item(Start + i - 1, (Start + i - 1) % Slots)]
  BY DEF PrimeItems, n
<1> QED BY <1>3, <1>4

\* Submitting well-typed items keeps the three queues well typed and leaves a
\* non-empty loader queue its head.
LEMMA SubmitType ==
  ASSUME TypeInv, NEW r \in Ranks, NEW items \in Seq(WorkItems \cup {StopItem}),
         Submit(r, items)
  PROVE  /\ reqQueue' \in Seq(Steps \cup {Stop})
         /\ writerWork' \in Seq(WorkItems \cup {StopItem})
         /\ loaderWork' \in [Ranks -> Seq(WorkItems \cup {StopItem})]
         /\ \A q \in Ranks : loaderWork[q] # <<>> =>
              loaderWork'[q] # <<>> /\ Head(loaderWork'[q]) = Head(loaderWork[q])
<1> DEFINE steps == [i \in 1 .. Len(items) |-> items[i].step]
<1>1. Len(items) \in Nat /\ \A i \in 1 .. Len(items) : items[i].step \in Steps \cup {Stop}
  <2>1. \A w \in WorkItems \cup {StopItem} : w.step \in Steps \cup {Stop}
    BY ConstantFacts DEF StopItem, Item
  <2> QED BY <2>1
<1>2. steps \in Seq(Steps \cup {Stop})
  BY <1>1
<1> HIDE DEF steps
<1>3. reqQueue \o steps \in Seq(Steps \cup {Stop})
  BY <1>2, ConcatProperties DEF TypeInv, PrefetchInv, PrefetchType
<1>4. writerWork \o items \in Seq(WorkItems \cup {StopItem})
  BY ConcatProperties DEF TypeInv, WriterInv, WriterType
<1>5. /\ loaderWork[r] \o items \in Seq(WorkItems \cup {StopItem})
      /\ loaderWork[r] # <<>> =>
           /\ loaderWork[r] \o items # <<>>
           /\ Head(loaderWork[r] \o items) = Head(loaderWork[r])
  BY ConcatProperties DEF TypeInv, LoaderInv, LoaderType
<1> QED BY <1>3, <1>4, <1>5 DEF Submit, steps, TypeInv, PrefetchInv, PrefetchType,
            WriterInv, WriterType, LoaderInv, LoaderType

\* The queues start empty and the disk holds only leftovers of their types.
LEMMA InitTypeInv == Init => TypeInv
BY ConstantFacts, PipelineAssumption
   DEF Init, TypeInv, PrefetchInv, PrefetchType, WriterInv, WriterType, FileType,
       LoaderInv, LoaderType, MainInv, MainType, Ranks, SlotSet

\* A component whose variables do not change keeps its part of the invariant.
LEMMA Untouched ==
  ASSUME TypeInv
  PROVE  /\ UNCHANGED prefetchVars => PrefetchInv'
         /\ UNCHANGED writerVars => WriterInv'
         /\ UNCHANGED fileVars => FileType'
         /\ UNCHANGED loaderVars => LoaderInv'
         /\ UNCHANGED mainVars => MainInv'
<1>1. UNCHANGED prefetchVars => PrefetchInv'
  BY DEF TypeInv, PrefetchInv, PrefetchType, prefetchVars
<1>2. UNCHANGED writerVars => WriterInv'
  BY DEF TypeInv, WriterInv, WriterType, writerVars
<1>3. UNCHANGED fileVars => FileType'
  BY DEF TypeInv, FileType, fileVars
<1>4. UNCHANGED loaderVars => LoaderInv'
  BY DEF TypeInv, LoaderInv, LoaderType, InHand, loaderVars
<1>5. UNCHANGED mainVars => MainInv'
  BY DEF TypeInv, MainInv, MainType, mainVars
<1> QED BY <1>1, <1>2, <1>3, <1>4, <1>5

\* Every step keeps the types and what the program counters promise.
LEMMA TypeStep == TypeInv /\ [Next]_vars => TypeInv'
<1> SUFFICES ASSUME TypeInv, [Next]_vars PROVE TypeInv'
  OBVIOUS
<1> USE ConstantFacts
<1>1. CASE PrefetchInfer
  <2>1. PrefetchInv'
    BY <1>1 DEF PrefetchInfer, TypeInv, PrefetchInv, PrefetchType, prefetchVars
  <2>2. WriterInv' /\ FileType' /\ LoaderInv' /\ MainInv'
    BY <1>1, Untouched DEF PrefetchInfer
  <2> QED BY <2>1, <2>2 DEF TypeInv
<1>2. CASE PrefetchPut
  <2>1. PrefetchInv'
    BY <1>2 DEF PrefetchPut, TypeInv, PrefetchInv, PrefetchType, prefetchVars
  <2>2. WriterInv' /\ FileType' /\ LoaderInv' /\ MainInv'
    BY <1>2, Untouched DEF PrefetchPut
  <2> QED BY <2>1, <2>2 DEF TypeInv
<1>3. CASE PrefetchStop
  <2>1. PrefetchInv'
    BY <1>3 DEF PrefetchStop, TypeInv, PrefetchInv, PrefetchType, prefetchVars
  <2>2. WriterInv' /\ FileType' /\ LoaderInv' /\ MainInv'
    BY <1>3, Untouched DEF PrefetchStop
  <2> QED BY <2>1, <2>2 DEF TypeInv
<1>4. CASE WriterGet
  <2>1. PrefetchInv'
    BY <1>4 DEF WriterGet, TypeInv, PrefetchInv, PrefetchType, prefetchVars
  <2>2. WriterInv'
    BY <1>4 DEF WriterGet, TypeInv, WriterInv, WriterType, PrefetchInv, PrefetchType
  <2>3. FileType' /\ LoaderInv' /\ MainInv'
    BY <1>4, Untouched DEF WriterGet
  <2> QED BY <2>1, <2>2, <2>3 DEF TypeInv
<1>5. CASE WriterBuffer
  <2>1. WriterInv'
    BY <1>5 DEF WriterBuffer, TypeInv, WriterInv, WriterType, writerVars, Batch, Results
  <2>2. PrefetchInv' /\ FileType' /\ LoaderInv' /\ MainInv'
    BY <1>5, Untouched DEF WriterBuffer
  <2> QED BY <2>1, <2>2 DEF TypeInv
<1>6. CASE WriterClaim
  <2>1. WriterInv'
    BY <1>6 DEF WriterClaim, TypeInv, WriterInv, WriterType, writerVars
  <2>2. FileType'
    BY <1>6 DEF WriterClaim, TypeInv, FileType, fileVars
  <2>3. PrefetchInv' /\ LoaderInv' /\ MainInv'
    BY <1>6, Untouched DEF WriterClaim
  <2> QED BY <2>1, <2>2, <2>3 DEF TypeInv
<1>7. CASE WriterTimeout
  <2>1. WriterInv'
    BY <1>7 DEF WriterTimeout, TypeInv, WriterInv, WriterType, writerVars
  <2>2. PrefetchInv' /\ FileType' /\ LoaderInv' /\ MainInv'
    BY <1>7, Untouched DEF WriterTimeout
  <2> QED BY <2>1, <2>2 DEF TypeInv
<1>8. CASE WriterPublish
  <2>1. WriterInv'
    BY <1>8 DEF WriterPublish, TypeInv, WriterInv, WriterType, writerVars
  <2>2. FileType'
    BY <1>8 DEF WriterPublish, TypeInv, FileType, WriterInv
  <2>3. PrefetchInv' /\ LoaderInv' /\ MainInv'
    BY <1>8, Untouched DEF WriterPublish
  <2> QED BY <2>1, <2>2, <2>3 DEF TypeInv
<1>9. CASE WriterStop
  <2>1. WriterInv'
    BY <1>9 DEF WriterStop, TypeInv, WriterInv, WriterType, writerVars
  <2>2. PrefetchInv' /\ FileType' /\ LoaderInv' /\ MainInv'
    BY <1>9, Untouched DEF WriterStop
  <2> QED BY <2>1, <2>2 DEF TypeInv
<1>10. ASSUME NEW r \in Ranks, LoaderOpen(r) PROVE TypeInv'
  <2>0. InHand(r) \in WorkItems /\ slotData[InHand(r).slot] \in Steps \cup {Torn}
    BY <1>10 DEF LoaderOpen, LoaderWaits, TypeInv, LoaderInv, LoaderType, FileType, InHand
  <2>1. LoaderInv'
    BY <1>10, <2>0 DEF LoaderOpen, LoaderWaits, TypeInv, LoaderInv, LoaderType, InHand
  <2>2. PrefetchInv' /\ WriterInv' /\ FileType' /\ MainInv'
    BY <1>10, Untouched DEF LoaderOpen
  <2> QED BY <2>1, <2>2 DEF TypeInv
<1>11. ASSUME NEW r \in Ranks, LoaderCopy(r) PROVE TypeInv'
  <2>1. LoaderInv'
    BY <1>11 DEF LoaderCopy, TypeInv, LoaderInv, LoaderType, InHand, loaderVars
  <2>2. PrefetchInv' /\ WriterInv' /\ FileType' /\ MainInv'
    BY <1>11, Untouched DEF LoaderCopy
  <2> QED BY <2>1, <2>2 DEF TypeInv
<1>12. ASSUME NEW r \in Ranks, LoaderTimeout(r) PROVE TypeInv'
  <2>1. LoaderInv'
    BY <1>12 DEF LoaderTimeout, TypeInv, LoaderInv, LoaderType, InHand, loaderVars, LoaderWaits
  <2>2. PrefetchInv' /\ WriterInv' /\ FileType' /\ MainInv'
    BY <1>12, Untouched DEF LoaderTimeout
  <2> QED BY <2>1, <2>2 DEF TypeInv
<1>13. ASSUME NEW r \in Ranks, LoaderPut(r) PROVE TypeInv'
  <2>a. Batch(loaderData[r], InHand(r).slot) \in Results
    BY <1>13 DEF LoaderPut, TypeInv, LoaderInv, LoaderType, Batch, Results
  <2>b. /\ Append(loaderReady[r], Batch(loaderData[r], InHand(r).slot)) \in Seq(Results)
        /\ Tail(loaderWork[r]) \in Seq(WorkItems \cup {StopItem})
    BY <1>13, <2>a DEF LoaderPut, TypeInv, LoaderInv, LoaderType
  <2>1. LoaderInv'
    BY <1>13, <2>b DEF LoaderPut, TypeInv, LoaderInv, LoaderType, InHand
  <2>2. PrefetchInv' /\ WriterInv' /\ FileType' /\ MainInv'
    BY <1>13, Untouched DEF LoaderPut
  <2> QED BY <2>1, <2>2 DEF TypeInv
<1>14. ASSUME NEW r \in Ranks, LoaderStop(r) PROVE TypeInv'
  <2>1. LoaderInv'
    BY <1>14 DEF LoaderStop, TypeInv, LoaderInv, LoaderType, InHand, loaderVars
  <2>2. PrefetchInv' /\ WriterInv' /\ FileType' /\ MainInv'
    BY <1>14, Untouched DEF LoaderStop
  <2> QED BY <2>1, <2>2 DEF TypeInv
<1>15. ASSUME NEW r \in Ranks, MainBegin(r) PROVE TypeInv'
  <2>1. FileType'
    BY <1>15 DEF MainBegin, TypeInv, FileType, fileVars, ClearReady, Arrive
  <2>2. MainInv'
    BY <1>15 DEF MainBegin, TypeInv, MainInv, MainType, mainVars, ClearReady, Arrive
  <2>3. PrefetchInv' /\ WriterInv' /\ LoaderInv'
    BY <1>15, Untouched DEF MainBegin
  <2> QED BY <2>1, <2>2, <2>3 DEF TypeInv
<1>16. ASSUME NEW r \in Ranks, MainPrime(r) PROVE TypeInv'
  <2>1. PrimeItems \in Seq(WorkItems \cup {StopItem})
    BY PrimeType
  <2>2. Submit(r, PrimeItems)
    BY <1>16 DEF MainPrime
  <2>3. /\ reqQueue' \in Seq(Steps \cup {Stop})
        /\ writerWork' \in Seq(WorkItems \cup {StopItem})
        /\ loaderWork' \in [Ranks -> Seq(WorkItems \cup {StopItem})]
        /\ \A q \in Ranks : loaderWork[q] # <<>> =>
             loaderWork'[q] # <<>> /\ Head(loaderWork'[q]) = Head(loaderWork[q])
    BY <2>1, <2>2, SubmitType
  <2>4. PrefetchInv'
    BY <1>16, <2>3 DEF MainPrime, TypeInv, PrefetchInv, PrefetchType, prefetchVars
  <2>5. WriterInv'
    BY <1>16, <2>3 DEF MainPrime, TypeInv, WriterInv, WriterType, writerVars
  <2>6. LoaderInv'
    BY <1>16, <2>3 DEF MainPrime, TypeInv, LoaderInv, LoaderType, InHand, loaderVars
  <2>7. MainInv'
    BY <1>16, <2>3 DEF MainPrime, TypeInv, MainInv, MainType, mainVars
  <2>8. FileType'
    BY <1>16, Untouched DEF MainPrime
  <2> QED BY <2>4, <2>5, <2>6, <2>7, <2>8 DEF TypeInv
<1>17. ASSUME NEW r \in Ranks, MainFetch(r) PROVE TypeInv'
  <2>1. MainInv'
    BY <1>17 DEF MainFetch, TypeInv, MainInv, MainType, mainVars, Arrive
  <2>2. PrefetchInv' /\ WriterInv' /\ FileType' /\ LoaderInv'
    BY <1>17, Untouched DEF MainFetch
  <2> QED BY <2>1, <2>2 DEF TypeInv
<1>18. ASSUME NEW r \in Ranks, MainRaise(r) PROVE TypeInv'
  <2>1. MainInv'
    BY <1>18 DEF MainRaise, TypeInv, MainInv, MainType, mainVars
  <2>2. PrefetchInv' /\ WriterInv' /\ FileType' /\ LoaderInv'
    BY <1>18, Untouched DEF MainRaise
  <2> QED BY <2>1, <2>2 DEF TypeInv
<1>19. ASSUME NEW r \in Ranks, MainRelease(r) PROVE TypeInv'
  <2>1. NextItems(r) \in Seq(WorkItems \cup {StopItem})
    <3>1. mainStep[r] + Slots < Total => Item(mainStep[r] + Slots, loaded[r].slot) \in WorkItems
      BY <1>19, PipelineAssumption
         DEF MainRelease, TypeInv, MainInv, MainType, WorkItems, Item, Steps
    <3>2. \A w \in WorkItems : <<w>> \in Seq(WorkItems \cup {StopItem})
      OBVIOUS
    <3>3. <<>> \in Seq(WorkItems \cup {StopItem})
      OBVIOUS
    <3> QED BY <3>1, <3>2, <3>3 DEF NextItems
  <2>2. Submit(r, NextItems(r))
    BY <1>19 DEF MainRelease
  <2>3. /\ reqQueue' \in Seq(Steps \cup {Stop})
        /\ writerWork' \in Seq(WorkItems \cup {StopItem})
        /\ loaderWork' \in [Ranks -> Seq(WorkItems \cup {StopItem})]
        /\ \A q \in Ranks : loaderWork[q] # <<>> =>
             loaderWork'[q] # <<>> /\ Head(loaderWork'[q]) = Head(loaderWork[q])
    BY <2>1, <2>2, SubmitType
  <2>4. PrefetchInv'
    BY <1>19, <2>3 DEF MainRelease, TypeInv, PrefetchInv, PrefetchType, prefetchVars, ReleaseSlot
  <2>5. WriterInv'
    BY <1>19, <2>3 DEF MainRelease, TypeInv, WriterInv, WriterType, writerVars, ReleaseSlot
  <2>6. LoaderInv'
    BY <1>19, <2>3 DEF MainRelease, TypeInv, LoaderInv, LoaderType, InHand, loaderVars,
       ReleaseSlot
  <2>7. MainInv'
    BY <1>19, <2>3 DEF MainRelease, TypeInv, MainInv, MainType, mainVars, ReleaseSlot
  <2>8. FileType'
    BY <1>19, Untouched DEF MainRelease
  <2> QED BY <2>4, <2>5, <2>6, <2>7, <2>8 DEF TypeInv
<1>20. ASSUME NEW r \in Ranks, MainTrain(r) PROVE TypeInv'
  <2>a. loaded[r].data \in Steps \cup {Torn} /\ trained[r] \in Seq(Steps \cup {Torn})
    BY <1>20, ConstantFacts DEF MainTrain, TypeInv, MainInv, MainType
  <2>b. Append(trained[r], loaded[r].data) \in Seq(Steps \cup {Torn})
    BY <2>a
  <2>c. /\ trained' \in [Ranks -> Seq(Steps \cup {Torn})]
        /\ collectives' \in [Ranks -> Nat]
        /\ mainPc' = [mainPc EXCEPT ![r] = "reduce"]
        /\ UNCHANGED <<mainStep, future, loaded, numAccum>>
    BY <1>20, <2>b DEF MainTrain, TypeInv, MainInv, MainType, Arrive
  <2>1. MainInv'
    BY <2>c DEF TypeInv, MainInv, MainType
  <2>2. PrefetchInv' /\ WriterInv' /\ FileType' /\ LoaderInv'
    BY <1>20, Untouched DEF MainTrain
  <2> QED BY <2>1, <2>2 DEF TypeInv
<1>21. ASSUME NEW r \in Ranks, MainStepEnd(r) PROVE TypeInv'
  <2>1. MainInv'
    BY <1>21, PipelineAssumption DEF MainStepEnd, TypeInv, MainInv, MainType
  <2>2. PrefetchInv' /\ WriterInv' /\ FileType' /\ LoaderInv'
    BY <1>21, Untouched DEF MainStepEnd
  <2> QED BY <2>1, <2>2 DEF TypeInv
<1>22. ASSUME NEW r \in Ranks, MainStop(r) PROVE TypeInv'
  <2>1. <<StopItem>> \in Seq(WorkItems \cup {StopItem})
    OBVIOUS
  <2>2. Submit(r, <<StopItem>>)
    BY <1>22 DEF MainStop
  <2>3. /\ reqQueue' \in Seq(Steps \cup {Stop})
        /\ writerWork' \in Seq(WorkItems \cup {StopItem})
        /\ loaderWork' \in [Ranks -> Seq(WorkItems \cup {StopItem})]
        /\ \A q \in Ranks : loaderWork[q] # <<>> =>
             loaderWork'[q] # <<>> /\ Head(loaderWork'[q]) = Head(loaderWork[q])
    BY <2>1, <2>2, SubmitType
  <2>4. PrefetchInv'
    BY <1>22, <2>3 DEF MainStop, TypeInv, PrefetchInv, PrefetchType, prefetchVars
  <2>5. WriterInv'
    BY <1>22, <2>3 DEF MainStop, TypeInv, WriterInv, WriterType, writerVars
  <2>6. LoaderInv'
    BY <1>22, <2>3 DEF MainStop, TypeInv, LoaderInv, LoaderType, InHand, loaderVars
  <2>7. MainInv'
    BY <1>22, <2>3 DEF MainStop, TypeInv, MainInv, MainType, mainVars
  <2>8. FileType'
    BY <1>22, Untouched DEF MainStop
  <2> QED BY <2>4, <2>5, <2>6, <2>7, <2>8 DEF TypeInv
<1>23. ASSUME NEW r \in Ranks, FutureRun(r) PROVE TypeInv'
  <2>1. ASSUME r = 0 PROVE WriterInv' /\ LoaderInv' /\ MainInv'
    <3>1. Head(rank0Buffer) \in Results /\ Tail(rank0Buffer) \in Seq(Results)
      BY <1>23, <2>1 DEF FutureRun, TypeInv, WriterInv, WriterType
    <3>2. WriterInv'
      BY <1>23, <2>1, <3>1 DEF FutureRun, TypeInv, WriterInv, WriterType
    <3>3. LoaderInv'
      BY <1>23, <2>1, Untouched DEF FutureRun, loaderVars
    <3>4. MainInv'
      BY <1>23, <2>1, <3>1 DEF FutureRun, TypeInv, MainInv, MainType
    <3> QED BY <3>2, <3>3, <3>4
  <2>2. ASSUME r # 0 PROVE WriterInv' /\ LoaderInv' /\ MainInv'
    <3>1. Head(loaderReady[r]) \in Results /\ Tail(loaderReady[r]) \in Seq(Results)
      BY <1>23, <2>2 DEF FutureRun, TypeInv, LoaderInv, LoaderType
    <3>2. WriterInv'
      BY <1>23, <2>2, Untouched DEF FutureRun, writerVars
    <3>3. LoaderInv'
      BY <1>23, <2>2, <3>1 DEF FutureRun, TypeInv, LoaderInv, LoaderType, InHand
    <3>4. MainInv'
      BY <1>23, <2>2, <3>1 DEF FutureRun, TypeInv, MainInv, MainType
    <3> QED BY <3>2, <3>3, <3>4
  <2>3. WriterInv' /\ LoaderInv' /\ MainInv'
    BY <2>1, <2>2
  <2>4. PrefetchInv' /\ FileType'
    BY <1>23, Untouched DEF FutureRun
  <2> QED BY <2>3, <2>4 DEF TypeInv
<1>24. ASSUME NEW r \in Ranks, Killed(r) PROVE TypeInv'
  <2>1. MainInv'
    BY <1>24 DEF Killed, LauncherKill, GroupTimeout, TypeInv, MainInv, MainType, mainVars
  <2>2. PrefetchInv' /\ WriterInv' /\ FileType' /\ LoaderInv'
    BY <1>24, Untouched DEF Killed, LauncherKill, GroupTimeout
  <2> QED BY <2>1, <2>2 DEF TypeInv
<1>25. CASE UNCHANGED vars
  BY <1>25, Untouched DEF vars, TypeInv
<1>26. CASE WriterFail
  <2>1. WriterInv'
    BY <1>26 DEF WriterFail, TypeInv, WriterInv, WriterType, writerVars
  <2>2. PrefetchInv' /\ FileType' /\ LoaderInv' /\ MainInv'
    BY <1>26, Untouched DEF WriterFail
  <2> QED BY <2>1, <2>2 DEF TypeInv
<1>27. ASSUME NEW r \in Ranks, LoaderFail(r) PROVE TypeInv'
  <2>1. LoaderInv'
    BY <1>27 DEF LoaderFail, TypeInv, LoaderInv, LoaderType, InHand, loaderVars
  <2>2. PrefetchInv' /\ WriterInv' /\ FileType' /\ MainInv'
    BY <1>27, Untouched DEF LoaderFail
  <2> QED BY <2>1, <2>2 DEF TypeInv
<1> QED
  BY <1>26, <1>27, <1>1, <1>2, <1>3, <1>4, <1>5, <1>6, <1>7, <1>8, <1>9, <1>10, <1>11, <1>12,
     <1>13, <1>14, <1>15, <1>16, <1>17, <1>18, <1>19, <1>20, <1>21, <1>22, <1>23, <1>24, <1>25
  DEF Next, Prefetcher, Writer, Loader, Main, Terminated

\* Every variable has its type in every reachable state: in particular no
\* sentinel or exception is ever mistaken for a batch by train().
THEOREM TypeCorrect == Spec => []TypeOK
<1>1. TypeInv => TypeOK
  BY DEF TypeInv, TypeOK, PrefetchInv, WriterInv, LoaderInv, MainInv
<1> QED BY <1>1, InitTypeInv, TypeStep, PTL DEF Spec

-----------------------------------------------------------------------------
(* No slot is overwritten before it has been read *)

\* Each main thread is the end of a chain of queues through which the steps
\* pass in order: writer_work, the writer's hand and rank0_buffer on rank 0,
\* loader work and ready on the others, and then the future.
Work(r)  == IF r = 0 THEN writerWork ELSE loaderWork[r]
Held(r)  == IF r = 0 /\ writerPc = "buffer" THEN 1 ELSE 0
Ready(r) == IF r = 0 THEN rank0Buffer ELSE loaderReady[r]
Resolved(r) == future[r] \notin {NoBatch, Pending}

\* The first step whose data the main thread or its future has not taken.
\* Half of the collectives entered are the barriers that follow a fetch.
Taken(r) == Start + collectives[r] \div 2 + (IF Resolved(r) THEN 1 ELSE 0)

\* The first step train() has not submitted yet.
Submitted(r) ==
  LET s == mainStep[r] + Slots + (IF mainPc[r] \in {"train", "reduce"} THEN 1 ELSE 0)
  IN  IF s <= Total THEN s ELSE Total

\* The slot train() primes a step with, and the one it keeps by reusing slots.
SlotOf(s) == s % Slots

\* Where a main thread is, counted in collectives.
Count(r) ==
  /\ mainPc[r] = "begin" => collectives[r] = 0
  /\ mainPc[r] = "prime" => collectives[r] = 1
  /\ mainPc[r] \in {"begin", "prime"} =>
       /\ mainStep[r] = Start /\ future[r] = NoBatch
       /\ Work(r) = <<>> /\ Ready(r) = <<>> /\ Held(r) = 0
  /\ mainPc[r] = "fetch" => collectives[r] = 1 + 2 * (mainStep[r] - Start)
  /\ mainPc[r] = "release" => future[r] = NoBatch
  /\ mainPc[r] \in {"release", "train"} =>
       collectives[r] = 2 + 2 * (mainStep[r] - Start)
  /\ mainPc[r] = "reduce" => collectives[r] = 3 + 2 * (mainStep[r] - Start)

\* The chain of a rank holds consecutive steps, each with the slot of its step.
WorkChain(r) ==
  \A i \in 1 .. Len(Work(r)) : Work(r)[i] # StopItem =>
    /\ Work(r)[i].step = Taken(r) + Len(Ready(r)) + Held(r) + i - 1
    /\ Work(r)[i].slot = SlotOf(Work(r)[i].step)

StopLast(r) ==
  \A i \in 1 .. Len(Work(r)) : Work(r)[i] = StopItem =>
    i = Len(Work(r)) /\ mainPc[r] \in {"done", "failed"}

ReadyChain(r) ==
  \A i \in 1 .. Len(Ready(r)) : Ready(r)[i].slot = SlotOf(Taken(r) + i - 1)

EndChain(r) ==
  /\ Resolved(r) => future[r].slot = SlotOf(Taken(r) - 1)
  /\ mainPc[r] = "release" => loaded[r].slot = SlotOf(mainStep[r])

FullChain(r) ==
  mainPc[r] \in {"fetch", "release", "train", "reduce"} =>
    Taken(r) + Len(Ready(r)) + Held(r) + Len(Work(r)) = Submitted(r)

Chain(r) == WorkChain(r) /\ StopLast(r) /\ ReadyChain(r) /\ EndChain(r) /\ FullChain(r)

RankInv(r) == Count(r) /\ Chain(r)

\* The writer has taken an item and not yet published, dropped or given it up.
Busy == writerPc \in {"buffer", "slot", "publish"}

\* The item the writer is about to hand to rank 0 is the next of its chain.
HandPos == writerPc = "buffer" => writerItem.step = Taken(0) + Len(rank0Buffer)

\* A step is submitted to the writer only after every rank has fetched the step
\* that used its slot before.
Reusable(s) == \A q \in Ranks : s < Start + Slots + collectives[q] \div 2
ReusableNext(s) == \A q \in Ranks : s < Start + Slots + collectives'[q] \div 2

\* The items the writer still has to publish: queued, or in its hand.
Queued == {w \in WorkItems : \E i \in 1 .. Len(writerWork) : writerWork[i] = w}
Assigned == Queued \cup (IF Busy THEN {writerItem} ELSE {})

AssignedInv == \A w \in Assigned : w.slot = SlotOf(w.step) /\ Reusable(w.step)

FileReuse ==
  collectives[0] > 0 =>
    \A k \in SlotSet : readyFile[k] # Stop =>
      Reusable(readyFile[k]) /\ k = SlotOf(readyFile[k])

\* Rank 0 has entered the first barrier, after deleting the old sentinels,
\* before any rank is past it or has given its loader work.
BegunInv ==
  \A r \in Ranks :
    \/ loaderWork[r] # <<>>
    \/ mainPc[r] \in {"fetch", "release", "train", "reduce", "stop"}
    => collectives[0] > 0

\* Without teacher failures no exception travels from the prefetcher.
NoErrorInv ==
  /\ prefetchPc = "put" => prefetched # Error
  /\ \A i \in 1 .. Len(resQueue) : resQueue[i] # Error

\* What holds whether or not an exception of the teacher has made the writer drop
\* a step; then the chain of rank 0 is a step short.
Shared ==
  /\ TypeInv
  /\ \A r \in Ranks : Count(r) /\ StopLast(r)
  /\ \A q \in Ranks \ {0} : Chain(q)
  /\ AssignedInv /\ FileReuse /\ BegunInv

-----------------------------------------------------------------------------
(* Arithmetic of slots *)

\* Division with remainder: a step is a multiple of Slots plus its slot.
LEMMA DivMod ==
  ASSUME NEW s \in Nat
  PROVE  /\ s = Slots * (s \div Slots) + SlotOf(s)
         /\ SlotOf(s) \in SlotSet /\ s \div Slots \in Int
BY PipelineAssumption DEF SlotOf, SlotSet

\* Different multiples of Slots are at least Slots apart.
LEMMA MultiplesApart ==
  ASSUME NEW a \in Int, NEW b \in Int, Slots * a < Slots * b
  PROVE  Slots * a + Slots <= Slots * b
BY PipelineAssumption

\* Two steps with the same slot are a multiple of Slots apart.
LEMMA SameSlotApart ==
  ASSUME NEW s \in Nat, NEW t \in Nat, s < t, SlotOf(s) = SlotOf(t)
  PROVE  s + Slots <= t
<1> DEFINE a == s \div Slots
           b == t \div Slots
<1>1. /\ s = Slots * a + SlotOf(s) /\ a \in Int /\ SlotOf(s) \in Int
      /\ t = Slots * b + SlotOf(t) /\ b \in Int
  BY DivMod DEF SlotSet
<1>2. Slots * a \in Int /\ Slots * b \in Int
  BY <1>1, PipelineAssumption
<1> HIDE DEF a, b
<1>3. Slots * a < Slots * b
  BY <1>1, <1>2
<1>4. Slots * a + Slots <= Slots * b
  BY <1>1, <1>3, MultiplesApart
<1> QED BY <1>1, <1>2, <1>4, PipelineAssumption

\* The step that reuses a slot has that slot.
LEMMA SlotOfNext ==
  ASSUME NEW s \in Nat
  PROVE  SlotOf(s + Slots) = SlotOf(s)
<1> DEFINE t == s + Slots
           p == s \div Slots
           a == p + 1
           b == t \div Slots
<1>0. t \in Nat
  BY PipelineAssumption
<1>1. /\ s = Slots * p + SlotOf(s) /\ p \in Int
      /\ t = Slots * b + SlotOf(t) /\ b \in Int
      /\ SlotOf(s) \in SlotSet /\ SlotOf(t) \in SlotSet
  BY <1>0, DivMod
<1> HIDE DEF p, b
<1>2. Slots * a = Slots * p + Slots /\ Slots * p \in Int /\ Slots * b \in Int /\ a \in Int
  <2>1. \A n, m \in Int : n * (m + 1) = n * m + n /\ n * m \in Int
    OBVIOUS
  <2>2. Slots \in Int
    BY PipelineAssumption
  <2> QED BY <2>1, <2>2, <1>1
<1> HIDE DEF a
<1>3. t = Slots * a + SlotOf(s) /\ Slots * a \in Int
  <2>1. \A x, u, v, n \in Int : v = x + u => v + n = (x + n) + u
    OBVIOUS
  <2>2. Slots \in Int /\ s \in Int /\ SlotOf(s) \in Int
    BY <1>1, PipelineAssumption DEF SlotSet
  <2>3. s + Slots = (Slots * p + Slots) + SlotOf(s)
    BY <2>1, <2>2, <1>1, <1>2
  <2> QED BY <2>2, <2>3, <1>2
<1> HIDE DEF t
<1>4. ~(Slots * a < Slots * b)
  <2> SUFFICES ASSUME Slots * a < Slots * b PROVE FALSE
    OBVIOUS
  <2>1. Slots * a + Slots <= Slots * b
    BY <1>1, <1>2, MultiplesApart
  <2> QED BY <2>1, <1>0, <1>1, <1>2, <1>3, PipelineAssumption DEF SlotSet
<1>5. ~(Slots * b < Slots * a)
  <2> SUFFICES ASSUME Slots * b < Slots * a PROVE FALSE
    OBVIOUS
  <2>1. Slots * b + Slots <= Slots * a
    BY <1>1, <1>2, MultiplesApart
  <2> QED BY <2>1, <1>0, <1>1, <1>2, <1>3, PipelineAssumption DEF SlotSet
<1>6. SlotOf(t) = SlotOf(s)
  BY <1>0, <1>1, <1>2, <1>3, <1>4, <1>5, PipelineAssumption DEF SlotSet
<1> QED BY <1>6 DEF t

-----------------------------------------------------------------------------
\* An unread step is not before the rank's last barrier, a writable one is less than
\* Slots after it: of two steps of one slot, the later cannot be writable.
LEMMA SharedSuffices == Shared => UnreadSlotKept
<1> SUFFICES ASSUME Shared, NEW r \in Ranks \ {0}, NEW s \in Steps, NEW k \in SlotSet,
                    NEW i \in 1 .. Len(loaderWork[r]), loaderWork[r][i] = Item(s, k)
             PROVE  ~Overwritten(s, k)
  BY DEF UnreadSlotKept, KeptFor, Unread
<1> USE ConstantFacts
<1>1. /\ s \in Nat /\ k = SlotOf(s) /\ s >= Start + collectives[r] \div 2
      /\ collectives[r] \div 2 \in Nat
  <2>1. Work(r) = loaderWork[r] /\ Item(s, k) # StopItem /\ Len(Ready(r)) \in Nat
    BY DEF Work, Item, StopItem, Ready, Shared, TypeInv, LoaderInv, LoaderType, SlotSet
  <2>2. Item(s, k).step = s /\ Item(s, k).slot = k
    BY DEF Item
  <2>3. s = Taken(r) + Len(Ready(r)) + Held(r) + i - 1 /\ k = SlotOf(s)
    BY <2>1, <2>2 DEF Shared, Chain, WorkChain
  <2>4. collectives[r] \div 2 \in Nat /\ Taken(r) \in Nat /\ Taken(r) >= Start + collectives[r] \div 2
    <3>1. collectives[r] \in Nat
      BY DEF Shared, TypeInv, MainInv, MainType
    <3>2. collectives[r] \div 2 \in Nat
      BY <3>1
    <3> QED BY <3>2, PipelineAssumption DEF Taken
  <2>5. Held(r) \in Nat /\ i \in Nat /\ i >= 1
    BY <2>1 DEF Held, Shared, TypeInv, LoaderInv, LoaderType
  <2>6. Taken(r) + Len(Ready(r)) + Held(r) + i - 1 >= Taken(r)
    BY <2>1, <2>4, <2>5
  <2> QED BY <2>3, <2>4, <2>6, ConstantFacts, PipelineAssumption
<1>2. collectives[0] > 0
  <2>1. loaderWork[r] # <<>>
    BY DEF Shared, TypeInv, LoaderInv, LoaderType
  <2> QED BY <2>1 DEF Shared, BegunInv
<1>3. \A t \in Steps : Reusable(t) /\ SlotOf(t) = k => ~(t > s)
  <2> SUFFICES ASSUME NEW t \in Steps, Reusable(t), SlotOf(t) = k, t > s PROVE FALSE
    OBVIOUS
  <2>1. s + Slots <= t
    BY <1>1, SameSlotApart
  <2>2. t < Start + Slots + collectives[r] \div 2
    BY DEF Reusable
  <2> QED BY <2>1, <2>2, <1>1, PipelineAssumption
<1>4. ~(writerPc = "publish" /\ writerItem.slot = k /\ writerItem.step > s)
  <2> SUFFICES ASSUME writerPc = "publish", writerItem.slot = k PROVE ~(writerItem.step > s)
    OBVIOUS
  <2>1. writerItem \in Assigned /\ writerItem.step \in Steps
    BY DEF Assigned, Busy, Shared, TypeInv, WriterInv
  <2> QED BY <2>1, <1>3 DEF Shared, AssignedInv
<1>5. ~(readyFile[k] > s)
  <2>1. readyFile[k] \in Steps \cup {Stop}
    BY DEF Shared, TypeInv, FileType
  <2>2. CASE readyFile[k] = Stop
    BY <2>2, <1>1
  <2>3. CASE readyFile[k] \in Steps
    <3>1. readyFile[k] # Stop
      BY <2>3
    <3>2. Reusable(readyFile[k]) /\ k = SlotOf(readyFile[k])
      BY <3>1, <1>2 DEF Shared, FileReuse
    <3> QED BY <2>3, <3>2, <1>3
  <2> QED BY <2>1, <2>2, <2>3
<1> QED BY <1>4, <1>5 DEF Overwritten

-----------------------------------------------------------------------------
(* Facts used by every step of the preservation proof *)

\* The parts of a rank's chain have the types of the queues they stand for.
LEMMA RankTypes ==
  ASSUME TypeInv, NEW r \in Ranks
  PROVE  /\ Work(r) \in Seq(WorkItems \cup {StopItem})
         /\ Ready(r) \in Seq(Results)
         /\ Held(r) \in {0, 1}
         /\ collectives[r] \in Nat /\ collectives[r] \div 2 \in Nat
         /\ mainStep[r] \in Nat /\ mainStep[r] >= Start
         /\ future[r] \in Results \cup {NoBatch, Pending}
         /\ mainPc[r] \in {"begin", "prime", "fetch", "release", "train",
                           "reduce", "stop", "done", "failed"}
         /\ Taken(r) \in Nat /\ Submitted(r) \in Nat
<1>1. Work(r) \in Seq(WorkItems \cup {StopItem}) /\ Ready(r) \in Seq(Results) /\ Held(r) \in {0, 1}
  BY DEF TypeInv, WriterInv, WriterType, LoaderInv, LoaderType, Work, Ready, Held
<1>2. /\ collectives[r] \in Nat /\ mainStep[r] \in Nat /\ mainStep[r] >= Start
      /\ future[r] \in Results \cup {NoBatch, Pending}
      /\ mainPc[r] \in {"begin", "prime", "fetch", "release", "train",
                        "reduce", "stop", "done", "failed"}
  BY DEF TypeInv, MainInv, MainType
<1>3. collectives[r] \div 2 \in Nat
  BY <1>2
<1>4. Taken(r) \in Nat
  BY <1>3, PipelineAssumption DEF Taken
<1>5. Submitted(r) \in Nat
  BY <1>2, PipelineAssumption DEF Submitted
<1> QED BY <1>1, <1>2, <1>3, <1>4, <1>5

\* The step does not concern the chain of rank q.
SameRank(q) ==
  /\ Work(q)' = Work(q) /\ Held(q)' = Held(q) /\ Ready(q)' = Ready(q)
  /\ future'[q] = future[q] /\ collectives'[q] = collectives[q]
  /\ mainPc'[q] = mainPc[q] /\ mainStep'[q] = mainStep[q] /\ loaded'[q] = loaded[q]

\* A rank none of whose variables change keeps its part of the invariant.
LEMMA RankFrame ==
  ASSUME NEW q \in Ranks, RankInv(q), SameRank(q)
  PROVE  RankInv(q)'
BY DEF RankInv, Count, Chain, WorkChain, StopLast, ReadyChain, EndChain, FullChain,
   Taken, Resolved, Submitted, SameRank

\* Collectives only grow, so a step that may reuse its slot keeps that right.
LEMMA ReusableGrows ==
  ASSUME TypeInv, TypeInv', NEW s \in Nat, Reusable(s),
         \A q \in Ranks : collectives'[q] >= collectives[q]
  PROVE  ReusableNext(s)
<1> SUFFICES ASSUME NEW q \in Ranks PROVE s < Start + Slots + collectives'[q] \div 2
  BY DEF ReusableNext
<1>1. collectives[q] \in Nat /\ collectives'[q] \in Nat /\ collectives'[q] >= collectives[q]
  BY DEF TypeInv, MainInv, MainType
<1>2. collectives'[q] \div 2 >= collectives[q] \div 2
  BY <1>1
<1> QED BY <1>1, <1>2, PipelineAssumption DEF Reusable

\* Before the first barrier every chain is empty.
LEMMA InitShared ==
  ASSUME Init PROVE Shared /\ (\A r \in Ranks : RankInv(r)) /\ HandPos /\ NoErrorInv
<1>1. TypeInv
  BY InitTypeInv
<1>2. ASSUME NEW r \in Ranks PROVE RankInv(r)
  BY <1>2, ConstantFacts, PipelineAssumption
     DEF Init, RankInv, Count, Chain, WorkChain, StopLast, ReadyChain, EndChain, FullChain,
         Work, Ready, Held, Resolved
<1>3. Assigned = {}
  BY DEF Init, Assigned, Queued, Busy
<1>4. HandPos /\ FileReuse /\ BegunInv /\ NoErrorInv
  BY ConstantFacts DEF Init, HandPos, FileReuse, BegunInv, NoErrorInv
<1> QED BY <1>1, <1>2, <1>3, <1>4 DEF Shared, AssignedInv, RankInv, Chain

\* Steps that concern no chain at all.
LEMMA NoRankStep ==
  ASSUME TypeInv,
         \/ PrefetchInfer \/ PrefetchPut \/ PrefetchStop
         \/ WriterClaim \/ WriterTimeout \/ WriterFail \/ WriterPublish
         \/ \E r \in Ranks : LoaderOpen(r) \/ LoaderCopy(r) \/ LoaderFail(r) \/ LoaderTimeout(r)
         \/ UNCHANGED vars
  PROVE  \A q \in Ranks : SameRank(q)
<1> SUFFICES ASSUME NEW q \in Ranks PROVE SameRank(q)
  OBVIOUS
<1> USE DEF SameRank, Work, Held, Ready
<1>1. CASE PrefetchInfer \/ PrefetchPut \/ PrefetchStop
  BY <1>1 DEF PrefetchInfer, PrefetchPut, PrefetchStop, writerVars, loaderVars, mainVars
<1>2. CASE WriterClaim \/ WriterTimeout \/ WriterFail \/ WriterPublish
  BY <1>2 DEF WriterClaim, WriterTimeout, WriterFail, WriterPublish, loaderVars, mainVars
<1>3. CASE \E r \in Ranks : LoaderOpen(r) \/ LoaderCopy(r) \/ LoaderFail(r) \/ LoaderTimeout(r)
  BY <1>3 DEF LoaderOpen, LoaderCopy, LoaderTimeout, LoaderFail, writerVars, mainVars
<1>4. CASE UNCHANGED vars
  BY <1>4 DEF vars, writerVars, loaderVars, mainVars
<1> QED BY <1>1, <1>2, <1>3, <1>4

\* Taking the head of a queue.
LEMMA Pop ==
  ASSUME NEW S, NEW w \in Seq(S), w # <<>>
  PROVE  /\ Len(w) \in Nat /\ Len(w) >= 1 /\ Head(w) = w[1] /\ Head(w) \in S
         /\ Tail(w) \in Seq(S) /\ Len(Tail(w)) = Len(w) - 1
         /\ \A i \in 1 .. Len(Tail(w)) : Tail(w)[i] = w[i + 1] /\ i + 1 \in 1 .. Len(w)
         /\ 1 \in 1 .. Len(w)
BY HeadTailProperties

\* Adding to the end of a queue.
LEMMA Push ==
  ASSUME NEW S, NEW w \in Seq(S), NEW e \in S
  PROVE  /\ Append(w, e) \in Seq(S) /\ Len(Append(w, e)) = Len(w) + 1
         /\ Len(w) \in Nat
         /\ \A i \in 1 .. Len(w) + 1 : Append(w, e)[i] = IF i <= Len(w) THEN w[i] ELSE e
OBVIOUS

\* The writer takes an item: rank 0's chain moves from its work to its hand.
LEMMA WriterGetRank ==
  ASSUME TypeInv, WriterGet
  PROVE  /\ \A q \in Ranks \ {0} : SameRank(q)
         /\ RankInv(0) /\ Head(resQueue) # Error => RankInv(0)'
<1>1. ASSUME NEW q \in Ranks \ {0} PROVE SameRank(q)
  BY DEF WriterGet, SameRank, Work, Held, Ready, loaderVars, mainVars
<1> SUFFICES ASSUME RankInv(0), Head(resQueue) # Error PROVE RankInv(0)'
  BY <1>1
<1>2. writerPc' = "buffer"
  BY DEF WriterGet
<1>3. RankInv(0)'
  <2>1. /\ Held(0) = 0 /\ Held(0)' = 1
        /\ UNCHANGED <<future, collectives, mainPc, mainStep, loaded>>
    BY <1>2 DEF WriterGet, Held, mainVars
  <2>2. Work(0) # <<>> /\ Work(0)' = Tail(Work(0))
    BY DEF WriterGet, Work
  <2>3. Ready(0)' = Ready(0)
    BY DEF WriterGet, Ready
  <2>4. Taken(0)' = Taken(0) /\ Submitted(0)' = Submitted(0) /\ (Resolved(0)' <=> Resolved(0))
    BY <2>1 DEF Taken, Submitted, Resolved
  <2>5. /\ Work(0) \in Seq(WorkItems \cup {StopItem}) /\ Taken(0) \in Nat
        /\ Submitted(0) \in Nat /\ Ready(0) \in Seq(Results)
    BY RankTypes, ConstantFacts
  <2>6. /\ Len(Work(0)) \in Nat /\ Len(Ready(0)) \in Nat
        /\ Len(Work(0)') = Len(Work(0)) - 1 /\ Len(Ready(0)') = Len(Ready(0))
    BY <2>2, <2>3, <2>5, Pop
  <2>7. \A i \in 1 .. Len(Work(0)') : Work(0)'[i] = Work(0)[i + 1] /\ i + 1 \in 1 .. Len(Work(0))
    BY <2>2, <2>5, Pop
  <2>8. Count(0) /\ WorkChain(0) /\ StopLast(0) /\ ReadyChain(0) /\ EndChain(0) /\ FullChain(0)
    BY ConstantFacts DEF RankInv, Chain
  <2>9. Count(0)'
    BY <2>1, <2>2, <2>8 DEF Count, Resolved
  <2>10. WorkChain(0)'
    <3> SUFFICES ASSUME NEW i \in 1 .. Len(Work(0)'), Work(0)'[i] # StopItem
                 PROVE  /\ Work(0)'[i].step =
                             Taken(0)' + Len(Ready(0)') + Held(0)' + i - 1
                        /\ Work(0)'[i].slot = SlotOf(Work(0)'[i].step)
      BY DEF WorkChain
    <3>1. Work(0)'[i] = Work(0)[i + 1] /\ i + 1 \in 1 .. Len(Work(0)) /\ i \in Int
      BY <2>7
    <3>2. /\ Work(0)[i + 1].step = Taken(0) + Len(Ready(0)) + Held(0) + (i + 1) - 1
          /\ Work(0)[i + 1].slot = SlotOf(Work(0)[i + 1].step)
      BY <3>1, <2>8 DEF WorkChain
    <3>3. Taken(0) + Len(Ready(0)) + 0 + (i + 1) - 1 = Taken(0) + Len(Ready(0)) + 1 + i - 1
      BY <2>5, <2>6, <3>1
    <3> QED BY <3>1, <3>2, <3>3, <2>1, <2>4, <2>6
  <2>11. StopLast(0)'
    BY <2>1, <2>6, <2>7, <2>8 DEF StopLast
  <2>12. ReadyChain(0)'
    BY <2>3, <2>4, <2>8 DEF ReadyChain
  <2>13. EndChain(0)'
    BY <2>1, <2>4, <2>8 DEF EndChain
  <2>14. FullChain(0)'
    BY <2>1, <2>4, <2>6, <2>8, RankTypes, ConstantFacts DEF FullChain
  <2> QED BY <2>9, <2>10, <2>11, <2>12, <2>13, <2>14 DEF RankInv, Chain
<1> QED BY <1>3

\* The writer hands the entry on to rank0_buffer.
LEMMA WriterBufferRank ==
  ASSUME TypeInv, WriterBuffer
  PROVE  /\ \A q \in Ranks \ {0} : SameRank(q)
         /\ RankInv(0) /\ HandPos /\ AssignedInv => RankInv(0)'
<1>1. ASSUME NEW q \in Ranks \ {0} PROVE SameRank(q)
  BY DEF WriterBuffer, SameRank, Work, Held, Ready, loaderVars, mainVars
<1> SUFFICES ASSUME RankInv(0), HandPos, AssignedInv PROVE RankInv(0)'
  BY <1>1
<1>2. RankInv(0)'
  <2> DEFINE e == Batch(writerData, writerItem.slot)
  <2>1. /\ Held(0) = 1 /\ Held(0)' = 0
        /\ UNCHANGED <<future, collectives, mainPc, mainStep, loaded>>
    BY DEF WriterBuffer, Held, mainVars
  <2>2. Work(0)' = Work(0) /\ Ready(0)' = Append(Ready(0), e)
    BY DEF WriterBuffer, Work, Ready
  <2>3. e \in Results
    BY ConstantFacts DEF WriterBuffer, TypeInv, WriterInv, Batch, Results
  <2>4. e.slot = SlotOf(Taken(0) + Len(Ready(0)))
    BY DEF WriterBuffer, HandPos, AssignedInv, Assigned, Busy, Batch, Ready
  <2> HIDE DEF e
  <2>5. Taken(0)' = Taken(0) /\ Submitted(0)' = Submitted(0) /\ (Resolved(0)' <=> Resolved(0))
    BY <2>1 DEF Taken, Submitted, Resolved
  <2>6. /\ Work(0) \in Seq(WorkItems \cup {StopItem}) /\ Taken(0) \in Nat
        /\ Submitted(0) \in Nat /\ Ready(0) \in Seq(Results)
    BY RankTypes, ConstantFacts
  <2>7. /\ Len(Work(0)) \in Nat /\ Len(Ready(0)) \in Nat
        /\ Len(Work(0)') = Len(Work(0)) /\ Len(Ready(0)') = Len(Ready(0)) + 1
    BY <2>2, <2>3, <2>6, Push
  <2>8. \A i \in 1 .. Len(Ready(0)) + 1 :
          Ready(0)'[i] = IF i <= Len(Ready(0)) THEN Ready(0)[i] ELSE e
    BY <2>2, <2>3, <2>6, Push
  <2>9. \A i \in 1 .. Len(Work(0)) : Work(0)'[i] = Work(0)[i]
    BY <2>2
  <2>10. Count(0) /\ WorkChain(0) /\ StopLast(0) /\ ReadyChain(0) /\ EndChain(0) /\ FullChain(0)
    BY ConstantFacts DEF RankInv, Chain
  <2>11. Count(0)'
    BY <2>1, <2>10 DEF Count, Resolved
  <2>12. WorkChain(0)'
    <3>1. Taken(0) \in Nat /\ WorkChain(0)
      BY <2>6, <2>10
    <3>2. \A i \in 1 .. Len(Work(0)) :
            Taken(0) + Len(Ready(0)) + 1 + i - 1 = Taken(0) + (Len(Ready(0)) + 1) + 0 + i - 1
      BY <3>1, <2>7
    <3> QED BY <2>1, <2>5, <2>7, <2>9, <3>1, <3>2 DEF WorkChain
  <2>13. StopLast(0)'
    BY <2>1, <2>7, <2>9, <2>10 DEF StopLast
  <2>14. ReadyChain(0)'
    <3> SUFFICES ASSUME NEW i \in 1 .. Len(Ready(0)) + 1
                 PROVE  Ready(0)'[i].slot = SlotOf(Taken(0) + i - 1)
      BY <2>5, <2>7 DEF ReadyChain
    <3>1. CASE i <= Len(Ready(0))
      BY <3>1, <2>7, <2>8, <2>10 DEF ReadyChain
    <3>2. CASE i = Len(Ready(0)) + 1
      <4>1. Ready(0)'[i] = e
        BY <3>2, <2>7, <2>8
      <4>2. Taken(0) + i - 1 = Taken(0) + Len(Ready(0))
        BY <3>2, <2>6, <2>7
      <4> QED BY <4>1, <4>2, <2>4
    <3> QED BY <3>1, <3>2, <2>7
  <2>15. EndChain(0)'
    BY <2>1, <2>5, <2>10 DEF EndChain
  <2>16. FullChain(0)'
    <3>1. Taken(0) \in Nat /\ Submitted(0) \in Nat /\ FullChain(0)
      BY <2>6, <2>10
    <3> QED BY <2>1, <2>5, <2>7, <3>1 DEF FullChain
  <2> QED BY <2>11, <2>12, <2>13, <2>14, <2>15, <2>16 DEF RankInv, Chain
<1> QED BY <1>2

\* A thread that takes the sentinel finds it last in its queue.
LEMMA StopRank ==
  ASSUME TypeInv, WriterStop \/ \E r \in Ranks : LoaderStop(r)
  PROVE  \A q \in Ranks : SameRank(q) \/ (RankInv(q) => RankInv(q)')
<1> SUFFICES ASSUME NEW q \in Ranks, ~SameRank(q), RankInv(q) PROVE RankInv(q)'
  OBVIOUS
<1>1. /\ Work(q) # <<>> /\ Work(q)' = Tail(Work(q)) /\ Head(Work(q)) = StopItem
      /\ Held(q)' = Held(q) /\ Ready(q)' = Ready(q)
      /\ UNCHANGED <<future, collectives, mainPc, mainStep, loaded>>
  <2>1. CASE WriterStop
    BY <2>1 DEF WriterStop, SameRank, Work, Held, Ready, loaderVars, mainVars
  <2>2. CASE \E r \in Ranks : LoaderStop(r)
    BY <2>2 DEF LoaderStop, InHand, SameRank, Work, Held, Ready, writerVars, mainVars,
       TypeInv, LoaderInv, LoaderType
  <2> QED BY <2>1, <2>2
<1>2. /\ Work(q) \in Seq(WorkItems \cup {StopItem}) /\ Taken(q) \in Nat
      /\ Ready(q) \in Seq(Results) /\ Len(Ready(q)) \in Nat
  BY RankTypes
<1>3. /\ Work(q)[1] = StopItem /\ Len(Work(q)) \in Nat /\ 1 \in 1 .. Len(Work(q))
      /\ Len(Work(q)') = Len(Work(q)) - 1
  BY <1>1, <1>2, Pop
<1>4. Count(q) /\ StopLast(q) /\ ReadyChain(q) /\ EndChain(q)
  BY DEF RankInv, Chain
<1>5. Len(Work(q)') = 0 /\ mainPc[q] \in {"done", "failed"}
  BY <1>3, <1>4 DEF StopLast
<1>6. Taken(q)' = Taken(q) /\ (Resolved(q)' <=> Resolved(q))
  BY <1>1 DEF Taken, Resolved
<1>7. Count(q)'
  BY <1>1, <1>5 DEF Count
<1>8. WorkChain(q)' /\ StopLast(q)'
  BY <1>5 DEF WorkChain, StopLast
<1>9. ReadyChain(q)'
  BY <1>1, <1>4, <1>6 DEF ReadyChain
<1>10. EndChain(q)'
  BY <1>1, <1>4, <1>6 DEF EndChain
<1>11. FullChain(q)'
  BY <1>1, <1>5 DEF FullChain
<1> QED BY <1>7, <1>8, <1>9, <1>10, <1>11 DEF RankInv, Chain

\* A loader that puts its result moves its chain from work to ready.
LEMMA LoaderPutRank ==
  ASSUME TypeInv, NEW r \in Ranks, LoaderPut(r)
  PROVE  \A q \in Ranks : SameRank(q) \/ (RankInv(q) => RankInv(q)')
<1> SUFFICES ASSUME NEW q \in Ranks, ~SameRank(q), RankInv(q) PROVE RankInv(q)'
  OBVIOUS
<1> DEFINE e == Batch(loaderData[r], InHand(r).slot)
<1>1. q = r /\ r # 0 /\ Held(r) = 0 /\ Held(r)' = 0
      /\ UNCHANGED <<future, collectives, mainPc, mainStep, loaded>>
  BY DEF LoaderPut, SameRank, Work, Held, Ready, writerVars, mainVars,
     TypeInv, LoaderInv, LoaderType
<1>2. Work(r)' = Tail(Work(r)) /\ Ready(r)' = Append(Ready(r), e)
  BY <1>1 DEF LoaderPut, Work, Ready, TypeInv, LoaderInv, LoaderType
<1>3. Work(r) # <<>> /\ Head(Work(r)) = InHand(r) /\ InHand(r) \in WorkItems
  BY <1>1 DEF LoaderPut, Work, TypeInv, LoaderInv, InHand
<1>4. e \in Results /\ e.slot = InHand(r).slot
  BY <1>3, ConstantFacts DEF LoaderPut, TypeInv, LoaderInv, LoaderType, Batch, Results
<1>5. Taken(r)' = Taken(r) /\ Submitted(r)' = Submitted(r) /\ (Resolved(r)' <=> Resolved(r))
  BY <1>1 DEF Taken, Submitted, Resolved
<1>6. /\ Work(r) \in Seq(WorkItems \cup {StopItem}) /\ Taken(r) \in Nat
      /\ Submitted(r) \in Nat /\ Ready(r) \in Seq(Results)
  BY RankTypes
<1>7. /\ Len(Work(r)) \in Nat /\ Len(Ready(r)) \in Nat
      /\ Len(Work(r)') = Len(Work(r)) - 1 /\ Work(r)[1] = InHand(r) /\ 1 \in 1 .. Len(Work(r))
  BY <1>2, <1>3, <1>6, Pop
<1>8. \A i \in 1 .. Len(Work(r)') : Work(r)'[i] = Work(r)[i + 1] /\ i + 1 \in 1 .. Len(Work(r))
  BY <1>2, <1>3, <1>6, Pop
<1> HIDE DEF e
<1>9. /\ Len(Ready(r)') = Len(Ready(r)) + 1
      /\ \A i \in 1 .. Len(Ready(r)) + 1 :
           Ready(r)'[i] = IF i <= Len(Ready(r)) THEN Ready(r)[i] ELSE e
  BY <1>2, <1>4, <1>6, Push
<1>10. Count(r) /\ WorkChain(r) /\ StopLast(r) /\ ReadyChain(r) /\ EndChain(r) /\ FullChain(r)
  BY <1>1 DEF RankInv, Chain
<1>11. e.slot = SlotOf(Taken(r) + Len(Ready(r)))
  <2>1. InHand(r) # StopItem
    BY <1>3, ConstantFacts
  <2>2. InHand(r).step = Taken(r) + Len(Ready(r)) + Held(r) + 1 - 1
        /\ InHand(r).slot = SlotOf(InHand(r).step)
    BY <2>1, <1>7, <1>10 DEF WorkChain
  <2>3. InHand(r).step = Taken(r) + Len(Ready(r))
    BY <2>2, <1>1, <1>6, <1>7
  <2> QED BY <2>2, <2>3, <1>4
<1>12. Count(r)'
  BY <1>1, <1>3, <1>10 DEF Count, Resolved
<1>13. WorkChain(r)'
  <2>1. Taken(r) \in Nat /\ WorkChain(r) /\ Len(Ready(r)') = Len(Ready(r)) + 1
    BY <1>6, <1>9, <1>10
  <2> SUFFICES ASSUME NEW i \in 1 .. Len(Work(r)'), Work(r)'[i] # StopItem
               PROVE  /\ Work(r)'[i].step = Taken(r) + (Len(Ready(r)) + 1) + 0 + i - 1
                      /\ Work(r)'[i].slot = SlotOf(Work(r)'[i].step)
    BY <1>1, <1>5, <2>1 DEF WorkChain
  <2>2. Work(r)'[i] = Work(r)[i + 1] /\ i + 1 \in 1 .. Len(Work(r)) /\ i \in Nat
    BY <1>7, <1>8
  <2>3. /\ Work(r)[i + 1].step = Taken(r) + Len(Ready(r)) + 0 + (i + 1) - 1
        /\ Work(r)[i + 1].slot = SlotOf(Work(r)[i + 1].step)
    BY <2>1, <2>2, <1>1 DEF WorkChain
  <2>4. Taken(r) + Len(Ready(r)) + 0 + (i + 1) - 1 = Taken(r) + (Len(Ready(r)) + 1) + 0 + i - 1
    BY <2>1, <2>2, <1>7
  <2> QED BY <2>2, <2>3, <2>4
<1>14. StopLast(r)'
  BY <1>1, <1>7, <1>8, <1>10 DEF StopLast
<1>15. ReadyChain(r)'
  <2> SUFFICES ASSUME NEW i \in 1 .. Len(Ready(r)) + 1
               PROVE  Ready(r)'[i].slot = SlotOf(Taken(r) + i - 1)
    BY <1>5, <1>9 DEF ReadyChain
  <2>1. CASE i <= Len(Ready(r))
    BY <2>1, <1>7, <1>9, <1>10 DEF ReadyChain
  <2>2. CASE i = Len(Ready(r)) + 1
    <3>1. Ready(r)'[i] = e
      BY <2>2, <1>7, <1>9
    <3>2. Taken(r) + i - 1 = Taken(r) + Len(Ready(r))
      BY <2>2, <1>6, <1>7
    <3> QED BY <3>1, <3>2, <1>11
  <2> QED BY <2>1, <2>2, <1>7
<1>16. EndChain(r)'
  BY <1>1, <1>5, <1>10 DEF EndChain
<1>17. FullChain(r)'
  BY <1>1, <1>5, <1>6, <1>7, <1>9, <1>10 DEF FullChain
<1> QED BY <1>1, <1>12, <1>13, <1>14, <1>15, <1>16, <1>17 DEF RankInv, Chain

\* The future takes the next result.
LEMMA FutureRunRank ==
  ASSUME TypeInv, NEW r \in Ranks, FutureRun(r)
  PROVE  (\A q \in Ranks \ {r} : SameRank(q)) /\ (RankInv(r) => RankInv(r)')
<1>1. ASSUME NEW q \in Ranks \ {r} PROVE SameRank(q)
  BY DEF FutureRun, SameRank, Work, Held, Ready, prefetchVars,
     TypeInv, MainInv, MainType, LoaderInv, LoaderType
<1> SUFFICES ASSUME RankInv(r) PROVE RankInv(r)'
  BY <1>1
<1>2. /\ Held(r)' = Held(r) /\ Work(r)' = Work(r)
      /\ UNCHANGED <<collectives, mainPc, mainStep, loaded>>
  BY DEF FutureRun, Held, Work
<1>3. Ready(r) # <<>> /\ Ready(r)' = Tail(Ready(r))
  BY DEF FutureRun, Ready, TypeInv, LoaderInv, LoaderType
<1>4. future[r] = Pending /\ future'[r] = Head(Ready(r))
  BY DEF FutureRun, Ready, TypeInv, MainInv, MainType
<1>5. /\ Work(r) \in Seq(WorkItems \cup {StopItem}) /\ Ready(r) \in Seq(Results)
  BY RankTypes
<1>6. /\ Taken(r) \in Nat /\ Submitted(r) \in Nat /\ Held(r) \in {0, 1}
      /\ collectives[r] \div 2 \in Nat
  BY RankTypes
<1>7. /\ Len(Work(r)) \in Nat /\ Len(Ready(r)) \in Nat
      /\ Len(Work(r)') = Len(Work(r)) /\ Len(Ready(r)') = Len(Ready(r)) - 1
  BY <1>2, <1>3, <1>5, Pop
<1>8. \A i \in 1 .. Len(Ready(r)') : Ready(r)'[i] = Ready(r)[i + 1] /\ i + 1 \in 1 .. Len(Ready(r))
  BY <1>3, <1>5, Pop
<1>9. future'[r] = Ready(r)[1] /\ 1 \in 1 .. Len(Ready(r)) /\ future'[r] \in Results
  BY <1>3, <1>4, <1>5, Pop
<1>10. ~Resolved(r) /\ Resolved(r)'
  BY <1>4, <1>9, ConstantFacts DEF Resolved
<1>11. Taken(r)' = Taken(r) + 1 /\ Submitted(r)' = Submitted(r)
  BY <1>2, <1>6, <1>10, PipelineAssumption DEF Taken, Submitted
<1>12. Count(r) /\ WorkChain(r) /\ StopLast(r) /\ ReadyChain(r) /\ EndChain(r) /\ FullChain(r)
  BY DEF RankInv, Chain
<1>13. mainPc[r] \notin {"begin", "prime", "release"}
  BY <1>4, <1>12, ConstantFacts DEF Count
<1>14. Count(r)'
  BY <1>2, <1>12, <1>13 DEF Count
<1>15. WorkChain(r)'
  <2> SUFFICES ASSUME NEW i \in 1 .. Len(Work(r)), Work(r)[i] # StopItem
               PROVE  /\ Work(r)[i].step = (Taken(r) + 1) + (Len(Ready(r)) - 1) + Held(r) + i - 1
                      /\ Work(r)[i].slot = SlotOf(Work(r)[i].step)
    BY <1>2, <1>7, <1>11 DEF WorkChain
  <2>1. (Taken(r) + 1) + (Len(Ready(r)) - 1) + Held(r) + i - 1
          = Taken(r) + Len(Ready(r)) + Held(r) + i - 1
    BY <1>6, <1>7
  <2> QED BY <2>1, <1>12 DEF WorkChain
<1>16. StopLast(r)'
  BY <1>2, <1>7, <1>12 DEF StopLast
<1>17. ReadyChain(r)'
  <2> SUFFICES ASSUME NEW i \in 1 .. Len(Ready(r)')
               PROVE  Ready(r)'[i].slot = SlotOf((Taken(r) + 1) + i - 1)
    BY <1>11 DEF ReadyChain
  <2>1. Ready(r)'[i] = Ready(r)[i + 1] /\ i + 1 \in 1 .. Len(Ready(r)) /\ i \in Nat
    BY <1>7, <1>8
  <2>2. Ready(r)[i + 1].slot = SlotOf(Taken(r) + (i + 1) - 1)
    BY <2>1, <1>12 DEF ReadyChain
  <2>3. Taken(r) + (i + 1) - 1 = (Taken(r) + 1) + i - 1
    BY <2>1, <1>6
  <2> QED BY <2>1, <2>2, <2>3
<1>18. EndChain(r)'
  <2>1. future'[r].slot = SlotOf(Taken(r) + 1 - 1)
    BY <1>9, <1>12 DEF ReadyChain
  <2>2. Taken(r) + 1 - 1 = Taken(r)' - 1
    BY <1>6, <1>11
  <2>3. mainPc'[r] # "release"
    BY <1>2, <1>13
  <2>4. SlotOf(Taken(r) + 1 - 1) = SlotOf(Taken(r)' - 1)
    BY <2>2 DEF SlotOf
  <2> QED BY <2>1, <2>3, <2>4 DEF EndChain
<1>19. FullChain(r)'
  BY <1>2, <1>6, <1>7, <1>11, <1>12 DEF FullChain
<1>20. RankInv(r)'
  BY <1>14, <1>15, <1>16, <1>17, <1>18, <1>19 DEF RankInv, Chain
<1> QED BY <1>1, <1>20

\* Two collectives per step: how the counts of a step's phases relate.
LEMMA Half ==
  ASSUME NEW n \in Nat
  PROVE  /\ (1 + 2 * n) \div 2 = n /\ (2 + 2 * n) \div 2 = n + 1 /\ (3 + 2 * n) \div 2 = n + 1
         /\ (2 + 2 * n) + 1 = 3 + 2 * n /\ 3 + 2 * n = 1 + 2 * (n + 1)
OBVIOUS

\* Steps of a main thread that leave its queues alone.
LEMMA MainOnlyRank ==
  ASSUME TypeInv, TypeInv', NEW r \in Ranks,
         MainBegin(r) \/ MainRaise(r) \/ MainTrain(r) \/ MainStepEnd(r) \/ Killed(r)
  PROVE  (\A q \in Ranks \ {r} : SameRank(q)) /\ (RankInv(r) => RankInv(r)')
<1>1. ASSUME NEW q \in Ranks \ {r} PROVE SameRank(q)
  BY DEF MainBegin, MainRaise, MainTrain, MainStepEnd, Killed, LauncherKill, GroupTimeout, Arrive, SameRank,
     Work, Held, Ready, writerVars, loaderVars, TypeInv, MainInv, MainType
<1> SUFFICES ASSUME RankInv(r) PROVE RankInv(r)'
  BY <1>1
<1>2. /\ Held(r)' = Held(r) /\ Work(r)' = Work(r) /\ Ready(r)' = Ready(r)
      /\ future' = future /\ loaded' = loaded
  BY DEF MainBegin, MainRaise, MainTrain, MainStepEnd, Killed, LauncherKill, GroupTimeout, Held, Work, Ready,
     writerVars, loaderVars
<1>3. /\ Taken(r) \in Nat /\ Submitted(r) \in Nat /\ Held(r) \in {0, 1}
      /\ collectives[r] \in Nat /\ mainStep[r] \in Nat /\ mainStep[r] >= Start
      /\ Len(Work(r)) \in Nat /\ Len(Ready(r)) \in Nat
  BY RankTypes
<1>4. Count(r) /\ WorkChain(r) /\ StopLast(r) /\ ReadyChain(r) /\ EndChain(r) /\ FullChain(r)
  BY DEF RankInv, Chain
<1>5. /\ collectives'[r] \div 2 = collectives[r] \div 2
      /\ mainPc'[r] # "release"
      /\ mainPc[r] \in {"done", "failed"} => mainPc'[r] \in {"done", "failed"}
      /\ Count(r)'
      /\ mainPc'[r] \in {"fetch", "train", "reduce"} =>
           mainPc[r] \in {"train", "reduce"} /\ Submitted(r)' = Submitted(r)
  <2> DEFINE n == mainStep[r] - Start
  <2>0. n \in Nat /\ (mainStep[r] + 1) - Start = n + 1
    <3>1. mainStep[r] \in Nat /\ mainStep[r] >= Start /\ Start \in Nat
      BY <1>3, PipelineAssumption
    <3> QED BY <3>1
  <2>1. CASE MainBegin(r)
    BY <2>1, <1>2, <1>4 DEF MainBegin, Arrive, Count, TypeInv, MainInv, MainType
  <2>2. CASE MainRaise(r)
    BY <2>2 DEF MainRaise, Count, TypeInv, MainInv, MainType
  <2>3. CASE Killed(r)
    BY <2>3 DEF Killed, LauncherKill, GroupTimeout, Count, TypeInv, MainInv, MainType
  <2>4. CASE MainTrain(r)
    <3>1. /\ mainPc[r] = "train" /\ mainPc'[r] = "reduce" /\ mainStep'[r] = mainStep[r]
          /\ collectives'[r] = collectives[r] + 1
      BY <2>4 DEF MainTrain, Arrive, TypeInv, MainInv, MainType
    <3>2. collectives[r] = 2 + 2 * n
      BY <3>1, <1>4 DEF Count
    <3>3. collectives'[r] = 3 + 2 * (mainStep'[r] - Start)
      BY <3>1, <3>2, <2>0, Half
    <3>4. collectives'[r] \div 2 = collectives[r] \div 2
      BY <3>1, <3>2, <3>3, <2>0, Half
    <3>5. Count(r)'
      BY <3>1, <3>3 DEF Count
    <3> QED BY <3>1, <3>4, <3>5 DEF Submitted
  <2>5. CASE MainStepEnd(r)
    <3>1. /\ mainPc[r] = "reduce" /\ mainStep'[r] = mainStep[r] + 1
          /\ mainPc'[r] \in {"fetch", "stop"} /\ collectives'[r] = collectives[r]
      BY <2>5 DEF MainStepEnd, TypeInv, MainInv, MainType
    <3>2. collectives[r] = 3 + 2 * n
      BY <3>1, <1>4 DEF Count
    <3>3. collectives'[r] = 1 + 2 * (mainStep'[r] - Start)
      BY <3>1, <3>2, <2>0, Half
    <3>4. Count(r)'
      BY <3>1, <3>3 DEF Count
    <3>5. Submitted(r)' = Submitted(r) \/ mainPc'[r] = "stop"
      BY <1>3, <3>1, PipelineAssumption DEF Submitted
    <3> QED BY <3>1, <3>4, <3>5
  <2> QED BY <2>1, <2>2, <2>3, <2>4, <2>5
<1>6. Taken(r)' = Taken(r) /\ (Resolved(r)' <=> Resolved(r))
  BY <1>2, <1>5 DEF Taken, Resolved
<1>7. WorkChain(r)'
  BY <1>2, <1>4, <1>6 DEF WorkChain
<1>8. StopLast(r)'
  BY <1>2, <1>4, <1>5 DEF StopLast
<1>9. ReadyChain(r)'
  BY <1>2, <1>4, <1>6 DEF ReadyChain
<1>10. EndChain(r)'
  BY <1>2, <1>4, <1>5, <1>6 DEF EndChain
<1>11. FullChain(r)'
  BY <1>2, <1>4, <1>5, <1>6 DEF FullChain
<1>12. RankInv(r)'
  BY <1>5, <1>7, <1>8, <1>9, <1>10, <1>11 DEF RankInv, Chain
<1> QED BY <1>1, <1>12

\* The main thread takes the data of its step from the future.
LEMMA MainFetchRank ==
  ASSUME TypeInv, NEW r \in Ranks, MainFetch(r)
  PROVE  (\A q \in Ranks \ {r} : SameRank(q)) /\ (RankInv(r) => RankInv(r)')
<1>1. ASSUME NEW q \in Ranks \ {r} PROVE SameRank(q)
  BY DEF MainFetch, Arrive, SameRank, Work, Held, Ready, writerVars, loaderVars,
     TypeInv, MainInv, MainType
<1> SUFFICES ASSUME RankInv(r) PROVE RankInv(r)'
  BY <1>1
<1>2. Held(r)' = Held(r) /\ Work(r)' = Work(r) /\ Ready(r)' = Ready(r)
  BY DEF MainFetch, Held, Work, Ready, writerVars, loaderVars
<1>3. /\ Taken(r) \in Nat /\ collectives[r] \in Nat /\ mainStep[r] \in Nat /\ mainStep[r] >= Start
  BY RankTypes
<1>4. Count(r) /\ WorkChain(r) /\ StopLast(r) /\ ReadyChain(r) /\ EndChain(r) /\ FullChain(r)
  BY DEF RankInv, Chain
<1>5. /\ mainPc[r] = "fetch" /\ mainPc'[r] = "release" /\ mainStep' = mainStep
      /\ Resolved(r) /\ future'[r] = NoBatch /\ loaded'[r] = future[r]
      /\ collectives'[r] = collectives[r] + 1
  BY DEF MainFetch, Arrive, Resolved, TypeInv, MainInv, MainType
<1>6. collectives[r] = 1 + 2 * (mainStep[r] - Start)
  BY <1>4, <1>5 DEF Count
<1>7. /\ collectives[r] \div 2 = mainStep[r] - Start
      /\ collectives'[r] \div 2 = mainStep[r] - Start + 1
  <2> DEFINE n == mainStep[r] - Start
  <2>1. n \in Nat
    BY <1>3, PipelineAssumption
  <2>2. collectives[r] = 1 + 2 * n /\ collectives'[r] = 2 + 2 * n
    BY <1>5, <1>6, <2>1
  <2> HIDE DEF n
  <2>3. collectives[r] \div 2 = n /\ collectives'[r] \div 2 = n + 1
    BY <2>1, <2>2, Half
  <2> QED BY <2>3 DEF n
<1>8. ~Resolved(r)'
  BY <1>5 DEF Resolved
<1>9. Taken(r) = mainStep[r] + 1 /\ Taken(r)' = Taken(r) /\ Submitted(r)' = Submitted(r)
  BY <1>3, <1>5, <1>7, <1>8, PipelineAssumption DEF Taken, Submitted
<1>10. Count(r)'
  BY <1>3, <1>5, <1>6, PipelineAssumption DEF Count
<1>11. WorkChain(r)'
  BY <1>2, <1>4, <1>9 DEF WorkChain
<1>12. StopLast(r)'
  BY <1>2, <1>4, <1>5 DEF StopLast
<1>13. ReadyChain(r)'
  BY <1>2, <1>4, <1>9 DEF ReadyChain
<1>14. EndChain(r)'
  <2>1. loaded'[r].slot = SlotOf(Taken(r) - 1)
    BY <1>4, <1>5 DEF EndChain
  <2>2. Taken(r) - 1 = mainStep'[r]
    BY <1>3, <1>5, <1>9
  <2>3. SlotOf(Taken(r) - 1) = SlotOf(mainStep'[r])
    BY <2>2 DEF SlotOf
  <2> QED BY <2>1, <2>3, <1>8 DEF EndChain
<1>15. FullChain(r)'
  BY <1>2, <1>4, <1>5, <1>9 DEF FullChain
<1>16. RankInv(r)'
  BY <1>10, <1>11, <1>12, <1>13, <1>14, <1>15 DEF RankInv, Chain
<1> QED BY <1>1, <1>16

\* What submitting items does to the work queues of the chains.
LEMMA SubmitWork ==
  ASSUME TypeInv, NEW r \in Ranks, NEW items, Submit(r, items)
  PROVE  /\ Work(r)' = Work(r) \o items
         /\ \A q \in Ranks \ {r} : Work(q)' = Work(q)
BY DEF Submit, Work, TypeInv, LoaderInv, LoaderType

\* The pipeline is primed with the first steps.
LEMMA MainPrimeRank ==
  ASSUME TypeInv, NEW r \in Ranks, MainPrime(r)
  PROVE  (\A q \in Ranks \ {r} : SameRank(q)) /\ (RankInv(r) => RankInv(r)')
<1>1. ASSUME NEW q \in Ranks \ {r} PROVE SameRank(q)
  <2>1. Work(q)' = Work(q)
    BY SubmitWork DEF MainPrime
  <2> QED BY <2>1 DEF MainPrime, SameRank, Held, Ready, TypeInv, MainInv, MainType
<1> SUFFICES ASSUME RankInv(r) PROVE RankInv(r)'
  BY <1>1
<1>2. /\ mainPc[r] = "prime" /\ mainPc'[r] = "fetch" /\ mainStep' = mainStep
      /\ collectives' = collectives /\ future'[r] = Pending /\ loaded' = loaded
      /\ Held(r)' = Held(r) /\ Ready(r)' = Ready(r)
  BY DEF MainPrime, Held, Ready, TypeInv, MainInv, MainType
<1>3. /\ collectives[r] = 1 /\ mainStep[r] = Start
      /\ Work(r) = <<>> /\ Ready(r) = <<>> /\ Held(r) = 0
  BY <1>2 DEF RankInv, Count
<1> DEFINE n == IF Start + Slots <= Total THEN Slots ELSE Total - Start
<1>4. n \in Nat
  BY PipelineAssumption
<1>5. PrimeItems = [i \in 1 .. n |-> Item(Start + i - 1, SlotOf(Start + i - 1))]
  BY DEF PrimeItems, SlotOf
<1>6. Work(r)' = PrimeItems
  <2>1. Work(r)' = Work(r) \o PrimeItems
    BY SubmitWork DEF MainPrime
  <2>2. <<>> \o PrimeItems = PrimeItems
    BY PrimeType, ConcatEmptySeq
  <2> QED BY <2>1, <2>2, <1>3
<1>7. Submitted(r)' = Start + n
  BY <1>2, <1>3, PipelineAssumption DEF Submitted
<1> HIDE DEF n
<1>8. /\ Len(Work(r)') = n /\ Len(Ready(r)') = 0 /\ Held(r)' = 0
      /\ \A i \in 1 .. n : Work(r)'[i] = Item(Start + i - 1, SlotOf(Start + i - 1))
  BY <1>2, <1>3, <1>4, <1>5, <1>6
<1>9. Taken(r)' = Start /\ ~Resolved(r)'
  BY <1>2, <1>3, ConstantFacts, PipelineAssumption DEF Taken, Resolved
<1>10. \A i \in 1 .. n : /\ Work(r)'[i].step = Start + i - 1
                         /\ Work(r)'[i].slot = SlotOf(Start + i - 1)
  BY <1>8 DEF Item
<1>11. Count(r)'
  BY <1>2, <1>3, PipelineAssumption DEF Count
<1>12. WorkChain(r)'
  <2> SUFFICES ASSUME NEW i \in 1 .. n
               PROVE  /\ Work(r)'[i].step = Start + 0 + 0 + i - 1
                      /\ Work(r)'[i].slot = SlotOf(Work(r)'[i].step)
    BY <1>8, <1>9 DEF WorkChain
  <2>1. Start + 0 + 0 + i - 1 = Start + i - 1
    BY PipelineAssumption
  <2> QED BY <2>1, <1>10
<1>13. StopLast(r)'
  <2> SUFFICES ASSUME NEW i \in 1 .. n PROVE Work(r)'[i] # StopItem
    BY <1>8 DEF StopLast
  <2>1. Start + i - 1 # -1
    BY <1>4, PipelineAssumption
  <2> QED BY <2>1, <1>10 DEF StopItem, Item
<1>14. ReadyChain(r)'
  BY <1>8 DEF ReadyChain
<1>15. EndChain(r)'
  BY <1>2, <1>9 DEF EndChain
<1>16. FullChain(r)'
  <2>1. Start + 0 + 0 + n = Start + n
    BY <1>4, PipelineAssumption
  <2> QED BY <2>1, <1>7, <1>8, <1>9 DEF FullChain
<1>17. RankInv(r)'
  BY <1>11, <1>12, <1>13, <1>14, <1>15, <1>16 DEF RankInv, Chain
<1> QED BY <1>1, <1>17

\* Appending to the work of a chain the step after its last.
LEMMA MainReleaseRank ==
  ASSUME TypeInv, NEW r \in Ranks, MainRelease(r)
  PROVE  (\A q \in Ranks \ {r} : SameRank(q)) /\ (RankInv(r) => RankInv(r)')
<1>1. ASSUME NEW q \in Ranks \ {r} PROVE SameRank(q)
  <2>1. Work(q)' = Work(q)
    BY SubmitWork DEF MainRelease
  <2> QED BY <2>1 DEF MainRelease, SameRank, Held, Ready, TypeInv, MainInv, MainType
<1> SUFFICES ASSUME RankInv(r) PROVE RankInv(r)'
  BY <1>1
<1>2. /\ mainPc[r] = "release" /\ mainPc'[r] = "train" /\ mainStep' = mainStep
      /\ collectives' = collectives /\ future'[r] \in {Pending, NoBatch} /\ loaded' = loaded
      /\ Held(r)' = Held(r) /\ Ready(r)' = Ready(r)
  BY DEF MainRelease, Held, Ready, TypeInv, MainInv, MainType
<1>3. Work(r)' = Work(r) \o NextItems(r)
  BY SubmitWork DEF MainRelease
<1>4. Count(r) /\ WorkChain(r) /\ StopLast(r) /\ ReadyChain(r) /\ EndChain(r) /\ FullChain(r)
  BY DEF RankInv, Chain
<1>5. Work(r) \in Seq(WorkItems \cup {StopItem}) /\ Ready(r) \in Seq(Results)
  BY RankTypes
<1>6. /\ Taken(r) \in Nat /\ Submitted(r) \in Nat /\ Held(r) \in {0, 1}
      /\ mainStep[r] \in Nat
  BY RankTypes
<1>7. Len(Work(r)) \in Nat /\ Len(Ready(r)) \in Nat
  BY <1>5
<1>8. ~Resolved(r) /\ ~Resolved(r)' /\ Taken(r)' = Taken(r)
  BY <1>2, <1>4 DEF Resolved, Count, Taken
<1>9. Count(r)'
  BY <1>2, <1>4 DEF Count
<1>10. ReadyChain(r)'
  BY <1>2, <1>4, <1>8 DEF ReadyChain
<1>11. EndChain(r)'
  BY <1>2, <1>8 DEF EndChain
<1>12. CASE ~(mainStep[r] + Slots < Total)
  <2>1. Work(r)' = Work(r)
    <3>1. NextItems(r) = <<>>
      BY <1>12 DEF NextItems
    <3> QED BY <3>1, <1>3, <1>5, ConcatEmptySeq
  <2>2. Submitted(r)' = Submitted(r)
    BY <1>2, <1>6, <1>12, PipelineAssumption DEF Submitted
  <2>3. WorkChain(r)'
    BY <2>1, <1>2, <1>4, <1>8 DEF WorkChain
  <2>4. StopLast(r)'
    BY <2>1, <1>2, <1>4 DEF StopLast
  <2>5. FullChain(r)'
    BY <2>1, <2>2, <1>2, <1>4, <1>8 DEF FullChain
  <2>6. RankInv(r)'
    BY <2>3, <2>4, <2>5, <1>9, <1>10, <1>11 DEF RankInv, Chain
  <2> QED BY <2>6, <1>1
<1>13. CASE mainStep[r] + Slots < Total
  <2> DEFINE e == Item(mainStep[r] + Slots, loaded[r].slot)
  <2>1. e \in WorkItems
    <3>1. loaded[r].slot \in SlotSet
      BY <1>2, ConstantFacts DEF TypeInv, MainInv
    <3>2. mainStep[r] + Slots \in Steps
      BY <1>13, <1>6, PipelineAssumption DEF Steps, TypeInv, MainInv
    <3> QED BY <3>1, <3>2 DEF Item, WorkItems
  <2>2. Work(r)' = Append(Work(r), e)
    <3>1. NextItems(r) = <<e>>
      BY <1>13 DEF NextItems
    <3> QED BY <3>1, <2>1, <1>3, <1>5
  <2>3. e.step = mainStep[r] + Slots /\ e.slot = SlotOf(e.step)
    <3>1. loaded[r].slot = SlotOf(mainStep[r])
      BY <1>2, <1>4 DEF EndChain
    <3>2. SlotOf(mainStep[r] + Slots) = SlotOf(mainStep[r])
      BY <1>6, SlotOfNext
    <3> QED BY <3>1, <3>2 DEF Item
  <2> HIDE DEF e
  <2>4. /\ Len(Work(r)') = Len(Work(r)) + 1
        /\ \A i \in 1 .. Len(Work(r)) + 1 :
             Work(r)'[i] = IF i <= Len(Work(r)) THEN Work(r)[i] ELSE e
    BY <2>1, <2>2, <1>5, Push
  <2>5. Submitted(r) = mainStep[r] + Slots /\ Submitted(r)' = Submitted(r) + 1
    BY <1>2, <1>6, <1>13, PipelineAssumption DEF Submitted
  <2>6. Taken(r) + Len(Ready(r)) + Held(r) + Len(Work(r)) = Submitted(r)
    BY <1>2, <1>4 DEF FullChain
  <2>7. WorkChain(r)'
    <3> SUFFICES ASSUME NEW i \in 1 .. Len(Work(r)) + 1, Work(r)'[i] # StopItem
                 PROVE  /\ Work(r)'[i].step = Taken(r) + Len(Ready(r)) + Held(r) + i - 1
                        /\ Work(r)'[i].slot = SlotOf(Work(r)'[i].step)
      BY <2>4, <1>2, <1>8 DEF WorkChain
    <3>1. CASE i <= Len(Work(r))
      BY <3>1, <2>4, <1>4, <1>7 DEF WorkChain
    <3>2. CASE i = Len(Work(r)) + 1
      <4>1. Work(r)'[i] = e
        BY <3>2, <2>4, <1>7
      <4>2. Taken(r) + Len(Ready(r)) + Held(r) + i - 1 = Submitted(r)
        BY <3>2, <2>6, <1>6, <1>7
      <4> QED BY <4>1, <4>2, <2>3, <2>5
    <3> QED BY <3>1, <3>2, <1>7
  <2>8. StopLast(r)'
    <3> SUFFICES ASSUME NEW i \in 1 .. Len(Work(r)) + 1 PROVE Work(r)'[i] # StopItem
      BY <2>4 DEF StopLast
    <3>1. CASE i <= Len(Work(r))
      BY <3>1, <2>4, <1>2, <1>4, <1>7 DEF StopLast
    <3>2. CASE i = Len(Work(r)) + 1
      BY <3>2, <2>1, <2>4, <1>7, ConstantFacts
    <3> QED BY <3>1, <3>2, <1>7
  <2>9. FullChain(r)'
    <3>1. \A a, b, c, d, t \in Nat : a + b + c + d = t => a + b + c + (d + 1) = t + 1
      OBVIOUS
    <3>2. Taken(r) + Len(Ready(r)) + Held(r) + (Len(Work(r)) + 1) = Submitted(r) + 1
      BY <3>1, <2>6, <1>6, <1>7
    <3> QED BY <3>2, <2>4, <2>5, <1>2, <1>8 DEF FullChain
  <2>10. RankInv(r)'
    BY <2>7, <2>8, <2>9, <1>9, <1>10, <1>11 DEF RankInv, Chain
  <2> QED BY <2>10, <1>1
<1> QED BY <1>12, <1>13

\* The sentinel goes behind all the work.
LEMMA MainStopRank ==
  ASSUME TypeInv, NEW r \in Ranks, MainStop(r)
  PROVE  (\A q \in Ranks \ {r} : SameRank(q)) /\ (RankInv(r) => RankInv(r)')
<1>1. ASSUME NEW q \in Ranks \ {r} PROVE SameRank(q)
  <2>1. Work(q)' = Work(q)
    BY SubmitWork DEF MainStop
  <2> QED BY <2>1 DEF MainStop, SameRank, Held, Ready, TypeInv, MainInv, MainType
<1> SUFFICES ASSUME RankInv(r) PROVE RankInv(r)'
  BY <1>1
<1>2. /\ mainPc[r] = "stop" /\ mainPc'[r] = "done" /\ mainStep' = mainStep
      /\ collectives' = collectives /\ future' = future /\ loaded' = loaded
      /\ Held(r)' = Held(r) /\ Ready(r)' = Ready(r)
  BY DEF MainStop, Held, Ready, TypeInv, MainInv, MainType
<1>3. Work(r) \in Seq(WorkItems \cup {StopItem})
  BY RankTypes
<1>4. Work(r)' = Append(Work(r), StopItem)
  <2>1. Work(r)' = Work(r) \o <<StopItem>>
    BY SubmitWork DEF MainStop
  <2> QED BY <2>1, <1>3
<1>5. WorkChain(r) /\ StopLast(r) /\ ReadyChain(r) /\ EndChain(r)
  BY DEF RankInv, Chain
<1>6. /\ Len(Work(r)) \in Nat /\ Len(Work(r)') = Len(Work(r)) + 1
      /\ \A i \in 1 .. Len(Work(r)) + 1 :
           Work(r)'[i] = IF i <= Len(Work(r)) THEN Work(r)[i] ELSE StopItem
  <2>1. StopItem \in WorkItems \cup {StopItem}
    OBVIOUS
  <2> QED BY <2>1, <1>3, <1>4, Push
<1>7. Taken(r)' = Taken(r) /\ (Resolved(r)' <=> Resolved(r))
  BY <1>2 DEF Taken, Resolved
<1>8. WorkChain(r)'
  <2> SUFFICES ASSUME NEW i \in 1 .. Len(Work(r)) + 1, Work(r)'[i] # StopItem
               PROVE  /\ Work(r)'[i].step = Taken(r) + Len(Ready(r)) + Held(r) + i - 1
                      /\ Work(r)'[i].slot = SlotOf(Work(r)'[i].step)
    BY <1>2, <1>6, <1>7 DEF WorkChain
  <2> QED BY <1>5, <1>6 DEF WorkChain
<1>9. StopLast(r)'
  <2> SUFFICES ASSUME NEW i \in 1 .. Len(Work(r)) + 1, i <= Len(Work(r))
               PROVE  Work(r)'[i] # StopItem
    BY <1>2, <1>6 DEF StopLast
  <2> QED BY <1>2, <1>5, <1>6 DEF StopLast
<1>10. ReadyChain(r)'
  BY <1>2, <1>5, <1>7 DEF ReadyChain
<1>11. EndChain(r)'
  BY <1>2, <1>5, <1>7 DEF EndChain
<1>12. Count(r)' /\ FullChain(r)'
  BY <1>2 DEF Count, FullChain
<1>13. RankInv(r)'
  BY <1>8, <1>9, <1>10, <1>11, <1>12 DEF RankInv, Chain
<1> QED BY <1>1, <1>13

\* Every step keeps the invariant of a rank; rank 0 must not lose a step to an
\* exception of the teacher.
LEMMA RankStep ==
  ASSUME TypeInv, TypeInv', [Next]_vars, NEW q \in Ranks, RankInv(q),
         q = 0 => HandPos /\ AssignedInv /\ (WriterGet => Head(resQueue) # Error)
  PROVE  RankInv(q)'
<1>1. CASE SameRank(q)
  BY <1>1, RankFrame
<1>2. CASE WriterGet \/ WriterBuffer
  BY <1>1, <1>2, WriterGetRank, WriterBufferRank
<1>3. CASE WriterStop \/ \E r \in Ranks : LoaderStop(r) \/ LoaderPut(r)
  BY <1>1, <1>3, StopRank, LoaderPutRank
<1>4. ASSUME NEW r \in Ranks, FutureRun(r) PROVE RankInv(q)'
  BY <1>1, <1>4, FutureRunRank
<1>5. ASSUME NEW r \in Ranks,
             MainBegin(r) \/ MainRaise(r) \/ MainTrain(r) \/ MainStepEnd(r) \/ Killed(r)
      PROVE  RankInv(q)'
  BY <1>1, <1>5, MainOnlyRank
<1>6. ASSUME NEW r \in Ranks, MainFetch(r) \/ MainPrime(r) PROVE RankInv(q)'
  BY <1>1, <1>6, MainFetchRank, MainPrimeRank
<1>7. ASSUME NEW r \in Ranks, MainRelease(r) \/ MainStop(r) PROVE RankInv(q)'
  BY <1>1, <1>7, MainReleaseRank, MainStopRank
<1>8. CASE \/ PrefetchInfer \/ PrefetchPut \/ PrefetchStop
           \/ WriterClaim \/ WriterTimeout \/ WriterFail \/ WriterPublish
           \/ \E r \in Ranks : LoaderOpen(r) \/ LoaderCopy(r) \/ LoaderFail(r) \/ LoaderTimeout(r)
           \/ UNCHANGED vars
  BY <1>1, <1>8, NoRankStep
<1> QED BY <1>2, <1>3, <1>4, <1>5, <1>6, <1>7, <1>8
   DEF Next, Prefetcher, Writer, Loader, Main, Terminated

-----------------------------------------------------------------------------
(* The writer's hand, the reuse of slots and the exceptions *)

\* Collectives never decrease.
LEMMA CollectivesGrow ==
  ASSUME TypeInv, [Next]_vars
  PROVE  \A q \in Ranks : collectives'[q] >= collectives[q]
<1>1. collectives' = collectives \/ \E r \in Ranks : Arrive(r)
  BY DEF Next, Prefetcher, PrefetchInfer, PrefetchPut, PrefetchStop, Writer, WriterGet,
     WriterBuffer, WriterClaim, WriterTimeout, WriterFail, WriterPublish, WriterStop, Loader,
     LoaderOpen, LoaderCopy, LoaderTimeout, LoaderFail, LoaderPut, LoaderStop, Main, MainBegin,
     MainPrime, MainFetch, MainRaise, MainRelease, MainTrain, MainStepEnd, MainStop,
     FutureRun, Killed, LauncherKill, GroupTimeout, Terminated, vars, mainVars
<1>2. collectives \in [Ranks -> Nat]
  BY DEF TypeInv, MainInv, MainType
<1> QED BY <1>1, <1>2 DEF Arrive

\* Without teacher failures no exception enters the result queue.
LEMMA NoErrorStep ==
  ASSUME ~TeacherMayFail, TypeInv, NoErrorInv, [Next]_vars PROVE NoErrorInv'
<1>1. CASE PrefetchInfer
  BY <1>1, ConstantFacts DEF PrefetchInfer, NoErrorInv, TypeInv, PrefetchInv, PrefetchType
<1>2. CASE PrefetchPut
  BY <1>2 DEF PrefetchPut, NoErrorInv, TypeInv, PrefetchInv, PrefetchType
<1>3. CASE WriterGet
  <2>1. resQueue \in Seq(Steps \cup {Error}) /\ resQueue # <<>> /\ resQueue' = Tail(resQueue)
    BY <1>3 DEF WriterGet, TypeInv, PrefetchInv, PrefetchType
  <2>2. \A i \in 1 .. Len(resQueue') : resQueue'[i] = resQueue[i + 1] /\ i + 1 \in 1 .. Len(resQueue)
    BY <2>1, Pop
  <2> QED BY <1>3, <2>2 DEF WriterGet, NoErrorInv
<1>4. CASE UNCHANGED <<resQueue, prefetched>> /\ (prefetchPc' = prefetchPc \/ prefetchPc' = "stopped")
  BY <1>4 DEF NoErrorInv
<1>5. \/ PrefetchInfer \/ PrefetchPut \/ WriterGet
      \/ UNCHANGED <<resQueue, prefetched>> /\ (prefetchPc' = prefetchPc \/ prefetchPc' = "stopped")
  BY DEF Next, Prefetcher, PrefetchStop, Writer,
     WriterBuffer, WriterClaim, WriterTimeout, WriterFail, WriterPublish, WriterStop, Loader,
     LoaderOpen, LoaderCopy, LoaderTimeout, LoaderFail, LoaderPut, LoaderStop, Main, MainBegin,
     MainPrime, MainFetch, MainRaise, MainRelease, MainTrain, MainStepEnd, MainStop,
     FutureRun, Killed, LauncherKill, GroupTimeout, Terminated, vars, prefetchVars
<1> QED BY <1>1, <1>2, <1>3, <1>4, <1>5

\* What the writer holds is the next step of rank 0's chain, with its slot.
LEMMA HandPosStep ==
  ASSUME TypeInv, TypeInv', RankInv(0), HandPos, [Next]_vars PROVE HandPos'
<1>1. CASE WriterGet
  <2>1. /\ Work(0) # <<>> /\ Work(0)[1] = writerItem' /\ writerItem' # StopItem
        /\ 1 \in 1 .. Len(Work(0)) /\ Held(0) = 0 /\ Taken(0)' = Taken(0)
        /\ rank0Buffer' = rank0Buffer /\ Ready(0) = rank0Buffer
    <3>1. Work(0) \in Seq(WorkItems \cup {StopItem}) /\ Work(0) # <<>> /\ writerItem' = Head(Work(0))
      BY <1>1, RankTypes, ConstantFacts DEF WriterGet, Work
    <3>2. Work(0)[1] = writerItem' /\ 1 \in 1 .. Len(Work(0))
      BY <3>1, Pop
    <3> QED BY <1>1, <3>1, <3>2 DEF WriterGet, Work, Held, Taken, Resolved, Ready, mainVars
  <2>2. Taken(0) \in Nat /\ Len(Ready(0)) \in Nat
    BY RankTypes, ConstantFacts
  <2>3. /\ writerItem'.step = Taken(0) + Len(Ready(0)) + Held(0) + 1 - 1
        /\ writerItem'.slot = SlotOf(writerItem'.step)
    BY <2>1, ConstantFacts DEF RankInv, Chain, WorkChain
  <2>4. writerItem'.step = Taken(0) + Len(Ready(0))
    BY <2>1, <2>2, <2>3
  <2> QED BY <2>1, <2>3, <2>4 DEF HandPos
<1>2. CASE WriterBuffer \/ WriterClaim \/ WriterTimeout \/ WriterFail \/ WriterPublish \/ WriterStop
  BY <1>2 DEF WriterBuffer, WriterClaim, WriterTimeout, WriterFail, WriterPublish, WriterStop,
     HandPos
<1>3. CASE FutureRun(0)
  <2>1. /\ rank0Buffer \in Seq(Results) /\ rank0Buffer # <<>> /\ rank0Buffer' = Tail(rank0Buffer)
        /\ Taken(0) \in Nat
    BY <1>3, RankTypes, ConstantFacts DEF FutureRun, TypeInv, WriterInv, WriterType
  <2>2. Len(rank0Buffer) \in Nat /\ Len(rank0Buffer') = Len(rank0Buffer) - 1
    BY <2>1, Pop
  <2>3. Taken(0)' = Taken(0) + 1
    <3>1. ~Resolved(0) /\ Resolved(0)'
      <4>1. Head(rank0Buffer) \in Results
        BY <2>1, Pop
      <4> QED BY <1>3, <4>1, ConstantFacts DEF FutureRun, Resolved, TypeInv, MainInv, MainType
    <3>2. collectives[0] \div 2 \in Nat /\ collectives' = collectives
      BY <1>3, RankTypes, ConstantFacts DEF FutureRun
    <3> QED BY <3>1, <3>2, PipelineAssumption DEF Taken
  <2>4. Taken(0)' + Len(rank0Buffer') = Taken(0) + Len(rank0Buffer)
    <3>1. Taken(0) \in Nat
      BY <2>1
    <3> QED BY <2>2, <2>3, <3>1
  <2> QED BY <1>3, <2>4 DEF HandPos, FutureRun
<1>4. ASSUME NEW r \in Ranks, MainFetch(r) PROVE HandPos'
  <2>1. Taken(0)' = Taken(0)
    <3>1. CASE r # 0
      BY <3>1, <1>4, ConstantFacts DEF MainFetch, Arrive, Taken, Resolved, TypeInv, MainInv,
         MainType
    <3>2. CASE r = 0
      <4>1. /\ mainPc[0] = "fetch" /\ Resolved(0) /\ future'[0] = NoBatch
            /\ collectives'[0] = collectives[0] + 1
        BY <3>2, <1>4 DEF MainFetch, Arrive, Resolved, TypeInv, MainInv, MainType
      <4>2. collectives[0] = 1 + 2 * (mainStep[0] - Start)
        BY <4>1, ConstantFacts DEF RankInv, Count
      <4>3. mainStep[0] \in Nat /\ mainStep[0] >= Start /\ Start \in Nat /\ mainStep[0] - Start \in Nat
        <5>1. mainStep[0] \in Nat /\ mainStep[0] >= Start /\ Start \in Nat
          BY RankTypes, ConstantFacts, PipelineAssumption
        <5> QED BY <5>1
      <4>4. /\ collectives[0] \div 2 = mainStep[0] - Start
            /\ collectives'[0] \div 2 = mainStep[0] - Start + 1
        <5> DEFINE n == mainStep[0] - Start
        <5>1. n \in Nat /\ collectives[0] = 1 + 2 * n /\ collectives'[0] = (1 + 2 * n) + 1
          BY <4>1, <4>2, <4>3
        <5> HIDE DEF n
        <5>2. (1 + 2 * n) \div 2 = n /\ ((1 + 2 * n) + 1) \div 2 = n + 1
          BY <5>1
        <5> QED BY <5>1, <5>2 DEF n
      <4>5. ~Resolved(0)'
        BY <4>1 DEF Resolved
      <4> QED BY <4>1, <4>3, <4>4, <4>5 DEF Taken
    <3> QED BY <3>1, <3>2
  <2> QED BY <1>4, <2>1 DEF MainFetch, writerVars, HandPos
<1>5. ASSUME NEW r \in Ranks, MainTrain(r) PROVE HandPos'
  <2>1. collectives'[0] \div 2 = collectives[0] \div 2
    <3>1. CASE r # 0
      BY <3>1, <1>5, ConstantFacts DEF MainTrain, Arrive, TypeInv, MainInv, MainType
    <3>2. CASE r = 0
      <4>1. /\ mainPc[0] = "train" /\ collectives'[0] = collectives[0] + 1
        BY <3>2, <1>5 DEF MainTrain, Arrive, TypeInv, MainInv, MainType
      <4> DEFINE n == mainStep[0] - Start
      <4>2. collectives[0] = 2 + 2 * n
        BY <4>1, ConstantFacts DEF RankInv, Count
      <4>3. n \in Nat
        <5>1. mainStep[0] \in Nat /\ mainStep[0] >= Start /\ Start \in Nat
          BY RankTypes, ConstantFacts, PipelineAssumption
        <5> QED BY <5>1
      <4> HIDE DEF n
      <4> QED BY <4>1, <4>2, <4>3, Half
    <3> QED BY <3>1, <3>2
  <2> QED BY <1>5, <2>1 DEF MainTrain, writerVars, HandPos, Taken, Resolved
<1>6. ASSUME NEW r \in Ranks, MainBegin(r) PROVE HandPos'
  <2>1. collectives'[0] \div 2 = collectives[0] \div 2
    <3>1. collectives'[0] = collectives[0] \/ (collectives[0] = 0 /\ collectives'[0] = 1)
      BY <1>6, ConstantFacts DEF MainBegin, Arrive, RankInv, Count, TypeInv, MainInv, MainType
    <3> QED BY <3>1
  <2> QED BY <1>6, <2>1 DEF MainBegin, writerVars, HandPos, Taken, Resolved
<1>7. ASSUME NEW r \in Ranks, MainPrime(r) \/ MainRelease(r) PROVE HandPos'
  <2>1. ~Resolved(0)' <=> ~Resolved(0)
    BY <1>7, ConstantFacts DEF MainPrime, MainRelease, Resolved, RankInv, Count,
       TypeInv, MainInv, MainType
  <2> QED BY <1>7, <2>1 DEF MainPrime, MainRelease, HandPos, Taken
<1>8. CASE UNCHANGED <<writerPc, writerItem, rank0Buffer, future, collectives>>
  BY <1>8 DEF HandPos, Taken, Resolved
<1>9. ASSUME NEW r \in Ranks, r # 0, FutureRun(r) PROVE HandPos'
  BY <1>9, ConstantFacts DEF FutureRun, HandPos, Taken, Resolved, TypeInv, MainInv, MainType
<1> QED BY <1>1, <1>2, <1>3, <1>4, <1>5, <1>6, <1>7, <1>8, <1>9
   DEF Next, Prefetcher, PrefetchInfer, PrefetchPut, PrefetchStop, Writer, Loader,
     LoaderOpen, LoaderCopy, LoaderTimeout, LoaderFail, LoaderPut, LoaderStop, Main,
     MainRaise, MainStepEnd, MainStop, Killed, LauncherKill, GroupTimeout, Terminated, vars, writerVars, mainVars

\* Rank 0 has cleared the sentinels before any rank is past the first barrier.
LEMMA BegunStep ==
  ASSUME Shared, TypeInv', [Next]_vars PROVE BegunInv'
<1>1. \A q \in Ranks : collectives'[q] >= collectives[q] /\ collectives[q] \in Nat /\ collectives'[q] \in Nat
  BY CollectivesGrow DEF Shared, TypeInv, MainInv, MainType
<1>2. CASE collectives[0] > 0
  BY <1>1, <1>2, ConstantFacts DEF BegunInv
<1>3. CASE ~(collectives[0] > 0)
  <2>1. \A r \in Ranks : mainPc[r] \notin {"fetch", "release", "train", "reduce", "stop"}
    BY <1>3 DEF Shared, BegunInv
  <2>2. \A r \in Ranks : loaderWork[r] = <<>>
    BY <1>3 DEF Shared, BegunInv
  <2>3. ASSUME NEW r \in Ranks PROVE ~MainPrime(r)
    <3> SUFFICES ASSUME MainPrime(r) PROVE FALSE
      OBVIOUS
    <3>1. collectives[r] = 1 /\ collectives[0] >= collectives[r]
      BY ConstantFacts DEF MainPrime, Complete, Shared, Count
    <3>2. collectives[0] \in Nat
      BY <1>1, ConstantFacts
    <3> QED BY <3>1, <3>2, <1>3
  <2>4. UNCHANGED <<mainPc, loaderWork>> \/ \E r \in Ranks : MainBegin(r) \/ Killed(r)
    <3>1. ASSUME NEW r \in Ranks
          PROVE  ~MainFetch(r) /\ ~MainRaise(r) /\ ~MainRelease(r) /\ ~MainTrain(r)
                 /\ ~MainStepEnd(r) /\ ~MainStop(r)
      BY <2>1 DEF MainFetch, MainRaise, MainRelease, MainTrain, MainStepEnd, MainStop
    <3>2. ASSUME NEW r \in Ranks PROVE ~LoaderPut(r) /\ ~LoaderStop(r)
      BY <2>2 DEF LoaderPut, LoaderStop, Shared, TypeInv, LoaderInv
    <3> QED BY <2>3, <3>1, <3>2 DEF Next, Prefetcher, PrefetchInfer, PrefetchPut, PrefetchStop,
       Writer, WriterGet, WriterBuffer, WriterClaim, WriterTimeout, WriterFail, WriterPublish, WriterStop,
       Loader, LoaderOpen, LoaderCopy, LoaderTimeout, LoaderFail, Main, FutureRun, Terminated,
       vars, loaderVars, mainVars
  <2>5. CASE UNCHANGED <<mainPc, loaderWork>>
    BY <2>1, <2>2, <2>5 DEF BegunInv
  <2>6. ASSUME NEW r \in Ranks, MainBegin(r) \/ Killed(r) PROVE BegunInv'
    <3>1. /\ loaderWork' = loaderWork
          /\ \A q \in Ranks : mainPc'[q] = mainPc[q] \/ mainPc'[q] \in {"prime", "failed"}
      BY <2>6 DEF MainBegin, Killed, LauncherKill, GroupTimeout, loaderVars, Shared, TypeInv, MainInv, MainType
    <3> QED BY <3>1, <2>1, <2>2 DEF BegunInv
  <2> QED BY <2>4, <2>5, <2>6
<1> QED BY <1>2, <1>3

-----------------------------------------------------------------------------
(* The work of the writer *)

\* How a step changes the queue of the writer.
LEMMA WorkEffect ==
  ASSUME TypeInv, Count(0), [Next]_vars
  PROVE  \/ writerWork' = writerWork
         \/ writerWork # <<>> /\ writerWork' = Tail(writerWork) /\ (WriterGet \/ WriterStop)
         \/ MainPrime(0) /\ writerWork = <<>> /\ writerWork' = PrimeItems
         \/ /\ MainRelease(0) /\ mainStep[0] + Slots < Total
            /\ Item(mainStep[0] + Slots, loaded[0].slot) \in WorkItems
            /\ writerWork' = Append(writerWork, Item(mainStep[0] + Slots, loaded[0].slot))
         \/ MainStop(0) /\ writerWork' = Append(writerWork, StopItem)
<1>1. writerWork \in Seq(WorkItems \cup {StopItem})
  BY DEF TypeInv, WriterInv, WriterType
<1>2. CASE MainPrime(0)
  <2>1. writerWork = <<>>
    BY <1>2, ConstantFacts DEF MainPrime, Count, Work
  <2>2. writerWork' = writerWork \o PrimeItems
    BY <1>2 DEF MainPrime, Submit
  <2> QED BY <1>2, <2>1, <2>2, PrimeType, ConcatEmptySeq
<1>3. CASE MainRelease(0)
  <2>1. writerWork' = writerWork \o NextItems(0)
    BY <1>3 DEF MainRelease, Submit
  <2>2. CASE ~(mainStep[0] + Slots < Total)
    <3>1. NextItems(0) = <<>>
      BY <2>2 DEF NextItems
    <3> QED BY <3>1, <2>1, <1>1, ConcatEmptySeq
  <2>3. CASE mainStep[0] + Slots < Total
    <3> DEFINE e == Item(mainStep[0] + Slots, loaded[0].slot)
    <3>1. mainStep[0] \in Nat /\ mainStep[0] >= Start
      BY RankTypes, ConstantFacts
    <3>2. e \in WorkItems
      <4>1. loaded[0].slot \in SlotSet
        BY <1>3, ConstantFacts DEF MainRelease, TypeInv, MainInv
      <4>2. mainStep[0] + Slots \in Steps
        BY <2>3, <3>1, PipelineAssumption DEF Steps
      <4> QED BY <4>1, <4>2 DEF Item, WorkItems
    <3>3. writerWork' = Append(writerWork, e)
      <4>1. NextItems(0) = <<e>>
        BY <2>3 DEF NextItems
      <4> QED BY <4>1, <2>1, <3>2, <1>1
    <3> QED BY <1>3, <2>3, <3>2, <3>3
  <2> QED BY <2>2, <2>3
<1>4. CASE MainStop(0)
  <2>1. writerWork' = writerWork \o <<StopItem>>
    BY <1>4 DEF MainStop, Submit
  <2> QED BY <2>1, <1>1, <1>4
<1>5. \/ writerWork' = writerWork
      \/ writerWork # <<>> /\ writerWork' = Tail(writerWork) /\ (WriterGet \/ WriterStop)
      \/ MainPrime(0) \/ MainRelease(0) \/ MainStop(0)
  <2>1. ASSUME NEW r \in Ranks, r # 0, MainPrime(r) \/ MainRelease(r) \/ MainStop(r)
        PROVE  writerWork' = writerWork
    BY <2>1 DEF MainPrime, MainRelease, MainStop, Submit
  <2> QED BY <2>1 DEF Next, Prefetcher, PrefetchInfer, PrefetchPut, PrefetchStop, Writer, WriterGet,
     WriterBuffer, WriterClaim, WriterTimeout, WriterFail, WriterPublish, WriterStop, Loader,
     LoaderOpen, LoaderCopy, LoaderTimeout, LoaderFail, LoaderPut, LoaderStop, Main, MainBegin,
     MainFetch, MainRaise, MainTrain, MainStepEnd,
     FutureRun, Killed, LauncherKill, GroupTimeout, Terminated, vars, writerVars
<1> QED BY <1>2, <1>3, <1>4, <1>5

\* How a step changes the writer's hand.
LEMMA HandEffect ==
  ASSUME [Next]_vars
  PROVE  WriterGet \/ (writerItem' = writerItem /\ writerData' = writerData /\ (Busy' => Busy))
BY DEF Next, Prefetcher, PrefetchInfer, PrefetchPut, PrefetchStop, Writer,
   WriterBuffer, WriterClaim, WriterTimeout, WriterFail, WriterPublish, WriterStop, Loader,
   LoaderOpen, LoaderCopy, LoaderTimeout, LoaderFail, LoaderPut, LoaderStop, Main, MainBegin,
   MainPrime, MainFetch, MainRaise, MainRelease, MainTrain, MainStepEnd, MainStop,
   FutureRun, Killed, LauncherKill, GroupTimeout, Terminated, vars, writerVars, Busy

\* The steps and slots train() primes the pipeline with.
LEMMA PrimeSteps ==
  ASSUME NEW w, NEW i \in 1 .. Len(PrimeItems), w = PrimeItems[i]
  PROVE  /\ w.step = Start + i - 1 /\ w.step \in Nat /\ w.step < Total /\ w.step < Start + Slots
         /\ w.slot = SlotOf(w.step) /\ w \in WorkItems
<1> DEFINE n == IF Start + Slots <= Total THEN Slots ELSE Total - Start
<1>1. n \in Nat /\ n <= Slots /\ Start + n <= Total
  BY PipelineAssumption
<1>2. PrimeItems = [j \in 1 .. n |-> Item(Start + j - 1, SlotOf(Start + j - 1))]
  BY DEF PrimeItems, SlotOf
<1> HIDE DEF n
<1>3. i \in 1 .. n /\ w = Item(Start + i - 1, SlotOf(Start + i - 1))
  BY <1>1, <1>2
<1>4. w.step = Start + i - 1 /\ w.slot = SlotOf(Start + i - 1)
  BY <1>3 DEF Item
<1>5. Start + i - 1 \in Nat /\ Start + i - 1 < Total /\ Start + i - 1 < Start + Slots /\ Start + i - 1 >= Start
  BY <1>1, <1>3, PipelineAssumption
<1>6. w \in WorkItems
  <2>1. SlotOf(Start + i - 1) \in SlotSet
    BY <1>5, DivMod
  <2>2. Start + i - 1 \in Steps
    BY <1>5, PipelineAssumption DEF Steps
  <2> QED BY <2>1, <2>2, <1>3 DEF Item, WorkItems
<1> QED BY <1>4, <1>5, <1>6

\* An item is new to the writer only when train() primes the pipeline or submits
\* the step that reuses a slot.
LEMMA AssignedStep ==
  ASSUME TypeInv, TypeInv', Count(0), [Next]_vars, NEW w \in Assigned'
  PROVE  /\ w \in WorkItems
         /\ \/ w \in Assigned
            \/ /\ MainPrime(0) /\ w.slot = SlotOf(w.step)
               /\ w.step >= Start /\ w.step < Start + Slots /\ w.step < Total
            \/ /\ MainRelease(0) /\ mainStep[0] + Slots < Total
               /\ w = Item(mainStep[0] + Slots, loaded[0].slot)
<1>1. w \in WorkItems
  BY DEF Assigned, Queued, Busy, TypeInv, WriterInv
<1>2. writerWork \in Seq(WorkItems \cup {StopItem}) /\ Len(writerWork) \in Nat
  BY DEF TypeInv, WriterInv, WriterType
<1>3. CASE Busy' /\ w = writerItem'
  <2>1. CASE WriterGet
    <3>1. writerWork # <<>> /\ w = Head(writerWork)
      BY <2>1, <1>3 DEF WriterGet
    <3>2. 1 \in 1 .. Len(writerWork) /\ writerWork[1] = w
      BY <3>1, <1>2, Pop
    <3> QED BY <1>1, <3>2 DEF Assigned, Queued
  <2>2. CASE writerItem' = writerItem /\ (Busy' => Busy)
    BY <1>1, <1>3, <2>2 DEF Assigned
  <2> QED BY <2>1, <2>2, HandEffect
<1>4. CASE w \in Queued'
  <2>1. PICK i \in 1 .. Len(writerWork') : writerWork'[i] = w
    BY <1>4 DEF Queued
  <2>2. CASE writerWork' = writerWork
    BY <1>1, <2>1, <2>2 DEF Assigned, Queued
  <2>3. CASE writerWork # <<>> /\ writerWork' = Tail(writerWork)
    <3>1. writerWork'[i] = writerWork[i + 1] /\ i + 1 \in 1 .. Len(writerWork)
      BY <2>1, <2>3, <1>2, Pop
    <3> QED BY <3>1, <1>1, <2>1 DEF Assigned, Queued
  <2>4. CASE MainPrime(0) /\ writerWork' = PrimeItems
    <3>1. w.step = Start + i - 1 /\ w.step \in Nat /\ w.step < Total /\ w.step < Start + Slots /\ w.slot = SlotOf(w.step)
      BY <2>1, <2>4, PrimeSteps
    <3>2. Start + i - 1 >= Start
      BY PipelineAssumption
    <3> QED BY <1>1, <2>4, <3>1, <3>2
  <2>5. ASSUME NEW x \in WorkItems \cup {StopItem}, writerWork' = Append(writerWork, x)
        PROVE  w \in Assigned \/ w = x
    <3>1. /\ Len(writerWork') = Len(writerWork) + 1
          /\ \A j \in 1 .. Len(writerWork) + 1 :
               writerWork'[j] = IF j <= Len(writerWork) THEN writerWork[j] ELSE x
      BY <2>5, <1>2, Push
    <3>2. CASE i <= Len(writerWork)
      BY <3>1, <3>2, <1>1, <1>2, <2>1 DEF Assigned, Queued
    <3>3. CASE ~(i <= Len(writerWork))
      BY <3>1, <3>3, <2>1
    <3> QED BY <3>2, <3>3
  <2> QED BY <1>1, <2>2, <2>3, <2>4, <2>5, WorkEffect, ConstantFacts
<1> QED BY <1>3, <1>4 DEF Assigned

\* The items of the writer have the slots of their steps and may reuse them.
LEMMA AssignedInvStep ==
  ASSUME Shared, TypeInv', [Next]_vars,
         MainRelease(0) => loaded[0].slot = SlotOf(mainStep[0])
  PROVE  AssignedInv'
<1> SUFFICES ASSUME NEW w \in Assigned'
             PROVE  w.slot = SlotOf(w.step) /\ ReusableNext(w.step)
  BY DEF AssignedInv, Reusable, ReusableNext
<1>1. TypeInv /\ Count(0)
  BY ConstantFacts DEF Shared
<1>2. w \in WorkItems /\ w.step \in Nat
  BY <1>1, AssignedStep, ConstantFacts
<1>3. CASE w \in Assigned
  <2>1. w.slot = SlotOf(w.step) /\ Reusable(w.step)
    BY <1>3 DEF Shared, AssignedInv
  <2> QED BY <2>1, <1>1, <1>2, CollectivesGrow, ReusableGrows
<1>4. CASE w.slot = SlotOf(w.step) /\ w.step < Start + Slots
  <2> SUFFICES ASSUME NEW q \in Ranks PROVE w.step < Start + Slots + collectives'[q] \div 2
    BY <1>4 DEF ReusableNext
  <2>1. collectives'[q] \in Nat
    BY DEF TypeInv, MainInv, MainType
  <2>2. collectives'[q] \div 2 \in Nat
    BY <2>1
  <2> QED BY <2>2, <1>2, <1>4, PipelineAssumption
<1>5. CASE MainRelease(0) /\ w = Item(mainStep[0] + Slots, loaded[0].slot)
  <2>1. mainPc[0] = "release" /\ collectives' = collectives /\ Complete(0)
    BY <1>5 DEF MainRelease
  <2>2. mainStep[0] \in Nat /\ mainStep[0] >= Start /\ Start \in Nat /\ Slots \in Nat
    BY <1>1, RankTypes, ConstantFacts, PipelineAssumption
  <2>3. w.step = mainStep[0] + Slots /\ w.slot = SlotOf(w.step)
    BY <1>5, <2>2, SlotOfNext DEF Item
  <2>4. ASSUME NEW q \in Ranks PROVE mainStep[0] + Slots < Start + Slots + collectives'[q] \div 2
    <3> DEFINE n == mainStep[0] - Start
    <3>1. n \in Nat /\ mainStep[0] = Start + n
      BY <2>2
    <3>2. collectives[q] >= 2 + 2 * n /\ collectives[q] \in Nat
      BY <1>1, <2>1 DEF Count, Complete, TypeInv, MainInv, MainType
    <3> HIDE DEF n
    <3>3. collectives[q] \div 2 >= n + 1 /\ collectives[q] \div 2 \in Nat
      BY <3>1, <3>2
    <3>4. \A a, b, c, d \in Nat : d >= c + 1 => (a + c) + b < a + b + d
      OBVIOUS
    <3> QED BY <3>1, <3>3, <3>4, <2>1, <2>2
  <2> QED BY <2>3, <2>4 DEF ReusableNext
<1> QED BY <1>1, <1>3, <1>4, <1>5, AssignedStep

\* The writer changes the files of a slot, and rank 0 deletes the sentinels it finds.
LEMMA FileEffect ==
  ASSUME [Next]_vars
  PROVE  UNCHANGED fileVars \/ WriterPublish \/ WriterClaim \/ (MainBegin(0) /\ slotData' = slotData)
BY DEF Next, Prefetcher, PrefetchInfer, PrefetchPut, PrefetchStop, Writer, WriterGet,
   WriterBuffer, WriterTimeout, WriterFail, WriterStop, Loader,
   LoaderOpen, LoaderCopy, LoaderTimeout, LoaderFail, LoaderPut, LoaderStop, Main, MainBegin, ClearReady,
   MainPrime, MainFetch, MainRaise, MainRelease, MainTrain, MainStepEnd, MainStop,
   FutureRun, Killed, LauncherKill, GroupTimeout, Terminated, vars, fileVars

\* What the files published say of their slots.
LEMMA FileReuseStep ==
  ASSUME Shared, TypeInv', [Next]_vars PROVE FileReuse'
<1>0. ASSUME NEW s \in Nat, Reusable(s) PROVE ReusableNext(s)
  BY <1>0, CollectivesGrow, ReusableGrows DEF Shared
<1> SUFFICES ASSUME collectives'[0] > 0, NEW k \in SlotSet, readyFile'[k] # Stop
             PROVE  ReusableNext(readyFile'[k]) /\ k = SlotOf(readyFile'[k])
  BY DEF FileReuse, Reusable, ReusableNext
<1>1. readyFile \in [SlotSet -> Steps \cup {Stop}] /\ collectives[0] \in Nat
  BY ConstantFacts DEF Shared, TypeInv, FileType, MainInv, MainType
<1>2. CASE readyFile'[k] = readyFile[k] /\ collectives[0] > 0
  <2>1. Reusable(readyFile[k]) /\ k = SlotOf(readyFile[k])
    BY <1>2 DEF Shared, FileReuse
  <2>2. readyFile[k] \in Nat
    BY <1>1, <1>2, ConstantFacts
  <2> QED BY <1>2, <2>1, <2>2, <1>0
<1>3. CASE WriterPublish /\ k = writerItem.slot
  <2>1. /\ readyFile'[k] = writerItem.step /\ writerItem.step \in Nat
        /\ writerItem.slot = SlotOf(writerItem.step)
    BY <1>1, <1>3, ConstantFacts
       DEF WriterPublish, Shared, AssignedInv, Assigned, Busy, TypeInv, WriterInv
  <2>2. Reusable(writerItem.step)
    BY <1>3 DEF WriterPublish, Shared, AssignedInv, Assigned, Busy
  <2> QED BY <1>3, <2>1, <2>2, <1>0
<1>4. CASE MainBegin(0)
  BY <1>4 DEF MainBegin, ClearReady
<1>5. CASE WriterClaim /\ k = writerItem.slot
  BY <1>1, <1>5 DEF WriterClaim
<1>6. CASE readyFile'[k] = readyFile[k] /\ ~(collectives[0] > 0)
  <2>1. PICK r \in Ranks : MainBegin(r) \/ MainFetch(r) \/ MainTrain(r)
    BY <1>6 DEF Next, Prefetcher, PrefetchInfer, PrefetchPut, PrefetchStop, Writer, WriterGet,
     WriterBuffer, WriterClaim, WriterTimeout, WriterFail, WriterPublish, WriterStop, Loader,
     LoaderOpen, LoaderCopy, LoaderTimeout, LoaderFail, LoaderPut, LoaderStop, Main,
     MainPrime, MainRaise, MainRelease, MainStepEnd, MainStop,
     FutureRun, Killed, LauncherKill, GroupTimeout, Terminated, vars, mainVars
  <2>2. mainPc[r] \notin {"fetch", "train"}
    BY <1>6 DEF Shared, BegunInv
  <2>3. MainBegin(r)
    BY <2>1, <2>2 DEF MainFetch, MainTrain
  <2>4. r = 0
    BY <1>6, <2>3, ConstantFacts DEF MainBegin, Arrive, Shared, TypeInv, MainInv, MainType
  <2> QED BY <1>4, <2>3, <2>4
<1>7. \/ readyFile'[k] = readyFile[k]
      \/ (WriterPublish \/ WriterClaim) /\ k = writerItem.slot
      \/ MainBegin(0)
  BY <1>1, FileEffect DEF WriterPublish, WriterClaim, fileVars
<1> QED BY <1>2, <1>3, <1>4, <1>5, <1>6, <1>7

-----------------------------------------------------------------------------
(* The order in which the steps pass the writer *)

\* The first step train() of rank 0 has not submitted.
Frontier == IF mainPc[0] \in {"begin", "prime"} THEN Start ELSE Submitted(0)

\* The writer is done with step s: published, given up or dropped.
Passed(s) == (\A w \in Assigned : s < w.step) /\ (Alive(0) => s < Frontier)

\* The writer gets its steps in order.
OrderInv ==
  /\ Alive(0) => \A w \in Assigned : w.step < Frontier
  /\ Busy => \A w \in Queued : writerItem.step < w.step
  /\ \A i, j \in 1 .. Len(writerWork) :
       i < j /\ writerWork[i] # StopItem /\ writerWork[j] # StopItem =>
         writerWork[i].step < writerWork[j].step

\* Nothing moves on rank 0 before train() has primed its pipeline.
IdleInv ==
  mainPc[0] \in {"begin", "prime"} =>
    /\ writerPc = "get" /\ prefetchPc = "get"
    /\ reqQueue = <<>> /\ resQueue = <<>>

\* Results of teacher inference that wait for the writer.
Inferred == Len(resQueue) + (IF prefetchPc = "put" THEN 1 ELSE 0)

\* The prefetcher and the writer go through the same steps: the next result in
\* the prefetcher's queue belongs to the next item in the writer's.
Aligned ==
  /\ Inferred + Len(reqQueue) <= Len(writerWork)
  /\ prefetchPc # "stopped" => Inferred + Len(reqQueue) = Len(writerWork)
  /\ prefetchPc = "stopped" => mainPc[0] \in {"done", "failed"} /\ reqQueue = <<>>
  /\ \A i \in 1 .. Inferred : writerWork[i] # StopItem
  /\ \A i \in 1 .. Len(resQueue) : resQueue[i] \in {Error, writerWork[i].step}
  /\ prefetchPc = "put" => prefetched \in {Error, writerWork[Inferred].step}
  /\ \A i \in 1 .. Len(reqQueue) : reqQueue[i] = writerWork[Inferred + i].step

AlignInv ==
  /\ Busy => writerData = writerItem.step
  /\ writerPc # "stopped" => Aligned

\* The frontier only moves forward, past what is submitted.
LEMMA FrontierStep ==
  ASSUME TypeInv, TypeInv', Count(0), [Next]_vars, Alive(0)'
  PROVE  /\ Alive(0) /\ Frontier \in Nat /\ Frontier' \in Nat /\ Frontier <= Frontier'
         /\ MainPrime(0) => Frontier = Start /\ \A s \in Nat : s < Start + Slots /\ s < Total => s < Frontier'
         /\ MainRelease(0) /\ mainStep[0] + Slots < Total =>
              Frontier = mainStep[0] + Slots /\ mainStep[0] + Slots < Frontier'
<1>1. /\ mainStep[0] \in Nat /\ mainStep[0] >= Start /\ mainStep'[0] \in Nat /\ mainStep'[0] >= Start
      /\ Submitted(0) \in Nat /\ Submitted(0)' \in Nat
      /\ Start \in Nat /\ Slots \in Nat /\ Total \in Nat /\ Start <= Total /\ 0 \in Ranks
  <2>1. /\ mainStep[0] \in Nat /\ mainStep[0] >= Start /\ mainStep'[0] \in Nat /\ mainStep'[0] >= Start
        /\ Start \in Nat /\ Slots \in Nat /\ Total \in Nat /\ Start <= Total /\ 0 \in Ranks
    BY ConstantFacts, PipelineAssumption DEF TypeInv, MainInv, MainType
  <2> QED BY <2>1 DEF Submitted
<1>2. \/ mainPc'[0] = mainPc[0] /\ mainStep'[0] = mainStep[0]
      \/ MainBegin(0) \/ MainPrime(0) \/ MainFetch(0) \/ MainRelease(0) \/ MainTrain(0)
      \/ MainStepEnd(0) \/ MainStop(0)
  <2>1. ASSUME NEW r \in Ranks, r # 0, Main(r) PROVE mainPc'[0] = mainPc[0] /\ mainStep'[0] = mainStep[0]
    BY <2>1, <1>1 DEF Main, MainBegin, MainPrime, MainFetch, MainRaise, MainRelease, MainTrain,
       MainStepEnd,
       MainStop, TypeInv, MainInv, MainType
  <2>2. ~MainRaise(0) /\ ~Killed(0)
    BY <1>1 DEF MainRaise, Killed, LauncherKill, GroupTimeout, Alive, TypeInv, MainInv, MainType
  <2>3. ASSUME NEW r \in Ranks, r # 0, Killed(r) PROVE mainPc'[0] = mainPc[0] /\ mainStep'[0] = mainStep[0]
    BY <2>3, <1>1 DEF Killed, LauncherKill, GroupTimeout, TypeInv, MainInv, MainType
  <2> QED BY <2>1, <2>2, <2>3 DEF Next, Prefetcher, PrefetchInfer, PrefetchPut, PrefetchStop, Writer, WriterGet,
     WriterBuffer, WriterClaim, WriterTimeout, WriterFail, WriterPublish, WriterStop, Loader,
     LoaderOpen, LoaderCopy, LoaderTimeout, LoaderFail, LoaderPut, LoaderStop, Main,
     FutureRun, Terminated, vars, mainVars
<1>3. CASE mainPc'[0] = mainPc[0] /\ mainStep'[0] = mainStep[0]
  <2>1. Frontier' = Frontier /\ Frontier \in Nat /\ Alive(0)
    BY <1>1, <1>3 DEF Frontier, Submitted, Alive
  <2>2. ~MainPrime(0) /\ ~MainRelease(0)
    BY <1>1, <1>3 DEF MainPrime, MainRelease, TypeInv, MainInv, MainType
  <2> QED BY <2>1, <2>2
<1>4. CASE MainBegin(0)
  BY <1>1, <1>4 DEF MainBegin, MainPrime, MainRelease, Frontier, Alive, TypeInv, MainInv,
     MainType
<1>5. CASE MainPrime(0)
  <2>1. /\ mainPc[0] = "prime" /\ mainPc'[0] = "fetch" /\ mainStep[0] = Start /\ mainStep'[0] = Start
    BY <1>1, <1>5 DEF MainPrime, Count, TypeInv, MainInv, MainType
  <2>2. Frontier = Start /\ Frontier' = IF Start + Slots <= Total THEN Start + Slots ELSE Total
    BY <2>1, <1>1 DEF Frontier, Submitted
  <2> QED BY <2>1, <2>2, <1>1 DEF Alive, MainRelease
<1>6. CASE MainFetch(0) \/ MainTrain(0) \/ MainStop(0)
  <2>1. /\ mainStep' = mainStep
        /\ \/ mainPc[0] = "fetch" /\ mainPc'[0] = "release"
           \/ mainPc[0] = "train" /\ mainPc'[0] = "reduce"
           \/ mainPc[0] = "stop" /\ mainPc'[0] = "done"
    BY <1>1, <1>6 DEF MainFetch, MainTrain, MainStop, TypeInv, MainInv, MainType
  <2>2. Frontier' = Frontier /\ Frontier \in Nat
    BY <2>1, <1>1 DEF Frontier, Submitted
  <2> QED BY <2>1, <2>2 DEF Alive, MainPrime, MainRelease
<1>7. CASE MainRelease(0)
  <2>1. mainPc[0] = "release" /\ mainPc'[0] = "train" /\ mainStep' = mainStep
    BY <1>1, <1>7 DEF MainRelease, TypeInv, MainInv, MainType
  <2>2. /\ Frontier = IF mainStep[0] + Slots <= Total THEN mainStep[0] + Slots ELSE Total
        /\ Frontier' = IF mainStep[0] + Slots + 1 <= Total THEN mainStep[0] + Slots + 1 ELSE Total
    BY <2>1, <1>1 DEF Frontier, Submitted
  <2> QED BY <2>1, <2>2, <1>1 DEF Alive, MainPrime
<1>8. CASE MainStepEnd(0)
  <2>1. mainPc[0] = "reduce" /\ mainPc'[0] \in {"fetch", "stop"} /\ mainStep'[0] = mainStep[0] + 1
    BY <1>1, <1>8 DEF MainStepEnd, TypeInv, MainInv, MainType
  <2>2. /\ Frontier = IF mainStep[0] + Slots + 1 <= Total THEN mainStep[0] + Slots + 1 ELSE Total
        /\ Frontier' = IF mainStep[0] + 1 + Slots <= Total THEN mainStep[0] + 1 + Slots ELSE Total
    BY <2>1, <1>1 DEF Frontier, Submitted
  <2>3. Frontier' = Frontier /\ Frontier \in Nat
    BY <2>2, <1>1
  <2> QED BY <2>1, <2>3 DEF Alive, MainPrime, MainRelease
<1> QED BY <1>2, <1>3, <1>4, <1>5, <1>6, <1>7, <1>8

\* A rank that is alive after a step was alive before it.
LEMMA AliveStep ==
  ASSUME TypeInv, [Next]_vars, NEW r \in Ranks PROVE Alive(r)' => Alive(r)
BY DEF Next, Prefetcher, PrefetchInfer, PrefetchPut, PrefetchStop, Writer, WriterGet,
   WriterBuffer, WriterClaim, WriterTimeout, WriterFail, WriterPublish, WriterStop, Loader,
   LoaderOpen, LoaderCopy, LoaderTimeout, LoaderFail, LoaderPut, LoaderStop, Main, MainBegin,
   MainPrime, MainFetch, MainRaise, MainRelease, MainTrain, MainStepEnd, MainStop,
   FutureRun, Killed, LauncherKill, GroupTimeout, Terminated, vars, mainVars, Alive, TypeInv, MainInv, MainType

\* What has passed the writer never comes back to it.
LEMMA PassedStep ==
  ASSUME TypeInv, TypeInv', Count(0), [Next]_vars, NEW s \in Int, Passed(s)
  PROVE  Passed(s)'
<1>1. ASSUME NEW w \in Assigned' PROVE s < w.step
  <2>0. w \in WorkItems /\ w.step \in Nat
    BY AssignedStep, ConstantFacts
  <2>1. CASE w \in Assigned
    BY <2>1 DEF Passed
  <2>2. CASE MainPrime(0) /\ w.step >= Start
    <3>1. Alive(0) /\ Frontier = Start
      BY <2>2 DEF MainPrime, Alive, Frontier
    <3> QED BY <2>0, <2>2, <3>1, PipelineAssumption DEF Passed
  <2>3. CASE MainRelease(0) /\ mainStep[0] + Slots < Total /\ w = Item(mainStep[0] + Slots, loaded[0].slot)
    <3>1. Alive(0) /\ mainStep[0] \in Nat /\ mainPc[0] = "release"
      BY <2>3, RankTypes, ConstantFacts DEF MainRelease, Alive
    <3>2. Frontier = mainStep[0] + Slots
      BY <2>3, <3>1, PipelineAssumption DEF Frontier, Submitted
    <3> QED BY <2>3, <3>1, <3>2 DEF Passed, Item
  <2> QED BY <2>1, <2>2, <2>3, AssignedStep
<1>2. ASSUME Alive(0)' PROVE s < Frontier'
  BY <1>2, FrontierStep DEF Passed
<1> QED BY <1>1, <1>2 DEF Passed

-----------------------------------------------------------------------------
\* A step the writer publishes, fails to publish or gives up has passed it.
LEMMA HandPassed ==
  ASSUME TypeInv, TypeInv', OrderInv, WriterPublish \/ WriterFail \/ WriterTimeout
  PROVE  Passed(writerItem.step)'
<1>1. /\ Busy /\ ~Busy' /\ writerWork' = writerWork /\ mainPc' = mainPc /\ mainStep' = mainStep
      /\ Alive(0) /\ writerItem' = writerItem
  BY DEF WriterPublish, WriterFail, WriterTimeout, Busy, mainVars
<1>2. Assigned' = Queued /\ writerItem \in Assigned
  BY <1>1 DEF Assigned, Queued
<1>3. Frontier' = Frontier
  BY <1>1 DEF Frontier, Submitted
<1> QED BY <1>1, <1>2, <1>3 DEF Passed, OrderInv

\* A step the writer drops has passed it.
LEMMA DropPassed ==
  ASSUME TypeInv, OrderInv, WriterGet, Head(resQueue) = Error
  PROVE  /\ Head(writerWork) \in Assigned /\ Head(writerWork) \in WorkItems
         /\ \A s \in Int : s = Head(writerWork).step => Passed(s)'
<1>1. /\ writerWork \in Seq(WorkItems \cup {StopItem}) /\ writerWork # <<>>
      /\ Head(writerWork) # StopItem /\ writerWork' = Tail(writerWork)
      /\ mainPc' = mainPc /\ mainStep' = mainStep /\ Alive(0) /\ ~Busy'
  BY DEF WriterGet, TypeInv, WriterInv, WriterType, mainVars, Busy
<1>2. /\ 1 \in 1 .. Len(writerWork) /\ Head(writerWork) = writerWork[1]
      /\ Head(writerWork) \in WorkItems /\ Len(writerWork) \in Nat
      /\ \A i \in 1 .. Len(writerWork') : writerWork'[i] = writerWork[i + 1] /\ i + 1 \in 1 .. Len(writerWork)
  BY <1>1, Pop
<1>3. Head(writerWork) \in Assigned
  BY <1>2 DEF Assigned, Queued
<1>4. Frontier' = Frontier
  BY <1>1 DEF Frontier, Submitted
<1>5. ASSUME NEW w \in Assigned' PROVE Head(writerWork).step < w.step
  <2>1. PICK i \in 1 .. Len(writerWork') : writerWork'[i] = w
    BY <1>1 DEF Assigned, Queued
  <2>2. w = writerWork[i + 1] /\ i + 1 \in 1 .. Len(writerWork) /\ 1 < i + 1
    BY <2>1, <1>2
  <2>3. w # StopItem
    BY <1>5, <1>1, ConstantFacts DEF Assigned, Queued
  <2> QED BY <2>2, <2>3, <1>1, <1>2 DEF OrderInv
<1>6. Head(writerWork).step < Frontier
  BY <1>1, <1>3 DEF OrderInv
<1> QED BY <1>2, <1>3, <1>4, <1>5, <1>6 DEF Passed

\* The order is kept: new steps are at the frontier.
LEMMA OrderStep ==
  ASSUME TypeInv, TypeInv', Count(0), IdleInv, OrderInv, [Next]_vars PROVE OrderInv'
<1>1. writerWork \in Seq(WorkItems \cup {StopItem}) /\ Len(writerWork) \in Nat
  BY DEF TypeInv, WriterInv, WriterType
<1>2. ASSUME Alive(0)', NEW w \in Assigned' PROVE w.step < Frontier'
  <2>0. w \in WorkItems /\ w.step \in Nat
    BY <1>2, AssignedStep, ConstantFacts
  <2>1. Frontier \in Nat /\ Frontier' \in Nat /\ Frontier <= Frontier' /\ Alive(0)
    BY <1>2, FrontierStep
  <2>2. CASE w \in Assigned
    BY <2>0, <2>1, <2>2 DEF OrderInv
  <2>3. CASE MainPrime(0) /\ w.step < Start + Slots /\ w.step < Total
    BY <1>2, <2>0, <2>3, FrontierStep
  <2>4. CASE MainRelease(0) /\ mainStep[0] + Slots < Total /\ w = Item(mainStep[0] + Slots, loaded[0].slot)
    BY <1>2, <2>4, FrontierStep DEF Item
  <2> QED BY <1>2, <2>2, <2>3, <2>4, AssignedStep
<1>3. ASSUME NEW w \in Queued, NEW v \in WorkItems,
             MainRelease(0) /\ mainStep[0] + Slots < Total /\ v = Item(mainStep[0] + Slots, loaded[0].slot)
      PROVE  w.step < v.step
  <2>1. Alive(0) /\ mainStep[0] \in Nat /\ mainPc[0] = "release"
    BY <1>3, RankTypes, ConstantFacts DEF MainRelease, Alive
  <2>2. Frontier = mainStep[0] + Slots
    BY <1>3, <2>1, PipelineAssumption DEF Frontier, Submitted
  <2> QED BY <1>3, <2>1, <2>2 DEF OrderInv, Item, Assigned
<1>4. ASSUME NEW i \in 1 .. Len(writerWork'), NEW j \in 1 .. Len(writerWork'), i < j,
             writerWork'[i] # StopItem, writerWork'[j] # StopItem
      PROVE  writerWork'[i].step < writerWork'[j].step
  <2>1. CASE writerWork' = writerWork
    BY <1>4, <2>1 DEF OrderInv
  <2>2. CASE writerWork # <<>> /\ writerWork' = Tail(writerWork)
    <3>1. /\ writerWork'[i] = writerWork[i + 1] /\ i + 1 \in 1 .. Len(writerWork)
          /\ writerWork'[j] = writerWork[j + 1] /\ j + 1 \in 1 .. Len(writerWork)
      BY <1>4, <2>2, <1>1, Pop
    <3>2. i + 1 < j + 1
      BY <1>4
    <3> QED BY <3>1, <3>2, <1>4 DEF OrderInv
  <2>3. CASE MainPrime(0) /\ writerWork' = PrimeItems
    <3>1. writerWork'[i].step = Start + i - 1 /\ writerWork'[j].step = Start + j - 1
      BY <1>4, <2>3, PrimeSteps
    <3> QED BY <3>1, <1>4, PipelineAssumption
  <2>4. ASSUME NEW x \in WorkItems \cup {StopItem}, writerWork' = Append(writerWork, x),
               x # StopItem => \A w \in Queued : w.step < x.step
        PROVE  writerWork'[i].step < writerWork'[j].step
    <3>1. /\ Len(writerWork') = Len(writerWork) + 1
          /\ \A k \in 1 .. Len(writerWork) + 1 :
               writerWork'[k] = IF k <= Len(writerWork) THEN writerWork[k] ELSE x
      BY <2>4, <1>1, Push
    <3>2. CASE j <= Len(writerWork)
      BY <3>1, <3>2, <1>1, <1>4 DEF OrderInv
    <3>3. CASE ~(j <= Len(writerWork))
      <4>1. writerWork'[j] = x /\ i \in 1 .. Len(writerWork) /\ writerWork'[i] = writerWork[i]
        BY <3>1, <3>3, <1>1, <1>4
      <4>2. writerWork[i] \in Queued
        BY <4>1, <1>1, <1>4 DEF Queued
      <4> QED BY <4>1, <4>2, <2>4, <1>4
    <3> QED BY <3>2, <3>3
  <2> QED BY <2>1, <2>2, <2>3, <2>4, <1>3, WorkEffect
<1>5. ASSUME Busy', NEW w \in Queued' PROVE writerItem'.step < w.step
  <2>0. PICK i \in 1 .. Len(writerWork') : writerWork'[i] = w
    BY <1>5 DEF Queued
  <2>1. CASE WriterGet
    <3>1. /\ writerWork # <<>> /\ writerItem' = Head(writerWork) /\ writerWork' = Tail(writerWork)
          /\ Head(writerWork) # StopItem
      BY <2>1 DEF WriterGet
    <3>2. /\ 1 \in 1 .. Len(writerWork) /\ writerItem' = writerWork[1]
          /\ w = writerWork[i + 1] /\ i + 1 \in 1 .. Len(writerWork) /\ 1 < i + 1
      BY <3>1, <2>0, <1>1, Pop
    <3>3. w # StopItem
      BY <1>5, ConstantFacts DEF Queued
    <3> QED BY <3>1, <3>2, <3>3 DEF OrderInv
  <2>2. CASE writerItem' = writerItem /\ Busy
    <3>1. ~WriterGet /\ ~WriterStop /\ ~MainPrime(0)
      BY <2>2 DEF WriterGet, WriterStop, Busy, IdleInv, MainPrime
    <3>2. CASE writerWork' = writerWork
      BY <3>2, <2>2, <1>5 DEF OrderInv, Queued
    <3>3. ASSUME NEW x \in WorkItems \cup {StopItem}, writerWork' = Append(writerWork, x)
          PROVE  w \in Queued \/ w = x
      <4>1. /\ Len(writerWork') = Len(writerWork) + 1
            /\ \A k \in 1 .. Len(writerWork) + 1 :
                 writerWork'[k] = IF k <= Len(writerWork) THEN writerWork[k] ELSE x
        BY <3>3, <1>1, Push
      <4>2. CASE i <= Len(writerWork)
        BY <4>1, <4>2, <1>1, <2>0, <1>5 DEF Queued
      <4>3. CASE ~(i <= Len(writerWork))
        BY <4>1, <4>3, <2>0
      <4> QED BY <4>2, <4>3
    <3>4. CASE w \in Queued
      BY <3>4, <2>2 DEF OrderInv
    <3>5. CASE MainRelease(0) /\ mainStep[0] + Slots < Total /\ w = Item(mainStep[0] + Slots, loaded[0].slot)
      <4>1. Alive(0) /\ mainStep[0] \in Nat /\ mainPc[0] = "release"
        BY <3>5, RankTypes, ConstantFacts DEF MainRelease, Alive
      <4>2. Frontier = mainStep[0] + Slots
        BY <3>5, <4>1, PipelineAssumption DEF Frontier, Submitted
      <4> QED BY <3>5, <4>1, <4>2, <2>2 DEF OrderInv, Assigned, Item
    <3>6. w # StopItem
      BY <1>5, ConstantFacts DEF Queued
    <3> QED BY <3>1, <3>2, <3>3, <3>4, <3>5, <3>6, WorkEffect
  <2> QED BY <2>1, <2>2, <1>5, HandEffect
<1> QED BY <1>2, <1>4, <1>5 DEF OrderInv

\* Before the first submission rank 0's threads have nothing to do.
LEMMA IdleStep ==
  ASSUME TypeInv, Count(0), IdleInv, [Next]_vars PROVE IdleInv'
<1> SUFFICES ASSUME mainPc'[0] \in {"begin", "prime"}
             PROVE  writerPc' = "get" /\ prefetchPc' = "get" /\ reqQueue' = <<>> /\ resQueue' = <<>>
  BY DEF IdleInv
<1>1. mainPc[0] \in {"begin", "prime"} /\ ~MainPrime(0) /\ ~MainRelease(0) /\ ~MainStop(0)
  BY ConstantFacts DEF Next, Prefetcher, PrefetchInfer, PrefetchPut, PrefetchStop, Writer,
     WriterGet,
     WriterBuffer, WriterClaim, WriterTimeout, WriterFail, WriterPublish, WriterStop, Loader,
     LoaderOpen, LoaderCopy, LoaderTimeout, LoaderFail, LoaderPut, LoaderStop, Main, MainBegin,
     MainPrime, MainFetch, MainRaise, MainRelease, MainTrain, MainStepEnd, MainStop,
     FutureRun, Killed, LauncherKill, GroupTimeout, Terminated, vars, mainVars, TypeInv, MainInv, MainType
<1>2. /\ writerPc = "get" /\ prefetchPc = "get" /\ reqQueue = <<>> /\ resQueue = <<>>
      /\ writerWork = <<>>
  BY <1>1 DEF IdleInv, Count, Work
<1>3. ASSUME NEW r \in Ranks, r # 0, MainPrime(r) \/ MainRelease(r) \/ MainStop(r)
      PROVE  UNCHANGED <<writerPc, prefetchPc, reqQueue, resQueue>>
  BY <1>3 DEF MainPrime, MainRelease, MainStop, Submit
<1> QED BY <1>1, <1>2, <1>3
   DEF Next, Prefetcher, PrefetchInfer, PrefetchPut, PrefetchStop, Writer, WriterGet,
     WriterBuffer, WriterClaim, WriterTimeout, WriterFail, WriterPublish, WriterStop, Loader,
     LoaderOpen, LoaderCopy, LoaderTimeout, LoaderFail, LoaderPut, LoaderStop, Main, MainBegin,
     MainFetch, MainRaise, MainTrain, MainStepEnd,
     FutureRun, Killed, LauncherKill, GroupTimeout, Terminated, vars, prefetchVars, writerVars

-----------------------------------------------------------------------------
(* The results of inference meet their steps *)

\* The queues between train(), the prefetcher and the writer have their types.
LEMMA AlignTypes ==
  ASSUME TypeInv
  PROVE  /\ reqQueue \in Seq(Steps \cup {Stop}) /\ Len(reqQueue) \in Nat
         /\ resQueue \in Seq(Steps \cup {Error}) /\ Len(resQueue) \in Nat
         /\ writerWork \in Seq(WorkItems \cup {StopItem}) /\ Len(writerWork) \in Nat
         /\ Inferred \in Nat /\ Len(resQueue) <= Inferred
         /\ Inferred = Len(resQueue) + (IF prefetchPc = "put" THEN 1 ELSE 0)
BY DEF TypeInv, PrefetchInv, PrefetchType, WriterInv, WriterType, Inferred

\* Inference moves a step from the request queue to the prefetcher's hand.
LEMMA AlignInfer ==
  ASSUME TypeInv, Aligned, PrefetchInfer PROVE Aligned'
<1> USE AlignTypes
<1>1. /\ prefetchPc = "get" /\ prefetchPc' = "put" /\ resQueue' = resQueue /\ writerWork' = writerWork
      /\ reqQueue # <<>> /\ reqQueue' = Tail(reqQueue)
      /\ prefetched' \in {Error, Head(reqQueue)} /\ Head(reqQueue) # Stop
  BY DEF PrefetchInfer, writerVars
<1>2. /\ Len(reqQueue) >= 1 /\ Head(reqQueue) = reqQueue[1] /\ 1 \in 1 .. Len(reqQueue)
      /\ Len(reqQueue') = Len(reqQueue) - 1
      /\ \A i \in 1 .. Len(reqQueue') : reqQueue'[i] = reqQueue[i + 1] /\ i + 1 \in 1 .. Len(reqQueue)
  BY <1>1, Pop
<1>3. Inferred = Len(resQueue) /\ Inferred' = Inferred + 1
  BY <1>1 DEF Inferred
<1>4. Inferred + Len(reqQueue) = Len(writerWork)
  BY <1>1 DEF Aligned
<1>5. Head(reqQueue) = writerWork[Inferred + 1].step
  BY <1>2 DEF Aligned
<1>6. writerWork[Inferred + 1] # StopItem
  BY <1>1, <1>5 DEF StopItem, Item
<1>7. Inferred' + Len(reqQueue') = Len(writerWork')
  BY <1>1, <1>2, <1>3, <1>4
<1>8. \A i \in 1 .. Inferred' : writerWork'[i] # StopItem
  <2> SUFFICES ASSUME NEW i \in 1 .. Inferred' PROVE writerWork[i] # StopItem
    BY <1>1
  <2>1. i \in 1 .. Inferred \/ i = Inferred + 1
    BY <1>3
  <2> QED BY <2>1, <1>6 DEF Aligned
<1>9. ASSUME NEW i \in 1 .. Len(reqQueue') PROVE reqQueue'[i] = writerWork'[Inferred' + i].step
  <2>1. reqQueue'[i] = writerWork[Inferred + (i + 1)].step
    BY <1>2 DEF Aligned
  <2>2. Inferred + (i + 1) = Inferred' + i
    BY <1>2, <1>3
  <2> QED BY <1>1, <2>1, <2>2
<1>10. prefetched' \in {Error, writerWork'[Inferred'].step}
  BY <1>1, <1>3, <1>5
<1>11. \A i \in 1 .. Len(resQueue') : resQueue'[i] \in {Error, writerWork'[i].step}
  BY <1>1 DEF Aligned
<1> QED BY <1>1, <1>2, <1>3, <1>4, <1>7, <1>8, <1>9, <1>10, <1>11 DEF Aligned

\* Putting a result moves it from the prefetcher's hand to its queue.
LEMMA AlignPut ==
  ASSUME TypeInv, TypeInv', Aligned, PrefetchPut PROVE Aligned'
<1> USE AlignTypes
<1>1. /\ prefetchPc = "put" /\ prefetchPc' = "get" /\ reqQueue' = reqQueue /\ writerWork' = writerWork
      /\ resQueue' = Append(resQueue, prefetched)
  BY DEF PrefetchPut, writerVars
<1>2. prefetched \in Steps \cup {Error}
  BY <1>1 DEF TypeInv, PrefetchInv, PrefetchType
<1>3. /\ Len(resQueue') = Len(resQueue) + 1
      /\ \A i \in 1 .. Len(resQueue) + 1 :
           resQueue'[i] = IF i <= Len(resQueue) THEN resQueue[i] ELSE prefetched
  BY <1>1, <1>2, Push
<1>4. Inferred = Len(resQueue) + 1 /\ Inferred' = Inferred
  BY <1>1, <1>3 DEF Inferred
<1>5. ASSUME NEW i \in 1 .. Len(resQueue') PROVE resQueue'[i] \in {Error, writerWork'[i].step}
  <2>1. CASE i <= Len(resQueue)
    <3>1. resQueue'[i] = resQueue[i] /\ i \in 1 .. Len(resQueue)
      BY <2>1, <1>3
    <3> QED BY <3>1, <1>1 DEF Aligned
  <2>2. CASE ~(i <= Len(resQueue))
    <3>1. resQueue'[i] = prefetched /\ i = Inferred
      BY <2>2, <1>3, <1>4
    <3> QED BY <3>1, <1>1 DEF Aligned
  <2> QED BY <2>1, <2>2
<1> QED BY <1>1, <1>4, <1>5 DEF Aligned

\* The sentinel is the last request.
LEMMA AlignStop ==
  ASSUME TypeInv, Aligned, StopLast(0), PrefetchStop PROVE Aligned'
<1> USE AlignTypes, ConstantFacts
<1>1. /\ prefetchPc = "get" /\ prefetchPc' = "stopped" /\ resQueue' = resQueue /\ writerWork' = writerWork
      /\ reqQueue # <<>> /\ reqQueue' = Tail(reqQueue) /\ Head(reqQueue) = Stop /\ mainPc' = mainPc
  BY DEF PrefetchStop, writerVars, mainVars
<1>2. /\ Len(reqQueue) >= 1 /\ Head(reqQueue) = reqQueue[1] /\ 1 \in 1 .. Len(reqQueue)
      /\ Len(reqQueue') = Len(reqQueue) - 1 /\ reqQueue' \in Seq(Steps \cup {Stop})
  BY <1>1, Pop
<1>3. Inferred = Len(resQueue) /\ Inferred' = Inferred
  BY <1>1 DEF Inferred
<1>4. Inferred + Len(reqQueue) = Len(writerWork)
  BY <1>1 DEF Aligned
<1>5. writerWork[Inferred + 1].step = Stop
  BY <1>1, <1>2 DEF Aligned
<1>6. Inferred + 1 \in 1 .. Len(writerWork)
  BY <1>2, <1>4
<1>7. writerWork[Inferred + 1] = StopItem
  <2>1. writerWork[Inferred + 1] \in WorkItems \cup {StopItem}
    BY <1>6
  <2>2. Stop \notin Steps
    BY PipelineAssumption
  <2> QED BY <2>1, <2>2, <1>5
<1>8. Inferred + 1 = Len(writerWork) /\ mainPc[0] \in {"done", "failed"}
  BY <1>6, <1>7 DEF StopLast, Work
<1>9. Len(reqQueue') = 0 /\ Inferred' + Len(reqQueue') <= Len(writerWork')
  BY <1>1, <1>2, <1>3, <1>4, <1>8
<1>10. reqQueue' = <<>>
  BY <1>2, <1>9, EmptySeq
<1>11. \A i \in 1 .. Inferred' : writerWork'[i] # StopItem
  BY <1>1, <1>3 DEF Aligned
<1>12. \A i \in 1 .. Len(resQueue') : resQueue'[i] \in {Error, writerWork'[i].step}
  BY <1>1 DEF Aligned
<1> QED BY <1>1, <1>8, <1>9, <1>10, <1>11, <1>12 DEF Aligned

\* The writer takes an item and the result that belongs to it.
LEMMA AlignGet ==
  ASSUME TypeInv, Aligned, WriterGet
  PROVE  Aligned' /\ (Head(resQueue) # Error => Head(resQueue) = Head(writerWork).step)
<1> USE AlignTypes
<1>1. /\ writerWork # <<>> /\ writerWork' = Tail(writerWork)
      /\ resQueue # <<>> /\ resQueue' = Tail(resQueue)
      /\ UNCHANGED <<reqQueue, prefetchPc, prefetched, mainPc>>
  BY DEF WriterGet, mainVars
<1>2. /\ Len(writerWork) >= 1 /\ Head(writerWork) = writerWork[1]
      /\ Len(writerWork') = Len(writerWork) - 1
      /\ \A i \in 1 .. Len(writerWork') : writerWork'[i] = writerWork[i + 1] /\ i + 1 \in 1 .. Len(writerWork)
  BY <1>1, Pop
<1>3. /\ Len(resQueue) >= 1 /\ Head(resQueue) = resQueue[1] /\ 1 \in 1 .. Len(resQueue)
      /\ Len(resQueue') = Len(resQueue) - 1
      /\ \A i \in 1 .. Len(resQueue') : resQueue'[i] = resQueue[i + 1] /\ i + 1 \in 1 .. Len(resQueue)
  BY <1>1, Pop
<1>4. Inferred' = Inferred - 1 /\ Inferred >= 1 /\ Inferred' \in Nat
  BY <1>1, <1>3 DEF Inferred
<1>5. Inferred + Len(reqQueue) <= Len(writerWork)
  BY DEF Aligned
<1>6. ASSUME NEW i \in Nat, i >= 1, i <= Inferred' + Len(reqQueue)
      PROVE  i \in 1 .. Len(writerWork') /\ writerWork'[i] = writerWork[i + 1] /\ i + 1 \in 1 .. Len(writerWork)
  BY <1>2, <1>4, <1>5, <1>6
<1>7. ASSUME NEW i \in 1 .. Inferred' PROVE writerWork'[i] # StopItem
  <2>1. i \in Nat /\ i >= 1 /\ i <= Inferred' + Len(reqQueue) /\ i + 1 \in 1 .. Inferred
    BY <1>4
  <2> QED BY <2>1, <1>6 DEF Aligned
<1>8. ASSUME NEW i \in 1 .. Len(resQueue') PROVE resQueue'[i] \in {Error, writerWork'[i].step}
  <2>1. i \in Nat /\ i >= 1 /\ i <= Inferred' + Len(reqQueue)
    BY <1>3, <1>4
  <2>2. writerWork'[i] = writerWork[i + 1] /\ resQueue'[i] = resQueue[i + 1] /\ i + 1 \in 1 .. Len(resQueue)
    BY <2>1, <1>6, <1>3
  <2> QED BY <2>2 DEF Aligned
<1>9. ASSUME NEW i \in 1 .. Len(reqQueue) PROVE reqQueue[i] = writerWork'[Inferred' + i].step
  <2>1. Inferred' + i \in Nat /\ Inferred' + i >= 1 /\ Inferred' + i <= Inferred' + Len(reqQueue)
    BY <1>4
  <2>2. writerWork'[Inferred' + i] = writerWork[(Inferred' + i) + 1]
    BY <2>1, <1>6
  <2>3. (Inferred' + i) + 1 = Inferred + i
    BY <1>4
  <2> QED BY <2>2, <2>3 DEF Aligned
<1>10. ASSUME prefetchPc = "put" PROVE prefetched \in {Error, writerWork'[Inferred'].step}
  <2>1. Inferred = Len(resQueue) + 1
    BY <1>10
  <2>2. Inferred' >= 1 /\ Inferred' + 1 = Inferred /\ Inferred' <= Inferred' + Len(reqQueue)
    BY <2>1, <1>3, <1>4
  <2>3. writerWork'[Inferred'] = writerWork[Inferred]
    BY <2>2, <1>4, <1>6
  <2> QED BY <2>3, <1>10 DEF Aligned
<1>11. /\ Inferred' + Len(reqQueue') <= Len(writerWork')
       /\ Inferred + Len(reqQueue) = Len(writerWork) => Inferred' + Len(reqQueue') = Len(writerWork')
  <2>1. \A a, b, c \in Int : /\ a + b <= c => (a - 1) + b <= c - 1
                             /\ a + b = c => (a - 1) + b = c - 1
    OBVIOUS
  <2>2. Len(reqQueue') = Len(reqQueue) /\ Inferred \in Int /\ Len(reqQueue) \in Int /\ Len(writerWork) \in Int
    BY <1>1
  <2> QED BY <2>1, <2>2, <1>2, <1>4, <1>5
<1>12. Head(resQueue) \in {Error, Head(writerWork).step}
  BY <1>2, <1>3 DEF Aligned
<1>13. Aligned'
  BY <1>1, <1>7, <1>8, <1>9, <1>10, <1>11 DEF Aligned
<1> QED BY <1>12, <1>13

\* train() asks for a step and submits it.
LEMMA AlignSubmit ==
  ASSUME TypeInv, Aligned, NEW x \in WorkItems \cup {StopItem},
         reqQueue' = Append(reqQueue, x.step), writerWork' = Append(writerWork, x),
         UNCHANGED <<resQueue, prefetchPc, prefetched>>, prefetchPc # "stopped"
  PROVE  Aligned'
<1> USE AlignTypes
<1>1. x.step \in Steps \cup {Stop}
  BY ConstantFacts DEF StopItem, Item
<1>2. /\ Len(reqQueue') = Len(reqQueue) + 1
      /\ \A i \in 1 .. Len(reqQueue) + 1 :
           reqQueue'[i] = IF i <= Len(reqQueue) THEN reqQueue[i] ELSE x.step
  BY <1>1, Push
<1>3. /\ Len(writerWork') = Len(writerWork) + 1
      /\ \A i \in 1 .. Len(writerWork) + 1 :
           writerWork'[i] = IF i <= Len(writerWork) THEN writerWork[i] ELSE x
  BY Push
<1>4. Inferred' = Inferred /\ Inferred + Len(reqQueue) = Len(writerWork)
  BY DEF Inferred, Aligned
<1>5. \A i \in 1 .. Len(writerWork) : writerWork'[i] = writerWork[i]
  BY <1>3
<1>6. \A i \in 1 .. Inferred : i \in 1 .. Len(writerWork)
  BY <1>4
<1>7. ASSUME NEW i \in 1 .. Len(reqQueue') PROVE reqQueue'[i] = writerWork'[Inferred' + i].step
  <2>1. CASE i <= Len(reqQueue)
    <3>1. i \in 1 .. Len(reqQueue) /\ reqQueue'[i] = reqQueue[i] /\ Inferred + i \in 1 .. Len(writerWork)
      BY <2>1, <1>2, <1>4
    <3> QED BY <3>1, <1>4, <1>5 DEF Aligned
  <2>2. CASE ~(i <= Len(reqQueue))
    <3>1. reqQueue'[i] = x.step /\ Inferred + i = Len(writerWork) + 1
      <4>1. i = Len(reqQueue) + 1
        BY <2>2, <1>2
      <4>2. \A a, b \in Int : a + (b + 1) = (a + b) + 1
        OBVIOUS
      <4> QED BY <4>1, <4>2, <1>2, <1>4
    <3>2. writerWork'[Len(writerWork) + 1] = x
      BY <1>3
    <3> QED BY <3>1, <3>2, <1>4
  <2> QED BY <2>1, <2>2
<1>8. \A i \in 1 .. Len(resQueue) : i \in 1 .. Len(writerWork)
  BY <1>4
<1>9. prefetchPc = "put" => Inferred \in 1 .. Len(writerWork)
  BY <1>4
<1>10. /\ \A i \in 1 .. Inferred' : writerWork'[i] # StopItem
       /\ \A i \in 1 .. Len(resQueue') : resQueue'[i] \in {Error, writerWork'[i].step}
       /\ prefetchPc' = "put" => prefetched' \in {Error, writerWork'[Inferred'].step}
  BY <1>4, <1>5, <1>6, <1>8, <1>9 DEF Aligned
<1>11. Inferred' + Len(reqQueue') = Len(writerWork')
  <2>1. \A a, b \in Int : a + (b + 1) = (a + b) + 1
    OBVIOUS
  <2>2. Inferred \in Int /\ Len(reqQueue) \in Int
    OBVIOUS
  <2>3. Inferred + (Len(reqQueue) + 1) = Len(writerWork) + 1
    BY <2>1, <2>2, <1>4
  <2> QED BY <2>3, <1>2, <1>3, <1>4
<1>12. Inferred' + Len(reqQueue') <= Len(writerWork')
  <2>1. Len(writerWork') \in Nat
    BY <1>3
  <2> QED BY <2>1, <1>11
<1> QED BY <1>7, <1>10, <1>11, <1>12 DEF Aligned

\* train() primes the pipeline: the same steps go to the prefetcher and the writer.
LEMMA AlignPrime ==
  ASSUME TypeInv, TypeInv', Count(0), IdleInv, MainPrime(0) PROVE Aligned'
<1>1. /\ mainPc[0] = "prime" /\ writerWork = <<>> /\ reqQueue = <<>> /\ resQueue = <<>> /\ prefetchPc = "get"
      /\ resQueue' = <<>> /\ prefetchPc' = "get"
  BY DEF MainPrime, Count, Work, IdleInv
<1> DEFINE n == Len(PrimeItems)
           S == [i \in 1 .. n |-> PrimeItems[i].step]
<1>2. PrimeItems \in Seq(WorkItems \cup {StopItem}) /\ n \in Nat
  BY PrimeType
<1>3. writerWork' = PrimeItems
  BY <1>1, <1>2, ConcatEmptySeq DEF MainPrime, Submit
<1>4. S \in Seq(Nat) /\ Len(S) = n
  <2>1. \A i \in 1 .. n : PrimeItems[i].step \in Nat
    BY PrimeSteps
  <2> QED BY <1>2, <2>1
<1>5. reqQueue' = S
  <2>1. reqQueue' = reqQueue \o S
    BY DEF MainPrime, Submit
  <2> QED BY <1>1, <1>4, <2>1, ConcatEmptySeq
<1>6. Inferred' = 0
  BY <1>1 DEF Inferred
<1>7. \A i \in 1 .. Len(reqQueue') : reqQueue'[i] = writerWork'[Inferred' + i].step
  BY <1>2, <1>3, <1>4, <1>5, <1>6
<1>8. Inferred' + Len(reqQueue') = Len(writerWork') /\ Len(resQueue') = 0
  BY <1>1, <1>2, <1>3, <1>4, <1>5, <1>6
<1> QED BY <1>1, <1>2, <1>3, <1>6, <1>7, <1>8 DEF Aligned

\* A process that has ended stays so.
LEMMA MainPcStep ==
  ASSUME TypeInv, [Next]_vars PROVE mainPc[0] \in {"done", "failed"} => mainPc'[0] \in {"done", "failed"}
<1> SUFFICES ASSUME mainPc[0] \in {"done", "failed"} PROVE mainPc'[0] \in {"done", "failed"}
  OBVIOUS
<1>1. mainPc' = mainPc \/ \E r \in Ranks : Main(r) \/ Killed(r)
  BY DEF Next, Prefetcher, PrefetchInfer, PrefetchPut, PrefetchStop, Writer, WriterGet,
     WriterBuffer, WriterClaim, WriterTimeout, WriterFail, WriterPublish, WriterStop, Loader,
     LoaderOpen, LoaderCopy, LoaderTimeout, LoaderFail, LoaderPut, LoaderStop,
     FutureRun, Terminated, vars, mainVars
<1>2. ASSUME NEW r \in Ranks, Main(r) \/ Killed(r) PROVE r # 0 /\ mainPc'[0] = mainPc[0]
  <2>1. mainPc \in [Ranks -> {"begin", "prime", "fetch", "release", "train",
                             "reduce", "stop", "done", "failed"}]
    BY DEF TypeInv, MainInv, MainType
  <2>2. r # 0
    BY <1>2 DEF Main, MainBegin, MainPrime, MainFetch, MainRaise, MainRelease, MainTrain,
       MainStepEnd, MainStop, Killed, LauncherKill, GroupTimeout
  <2>3. \E pc : mainPc' = [mainPc EXCEPT ![r] = pc]
    BY <1>2 DEF Main, MainBegin, MainPrime, MainFetch, MainRaise, MainRelease, MainTrain,
       MainStepEnd, MainStop, Killed, LauncherKill, GroupTimeout
  <2> QED BY <2>1, <2>2, <2>3, ConstantFacts
<1> QED BY <1>1, <1>2

\* The prefetcher and the writer stay aligned, failures of inference included.
LEMMA AlignStep ==
  ASSUME TypeInv, TypeInv', Count(0), StopLast(0), IdleInv, AlignInv, [Next]_vars PROVE AlignInv'
<1>1. ASSUME Busy' PROVE writerData' = writerItem'.step
  <2>1. CASE WriterGet
    <3>1. writerPc # "stopped" /\ Head(resQueue) # Error
      BY <1>1, <2>1 DEF WriterGet, Busy
    <3> QED BY <2>1, <3>1, AlignGet DEF AlignInv, WriterGet
  <2>2. CASE writerItem' = writerItem /\ writerData' = writerData /\ (Busy' => Busy)
    BY <1>1, <2>2 DEF AlignInv
  <2> QED BY <2>1, <2>2, HandEffect
<1> SUFFICES ASSUME writerPc' # "stopped" PROVE Aligned'
  BY <1>1 DEF AlignInv
<1>2. Aligned
  <2>1. writerPc # "stopped"
    BY DEF Next, Prefetcher, PrefetchInfer, PrefetchPut, PrefetchStop, Writer, WriterGet,
     WriterBuffer, WriterClaim, WriterTimeout, WriterFail, WriterPublish, WriterStop, Loader,
     LoaderOpen, LoaderCopy, LoaderTimeout, LoaderFail, LoaderPut, LoaderStop, Main, MainBegin,
     MainPrime, MainFetch, MainRaise, MainRelease, MainTrain, MainStepEnd, MainStop,
     FutureRun, Killed, LauncherKill, GroupTimeout, Terminated, vars, writerVars
  <2> QED BY <2>1 DEF AlignInv
<1>3. CASE PrefetchInfer \/ PrefetchPut \/ PrefetchStop \/ WriterGet \/ MainPrime(0)
  BY <1>2, <1>3, AlignInfer, AlignPut, AlignStop, AlignGet, AlignPrime
<1>4. CASE MainRelease(0)
  <2>1. /\ prefetchPc # "stopped" /\ UNCHANGED <<resQueue, prefetchPc, prefetched>>
        /\ writerWork' = writerWork \o NextItems(0)
        /\ reqQueue' = reqQueue \o [i \in 1 .. Len(NextItems(0)) |-> NextItems(0)[i].step]
    BY <1>2, <1>4 DEF MainRelease, Submit, Aligned
  <2>2. CASE ~(mainStep[0] + Slots < Total)
    <3>1. NextItems(0) = <<>>
      BY <2>2 DEF NextItems
    <3>2. writerWork' = writerWork
      BY <3>1, <2>1, AlignTypes, ConcatEmptySeq
    <3>3. reqQueue' = reqQueue
      <4>1. [i \in 1 .. Len(NextItems(0)) |-> NextItems(0)[i].step] = <<>>
        BY <3>1
      <4> QED BY <4>1, <2>1, AlignTypes, ConcatEmptySeq
    <3> QED BY <3>2, <3>3, <2>1, <1>2 DEF Aligned, Inferred
  <2>3. CASE mainStep[0] + Slots < Total
    <3> DEFINE x == Item(mainStep[0] + Slots, loaded[0].slot)
    <3>1. NextItems(0) = <<x>>
      BY <2>3 DEF NextItems
    <3>2. writerWork' = Append(writerWork, x) /\ x \in WorkItems
      <4>1. x \in WorkItems
        <5>1. mainStep[0] \in Nat /\ mainStep[0] >= Start /\ loaded[0].slot \in SlotSet
          BY <1>4, ConstantFacts DEF MainRelease, TypeInv, MainInv, MainType
        <5>2. mainStep[0] + Slots \in Steps
          BY <2>3, <5>1, PipelineAssumption DEF Steps
        <5> QED BY <5>1, <5>2 DEF Item, WorkItems
      <4> QED BY <4>1, <2>1, <3>1, AlignTypes
    <3> HIDE DEF x
    <3>3. reqQueue' = Append(reqQueue, x.step)
      <4>1. [i \in 1 .. Len(NextItems(0)) |-> NextItems(0)[i].step] = <<x.step>>
        <5>1. [i \in 1 .. Len(<<x>>) |-> <<x>>[i].step] = <<x.step>>
          OBVIOUS
        <5> QED BY <3>1, <5>1
      <4>2. x.step \in Steps
        BY <3>2, ConstantFacts
      <4>3. reqQueue' = reqQueue \o <<x.step>>
        BY <4>1, <2>1
      <4> QED BY <4>2, <4>3, AlignTypes
    <3> QED BY <3>2, <3>3, <2>1, <1>2, AlignSubmit
  <2> QED BY <2>2, <2>3
<1>5. CASE MainStop(0)
  <2>1. /\ prefetchPc # "stopped" /\ UNCHANGED <<resQueue, prefetchPc, prefetched>>
        /\ writerWork' = writerWork \o <<StopItem>>
        /\ reqQueue' = reqQueue \o [i \in 1 .. Len(<<StopItem>>) |-> <<StopItem>>[i].step]
    BY <1>2, <1>5 DEF MainStop, Submit, Aligned
  <2>2. writerWork' = Append(writerWork, StopItem)
    BY <2>1, AlignTypes
  <2>3. reqQueue' = Append(reqQueue, StopItem.step)
    <3>1. [i \in 1 .. Len(<<StopItem>>) |-> <<StopItem>>[i].step] = <<StopItem.step>>
      OBVIOUS
    <3>2. StopItem.step = Stop
      BY DEF StopItem, Item
    <3> QED BY <3>1, <3>2, <2>1, AlignTypes
  <2> QED BY <2>1, <2>2, <2>3, <1>2, AlignSubmit
<1>6. CASE /\ UNCHANGED <<reqQueue, resQueue, prefetchPc, prefetched, writerWork>>
           /\ mainPc[0] \in {"done", "failed"} => mainPc'[0] \in {"done", "failed"}
  BY <1>2, <1>6 DEF Aligned, Inferred
<1>7. \/ PrefetchInfer \/ PrefetchPut \/ PrefetchStop \/ WriterGet
      \/ MainPrime(0) \/ MainRelease(0) \/ MainStop(0)
      \/ UNCHANGED <<reqQueue, resQueue, prefetchPc, prefetched, writerWork>>
  <2>1. ASSUME NEW r \in Ranks, r # 0, MainPrime(r) \/ MainRelease(r) \/ MainStop(r)
        PROVE  UNCHANGED <<reqQueue, resQueue, prefetchPc, prefetched, writerWork>>
    BY <2>1 DEF MainPrime, MainRelease, MainStop, Submit
  <2> QED BY <2>1 DEF Next, Prefetcher, Writer,
     WriterBuffer, WriterClaim, WriterTimeout, WriterFail, WriterPublish, WriterStop, Loader,
     LoaderOpen, LoaderCopy, LoaderTimeout, LoaderFail, LoaderPut, LoaderStop, Main, MainBegin,
     MainFetch, MainRaise, MainTrain, MainStepEnd,
     FutureRun, Killed, LauncherKill, GroupTimeout, Terminated, vars, prefetchVars, writerVars
<1>8. mainPc[0] \in {"done", "failed"} => mainPc'[0] \in {"done", "failed"}
  BY MainPcStep
<1> QED BY <1>3, <1>4, <1>5, <1>6, <1>7, <1>8

-----------------------------------------------------------------------------
(* The collectives keep the ranks together *)

\* What a step leaves alone when rank r does not train, arrive or move on.
Quiet(r) ==
  /\ mainStep'[r] = mainStep[r] /\ collectives'[r] = collectives[r]
  /\ loaded'[r] = loaded[r] /\ trained'[r] = trained[r]

\* How a step changes the main thread of rank r.
LEMMA MainEffect ==
  ASSUME TypeInv, [Next]_vars, NEW r \in Ranks
  PROVE
    \/ Quiet(r) /\ mainPc'[r] \in {mainPc[r], "failed"}
    \/ /\ MainBegin(r) /\ mainPc[r] = "begin" /\ mainPc'[r] = "prime" /\ mainStep'[r] = mainStep[r]
       /\ collectives'[r] = collectives[r] + 1 /\ trained'[r] = trained[r]
    \/ MainPrime(r) /\ mainPc[r] = "prime" /\ mainPc'[r] = "fetch" /\ Complete(r) /\ Quiet(r)
    \/ /\ MainFetch(r) /\ mainPc[r] = "fetch" /\ mainPc'[r] = "release" /\ mainStep'[r] = mainStep[r]
       /\ collectives'[r] = collectives[r] + 1 /\ trained'[r] = trained[r]
       /\ loaded'[r] = future[r] /\ Resolved(r) /\ future[r].data # Error
    \/ MainRelease(r) /\ mainPc[r] = "release" /\ mainPc'[r] = "train" /\ Complete(r) /\ Quiet(r)
    \/ /\ MainTrain(r) /\ mainPc[r] = "train" /\ mainPc'[r] = "reduce" /\ mainStep'[r] = mainStep[r]
       /\ collectives'[r] = collectives[r] + 1 /\ trained'[r] = Append(trained[r], loaded[r].data)
    \/ /\ MainStepEnd(r) /\ mainPc[r] = "reduce" /\ Complete(r)
       /\ mainPc'[r] = (IF mainStep[r] + 1 < Total THEN "fetch" ELSE "stop")
       /\ mainStep'[r] = mainStep[r] + 1
       /\ collectives'[r] = collectives[r] /\ trained'[r] = trained[r]
    \/ MainStop(r) /\ mainPc[r] = "stop" /\ mainPc'[r] = "done" /\ Quiet(r)
<1>1. /\ mainPc \in [Ranks -> {"begin", "prime", "fetch", "release", "train",
                               "reduce", "stop", "done", "failed"}]
      /\ mainStep \in [Ranks -> Nat] /\ future \in [Ranks -> Results \cup {NoBatch, Pending}]
      /\ loaded \in [Ranks -> Results \cup {NoBatch}] /\ collectives \in [Ranks -> Nat]
      /\ trained \in [Ranks -> Seq(Steps \cup {Torn})]
  BY DEF TypeInv, MainInv, MainType
<1>2. ASSUME NEW q \in Ranks, q # r, Main(q) \/ Killed(q)
      PROVE  Quiet(r) /\ mainPc'[r] = mainPc[r]
  <2>1. CASE MainBegin(q) \/ MainPrime(q) \/ MainFetch(q) \/ MainRaise(q)
    BY <1>1, <1>2, <2>1 DEF Quiet, MainBegin, MainPrime, MainFetch, MainRaise, Arrive
  <2>2. CASE MainRelease(q) \/ MainTrain(q) \/ MainStepEnd(q) \/ MainStop(q) \/ Killed(q)
    BY <1>1, <1>2, <2>2 DEF Quiet, MainRelease, MainTrain, MainStepEnd, MainStop, Killed, LauncherKill, GroupTimeout,
       Arrive
  <2> QED BY <1>2, <2>1, <2>2 DEF Main
<1>3. CASE MainBegin(r) \/ MainPrime(r)
  BY <1>1, <1>3 DEF Quiet, MainBegin, MainPrime, Arrive
<1>4. CASE MainFetch(r) \/ MainRaise(r)
  BY <1>1, <1>4 DEF Quiet, MainFetch, MainRaise, Arrive, Resolved
<1>5. CASE MainRelease(r) \/ MainTrain(r)
  BY <1>1, <1>5 DEF Quiet, MainRelease, MainTrain, Arrive
<1>6. CASE MainStepEnd(r) \/ MainStop(r) \/ Killed(r)
  BY <1>1, <1>6 DEF Quiet, MainStepEnd, MainStop, Killed, LauncherKill, GroupTimeout
<1>7. CASE UNCHANGED <<mainPc, mainStep, loaded, collectives, trained>>
  BY <1>7 DEF Quiet
<1>8. \/ UNCHANGED <<mainPc, mainStep, loaded, collectives, trained>>
      \/ \E q \in Ranks : Main(q) \/ Killed(q)
  BY DEF Next, Prefetcher, PrefetchInfer, PrefetchPut, PrefetchStop, Writer, WriterGet,
     WriterBuffer, WriterClaim, WriterTimeout, WriterFail, WriterPublish, WriterStop, Loader,
     LoaderOpen, LoaderCopy, LoaderTimeout, LoaderFail, LoaderPut, LoaderStop,
     FutureRun, Terminated, vars, mainVars
<1>9. CASE Main(r) \/ Killed(r)
  BY <1>3, <1>4, <1>5, <1>6, <1>9 DEF Main
<1> QED BY <1>2, <1>7, <1>8, <1>9

\* No rank is more than one collective ahead, a rank past its barrier was waited
\* for, and a rank that has stopped has fetched every step.
BarrierInv ==
  /\ \A q, r \in Ranks : collectives[q] <= collectives[r] + 1
  /\ \A r \in Ranks : mainPc[r] \in {"fetch", "train", "stop", "done"} => Complete(r)
  /\ \A r \in Ranks : mainPc[r] \in {"stop", "done"} => Start + collectives[r] \div 2 >= Total

\* The collectives keep their ranks together.
LEMMA BarrierStep ==
  ASSUME TypeInv, TypeInv', \A r \in Ranks : Count(r), BarrierInv, [Next]_vars
  PROVE  BarrierInv'
<1>1. \A r \in Ranks : collectives[r] \in Nat /\ collectives'[r] \in Nat /\ collectives'[r] >= collectives[r]
  BY CollectivesGrow DEF TypeInv, MainInv, MainType
<1>2. ASSUME NEW r \in Ranks, collectives'[r] # collectives[r]
      PROVE  /\ collectives'[r] = collectives[r] + 1 /\ Complete(r)
             /\ mainPc'[r] \in {"prime", "release", "reduce"}
  <2>1. /\ mainPc[r] \in {"begin", "fetch", "train"} /\ mainPc'[r] \in {"prime", "release", "reduce"}
        /\ collectives'[r] = collectives[r] + 1
    BY <1>2, MainEffect DEF Quiet
  <2>2. CASE mainPc[r] = "begin"
    <3>1. collectives[r] = 0
      BY <2>2 DEF Count
    <3> QED BY <1>1, <2>1, <3>1 DEF Complete
  <2>3. CASE mainPc[r] \in {"fetch", "train"}
    BY <2>1, <2>3 DEF BarrierInv
  <2> QED BY <2>1, <2>2, <2>3
<1>3. ASSUME NEW q \in Ranks, NEW r \in Ranks PROVE collectives'[q] <= collectives'[r] + 1
  <2>1. CASE collectives'[q] = collectives[q]
    <3>1. collectives[q] <= collectives[r] + 1
      BY DEF BarrierInv
    <3> QED BY <2>1, <3>1, <1>1
  <2>2. CASE collectives'[q] # collectives[q]
    <3>1. collectives'[q] = collectives[q] + 1 /\ collectives[r] >= collectives[q]
      BY <2>2, <1>2 DEF Complete
    <3> QED BY <3>1, <1>1
  <2> QED BY <2>1, <2>2
<1>4. ASSUME NEW r \in Ranks, mainPc'[r] \in {"fetch", "train", "stop", "done"} PROVE Complete(r)'
  <2>1. collectives'[r] = collectives[r]
    BY <1>2, <1>4
  <2>2. Complete(r)
    BY <1>4, MainEffect DEF BarrierInv
  <2> QED BY <1>1, <2>1, <2>2 DEF Complete
<1>5. ASSUME NEW r \in Ranks, mainPc'[r] \in {"stop", "done"} PROVE Start + collectives'[r] \div 2 >= Total
  <2>1. CASE mainPc[r] \in {"stop", "done"} /\ collectives'[r] = collectives[r]
    BY <2>1 DEF BarrierInv
  <2>2. CASE /\ mainPc[r] = "reduce" /\ mainPc'[r] = (IF mainStep[r] + 1 < Total THEN "fetch" ELSE "stop")
             /\ collectives'[r] = collectives[r]
    <3>1. mainStep[r] \in Nat /\ mainStep[r] >= Start /\ Start \in Nat /\ Total \in Nat
      BY RankTypes, PipelineAssumption
    <3> DEFINE n == mainStep[r] - Start
    <3>2. n \in Nat /\ mainStep[r] = Start + n
      BY <3>1
    <3>3. collectives'[r] = 3 + 2 * n
      BY <2>2 DEF Count
    <3>4. ~(mainStep[r] + 1 < Total)
      BY <1>5, <2>2
    <3> HIDE DEF n
    <3>5. collectives'[r] \div 2 = n + 1
      BY <3>2, <3>3, Half
    <3> QED BY <3>1, <3>2, <3>4, <3>5
  <2> QED BY <1>5, <2>1, <2>2, MainEffect DEF Quiet
<1> QED BY <1>3, <1>4, <1>5 DEF BarrierInv

\* How much a rank has trained, counted in collectives.
TrainedInv ==
  \A r \in Ranks :
    /\ Len(trained[r]) = (IF collectives[r] = 0 THEN 0 ELSE (collectives[r] - 1) \div 2)
    /\ mainPc[r] \in {"release", "train"} => mainStep[r] < Total

\* Training and the collectives go together; only steps of the run are fetched.
LEMMA TrainedStep ==
  ASSUME TypeInv, TypeInv', \A r \in Ranks : Count(r), TrainedInv, [Next]_vars,
         \A r \in Ranks : MainFetch(r) => mainStep[r] < Total
  PROVE  TrainedInv'
<1> SUFFICES ASSUME NEW r \in Ranks
             PROVE  /\ Len(trained'[r]) = (IF collectives'[r] = 0 THEN 0 ELSE (collectives'[r] - 1) \div 2)
                    /\ mainPc'[r] \in {"release", "train"} => mainStep'[r] < Total
  BY DEF TrainedInv
<1>1. /\ mainStep[r] \in Nat /\ mainStep[r] >= Start /\ Start \in Nat /\ collectives[r] \in Nat
      /\ trained[r] \in Seq(Steps \cup {Torn})
  BY RankTypes, PipelineAssumption DEF TypeInv, MainInv, MainType
<1>2. Len(trained[r]) = (IF collectives[r] = 0 THEN 0 ELSE (collectives[r] - 1) \div 2)
  BY DEF TrainedInv
<1>3. mainPc'[r] \in {"release", "train"} => mainStep'[r] < Total
  BY MainEffect DEF TrainedInv, Quiet
<1>4. CASE trained'[r] = trained[r] /\ collectives'[r] = collectives[r]
  BY <1>2, <1>3, <1>4
<1>5. CASE trained'[r] = trained[r] /\ mainPc[r] = "begin" /\ collectives'[r] = collectives[r] + 1
  <2>1. collectives[r] = 0 /\ collectives'[r] = 1 /\ Len(trained[r]) = 0
    BY <1>2, <1>5 DEF Count
  <2>2. (1 - 1) \div 2 = 0
    OBVIOUS
  <2> QED BY <1>3, <1>5, <2>1, <2>2
<1>6. CASE trained'[r] = trained[r] /\ mainPc[r] = "fetch" /\ collectives'[r] = collectives[r] + 1
  <2> DEFINE n == mainStep[r] - Start
  <2>1. n \in Nat
    BY <1>1
  <2>2. collectives[r] = 1 + 2 * n
    BY <1>6 DEF Count
  <2> HIDE DEF n
  <2>3. (collectives[r] - 1) \div 2 = n /\ (collectives'[r] - 1) \div 2 = n /\ collectives[r] # 0 /\ collectives'[r] # 0
    BY <1>6, <2>1, <2>2
  <2> QED BY <1>2, <1>3, <1>6, <2>3
<1>7. CASE mainPc[r] = "train" /\ collectives'[r] = collectives[r] + 1 /\ trained'[r] = Append(trained[r], loaded[r].data)
  <2> DEFINE n == mainStep[r] - Start
  <2>1. n \in Nat
    BY <1>1
  <2>2. collectives[r] = 2 + 2 * n
    BY <1>7 DEF Count
  <2> HIDE DEF n
  <2>3. (collectives[r] - 1) \div 2 = n /\ (collectives'[r] - 1) \div 2 = n + 1 /\ collectives[r] # 0 /\ collectives'[r] # 0
    BY <1>7, <2>1, <2>2
  <2>4. loaded[r].data \in Steps \cup {Torn}
    BY <1>7, ConstantFacts DEF TypeInv, MainInv
  <2>5. Len(trained'[r]) = Len(trained[r]) + 1
    BY <1>1, <1>7, <2>4
  <2> QED BY <1>2, <1>3, <2>3, <2>5
<1> QED BY <1>4, <1>5, <1>6, <1>7, MainEffect DEF Quiet

-----------------------------------------------------------------------------
(* The data the ranks receive *)

\* The data a main thread fetches is that of the step it is at.
LEMMA FetchPos ==
  ASSUME TypeInv, NEW r \in Ranks, Count(r), mainPc[r] = "fetch"
  PROVE  /\ collectives[r] \div 2 = mainStep[r] - Start
         /\ (collectives[r] + 1) \div 2 = mainStep[r] - Start + 1
         /\ Resolved(r) => Taken(r) = mainStep[r] + 1
<1>1. mainStep[r] \in Nat /\ mainStep[r] >= Start /\ Start \in Nat
  BY RankTypes, PipelineAssumption
<1> DEFINE n == mainStep[r] - Start
<1>2. n \in Nat /\ mainStep[r] = Start + n
  BY <1>1
<1>3. collectives[r] = 1 + 2 * n
  BY DEF Count
<1> HIDE DEF n
<1>4. collectives[r] \div 2 = n /\ (collectives[r] + 1) \div 2 = n + 1
  BY <1>2, <1>3
<1>5. n = mainStep[r] - Start
  BY <1>1, <1>2
<1> QED BY <1>1, <1>2, <1>4, <1>5 DEF Taken

\* How a step changes what a main thread has taken and what waits for it.
LEMMA TakenStep ==
  ASSUME TypeInv, TypeInv', [Next]_vars, NEW r \in Ranks, Count(r)
  PROVE  \/ /\ ~Resolved(r) /\ Resolved(r)' /\ Taken(r)' = Taken(r) + 1
            /\ Ready(r) # <<>> /\ Ready(r)' = Tail(Ready(r)) /\ future'[r] = Head(Ready(r))
         \/ /\ Taken(r)' = Taken(r)
            /\ Resolved(r)' => Resolved(r) /\ future'[r] = future[r]
            /\ \/ Ready(r)' = Ready(r)
               \/ r = 0 /\ WriterBuffer
               \/ r # 0 /\ LoaderPut(r)
<1> USE ConstantFacts
<1>1. /\ mainPc \in [Ranks -> {"begin", "prime", "fetch", "release", "train",
                               "reduce", "stop", "done", "failed"}]
      /\ future \in [Ranks -> Results \cup {NoBatch, Pending}] /\ collectives \in [Ranks -> Nat]
      /\ mainStep[r] \in Nat /\ mainStep[r] >= Start /\ Start \in Nat
      /\ loaderReady \in [Ranks -> Seq(Results)] /\ rank0Buffer \in Seq(Results)
  BY RankTypes, PipelineAssumption DEF TypeInv, MainInv, MainType, LoaderInv, LoaderType,
     WriterInv, WriterType
<1>2. CASE FutureRun(r)
  <2>1. Ready(r) # <<>> /\ Ready(r)' = Tail(Ready(r)) /\ future'[r] = Head(Ready(r)) /\ future[r] = Pending
    BY <1>1, <1>2 DEF FutureRun, Ready
  <2>2. Head(Ready(r)) \in Results
    BY <2>1, RankTypes, Pop
  <2>3. ~Resolved(r) /\ Resolved(r)'
    BY <2>1, <2>2 DEF Resolved
  <2>4. Taken(r)' = Taken(r) + 1
    <3>1. collectives' = collectives /\ collectives[r] \div 2 \in Nat
      BY <1>2, RankTypes DEF FutureRun
    <3> QED BY <2>3, <3>1, <1>1 DEF Taken
  <2> QED BY <2>1, <2>3, <2>4
<1>3. \/ FutureRun(r) \/ Ready(r)' = Ready(r)
      \/ r = 0 /\ WriterBuffer
      \/ r # 0 /\ LoaderPut(r)
  <2>1. CASE r = 0
    <3>1. FutureRun(0) \/ WriterBuffer \/ rank0Buffer' = rank0Buffer
      BY DEF Next, Prefetcher, PrefetchInfer, PrefetchPut, PrefetchStop, Writer, WriterGet,
       WriterClaim, WriterTimeout, WriterFail, WriterPublish, WriterStop, Loader,
       LoaderOpen, LoaderCopy, LoaderTimeout, LoaderFail, LoaderPut, LoaderStop, Main, MainBegin,
       MainPrime, MainFetch, MainRaise, MainRelease, MainTrain, MainStepEnd, MainStop,
       FutureRun, Killed, LauncherKill, GroupTimeout, Terminated, vars, writerVars
    <3> QED BY <2>1, <3>1 DEF Ready
  <2>2. CASE r # 0
    <3>1. FutureRun(r) \/ LoaderPut(r) \/ loaderReady'[r] = loaderReady[r]
      <4>1. ASSUME NEW q \in Ranks, q # r, FutureRun(q) \/ LoaderPut(q) PROVE loaderReady'[r] = loaderReady[r]
        BY <1>1, <4>1 DEF FutureRun, LoaderPut
      <4>2. loaderReady' = loaderReady \/ \E q \in Ranks : FutureRun(q) \/ LoaderPut(q)
        BY DEF Next, Prefetcher, PrefetchInfer, PrefetchPut, PrefetchStop, Writer, WriterGet,
         WriterBuffer, WriterClaim, WriterTimeout, WriterFail, WriterPublish, WriterStop, Loader,
         LoaderOpen, LoaderCopy, LoaderTimeout, LoaderFail, LoaderStop, Main, MainBegin,
         MainPrime, MainFetch, MainRaise, MainRelease, MainTrain, MainStepEnd, MainStop,
         Killed, LauncherKill, GroupTimeout, Terminated, vars, loaderVars
      <4> QED BY <4>1, <4>2
    <3> QED BY <2>2, <3>1 DEF Ready
  <2> QED BY <2>1, <2>2
<1>4. ASSUME ~FutureRun(r)
      PROVE  Taken(r)' = Taken(r) /\ (Resolved(r)' => Resolved(r) /\ future'[r] = future[r])
  <2>1. CASE MainFetch(r)
    <3>1. /\ future'[r] = NoBatch /\ Resolved(r) /\ collectives'[r] = collectives[r] + 1
          /\ mainPc[r] = "fetch"
      BY <1>1, <2>1 DEF MainFetch, Arrive, Resolved
    <3>2. collectives'[r] \div 2 = collectives[r] \div 2 + 1
      BY <3>1, FetchPos, <1>1
    <3>3. ~Resolved(r)'
      BY <3>1 DEF Resolved
    <3>4. collectives[r] \div 2 \in Nat
      BY RankTypes
    <3> QED BY <3>1, <3>2, <3>3, <3>4, <1>1 DEF Taken
  <2>2. CASE MainBegin(r) \/ MainTrain(r)
    <3>1. future' = future /\ collectives'[r] = collectives[r] + 1 /\ mainPc[r] \in {"begin", "train"}
      BY <1>1, <2>2 DEF MainBegin, MainTrain, Arrive
    <3>2. collectives'[r] \div 2 = collectives[r] \div 2
      <4>1. CASE mainPc[r] = "begin"
        <5>1. collectives[r] = 0
          BY <4>1 DEF Count
        <5> QED BY <3>1, <5>1
      <4>2. CASE mainPc[r] = "train"
        <5> DEFINE n == mainStep[r] - Start
        <5>1. n \in Nat /\ collectives[r] = 2 + 2 * n
          BY <4>2, <1>1 DEF Count
        <5> HIDE DEF n
        <5> QED BY <3>1, <5>1
      <4> QED BY <3>1, <4>1, <4>2
    <3> QED BY <3>1, <3>2 DEF Taken, Resolved
  <2>3. CASE MainPrime(r) \/ MainRelease(r)
    <3>1. future'[r] \in {Pending, NoBatch} /\ future[r] = NoBatch /\ collectives' = collectives
      BY <1>1, <2>3 DEF MainPrime, MainRelease, Count
    <3> QED BY <3>1 DEF Taken, Resolved
  <2>4. CASE future'[r] = future[r] /\ collectives'[r] = collectives[r]
    BY <2>4 DEF Taken, Resolved
  <2>5. \/ MainFetch(r) \/ MainBegin(r) \/ MainTrain(r) \/ MainPrime(r) \/ MainRelease(r)
        \/ future'[r] = future[r] /\ collectives'[r] = collectives[r]
    <3>1. ASSUME NEW q \in Ranks, q # r, Main(q) \/ FutureRun(q)
          PROVE  future'[r] = future[r] /\ collectives'[r] = collectives[r]
      <4>1. CASE FutureRun(q)
        BY <1>1, <3>1, <4>1 DEF FutureRun
      <4>2. CASE Main(q)
        BY <1>1, <3>1, <4>2 DEF Main, MainBegin, MainPrime, MainFetch, MainRaise, MainRelease,
           MainTrain, MainStepEnd, MainStop, Arrive
      <4> QED BY <3>1, <4>1, <4>2
    <3>2. CASE MainRaise(r) \/ MainStepEnd(r) \/ MainStop(r)
      BY <3>2 DEF MainRaise, MainStepEnd, MainStop
    <3>3. UNCHANGED <<future, collectives>> \/ \E q \in Ranks : Main(q) \/ FutureRun(q)
      BY DEF Next, Prefetcher, PrefetchInfer, PrefetchPut, PrefetchStop, Writer, WriterGet,
       WriterBuffer, WriterClaim, WriterTimeout, WriterFail, WriterPublish, WriterStop, Loader,
       LoaderOpen, LoaderCopy, LoaderTimeout, LoaderFail, LoaderPut, LoaderStop,
       Killed, LauncherKill, GroupTimeout, Terminated, vars, mainVars
    <3> QED BY <1>4, <3>1, <3>2, <3>3 DEF Main
  <2> QED BY <2>1, <2>2, <2>3, <2>4, <2>5
<1> QED BY <1>2, <1>3, <1>4

\* How a step changes the item a loader is copying.
LEMMA LoaderEffect ==
  ASSUME TypeInv, [Next]_vars, NEW q \in Ranks
  PROVE  \/ LoaderOpen(q) \/ LoaderCopy(q) \/ LoaderFail(q) \/ LoaderTimeout(q)
         \/ (LoaderPut(q) \/ LoaderStop(q)) /\ loaderPc'[q] \in {"wait", "stopped"}
         \/ /\ loaderPc'[q] = loaderPc[q] /\ loaderData'[q] = loaderData[q]
            /\ loaderPc[q] \in {"load", "put"} => InHand(q)' = InHand(q)
<1>1. /\ loaderWork \in [Ranks -> Seq(WorkItems \cup {StopItem})]
      /\ loaderPc \in [Ranks -> {"wait", "load", "put", "stopped"}]
      /\ loaderData \in [Ranks -> Steps \cup {Stop, Error, Torn}]
      /\ loaderPc[q] \in {"load", "put"} => loaderWork[q] # <<>>
  BY DEF TypeInv, LoaderInv, LoaderType
<1>2. ASSUME NEW r \in Ranks, r # q, Loader(r)
      PROVE  /\ loaderPc'[q] = loaderPc[q] /\ loaderData'[q] = loaderData[q]
             /\ loaderWork'[q] = loaderWork[q]
  BY <1>1, <1>2 DEF Loader, LoaderOpen, LoaderCopy, LoaderTimeout, LoaderFail, LoaderPut,
     LoaderStop
<1>3. ASSUME NEW w \in Seq(WorkItems \cup {StopItem}), NEW x \in Seq(WorkItems \cup {StopItem}), w # <<>>
      PROVE  Head(w \o x) = Head(w)
  BY <1>3
<1>4. ASSUME NEW r \in Ranks, NEW x \in Seq(WorkItems \cup {StopItem}), Submit(r, x),
             UNCHANGED <<loaderPc, loaderData>>
      PROVE  /\ loaderPc'[q] = loaderPc[q] /\ loaderData'[q] = loaderData[q]
             /\ loaderPc[q] \in {"load", "put"} => InHand(q)' = InHand(q)
  <2>1. loaderWork' = [loaderWork EXCEPT ![r] = @ \o x]
    BY <1>4 DEF Submit
  <2>2. loaderWork'[q] = loaderWork[q] \/ loaderWork'[q] = loaderWork[q] \o x
    BY <2>1, <1>1
  <2> QED BY <2>2, <1>1, <1>3, <1>4 DEF InHand
<1>5. ASSUME NEW r \in Ranks, MainPrime(r) \/ MainRelease(r) \/ MainStop(r)
      PROVE  \E x \in Seq(WorkItems \cup {StopItem}) : Submit(r, x) /\ UNCHANGED <<loaderPc, loaderData>>
  <2>1. CASE MainPrime(r)
    BY <2>1, PrimeType DEF MainPrime
  <2>2. CASE MainRelease(r)
    <3>1. NextItems(r) \in Seq(WorkItems \cup {StopItem})
      <4>1. mainStep[r] \in Nat /\ mainStep[r] >= Start /\ loaded[r].slot \in SlotSet
        BY <2>2, ConstantFacts DEF MainRelease, TypeInv, MainInv, MainType
      <4>2. CASE mainStep[r] + Slots < Total
        <5>1. mainStep[r] + Slots \in Steps
          BY <4>1, <4>2, PipelineAssumption DEF Steps
        <5>2. Item(mainStep[r] + Slots, loaded[r].slot) \in WorkItems
          BY <5>1, <4>1 DEF Item, WorkItems
        <5> QED BY <5>2, <4>2 DEF NextItems
      <4> QED BY <4>2 DEF NextItems
    <3> QED BY <2>2, <3>1 DEF MainRelease
  <2>3. CASE MainStop(r)
    <3>1. <<StopItem>> \in Seq(WorkItems \cup {StopItem})
      OBVIOUS
    <3> QED BY <2>3, <3>1 DEF MainStop
  <2> QED BY <1>5, <2>1, <2>2, <2>3
<1>6. CASE LoaderPut(q) \/ LoaderStop(q)
  BY <1>1, <1>6 DEF LoaderPut, LoaderStop
<1>7. CASE UNCHANGED <<loaderPc, loaderData, loaderWork>>
  BY <1>7 DEF InHand
<1>8. \/ UNCHANGED <<loaderPc, loaderData, loaderWork>>
      \/ \E r \in Ranks : Loader(r) \/ MainPrime(r) \/ MainRelease(r) \/ MainStop(r)
  BY DEF Next, Prefetcher, PrefetchInfer, PrefetchPut, PrefetchStop, Writer, WriterGet,
     WriterBuffer, WriterClaim, WriterTimeout, WriterFail, WriterPublish, WriterStop,
     Main, MainBegin, MainFetch, MainRaise, MainTrain, MainStepEnd,
     FutureRun, Killed, LauncherKill, GroupTimeout, Terminated, vars, loaderVars
<1>9. ASSUME NEW r \in Ranks, r # q, Loader(r)
      PROVE  /\ loaderPc'[q] = loaderPc[q] /\ loaderData'[q] = loaderData[q]
             /\ InHand(q)' = InHand(q)
  BY <1>2, <1>9 DEF InHand
<1> QED BY <1>4, <1>5, <1>6, <1>7, <1>8, <1>9 DEF Loader

\* The steps the writer is done with.  One of them, e, may have been dropped for
\* an exception of the teacher (Stop: none has): no rank ever sees its data.
Gone(e) == {s \in Steps : s # e /\ Passed(s)}

\* A sentinel announces the data of its step, complete.
FileInv(e) ==
  collectives[0] > 0 =>
    \A k \in SlotSet : readyFile[k] # Stop =>
      readyFile[k] \in Gone(e) /\ slotData[k] = readyFile[k]

\* What reaches a rank as step s is its data, or an exception.
Got(d, s, e) == d = Error \/ (d = s /\ s \in Gone(e))

LoadInv(q, e) ==
  /\ loaderPc[q] = "load" =>
       loaderData[q] = InHand(q).step /\ readyFile[InHand(q).slot] = InHand(q).step
  /\ loaderPc[q] = "put" => Got(loaderData[q], InHand(q).step, e)
  /\ \A i \in 1 .. Len(loaderReady[q]) : Got(loaderReady[q][i].data, Taken(q) + i - 1, e)
  /\ Resolved(q) => Got(future[q].data, Taken(q) - 1, e)
  /\ mainPc[q] \in {"release", "train"} => loaded[q].data = mainStep[q]
  /\ collectives[q] >= 2 => Start + collectives[q] \div 2 - 1 \in Gone(e)

\* The writer's files stay what their sentinels say.
LEMMA FileInvStep ==
  ASSUME Shared, TypeInv', OrderInv, AlignInv, [Next]_vars, NEW e, NEW f, FileInv(e),
         \A s \in Gone(e) : s \in Gone(f)', WriterPublish => writerItem.step # f
  PROVE  FileInv(f)'
<1> SUFFICES ASSUME collectives'[0] > 0, NEW k \in SlotSet, readyFile'[k] # Stop
             PROVE  readyFile'[k] \in Gone(f)' /\ slotData'[k] = readyFile'[k]
  BY DEF FileInv
<1>0. /\ TypeInv /\ readyFile \in [SlotSet -> Steps \cup {Stop}] /\ slotData \in [SlotSet -> Steps \cup {Torn}]
      /\ collectives[0] \in Nat /\ collectives'[0] \in Nat
  BY ConstantFacts DEF Shared, TypeInv, FileType, MainInv, MainType
<1>1. CASE readyFile'[k] = readyFile[k] /\ slotData'[k] = slotData[k] /\ collectives[0] > 0
  BY <1>1 DEF FileInv
<1>2. CASE WriterPublish /\ k = writerItem.slot
  <2>1. writerItem' = writerItem /\ writerItem.step \in Steps /\ writerData = writerItem.step
    BY <1>0, <1>2, ConstantFacts DEF WriterPublish, AlignInv, Busy, TypeInv, WriterInv
  <2>2. readyFile'[k] = writerItem.step /\ slotData'[k] = writerItem.step
    BY <1>0, <1>2, <2>1 DEF WriterPublish
  <2>3. Passed(writerItem.step)'
    BY <1>0, <1>2, HandPassed
  <2>4. writerItem.step \in Gone(f)'
    BY <1>2, <2>1, <2>3 DEF Gone
  <2> QED BY <2>2, <2>4
<1>3. CASE MainBegin(0)
  BY <1>3 DEF MainBegin, ClearReady
<1>4. CASE WriterClaim /\ k = writerItem.slot
  BY <1>0, <1>4 DEF WriterClaim
<1>5. collectives[0] > 0 \/ MainBegin(0)
  <2> SUFFICES ASSUME ~(collectives[0] > 0) PROVE MainBegin(0)
    OBVIOUS
  <2>1. mainPc[0] \notin {"fetch", "train"} /\ 0 \in Ranks
    BY ConstantFacts DEF Shared, BegunInv
  <2> QED BY <2>1, <1>0, MainEffect DEF Quiet
<1>6. \/ readyFile'[k] = readyFile[k] /\ slotData'[k] = slotData[k]
      \/ (WriterPublish \/ WriterClaim) /\ k = writerItem.slot
      \/ MainBegin(0)
  BY <1>0, FileEffect DEF WriterPublish, WriterClaim, fileVars
<1> QED BY <1>1, <1>2, <1>3, <1>4, <1>5, <1>6

\* The item a loader is at is the next step of its chain.
LEMMA InHandPos ==
  ASSUME Shared, NEW q \in Ranks \ {0}, loaderWork[q] # <<>>, InHand(q) # StopItem
  PROVE  /\ InHand(q) \in WorkItems /\ InHand(q).step \in Steps /\ InHand(q).slot \in SlotSet
         /\ InHand(q).step = Taken(q) + Len(loaderReady[q])
         /\ InHand(q).slot = SlotOf(InHand(q).step)
         /\ Taken(q) \in Nat /\ Len(loaderReady[q]) \in Nat
         /\ InHand(q).step >= Start + collectives[q] \div 2
         /\ collectives[q] \div 2 \in Nat /\ collectives[0] > 0
<1>1. /\ Work(q) = loaderWork[q] /\ Ready(q) = loaderReady[q] /\ Held(q) = 0 /\ q \in Ranks
      /\ loaderWork[q] \in Seq(WorkItems \cup {StopItem}) /\ TypeInv
  BY DEF Work, Ready, Held, Shared, TypeInv, LoaderInv, LoaderType
<1>2. 1 \in 1 .. Len(loaderWork[q]) /\ InHand(q) = loaderWork[q][1] /\ InHand(q) \in WorkItems
  BY <1>1, Pop DEF InHand
<1>3. /\ InHand(q).step = Taken(q) + Len(Ready(q)) + Held(q) + 1 - 1
      /\ InHand(q).slot = SlotOf(InHand(q).step)
  BY <1>1, <1>2 DEF Shared, Chain, WorkChain
<1>4. Taken(q) \in Nat /\ Len(Ready(q)) \in Nat /\ collectives[q] \div 2 \in Nat
  BY <1>1, RankTypes
<1>5. Taken(q) >= Start + collectives[q] \div 2
  BY <1>4, PipelineAssumption DEF Taken
<1>6. collectives[0] > 0
  BY <1>1 DEF Shared, BegunInv
<1>7. InHand(q).step = Taken(q) + Len(loaderReady[q])
  BY <1>1, <1>3, <1>4
<1>8. InHand(q).step >= Start + collectives[q] \div 2
  BY <1>1, <1>4, <1>5, <1>7, PipelineAssumption
<1> QED BY <1>1, <1>2, <1>3, <1>4, <1>6, <1>7, <1>8, ConstantFacts

\* The writer never touches the slot a loader is copying.
LEMMA CopySafe ==
  ASSUME Shared, NEW q \in Ranks \ {0}, NEW e, FileInv(e), LoadInv(q, e), loaderPc[q] = "load", Busy
  PROVE  writerItem.slot # InHand(q).slot
<1> SUFFICES ASSUME writerItem.slot = InHand(q).slot PROVE FALSE
  OBVIOUS
<1>1. loaderWork[q] # <<>> /\ InHand(q) # StopItem /\ writerItem \in WorkItems
  BY ConstantFacts DEF Shared, TypeInv, LoaderInv, WriterInv, Busy
<1>2. /\ InHand(q).step \in Steps /\ InHand(q).slot \in SlotSet /\ InHand(q).slot = SlotOf(InHand(q).step)
      /\ InHand(q).step >= Start + collectives[q] \div 2 /\ collectives[q] \div 2 \in Nat /\ collectives[0] > 0
  BY <1>1, InHandPos
<1>3. InHand(q).step \in Gone(e)
  BY <1>2, PipelineAssumption DEF LoadInv, FileInv, Steps
<1>4. writerItem \in Assigned /\ writerItem.step \in Steps
  BY <1>1, ConstantFacts DEF Assigned
<1>5. InHand(q).step < writerItem.step
  BY <1>3, <1>4 DEF Gone, Passed
<1>6. writerItem.slot = SlotOf(writerItem.step) /\ writerItem.step < Start + Slots + collectives[q] \div 2
  BY <1>4 DEF Shared, AssignedInv, Reusable
<1>7. InHand(q).step + Slots <= writerItem.step
  BY <1>2, <1>4, <1>5, <1>6, ConstantFacts, SameSlotApart
<1>8. InHand(q).step \in Nat /\ writerItem.step \in Nat /\ Start \in Nat /\ Slots \in Nat
  BY <1>2, <1>4, ConstantFacts, PipelineAssumption
<1> QED BY <1>2, <1>6, <1>7, <1>8

\* A loader delivers the data of the steps it is given, in order.
LEMMA LoadStep ==
  ASSUME Shared, TypeInv', [Next]_vars, NEW q \in Ranks \ {0}, NEW e, NEW f,
         FileInv(e), LoadInv(q, e), \A s \in Gone(e) : s \in Gone(f)'
  PROVE  LoadInv(q, f)'
<1>0. TypeInv /\ q \in Ranks /\ Count(q) /\ Work(q) = loaderWork[q] /\ Ready(q) = loaderReady[q]
      /\ Work(q)' = loaderWork'[q] /\ Ready(q)' = loaderReady'[q]
  BY DEF Shared, Work, Ready
<1>1. /\ loaderReady \in [Ranks -> Seq(Results)] /\ loaderData \in [Ranks -> Steps \cup {Stop, Error, Torn}]
      /\ loaderPc \in [Ranks -> {"wait", "load", "put", "stopped"}]
      /\ slotData \in [SlotSet -> Steps \cup {Torn}] /\ Taken(q) \in Nat /\ Taken(q)' \in Nat
      /\ mainPc[q] \in {"begin", "prime", "fetch", "release", "train", "reduce", "stop", "done", "failed"}
      /\ collectives[q] \in Nat /\ mainStep[q] \in Nat /\ mainStep[q] >= Start /\ Start \in Nat
  <2>1. /\ Taken(q) \in Nat /\ collectives[q] \in Nat /\ mainStep[q] \in Nat /\ mainStep[q] >= Start
        /\ mainPc[q] \in {"begin", "prime", "fetch", "release", "train", "reduce", "stop", "done", "failed"}
    BY <1>0, RankTypes
  <2>2. Taken(q)' \in Nat
    BY <1>0, <2>1, TakenStep
  <2> QED BY <1>0, <2>1, <2>2, PipelineAssumption DEF TypeInv, LoaderInv, LoaderType, FileType
<1>2. ASSUME NEW d, NEW s, Got(d, s, e) PROVE d = Error \/ (d = s /\ s \in Gone(f)')
  BY <1>2 DEF Got
<1>3. ASSUME loaderPc[q] \in {"load", "put"}
      PROVE  loaderWork[q] # <<>> /\ InHand(q) # StopItem
  BY <1>0, <1>3, ConstantFacts DEF TypeInv, LoaderInv
<1>4. ASSUME loaderPc'[q] = "load"
      PROVE  loaderData'[q] = InHand(q)'.step /\ readyFile'[InHand(q)'.slot] = InHand(q)'.step
  <2>1. CASE LoaderOpen(q)
    <3>1. /\ loaderWork' = loaderWork /\ readyFile' = readyFile /\ loaderWork[q] # <<>> /\ InHand(q) # StopItem
          /\ readyFile[InHand(q).slot] = InHand(q).step /\ loaderData'[q] = slotData[InHand(q).slot]
      BY <2>1, <1>1 DEF LoaderOpen, LoaderWaits, SentinelExists, fileVars
    <3>2. InHand(q).step \in Steps /\ InHand(q).slot \in SlotSet /\ collectives[0] > 0
      BY <3>1, InHandPos
    <3>3. InHand(q).step # Stop
      BY <3>2, PipelineAssumption DEF Steps
    <3>4. slotData[InHand(q).slot] = InHand(q).step
      BY <3>1, <3>2, <3>3 DEF FileInv
    <3> QED BY <3>1, <3>4 DEF InHand
  <2>2. CASE loaderPc[q] = "load" /\ loaderData'[q] = loaderData[q] /\ InHand(q)' = InHand(q)
    <3>1. /\ loaderData[q] = InHand(q).step /\ readyFile[InHand(q).slot] = InHand(q).step
          /\ InHand(q).slot \in SlotSet /\ collectives[0] > 0
      BY <2>2, <1>3, InHandPos DEF LoadInv
    <3>2. readyFile'[InHand(q).slot] = readyFile[InHand(q).slot]
      <4>1. ~MainBegin(0)
        BY <3>1, ConstantFacts DEF MainBegin, Shared, Count
      <4>2. CASE WriterPublish \/ WriterClaim
        <5>1. Busy
          BY <4>2 DEF WriterPublish, WriterClaim, Busy
        <5>2. writerItem.slot # InHand(q).slot
          BY <5>1, <2>2, CopySafe
        <5> QED BY <5>2, <4>2, <3>1, <1>0 DEF WriterPublish, WriterClaim, TypeInv, FileType
      <4> QED BY <4>1, <4>2, FileEffect DEF fileVars
    <3> QED BY <2>2, <3>1, <3>2
  <2>3. \/ LoaderOpen(q)
        \/ loaderPc[q] = "load" /\ loaderData'[q] = loaderData[q] /\ InHand(q)' = InHand(q)
    <3>1. ~LoaderCopy(q) /\ ~LoaderFail(q) /\ ~LoaderTimeout(q)
      BY <1>1, <1>4 DEF LoaderCopy, LoaderFail, LoaderTimeout
    <3> QED BY <1>0, <1>4, <3>1, LoaderEffect
  <2> QED BY <2>1, <2>2, <2>3
<1>5. ASSUME loaderPc'[q] = "put"
      PROVE  loaderData'[q] = Error \/ (loaderData'[q] = InHand(q)'.step /\ InHand(q)'.step \in Gone(f)')
  <2>1. CASE LoaderCopy(q)
    <3>1. /\ loaderPc[q] = "load" /\ loaderWork' = loaderWork
          /\ loaderData'[q] = IF slotData[InHand(q).slot] = loaderData[q] THEN loaderData[q] ELSE Torn
      BY <2>1, <1>1 DEF LoaderCopy
    <3>2. /\ loaderData[q] = InHand(q).step /\ readyFile[InHand(q).slot] = InHand(q).step
          /\ InHand(q).step \in Steps /\ InHand(q).slot \in SlotSet /\ collectives[0] > 0
      BY <3>1, <1>3, InHandPos DEF LoadInv
    <3>3. InHand(q).step # Stop
      BY <3>2, PipelineAssumption DEF Steps
    <3>4. slotData[InHand(q).slot] = InHand(q).step /\ InHand(q).step \in Gone(e)
      BY <3>2, <3>3 DEF FileInv
    <3>5. InHand(q)' = InHand(q)
      BY <3>1 DEF InHand
    <3> QED BY <3>1, <3>2, <3>4, <3>5
  <2>2. CASE LoaderFail(q) \/ LoaderTimeout(q)
    BY <2>2, <1>1 DEF LoaderFail, LoaderTimeout
  <2>3. CASE loaderPc[q] = "put" /\ loaderData'[q] = loaderData[q] /\ InHand(q)' = InHand(q)
    BY <2>3, <1>2 DEF LoadInv
  <2>4. ~LoaderOpen(q)
    BY <1>1, <1>5 DEF LoaderOpen
  <2> QED BY <1>0, <1>5, <2>1, <2>2, <2>3, <2>4, LoaderEffect
<1>6. ASSUME NEW i \in 1 .. Len(loaderReady'[q])
      PROVE  \/ loaderReady'[q][i].data = Error
             \/ /\ loaderReady'[q][i].data = Taken(q)' + i - 1
                /\ Taken(q)' + i - 1 \in Gone(f)'
  <2>1. CASE loaderReady[q] # <<>> /\ loaderReady'[q] = Tail(loaderReady[q]) /\ Taken(q)' = Taken(q) + 1
    <3>1. loaderReady'[q][i] = loaderReady[q][i + 1] /\ i + 1 \in 1 .. Len(loaderReady[q]) /\ i \in Nat
      BY <2>1, <1>1, Pop
    <3>2. Got(loaderReady[q][i + 1].data, Taken(q) + (i + 1) - 1, e)
      BY <3>1 DEF LoadInv
    <3>3. Taken(q) + (i + 1) - 1 = Taken(q)' + i - 1
      BY <2>1, <3>1, <1>1
    <3> QED BY <3>1, <3>2, <3>3, <1>2
  <2>2. CASE loaderReady'[q] = loaderReady[q] /\ Taken(q)' = Taken(q)
    BY <2>2, <1>2 DEF LoadInv
  <2>3. CASE LoaderPut(q) /\ Taken(q)' = Taken(q)
    <3>1. /\ loaderPc[q] = "put"
          /\ loaderReady'[q] = Append(loaderReady[q], Batch(loaderData[q], InHand(q).slot))
      BY <2>3, <1>1 DEF LoaderPut
    <3>2. /\ InHand(q).step = Taken(q) + Len(loaderReady[q]) /\ InHand(q).slot \in SlotSet
          /\ Len(loaderReady[q]) \in Nat
      BY <3>1, <1>3, InHandPos
    <3>3. Batch(loaderData[q], InHand(q).slot) \in Results /\ Batch(loaderData[q], InHand(q).slot).data = loaderData[q]
      BY <3>1, <3>2, <1>0, <1>1 DEF Batch, Results, TypeInv, LoaderInv
    <3>4. /\ Len(loaderReady'[q]) = Len(loaderReady[q]) + 1
          /\ \A j \in 1 .. Len(loaderReady[q]) + 1 : loaderReady'[q][j] =
               IF j <= Len(loaderReady[q]) THEN loaderReady[q][j] ELSE Batch(loaderData[q], InHand(q).slot)
      BY <3>1, <3>3, <1>1, Push
    <3>5. CASE i <= Len(loaderReady[q])
      <4>1. loaderReady'[q][i] = loaderReady[q][i] /\ i \in 1 .. Len(loaderReady[q])
        BY <3>4, <3>5
      <4> QED BY <4>1, <2>3, <1>2 DEF LoadInv
    <3>6. CASE ~(i <= Len(loaderReady[q]))
      <4>1. loaderReady'[q][i] = Batch(loaderData[q], InHand(q).slot) /\ i = Len(loaderReady[q]) + 1
        BY <3>2, <3>4, <3>6
      <4>2. Taken(q)' + i - 1 = InHand(q).step
        BY <4>1, <3>2, <2>3, <1>1
      <4>3. Got(loaderData[q], InHand(q).step, e)
        BY <3>1 DEF LoadInv
      <4> QED BY <4>1, <4>2, <4>3, <3>3, <1>2
    <3> QED BY <3>5, <3>6
  <2> QED BY <1>0, <2>1, <2>2, <2>3, TakenStep
<1>7. ASSUME Resolved(q)'
      PROVE  \/ future'[q].data = Error
             \/ future'[q].data = Taken(q)' - 1 /\ Taken(q)' - 1 \in Gone(f)'
  <2>1. CASE Taken(q)' = Taken(q) + 1 /\ loaderReady[q] # <<>> /\ future'[q] = Head(loaderReady[q])
    <3>1. Head(loaderReady[q]) = loaderReady[q][1] /\ 1 \in 1 .. Len(loaderReady[q])
      BY <2>1, <1>1, Pop
    <3>2. Got(loaderReady[q][1].data, Taken(q) + 1 - 1, e)
      BY <3>1 DEF LoadInv
    <3>3. Taken(q)' - 1 = Taken(q) + 1 - 1
      BY <2>1, <1>1
    <3> QED BY <2>1, <3>1, <3>2, <3>3, <1>2
  <2>2. CASE Taken(q)' = Taken(q) /\ Resolved(q) /\ future'[q] = future[q]
    BY <2>2, <1>2 DEF LoadInv
  <2> QED BY <1>0, <1>7, <2>1, <2>2, TakenStep
<1>8. ASSUME MainFetch(q)
      PROVE  /\ mainPc[q] = "fetch" /\ collectives'[q] = collectives[q] + 1
             /\ loaded'[q].data = mainStep[q] /\ mainStep'[q] = mainStep[q]
             /\ Start + collectives'[q] \div 2 - 1 = mainStep[q] /\ mainStep[q] \in Gone(e)
  <2>1. /\ mainPc[q] = "fetch" /\ mainStep'[q] = mainStep[q] /\ collectives'[q] = collectives[q] + 1
        /\ loaded'[q] = future[q] /\ Resolved(q) /\ future[q].data # Error
    BY <1>0, <1>8, MainEffect DEF MainFetch, MainBegin, MainPrime, MainRelease, MainTrain,
       MainStepEnd, MainStop,
       Quiet, Arrive, Resolved, TypeInv, MainInv, MainType
  <2>2. (collectives[q] + 1) \div 2 = mainStep[q] - Start + 1 /\ Taken(q) = mainStep[q] + 1
    BY <1>0, <2>1, FetchPos
  <2>3. Got(future[q].data, Taken(q) - 1, e)
    BY <2>1 DEF LoadInv
  <2>4. Taken(q) - 1 = mainStep[q] /\ Start + (mainStep[q] - Start + 1) - 1 = mainStep[q]
    <3>1. \A a, b \in Int : (a + 1) - 1 = a /\ b + (a - b + 1) - 1 = a
      OBVIOUS
    <3>2. mainStep[q] \in Int /\ Start \in Int
      BY <1>1
    <3> QED BY <2>2, <3>1, <3>2
  <2> QED BY <2>1, <2>2, <2>3, <2>4 DEF Got
<1>9. ASSUME mainPc'[q] \in {"release", "train"} PROVE loaded'[q].data = mainStep'[q]
  BY <1>0, <1>8, <1>9, MainEffect DEF LoadInv, Quiet
<1>10. ASSUME collectives'[q] >= 2 PROVE Start + collectives'[q] \div 2 - 1 \in Gone(f)'
  <2>1. CASE MainFetch(q)
    BY <2>1, <1>8
  <2>2. CASE collectives'[q] = collectives[q]
    BY <1>10, <2>2 DEF LoadInv
  <2>3. CASE mainPc[q] = "begin" /\ collectives'[q] = collectives[q] + 1
    <3>1. collectives[q] = 0
      BY <1>0, <2>3 DEF Count
    <3> QED BY <1>10, <2>3, <3>1
  <2>4. CASE mainPc[q] = "train" /\ collectives'[q] = collectives[q] + 1
    <3> DEFINE n == mainStep[q] - Start
    <3>1. n \in Nat /\ collectives[q] = 2 + 2 * n
      BY <1>0, <1>1, <2>4 DEF Count
    <3> HIDE DEF n
    <3>2. collectives'[q] \div 2 = collectives[q] \div 2 /\ collectives[q] >= 2
      BY <2>4, <3>1
    <3> QED BY <3>2 DEF LoadInv
  <2> QED BY <1>0, <2>1, <2>2, <2>3, <2>4, MainEffect DEF Quiet
<1> QED BY <1>4, <1>5, <1>6, <1>7, <1>9, <1>10 DEF LoadInv, Got

\* Position p of rank 0's chain is before the dropped step.
Fine(p, e) == e = Stop \/ p < e

\* Rank 0 gets every step before the dropped one from rank0_buffer, in order.
FrontInv(e) ==
  /\ \A i \in 1 .. Len(rank0Buffer) : Fine(Taken(0) + i - 1, e) =>
       rank0Buffer[i] = Batch(Taken(0) + i - 1, SlotOf(Taken(0) + i - 1))
  /\ Resolved(0) /\ Fine(Taken(0) - 1, e) => future[0] = Batch(Taken(0) - 1, SlotOf(Taken(0) - 1))
  /\ mainPc[0] \in {"release", "train"} /\ Fine(mainStep[0], e) =>
       loaded[0] = Batch(mainStep[0], SlotOf(mainStep[0]))

\* rank0_buffer keeps its order.
LEMMA FrontStep ==
  ASSUME Shared, TypeInv', [Next]_vars, AlignInv, NEW e, NEW f, FrontInv(e), e = Stop \/ e = f,
         WriterBuffer /\ Fine(Taken(0) + Len(rank0Buffer), f) =>
           writerItem.step = Taken(0) + Len(rank0Buffer)
  PROVE  FrontInv(f)'
<1>0. TypeInv /\ 0 \in Ranks /\ Count(0) /\ Ready(0) = rank0Buffer /\ Ready(0)' = rank0Buffer'
  BY ConstantFacts DEF Shared, Ready
<1>1. Taken(0) \in Nat /\ rank0Buffer \in Seq(Results) /\ Len(rank0Buffer) \in Nat /\ mainStep[0] \in Nat
  BY <1>0, RankTypes DEF TypeInv, WriterInv, WriterType
<1>2. \A p : Fine(p, f) => Fine(p, e)
  BY DEF Fine
<1>3. ASSUME NEW i \in 1 .. Len(rank0Buffer'), NEW p, p = Taken(0)' + i - 1, Fine(p, f)
      PROVE  rank0Buffer'[i] = Batch(p, SlotOf(p))
  <2>1. CASE rank0Buffer # <<>> /\ rank0Buffer' = Tail(rank0Buffer) /\ Taken(0)' = Taken(0) + 1
    <3>1. rank0Buffer'[i] = rank0Buffer[i + 1] /\ i + 1 \in 1 .. Len(rank0Buffer) /\ i \in Nat
      BY <2>1, <1>1, Pop
    <3>2. p = Taken(0) + (i + 1) - 1
      BY <1>1, <1>3, <2>1, <3>1
    <3> QED BY <3>1, <3>2, <1>2, <1>3 DEF FrontInv
  <2>2. CASE rank0Buffer' = rank0Buffer /\ Taken(0)' = Taken(0)
    BY <2>2, <1>2, <1>3 DEF FrontInv
  <2>3. CASE WriterBuffer /\ Taken(0)' = Taken(0)
    <3>1. /\ rank0Buffer' = Append(rank0Buffer, Batch(writerData, writerItem.slot))
          /\ Busy /\ writerItem \in Assigned /\ writerData = writerItem.step
      BY <2>3 DEF WriterBuffer, Busy, Assigned, AlignInv
    <3>2. /\ writerItem.step \in Steps /\ writerItem.slot \in SlotSet
          /\ writerItem.slot = SlotOf(writerItem.step)
      BY <3>1, <1>0, ConstantFacts DEF Shared, AssignedInv, TypeInv, WriterInv, Busy
    <3>3. Batch(writerData, writerItem.slot) \in Results
      BY <3>1, <3>2 DEF Batch, Results
    <3>4. /\ Len(rank0Buffer') = Len(rank0Buffer) + 1
          /\ \A j \in 1 .. Len(rank0Buffer) + 1 : rank0Buffer'[j] =
               IF j <= Len(rank0Buffer) THEN rank0Buffer[j] ELSE Batch(writerData, writerItem.slot)
      BY <3>1, <3>3, <1>1, Push
    <3>5. CASE i <= Len(rank0Buffer)
      <4>1. rank0Buffer'[i] = rank0Buffer[i] /\ i \in 1 .. Len(rank0Buffer)
        BY <3>4, <3>5
      <4> QED BY <4>1, <2>3, <1>2, <1>3 DEF FrontInv
    <3>6. CASE ~(i <= Len(rank0Buffer))
      <4>1. rank0Buffer'[i] = Batch(writerData, writerItem.slot) /\ i = Len(rank0Buffer) + 1
        BY <1>1, <3>4, <3>6
      <4>2. p = Taken(0) + Len(rank0Buffer)
        BY <4>1, <2>3, <1>1, <1>3
      <4>3. writerItem.step = p
        BY <4>2, <2>3, <1>3
      <4> QED BY <4>1, <4>3, <3>1, <3>2
    <3> QED BY <3>5, <3>6
  <2> QED BY <1>0, <2>1, <2>2, <2>3, TakenStep
<1>4. ASSUME Resolved(0)', NEW p, p = Taken(0)' - 1, Fine(p, f)
      PROVE  future'[0] = Batch(p, SlotOf(p))
  <2>1. CASE Taken(0)' = Taken(0) + 1 /\ rank0Buffer # <<>> /\ future'[0] = Head(rank0Buffer)
    <3>1. Head(rank0Buffer) = rank0Buffer[1] /\ 1 \in 1 .. Len(rank0Buffer)
      BY <2>1, <1>1, Pop
    <3>2. p = Taken(0) + 1 - 1
      BY <2>1, <1>1, <1>4
    <3> QED BY <2>1, <3>1, <3>2, <1>2, <1>4 DEF FrontInv
  <2>2. CASE Taken(0)' = Taken(0) /\ Resolved(0) /\ future'[0] = future[0]
    BY <2>2, <1>2, <1>4 DEF FrontInv
  <2> QED BY <1>0, <1>4, <2>1, <2>2, TakenStep
<1>5. ASSUME mainPc'[0] \in {"release", "train"}, Fine(mainStep'[0], f)
      PROVE  loaded'[0] = Batch(mainStep'[0], SlotOf(mainStep'[0]))
  <2>1. CASE Quiet(0) /\ mainPc[0] \in {"release", "train"}
    BY <2>1, <1>2, <1>5 DEF FrontInv, Quiet
  <2>2. CASE mainPc[0] = "fetch" /\ Resolved(0) /\ loaded'[0] = future[0] /\ mainStep'[0] = mainStep[0]
    <3>1. Taken(0) - 1 = mainStep[0]
      <4>1. Taken(0) = mainStep[0] + 1
        BY <1>0, <2>2, FetchPos
      <4> QED BY <1>1, <4>1
    <3>2. Resolved(0) /\ Fine(Taken(0) - 1, e)
      BY <2>2, <3>1, <1>2, <1>5
    <3>3. future[0] = Batch(Taken(0) - 1, SlotOf(Taken(0) - 1))
      BY <3>2 DEF FrontInv
    <3> QED BY <2>2, <3>1, <3>3
  <2> QED BY <1>0, <1>5, <2>1, <2>2, MainEffect
<1>6. \A i \in 1 .. Len(rank0Buffer') : Fine(Taken(0)' + i - 1, f) =>
        rank0Buffer'[i] = Batch(Taken(0)' + i - 1, SlotOf(Taken(0)' + i - 1))
  BY <1>3
<1>7. Resolved(0)' /\ Fine(Taken(0)' - 1, f) => future'[0] = Batch(Taken(0)' - 1, SlotOf(Taken(0)' - 1))
  BY <1>4
<1> QED BY <1>5, <1>6, <1>7 DEF FrontInv, Fine, SlotOf

-----------------------------------------------------------------------------
(* A step is lost *)

\* The writer dropped step e: rank 0's chain is a step short from there on, and
\* the other ranks, which never get e, keep it from releasing what follows.
Lost(e) ==
  /\ WorldSize > 1 /\ e \in Steps /\ Passed(e) /\ Taken(0) + Len(rank0Buffer) >= e
  /\ mainPc[0] \in {"fetch", "release", "train", "reduce", "failed"}
  /\ \A i \in 1 .. Len(writerWork) : writerWork[i] # StopItem
  /\ collectives[0] <= 2 + 2 * (e - Start)
  /\ \A q \in Ranks \ {0} : Start + collectives[q] \div 2 <= e

\* Rank 0 passes no barrier after a fetch from the dropped step on.
LEMMA LostBehind ==
  ASSUME Shared, NEW e, Lost(e), Complete(0), mainPc[0] \in {"release", "train"}
  PROVE  mainStep[0] < e
<1>1. 1 \in Ranks \ {0} /\ 0 \in Ranks /\ e \in Nat /\ Start \in Nat
  BY ConstantFacts, PipelineAssumption DEF Lost, Ranks
<1>2. mainStep[0] \in Nat /\ mainStep[0] >= Start /\ collectives[1] \in Nat
  BY <1>1, RankTypes DEF Shared
<1> DEFINE n == mainStep[0] - Start
<1>3. n \in Nat /\ mainStep[0] = Start + n
  BY <1>1, <1>2
<1>4. collectives[1] >= 2 + 2 * n
  BY <1>1 DEF Shared, Count, Complete
<1> HIDE DEF n
<1>5. collectives[1] \div 2 >= n + 1 /\ collectives[1] \div 2 \in Nat
  BY <1>2, <1>3, <1>4
<1>6. Start + collectives[1] \div 2 <= e
  BY <1>1 DEF Lost
<1> QED BY <1>1, <1>3, <1>5, <1>6

\* Once a step is lost rank 0 is past its priming and does not reach the end.
LEMMA LostStep ==
  ASSUME Shared, TypeInv', [Next]_vars, BarrierInv, NEW e, Lost(e), \A q \in Ranks \ {0} : LoadInv(q, e)
  PROVE  Lost(e)' /\ Count(0)' /\ StopLast(0)'
<1>0. /\ TypeInv /\ 0 \in Ranks /\ Count(0) /\ e \in Nat /\ e \in Steps /\ e < Total /\ e >= Start
      /\ Start \in Nat /\ Total \in Nat
  BY ConstantFacts, PipelineAssumption DEF Shared, Lost, Steps
<1>1. /\ mainStep[0] \in Nat /\ mainStep[0] >= Start /\ collectives[0] \in Nat /\ Taken(0) \in Nat
      /\ rank0Buffer \in Seq(Results) /\ Len(rank0Buffer) \in Nat
      /\ future \in [Ranks -> Results \cup {NoBatch, Pending}]
  <2>1. /\ mainStep[0] \in Nat /\ mainStep[0] >= Start /\ collectives[0] \in Nat /\ Taken(0) \in Nat
    BY <1>0, RankTypes
  <2> QED BY <1>0, <2>1 DEF TypeInv, WriterInv, WriterType, MainInv, MainType
<1> DEFINE n == mainStep[0] - Start
           d == e - Start
<1>2. n \in Nat /\ mainStep[0] = Start + n /\ d \in Nat /\ e = Start + d
  BY <1>0, <1>1
<1>3. /\ mainPc[0] = "fetch" => collectives[0] = 1 + 2 * n
      /\ mainPc[0] \in {"release", "train"} => collectives[0] = 2 + 2 * n
      /\ mainPc[0] = "reduce" => collectives[0] = 3 + 2 * n
      /\ mainPc[0] = "release" => future[0] = NoBatch
      /\ collectives[0] <= 2 + 2 * d
      /\ mainPc[0] \in {"fetch", "release", "train", "reduce", "failed"}
  BY <1>0 DEF Count, Lost
<1>4. mainPc[0] = "train" => n < d
  <2>1. ASSUME mainPc[0] = "train" PROVE mainStep[0] < e
    BY <2>1, <1>0, LostBehind DEF BarrierInv
  <2> QED BY <2>1, <1>0, <1>1
<1> HIDE DEF n, d
<1>5. mainPc[0] = "fetch" => n <= d
  BY <1>2, <1>3
<1>6. mainPc[0] = "reduce" => n + 1 <= d
  BY <1>2, <1>3
<1>7. ASSUME mainPc'[0] = "release" PROVE future'[0] = NoBatch
  <2>1. CASE MainFetch(0)
    BY <2>1, <1>0, <1>1 DEF MainFetch
  <2>2. CASE mainPc[0] = "release" /\ Quiet(0)
    <3>1. ~FutureRun(0) /\ ~MainRelease(0) /\ ~MainPrime(0)
      <4>1. NoBatch # Pending /\ mainPc'[0] # "train"
        BY <1>7, ConstantFacts
      <4>2. mainPc \in [Ranks -> {"begin", "prime", "fetch", "release", "train",
                                  "reduce", "stop", "done", "failed"}]
        BY <1>0 DEF TypeInv, MainInv, MainType
      <4> QED BY <4>1, <4>2, <2>2, <1>0, <1>3 DEF FutureRun, MainRelease, MainPrime
    <3>2. ASSUME NEW q \in Ranks, q # 0, Main(q) \/ FutureRun(q) PROVE future'[0] = future[0]
      BY <1>0, <1>1, <3>2 DEF FutureRun, Main, MainBegin, MainPrime, MainFetch, MainRaise,
         MainRelease,
         MainTrain, MainStepEnd, MainStop
    <3>3. future'[0] = future[0] \/ MainFetch(0)
      <4>1. future' = future \/ \E q \in Ranks : Main(q) \/ FutureRun(q)
        BY DEF Next, Prefetcher, PrefetchInfer, PrefetchPut, PrefetchStop, Writer, WriterGet,
         WriterBuffer, WriterClaim, WriterTimeout, WriterFail, WriterPublish, WriterStop, Loader,
         LoaderOpen, LoaderCopy, LoaderTimeout, LoaderFail, LoaderPut, LoaderStop,
         Killed, LauncherKill, GroupTimeout, Terminated, vars, mainVars
      <4>2. ASSUME Main(0) PROVE future'[0] = future[0] \/ MainFetch(0)
        BY <3>1, <4>2 DEF Main, MainBegin, MainRaise, MainTrain, MainStepEnd, MainStop
      <4> QED BY <3>1, <3>2, <4>1, <4>2
    <3> QED BY <2>1, <2>2, <3>3, <1>3
  <2> QED BY <1>0, <1>3, <1>7, <2>1, <2>2, MainEffect
<1>8. /\ mainPc'[0] \in {"fetch", "release", "train", "reduce", "failed"}
      /\ collectives'[0] <= 2 + 2 * d
      /\ mainPc'[0] = "fetch" => collectives'[0] = 1 + 2 * (mainStep'[0] - Start)
      /\ mainPc'[0] \in {"release", "train"} => collectives'[0] = 2 + 2 * (mainStep'[0] - Start)
      /\ mainPc'[0] = "reduce" => collectives'[0] = 3 + 2 * (mainStep'[0] - Start)
  <2>0. mainStep[0] - Start = n /\ mainStep[0] + 1 - Start = n + 1
    BY <1>0, <1>1, <1>2
  <2>1. CASE Quiet(0) /\ mainPc'[0] \in {mainPc[0], "failed"}
    BY <2>0, <2>1, <1>3 DEF Quiet
  <2>2. CASE mainPc[0] = "fetch" /\ mainPc'[0] = "release" /\ mainStep'[0] = mainStep[0] /\ collectives'[0] = collectives[0] + 1
    BY <2>0, <2>2, <1>2, <1>3, <1>5
  <2>3. CASE mainPc[0] = "release" /\ mainPc'[0] = "train" /\ Quiet(0)
    BY <2>0, <2>3, <1>3 DEF Quiet
  <2>4. CASE mainPc[0] = "train" /\ mainPc'[0] = "reduce" /\ mainStep'[0] = mainStep[0] /\ collectives'[0] = collectives[0] + 1
    BY <2>0, <2>4, <1>2, <1>3, <1>4
  <2>5. CASE /\ mainPc[0] = "reduce" /\ mainPc'[0] = (IF mainStep[0] + 1 < Total THEN "fetch" ELSE "stop")
             /\ mainStep'[0] = mainStep[0] + 1 /\ collectives'[0] = collectives[0]
    <3>1. mainStep[0] + 1 < Total
      BY <1>0, <1>2, <1>6, <2>5
    <3>2. mainPc'[0] = "fetch"
      BY <2>5, <3>1
    <3>3. mainStep'[0] = mainStep[0] + 1
      BY <2>5
    <3>4. mainStep'[0] - Start = n + 1
      BY <3>3, <1>0, <1>1, <1>2
    <3>5. collectives'[0] = 1 + 2 * (n + 1) /\ collectives'[0] <= 2 + 2 * d
      BY <2>5, <1>2, <1>3, Half
    <3> QED BY <3>2, <3>4, <3>5
  <2> QED BY <1>0, <1>3, <2>1, <2>2, <2>3, <2>4, <2>5, MainEffect
<1>9. Count(0)'
  BY <1>7, <1>8 DEF Count
<1>10. \A s \in Int : s = e => Passed(s)'
  BY <1>0, PassedStep DEF Lost
<1>11. Taken(0)' + Len(rank0Buffer') >= e
  <2>0. Taken(0) + Len(rank0Buffer) >= e /\ Ready(0) = rank0Buffer /\ Ready(0)' = rank0Buffer'
    BY DEF Lost, Ready
  <2>1. CASE Taken(0)' = Taken(0) + 1 /\ rank0Buffer # <<>> /\ rank0Buffer' = Tail(rank0Buffer)
    <3>1. Len(rank0Buffer') = Len(rank0Buffer) - 1
      BY <2>1, <1>1, Pop
    <3> QED BY <2>0, <2>1, <3>1, <1>0, <1>1
  <2>2. CASE Taken(0)' = Taken(0) /\ rank0Buffer' = rank0Buffer
    BY <2>0, <2>2
  <2>3. CASE Taken(0)' = Taken(0) /\ WriterBuffer
    <3>1. Batch(writerData, writerItem.slot) \in Results
      BY <2>3, <1>0, ConstantFacts DEF WriterBuffer, TypeInv, WriterInv, Batch, Results
    <3>2. Len(rank0Buffer') = Len(rank0Buffer) + 1
      BY <2>3, <3>1, <1>1, Push DEF WriterBuffer
    <3> QED BY <2>0, <2>3, <3>2, <1>0, <1>1
  <2> QED BY <1>0, <2>0, <2>1, <2>2, <2>3, TakenStep
<1>12. ASSUME NEW i \in 1 .. Len(writerWork') PROVE writerWork'[i] # StopItem
  <2>1. writerWork \in Seq(WorkItems \cup {StopItem}) /\ Len(writerWork) \in Nat
    BY <1>0 DEF TypeInv, WriterInv, WriterType
  <2>2. ~MainPrime(0) /\ ~MainStop(0)
    BY <1>3 DEF MainPrime, MainStop
  <2>3. CASE writerWork' = writerWork
    BY <2>3, <1>12 DEF Lost
  <2>4. CASE writerWork # <<>> /\ writerWork' = Tail(writerWork)
    <3>1. writerWork'[i] = writerWork[i + 1] /\ i + 1 \in 1 .. Len(writerWork)
      BY <1>12, <2>1, <2>4, Pop
    <3> QED BY <3>1 DEF Lost
  <2>5. ASSUME NEW x \in WorkItems, writerWork' = Append(writerWork, x)
        PROVE  writerWork'[i] # StopItem
    <3>1. /\ Len(writerWork') = Len(writerWork) + 1
          /\ \A j \in 1 .. Len(writerWork) + 1 :
               writerWork'[j] = IF j <= Len(writerWork) THEN writerWork[j] ELSE x
      BY <2>1, <2>5, Push
    <3>2. x # StopItem
      BY <2>5, ConstantFacts
    <3> QED BY <3>1, <3>2, <1>12, <2>1 DEF Lost
  <2> QED BY <1>0, <2>2, <2>3, <2>4, <2>5, WorkEffect
<1>13. ASSUME NEW q \in Ranks \ {0} PROVE Start + collectives'[q] \div 2 <= e
  <2>0. /\ Count(q) /\ mainStep[q] \in Nat /\ mainStep[q] >= Start /\ collectives[q] \in Nat /\ q \in Ranks
        /\ Start + collectives[q] \div 2 <= e
    BY <1>0, <1>13, RankTypes DEF Shared, Lost
  <2>1. CASE collectives'[q] = collectives[q]
    BY <2>0, <2>1
  <2>2. CASE MainFetch(q)
    <3>1. /\ mainPc[q] = "fetch" /\ collectives'[q] = collectives[q] + 1
          /\ Resolved(q) /\ future[q].data # Error
      BY <2>0, <2>2, <1>0 DEF MainFetch, Arrive, Resolved, TypeInv, MainInv, MainType
    <3>2. /\ (collectives[q] + 1) \div 2 = mainStep[q] - Start + 1 /\ Taken(q) = mainStep[q] + 1
          /\ collectives[q] \div 2 = mainStep[q] - Start
      BY <3>1, <2>0, <1>0, FetchPos
    <3>3. Got(future[q].data, Taken(q) - 1, e)
      BY <3>1 DEF LoadInv
    <3>4. Taken(q) - 1 # e
      BY <3>1, <3>3 DEF Got, Gone
    <3>5. mainStep[q] # e /\ mainStep[q] <= e
      BY <3>2, <3>4, <2>0, <1>0
    <3> QED BY <3>1, <3>2, <3>5, <2>0, <1>0
  <2>3. CASE mainPc[q] = "begin" /\ collectives'[q] = collectives[q] + 1
    <3>1. collectives'[q] = 1
      BY <2>0, <2>3 DEF Count
    <3>2. 1 \div 2 = 0
      OBVIOUS
    <3> QED BY <3>1, <3>2, <1>0
  <2>4. CASE mainPc[q] = "train" /\ collectives'[q] = collectives[q] + 1
    <3> DEFINE m == mainStep[q] - Start
    <3>0. m \in Nat
      BY <1>0, <2>0
    <3>1. collectives[q] = 2 + 2 * m
      BY <2>0, <2>4 DEF Count
    <3> HIDE DEF m
    <3>2. collectives'[q] \div 2 = collectives[q] \div 2
      BY <2>4, <3>0, <3>1
    <3> QED BY <3>2, <2>0
  <2> QED BY <1>0, <2>0, <2>1, <2>2, <2>3, <2>4, MainEffect DEF Quiet
<1>14. StopLast(0)'
  BY <1>12 DEF StopLast, Work
<1>15. Lost(e)'
  <2>1. Passed(e)'
    BY <1>0, <1>10
  <2> QED BY <2>1, <1>0, <1>8, <1>11, <1>12, <1>13 DEF Lost, d
<1> QED BY <1>9, <1>14, <1>15

\* An exception of the teacher: the writer drops the step, which no rank has seen.
LEMMA DropLost ==
  ASSUME Shared, TypeInv', WorldSize > 1, RankInv(0), OrderInv, BarrierInv,
         \A q \in Ranks \ {0} : LoadInv(q, Stop),
         WriterGet, Head(resQueue) = Error, NEW f, f = Head(writerWork).step
  PROVE  /\ Lost(f)' /\ Count(0)' /\ StopLast(0)' /\ f # Stop /\ f \in Steps
         /\ \A s \in Gone(Stop) : s \in Gone(f)'
<1>0. /\ TypeInv /\ 0 \in Ranks /\ Count(0) /\ StopLast(0) /\ Start \in Nat /\ Total \in Nat
      /\ mainPc[0] \in {"begin", "prime", "fetch", "release", "train", "reduce", "stop", "done", "failed"}
  BY ConstantFacts, PipelineAssumption, RankTypes DEF Shared
<1>1. /\ writerWork \in Seq(WorkItems \cup {StopItem}) /\ writerWork # <<>> /\ Head(writerWork) # StopItem
      /\ writerWork' = Tail(writerWork) /\ rank0Buffer' = rank0Buffer /\ writerPc = "get" /\ writerPc' = "get"
      /\ UNCHANGED <<mainPc, mainStep, future, collectives>> /\ Alive(0)
  BY <1>0 DEF WriterGet, TypeInv, WriterInv, WriterType, mainVars
<1>2. /\ 1 \in 1 .. Len(writerWork) /\ Head(writerWork) = writerWork[1] /\ Len(writerWork) \in Nat
      /\ Head(writerWork) \in WorkItems /\ Len(writerWork') = Len(writerWork) - 1
      /\ \A i \in 1 .. Len(writerWork') : writerWork'[i] = writerWork[i + 1] /\ i + 1 \in 1 .. Len(writerWork)
  BY <1>1, Pop
<1>3. f \in Steps /\ f \in Nat /\ f # Stop /\ f < Total /\ f >= Start
  BY <1>0, <1>2, ConstantFacts DEF Steps
<1>4. /\ Taken(0) \in Nat /\ Len(rank0Buffer) \in Nat /\ collectives[0] \in Nat /\ collectives[0] \div 2 \in Nat
  BY <1>0, RankTypes DEF TypeInv, WriterInv, WriterType
<1>5. f = Taken(0) + Len(rank0Buffer)
  <2>1. Work(0) = writerWork /\ Ready(0) = rank0Buffer /\ Held(0) = 0
    BY <1>1 DEF Work, Ready, Held
  <2>2. f = Taken(0) + Len(Ready(0)) + Held(0) + 1 - 1
    BY <2>1, <1>1, <1>2 DEF RankInv, Chain, WorkChain
  <2> QED BY <2>1, <2>2, <1>4
<1>6. Taken(0) >= Start + collectives[0] \div 2
  BY <1>0, <1>4 DEF Taken
<1>7. mainPc[0] \notin {"begin", "prime", "stop", "done", "failed"}
  <2>1. mainPc[0] \notin {"begin", "prime"}
    BY <1>1 DEF RankInv, Count, Work
  <2>2. mainPc[0] # "failed"
    BY <1>1 DEF Alive
  <2>3. ASSUME mainPc[0] \in {"stop", "done"} PROVE FALSE
    <3>1. Start + collectives[0] \div 2 >= Total
      BY <2>3, <1>0 DEF BarrierInv
    <3> QED BY <3>1, <1>0, <1>3, <1>4, <1>5, <1>6
  <2> QED BY <2>1, <2>2, <2>3
<1>8. \A i \in 1 .. Len(writerWork') : writerWork'[i] # StopItem
  BY <1>0, <1>2, <1>7 DEF StopLast, Work
<1>9. Passed(f)' /\ Head(writerWork) \in Assigned
  BY <1>0, <1>3, DropPassed
<1>10. collectives[0] <= 2 + 2 * (f - Start)
  <2> DEFINE h == collectives[0] \div 2
             d == f - Start
  <2>1. h \in Nat /\ d \in Nat /\ h <= d
    BY <1>0, <1>3, <1>4, <1>5, <1>6
  <2>2. collectives[0] <= 2 * h + 1
    BY <1>4
  <2> HIDE DEF h, d
  <2>3. collectives[0] <= 2 + 2 * d
    BY <2>1, <2>2, <1>4
  <2> QED BY <2>3 DEF d
<1>11. ASSUME NEW q \in Ranks \ {0} PROVE Start + collectives[q] \div 2 <= f
  <2>1. collectives[q] \in Nat /\ collectives[q] \div 2 \in Nat
    BY <1>0, RankTypes
  <2>2. CASE collectives[q] >= 2
    <3>1. Start + collectives[q] \div 2 - 1 \in Gone(Stop)
      BY <2>2 DEF LoadInv
    <3>2. Start + collectives[q] \div 2 - 1 < f
      BY <3>1, <1>9 DEF Gone, Passed
    <3> QED BY <3>2, <2>1, <1>0, <1>3
  <2>3. CASE ~(collectives[q] >= 2)
    <3>1. collectives[q] \div 2 = 0
      BY <2>1, <2>3
    <3> QED BY <3>1, <1>0, <1>3
  <2> QED BY <2>2, <2>3
<1>12. ASSUME NEW s \in Gone(Stop) PROVE s \in Gone(f)'
  <2>1. s \in Steps /\ Passed(s) /\ s \in Int /\ s < f
    BY <1>9, <1>12, ConstantFacts DEF Gone, Passed
  <2>2. [Next]_vars
    BY DEF Next, Writer
  <2>3. Passed(s)'
    BY <2>1, <2>2, <1>0, PassedStep
  <2> QED BY <2>1, <2>3, <1>3, ConstantFacts DEF Gone
<1>13. Taken(0)' = Taken(0)
  BY <1>1 DEF Taken, Resolved
<1>14. Lost(f)'
  <2>1. Taken(0)' + Len(rank0Buffer') >= f
    BY <1>1, <1>4, <1>5, <1>13
  <2>2. \A q \in Ranks \ {0} : Start + collectives'[q] \div 2 <= f
    BY <1>1, <1>11
  <2>3. collectives'[0] <= 2 + 2 * (f - Start) /\ mainPc'[0] \in {"fetch", "release", "train", "reduce", "failed"}
    BY <1>0, <1>1, <1>7, <1>10
  <2> QED BY <2>1, <2>2, <2>3, <1>3, <1>8, <1>9 DEF Lost
<1>15. Count(0)'
  BY <1>0, <1>1, <1>7 DEF Count
<1>16. StopLast(0)'
  BY <1>8 DEF StopLast, Work
<1> QED BY <1>3, <1>12, <1>14, <1>15, <1>16

-----------------------------------------------------------------------------
(* The writer never finds its slot taken *)

\* The first step whose slot train() of rank 0 has not released.
Released == Start + collectives[0] \div 2 - (IF mainPc[0] = "release" THEN 1 ELSE 0)

\* The writer has claimed the slot of step s, or will never claim it.
Claimed(s) == Passed(s) \/ (writerPc = "publish" /\ s = writerItem.step)

\* A slot is taken for a step not yet released, and no released step is still to
\* be written.
ClaimInv ==
  WorldSize > 1 /\ Alive(0) =>
    /\ \A k \in SlotSet : ~slotFree[k] =>
         \E s \in Steps : SlotOf(s) = k /\ Released <= s /\ Claimed(s)
    /\ \A w \in Assigned : Released <= w.step

\* Rank 0 has never submitted more than Slots steps it has not released.
LEMMA FrontierNear ==
  ASSUME TypeInv, Count(0), BarrierInv, Alive(0)
  PROVE  Frontier \in Nat /\ Released \in Int /\ Frontier <= Released + Slots
<1>1. /\ mainStep[0] \in Nat /\ mainStep[0] >= Start /\ Start \in Nat /\ Slots \in Nat /\ Slots >= 1 /\ Total \in Nat
      /\ Start <= Total /\ collectives[0] \div 2 \in Nat /\ Submitted(0) \in Nat /\ 0 \in Ranks
      /\ mainPc[0] \in {"begin", "prime", "fetch", "release", "train", "reduce", "stop", "done", "failed"}
  BY RankTypes, ConstantFacts, PipelineAssumption
<1> DEFINE n == mainStep[0] - Start
<1>2. n \in Nat /\ mainStep[0] = Start + n
  BY <1>1
<1>3. CASE mainPc[0] \in {"begin", "prime"}
  <2>1. Frontier = Start
    BY <1>3 DEF Frontier
  <2> QED BY <2>1, <1>1, <1>3 DEF Released
<1>4. CASE mainPc[0] \in {"fetch", "release"}
  <2>1. Frontier = (IF mainStep[0] + Slots <= Total THEN mainStep[0] + Slots ELSE Total)
    BY <1>1, <1>4 DEF Frontier, Submitted
  <2>2. Released = mainStep[0]
    <3>1. CASE mainPc[0] = "fetch"
      <4>1. collectives[0] = 1 + 2 * n
        BY <3>1 DEF Count
      <4> HIDE DEF n
      <4>2. collectives[0] \div 2 = n
        BY <4>1, <1>2
      <4> QED BY <4>2, <3>1, <1>1, <1>2 DEF Released
    <3>2. CASE mainPc[0] = "release"
      <4>1. collectives[0] = 2 + 2 * n
        BY <3>2 DEF Count
      <4> HIDE DEF n
      <4>2. collectives[0] \div 2 = n + 1
        BY <4>1, <1>2
      <4> QED BY <4>2, <3>2, <1>1, <1>2 DEF Released
    <3> QED BY <1>4, <3>1, <3>2
  <2> QED BY <2>1, <2>2, <1>1
<1>5. CASE mainPc[0] \in {"train", "reduce"}
  <2>1. Frontier = (IF mainStep[0] + Slots + 1 <= Total THEN mainStep[0] + Slots + 1 ELSE Total)
    BY <1>1, <1>5 DEF Frontier, Submitted
  <2>2. Released = mainStep[0] + 1
    <3>1. collectives[0] = 2 + 2 * n \/ collectives[0] = 3 + 2 * n
      BY <1>5 DEF Count
    <3> HIDE DEF n
    <3>2. collectives[0] \div 2 = n + 1
      BY <3>1, <1>2
    <3> QED BY <3>2, <1>1, <1>2, <1>5 DEF Released
  <2> QED BY <2>1, <2>2, <1>1
<1>6. CASE mainPc[0] \in {"stop", "done"}
  <2>1. Frontier <= Total /\ Frontier \in Nat
    BY <1>1, <1>6 DEF Frontier, Submitted
  <2>2. Start + collectives[0] \div 2 >= Total
    BY <1>1, <1>6 DEF BarrierInv
  <2>3. Released = Start + collectives[0] \div 2
    BY <1>1, <1>6 DEF Released
  <2> QED BY <2>1, <2>2, <2>3, <1>1
<1> QED BY <1>1, <1>3, <1>4, <1>5, <1>6 DEF Alive

\* A slot taken for another step would be Slots steps away, past the frontier.
LEMMA ClaimFree ==
  ASSUME TypeInv, Count(0), AssignedInv, OrderInv, BarrierInv, ClaimInv, Alive(0)
  PROVE  ClaimNeverWaits
<1> SUFFICES ASSUME WorldSize > 1, writerPc = "slot", ~slotFree[writerItem.slot] PROVE FALSE
  BY DEF ClaimNeverWaits
<1>1. writerItem \in Assigned /\ writerItem.step \in Steps /\ writerItem.slot \in SlotSet
  BY ConstantFacts DEF Assigned, Busy, TypeInv, WriterInv
<1>2. writerItem.slot = SlotOf(writerItem.step)
  BY <1>1 DEF AssignedInv
<1>3. PICK s \in Steps : SlotOf(s) = writerItem.slot /\ Released <= s /\ Claimed(s)
  BY <1>1 DEF ClaimInv
<1>4. s < writerItem.step
  BY <1>1, <1>3 DEF Claimed, Passed
<1>5. s \in Nat /\ writerItem.step \in Nat /\ Slots \in Nat
  BY <1>1, ConstantFacts, PipelineAssumption
<1>6. s + Slots <= writerItem.step
  BY <1>2, <1>3, <1>4, <1>5, SameSlotApart
<1>7. writerItem.step < Frontier
  BY <1>1 DEF OrderInv
<1>8. Frontier \in Nat /\ Released \in Int /\ Frontier <= Released + Slots
  BY FrontierNear
<1> QED BY <1>3, <1>5, <1>6, <1>7, <1>8

\* Only train() of rank 0 past its barrier releases a slot.
LEMMA ReleasedStep ==
  ASSUME TypeInv, Count(0), [Next]_vars, Alive(0)'
  PROVE  /\ Released \in Int /\ Released' \in Int
         /\ \/ Released' = Released /\ ~MainRelease(0)
            \/ /\ MainRelease(0) /\ Released = mainStep[0] /\ Released' = mainStep[0] + 1
               /\ mainPc[0] = "release" /\ Complete(0)
<1>1. /\ mainStep[0] \in Nat /\ mainStep[0] >= Start /\ Start \in Nat /\ collectives[0] \in Nat /\ 0 \in Ranks
      /\ collectives[0] \div 2 \in Nat
  BY RankTypes, ConstantFacts, PipelineAssumption
<1> DEFINE n == mainStep[0] - Start
<1>2. n \in Nat /\ mainStep[0] = Start + n
  BY <1>1
<1>3. /\ mainPc[0] = "begin" => collectives[0] = 0
      /\ mainPc[0] = "fetch" => collectives[0] = 1 + 2 * n
      /\ mainPc[0] \in {"release", "train"} => collectives[0] = 2 + 2 * n
  BY DEF Count
<1> HIDE DEF n
<1>4. ASSUME mainPc[0] = "fetch" PROVE collectives[0] \div 2 = n /\ (collectives[0] + 1) \div 2 = n + 1
  <2>1. collectives[0] = 1 + 2 * n /\ collectives[0] + 1 = 2 + 2 * n
    BY <1>2, <1>3, <1>4
  <2> QED BY <2>1, <1>2, Half
<1>5. ASSUME mainPc[0] = "train" PROVE collectives[0] \div 2 = n + 1 /\ (collectives[0] + 1) \div 2 = n + 1
  <2>1. collectives[0] = 2 + 2 * n /\ collectives[0] + 1 = 3 + 2 * n
    BY <1>2, <1>3, <1>5
  <2> QED BY <2>1, <1>2, Half
<1>6. mainPc[0] = "begin" => collectives[0] \div 2 = 0 /\ (collectives[0] + 1) \div 2 = 0
  BY <1>3
<1>7. mainPc[0] = "release" => collectives[0] \div 2 = n + 1
  BY <1>2, <1>3
<1>8. CASE MainRelease(0)
  <2>1. mainPc[0] = "release" /\ mainPc'[0] = "train" /\ collectives' = collectives /\ Complete(0)
    BY <1>1, <1>8 DEF MainRelease, TypeInv, MainInv, MainType
  <2>2. Released = Start + (n + 1) - 1 /\ Released' = Start + (n + 1)
    BY <2>1, <1>1, <1>2, <1>7 DEF Released
  <2> QED BY <2>1, <2>2, <1>1, <1>2, <1>8
<1>9. ASSUME ~MainRelease(0) PROVE Released' = Released /\ Released \in Int
  <2>0. Released \in Int
    BY <1>1 DEF Released
  <2>1. mainPc'[0] # "failed"
    BY DEF Alive
  <2>2. CASE Quiet(0) /\ mainPc'[0] = mainPc[0]
    BY <2>0, <2>2 DEF Quiet, Released
  <2>3. CASE mainPc[0] = "begin" /\ mainPc'[0] = "prime" /\ collectives'[0] = collectives[0] + 1
    BY <2>0, <2>3, <1>6 DEF Released
  <2>4. CASE mainPc[0] = "fetch" /\ mainPc'[0] = "release" /\ collectives'[0] = collectives[0] + 1
    BY <2>0, <2>4, <1>1, <1>2, <1>4 DEF Released
  <2>5. CASE mainPc[0] = "train" /\ mainPc'[0] = "reduce" /\ collectives'[0] = collectives[0] + 1
    BY <2>0, <2>5, <1>5 DEF Released
  <2>6. CASE mainPc[0] # "release" /\ mainPc'[0] # "release" /\ collectives'[0] = collectives[0]
    BY <2>0, <2>6 DEF Released
  <2> QED BY <1>1, <1>9, <2>0, <2>1, <2>2, <2>3, <2>4, <2>5, <2>6, MainEffect DEF Quiet
<1> QED BY <1>1, <1>2, <1>8, <1>9

\* How a step changes the slots and the claim of the writer.
LEMMA ClaimEffect ==
  ASSUME TypeInv, [Next]_vars
  PROVE  /\ \A k \in SlotSet : ~slotFree'[k] => ~slotFree[k] \/ (WriterClaim /\ k = writerItem.slot)
         /\ \A k \in SlotSet : MainRelease(0) /\ ~slotFree'[k] => k # loaded[0].slot
         /\ writerPc = "publish" =>
              \/ WriterPublish \/ WriterFail
              \/ writerPc' = "publish" /\ writerItem' = writerItem
         /\ ~Alive(0)' => UNCHANGED <<writerPc, writerItem, slotFree>>
<1>1. slotFree \in [SlotSet -> BOOLEAN] /\ 0 \in Ranks
  BY ConstantFacts DEF TypeInv, WriterInv, WriterType
<1>2. \/ slotFree' = slotFree /\ ~WriterClaim
      \/ WriterClaim \/ MainRelease(0) \/ MainStop(0)
  <2>1. ASSUME NEW r \in Ranks, r # 0, MainRelease(r) \/ MainStop(r) PROVE slotFree' = slotFree /\ ~WriterClaim
    BY <2>1 DEF MainRelease, ReleaseSlot, MainStop, WriterClaim
  <2>2. slotFree' = slotFree \/ WriterClaim \/ \E r \in Ranks : MainRelease(r) \/ MainStop(r)
    BY DEF Next, Prefetcher, PrefetchInfer, PrefetchPut, PrefetchStop, Writer, WriterGet,
       WriterBuffer, WriterTimeout, WriterFail, WriterPublish, WriterStop, Loader,
       LoaderOpen, LoaderCopy, LoaderTimeout, LoaderFail, LoaderPut, LoaderStop, Main, MainBegin,
       MainPrime, MainFetch, MainRaise, MainTrain, MainStepEnd,
       FutureRun, Killed, LauncherKill, GroupTimeout, Terminated, vars, writerVars
  <2> QED BY <2>1, <2>2
<1>3. ASSUME NEW k \in SlotSet, ~slotFree'[k] PROVE ~slotFree[k] \/ (WriterClaim /\ k = writerItem.slot)
  <2>1. CASE WriterClaim
    BY <1>1, <1>3, <2>1 DEF WriterClaim
  <2>2. CASE MainRelease(0)
    BY <1>1, <1>3, <2>2 DEF MainRelease, ReleaseSlot
  <2>3. CASE MainStop(0)
    BY <1>3, <2>3 DEF MainStop
  <2> QED BY <1>2, <1>3, <2>1, <2>2, <2>3
<1>4. ASSUME NEW k \in SlotSet, MainRelease(0), ~slotFree'[k] PROVE k # loaded[0].slot
  BY <1>1, <1>4 DEF MainRelease, ReleaseSlot
<1>5. ASSUME writerPc = "publish"
      PROVE  WriterPublish \/ WriterFail \/ (writerPc' = "publish" /\ writerItem' = writerItem)
  BY <1>5 DEF Next, Prefetcher, PrefetchInfer, PrefetchPut, PrefetchStop, Writer, WriterGet,
     WriterBuffer, WriterClaim, WriterTimeout, WriterStop, Loader,
     LoaderOpen, LoaderCopy, LoaderTimeout, LoaderFail, LoaderPut, LoaderStop, Main, MainBegin,
     MainPrime, MainFetch, MainRaise, MainRelease, MainTrain, MainStepEnd, MainStop,
     FutureRun, Killed, LauncherKill, GroupTimeout, Terminated, vars, writerVars
<1>6. ASSUME ~Alive(0)' PROVE UNCHANGED <<writerPc, writerItem, slotFree>>
  <2>1. ~Writer
    BY <1>6 DEF Writer, WriterGet, WriterBuffer, WriterClaim, WriterTimeout, WriterFail,
       WriterPublish, WriterStop, mainVars, Alive
  <2>2. ~MainRelease(0) /\ ~MainStop(0)
    BY <1>1, <1>6 DEF MainRelease, MainStop, Alive, TypeInv, MainInv, MainType
  <2>3. slotFree' = slotFree
    BY <1>2, <2>1, <2>2 DEF Writer
  <2>4. UNCHANGED <<writerPc, writerItem>>
    BY <2>1 DEF Next, Prefetcher, PrefetchInfer, PrefetchPut, PrefetchStop, Loader,
       LoaderOpen, LoaderCopy, LoaderTimeout, LoaderFail, LoaderPut, LoaderStop, Main, MainBegin,
       MainPrime, MainFetch, MainRaise, MainRelease, MainTrain, MainStepEnd, MainStop,
       FutureRun, Killed, LauncherKill, GroupTimeout, Terminated, vars, writerVars
  <2> QED BY <2>3, <2>4
<1> QED BY <1>3, <1>4, <1>5, <1>6

\* Slots are claimed and released in the order of the steps.
LEMMA ClaimStep ==
  ASSUME Shared, TypeInv', [Next]_vars, OrderInv, ClaimInv, NEW e,
         \A q \in Ranks \ {0} : LoadInv(q, e),
         MainRelease(0) => loaded[0].slot = SlotOf(mainStep[0])
  PROVE  ClaimInv'
<1> SUFFICES ASSUME WorldSize > 1, Alive(0)'
             PROVE  /\ \A k \in SlotSet : ~slotFree'[k] =>
                         \E s \in Steps : SlotOf(s) = k /\ Released' <= s /\ Claimed(s)'
                    /\ \A w \in Assigned' : Released' <= w.step
  BY DEF ClaimInv, SlotOf
<1>0. /\ TypeInv /\ 0 \in Ranks /\ Count(0) /\ Alive(0) /\ 1 \in Ranks \ {0}
      /\ Start \in Nat /\ Slots \in Nat /\ Slots >= 1 /\ mainStep[0] \in Nat /\ mainStep[0] >= Start
  <2>1. TypeInv /\ 0 \in Ranks /\ Count(0) /\ 1 \in Ranks \ {0}
    BY ConstantFacts, PipelineAssumption DEF Shared, Ranks
  <2> QED BY <2>1, AliveStep, RankTypes, PipelineAssumption
<1>1. /\ Released \in Int /\ Released' \in Int
      /\ \/ Released' = Released /\ ~MainRelease(0)
         \/ /\ MainRelease(0) /\ Released = mainStep[0] /\ Released' = mainStep[0] + 1
            /\ mainPc[0] = "release" /\ Complete(0)
  BY <1>0, ReleasedStep
<1>2. /\ \A k \in SlotSet : ~slotFree[k] =>
           \E s \in Steps : SlotOf(s) = k /\ Released <= s /\ Claimed(s)
      /\ \A w \in Assigned : Released <= w.step
  BY <1>0 DEF ClaimInv
<1>3. ASSUME NEW w \in Assigned' PROVE Released' <= w.step
  <2>0. w \in WorkItems /\ w.step \in Nat
    BY <1>0, AssignedStep, ConstantFacts
  <2>1. CASE w \in Assigned /\ Released' = Released
    BY <2>1, <1>2
  <2>2. CASE w \in Assigned /\ MainRelease(0)
    <3> DEFINE n == mainStep[0] - Start
    <3>1. n \in Nat /\ mainStep[0] = Start + n
      BY <1>0
    <3>2. collectives[1] >= 2 + 2 * n /\ collectives[1] \in Nat
      <4>1. collectives[0] = 2 + 2 * n
        BY <1>0, <1>1, <2>2 DEF Count
      <4>2. collectives[1] >= collectives[0] /\ collectives[1] \in Nat
        BY <1>0, <1>1, <2>2, RankTypes DEF Complete
      <4> QED BY <4>1, <4>2
    <3> HIDE DEF n
    <3>3. collectives[1] >= 2 /\ collectives[1] \div 2 >= n + 1 /\ collectives[1] \div 2 \in Nat
      BY <3>1, <3>2
    <3>4. Start + collectives[1] \div 2 - 1 \in Gone(e)
      BY <3>3, <1>0 DEF LoadInv
    <3>5. Start + collectives[1] \div 2 - 1 < w.step
      BY <3>4, <2>2 DEF Gone, Passed
    <3>6. mainStep[0] + 1 <= w.step
      BY <3>1, <3>3, <3>5, <2>0, <1>0
    <3> QED BY <3>6, <1>1, <2>2
  <2>3. CASE MainPrime(0) /\ w.step >= Start
    <3>1. mainPc[0] = "prime" /\ collectives[0] = 1 /\ ~MainRelease(0)
      BY <1>0, <2>3 DEF MainPrime, MainRelease, Count
    <3>2. Released = Start
      BY <3>1, <1>0 DEF Released
    <3> QED BY <2>3, <3>1, <3>2, <1>1
  <2>4. CASE MainRelease(0) /\ w = Item(mainStep[0] + Slots, loaded[0].slot)
    <3>1. w.step = mainStep[0] + Slots /\ Released' = mainStep[0] + 1
      BY <2>4, <1>1 DEF Item
    <3> QED BY <3>1, <1>0
  <2> QED BY <1>0, <1>1, <2>1, <2>2, <2>3, <2>4, AssignedStep
<1>4. ASSUME NEW s \in Steps, Claimed(s) PROVE Claimed(s)'
  <2>0. s \in Int
    BY ConstantFacts
  <2>1. CASE Passed(s)
    BY <2>0, <2>1, <1>0, PassedStep DEF Claimed
  <2>2. CASE writerPc = "publish" /\ s = writerItem.step
    <3>1. CASE WriterPublish \/ WriterFail
      <4>1. Passed(writerItem.step)' /\ writerItem' = writerItem
        BY <3>1, <1>0, HandPassed DEF WriterPublish, WriterFail
      <4>2. Passed(s)'
        BY <4>1, <2>2 DEF Passed
      <4> QED BY <4>2 DEF Claimed
    <3>2. CASE writerPc' = "publish" /\ writerItem' = writerItem
      BY <2>2, <3>2 DEF Claimed
    <3> QED BY <1>0, <2>2, <3>1, <3>2, ClaimEffect
  <2> QED BY <1>4, <2>1, <2>2 DEF Claimed
<1>5. ASSUME NEW k \in SlotSet, ~slotFree'[k]
      PROVE  \E s \in Steps : SlotOf(s) = k /\ Released' <= s /\ Claimed(s)'
  <2>1. CASE WriterClaim /\ k = writerItem.slot
    <3>1. writerItem \in Assigned /\ writerItem.step \in Steps
      BY <2>1, <1>0, ConstantFacts DEF WriterClaim, Assigned, Busy, TypeInv, WriterInv
    <3>2. writerItem' = writerItem /\ writerPc' = "publish" /\ mainPc' = mainPc /\ collectives' = collectives
      BY <2>1 DEF WriterClaim, mainVars
    <3>3. SlotOf(writerItem.step) = k /\ Released <= writerItem.step /\ Released' = Released
      BY <2>1, <3>1, <3>2, <1>2 DEF Shared, AssignedInv, Released
    <3>4. \A s \in Steps : s = writerItem.step => Claimed(s)'
      BY <3>2 DEF Claimed
    <3> QED BY <3>1, <3>3, <3>4
  <2>2. CASE ~slotFree[k]
    <3>1. PICK s \in Steps : SlotOf(s) = k /\ Released <= s /\ Claimed(s)
      BY <2>2, <1>2
    <3>2. Claimed(s)' /\ s \in Nat
      BY <3>1, <1>4, ConstantFacts
    <3>3. Released' <= s
      <4>1. CASE Released' = Released
        BY <3>1, <4>1
      <4>2. CASE MainRelease(0) /\ Released = mainStep[0] /\ Released' = mainStep[0] + 1
        <5>1. k # SlotOf(mainStep[0])
          BY <1>0, <1>5, <4>2, ClaimEffect
        <5>2. s # mainStep[0]
          BY <3>1, <5>1
        <5> QED BY <3>1, <3>2, <5>2, <4>2, <1>0
      <4> QED BY <1>1, <4>1, <4>2
    <3> QED BY <3>1, <3>2, <3>3
  <2> QED BY <1>0, <1>5, <2>1, <2>2, ClaimEffect
<1> QED BY <1>3, <1>5

-----------------------------------------------------------------------------
(* The invariant of the pipeline *)

\* e is the step the writer has dropped, Stop if none.
PipelineInv(e) ==
  /\ Shared /\ IdleInv /\ OrderInv /\ AlignInv /\ BarrierInv /\ TrainedInv
  /\ ClaimInv /\ ClaimNeverWaits /\ (~TeacherMayFail => NoErrorInv)
  /\ FileInv(e) /\ FrontInv(e) /\ \A q \in Ranks \ {0} : LoadInv(q, e)
  /\ e = Stop => RankInv(0) /\ HandPos
  /\ e # Stop => Lost(e)

\* It holds before train() begins.
LEMMA InitPipeline ==
  ASSUME Init PROVE PipelineInv(Stop)
<1>1. Shared /\ (\A r \in Ranks : RankInv(r)) /\ HandPos /\ NoErrorInv /\ TypeInv /\ 0 \in Ranks
  BY InitShared, ConstantFacts DEF Shared
<1>2. Assigned = {} /\ Queued = {} /\ ~Busy
  BY DEF Init, Assigned, Queued, Busy
<1>3. IdleInv /\ OrderInv /\ ClaimNeverWaits
  BY <1>1, <1>2 DEF Init, IdleInv, OrderInv, ClaimNeverWaits
<1>4. AlignInv
  <2>1. Inferred = 0
    BY DEF Init, Inferred
  <2> QED BY <2>1, <1>2 DEF Init, AlignInv, Aligned
<1>5. BarrierInv
  BY DEF Init, BarrierInv, Complete
<1>6. TrainedInv
  BY DEF Init, TrainedInv
<1>7. ClaimInv
  BY <1>2 DEF Init, ClaimInv
<1>8. FileInv(Stop)
  BY <1>1 DEF Init, FileInv
<1>9. FrontInv(Stop)
  BY <1>1 DEF Init, FrontInv, Resolved
<1>10. ASSUME NEW q \in Ranks \ {0} PROVE LoadInv(q, Stop)
  BY DEF Init, LoadInv, Resolved
<1> QED BY <1>1, <1>3, <1>4, <1>5, <1>6, <1>7, <1>8, <1>9, <1>10 DEF PipelineInv

\* Rank 0 releases the slot of the step it has fetched.
LEMMA ReleaseRight ==
  ASSUME NEW e, PipelineInv(e), MainRelease(0)
  PROVE  loaded[0].slot = SlotOf(mainStep[0])
<1>1. mainPc[0] = "release" /\ Complete(0)
  BY DEF MainRelease
<1>2. Fine(mainStep[0], e)
  <2>1. CASE e = Stop
    BY <2>1 DEF Fine
  <2>2. CASE e # Stop
    BY <1>1, <2>2, LostBehind DEF PipelineInv, Fine
  <2> QED BY <2>1, <2>2
<1>3. loaded[0] = Batch(mainStep[0], SlotOf(mainStep[0]))
  BY <1>1, <1>2 DEF PipelineInv, FrontInv
<1> QED BY <1>3 DEF Batch

\* A rank fetches only steps of the run.
LEMMA FetchBound ==
  ASSUME NEW e, PipelineInv(e), NEW r \in Ranks, MainFetch(r)
  PROVE  mainStep[r] < Total
<1>0. TypeInv /\ Count(r) /\ mainPc[r] = "fetch" /\ Resolved(r) /\ Start \in Nat /\ Total \in Nat
  BY PipelineAssumption DEF PipelineInv, Shared, MainFetch, Resolved
<1>1. mainStep[r] \in Nat /\ mainStep[r] >= Start /\ Taken(r) = mainStep[r] + 1
  BY <1>0, RankTypes, FetchPos
<1>2. CASE r = 0 /\ e # Stop
  <2>1. collectives[0] = 1 + 2 * (mainStep[0] - Start) /\ collectives[0] <= 2 + 2 * (e - Start) /\ e \in Steps
    BY <1>0, <1>2 DEF Count, PipelineInv, Lost
  <2>2. e \in Nat /\ e < Total
    BY <2>1, <1>0 DEF Steps
  <2>3. mainStep[0] <= e
    BY <1>0, <1>1, <1>2, <2>1, <2>2
  <2> QED BY <1>0, <1>1, <1>2, <2>2, <2>3
<1>3. CASE r # 0 \/ e = Stop
  <2>1. FullChain(r)
    BY <1>3 DEF PipelineInv, Shared, RankInv, Chain
  <2>2. Taken(r) + Len(Ready(r)) + Held(r) + Len(Work(r)) = Submitted(r)
    BY <1>0, <2>1 DEF FullChain
  <2>3. Len(Ready(r)) \in Nat /\ Held(r) \in Nat /\ Len(Work(r)) \in Nat /\ Submitted(r) \in Nat
    BY <1>0, RankTypes
  <2>4. Submitted(r) <= Total
    BY <1>0, <1>1, PipelineAssumption DEF Submitted
  <2> QED BY <1>0, <1>1, <2>2, <2>3, <2>4
<1> QED BY <1>2, <1>3

\* The step that has been dropped after a step of the pipeline.
LEMMA LossStep ==
  ASSUME WorldSize > 1 \/ ~TeacherMayFail, NEW e \in Steps \cup {Stop}, PipelineInv(e),
         TypeInv', [Next]_vars
  PROVE  \E f \in Steps \cup {Stop} :
           /\ e = Stop \/ e = f
           /\ f # e => WriterGet
           /\ \A s \in Gone(e) : s \in Gone(f)'
           /\ Count(0)' /\ StopLast(0)'
           /\ f = Stop => RankInv(0)' /\ HandPos'
           /\ f # Stop => Lost(f)'
<1>0. /\ Shared /\ TypeInv /\ 0 \in Ranks /\ Count(0) /\ BarrierInv /\ OrderInv
      /\ \A q \in Ranks \ {0} : LoadInv(q, e)
  BY ConstantFacts DEF PipelineInv, Shared
<1>1. ASSUME NEW s \in Gone(e) PROVE s \in Gone(e)'
  <2>1. s \in Steps /\ s # e /\ Passed(s) /\ s \in Int
    BY <1>1, ConstantFacts DEF Gone
  <2>2. Passed(s)'
    BY <1>0, <2>1, PassedStep
  <2> QED BY <2>1, <2>2 DEF Gone
<1>2. CASE e # Stop
  BY <1>0, <1>1, <1>2, LostStep DEF PipelineInv
<1>3. CASE e = Stop /\ (WriterGet => Head(resQueue) # Error)
  <2>1. RankInv(0) /\ HandPos /\ AssignedInv
    BY <1>0, <1>3 DEF PipelineInv, Shared
  <2>2. RankInv(0)'
    BY <2>1, <1>0, <1>3, RankStep
  <2>3. HandPos'
    BY <2>1, <1>0, HandPosStep
  <2>4. Count(0)' /\ StopLast(0)'
    BY <2>2 DEF RankInv, Chain
  <2> QED BY <1>1, <1>3, <2>2, <2>3, <2>4
<1>4. CASE e = Stop /\ WriterGet /\ Head(resQueue) = Error
  <2>1. TeacherMayFail
    <3> SUFFICES ASSUME ~TeacherMayFail PROVE FALSE
      OBVIOUS
    <3>1. NoErrorInv /\ resQueue \in Seq(Steps \cup {Error}) /\ resQueue # <<>>
      BY <1>0, <1>4, AlignTypes DEF PipelineInv, WriterGet
    <3>2. Head(resQueue) = resQueue[1] /\ 1 \in 1 .. Len(resQueue)
      BY <3>1, Pop
    <3> QED BY <1>4, <3>1, <3>2 DEF NoErrorInv
  <2>2. RankInv(0)
    BY <1>4 DEF PipelineInv
  <2>3. PICK f : f = Head(writerWork).step
    OBVIOUS
  <2>4. /\ Lost(f)' /\ Count(0)' /\ StopLast(0)' /\ f # Stop /\ f \in Steps
        /\ \A s \in Gone(Stop) : s \in Gone(f)'
    BY <1>0, <1>4, <2>1, <2>2, <2>3, DropLost
  <2> QED BY <1>4, <2>4
<1> QED BY <1>2, <1>3, <1>4

\* Every step of the pipeline keeps the invariant; a failure of the teacher
\* changes the step it is stated for.
LEMMA PipelineStep ==
  ASSUME WorldSize > 1 \/ ~TeacherMayFail, NEW e \in Steps \cup {Stop}, PipelineInv(e), [Next]_vars
  PROVE  \E f \in Steps \cup {Stop} : PipelineInv(f)'
<1>0. /\ Shared /\ TypeInv /\ 0 \in Ranks /\ (\A r \in Ranks : Count(r) /\ StopLast(r))
      /\ BarrierInv /\ OrderInv /\ AlignInv /\ IdleInv /\ TrainedInv /\ ClaimInv /\ ClaimNeverWaits
      /\ FileInv(e) /\ FrontInv(e) /\ \A q \in Ranks \ {0} : LoadInv(q, e) /\ Chain(q)
  BY ConstantFacts DEF PipelineInv, Shared
<1>1. TypeInv'
  BY <1>0, TypeStep
<1>2. PICK f \in Steps \cup {Stop} :
           /\ e = Stop \/ e = f
           /\ f # e => WriterGet
           /\ \A s \in Gone(e) : s \in Gone(f)'
           /\ Count(0)' /\ StopLast(0)'
           /\ f = Stop => RankInv(0)' /\ HandPos'
           /\ f # Stop => Lost(f)'
  BY <1>1, LossStep
<1>3. MainRelease(0) => loaded[0].slot = SlotOf(mainStep[0])
  BY ReleaseRight
<1>4. ASSUME NEW q \in Ranks \ {0} PROVE RankInv(q)'
  BY <1>0, <1>1, RankStep DEF RankInv
<1>5. Shared'
  <2>1. AssignedInv' /\ FileReuse' /\ BegunInv'
    BY <1>0, <1>1, <1>3, AssignedInvStep, FileReuseStep, BegunStep
  <2> QED BY <1>1, <1>2, <1>4, <2>1 DEF Shared, RankInv, Chain
<1>6. IdleInv' /\ OrderInv' /\ AlignInv'
  BY <1>0, <1>1, IdleStep, OrderStep, AlignStep
<1>7. BarrierInv'
  BY <1>0, <1>1, BarrierStep
<1>8. TrainedInv'
  BY <1>0, <1>1, TrainedStep, FetchBound
<1>9. FileInv(f)'
  <2>1. ASSUME WriterPublish PROVE writerItem.step # f
    <3>1. ~WriterGet /\ writerItem \in Assigned /\ writerItem.step \in Steps
      BY <1>0, <2>1, ConstantFacts DEF WriterPublish, WriterGet, Assigned, Busy, TypeInv,
         WriterInv
    <3>2. CASE f = Stop
      BY <3>1, <3>2, PipelineAssumption DEF Steps
    <3>3. CASE f # Stop
      <4>1. Passed(f)
        BY <1>2, <3>1, <3>3 DEF PipelineInv, Lost
      <4>2. f < writerItem.step /\ f \in Steps
        BY <3>1, <3>3, <4>1 DEF Passed
      <4> QED BY <4>2, <3>1, ConstantFacts
    <3> QED BY <3>2, <3>3
  <2> QED BY <1>0, <1>1, <1>2, <2>1, FileInvStep
<1>10. FrontInv(f)'
  <2>1. ASSUME WriterBuffer, Fine(Taken(0) + Len(rank0Buffer), f)
        PROVE  writerItem.step = Taken(0) + Len(rank0Buffer)
    <3>1. e = f /\ writerPc = "buffer"
      BY <1>2, <2>1 DEF WriterBuffer, WriterGet
    <3>2. CASE e = Stop
      BY <3>1, <3>2 DEF PipelineInv, HandPos
    <3>3. CASE e # Stop
      <4>1. Taken(0) + Len(rank0Buffer) >= e /\ e \in Nat /\ Taken(0) \in Nat /\ Len(rank0Buffer) \in Nat
        BY <1>0, <3>3, RankTypes, ConstantFacts DEF PipelineInv, Lost, TypeInv, WriterInv,
           WriterType
      <4> QED BY <2>1, <3>1, <3>3, <4>1 DEF Fine
    <3> QED BY <3>2, <3>3
  <2> QED BY <1>0, <1>1, <1>2, <2>1, FrontStep
<1>11. ASSUME NEW q \in Ranks \ {0} PROVE LoadInv(q, f)'
  BY <1>0, <1>1, <1>2, LoadStep
<1>12. ClaimInv'
  BY <1>0, <1>1, <1>3, ClaimStep
<1>13. ClaimNeverWaits'
  <2>1. CASE Alive(0)'
    <3>1. /\ TypeInv' /\ Count(0)' /\ AssignedInv' /\ OrderInv' /\ BarrierInv' /\ ClaimInv' /\ Alive(0)'
          => ClaimNeverWaits'
      BY ClaimFree, PTL
    <3> QED BY <3>1, <2>1, <1>1, <1>2, <1>5, <1>6, <1>7, <1>12 DEF Shared
  <2>2. CASE ~Alive(0)'
    BY <1>0, <2>2, ClaimEffect DEF ClaimNeverWaits
  <2> QED BY <2>1, <2>2
<1>14. ~TeacherMayFail => NoErrorInv'
  BY <1>0, NoErrorStep DEF PipelineInv
<1> QED BY <1>2, <1>5, <1>6, <1>7, <1>8, <1>9, <1>10, <1>11, <1>12, <1>13, <1>14 DEF PipelineInv

\* The invariant holds for the step the writer dropped, or for none.
Delivered == \E e \in Steps \cup {Stop} : PipelineInv(e)

\* It holds throughout the run, with every failure, unless rank 0 is alone with a
\* teacher that fails.
LEMMA DeliveredAlways ==
  ASSUME WorldSize > 1 \/ ~TeacherMayFail PROVE Spec => []Delivered
<1>1. Init => Delivered
  BY InitPipeline DEF Delivered
<1>2. Delivered /\ [Next]_vars => Delivered'
  BY PipelineStep DEF Delivered
<1> QED BY <1>1, <1>2, PTL DEF Spec

\* _publish never overwrites a slot some other rank's loader has yet to copy,
\* whatever fails: the teacher, the files under /dev/shm or a wait.
THEOREM SlotSafety == Spec => []UnreadSlotKept
<1>1. CASE WorldSize > 1
  <2>1. Delivered => UnreadSlotKept
    BY SharedSuffices DEF Delivered, PipelineInv
  <2> QED BY <1>1, <2>1, DeliveredAlways, PTL
<1>2. CASE ~(WorldSize > 1)
  <2>1. Ranks \ {0} = {}
    BY <1>2, PipelineAssumption DEF Ranks
  <2>2. UnreadSlotKept
    BY <2>1 DEF UnreadSlotKept, KeptFor
  <2> QED BY <2>2, PTL
<1> QED BY <1>1, <1>2

\* In a distributed run the writer always finds its slot free: the wait in
\* _ShmWriterThread._loop never blocks and its timeout branch never runs, also
\* after the teacher, the files or a wait has failed.
THEOREM SlotIsFree == Spec => []ClaimNeverWaits
<1>1. CASE WorldSize > 1
  <2>1. Delivered => ClaimNeverWaits
    BY DEF Delivered, PipelineInv
  <2> QED BY <1>1, <2>1, DeliveredAlways, PTL
<1>2. CASE ~(WorldSize > 1)
  <2>1. ClaimNeverWaits
    BY <1>2 DEF ClaimNeverWaits
  <2> QED BY <2>1, PTL
<1> QED BY <1>1, <1>2

-----------------------------------------------------------------------------
(* The pipeline implements lockstep training *)

\* The data a rank trains on is that of the step it is at.
LEMMA TrainsOnStep ==
  ASSUME NEW e, PipelineInv(e), NEW r \in Ranks, mainPc[r] = "train"
  PROVE  loaded[r].data = mainStep[r] /\ mainStep[r] < Total /\ Complete(r)
<1>1. mainStep[r] < Total /\ Complete(r)
  BY DEF PipelineInv, TrainedInv, BarrierInv
<1>2. CASE r # 0
  BY <1>1, <1>2 DEF PipelineInv, LoadInv
<1>3. CASE r = 0
  <2>1. Fine(mainStep[0], e)
    <3>1. CASE e = Stop
      BY <3>1 DEF Fine
    <3>2. CASE e # Stop
      BY <1>1, <1>3, <3>2, LostBehind DEF PipelineInv, Fine
    <3> QED BY <3>1, <3>2
  <2>2. loaded[0] = Batch(mainStep[0], SlotOf(mainStep[0]))
    BY <1>3, <2>1 DEF PipelineInv, FrontInv
  <2> QED BY <1>1, <1>3, <2>2 DEF Batch
<1> QED BY <1>2, <1>3

\* A step of train() is a step of lockstep training, every other step a stutter.
LEMMA LockstepStep ==
  ASSUME NEW e, PipelineInv(e), [Next]_vars PROVE [Lockstep!Next]_trained
<1>0. TypeInv /\ BarrierInv /\ TrainedInv
  BY DEF PipelineInv, Shared
<1>1. ASSUME NEW r \in Ranks, MainTrain(r) PROVE Lockstep!Train(r)
  <2>1. mainPc[r] = "train" /\ trained' = [trained EXCEPT ![r] = Append(@, loaded[r].data)]
    BY <1>1 DEF MainTrain
  <2>2. loaded[r].data = mainStep[r] /\ mainStep[r] < Total /\ Complete(r)
    BY <2>1, TrainsOnStep
  <2>3. mainStep[r] \in Nat /\ mainStep[r] >= Start /\ Start \in Nat
    BY <1>0, RankTypes, PipelineAssumption
  <2> DEFINE n == mainStep[r] - Start
  <2>4. n \in Nat /\ mainStep[r] = Start + n
    BY <2>3
  <2>5. collectives[r] = 2 + 2 * n
    BY <2>1 DEF PipelineInv, Shared, Count
  <2> HIDE DEF n
  <2>6. Len(trained[r]) = n
    <3>1. collectives[r] # 0 /\ collectives[r] - 1 = 1 + 2 * n
      BY <2>4, <2>5
    <3>2. (1 + 2 * n) \div 2 = n
      BY <2>4, Half
    <3> QED BY <3>1, <3>2, <1>0 DEF TrainedInv
  <2>7. ASSUME NEW q \in Ranks PROVE Len(trained[q]) \in {Len(trained[r]), Len(trained[r]) + 1}
    <3>1. collectives[q] >= collectives[r] /\ collectives[q] <= collectives[r] + 1 /\ collectives[q] \in Nat
      BY <1>0, <2>2, RankTypes DEF Complete, BarrierInv
    <3>2. collectives[q] # 0 /\ (collectives[q] - 1) \div 2 \in {n, n + 1}
      <4>1. collectives[q] = 2 + 2 * n \/ collectives[q] = 3 + 2 * n
        BY <3>1, <2>4, <2>5
      <4> QED BY <4>1, <2>4
    <3>3. Len(trained[q]) = (collectives[q] - 1) \div 2
      BY <3>2, <1>0 DEF TrainedInv
    <3> QED BY <3>2, <3>3, <2>6
  <2>8. trained' = [trained EXCEPT ![r] = Append(@, Start + Len(@))]
    BY <2>1, <2>2, <2>4, <2>6
  <2>9. Start + Len(trained[r]) < Total
    BY <2>2, <2>4, <2>6
  <2> QED BY <2>7, <2>8, <2>9 DEF Lockstep!Train, Lockstep!Ranks, Ranks
<1>2. trained' = trained \/ \E r \in Ranks : MainTrain(r)
  BY DEF Next, Prefetcher, PrefetchInfer, PrefetchPut, PrefetchStop, Writer, WriterGet,
     WriterBuffer, WriterClaim, WriterTimeout, WriterFail, WriterPublish, WriterStop, Loader,
     LoaderOpen, LoaderCopy, LoaderTimeout, LoaderFail, LoaderPut, LoaderStop, Main, MainBegin,
     MainPrime, MainFetch, MainRaise, MainRelease, MainStepEnd, MainStop,
     FutureRun, Killed, LauncherKill, GroupTimeout, Terminated, vars, mainVars
<1> QED BY <1>1, <1>2 DEF Lockstep!Next, Lockstep!Ranks, Ranks

\* train() on all ranks implements lockstep training: every rank trains on the
\* data of exactly the steps it has run, in order and with its peers, with
\* failures of the teacher, the files and the waits included.  One rank alone has
\* nobody to keep it from training past a step the teacher failed on, so there the
\* theorem needs a teacher that does not fail.
THEOREM TrainsInLockstep ==
  ASSUME WorldSize > 1 \/ ~TeacherMayFail PROVE Spec => StaysInLockstep
<1>1. Init => Lockstep!Init
  BY DEF Init, Lockstep!Init, Lockstep!Ranks, Ranks
<1>2. Delivered /\ [Next]_vars => [Lockstep!Next]_trained
  BY LockstepStep DEF Delivered
<1> QED BY <1>1, <1>2, DeliveredAlways, PTL DEF Spec, StaysInLockstep, Lockstep!SafeSpec
=============================================================================

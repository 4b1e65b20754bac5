------------------------ MODULE FileCheckpointProofs ------------------------
(***************************************************************************)
(* Proofs about FileCheckpoint: for every save interval, limit, number of  *)
(* steps and number of crashes, the directory never holds more files than  *)
(* save_total_limit beside those that could not be removed, the schedule   *)
(* drifts by at most one step per restart, and a job that resumes the only *)
(* training of its directory starts from the newest completed checkpoint.  *)
(***************************************************************************)
EXTENDS FileCheckpoint, NumberLemmas

\* A process is at work between a start and its end.
Working == pc \in {"train", "prune", "write"}

\* The file of a step is only written after a step that saves, and the
\* directory was pruned for it.
SaveInv ==
  /\ Cardinality(names \ leftover) <= Limit
  /\ pc \in {"prune", "write"} => step \in SavePoints
  /\ pc = "write" => step \in names

\* What this pass has passed over and is still there is left over.
CursorInv ==
  cursor # 0 => /\ pc = "prune" /\ UnlinkMayFail
                /\ \A n \in names : n <= cursor => n \in leftover

\* The payload of a file was on the schedule its process was on.
OnSchedule(s, e, c) ==
  /\ kind = "sddd" => e \in s .. (s + c)
  /\ kind = "rl" => e <= s

\* A job that is down was either never started or has crashed since the last
\* save: what it may restore is one restart behind the bound.
DriftInv ==
  /\ ScheduleDrift
  /\ crashes = 0 /\ ~Working /\ pc # "finished" => names = {}
  /\ \A n \in SavePoints :
       OnSchedule(saved[n].step, saved[n].epoch,
                  IF pc \in {"down", "broken"} /\ crashes > 0 THEN crashes - 1 ELSE crashes)

\* The directory of a single training: last is the newest complete file, only
\* one above it can be truncated, and only the file of the step being written is
\* while the process is at work.
SingleDir ==
  /\ last # 0 => last \in SavePoints /\ saved[last].step = last
  /\ \A n \in names : n \in torn \/ n <= last
  /\ \A n \in torn : n > last
  /\ names \ torn # {} => last \in names
  /\ Limit > 1 /\ last # 0 => last \in names
  /\ pc \in {"train", "prune", "finished"} => torn = {}
  /\ pc = "write" => torn = {step}

\* The progress of a single training: at most one save interval past last.
SingleProgress ==
  /\ last <= reached /\ reached - last <= SaveInterval
  /\ pc = "train" => last <= step /\ step < last + SaveInterval /\ step <= reached
  /\ pc \in {"prune", "write"} => step = last + SaveInterval /\ step <= reached

SingleInv == fresh = 1 /\ NoStaleFile => SingleDir /\ SingleProgress

\* Before the first start there is nothing.
StartInv == fresh = 0 => pc = "down" /\ names = {} /\ torn = {} /\ last = 0

IInv == TypeOK /\ SaveInv /\ CursorInv /\ DriftInv /\ SingleInv /\ StartInv

-----------------------------------------------------------------------------
(* Facts about the directory *)

\* What the numbers of the configuration are.
LEMMA Constants ==
  /\ SaveInterval \in Nat /\ SaveInterval > 0 /\ SaveInterval \in Nat \ {0}
  /\ Limit \in Nat /\ Limit > 0
  /\ Total \in Nat /\ MaxCrashes \in Nat /\ UnlinkMayFail \in BOOLEAN
  /\ SavePoints \in SUBSET Nat
  /\ \A n \in SavePoints : n \in Nat /\ n > 0 /\ n <= Total /\ n % SaveInterval = 0
BY FileCheckpointAssumption DEF SavePoints

\* A set of file names is finite, and has a first and a last when not empty.
LEMMA NameSet ==
  ASSUME NEW S \in SUBSET SavePoints
  PROVE  /\ IsFiniteSet(S) /\ Cardinality(S) \in Nat
         /\ S # {} => /\ Newest(S) \in S /\ \A t \in S : t <= Newest(S)
                      /\ Oldest(S) \in S /\ \A t \in S : Oldest(S) <= t
<1>1. S \in SUBSET Nat /\ \A s \in S : s <= Total
  BY Constants
<1>2. IsFiniteSet(S) /\ Cardinality(S) \in Nat
  BY <1>1, Constants, FS_BoundedSetOfNaturals, FS_CardinalityType
<1>3. S # {} => \E s \in S : \A t \in S : t <= s
  BY <1>1, Constants, GreatestNumber
<1>4. S # {} => \E s \in S : \A t \in S : s <= t
  BY <1>1, LeastNumber
<1> QED BY <1>2, <1>3, <1>4 DEF Newest, Oldest

-----------------------------------------------------------------------------
(* The invariant holds at the start and is kept by every step *)

\* An empty directory and no process.
LEMMA InitIInv == Init => IInv
<1> SUFFICES ASSUME Init PROVE IInv
  OBVIOUS
<1> USE Constants
<1>1. TypeOK
  BY DEF Init, TypeOK, Payloads, Runs, Epochs
<1>2. SaveInv
  BY FS_EmptySet DEF Init, SaveInv
<1>5. CursorInv
  BY DEF Init, CursorInv
<1>3. DriftInv
  BY DEF Init, DriftInv, ScheduleDrift, OnSchedule, Working
<1>4. SingleInv /\ StartInv
  BY DEF Init, SingleInv, StartInv
<1> QED BY <1>1, <1>2, <1>3, <1>4, <1>5 DEF IInv

\* A training from scratch.
LEMMA StartFreshKeeps == IInv /\ StartFresh => IInv'
<1> SUFFICES ASSUME IInv, StartFresh PROVE IInv'
  OBVIOUS
<1> USE Constants DEF IInv, disk
<1>1. TypeOK'
  BY DEF StartFresh, TypeOK, Runs, Epochs
<1>2. SaveInv'
  BY DEF StartFresh, SaveInv
<1>3. DriftInv'
  <2>1. ScheduleDrift'
    BY DEF StartFresh, ScheduleDrift, TypeOK
  <2>2. \A n \in SavePoints : OnSchedule(saved[n].step, saved[n].epoch, crashes)'
    BY DEF StartFresh, DriftInv, OnSchedule, TypeOK, Payloads, Epochs
  <2> QED BY <2>1, <2>2 DEF StartFresh, DriftInv, Working
<1>4. SingleInv'
  <2> SUFFICES ASSUME fresh' = 1, NoStaleFile PROVE (SingleDir /\ SingleProgress)'
    BY DEF SingleInv
  <2>1. names = {} /\ torn = {} /\ names' = {} /\ torn' = {}
    BY DEF StartFresh, StartInv, TypeOK
  <2> QED BY <2>1 DEF StartFresh, SingleDir, SingleProgress
<1>5. StartInv' /\ CursorInv'
  BY DEF StartFresh, StartInv, CursorInv, TypeOK
<1> QED BY <1>1, <1>2, <1>3, <1>4, <1>5

\* What a restart of a single training reads: its newest completed checkpoint,
\* in a directory without a truncated file.
LEMMA ResumeReadsLast ==
  ASSUME IInv, Resume, fresh = 1, NoStaleFile
  PROVE  Newest(names) = last /\ torn = {} /\ Restored.step = last /\ last \in names
<1> USE Constants DEF IInv
<1>1. names \in SUBSET SavePoints /\ names # {} /\ Newest(names) \notin torn
  BY DEF Resume, TypeOK
<1>2. Newest(names) \in names /\ \A t \in names : t <= Newest(names)
  BY <1>1, NameSet
<1>3. SingleDir
  BY DEF SingleInv
<1>4. last \in names /\ Newest(names) <= last
  BY <1>1, <1>2, <1>3 DEF SingleDir
<1>5. Newest(names) = last
  <2>1. last <= Newest(names) /\ Newest(names) \in Nat /\ last \in Nat
    BY <1>1, <1>2, <1>4 DEF TypeOK
  <2> QED BY <2>1, <1>4
<1>6. torn = {}
  BY <1>1, <1>2, <1>3, <1>5 DEF SingleDir, TypeOK
<1>7. saved[last].step = last
  BY <1>1, <1>3, <1>4 DEF SingleDir
<1> QED BY <1>4, <1>5, <1>6, <1>7 DEF Restored

\* A restart from the newest file.
LEMMA ResumeKeeps == IInv /\ Resume => IInv'
<1> SUFFICES ASSUME IInv, Resume PROVE IInv'
  OBVIOUS
<1> USE Constants DEF IInv, disk
<1> DEFINE n == Newest(names)
<1>1. n \in SavePoints /\ n \in names /\ names # {}
  BY NameSet DEF Resume, TypeOK
<1>2. saved[n] \in Payloads /\ Restored = saved[n]
  BY <1>1 DEF TypeOK, Restored
<1> HIDE DEF n
<1>3. crashes > 0 /\ OnSchedule(saved[n].step, saved[n].epoch, crashes - 1)
  BY <1>1 DEF Resume, DriftInv, Working, TypeOK
<1>4. /\ step' \in 0 .. Total /\ run' \in Runs /\ epoch' \in Epochs
      /\ kind = "sddd" => epoch' \in step' .. (step' + crashes)
      /\ kind = "rl" => epoch' <= step'
  BY <1>2, <1>3, FileCheckpointAssumption
     DEF Resume, RestoredEpoch, OnSchedule, TypeOK, Payloads, Epochs
<1>5. TypeOK'
  BY <1>4 DEF Resume, TypeOK
<1>6. SaveInv'
  BY DEF Resume, SaveInv
<1>7. DriftInv'
  <2>1. ScheduleDrift'
    BY <1>3, <1>4 DEF Resume, ScheduleDrift, TypeOK
  <2>2. \A m \in SavePoints : OnSchedule(saved[m].step, saved[m].epoch, crashes)'
    BY <1>3 DEF Resume, DriftInv, OnSchedule, TypeOK, Payloads, Epochs
  <2> QED BY <2>1, <2>2 DEF Resume, DriftInv, Working
<1>8. SingleInv'
  <2> SUFFICES ASSUME fresh' = 1, NoStaleFile PROVE (SingleDir /\ SingleProgress)'
    BY DEF SingleInv
  <2>1. torn = {} /\ step' = last /\ last \in names
    BY ResumeReadsLast DEF Resume
  <2> QED BY <2>1 DEF Resume, SingleInv, SingleDir, SingleProgress, TypeOK
<1>9. StartInv' /\ CursorInv'
  BY <1>1 DEF Resume, StartInv, CursorInv
<1> QED BY <1>5, <1>6, <1>7, <1>8, <1>9

\* Steps that leave the directory and the history alone.
LEMMA StartFailsKeeps == IInv /\ StartFails => IInv'
<1> SUFFICES ASSUME IInv, StartFails PROVE IInv'
  OBVIOUS
<1> USE Constants DEF IInv, disk, StartFails
<1>1. TypeOK' /\ SaveInv' /\ StartInv' /\ CursorInv'
  BY DEF TypeOK, SaveInv, StartInv, CursorInv
<1>2. DriftInv'
  BY DEF DriftInv, ScheduleDrift, OnSchedule, Working, TypeOK
<1>3. SingleInv'
  BY DEF SingleInv, SingleDir, SingleProgress
<1> QED BY <1>1, <1>2, <1>3

\* One update.  With a single training the step that saves is one interval
\* after last.
LEMMA TrainKeeps == IInv /\ Train => IInv'
<1> SUFFICES ASSUME IInv, Train PROVE IInv'
  OBVIOUS
<1> USE Constants DEF IInv, disk
<1>0. /\ step \in Nat /\ epoch \in Nat /\ step < Total /\ crashes \in Nat
      /\ crashes <= MaxCrashes /\ pc = "train" /\ kind \in {"rl", "sddd"} /\ reached \in 0 .. Total
  BY FileCheckpointAssumption DEF Train, TypeOK, Epochs
<1>1. TypeOK'
  <2>1. epoch <= step + crashes
    BY <1>0 DEF DriftInv, ScheduleDrift
  <2>2. epoch + 1 \in Epochs
    BY <1>0, <2>1 DEF Epochs
  <2>3. step' \in 0 .. Total /\ reached' \in 0 .. Total /\ epoch' \in Epochs
    BY <1>0, <2>2 DEF Train
  <2> QED BY <2>3 DEF Train, TypeOK
<1>2. SaveInv'
  BY <1>0 DEF Train, SaveInv, Due, SavePoints
<1>3. DriftInv'
  <2>1. ScheduleDrift'
    BY <1>0 DEF Train, DriftInv, ScheduleDrift
  <2>2. \A n \in SavePoints : OnSchedule(saved[n].step, saved[n].epoch, crashes)'
    BY <1>0 DEF Train, DriftInv, OnSchedule
  <2> QED BY <2>1, <2>2 DEF Train, DriftInv, Working
<1>4. SingleInv'
  <2> SUFFICES ASSUME fresh' = 1, NoStaleFile PROVE (SingleDir /\ SingleProgress)'
    BY DEF SingleInv
  <2>1. SingleDir /\ SingleProgress
    BY DEF Train, SingleInv
  <2>2. SingleDir'
    BY <2>1, <1>0 DEF Train, SingleDir
  <2>3. /\ last \in Nat /\ last <= step /\ step < last + SaveInterval /\ step <= reached
        /\ last <= reached /\ reached - last <= SaveInterval
    BY <2>1, <1>0 DEF SingleProgress, TypeOK
  <2>4. last % SaveInterval = 0
    <3>1. CASE last = 0
      BY <3>1
    <3>2. CASE last # 0
      BY <3>2, <2>1 DEF SingleDir
    <3> QED BY <3>1, <3>2
  <2>5. CASE Due(step + 1)
    <3>1. (step + 1) % SaveInterval = 0 /\ last < step + 1
      BY <2>5, <2>3, <1>0 DEF Due
    <3>2. last + SaveInterval <= step + 1
      <4> DEFINE s == step + 1
      <4>1. s \in Nat /\ last \in Nat /\ s % SaveInterval = 0 /\ last < s
        BY <3>1, <2>3, <1>0
      <4> HIDE DEF s
      <4>2. last + SaveInterval <= s
        BY <4>1, <2>4, DivisibleApart
      <4> QED BY <4>2 DEF s
    <3> QED BY <2>5, <3>2, <2>2, <2>3, <1>0 DEF Train, SingleProgress
  <2>6. CASE ~Due(step + 1)
    <3>1. step + 1 # last + SaveInterval
      BY <2>6, <2>3, <2>4, DivisibleNext DEF Due
    <3> QED BY <2>6, <3>1, <2>2, <2>3, <1>0 DEF Train, SingleProgress
  <2> QED BY <2>5, <2>6
<1>5. StartInv' /\ CursorInv'
  BY <1>0 DEF Train, StartInv, CursorInv
<1> QED BY <1>1, <1>2, <1>3, <1>4, <1>5

\* The end of the training.
LEMMA FinishKeeps == IInv /\ Finish => IInv'
<1> SUFFICES ASSUME IInv, Finish PROVE IInv'
  OBVIOUS
<1> USE Constants DEF IInv, disk, Finish
<1>1. TypeOK' /\ SaveInv' /\ StartInv' /\ CursorInv'
  BY DEF TypeOK, SaveInv, StartInv, CursorInv
<1>2. DriftInv'
  BY DEF DriftInv, ScheduleDrift, OnSchedule, Working, TypeOK
<1>3. SingleInv'
  BY DEF SingleInv, SingleDir, SingleProgress
<1> QED BY <1>1, <1>2, <1>3

\* The victim of a pruning loop is in the directory, and is the oldest of what is
\* left of the list.
LEMMA VictimFacts ==
  ASSUME IInv, Cardinality(Listing) > Keep
  PROVE  /\ Listing \in SUBSET names /\ names \in SUBSET SavePoints
         /\ IsFiniteSet(Listing) /\ Cardinality(Listing) \in Nat
         /\ Victim \in Listing /\ \A t \in Listing : Victim <= t
         /\ Victim \in SavePoints /\ Victim > cursor
<1> USE Constants
<1>1. Listing \in SUBSET names /\ Listing \in SUBSET SavePoints
  BY DEF IInv, TypeOK, Listing
<1>2. Listing # {}
  <2>1. Keep \in Nat
    BY DEF Keep
  <2>2. Cardinality({}) = 0
    BY FS_EmptySet
  <2> QED BY <2>1, <2>2
<1>3. /\ IsFiniteSet(Listing) /\ Cardinality(Listing) \in Nat
      /\ Victim \in Listing /\ \A t \in Listing : Victim <= t
  BY <1>1, <1>2, NameSet DEF Victim
<1>4. Victim > cursor
  BY <1>3 DEF Listing
<1> QED BY <1>1, <1>3, <1>4 DEF IInv, TypeOK

\* One unlink.  With a limit above 1 there are at least two files, so the oldest
\* is not the newest.
LEMMA PruneKeeps == IInv /\ Prune => IInv'
<1> SUFFICES ASSUME IInv, Prune PROVE IInv'
  OBVIOUS
<1> USE Constants DEF IInv, disk
<1> DEFINE v == Victim
<1>0. /\ names' = names \ {v} /\ torn' = torn \ {v} /\ leftover' = leftover \ {v}
      /\ pc = "prune" /\ names \in SUBSET SavePoints /\ Cardinality(Listing) > Limit - 1
      /\ IsFiniteSet(Listing) /\ Cardinality(Listing) \in Nat
      /\ UNCHANGED <<kind, saved, pc, step, epoch, cursor, run, last, reached, fresh, crashes>>
  BY VictimFacts DEF Prune, Keep
<1>1. /\ Listing \in SUBSET names /\ v \in Listing /\ \A t \in Listing : v <= t
      /\ v > cursor /\ v \in SavePoints
  BY VictimFacts DEF Prune
<1> HIDE DEF v
<1>2. Cardinality(names' \ leftover') <= Limit
  <2>1. names' \ leftover' \in SUBSET (names \ leftover)
    BY <1>0
  <2>2. /\ IsFiniteSet(names \ leftover) /\ Cardinality(names \ leftover) \in Nat
        /\ Cardinality(names' \ leftover') \in Nat
    BY <1>0, NameSet
  <2>3. Cardinality(names' \ leftover') <= Cardinality(names \ leftover)
    BY <2>1, <2>2, FS_Subset
  <2> QED BY <2>2, <2>3 DEF SaveInv
<1>3. TypeOK'
  BY <1>0 DEF TypeOK
<1>4. SaveInv'
  BY <1>0, <1>2 DEF SaveInv
<1>5. DriftInv'
  BY <1>0 DEF DriftInv, ScheduleDrift, OnSchedule, Working, TypeOK
<1>6. SingleInv'
  <2> SUFFICES ASSUME fresh' = 1, NoStaleFile PROVE (SingleDir /\ SingleProgress)'
    BY DEF SingleInv
  <2>1. SingleDir /\ SingleProgress /\ torn = {} /\ last \in Nat
    BY <1>0 DEF SingleInv, SingleDir, TypeOK
  <2>2. \A n \in names : n <= last /\ n \in Nat
    BY <2>1, <1>0 DEF SingleDir
  <2>3. ASSUME NEW n \in Listing, n # v PROVE v # last
    BY <2>2, <2>3, <1>1
  <2>4. Limit > 1 => v # last
    <3> SUFFICES ASSUME Limit > 1, \A n \in Listing : n = v PROVE FALSE
      BY <2>3
    <3>1. Listing = {v}
      BY <1>1
    <3>2. Cardinality(Listing) = 1
      BY <3>1, FS_Singleton
    <3> QED BY <3>2, <1>0
  <2>5. ~UnlinkMayFail => Listing = names
    <3>1. ASSUME ~UnlinkMayFail PROVE cursor = 0
      BY <3>1 DEF CursorInv
    <3>2. \A n \in names : n > 0
      BY <1>0
    <3> QED BY <3>1, <3>2 DEF Listing
  <2>6. names' # {} => last \in names'
    <3> SUFFICES ASSUME NEW n \in names' PROVE last \in names'
      OBVIOUS
    <3>1. n \in names /\ n # v /\ last \in names
      BY <1>0, <2>1 DEF SingleDir
    <3>2. v # last
      BY <3>1, <2>3, <2>4, <2>5 DEF NoStaleFile
    <3> QED BY <3>1, <3>2, <1>0
  <2>7. Limit > 1 /\ last # 0 => last \in names'
    BY <1>0, <2>1, <2>4 DEF SingleDir
  <2>8. SingleDir'
    BY <1>0, <2>1, <2>2, <2>6, <2>7 DEF SingleDir
  <2> QED BY <1>0, <2>1, <2>8 DEF SingleProgress
<1>7. StartInv'
  BY <1>0 DEF StartInv
<1>8. CursorInv'
  <2>1. v \in Nat /\ cursor \in Nat /\ ~(v <= cursor)
    BY <1>1 DEF TypeOK
  <2> QED BY <1>0, <2>1 DEF CursorInv
<1> QED BY <1>3, <1>4, <1>5, <1>6, <1>7, <1>8

\* An unlink that fails changes nothing on the disk.
LEMMA PruneFailKeeps == IInv /\ PruneFail => IInv'
<1> SUFFICES ASSUME IInv, PruneFail PROVE IInv'
  OBVIOUS
<1> USE Constants DEF IInv, disk
<1>0. /\ Victim \in Listing /\ Victim \in names /\ Victim \in SavePoints
      /\ \A t \in Listing : Victim <= t
  BY VictimFacts DEF PruneFail
<1>1. TypeOK'
  BY <1>0 DEF PruneFail, TypeOK
<1>2. SaveInv'
  <2>1. names' \ leftover' \in SUBSET (names \ leftover)
    BY DEF PruneFail
  <2>2. /\ IsFiniteSet(names \ leftover) /\ Cardinality(names \ leftover) \in Nat
        /\ Cardinality(names' \ leftover') \in Nat
    BY <1>1, NameSet DEF TypeOK
  <2>3. Cardinality(names' \ leftover') <= Cardinality(names \ leftover)
    BY <2>1, <2>2, FS_Subset
  <2> QED BY <2>2, <2>3 DEF PruneFail, SaveInv
<1>3. DriftInv'
  BY DEF PruneFail, DriftInv, ScheduleDrift, OnSchedule, Working, TypeOK
<1>4. SingleInv' /\ StartInv'
  BY DEF PruneFail, SingleInv, SingleDir, SingleProgress, StartInv
<1>5. CursorInv'
  <2>1. ASSUME NEW n \in names, n <= Victim PROVE n \in leftover'
    <3>1. n \in Nat /\ n > 0 /\ cursor \in Nat /\ Victim \in Nat
      BY <1>0 DEF TypeOK
    <3>2. CASE n > cursor
      <4>1. n = Victim
        BY <1>0, <2>1, <3>1, <3>2 DEF Listing
      <4> QED BY <4>1 DEF PruneFail
    <3>3. CASE n <= cursor
      BY <3>1, <3>3 DEF CursorInv, PruneFail
    <3> QED BY <3>1, <3>2, <3>3
  <2> QED BY <2>1 DEF CursorInv, PruneFail
<1> QED BY <1>1, <1>2, <1>3, <1>4, <1>5

\* The new file is opened, empty.
LEMMA BeginWriteKeeps == IInv /\ BeginWrite => IInv'
<1> SUFFICES ASSUME IInv, BeginWrite PROVE IInv'
  OBVIOUS
<1> USE Constants DEF IInv, disk
<1> DEFINE live == names \ leftover
<1>0. /\ IsFiniteSet(live) /\ Cardinality(live) \in Nat /\ Cardinality(live) <= Limit - 1
      /\ pc = "prune" /\ step \in SavePoints /\ names \in SUBSET SavePoints
  <2>1. /\ pc = "prune" /\ step \in SavePoints /\ names \in SUBSET SavePoints
        /\ Cardinality(Listing) <= Limit - 1 /\ cursor \in Nat
    BY DEF BeginWrite, TypeOK, Keep, SaveInv
  <2>2. live \in SUBSET Listing
    <3> SUFFICES ASSUME NEW n \in names, n \notin leftover PROVE n > cursor
      BY DEF Listing
    <3>1. n \in Nat /\ n > 0
      BY <2>1
    <3> QED BY <2>1, <3>1 DEF CursorInv
  <2>3. /\ IsFiniteSet(Listing) /\ Cardinality(Listing) \in Nat
        /\ IsFiniteSet(live) /\ Cardinality(live) \in Nat
    <3>1. Listing \in SUBSET SavePoints /\ live \in SUBSET SavePoints
      BY <2>1 DEF Listing
    <3> QED BY <3>1, NameSet
  <2>4. Cardinality(live) <= Cardinality(Listing)
    BY <2>2, <2>3, FS_Subset
  <2> HIDE DEF live
  <2> QED BY <2>1, <2>3, <2>4
<1>1. Cardinality(names' \ leftover') <= Limit
  <2>1. Cardinality(live \cup {step}) =
          IF step \in live THEN Cardinality(live) ELSE Cardinality(live) + 1
    BY <1>0, FS_AddElement
  <2>2. names' \ leftover' = live \cup {step}
    BY DEF BeginWrite, TypeOK
  <2> HIDE DEF live
  <2>3. Cardinality(live \cup {step}) <= Limit
    BY <1>0, <2>1
  <2> QED BY <2>2, <2>3
<1>2. TypeOK'
  BY <1>0 DEF BeginWrite, TypeOK
<1>3. SaveInv'
  BY <1>0, <1>1 DEF BeginWrite, SaveInv
<1>4. DriftInv'
  BY <1>0 DEF BeginWrite, DriftInv, ScheduleDrift, OnSchedule, Working, TypeOK
<1>5. SingleInv'
  <2> SUFFICES ASSUME fresh' = 1, NoStaleFile PROVE (SingleDir /\ SingleProgress)'
    BY DEF SingleInv
  <2>1. SingleDir /\ SingleProgress /\ torn = {} /\ last \in Nat /\ step = last + SaveInterval
    BY <1>0 DEF BeginWrite, SingleInv, SingleDir, SingleProgress, TypeOK
  <2>2. step \notin names
    BY <2>1, <1>0 DEF SingleDir
  <2>3. SingleDir'
    BY <1>0, <2>1, <2>2 DEF BeginWrite, SingleDir
  <2> QED BY <2>1, <2>3, <1>0 DEF BeginWrite, SingleProgress
<1>6. StartInv' /\ CursorInv'
  BY <1>0 DEF BeginWrite, StartInv, CursorInv
<1> QED BY <1>2, <1>3, <1>4, <1>5, <1>6

\* The new file is complete.
LEMMA EndWriteKeeps == IInv /\ EndWrite => IInv'
<1> SUFFICES ASSUME IInv, EndWrite PROVE IInv'
  OBVIOUS
<1> USE Constants DEF IInv, disk
<1>0. /\ pc = "write" /\ step \in SavePoints /\ step \in names /\ saved \in [SavePoints -> Payloads]
      /\ [run |-> run, step |-> step, epoch |-> epoch] \in Payloads
  BY DEF EndWrite, TypeOK, SaveInv, Payloads
<1>1. TypeOK'
  BY <1>0 DEF EndWrite, TypeOK
<1>2. SaveInv'
  BY <1>0 DEF EndWrite, SaveInv
<1>3. DriftInv'
  <2>1. ScheduleDrift'
    BY DEF EndWrite, DriftInv, ScheduleDrift
  <2>2. \A n \in SavePoints : OnSchedule(saved[n].step, saved[n].epoch, crashes)'
    <3> SUFFICES ASSUME NEW n \in SavePoints
                 PROVE  OnSchedule(saved[n].step, saved[n].epoch, crashes)'
      OBVIOUS
    <3>1. CASE n = step
      <4>1. saved'[n].step = step /\ saved'[n].epoch = epoch
        BY <3>1, <1>0 DEF EndWrite
      <4> QED BY <4>1 DEF EndWrite, DriftInv, ScheduleDrift, OnSchedule
    <3>2. CASE n # step
      <4>1. saved'[n] = saved[n]
        BY <3>2, <1>0 DEF EndWrite
      <4> QED BY <4>1, <1>0 DEF EndWrite, DriftInv, OnSchedule
    <3> QED BY <3>1, <3>2
  <2> QED BY <2>1, <2>2 DEF EndWrite, DriftInv, Working
<1>4. SingleInv'
  <2> SUFFICES ASSUME fresh' = 1, NoStaleFile PROVE (SingleDir /\ SingleProgress)'
    BY DEF SingleInv
  <2>1. /\ SingleDir /\ SingleProgress /\ torn = {step} /\ last \in Nat
        /\ step = last + SaveInterval /\ step <= reached /\ reached \in Nat
    BY <1>0 DEF EndWrite, SingleInv, SingleDir, SingleProgress, TypeOK
  <2>2. torn' = {} /\ names' = names /\ last' = step /\ saved'[step].step = step
    BY <2>1, <1>0 DEF EndWrite
  <2>3. ASSUME NEW n \in names PROVE n <= step
    <3>1. n \in Nat /\ step \in Nat
      BY <1>0 DEF TypeOK
    <3>2. n = step \/ n <= last
      BY <2>1 DEF SingleDir
    <3> QED BY <2>1, <3>1, <3>2
  <2>4. SingleDir'
    BY <1>0, <2>1, <2>2, <2>3 DEF EndWrite, SingleDir
  <2> QED BY <2>1, <2>2, <2>4, <1>0 DEF EndWrite, SingleProgress
<1>5. StartInv' /\ CursorInv'
  BY <1>0 DEF EndWrite, StartInv, CursorInv
<1> QED BY <1>1, <1>2, <1>3, <1>4, <1>5

\* The job is killed.
LEMMA CrashKeeps == IInv /\ Crash => IInv'
<1> SUFFICES ASSUME IInv, Crash PROVE IInv'
  OBVIOUS
<1> USE Constants DEF IInv, disk
<1>1. TypeOK' /\ SaveInv' /\ CursorInv'
  BY DEF Crash, TypeOK, SaveInv, CursorInv
<1>2. DriftInv'
  <2>1. crashes \in Nat /\ crashes' = crashes + 1 /\ step \in Nat
    BY DEF Crash, TypeOK
  <2>2. ScheduleDrift'
    BY <2>1 DEF Crash, DriftInv, ScheduleDrift, TypeOK, Epochs
  <2>3. \A n \in SavePoints : OnSchedule(saved[n].step, saved[n].epoch, crashes)
    BY DEF Crash, DriftInv
  <2> QED BY <2>1, <2>2, <2>3 DEF Crash, DriftInv, OnSchedule
<1>3. SingleInv' /\ StartInv'
  BY DEF Crash, SingleInv, SingleDir, SingleProgress, StartInv
<1> QED BY <1>1, <1>2, <1>3

\* IInv is inductive.
LEMMA IInvStep == IInv /\ [Next]_vars => IInv'
<1> SUFFICES ASSUME IInv, [Next]_vars PROVE IInv'
  OBVIOUS
<1>1. CASE UNCHANGED vars
  BY <1>1 DEF vars, disk, IInv, TypeOK, SaveInv, CursorInv, DriftInv, ScheduleDrift, OnSchedule, Working,
              SingleInv, SingleDir, SingleProgress, StartInv
<1>2. CASE Steps
  BY <1>2, StartFreshKeeps, ResumeKeeps, StartFailsKeeps, TrainKeeps, FinishKeeps,
     PruneKeeps, PruneFailKeeps, BeginWriteKeeps, EndWriteKeeps DEF Steps
<1>3. CASE Crash
  BY <1>3, CrashKeeps
<1> QED BY <1>1, <1>2, <1>3 DEF Next, Stopped

\* IInv holds in every reachable state.
LEMMA Invariant == Spec => []IInv
BY InitIInv, IInvStep, PTL DEF Spec

-----------------------------------------------------------------------------
(* The theorems *)

\* on_step_end's promise: however the job crashes and restarts, and whatever unlink
\* fails, the directory never holds more than save_total_limit files, the one being
\* written included, beside those that a failed unlink has left.
THEOREM PeakBounded == Spec => []PeakUsage
<1>1. IInv => PeakUsage
  BY DEF IInv, SaveInv, PeakUsage
<1> QED BY <1>1, Invariant, PTL

\* The newest completed checkpoint of a single training survives every later prune
\* and write, for every limit above 1.
THEOREM NewestSurvives == Spec => []NewestKept
<1>1. IInv => NewestKept
  <2> SUFFICES ASSUME IInv, fresh = 1, last # 0, Limit > 1 PROVE last \in names \ torn
    BY DEF NewestKept
  <2>1. SingleDir /\ last \in Nat
    BY DEF IInv, SingleInv, NoStaleFile, TypeOK
  <2> QED BY <2>1 DEF SingleDir
<1> QED BY <1>1, Invariant, PTL

\* The schedule of a resumed run is off by at most one step per restart (SDDD), and
\* never ahead (RL).
THEOREM DriftBounded == Spec => []ScheduleDrift
<1>1. IInv => ScheduleDrift
  BY DEF IInv, DriftInv
<1> QED BY <1>1, Invariant, PTL

\* A resume of a single training never goes back behind the last save, nor repeats
\* more than the steps of one save interval, for every limit above 1, and for 1 as
\* long as unlink does not fail.
THEOREM RedoBounded == Spec => BoundedRedo
<1>1. IInv /\ [Next]_vars
        => [Resume /\ fresh = 1 /\ NoStaleFile =>
              step' >= last /\ reached - step' <= SaveInterval]_vars
  <2> SUFFICES ASSUME IInv, Resume, fresh = 1, NoStaleFile
               PROVE  step' >= last /\ reached - step' <= SaveInterval
    OBVIOUS
  <2>1. step' = last /\ last \in Nat /\ reached \in Nat
    <3>1. Restored.step = last
      BY ResumeReadsLast
    <3> QED BY <3>1, Constants DEF Resume, IInv, TypeOK
  <2> QED BY <2>1, Constants DEF IInv, SingleInv, SingleProgress
<1> QED BY <1>1, Invariant, PTL DEF Spec, BoundedRedo
=============================================================================

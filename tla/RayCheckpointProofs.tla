------------------------ MODULE RayCheckpointProofs ------------------------
(***************************************************************************)
(* Proofs about RayCheckpoint, for any number of ranks, placement of them, *)
(* save interval, number of steps, crashes and new trainings: the nodes    *)
(* that are pruned never hold more than save_total_limit checkpoints       *)
(* beside what the controller could not remove; and in a directory of one  *)
(* training, with a limit of at least 3, the tracker always names a        *)
(* complete one, which is what a restart restores.                         *)
(***************************************************************************)
EXTENDS RayCheckpoint, NumberLemmas

\* The places of a save before, and after, its checkpoint is complete.
BEFORE == {"pruneController", "pruneActors", "mkdir"}
AFTER  == {"trackerText", "pruneControllerAfter", "pruneActorsAfter"}
SAVING == BEFORE \cup {"save", "tracker"} \cup AFTER

PrunedNodes == {placement.controller, Home(0)}

-----------------------------------------------------------------------------
(* Any limit *)

\* A save is of a step that is due, and a rank of the current phase or a later
\* one is left to write while there is a phase.
SaveInv ==
  /\ pc \in SAVING => step \in SavePoints
  /\ pc = "save" => phase = 0 \/ \E r \in Ranks : PhaseOf(r) >= phase
  /\ pc = "save" => \A r \in Ranks :
       progress[r].begun \in {progress[r].ended, FileAfter(progress[r].ended)}
  /\ removing => Pruning /\ Cardinality(Listing) > Keep

\* Only the controller passes over an entry, and what it has passed over in this
\* pass and is still there is left over.
CursorInv ==
  cursor # 0 =>
    /\ pc \in {"pruneController", "pruneControllerAfter"}
    /\ \A s \in dirs[placement.controller] : s <= cursor => s \in leftover

\* There is room for the checkpoint about to be written on the nodes that have
\* been pruned for it and do not hold its directory yet.
Room(n) == Cardinality(Live(n)) < Limit
RoomInv ==
  /\ \A n \in PrunedNodes : Cardinality(Live(n)) <= Limit
  /\ pc = "pruneActors" => Room(placement.controller)
  /\ pc = "mkdir" => \A n \in PrunedNodes : Room(n)
  /\ pc = "save" => \A n \in PrunedNodes : step \in Live(n) \/ Room(n)

RInv == TypeOK /\ SaveInv /\ CursorInv /\ RoomInv

-----------------------------------------------------------------------------
(* One training, and a limit of at least 3 *)

\* What the ranks have written of the checkpoint being saved.
WrittenInv ==
  /\ pc = "save" => \A r \in Ranks :
       /\ \A f \in Written : f <= progress[r].ended => files[step][r][f] = Start
       /\ PhaseOf(r) < phase => HasWritten(r)
  /\ pc \in {"tracker", "trackerText"} => Complete(step)

\* The step h that a restart would continue from: the tracker's, or the highest
\* directory there is while the tracker cannot be read.  At most one save has
\* begun since.
Tracked == tracker \in SavePoints
RestartAt(h) ==
  /\ h \in Found \cup {0}
  /\ Tracked => h = tracker
  /\ \A n \in PrunedNodes : \A s \in dirs[n] : s <= IF Tracked THEN h + SaveInterval ELSE h
  /\ pc = "train" => h <= step /\ step < h + SaveInterval
  /\ pc \in BEFORE => step = h + SaveInterval
  /\ pc \in {"save", "tracker"} =>
       step \in Found /\ step = IF Tracked THEN h + SaveInterval ELSE h
  /\ pc \in AFTER => step = h
  /\ pc = "trackerText" => ~Tracked
  /\ pc = "down" => h <= reached /\ reached <= h + SaveInterval

RestartInv == \E h \in SavePoints \cup {0} : RestartAt(h)

WholeTracked == Tracked => Complete(tracker)

IInv == RInv /\ WrittenInv /\ RestartInv /\ WholeTracked

\* ... as long as there is only one.
OneTraining == RInv /\ (trainings = 1 => IInv)

-----------------------------------------------------------------------------
(* Constants, cardinalities and the order of the files *)

\* The parameters are numbers, and save points are steps of the run.
LEMMA Constants ==
  /\ WorldSize \in Nat \ {0} /\ SaveInterval \in Nat \ {0} /\ Limit \in Nat \ {0}
  /\ Total \in Nat /\ MaxStarts \in Nat \ {0}
  /\ SavePoints \subseteq 1 .. Total /\ SavePoints \subseteq Nat
  /\ \A s \in SavePoints : s \in Nat /\ s >= 1 /\ s % SaveInterval = 0
  /\ 0 \in Ranks /\ Starts \subseteq Nat
BY CheckpointAssumption DEF SavePoints, Ranks, Starts

\* The nodes hold finitely many checkpoints.
LEMMA DirsFinite ==
  ASSUME NEW S \in SUBSET SavePoints
  PROVE  IsFiniteSet(S) /\ Cardinality(S) \in Nat
<1>1. IsFiniteSet(1 .. Total)
  BY Constants, FS_Interval
<1> QED
  BY <1>1, Constants, FS_Subset, FS_CardinalityType

\* The controller and rank 0 are on nodes of the job.
LEMMA HomesAreNodes ==
  ASSUME placement \in Placements
  PROVE  /\ placement.controller \in Nodes /\ \A r \in Ranks : Home(r) \in Nodes
         /\ PrunedNodes \subseteq Nodes /\ PrunedNode \in PrunedNodes
<1>1. placement.controller \in Nodes /\ \A r \in Ranks : Home(r) \in Nodes
  BY CheckpointAssumption DEF Home
<1> QED
  BY <1>1, Constants DEF PrunedNodes, PrunedNode

\* A rank's phase is less than the number of ranks.
LEMMA PhaseBound ==
  ASSUME NEW r \in Ranks
  PROVE  PhaseOf(r) \in 0 .. (WorldSize - 1)
<1> DEFINE S == {q \in Ranks : q < r /\ Home(q) = Home(r)}
<1>1. S \subseteq 0 .. (r - 1) /\ r \in Nat /\ r <= WorldSize - 1
  BY Constants DEF Ranks
<1>2. IsFiniteSet(0 .. (r - 1)) /\ Cardinality(0 .. (r - 1)) <= r
  <2>1. 0 \in Int /\ r - 1 \in Int
    BY <1>1
  <2>2. /\ IsFiniteSet(0 .. (r - 1))
        /\ Cardinality(0 .. (r - 1)) = IF 0 > r - 1 THEN 0 ELSE r - 1 - 0 + 1
    BY <2>1, FS_Interval, Zenon
  <2> QED
    BY <1>1, <2>2
<1>3. Cardinality(S) \in Nat /\ Cardinality(S) <= Cardinality(0 .. (r - 1))
  BY <1>1, <1>2, FS_Subset, FS_CardinalityType
<1>4. Cardinality(0 .. (r - 1)) \in Nat
  BY <1>2, FS_CardinalityType
<1> QED
  BY <1>1, <1>2, <1>3, <1>4, Constants DEF PhaseOf

\* FileAfter(n) is the least file written after the n-th.
LEMMA NextFile ==
  ASSUME NEW n \in -1 .. 4
  PROVE  /\ FileAfter(n) \in Written \cup {5} /\ FileAfter(n) > n
         /\ \A g \in Written : g > n => FileAfter(n) <= g
         /\ Written \subseteq 1 .. 4
<1>1. Written \subseteq 1 .. 4 /\ {1, 2, 4} \subseteq Written
  BY DEF Written, FileNames, Parameter
<1>2. \E f \in Written \cup {5} : f > n /\ \A g \in Written \cup {5} : g > n => f <= g
  BY <1>1
<1> QED
  BY <1>1, <1>2 DEF FileAfter

\* What the pruning of a node with too many checkpoints picks.
LEMMA PruneFacts ==
  ASSUME RInv, Cardinality(Listing) > Keep
  PROVE  /\ PrunedNode \in Nodes /\ PrunedNode \in PrunedNodes
         /\ dirs[PrunedNode] \in SUBSET SavePoints
         /\ Listing \in SUBSET dirs[PrunedNode]
         /\ Oldest \in Listing /\ Oldest \in SavePoints /\ Oldest > cursor
         /\ \A t \in Listing : Oldest <= t
<1>1. /\ PrunedNode \in Nodes /\ PrunedNode \in PrunedNodes
      /\ dirs[PrunedNode] \in SUBSET SavePoints
  BY HomesAreNodes DEF RInv, TypeOK
<1>2. Keep \in Nat
  BY Constants DEF Keep
<1>3. Listing # {}
  BY <1>2, FS_EmptySet
<1>4. Listing \in SUBSET dirs[PrunedNode] /\ Listing \in SUBSET Nat
  BY <1>1, Constants DEF Listing
<1>5. \E s \in Listing : \A t \in Listing : s <= t
  BY <1>3, <1>4, LeastNumber
<1>6. Oldest \in Listing /\ \A t \in Listing : Oldest <= t
  BY <1>5 DEF Oldest
<1>7. Oldest > cursor
  BY <1>6 DEF Listing
<1> QED
  BY <1>1, <1>4, <1>6, <1>7

\* Files that are removed are of their type.
LEMMA WithoutType ==
  ASSUME TypeOK, NEW s \in SavePoints, NEW gone
  PROVE  /\ Without(s, gone) \in
              [SavePoints -> [Ranks -> [FileNames -> Starts \cup {Absent, Torn}]]]
         /\ \A t \in SavePoints : t # s => Without(s, gone)[t] = files[t]
BY DEF TypeOK, Without

\* The step a restart continues from is 0 or that of a directory.
LEMMA LatestType ==
  ASSUME TypeOK
  PROVE  Latest \in Found \cup {0} /\ Latest \in 0 .. Total
<1>1. Found \in SUBSET Nat /\ Found \subseteq 1 .. Total
  BY Constants, HomesAreNodes DEF TypeOK, Found
<1>2. CASE Found # {}
  <2> DEFINE highest == CHOOSE s \in Found : \A t \in Found : s >= t
  <2>1. Total \in Nat /\ \A k \in Found : k <= Total
    BY <1>1, Constants
  <2>2. \E m \in Found : \A k \in Found : k <= m
    BY <1>1, <1>2, <2>1, GreatestNumber
  <2>3. highest \in Found
    BY <1>1, <2>2
  <2>4. Latest = IF tracker \in Found THEN tracker ELSE highest
    BY <1>2 DEF Latest
  <2> HIDE DEF highest
  <2>5. Latest \in Found
    BY <2>3, <2>4
  <2> QED
    BY <1>1, <2>1, <2>5
<1>3. CASE Found = {}
  BY <1>3, Constants DEF Latest
<1> QED
  BY <1>2, <1>3

-----------------------------------------------------------------------------
(* Steps, for any limit *)

USE DEF BEFORE, AFTER, SAVING, Pcs, disk, pass, history, Start

\* What a step that leaves the directories alone leaves alone.
LEMMA LiveSame ==
  ASSUME UNCHANGED <<placement, dirs, leftover>>
  PROVE  \A n : Live(n)' = Live(n)
BY DEF Live

\* A step that is not saved writes nothing.
LEMMA TrainRoom ==
  ASSUME RInv, Train
  PROVE  RInv'
<1> USE Constants, HomesAreNodes DEF RInv
<1>1. TypeOK'
  BY DEF TypeOK, SaveInv, SavePoints, Train, Due
<1>2. SaveInv'
  BY DEF TypeOK, SaveInv, SavePoints, Pruning, Train, Due
<1>3. RoomInv'
  BY LiveSame DEF RoomInv, Room, PrunedNodes, Home, Train, Due
<1>4. CursorInv'
  BY DEF TypeOK, CursorInv, Train, Due
<1> QED
  BY <1>1, <1>2, <1>3, <1>4

\* The end of the run writes nothing.
LEMMA FinishRoom ==
  ASSUME RInv, Finish
  PROVE  RInv'
<1> USE Constants, HomesAreNodes DEF RInv
<1>1. TypeOK'
  BY DEF TypeOK, SaveInv, Finish
<1>2. SaveInv'
  BY DEF TypeOK, SaveInv, Pruning, PhaseOf, Home, Finish
<1>3. RoomInv'
  BY LiveSame DEF RoomInv, Room, PrunedNodes, Home, Finish
<1>4. CursorInv'
  BY DEF TypeOK, CursorInv, Finish
<1> QED
  BY <1>1, <1>2, <1>3, <1>4

\* A pass removes from a node that holds more than it keeps.
LEMMA PruneBeginRoom ==
  ASSUME RInv, PruneBegin
  PROVE  RInv'
<1> USE Constants, HomesAreNodes DEF RInv
<1>1. TypeOK'
  <2>1. Oldest \in SavePoints
    BY PruneFacts DEF PruneBegin
  <2>2. files' \in [SavePoints -> [Ranks -> [FileNames -> Starts \cup {Absent, Torn}]]]
    BY <2>1, WithoutType DEF PruneBegin
  <2> QED
    BY <2>2 DEF TypeOK, PruneBegin
<1>2. SaveInv'
  BY DEF TypeOK, SaveInv, Pruning, PrunedNode, Listing, Home, Keep, PruneBegin
<1>3. RoomInv'
  BY LiveSame DEF RoomInv, Room, PrunedNodes, Home, Pruning, PruneBegin
<1>4. CursorInv'
  BY DEF CursorInv, PruneBegin
<1> QED
  BY <1>1, <1>2, <1>3, <1>4

\* Fewer checkpoints count against the limit.
LEMMA FewerLive ==
  ASSUME TypeOK, NEW n \in Nodes, Live(n)' \in SUBSET Live(n)
  PROVE  /\ Cardinality(Live(n)) \in Nat /\ Cardinality(Live(n)') \in Nat
         /\ Cardinality(Live(n)') <= Cardinality(Live(n))
<1>1. Live(n) \in SUBSET SavePoints
  BY DEF Live, TypeOK
<1>2. IsFiniteSet(Live(n)) /\ Cardinality(Live(n)) \in Nat
  BY <1>1, DirsFinite
<1>3. Live(n)' \in SUBSET SavePoints
  BY <1>1
<1>4. IsFiniteSet(Live(n)') /\ Cardinality(Live(n)') \in Nat
  BY <1>3, DirsFinite
<1> QED
  BY <1>2, <1>4, FS_Subset

\* A removal leaves one checkpoint fewer.
LEMMA PruneEndRoom ==
  ASSUME RInv, PruneEnd
  PROVE  RInv'
<1> USE Constants, HomesAreNodes DEF RInv
<1>0. Oldest \in SavePoints /\ Oldest \in Listing /\ Oldest > cursor
  BY PruneFacts DEF SaveInv, PruneEnd
<1>1. TypeOK'
  <2>1. files' \in [SavePoints -> [Ranks -> [FileNames -> Starts \cup {Absent, Torn}]]]
    BY <1>0, WithoutType DEF PruneEnd
  <2> QED
    BY <2>1 DEF TypeOK, PruneEnd
<1>2. SaveInv'
  BY DEF TypeOK, SaveInv, Pruning, PhaseOf, Home, PruneEnd
<1>3. RoomInv'
  <2>1. ASSUME NEW n \in PrunedNodes PROVE Live(n)' \in SUBSET Live(n)
    BY <2>1 DEF TypeOK, Live, PruneEnd
  <2>2. ASSUME NEW n \in PrunedNodes
        PROVE  /\ Cardinality(Live(n)) \in Nat /\ Cardinality(Live(n)') \in Nat
               /\ Cardinality(Live(n)') <= Cardinality(Live(n))
    <3>1. n \in Nodes /\ Live(n)' \in SUBSET Live(n)
      BY <2>1, <2>2 DEF TypeOK
    <3> QED
      BY <3>1, FewerLive
  <2> QED
    BY <2>2 DEF RoomInv, Room, PrunedNodes, Home, Pruning, PruneEnd
<1>4. CursorInv'
  <2>1. SUFFICES ASSUME cursor # 0
                 PROVE  \A s \in dirs'[placement.controller] :
                          s <= cursor => s \in leftover'
    BY DEF CursorInv, PruneEnd
  <2>2. /\ \A s \in dirs[placement.controller] : s <= cursor => s \in leftover
        /\ dirs'[placement.controller] \in SUBSET dirs[placement.controller]
    BY <2>1 DEF TypeOK, CursorInv, PruneEnd
  <2>3. ~(Oldest <= cursor)
    BY <1>0 DEF TypeOK
  <2> QED
    BY <2>2, <2>3 DEF PruneEnd
<1> QED
  BY <1>1, <1>2, <1>3, <1>4

\* What the controller could not remove is left over.
LEMMA PruneFailRoom ==
  ASSUME RInv, PruneFail
  PROVE  RInv'
<1> USE Constants, HomesAreNodes DEF RInv
<1>0. Oldest \in SavePoints /\ Oldest > cursor /\ \A t \in Listing : Oldest <= t
  BY PruneFacts DEF PruneFail
<1>1. TypeOK'
  <2>1. files' \in [SavePoints -> [Ranks -> [FileNames -> Starts \cup {Absent, Torn}]]]
    BY <1>0, WithoutType DEF PruneFail
  <2> QED
    BY <1>0, <2>1 DEF TypeOK, PruneFail
<1>2. SaveInv'
  BY DEF TypeOK, SaveInv, Pruning, PhaseOf, Home, PruneFail
<1>3. RoomInv'
  <2>1. ASSUME NEW n \in PrunedNodes PROVE Live(n)' \in SUBSET Live(n)
    BY <2>1 DEF TypeOK, Live, PruneFail
  <2>2. ASSUME NEW n \in PrunedNodes
        PROVE  /\ Cardinality(Live(n)) \in Nat /\ Cardinality(Live(n)') \in Nat
               /\ Cardinality(Live(n)') <= Cardinality(Live(n))
    <3>1. n \in Nodes /\ Live(n)' \in SUBSET Live(n)
      BY <2>1, <2>2 DEF TypeOK
    <3> QED
      BY <3>1, FewerLive
  <2> QED
    BY <2>2 DEF RoomInv, Room, PrunedNodes, Home, PruneFail
<1>4. CursorInv'
  <2>1. PrunedNode = placement.controller
    BY DEF PrunedNode, PruneFail
  <2>2. ASSUME NEW s \in dirs[placement.controller], s <= Oldest PROVE s \in leftover'
    <3>1. s \in Nat /\ cursor \in Nat /\ Oldest \in Nat
      BY <1>0 DEF TypeOK
    <3>2. CASE s > cursor
      <4>1. s \in Listing
        BY <2>1, <3>2 DEF Listing
      <4>2. s = Oldest
        BY <1>0, <2>2, <3>1, <4>1
      <4> QED
        BY <4>2 DEF PruneFail
    <3>3. CASE s <= cursor
      <4>1. cursor # 0
        BY <3>1, <3>3 DEF TypeOK
      <4> QED
        BY <3>3, <4>1 DEF CursorInv, PruneFail
    <3> QED
      BY <3>1, <3>2, <3>3
  <2> QED
    BY <2>2 DEF CursorInv, PruneFail
<1> QED
  BY <1>1, <1>2, <1>3, <1>4

\* A pass that ends leaves room on its node.
LEMMA PruneDoneRoom ==
  ASSUME RInv, PruneDone
  PROVE  RInv'
<1> USE Constants, HomesAreNodes DEF RInv
<1>1. TypeOK'
  BY DEF TypeOK, SaveInv, Pruning, PruneDone
<1>2. SaveInv'
  BY DEF TypeOK, SaveInv, Pruning, PhaseOf, Home, PruneDone
<1>3. RoomInv'
  <2>1. Live(PrunedNode) \in SUBSET Listing
    <3>1. dirs[PrunedNode] \in SUBSET SavePoints /\ cursor \in Nat
      BY DEF TypeOK
    <3>2. ASSUME NEW s \in Live(PrunedNode) PROVE s \in dirs[PrunedNode] /\ s > cursor
      <4>1. s \in dirs[PrunedNode] /\ s \in Nat /\ s >= 1
        BY <3>1, <3>2 DEF Live
      <4>2. CASE cursor # 0
        BY <3>1, <3>2, <4>1, <4>2 DEF CursorInv, PrunedNode, Live
      <4> QED
        BY <4>1, <4>2
    <3> QED
      BY <3>2 DEF Listing
  <2>2. Cardinality(Live(PrunedNode)) \in Nat /\ Cardinality(Live(PrunedNode)) <= Keep
    <3>1. Listing \in SUBSET SavePoints
      BY DEF TypeOK, Listing
    <3>2. IsFiniteSet(Listing) /\ Cardinality(Listing) \in Nat
      BY <3>1, DirsFinite
    <3>3. /\ Cardinality(Live(PrunedNode)) \in Nat
          /\ Cardinality(Live(PrunedNode)) <= Cardinality(Listing)
      BY <2>1, <3>2, FS_Subset, FS_CardinalityType
    <3>4. Cardinality(Listing) <= Keep /\ Keep \in Nat
      BY DEF PruneDone, Keep
    <3> QED
      BY <3>2, <3>3, <3>4
  <2>3. pc = "pruneController" => Room(placement.controller)
    BY <2>2 DEF PrunedNode, Keep, Room
  <2>4. pc = "pruneActors" => Room(Home(0))
    BY <2>2 DEF PrunedNode, Keep, Room
  <2> QED
    BY <2>3, <2>4, LiveSame DEF RoomInv, Room, PrunedNodes, Home, Pruning, PruneDone
<1>4. CursorInv'
  BY DEF CursorInv, PruneDone
<1> QED
  BY <1>1, <1>2, <1>3, <1>4

\* The controller's directory takes the room its node has.
LEMMA MakeDirRoom ==
  ASSUME RInv, MakeDir
  PROVE  RInv'
<1> USE Constants, HomesAreNodes DEF RInv
<1>1. TypeOK'
  BY DEF TypeOK, SaveInv, Idle, MakeDir
<1>2. SaveInv'
  BY DEF TypeOK, SaveInv, Pruning, PhaseOf, Idle, MakeDir
<1>3. RoomInv'
  <2>1. ASSUME NEW n \in PrunedNodes
        PROVE  /\ Cardinality(Live(n)') <= Limit
               /\ step \in Live(n)' \/ Cardinality(Live(n)') < Limit
    <3>1. Live(n) \in SUBSET SavePoints /\ Live(n)' \in {Live(n), Live(n) \cup {step}}
      BY <2>1 DEF TypeOK, Live, MakeDir
    <3>2. /\ IsFiniteSet(Live(n)) /\ Cardinality(Live(n)) \in Nat
          /\ Cardinality(Live(n)) <= Limit
          /\ step \in Live(n) \/ Cardinality(Live(n)) < Limit
      BY <2>1, <3>1, DirsFinite DEF RoomInv, Room, MakeDir
    <3>3. Cardinality(Live(n) \cup {step}) =
            IF step \in Live(n) THEN Cardinality(Live(n)) ELSE Cardinality(Live(n)) + 1
      BY <3>2, FS_AddElement
    <3>4. CASE Live(n)' = Live(n)
      BY <3>2, <3>4
    <3>5. CASE Live(n)' = Live(n) \cup {step}
      BY <3>2, <3>3, <3>5
    <3> QED
      BY <3>1, <3>4, <3>5
  <2> QED
    BY <2>1 DEF RoomInv, Room, PrunedNodes, Home, MakeDir
<1>4. CursorInv'
  BY DEF TypeOK, CursorInv, MakeDir
<1> QED
  BY <1>1, <1>2, <1>3, <1>4

\* Rank 0's directory takes the room its node has.
LEMMA ActorMakeDirRoom ==
  ASSUME RInv, NEW r \in Ranks, ActorMakeDir(r)
  PROVE  RInv'
<1> USE Constants, HomesAreNodes DEF RInv
<1>1. TypeOK'
  BY DEF TypeOK, SaveInv, ActorMakeDir
<1>2. SaveInv'
  BY DEF TypeOK, SaveInv, Pruning, PhaseOf, Home, ActorMakeDir
<1>3. RoomInv'
  <2>1. ASSUME NEW n \in PrunedNodes
        PROVE  /\ Cardinality(Live(n)') <= Limit
               /\ step \in Live(n)' \/ Cardinality(Live(n)') < Limit
    <3>1. Live(n) \in SUBSET SavePoints /\ Live(n)' \in {Live(n), Live(n) \cup {step}}
      BY <2>1 DEF TypeOK, Live, ActorMakeDir
    <3>2. /\ IsFiniteSet(Live(n)) /\ Cardinality(Live(n)) \in Nat
          /\ Cardinality(Live(n)) <= Limit
          /\ step \in Live(n) \/ Cardinality(Live(n)) < Limit
      BY <2>1, <3>1, DirsFinite DEF RoomInv, Room, ActorMakeDir
    <3>3. Cardinality(Live(n) \cup {step}) =
            IF step \in Live(n) THEN Cardinality(Live(n)) ELSE Cardinality(Live(n)) + 1
      BY <3>2, FS_AddElement
    <3>4. CASE Live(n)' = Live(n)
      BY <3>2, <3>4
    <3>5. CASE Live(n)' = Live(n) \cup {step}
      BY <3>2, <3>3, <3>5
    <3> QED
      BY <3>1, <3>4, <3>5
  <2> QED
    BY <2>1 DEF RoomInv, Room, PrunedNodes, Home, ActorMakeDir
<1>4. CursorInv'
  BY DEF TypeOK, CursorInv, ActorMakeDir
<1> QED
  BY <1>1, <1>2, <1>3, <1>4

\* A file being written is in a directory that is there.
LEMMA WriteBeginRoom ==
  ASSUME RInv, NEW r \in Ranks, WriteBegin(r)
  PROVE  RInv'
<1> USE Constants, HomesAreNodes DEF RInv
<1>1. TypeOK'
  <2>1. FileAfter(progress[r].begun) \in 1 .. 4 /\ progress[r].begun = progress[r].ended
    BY NextFile DEF TypeOK, WriteBegin
  <2>2. files' \in [SavePoints -> [Ranks -> [FileNames -> Starts \cup {Absent, Torn}]]]
    BY DEF TypeOK, SaveInv, WriteBegin, Writes
  <2>3. progress' \in [Ranks -> [begun : -1 .. 4, ended : -1 .. 4]]
    <3>1. progress' = [progress EXCEPT ![r].begun = FileAfter(progress[r].begun)]
      BY DEF TypeOK, WriteBegin
    <3> QED
      BY <2>1, <3>1 DEF TypeOK
  <2> QED
    BY <2>2, <2>3 DEF TypeOK, WriteBegin, Writes
<1>2. SaveInv'
  BY DEF TypeOK, SaveInv, Pruning, PhaseOf, Home, WriteBegin, Writes
<1>3. RoomInv'
  BY LiveSame DEF RoomInv, Room, PrunedNodes, Home, WriteBegin, Writes
<1>4. CursorInv'
  BY DEF TypeOK, CursorInv, WriteBegin, Writes
<1> QED
  BY <1>1, <1>2, <1>3, <1>4

\* A file that is complete is in a directory that is there.
LEMMA WriteEndRoom ==
  ASSUME RInv, NEW r \in Ranks, WriteEnd(r)
  PROVE  RInv'
<1> USE Constants, HomesAreNodes DEF RInv
<1>1. TypeOK'
  BY DEF TypeOK, SaveInv, WriteEnd, Writes
<1>2. SaveInv'
  BY DEF TypeOK, SaveInv, Pruning, PhaseOf, Home, WriteEnd, Writes
<1>3. RoomInv'
  BY LiveSame DEF RoomInv, Room, PrunedNodes, Home, WriteEnd, Writes
<1>4. CursorInv'
  BY DEF TypeOK, CursorInv, WriteEnd, Writes
<1> QED
  BY <1>1, <1>2, <1>3, <1>4

\* The next phase has ranks, or the save is over.
LEMMA PhaseBarrierRoom ==
  ASSUME RInv, PhaseBarrier
  PROVE  RInv'
<1> USE Constants, HomesAreNodes DEF RInv
<1>1. TypeOK'
  <2>1. phase < WorldSize
    BY PhaseBound DEF TypeOK, SaveInv, PhaseBarrier
  <2> QED
    BY <2>1 DEF TypeOK, PhaseBarrier
<1>2. SaveInv'
  <2>1. \A r \in Ranks : PhaseOf(r) \in Nat /\ PhaseOf(r)' = PhaseOf(r)
    BY PhaseBound DEF PhaseOf, Home, PhaseBarrier
  <2> QED
    BY <2>1 DEF TypeOK, SaveInv, Pruning, PhaseBarrier
<1>3. RoomInv'
  BY LiveSame DEF RoomInv, Room, PrunedNodes, Home, PhaseBarrier
<1>4. CursorInv'
  BY DEF TypeOK, CursorInv, PhaseBarrier
<1> QED
  BY <1>1, <1>2, <1>3, <1>4

\* Truncating the tracker creates no checkpoint.
LEMMA TrackerOpenRoom ==
  ASSUME RInv, TrackerOpen
  PROVE  RInv'
<1> USE Constants, HomesAreNodes DEF RInv
<1>1. TypeOK'
  BY DEF TypeOK, SaveInv, TrackerOpen
<1>2. SaveInv'
  BY DEF TypeOK, SaveInv, Pruning, PhaseOf, Home, TrackerOpen
<1>3. RoomInv'
  BY LiveSame DEF RoomInv, Room, PrunedNodes, Home, TrackerOpen
<1>4. CursorInv'
  BY DEF TypeOK, CursorInv, TrackerOpen
<1> QED
  BY <1>1, <1>2, <1>3, <1>4

\* Writing the tracker creates no checkpoint.
LEMMA TrackerWriteRoom ==
  ASSUME RInv, TrackerWrite
  PROVE  RInv'
<1> USE Constants, HomesAreNodes DEF RInv
<1>1. TypeOK'
  BY DEF TypeOK, SaveInv, TrackerWrite
<1>2. SaveInv'
  BY DEF TypeOK, SaveInv, Pruning, PhaseOf, Home, TrackerWrite
<1>3. RoomInv'
  BY LiveSame DEF RoomInv, Room, PrunedNodes, Home, TrackerWrite
<1>4. CursorInv'
  BY DEF TypeOK, CursorInv, TrackerWrite
<1> QED
  BY <1>1, <1>2, <1>3, <1>4

\* A crash leaves the nodes as they are.
LEMMA CrashRoom ==
  ASSUME RInv, Crash
  PROVE  RInv'
<1> USE Constants, HomesAreNodes DEF RInv
<1>1. TypeOK'
  <2>1. Idle \in [Ranks -> [begun : -1 .. 4, ended : -1 .. 4]]
    BY DEF Idle
  <2>2. /\ crashes' \in Nat /\ trainings' \in Nat \ {0} /\ Start' \in Starts
        /\ reached' \in 0 .. Total /\ phase' \in 0 .. WorldSize /\ cursor' \in 0 .. Total
    BY DEF TypeOK, Starts, Crash
  <2> QED
    BY <2>1, <2>2 DEF TypeOK, Crash
<1>2. SaveInv'
  BY DEF TypeOK, SaveInv, Pruning, PhaseOf, Home, Crash
<1>3. RoomInv'
  BY LiveSame DEF RoomInv, Room, PrunedNodes, Home, Crash
<1>4. CursorInv'
  BY DEF TypeOK, CursorInv, Crash
<1> QED
  BY <1>1, <1>2, <1>3, <1>4

\* A restart leaves the nodes as they are.
LEMMA ResumeRoom ==
  ASSUME RInv, Resume
  PROVE  RInv'
<1> USE Constants, HomesAreNodes DEF RInv
<1>1. TypeOK'
  <2>1. Latest \in 0 .. Total
    BY LatestType DEF TypeOK
  <2> QED
    BY <2>1 DEF TypeOK, Resume
<1>2. SaveInv'
  BY DEF TypeOK, SaveInv, Pruning, PhaseOf, Home, Resume
<1>3. RoomInv'
  BY LiveSame DEF RoomInv, Room, PrunedNodes, Home, Resume
<1>4. CursorInv'
  BY DEF TypeOK, CursorInv, Resume
<1> QED
  BY <1>1, <1>2, <1>3, <1>4

\* A new training leaves the nodes as they are.
LEMMA StartFreshRoom ==
  ASSUME RInv, StartFresh
  PROVE  RInv'
<1> USE Constants, HomesAreNodes DEF RInv
<1>1. TypeOK'
  BY DEF TypeOK, Starts, StartFresh
<1>2. SaveInv'
  BY DEF TypeOK, SaveInv, Pruning, PhaseOf, Home, StartFresh
<1>3. RoomInv'
  BY LiveSame DEF RoomInv, Room, PrunedNodes, Home, StartFresh
<1>4. CursorInv'
  BY DEF TypeOK, CursorInv, StartFresh
<1> QED
  BY <1>1, <1>2, <1>3, <1>4

-----------------------------------------------------------------------------
(* Steps of one training, for a limit of at least 3 *)

\* A set of two elements at most.
LEMMA TwoAtMost ==
  ASSUME NEW a, NEW b, NEW S \in SUBSET {a, b}
  PROVE  IsFiniteSet(S) /\ Cardinality(S) \in Nat /\ Cardinality(S) <= 2
<1>1. IsFiniteSet({a}) /\ Cardinality({a}) = 1
  BY FS_Singleton
<1>2. /\ IsFiniteSet({a} \cup {b})
      /\ Cardinality({a} \cup {b}) = IF b \in {a} THEN Cardinality({a}) ELSE Cardinality({a}) + 1
  BY <1>1, FS_AddElement
<1>3. S \in SUBSET ({a} \cup {b})
  OBVIOUS
<1>4. IsFiniteSet(S) /\ Cardinality(S) <= Cardinality({a} \cup {b})
  BY <1>2, <1>3, FS_Subset
<1>5. Cardinality(S) \in Nat
  BY <1>4, FS_CardinalityType
<1> QED
  BY <1>1, <1>2, <1>4, <1>5

\* Pruning never picks the checkpoint a restart would continue from: that one and
\* one more are the newest two, and at least two are kept.
LEMMA RestartIsKept ==
  ASSUME Limit >= 3, RInv, NEW h \in SavePoints \cup {0}, RestartAt(h),
         Cardinality(Listing) > Keep
  PROVE  Oldest # h
<1> SUFFICES ASSUME Oldest = h PROVE FALSE
  OBVIOUS
<1> DEFINE D == Listing
<1>1. /\ PrunedNode \in PrunedNodes /\ D \in SUBSET dirs[PrunedNode]
      /\ D \in SUBSET SavePoints /\ h \in SavePoints
      /\ \A t \in D : h <= t
  BY PruneFacts
<1>2. \A t \in D : t <= h + SaveInterval
  <2>1. \A t \in D : t <= IF Tracked THEN h + SaveInterval ELSE h
    BY <1>1 DEF RestartAt
  <2>2. D \in SUBSET Nat /\ h \in Nat
    BY <1>1, Constants
  <2> HIDE DEF D
  <2> QED
    BY <2>1, <2>2, Constants
<1>3. ASSUME NEW t \in D PROVE t \in {h, h + SaveInterval}
  <2>1. t \in Nat /\ h \in Nat /\ t % SaveInterval = 0 /\ h % SaveInterval = 0
    BY <1>1, Constants
  <2>2. h < t => h + SaveInterval <= t
    BY <2>1, Constants, DivisibleApart
  <2> QED
    BY <1>1, <1>2, <2>1, <2>2, Constants
<1>4. D \in SUBSET {h, h + SaveInterval}
  BY <1>3
<1>5. Cardinality(D) \in Nat /\ Cardinality(D) <= 2
  BY <1>4, TwoAtMost
<1>6. Keep >= 2 /\ Keep \in Nat
  BY Constants DEF Keep
<1> QED
  BY <1>5, <1>6

\* Steps of saves, and 0, are multiples of the interval.
LEMMA OnInterval ==
  ASSUME NEW h \in SavePoints \cup {0}
  PROVE  h \in Nat /\ h % SaveInterval = 0 /\ (h + SaveInterval) % SaveInterval = 0
<1>1. 0 % SaveInterval = 0
  <2> DEFINE q == 0 \div SaveInterval
             r == 0 % SaveInterval
  <2>1. 0 = SaveInterval * q + r /\ q \in Int /\ r \in 0 .. (SaveInterval - 1)
    BY Constants, DivMod
  <2> HIDE DEF q, r
  <2>2. ~(SaveInterval * q < SaveInterval * 0) /\ ~(SaveInterval * 0 < SaveInterval * q)
    BY <2>1, Constants, MultiplesApart
  <2>3. r = 0
    BY <2>1, <2>2, Constants
  <2> QED
    BY <2>3 DEF r
<1>2. h \in Nat /\ h % SaveInterval = 0
  BY <1>1, Constants
<1> QED
  BY <1>2, Constants, DivisibleNext

\* A complete checkpoint whose files are left alone stays complete.
LEMMA CompleteStays ==
  ASSUME NEW s, NEW t, t = s, files'[t] = files[s], Complete(s)
  PROVE  Complete(t)'
BY DEF Complete

\* A rank that has written has written every file.
LEMMA AllWritten ==
  ASSUME RInv, NEW r \in Ranks, HasWritten(r)
  PROVE  \A f \in Written : f <= progress[r].ended
<1>1. progress[r].ended \in -1 .. 4
  BY DEF RInv, TypeOK
<1> QED
  BY <1>1, NextFile DEF HasWritten

USE DEF Tracked

\* _find_latest_ray_checkpoint finds the step of RestartAt.
LEMMA LatestIsRestart ==
  ASSUME TypeOK, NEW h \in SavePoints \cup {0}, RestartAt(h)
  PROVE  Latest = h
<1>1. Found \in SUBSET SavePoints /\ placement.controller \in PrunedNodes
  BY HomesAreNodes DEF TypeOK, Found, PrunedNodes
<1>2. CASE Tracked
  BY <1>1, <1>2, Constants DEF RestartAt, Latest
<1>3. CASE ~Tracked /\ Found = {}
  BY <1>1, <1>3 DEF RestartAt, Latest
<1>4. CASE ~Tracked /\ Found # {}
  <2> DEFINE highest == CHOOSE s \in Found : \A t \in Found : s >= t
  <2>1. \A s \in Found : s <= h
    BY <1>1, <1>4 DEF RestartAt, Found
  <2>2. h \in Found
    <3>1. PICK s \in Found : s \in Nat /\ s >= 1
      BY <1>1, <1>4, Constants
    <3>2. h # 0
      BY <2>1, <3>1
    <3> QED
      BY <3>2 DEF RestartAt
  <2>3. highest \in Found /\ highest >= h
    BY <1>1, <2>1, <2>2, Constants
  <2>4. Latest = highest
    BY <1>1, <1>4 DEF Latest
  <2> HIDE DEF highest
  <2> QED
    BY <1>1, <2>1, <2>2, <2>3, <2>4, Constants
<1> QED
  BY <1>2, <1>3, <1>4

\* A save is begun one interval after the step a restart would continue from.
LEMMA TrainKeeps ==
  ASSUME Limit >= 3, IInv, Train
  PROVE  IInv'
<1> USE Constants, HomesAreNodes DEF IInv, RInv
<1>1. PICK h \in SavePoints \cup {0} : RestartAt(h)
  BY DEF RestartInv
<1>2. RInv'
  BY TrainRoom
<1>3. WrittenInv'
  BY DEF WrittenInv, Train, Due
<1>4. RestartInv'
  <2>1. h \in Nat /\ h % SaveInterval = 0 /\ (h + SaveInterval) % SaveInterval = 0
    BY OnInterval
  <2>2. step \in Nat /\ h <= step /\ step < h + SaveInterval
    BY <1>1 DEF TypeOK, RestartAt, Train
  <2>3. Due(step + 1) => h + SaveInterval <= step + 1
    <3>1. step + 1 \in Nat /\ h < step + 1
      BY <2>1, <2>2
    <3> QED
      BY <2>1, <3>1, DivisibleApart DEF Due
  <2>4. IF Due(step + 1) THEN step + 1 = h + SaveInterval ELSE step + 1 < h + SaveInterval
    BY <2>1, <2>2, <2>3 DEF Due
  <2>5. RestartAt(h)'
    BY <1>1, <2>1, <2>2, <2>4 DEF RestartAt, PrunedNodes, Home, Found, Train
  <2> QED
    BY <2>5 DEF RestartInv
<1>5. WholeTracked'
  BY CompleteStays DEF WholeTracked, Train, Due
<1> QED
  BY <1>2, <1>3, <1>4, <1>5

\* The run ends with what it has saved.
LEMMA FinishKeeps ==
  ASSUME Limit >= 3, IInv, Finish
  PROVE  IInv'
<1> USE Constants, HomesAreNodes DEF IInv, RInv
<1>1. PICK h \in SavePoints \cup {0} : RestartAt(h)
  BY DEF RestartInv
<1>2. RInv'
  BY FinishRoom
<1>3. WrittenInv'
  BY DEF WrittenInv, Finish
<1>4. RestartInv'
  <2>1. RestartAt(h)'
    BY <1>1 DEF RestartAt, TypeOK, PrunedNodes, Home, Found, Finish
  <2> QED
    BY <2>1 DEF RestartInv
<1>5. WholeTracked'
  BY CompleteStays DEF WholeTracked, Finish
<1> QED
  BY <1>2, <1>3, <1>4, <1>5

\* The oldest of more than two checkpoints is not the tracked one.
LEMMA PruneBeginKeeps ==
  ASSUME Limit >= 3, IInv, PruneBegin
  PROVE  IInv'
<1> USE Constants, HomesAreNodes DEF IInv, RInv
<1>1. PICK h \in SavePoints \cup {0} : RestartAt(h)
  BY DEF RestartInv
<1>2. RInv'
  BY PruneBeginRoom
<1>6. Oldest # h /\ Oldest \in SavePoints
  BY <1>1, RestartIsKept, PruneFacts DEF SaveInv, PruneBegin
<1>3. WrittenInv'
  BY DEF WrittenInv, PruneBegin, Pruning
<1>4. RestartInv'
  <2>1. RestartAt(h)'
    BY <1>1 DEF RestartAt, TypeOK, PrunedNodes, Home, Found, PruneBegin, Pruning
  <2> QED
    BY <2>1 DEF RestartInv
<1>5. WholeTracked'
  <2>1. SUFFICES ASSUME Tracked' PROVE Complete(tracker)'
    BY DEF WholeTracked
  <2>2. tracker' = tracker /\ tracker = h /\ files'[tracker] = files[tracker]
    BY <1>1, <1>6, <2>1, WithoutType DEF RestartAt, PruneBegin
  <2> QED
    BY <2>1, <2>2, CompleteStays DEF WholeTracked
<1> QED
  BY <1>2, <1>3, <1>4, <1>5

\* What is removed is not what a restart would restore.
LEMMA PruneEndKeeps ==
  ASSUME Limit >= 3, IInv, PruneEnd
  PROVE  IInv'
<1> USE Constants, HomesAreNodes DEF IInv, RInv
<1>1. PICK h \in SavePoints \cup {0} : RestartAt(h)
  BY DEF RestartInv
<1>2. RInv'
  BY PruneEndRoom
<1>6. Oldest # h /\ Oldest \in SavePoints
  BY <1>1, RestartIsKept, PruneFacts DEF SaveInv, PruneEnd
<1>3. WrittenInv'
  BY DEF WrittenInv, PruneEnd, Pruning
<1>4. RestartInv'
  <2>1. /\ \A n \in Nodes : dirs'[n] \in SUBSET dirs[n]
        /\ \A n \in Nodes : h \in dirs[n] => h \in dirs'[n]
    BY <1>6 DEF TypeOK, PruneEnd
  <2>2. UNCHANGED <<placement, tracker, pc, step, reached>>
    BY DEF PruneEnd
  <2>3. RestartAt(h)'
    BY <1>1, <2>1, <2>2 DEF RestartAt, TypeOK, PrunedNodes, Home, Found, Pruning, PruneEnd
  <2> QED
    BY <2>3 DEF RestartInv
<1>5. WholeTracked'
  <2>1. SUFFICES ASSUME Tracked' PROVE Complete(tracker)'
    BY DEF WholeTracked
  <2>3. tracker' = tracker /\ tracker = h /\ h \in SavePoints
    BY <1>1, <2>1 DEF RestartAt, PruneEnd
  <2>5. files' = Without(Oldest, FileNames)
    BY DEF PruneEnd
  <2>4. files'[h] = files[h]
    BY <1>6, <2>3, <2>5, WithoutType
  <2>2. tracker' = tracker /\ tracker = h /\ files'[tracker] = files[tracker]
    BY <2>3, <2>4
  <2> QED
    BY <2>1, <2>2, CompleteStays DEF WholeTracked
<1> QED
  BY <1>2, <1>3, <1>4, <1>5

\* What the controller fails to remove is not the tracked one either.
LEMMA PruneFailKeeps ==
  ASSUME Limit >= 3, IInv, PruneFail
  PROVE  IInv'
<1> USE Constants, HomesAreNodes DEF IInv, RInv
<1>1. PICK h \in SavePoints \cup {0} : RestartAt(h)
  BY DEF RestartInv
<1>2. RInv'
  BY PruneFailRoom
<1>6. Oldest # h /\ Oldest \in SavePoints
  BY <1>1, RestartIsKept, PruneFacts DEF PruneFail
<1>3. WrittenInv'
  BY DEF WrittenInv, PruneFail, Pruning
<1>4. RestartInv'
  <2>1. RestartAt(h)'
    BY <1>1 DEF RestartAt, TypeOK, PrunedNodes, Home, Found, PruneFail, Pruning
  <2> QED
    BY <2>1 DEF RestartInv
<1>5. WholeTracked'
  <2>1. SUFFICES ASSUME Tracked' PROVE Complete(tracker)'
    BY DEF WholeTracked
  <2>2. tracker' = tracker /\ tracker = h /\ files'[tracker] = files[tracker]
    BY <1>1, <1>6, <2>1, WithoutType DEF RestartAt, PruneFail
  <2> QED
    BY <2>1, <2>2, CompleteStays DEF WholeTracked
<1> QED
  BY <1>2, <1>3, <1>4, <1>5

\* A pass that ends has removed nothing more.
LEMMA PruneDoneKeeps ==
  ASSUME Limit >= 3, IInv, PruneDone
  PROVE  IInv'
<1> USE Constants, HomesAreNodes DEF IInv, RInv
<1>1. PICK h \in SavePoints \cup {0} : RestartAt(h)
  BY DEF RestartInv
<1>2. RInv'
  BY PruneDoneRoom
<1>3. WrittenInv'
  BY DEF WrittenInv, PruneDone, Pruning
<1>4. RestartInv'
  <2>1. RestartAt(h)'
    BY <1>1 DEF RestartAt, TypeOK, PrunedNodes, Home, Found, PruneDone, Pruning
  <2> QED
    BY <2>1 DEF RestartInv
<1>5. WholeTracked'
  BY CompleteStays DEF WholeTracked, PruneDone, Pruning
<1> QED
  BY <1>2, <1>3, <1>4, <1>5

\* A directory of this save is newer than the tracked one.
LEMMA MakeDirKeeps ==
  ASSUME Limit >= 3, IInv, MakeDir
  PROVE  IInv'
<1> USE Constants, HomesAreNodes DEF IInv, RInv
<1>1. PICK h \in SavePoints \cup {0} : RestartAt(h)
  BY DEF RestartInv
<1>2. RInv'
  BY MakeDirRoom
<1>3. WrittenInv'
  <2>0. \A q \in Ranks : PhaseOf(q) \in Nat /\ PhaseOf(q)' = PhaseOf(q)
    BY PhaseBound DEF PhaseOf, Home, MakeDir
  <2>1. progress' = Idle /\ phase' = 0 /\ pc' = "save"
    BY DEF MakeDir
  <2> QED
    BY <2>0, <2>1 DEF WrittenInv, Idle, Written, FileNames
<1>4. RestartInv'
  <2>1. step \in SavePoints /\ step = h + SaveInterval
    BY <1>1 DEF SaveInv, RestartAt, MakeDir
  <2>2. \A n \in Nodes : dirs'[n] \in {dirs[n], dirs[n] \cup {step}}
    BY DEF TypeOK, MakeDir
  <2>3. step \in Found' /\ Found \subseteq Found'
    BY DEF TypeOK, Found, MakeDir
  <2>4. CASE Tracked
    <3>1. RestartAt(h)'
      BY <1>1, <2>1, <2>2, <2>3, <2>4 DEF RestartAt, TypeOK, PrunedNodes, Home, MakeDir
    <3> QED
      BY <3>1 DEF RestartInv
  <2>5. CASE ~Tracked
    <3>1. ASSUME NEW n \in PrunedNodes, NEW s \in dirs'[n] PROVE s <= step
      <4>1. s \in dirs[n] => s <= h /\ s \in SavePoints
        BY <1>1, <2>5 DEF RestartAt, TypeOK
      <4>2. s \in dirs[n] \/ s = step
        BY <2>2 DEF TypeOK
      <4>3. h \in Nat /\ step \in Nat /\ h <= step
        BY <2>1, OnInterval
      <4>4. CASE s \in dirs[n]
        <5>1. s \in Nat /\ s <= h
          BY <4>1, <4>4
        <5> QED
          BY <4>3, <5>1
      <4> QED
        BY <4>2, <4>3, <4>4
    <3>2. RestartAt(step)'
      BY <2>3, <2>5, <3>1 DEF RestartAt, PrunedNodes, Home, MakeDir
    <3> QED
      BY <2>1, <3>2 DEF RestartInv, MakeDir
  <2> QED
    BY <2>4, <2>5
<1>5. WholeTracked'
  BY CompleteStays DEF WholeTracked, MakeDir
<1> QED
  BY <1>2, <1>3, <1>4, <1>5

\* Rank 0 makes the directory of this save.
LEMMA ActorMakeDirKeeps ==
  ASSUME Limit >= 3, IInv, NEW r \in Ranks, ActorMakeDir(r)
  PROVE  IInv'
<1> USE Constants, HomesAreNodes DEF IInv, RInv
<1>1. PICK h \in SavePoints \cup {0} : RestartAt(h)
  BY DEF RestartInv
<1>2. RInv'
  BY ActorMakeDirRoom
<1>3. WrittenInv'
  <2>0. \A q \in Ranks : PhaseOf(q) \in Nat /\ PhaseOf(q)' = PhaseOf(q)
    BY PhaseBound DEF PhaseOf, Home, ActorMakeDir
  <2>1. ASSUME NEW q \in Ranks, q # r PROVE progress'[q] = progress[q]
    BY <2>1 DEF TypeOK, ActorMakeDir
  <2>2. progress'[r].ended = 0 /\ ~HasWritten(r)
    <3>1. progress[r] \in [begun : -1 .. 4, ended : -1 .. 4] /\ 1 \in Written
      BY DEF TypeOK, Written, FileNames, Parameter
    <3>2. FileAfter(progress[r].ended) > progress[r].ended /\ FileAfter(-1) <= 1
      BY <3>1, NextFile
    <3>3. progress[r].ended = -1
      BY <3>1, <3>2 DEF SaveInv, ActorMakeDir
    <3> QED
      BY <3>2, <3>3 DEF TypeOK, HasWritten, ActorMakeDir
  <2> QED
    BY <2>0, <2>1, <2>2 DEF WrittenInv, HasWritten, Written, FileNames, ActorMakeDir
<1>4. RestartInv'
  <2>1. RestartAt(h)'
    BY <1>1 DEF RestartAt, TypeOK, PrunedNodes, Home, Found, ActorMakeDir
  <2> QED
    BY <2>1 DEF RestartInv
<1>5. WholeTracked'
  BY CompleteStays DEF WholeTracked, ActorMakeDir
<1> QED
  BY <1>2, <1>3, <1>4, <1>5

\* A file of this save is none of the tracked checkpoint, or there is no tracker.
LEMMA WriteBeginKeeps ==
  ASSUME Limit >= 3, IInv, NEW r \in Ranks, WriteBegin(r)
  PROVE  IInv'
<1> USE Constants, HomesAreNodes DEF IInv, RInv
<1>1. PICK h \in SavePoints \cup {0} : RestartAt(h)
  BY DEF RestartInv
<1>2. RInv'
  BY WriteBeginRoom
<1>3. WrittenInv'
  <2>0. \A q \in Ranks : PhaseOf(q) \in Nat /\ PhaseOf(q)' = PhaseOf(q)
    BY PhaseBound DEF PhaseOf, Home, WriteBegin
  <2>1. /\ step \in SavePoints /\ progress[r] \in [begun : -1 .. 4, ended : -1 .. 4]
        /\ \A q \in Ranks : q # r => progress'[q] = progress[q] /\ files'[step][q] = files[step][q]
    BY DEF TypeOK, SaveInv, WriteBegin, Writes
  <2>2. FileAfter(progress[r].ended) > progress[r].ended
    BY <2>1, NextFile
  <2>3. /\ progress'[r].ended = progress[r].ended /\ PhaseOf(r) = phase
        /\ \A f \in FileNames : f <= progress[r].ended => files'[step][r][f] = files[step][r][f]
    BY <2>1, <2>2 DEF TypeOK, FileNames, WriteBegin, Writes
  <2> QED
    BY <2>0, <2>1, <2>3 DEF WrittenInv, HasWritten, Written, FileNames, TypeOK, WriteBegin, Writes
<1>4. RestartInv'
  <2>1. RestartAt(h)'
    BY <1>1 DEF RestartAt, TypeOK, PrunedNodes, Home, Found, WriteBegin, Writes
  <2> QED
    BY <2>1 DEF RestartInv
<1>5. WholeTracked'
  <2>1. SUFFICES ASSUME Tracked' PROVE Complete(tracker)'
    BY DEF WholeTracked
  <2>2. tracker' = tracker /\ step # tracker /\ step \in SavePoints
    BY <1>1, <2>1 DEF RestartAt, SaveInv, WriteBegin, Writes
  <2>3. files'[tracker] = files[tracker]
    BY <2>1, <2>2 DEF TypeOK, WriteBegin
  <2> QED
    BY <2>1, <2>2, <2>3, CompleteStays DEF WholeTracked
<1> QED
  BY <1>2, <1>3, <1>4, <1>5

\* The files a rank has ended are of this start.
LEMMA WriteEndKeeps ==
  ASSUME Limit >= 3, IInv, NEW r \in Ranks, WriteEnd(r)
  PROVE  IInv'
<1> USE Constants, HomesAreNodes DEF IInv, RInv
<1>1. PICK h \in SavePoints \cup {0} : RestartAt(h)
  BY DEF RestartInv
<1>2. RInv'
  BY WriteEndRoom
<1>3. WrittenInv'
  <2>0. \A q \in Ranks : PhaseOf(q) \in Nat /\ PhaseOf(q)' = PhaseOf(q)
    BY PhaseBound DEF PhaseOf, Home, WriteEnd
  <2>1. /\ step \in SavePoints /\ progress[r] \in [begun : -1 .. 4, ended : -1 .. 4]
        /\ \A q \in Ranks : q # r => progress'[q] = progress[q] /\ files'[step][q] = files[step][q]
    BY DEF TypeOK, SaveInv, WriteEnd, Writes
  <2>2. /\ progress[r].begun = FileAfter(progress[r].ended)
        /\ \A g \in Written : g > progress[r].ended => progress[r].begun <= g
    BY <2>1, NextFile DEF SaveInv, WriteEnd, Writes
  <2>3. /\ progress'[r].ended = progress[r].begun /\ PhaseOf(r) = phase
        /\ \A f \in Written : files'[step][r][f] =
             IF f = progress[r].begun THEN Start ELSE files[step][r][f]
    BY <2>1 DEF TypeOK, Written, FileNames, WriteEnd, Writes
  <2>4. \A f \in Written : f <= progress'[r].ended => files'[step][r][f] = Start
    <3>1. \A f \in Written : f <= progress[r].ended => files[step][r][f] = Start
      BY DEF WrittenInv, WriteEnd, Writes
    <3>2. Written \subseteq Int
      BY DEF Written, FileNames
    <3> SUFFICES ASSUME NEW f \in Written, f <= progress'[r].ended
                 PROVE  files'[step][r][f] = Start
      OBVIOUS
    <3>3. f \in Int /\ progress[r].ended \in Int /\ progress[r].begun \in Int
      BY <2>1, <3>2
    <3>4. CASE f = progress[r].begun
      BY <2>3, <3>4
    <3>5. CASE f # progress[r].begun
      <4>1. f <= progress[r].ended
        BY <2>2, <2>3, <3>3, <3>5
      <4> QED
        BY <2>3, <3>1, <3>5, <4>1
    <3> QED
      BY <3>4, <3>5
  <2> QED
    BY <2>0, <2>1, <2>3, <2>4 DEF WrittenInv, HasWritten, TypeOK, WriteEnd, Writes
<1>4. RestartInv'
  <2>1. RestartAt(h)'
    BY <1>1 DEF RestartAt, TypeOK, PrunedNodes, Home, Found, WriteEnd, Writes
  <2> QED
    BY <2>1 DEF RestartInv
<1>5. WholeTracked'
  <2>1. SUFFICES ASSUME Tracked' PROVE Complete(tracker)'
    BY DEF WholeTracked
  <2>2. tracker' = tracker /\ step # tracker /\ step \in SavePoints
    BY <1>1, <2>1 DEF RestartAt, SaveInv, WriteEnd, Writes
  <2>3. files'[tracker] = files[tracker]
    BY <2>1, <2>2 DEF TypeOK, WriteEnd
  <2> QED
    BY <2>1, <2>2, <2>3, CompleteStays DEF WholeTracked
<1> QED
  BY <1>2, <1>3, <1>4, <1>5

\* After the last phase every rank has written every file.
LEMMA PhaseBarrierKeeps ==
  ASSUME Limit >= 3, IInv, PhaseBarrier
  PROVE  IInv'
<1> USE Constants, HomesAreNodes DEF IInv, RInv
<1>1. PICK h \in SavePoints \cup {0} : RestartAt(h)
  BY DEF RestartInv
<1>2. RInv'
  BY PhaseBarrierRoom
<1>3. WrittenInv'
  <2>0. \A q \in Ranks : PhaseOf(q) \in Nat /\ PhaseOf(q)' = PhaseOf(q)
    BY PhaseBound DEF PhaseOf, Home, PhaseBarrier
  <2>1. ASSUME NEW r \in Ranks, PhaseOf(r) < phase + 1 PROVE HasWritten(r)
    <3>1. phase \in Nat /\ PhaseOf(r) \in Nat
      BY <2>0, <2>1 DEF TypeOK
    <3>2. PhaseOf(r) < phase \/ PhaseOf(r) = phase
      BY <2>1, <3>1
    <3> QED
      BY <3>2 DEF WrittenInv, PhaseBarrier
  <2>2. CASE pc' = "save"
    BY <2>0, <2>1, <2>2 DEF WrittenInv, HasWritten, PhaseBarrier
  <2>3. CASE pc' = "tracker"
    <3>1. \A r \in Ranks : HasWritten(r)
      BY <2>0, <2>1, <2>3 DEF TypeOK, PhaseBarrier
    <3>2. \A r \in Ranks : \A f \in Written : files[step][r][f] = Start
      BY <3>1, AllWritten DEF WrittenInv, PhaseBarrier
    <3> QED
      BY <2>3, <3>2 DEF WrittenInv, Complete, TypeOK, PhaseBarrier
  <2> QED
    BY <2>2, <2>3 DEF PhaseBarrier
<1>4. RestartInv'
  <2>1. RestartAt(h)'
    BY <1>1 DEF RestartAt, TypeOK, PrunedNodes, Home, Found, PhaseBarrier
  <2> QED
    BY <2>1 DEF RestartInv
<1>5. WholeTracked'
  BY CompleteStays DEF WholeTracked, PhaseBarrier
<1> QED
  BY <1>2, <1>3, <1>4, <1>5

\* The tracker is truncated when the checkpoint is complete.
LEMMA TrackerOpenKeeps ==
  ASSUME Limit >= 3, IInv, TrackerOpen
  PROVE  IInv'
<1> USE Constants, HomesAreNodes DEF IInv, RInv
<1>1. PICK h \in SavePoints \cup {0} : RestartAt(h)
  BY DEF RestartInv
<1>2. RInv'
  BY TrackerOpenRoom
<1>3. WrittenInv'
  BY CompleteStays DEF WrittenInv, TrackerOpen
<1>4. RestartInv'
  <2>1. step \in SavePoints
    BY DEF SaveInv, TrackerOpen
  <2>2. EmptyTracker \notin SavePoints
    BY DEF EmptyTracker
  <2>3. \A n \in PrunedNodes : \A s \in dirs[n] : s <= step
    BY <1>1 DEF RestartAt, TrackerOpen
  <2>4. RestartAt(step)'
    BY <1>1, <2>2, <2>3 DEF RestartAt, PrunedNodes, Home, Found, TrackerOpen
  <2> QED
    BY <2>1, <2>4 DEF RestartInv, TrackerOpen
<1>5. WholeTracked'
  BY DEF WholeTracked, EmptyTracker, TrackerOpen
<1> QED
  BY <1>2, <1>3, <1>4, <1>5

\* The tracker names the checkpoint that is complete.
LEMMA TrackerWriteKeeps ==
  ASSUME Limit >= 3, IInv, TrackerWrite
  PROVE  IInv'
<1> USE Constants, HomesAreNodes DEF IInv, RInv
<1>1. PICK h \in SavePoints \cup {0} : RestartAt(h)
  BY DEF RestartInv
<1>2. RInv'
  BY TrackerWriteRoom
<1>3. WrittenInv'
  BY DEF WrittenInv, TrackerWrite
<1>4. RestartInv'
  <2>1. RestartAt(h)'
    BY <1>1 DEF RestartAt, TypeOK, PrunedNodes, Home, Found, TrackerWrite
  <2> QED
    BY <2>1 DEF RestartInv
<1>5. WholeTracked'
  <2>1. Complete(step) /\ tracker' = step /\ files' = files
    BY DEF WrittenInv, TrackerWrite
  <2> QED
    BY <2>1, CompleteStays DEF WholeTracked
<1> QED
  BY <1>2, <1>3, <1>4, <1>5

\* At most one save was under way at the crash.
LEMMA CrashKeeps ==
  ASSUME Limit >= 3, IInv, Crash
  PROVE  IInv'
<1> USE Constants, HomesAreNodes DEF IInv, RInv
<1>1. PICK h \in SavePoints \cup {0} : RestartAt(h)
  BY DEF RestartInv
<1>2. RInv'
  BY CrashRoom
<1>3. WrittenInv'
  BY DEF WrittenInv, Crash
<1>4. RestartInv'
  <2>1. RestartAt(h)'
    BY <1>1 DEF RestartAt, TypeOK, PrunedNodes, Home, Found, Crash
  <2> QED
    BY <2>1 DEF RestartInv
<1>5. WholeTracked'
  BY CompleteStays DEF WholeTracked, Crash
<1> QED
  BY <1>2, <1>3, <1>4, <1>5

\* The run continues at the step the tracker, or the highest directory, names.
LEMMA ResumeKeeps ==
  ASSUME Limit >= 3, IInv, Resume
  PROVE  IInv'
<1> USE Constants, HomesAreNodes DEF IInv, RInv
<1>1. PICK h \in SavePoints \cup {0} : RestartAt(h)
  BY DEF RestartInv
<1>2. RInv'
  BY ResumeRoom
<1>3. WrittenInv'
  BY DEF WrittenInv, Resume
<1>4. RestartInv'
  <2>1. Latest = h
    BY <1>1, LatestIsRestart
  <2>2. RestartAt(h)'
    BY <1>1, <2>1 DEF RestartAt, PrunedNodes, Home, Found, Resume
  <2> QED
    BY <2>2 DEF RestartInv
<1>5. WholeTracked'
  BY CompleteStays DEF WholeTracked, Resume
<1> QED
  BY <1>2, <1>3, <1>4, <1>5

-----------------------------------------------------------------------------
(* Theorems *)

\* Nothing has been saved.
LEMMA RInvInit == Init => RInv
<1> SUFFICES ASSUME Init PROVE RInv
  OBVIOUS
<1> USE Constants
<1>1. NoFiles \in [FileNames -> Starts \cup {Absent, Torn}]
  BY DEF NoFiles
<1>2. Idle \in [Ranks -> [begun : -1 .. 4, ended : -1 .. 4]]
  BY DEF Idle
<1>3. TypeOK
  <2>1. files \in [SavePoints -> [Ranks -> [FileNames -> Starts \cup {Absent, Torn}]]]
    BY <1>1 DEF Init
  <2>2. /\ dirs \in [Nodes -> SUBSET SavePoints]
        /\ tracker \in SavePoints \cup {NoTracker, EmptyTracker}
    BY DEF Init
  <2>3. /\ step \in 0 .. Total /\ phase \in 0 .. WorldSize
        /\ cursor \in 0 .. Total /\ reached \in 0 .. Total
        /\ crashes \in Nat /\ trainings \in Nat \ {0} /\ Start \in Starts
    BY DEF Init, Starts
  <2> QED
    BY <1>2, <2>1, <2>2, <2>3 DEF Init, TypeOK
<1>4. \A n \in Nodes : Cardinality(Live(n)) = 0
  BY FS_EmptySet DEF Init, Live
<1>5. RoomInv
  BY <1>3, <1>4, HomesAreNodes DEF Init, TypeOK, RoomInv
<1> QED
  BY <1>3, <1>5 DEF Init, RInv, SaveInv, CursorInv

\* Every step keeps the room, whatever the limit.
LEMMA RInvStep == RInv /\ [Next]_vars => RInv'
<1> SUFFICES ASSUME RInv, [Next]_vars PROVE RInv'
  OBVIOUS
<1>1. ASSUME NEW r \in Ranks, ActorMakeDir(r) \/ WriteBegin(r) \/ WriteEnd(r) PROVE RInv'
  BY <1>1, ActorMakeDirRoom, WriteBeginRoom, WriteEndRoom
<1>2. CASE UNCHANGED vars
  BY <1>2 DEF vars, RInv, TypeOK, SaveInv, CursorInv, RoomInv, Room, Live, PrunedNodes,
     PrunedNode, Pruning, Listing, Keep, PhaseOf, Home
<1> QED
  BY <1>1, <1>2, TrainRoom, FinishRoom, PruneBeginRoom, PruneEndRoom, PruneFailRoom,
     PruneDoneRoom, MakeDirRoom, PhaseBarrierRoom, TrackerOpenRoom, TrackerWriteRoom,
     CrashRoom, ResumeRoom, StartFreshRoom
     DEF Next, ResumeRaise, Finished

\* The comment in _save_ray_controller_checkpoint is right for the nodes that are
\* pruned, those of the controller and of rank 0: they never hold more than
\* save_total_limit checkpoints, partial ones and the one being written included,
\* wherever the job crashes, however often, and however many trainings share the
\* directory, if what the controller's rmtree failed to remove is not counted.
THEOREM PeakBounded == Spec => []PeakUsage
<1>1. RInv => PeakUsage
  BY DEF RInv, RoomInv, PrunedNodes, PeakUsage
<1> QED
  BY <1>1, RInvInit, RInvStep, PTL DEF Spec

\* Nothing has been saved, and a restart would begin at step 0.
LEMMA IInvInit == Init => OneTraining
<1> SUFFICES ASSUME Init PROVE OneTraining
  OBVIOUS
<1>1. RInv
  BY RInvInit
<1>2. RestartAt(0)
  BY <1>1, Constants, HomesAreNodes
     DEF Init, RInv, TypeOK, RestartAt, PrunedNodes, NoTracker
<1>3. NoTracker \notin SavePoints
  BY Constants DEF NoTracker
<1> QED
  BY <1>1, <1>2, <1>3 DEF Init, OneTraining, IInv, WrittenInv, RestartInv, WholeTracked

\* Every step of one training keeps the invariant when at least 3 checkpoints are
\* kept.
LEMMA IInvStep ==
  ASSUME Limit >= 3, IInv, [Next]_vars, ~StartFresh
  PROVE  IInv'
<1>1. ASSUME NEW r \in Ranks, ActorMakeDir(r) \/ WriteBegin(r) \/ WriteEnd(r) PROVE IInv'
  BY <1>1, ActorMakeDirKeeps, WriteBeginKeeps, WriteEndKeeps
<1>2. CASE UNCHANGED vars
  <2>1. RInv'
    BY RInvStep DEF IInv
  <2>2. PICK h \in SavePoints \cup {0} : RestartAt(h)
    BY DEF IInv, RestartInv
  <2>3. RestartAt(h)'
    BY <1>2, <2>2 DEF vars, RestartAt, PrunedNodes, Home, Found
  <2>4. WrittenInv' /\ WholeTracked'
    BY <1>2 DEF vars, IInv, WrittenInv, WholeTracked, HasWritten, PhaseOf, Home, Complete
  <2> QED
    BY <2>1, <2>3, <2>4 DEF IInv, RestartInv
<1> QED
  BY <1>1, <1>2, TrainKeeps, FinishKeeps, PruneBeginKeeps, PruneEndKeeps, PruneFailKeeps,
     PruneDoneKeeps, MakeDirKeeps, PhaseBarrierKeeps, TrackerOpenKeeps, TrackerWriteKeeps,
     CrashKeeps, ResumeKeeps
     DEF Next, ResumeRaise, Finished

\* A new training ends the claim about the directory, and no other step begins one.
LEMMA OneTrainingStep ==
  ASSUME Limit >= 3, OneTraining, [Next]_vars
  PROVE  OneTraining'
<1>1. RInv'
  BY RInvStep DEF OneTraining
<1>2. trainings \in Nat \ {0}
  BY DEF OneTraining, RInv, TypeOK
<1>3. CASE StartFresh
  BY <1>1, <1>2, <1>3 DEF StartFresh, OneTraining
<1>4. CASE ~StartFresh
  <2>1. trainings' = trainings
    BY <1>4 DEF Next, Train, Finish, PruneBegin, PruneEnd, PruneFail, PruneDone, MakeDir,
       ActorMakeDir, WriteBegin, WriteEnd, PhaseBarrier, TrackerOpen, TrackerWrite, Crash,
       Resume, ResumeRaise, Finished, vars
  <2> QED
    BY <1>1, <1>4, <2>1, IInvStep DEF OneTraining
<1> QED
  BY <1>3, <1>4

\* The invariant always holds when at least 3 checkpoints are kept.
LEMMA Invariance == Limit >= 3 => (Spec => []OneTraining)
<1> SUFFICES ASSUME Limit >= 3 PROVE Spec => []OneTraining
  OBVIOUS
<1>1. OneTraining /\ [Next]_vars => OneTraining'
  BY OneTrainingStep
<1> QED
  BY <1>1, IInvInit, PTL DEF Spec

\* With save_total_limit of at least 3, in a directory that only one training has
\* written to, the checkpoint that latest_checkpointed_iteration.txt names has all
\* files of all ranks, of one save: no pruning removes it and no interrupted save
\* of a later start touches it.  With a smaller limit the directory of an
\* interrupted save displaces it, and in a used directory (checkpointing.resume
\* off) the higher numbers of the earlier training do, whatever the limit.
THEOREM TrackedStaysComplete == Limit >= 3 => (Spec => []TrackedIsComplete)
<1>1. OneTraining => TrackedIsComplete
  BY DEF OneTraining, IInv, WholeTracked, TrackedIsComplete
<1> QED
  BY <1>1, Invariance, PTL

\* With such a limit a restart of the only training of its directory repeats at
\* most SaveInterval steps, and restores the save the tracker names whenever the
\* tracker can be read.
THEOREM RedoBounded == Limit >= 3 => (Spec => BoundedRedo)
<1> SUFFICES ASSUME Limit >= 3 PROVE Spec => BoundedRedo
  OBVIOUS
<1> DEFINE Redo == /\ reached - step' <= SaveInterval
                   /\ tracker \in SavePoints => step' = tracker /\ Complete(tracker)
<1>1. ASSUME OneTraining, Resume, trainings = 1 PROVE Redo
  <2>1. PICK h \in SavePoints \cup {0} : RestartAt(h)
    BY <1>1 DEF OneTraining, IInv, RestartInv
  <2>2. step' = h
    BY <1>1, <2>1, LatestIsRestart DEF OneTraining, IInv, RInv, Resume
  <2>3. h \in Nat /\ reached \in Nat /\ reached <= h + SaveInterval
    BY <1>1, <2>1, Constants DEF OneTraining, RInv, TypeOK, RestartAt, Resume
  <2> QED
    BY <1>1, <2>1, <2>2, <2>3, Constants DEF OneTraining, IInv, RestartAt, WholeTracked
<1>2. OneTraining /\ [Next]_vars => [Resume /\ trainings = 1 => Redo]_vars
  BY <1>1
<1> QED
  BY <1>2, Invariance, PTL DEF Spec, BoundedRedo
=============================================================================

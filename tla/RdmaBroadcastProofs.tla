------------------------ MODULE RdmaBroadcastProofs ------------------------
(***************************************************************************)
(* Proofs about RdmaBroadcast, for any number of receivers, any tensors    *)
(* and any bucket size: the broadcasts of the sender and of the receivers  *)
(* pair up, and a committed synchronisation left every tensor in every     *)
(* receiver, whatever fails or times out.                                  *)
(***************************************************************************)
EXTENDS RdmaBroadcast, NumberLemmas, SequenceTheorems

\* The places of the sender and of a receiver, and the broadcast each is inside.
SourceInv ==
  /\ pc[Source] \in SENDING \cup {"idle", "done", "failed"}
  /\ inside[Source] \in {Outside, CASE pc[Source] \in {"header", "endHeader"} -> HeaderPost
                                    [] pc[Source] \in {"metadata", "payload"} ->
                                         BodyPost(pc[Source], bucket)
                                    [] OTHER -> Outside}
  /\ pc[Source] = "endHeader" => inside[Source] = HeaderPost

\* A receiver that has not failed is in the broadcast the sender is in or comes to.
ReceiverInv(r) ==
  /\ pc[r] \in RECEIVING \cup {"idle", "done", "failed"}
  /\ inside[r] \in {Outside, HeaderPost, BodyPost("metadata", bucket), BodyPost("payload", bucket)}
  /\ inside[r] = HeaderPost => pc[r] = "header"
  /\ inside[r] = BodyPost("metadata", bucket) => pc[r] = "metadata"
  /\ inside[r] = BodyPost("payload", bucket) => pc[r] = "payload"
  /\ pc[r] \in {"header", "metadata", "payload"} => inside[r] # Outside
  /\ pc[Source] = "idle" => pc[r] = "idle"
  /\ pc[Source] \in {"export", "pack", "header", "end", "endHeader"} =>
       pc[r] \in {"header", "load", "failed"}
  /\ pc[Source] \in {"metadata", "payload"} => pc[r] \in {pc[Source], "failed"}
  /\ pc[Source] = "done" => pc[r] \in {"verify", "done", "failed"}

\* The tensors on their way: loaded, then staged, then in the sender's bucket,
\* each once and in order.
StreamInv(r) ==
  LET l == Len(loaded[r]) s == Len(staged[r]) b == Len(bucket)
  IN  /\ \A i \in 1 .. l : loaded[r][i] = i
      /\ \A i \in 1 .. s : staged[r][i] = l + i
      /\ \A i \in 1 .. b : bucket[i] = l + s + i
      /\ l + s + b = next - 1
      /\ s > 0 => pc[r] = "load"

EndInv ==
  /\ pc[Source] \in {"end", "endHeader", "done"} => bucket = <<>> /\ next = Len(job.weights) + 1
  /\ ctl = "joining" => version > 0
  /\ ctl = "idle" => \A m \in Members : pc[m] = IF version = 0 THEN "idle" ELSE "done"
  /\ \A r \in Receivers : pc[r] = "done" /\ job.verify => job.covers

IInv ==
  /\ TypeOK /\ inside = [m \in Members |-> inside[m]] /\ SourceInv /\ EndInv
  /\ \A r \in Receivers : ReceiverInv(r)
  /\ \A r \in Receivers : pc[Source] \notin {"idle", "failed"} /\ pc[r] # "failed" => StreamInv(r)

-----------------------------------------------------------------------------
(* Facts every step uses *)

\* The broadcasts a member can be in are different things.
LEMMA Posts ==
  \A b : /\ Outside # HeaderPost
         /\ Outside # BodyPost("metadata", b) /\ Outside # BodyPost("payload", b)
         /\ HeaderPost # BodyPost("metadata", b) /\ HeaderPost # BodyPost("payload", b)
         /\ BodyPost("metadata", b) # BodyPost("payload", b)
<1> SUFFICES ASSUME NEW b
             PROVE /\ Outside # HeaderPost
                   /\ Outside # BodyPost("metadata", b) /\ Outside # BodyPost("payload", b)
                   /\ HeaderPost # BodyPost("metadata", b) /\ HeaderPost # BodyPost("payload", b)
                   /\ BodyPost("metadata", b) # BodyPost("payload", b)
  OBVIOUS
<1>1. /\ Outside.kind = "none" /\ HeaderPost.kind = "header"
      /\ BodyPost("metadata", b).kind = "metadata" /\ BodyPost("payload", b).kind = "payload"
  BY DEF Outside, HeaderPost, BodyPost
<1> QED BY <1>1

\* The members are the source and the receivers, all different.
LEMMA Group ==
  /\ Source \in Members /\ Source \notin Receivers
  /\ \A r \in Receivers : r \in Members /\ r # Source
  /\ \A m \in Members : m = Source \/ m \in Receivers
BY RdmaAssumption DEF Members, Source, Receivers

\* What the chosen job is.
LEMMA JobTypes ==
  ASSUME TypeOK
  PROVE  /\ job.weights \in Seq(Nat) /\ Len(job.weights) \in Nat
         /\ job.bucketBytes \in Nat /\ next \in Nat
BY RdmaAssumption DEF TypeOK

-----------------------------------------------------------------------------
(* The bytes of a bucket *)

Sizes(s) == [i \in 1 .. Len(s) |-> job.weights[s[i]]]

\* Bytes is the running sum of the sizes.
LEMMA BytesIsSum ==
  ASSUME TypeOK, NEW s \in Seq(1 .. Len(job.weights))
  PROVE  \E f : RunningSum(f, Sizes(s), Len(s)) /\ Bytes(s) = f[Len(s)]
<1> DEFINE n == Len(s)
           IsSum(h) == h = [i \in 0 .. n |-> IF i = 0 THEN 0 ELSE h[i - 1] + job.weights[s[i]]]
           sum == CHOOSE h : IsSum(h)
<1>1. n \in Nat /\ \A i \in 1 .. n : Sizes(s)[i] = job.weights[s[i]] /\ Sizes(s)[i] \in Nat
  <2>1. \A i \in 1 .. n : s[i] \in 1 .. Len(job.weights)
    OBVIOUS
  <2>2. \A j \in 1 .. Len(job.weights) : job.weights[j] \in Nat
    BY JobTypes
  <2> QED BY <2>1, <2>2 DEF Sizes
<1>2. PICK f : RunningSum(f, Sizes(s), n)
  BY <1>1, SumExists
<1>3. IsSum(f)
  <2>1. \A i \in 0 .. n : f[i] = IF i = 0 THEN 0 ELSE f[i - 1] + job.weights[s[i]]
    BY <1>1, <1>2 DEF RunningSum
  <2> QED BY <2>1, <1>2 DEF RunningSum
<1>4. IsSum(sum)
  BY <1>3
<1>5. Bytes(s) = sum[n]
  BY DEF Bytes
<1> HIDE DEF sum
<1>6. sum[0] = 0 /\ \A i \in 1 .. n : sum[i] = sum[i - 1] + Sizes(s)[i]
  <2>1. ASSUME NEW h, IsSum(h), NEW j \in 0 .. n
        PROVE  h[j] = IF j = 0 THEN 0 ELSE h[j - 1] + job.weights[s[j]]
    BY <2>1
  <2>2. \A j \in 0 .. n : sum[j] = IF j = 0 THEN 0 ELSE sum[j - 1] + job.weights[s[j]]
    BY <1>4, <2>1
  <2> QED BY <1>1, <2>2
<1>7. sum[n] = f[n]
  <2>1. \A i \in 0 .. n : sum[i] = f[i]
    <3> HIDE DEF IsSum, n
    <3> QED BY <1>1, <1>2, <1>6, SumUnique
  <2> QED BY <1>1, <2>1
<1> QED BY <1>2, <1>5, <1>7

\* The bytes of a bucket are a number, and one more tensor adds its own.
LEMMA BytesAppend ==
  ASSUME TypeOK, NEW s \in Seq(1 .. Len(job.weights)), NEW t \in 1 .. Len(job.weights)
  PROVE  Bytes(s) \in Nat /\ Bytes(Append(s, t)) = Bytes(s) + job.weights[t]
<1> DEFINE n == Len(s)
           a == Append(s, t)
<1>1. n \in Nat /\ a \in Seq(1 .. Len(job.weights)) /\ Len(a) = n + 1
  OBVIOUS
<1>2. PICK f : RunningSum(f, Sizes(s), n) /\ Bytes(s) = f[n]
  BY BytesIsSum
<1>3. PICK h : RunningSum(h, Sizes(a), n + 1) /\ Bytes(a) = h[n + 1]
  BY <1>1, BytesIsSum
<1>4. \A i \in 1 .. n : Sizes(a)[i] = Sizes(s)[i]
  BY <1>1 DEF Sizes
<1>5. Sizes(a)[n + 1] = job.weights[t]
  BY <1>1 DEF Sizes
<1> HIDE DEF a
<1>6. h[0] = 0 /\ \A i \in 1 .. n : h[i] = h[i - 1] + Sizes(s)[i]
  BY <1>1, <1>3, <1>4 DEF RunningSum
<1>7. h[n] = f[n]
  BY <1>1, <1>2, <1>6, SumUnique
<1>8. h[n + 1] = h[n] + job.weights[t]
  <2>1. n + 1 \in 1 .. (n + 1) /\ (n + 1) - 1 = n
    BY <1>1
  <2>2. h[n + 1] = h[(n + 1) - 1] + Sizes(a)[n + 1]
    BY <1>3, <2>1 DEF RunningSum
  <2> QED BY <2>1, <2>2, <1>5
<1>9. f[n] \in Nat
  BY <1>1, <1>2 DEF RunningSum
<1> QED BY <1>2, <1>3, <1>7, <1>8, <1>9 DEF a

-----------------------------------------------------------------------------
(* Every step keeps the invariant *)

\* Nothing has been started.
LEMMA InitIInv == Init => IInv
<1> SUFFICES ASSUME Init PROVE IInv
  OBVIOUS
<1> USE Group, RdmaAssumption
<1>1. TypeOK
  BY DEF Init, TypeOK, BucketBound
<1>2. SourceInv /\ EndInv
  BY DEF Init, SourceInv, EndInv, SENDING
<1>3. \A r \in Receivers : ReceiverInv(r)
  BY Posts DEF Init, ReceiverInv
<1> QED BY <1>1, <1>2, <1>3 DEF IInv, Init

\* A receiver that a step does not touch, when the bucket stays and the sender does
\* not enter another part of the stream.
LEMMA ReceiverStays ==
  ASSUME NEW r, ReceiverInv(r),
         pc'[r] = pc[r] /\ inside'[r] = inside[r],
         pc'[Source] = pc[Source] \/ pc'[Source] = "failed",
         bucket' = bucket
  PROVE  ReceiverInv(r)'
BY DEF ReceiverInv

\* Its part of the stream.
LEMMA StreamStays ==
  ASSUME NEW r, StreamInv(r), pc'[r] = pc[r], loaded'[r] = loaded[r], staged'[r] = staged[r],
         bucket' = bucket, next' = next
  PROVE  StreamInv(r)'
BY DEF StreamInv

\* The bound of the bucket, for steps that leave it alone.
LEMMA BoundStays ==
  ASSUME TypeOK, job' = job, bucket' = bucket
  PROVE  BucketBound'
BY DEF TypeOK, BucketBound, Bytes

PcType == [Members -> RECEIVING \cup SENDING \cup {"idle", "done", "failed"}]

\* The type invariant from its parts: who is inside a broadcast is busy because of
\* the places of the sender and of the receivers.
LEMMA TypeFrom ==
  ASSUME TypeOK, job' = job, ctl' \in {"idle", "joining", "cleanup", "ended"},
         version' \in 0 .. Syncs, pc' \in PcType, next' \in 1 .. (Len(job.weights) + 1),
         bucket' \in Seq(1 .. Len(job.weights)),
         staged' \in [Receivers -> Seq(1 .. Len(job.weights))],
         loaded' \in [Receivers -> Seq(1 .. Len(job.weights))],
         BucketBound', SourceInv', \A r \in Receivers : ReceiverInv(r)'
  PROVE  TypeOK'
<1>1. inside'[Source] # Outside => Busy(Source)'
  BY DEF SourceInv, Busy, SENDING
<1>2. \A r \in Receivers : inside'[r] # Outside => Busy(r)'
  BY DEF ReceiverInv, Busy, RECEIVING
<1>3. \A m \in Members : inside'[m] # Outside => Busy(m)'
  BY <1>1, <1>2, Group
<1> QED BY <1>3 DEF TypeOK, PcType

\* A change of the sender's place.
LEMMA SourceMoves ==
  ASSUME TypeOK, NEW place \in SENDING \cup {"failed"}, pc' = [pc EXCEPT ![Source] = place]
  PROVE  pc' \in PcType /\ pc'[Source] = place /\ \A r \in Receivers : pc'[r] = pc[r]
<1>1. pc \in PcType
  BY DEF TypeOK, PcType
<1> QED BY <1>1, Group DEF PcType

\* Steps of the controller, which touch neither side of the stream.
LEMMA ControlKeeps ==
  ASSUME IInv, Commit \/ Raise \/ Finish \/ Cleanup
  PROVE  IInv'
<1> USE Group
<1>1. /\ UNCHANGED <<job, version, pc, inside, bucket, next, staged, loaded>>
      /\ ctl' \in {"idle", "cleanup", "ended"}
      /\ ctl' = "idle" => version > 0 /\ \A m \in Members : pc[m] = "done"
  <2>1. CASE Commit
    <3>1. pc[Source] = "done"
      BY <2>1 DEF Commit
    <3>2. version # 0
      BY <3>1, <2>1 DEF IInv, EndInv, Commit
    <3> QED BY <2>1, <3>2 DEF Commit, IInv, TypeOK
  <2>2. CASE Raise \/ Finish \/ Cleanup
    BY <2>2 DEF Raise, Finish, Cleanup
  <2> QED BY <2>1, <2>2
<1>2. TypeOK'
  BY <1>1 DEF IInv, TypeOK, Busy, BucketBound, Bytes
<1>3. SourceInv' /\ EndInv'
  BY <1>1 DEF IInv, SourceInv, EndInv
<1>4. \A r \in Receivers : ReceiverInv(r)'
  BY <1>1, ReceiverStays DEF IInv
<1>5. \A r \in Receivers :
        pc'[Source] \notin {"idle", "failed"} /\ pc'[r] # "failed" => StreamInv(r)'
  BY <1>1, StreamStays DEF IInv
<1> QED BY <1>1, <1>2, <1>3, <1>4, <1>5 DEF IInv

\* Both sides start.
LEMMA StartSyncKeeps == IInv /\ StartSync => IInv'
<1> SUFFICES ASSUME IInv, StartSync PROVE IInv'
  OBVIOUS
<1> USE Group, JobTypes
<1>0. /\ pc'[Source] = "export" /\ inside'[Source] = Outside
      /\ \A r \in Receivers : pc'[r] = "header" /\ inside'[r] = HeaderPost
      /\ bucket' = <<>> /\ next' = 1 /\ job' = job
  BY DEF StartSync
<1>2. SourceInv' /\ EndInv'
  BY <1>0 DEF StartSync, SourceInv, EndInv, SENDING, IInv, TypeOK
<1>3. \A r \in Receivers : ReceiverInv(r)'
  BY <1>0, Posts DEF ReceiverInv, RECEIVING
<1>1. TypeOK'
  <2>1. BucketBound'
    BY <1>0 DEF BucketBound
  <2>2. pc' \in PcType
    BY DEF StartSync, PcType, SENDING, RECEIVING
  <2>3. /\ ctl' = "joining" /\ version' \in 0 .. Syncs
        /\ staged' \in [Receivers -> Seq(1 .. Len(job.weights))]
        /\ loaded' \in [Receivers -> Seq(1 .. Len(job.weights))]
    BY RdmaAssumption DEF StartSync, IInv, TypeOK
  <2>4. 1 \in 1 .. (Len(job.weights) + 1) /\ << >> \in Seq(1 .. Len(job.weights))
    BY DEF IInv
  <2> QED BY <1>0, <1>2, <1>3, <2>1, <2>2, <2>3, <2>4, TypeFrom DEF IInv
<1>4. \A r \in Receivers : StreamInv(r)'
  BY DEF StartSync, StreamInv
<1> QED BY <1>0, <1>1, <1>2, <1>3, <1>4 DEF IInv, StartSync

\* Steps of the sender between two broadcasts that leave the bucket alone.
LEMMA SenderMoves ==
  ASSUME IInv, NEW place \in SENDING \cup {"failed"}, pc' = [pc EXCEPT ![Source] = place],
         UNCHANGED <<job, ctl, version, inside, bucket, next, staged, loaded>>,
         pc[Source] \in {"export", "pack"}, inside[Source] = Outside,
         \/ place \in {"pack", "header", "failed"}
         \/ place = "end" /\ bucket = <<>> /\ next = Len(job.weights) + 1
  PROVE  IInv'
<1> USE Group
<1>1. pc' \in PcType /\ pc'[Source] = place /\ \A r \in Receivers : pc'[r] = pc[r]
  BY SourceMoves DEF IInv
<1>3. SourceInv'
  BY <1>1 DEF IInv, SourceInv, SENDING
<1>4. EndInv'
  BY <1>1 DEF IInv, EndInv
<1>5. \A r \in Receivers : ReceiverInv(r)'
  BY <1>1 DEF IInv, ReceiverInv
<1>2. TypeOK'
  <2>1. BucketBound'
    BY BoundStays DEF IInv
  <2> QED BY <1>1, <1>3, <1>5, <2>1, TypeFrom DEF IInv, TypeOK
<1>6. \A r \in Receivers :
        pc'[Source] \notin {"idle", "failed"} /\ pc'[r] # "failed" => StreamInv(r)'
  BY <1>1, StreamStays DEF IInv
<1> QED BY <1>2, <1>3, <1>4, <1>5, <1>6 DEF IInv

\* Export, failure, and the end of the parameter iterator.
LEMMA SenderPlainKeeps ==
  ASSUME IInv, Export \/ PackLast \/ SenderFail
  PROVE  IInv'
<1> USE Group, Posts, JobTypes
<1>1. pc[Source] \in {"export", "pack"} /\ inside[Source] = Outside
  BY DEF Export, PackLast, SenderFail, IInv, SourceInv
<1>2. CASE Export
  <2>1. "pack" \in SENDING
    BY DEF SENDING
  <2> QED BY <1>1, <1>2, <2>1, SenderMoves DEF Export
<1>3. CASE SenderFail
  BY <1>1, <1>3, SenderMoves DEF SenderFail
<1>4. CASE PackLast
  <2>1. next = Len(job.weights) + 1
    BY <1>4 DEF PackLast, IInv, TypeOK
  <2> DEFINE place == IF bucket = <<>> THEN "end" ELSE "header"
  <2>2. place \in SENDING /\ (place = "header" \/ (place = "end" /\ bucket = <<>>))
    <3>1. CASE bucket = <<>>
      BY <3>1 DEF SENDING
    <3>2. CASE bucket # <<>>
      BY <3>2 DEF SENDING
    <3> QED BY <3>1, <3>2
  <2>3. /\ pc' = [pc EXCEPT ![Source] = place]
        /\ UNCHANGED <<job, ctl, version, inside, bucket, next, staged, loaded>>
    BY <1>4 DEF PackLast
  <2> HIDE DEF place
  <2> QED BY <1>1, <2>1, <2>2, <2>3, SenderMoves
<1> QED BY <1>2, <1>3, <1>4

\* One tensor is packed, or the bucket is full without it.
LEMMA PackKeeps == IInv /\ Pack => IInv'
<1> SUFFICES ASSUME IInv, Pack PROVE IInv'
  OBVIOUS
<1> USE Group
<1>0. pc[Source] = "pack" /\ inside[Source] = Outside
  BY DEF Pack, IInv, SourceInv
<1>1. CASE Overflows
  <2>1. /\ pc' = [pc EXCEPT ![Source] = "header"]
        /\ UNCHANGED <<job, ctl, version, inside, bucket, next, staged, loaded>>
    BY <1>1 DEF Pack
  <2>2. "header" \in SENDING
    BY DEF SENDING
  <2> QED BY <1>0, <2>1, <2>2, SenderMoves
<1>2. CASE ~Overflows
  <2>1. /\ bucket' = Append(bucket, next) /\ next' = next + 1 /\ next \in 1 .. Len(job.weights)
        /\ UNCHANGED <<job, ctl, version, inside, staged, loaded>>
        /\ bucket \in Seq(1 .. Len(job.weights)) /\ Len(job.weights) \in Nat
    BY <1>2, JobTypes DEF Pack, IInv, TypeOK
  <2>0. /\ pc'[Source] \in {"header", "pack"} /\ \A r \in Receivers : pc'[r] = pc[r]
        /\ pc' \in PcType
    <3> DEFINE place == IF Bytes(bucket) + job.weights[next] >= job.bucketBytes
                        THEN "header" ELSE "pack"
    <3>1. place \in SENDING /\ place \in {"header", "pack"}
      BY DEF SENDING
    <3>2. pc' = [pc EXCEPT ![Source] = place]
      BY <1>2 DEF Pack
    <3> HIDE DEF place
    <3> QED BY <3>1, <3>2, SourceMoves DEF IInv
  <2>2. BucketBound'
    <3>1. /\ Bytes(bucket) \in Nat /\ Bytes(Append(bucket, next)) = Bytes(bucket) + job.weights[next]
      BY <2>1, BytesAppend DEF IInv
    <3>2. Bytes(bucket)' = Bytes(Append(bucket, next))
      BY <2>1 DEF Bytes
    <3>3. job.weights[next] \in Nat /\ job.bucketBytes \in Nat
      BY <2>1, JobTypes DEF IInv
    <3>4. bucket = <<>> => Len(bucket') = 1
      BY <2>1
    <3>5. bucket # <<>> => Bytes(bucket) + job.weights[next] <= job.bucketBytes
      BY <1>2, <3>1, <3>3 DEF Overflows
    <3> QED BY <2>1, <3>1, <3>2, <3>3, <3>4, <3>5 DEF BucketBound
  <2>4. SourceInv'
    BY <1>0, <2>0, <2>1 DEF SourceInv, SENDING
  <2>5. EndInv'
    BY <1>0, <2>0, <2>1 DEF IInv, EndInv
  <2>6. \A r \in Receivers : ReceiverInv(r)'
    <3> SUFFICES ASSUME NEW r \in Receivers PROVE ReceiverInv(r)'
      OBVIOUS
    <3>1. pc[r] \in {"header", "load", "failed"} /\ inside[r] \in {Outside, HeaderPost}
      BY <1>0 DEF IInv, ReceiverInv
    <3> QED BY <1>0, <2>0, <2>1, <3>1, Posts DEF IInv, ReceiverInv, RECEIVING
  <2>3. TypeOK'
    <3>1. bucket' \in Seq(1 .. Len(job.weights)) /\ next' \in 1 .. (Len(job.weights) + 1)
      BY <2>1
    <3> QED BY <2>0, <2>1, <2>2, <2>4, <2>6, <3>1, TypeFrom DEF IInv, TypeOK
  <2>7. \A r \in Receivers : pc[r] # "failed" => StreamInv(r)'
    <3> SUFFICES ASSUME NEW r \in Receivers, pc[r] # "failed" PROVE StreamInv(r)'
      OBVIOUS
    <3>1. StreamInv(r)
      BY <1>0 DEF IInv
    <3>2. loaded[r] \in Seq(1 .. Len(job.weights)) /\ staged[r] \in Seq(1 .. Len(job.weights))
      BY DEF IInv, TypeOK
    <3> DEFINE l == Len(loaded[r])
               t == Len(staged[r])
               b == Len(bucket)
    <3>3. l \in Nat /\ t \in Nat /\ b \in Nat /\ next \in Nat
      BY <3>2, <2>1
    <3>4. /\ Len(bucket') = b + 1 /\ bucket'[b + 1] = next
          /\ \A i \in 1 .. b : bucket'[i] = bucket[i]
      BY <2>1
    <3>5. l + t + b = next - 1 /\ \A i \in 1 .. b : bucket[i] = l + t + i
      BY <3>1 DEF StreamInv
    <3> HIDE DEF l, t, b
    <3>6. next = l + t + (b + 1)
      BY <3>3, <3>5
    <3>7. \A i \in 1 .. (b + 1) : bucket'[i] = l + t + i
      BY <3>3, <3>4, <3>5, <3>6
    <3>8. l + t + (b + 1) = next' - 1
      BY <2>1, <3>3, <3>6
    <3>9. pc'[r] = pc[r] /\ loaded' = loaded /\ staged' = staged
      BY <2>0, <2>1
    <3> QED BY <3>1, <3>4, <3>7, <3>8, <3>9 DEF StreamInv, l, t
  <2> QED BY <2>0, <2>1, <2>3, <2>4, <2>5, <2>6, <2>7 DEF IInv
<1> QED BY <1>1, <1>2

\* The sender enters a broadcast.
LEMMA SendBucketKeeps == IInv /\ SendBucket => IInv'
<1> SUFFICES ASSUME IInv, SendBucket PROVE IInv'
  OBVIOUS
<1> USE Group
<1>0. /\ pc[Source] \in {"header", "metadata", "payload", "end"} /\ inside[Source] = Outside
      /\ UNCHANGED <<job, ctl, version, bucket, next, staged, loaded>>
      /\ \A r \in Receivers : pc'[r] = pc[r] /\ inside'[r] = inside[r]
      /\ pc'[Source] = IF pc[Source] = "end" THEN "endHeader" ELSE pc[Source]
      /\ inside'[Source] = IF pc[Source] \in {"header", "end"} THEN HeaderPost
                           ELSE BodyPost(pc[Source], bucket)
      /\ pc' \in PcType /\ inside' = [m \in Members |-> inside'[m]]
  BY DEF SendBucket, IInv, TypeOK, SENDING, PcType
<1>2. SourceInv' /\ EndInv'
  BY <1>0 DEF IInv, SourceInv, EndInv, SENDING
<1>3. \A r \in Receivers : ReceiverInv(r)'
  BY <1>0 DEF IInv, ReceiverInv
<1>1. TypeOK'
  <2>1. BucketBound'
    BY <1>0, BoundStays DEF IInv
  <2> QED BY <1>0, <1>2, <1>3, <2>1, TypeFrom DEF IInv, TypeOK
<1>4. \A r \in Receivers :
        pc'[Source] \notin {"idle", "failed"} /\ pc'[r] # "failed" => StreamInv(r)'
  BY <1>0, StreamStays DEF IInv
<1> QED BY <1>0, <1>1, <1>2, <1>3, <1>4 DEF IInv

\* Everybody is inside: the places of the group, by the part of the stream.
LEMMA AllInside ==
  ASSUME IInv, \A m \in Members : inside[m] # Outside
  PROVE  /\ pc[Source] \in {"header", "metadata", "payload", "endHeader"}
         /\ pc[Source] \in {"header", "endHeader"} =>
              \A r \in Receivers : pc[r] = "header" /\ inside[r] = HeaderPost
         /\ pc[Source] \in {"metadata", "payload"} =>
              \A r \in Receivers : pc[r] = pc[Source] /\ inside[r] = BodyPost(pc[Source], bucket)
<1> USE Group, Posts
<1>1. pc[Source] \in {"header", "metadata", "payload", "endHeader"}
  BY DEF IInv, SourceInv
<1>2. \A r \in Receivers : inside[r] # Outside /\ ReceiverInv(r)
  BY DEF IInv
<1>3. \A r \in Receivers : pc[r] \in {"header", "metadata", "payload"}
  BY <1>2 DEF ReceiverInv
<1>4. pc[Source] \in {"header", "endHeader"} => \A r \in Receivers : pc[r] = "header"
  BY <1>2, <1>3 DEF ReceiverInv
<1>5. pc[Source] \in {"metadata", "payload"} => \A r \in Receivers : pc[r] = pc[Source]
  BY <1>2, <1>3 DEF ReceiverInv
<1>6. \A r \in Receivers : /\ pc[r] = "header" => inside[r] = HeaderPost
                           /\ pc[r] = "metadata" => inside[r] = BodyPost("metadata", bucket)
                           /\ pc[r] = "payload" => inside[r] = BodyPost("payload", bucket)
  BY <1>2 DEF ReceiverInv
<1> QED BY <1>1, <1>4, <1>5, <1>6

\* A broadcast completes.
LEMMA BroadcastKeeps == IInv /\ Broadcast => IInv'
<1> SUFFICES ASSUME IInv, Broadcast PROVE IInv'
  OBVIOUS
<1> USE Group
<1>1. /\ pc[Source] \in {"header", "metadata", "payload", "endHeader"}
      /\ pc[Source] \in {"header", "endHeader"} => \A r \in Receivers : pc[r] = "header"
      /\ pc[Source] \in {"metadata", "payload"} => \A r \in Receivers : pc[r] = pc[Source]
  BY AllInside DEF Broadcast
<1>2. /\ UNCHANGED <<job, ctl, version, next, loaded>>
      /\ bucket' = IF pc[Source] = "payload" THEN <<>> ELSE bucket
      /\ pc'[Source] = SenderAfter /\ inside'[Source] = Outside
      /\ \A r \in Receivers : /\ pc'[r] = ReceiverAfter(r)
                              /\ inside'[r] = PostOf(r, pc'[r])
                              /\ staged'[r] = IF pc[r] = "payload" THEN bucket ELSE staged[r]
  BY DEF Broadcast, PostOf
<1>3. /\ pc[Source] = "header" => pc'[Source] = "metadata"
      /\ pc[Source] = "metadata" => pc'[Source] = "payload"
      /\ pc[Source] = "payload" => pc'[Source] = "pack"
      /\ pc[Source] = "endHeader" => pc'[Source] = "done"
  BY <1>2 DEF SenderAfter
<1>4. \A r \in Receivers :
        /\ pc[Source] = "header" => pc'[r] \in {"metadata", "failed"}
        /\ pc[Source] = "metadata" => pc'[r] = "payload"
        /\ pc[Source] = "payload" => pc'[r] = "load"
        /\ pc[Source] = "endHeader" => pc'[r] = "verify"
  BY <1>1, <1>2 DEF ReceiverAfter, AfterHeader
<1>5. \A r \in Receivers :
        inside'[r] = IF pc'[r] \in {"metadata", "payload"} THEN BodyPost(pc'[r], bucket) ELSE Outside
  BY <1>1, <1>2, <1>4 DEF PostOf
<1>6. SourceInv'
  BY <1>1, <1>2, <1>3 DEF SourceInv, SENDING
<1>7. \A r \in Receivers : ReceiverInv(r)'
  <2> SUFFICES ASSUME NEW r \in Receivers PROVE ReceiverInv(r)'
    OBVIOUS
  <2>1. CASE pc[Source] = "header"
    <3>1. CASE pc'[r] = "metadata"
      <4>1. pc'[Source] = "metadata" /\ bucket' = bucket /\ inside'[r] = BodyPost("metadata", bucket)
        BY <2>1, <3>1, <1>2, <1>3, <1>5
      <4> QED BY <3>1, <4>1, Posts DEF ReceiverInv, RECEIVING
    <3>2. CASE pc'[r] = "failed"
      <4>1. pc'[Source] = "metadata" /\ inside'[r] = Outside
        BY <2>1, <3>2, <1>2, <1>3, <1>5
      <4> QED BY <3>2, <4>1, Posts DEF ReceiverInv
    <3> QED BY <2>1, <3>1, <3>2, <1>4
  <2>2. CASE pc[Source] = "metadata"
    <3>1. /\ pc'[r] = "payload" /\ pc'[Source] = "payload" /\ bucket' = bucket
          /\ inside'[r] = BodyPost("payload", bucket)
      BY <2>2, <1>2, <1>3, <1>4, <1>5
    <3> QED BY <3>1, Posts DEF ReceiverInv, RECEIVING
  <2>3. CASE pc[Source] = "payload"
    <3>1. pc'[r] = "load" /\ pc'[Source] = "pack" /\ inside'[r] = Outside
      BY <2>3, <1>3, <1>4, <1>5
    <3> QED BY <3>1, Posts DEF ReceiverInv, RECEIVING
  <2>4. CASE pc[Source] = "endHeader"
    <3>1. pc'[r] = "verify" /\ pc'[Source] = "done" /\ inside'[r] = Outside
      BY <2>4, <1>3, <1>4, <1>5
    <3> QED BY <3>1, Posts DEF ReceiverInv, RECEIVING
  <2> QED BY <1>1, <2>1, <2>2, <2>3, <2>4
<1>8. EndInv'
  <2>1. ctl # "idle"
    <3> SUFFICES ASSUME ctl = "idle" PROVE FALSE
      OBVIOUS
    <3>1. pc[Source] \in {"idle", "done"}
      BY DEF IInv, EndInv
    <3> QED BY <3>1, <1>1
  <2>2. pc'[Source] \in {"end", "endHeader", "done"} => pc[Source] = "endHeader"
    BY <1>1, <1>3
  <2>3. \A r \in Receivers : pc'[r] # "done"
    BY <1>1, <1>4
  <2> QED BY <2>1, <2>2, <2>3, <1>2 DEF IInv, EndInv
<1>9. TypeOK'
  <2>1. BucketBound'
    <3>1. CASE pc[Source] = "payload"
      BY <3>1, <1>2 DEF BucketBound
    <3>2. CASE pc[Source] # "payload"
      BY <3>2, <1>2, BoundStays DEF IInv
    <3> QED BY <3>1, <3>2
  <2>2. pc' \in PcType
    <3>1. \A m \in Members : pc'[m] \in RECEIVING \cup SENDING \cup {"idle", "done", "failed"}
      BY <1>1, <1>3, <1>4 DEF RECEIVING, SENDING
    <3> QED BY <3>1 DEF Broadcast, PcType
  <2>3. /\ bucket' \in Seq(1 .. Len(job.weights))
        /\ staged' \in [Receivers -> Seq(1 .. Len(job.weights))]
    <3>1. /\ bucket \in Seq(1 .. Len(job.weights)) /\ << >> \in Seq(1 .. Len(job.weights))
          /\ staged \in [Receivers -> Seq(1 .. Len(job.weights))]
      BY DEF IInv, TypeOK
    <3>2. staged' = [r \in Receivers |-> IF pc[r] = "payload" THEN bucket ELSE staged[r]]
      BY DEF Broadcast
    <3> QED BY <3>1, <3>2, <1>2
  <2> QED BY <1>2, <1>6, <1>7, <2>1, <2>2, <2>3, TypeFrom DEF IInv, TypeOK
<1>10. ASSUME NEW r \in Receivers, pc'[r] # "failed"
       PROVE  StreamInv(r)'
  <2>1. StreamInv(r) /\ pc[r] # "load"
    BY <1>1 DEF IInv
  <2>2. /\ loaded'[r] = loaded[r] /\ next' = next
        /\ loaded[r] \in Seq(1 .. Len(job.weights)) /\ staged[r] \in Seq(1 .. Len(job.weights))
        /\ bucket \in Seq(1 .. Len(job.weights))
    BY <1>2 DEF IInv, TypeOK
  <2>3. Len(staged[r]) = 0
    BY <2>1, <2>2 DEF StreamInv
  <2>4. CASE pc[Source] = "payload"
    <3>1. pc'[r] = "load" /\ staged'[r] = bucket /\ bucket' = <<>>
      BY <2>4, <1>1, <1>2, <1>4
    <3>2. /\ Len(loaded[r]) \in Nat /\ Len(bucket) \in Nat /\ Len(bucket') = 0
          /\ \A i \in 1 .. Len(loaded[r]) : loaded[r][i] = i
          /\ \A i \in 1 .. Len(bucket) : bucket[i] = Len(loaded[r]) + i
          /\ Len(loaded[r]) + Len(bucket) = next - 1
      BY <2>1, <2>2, <2>3, <3>1 DEF StreamInv
    <3> QED BY <3>1, <3>2, <2>2 DEF StreamInv
  <2>5. CASE pc[Source] # "payload"
    <3>1. staged'[r] = staged[r] /\ bucket' = bucket
      BY <2>5, <1>1, <1>2
    <3> QED BY <3>1, <2>1, <2>2, <2>3 DEF StreamInv
  <2> QED BY <2>4, <2>5
<1>11. inside' = [m \in Members |-> inside'[m]]
  BY DEF Broadcast
<1> QED BY <1>6, <1>7, <1>8, <1>9, <1>10, <1>11 DEF IInv

\* Steps of one receiver r: the sender and the other receivers stay.
LEMMA ReceiverMoves ==
  ASSUME IInv, NEW r \in Receivers,
         NEW place \in RECEIVING \cup {"done", "failed"}, pc' = [pc EXCEPT ![r] = place],
         UNCHANGED <<job, ctl, version, bucket, next>>,
         inside' = [m \in Members |-> inside'[m]],
         \A m \in Members \ {r} : inside'[m] = inside[m],
         staged' \in [Receivers -> Seq(1 .. Len(job.weights))],
         loaded' \in [Receivers -> Seq(1 .. Len(job.weights))],
         \A q \in Receivers \ {r} : staged'[q] = staged[q] /\ loaded'[q] = loaded[q],
         pc[r] \notin {"idle", "done"}, place = "done" /\ job.verify => job.covers,
         ReceiverInv(r)',
         pc[Source] \notin {"idle", "failed"} /\ place # "failed" => StreamInv(r)'
  PROVE  IInv'
<1> USE Group
<1>1. /\ pc' \in PcType /\ pc'[r] = place /\ pc'[Source] = pc[Source]
      /\ \A q \in Receivers \ {r} : pc'[q] = pc[q]
  <2>1. pc \in PcType
    BY DEF IInv, TypeOK, PcType
  <2> QED BY <2>1 DEF PcType
<1>2. SourceInv'
  <2>1. inside'[Source] = inside[Source]
    OBVIOUS
  <2> QED BY <1>1, <2>1 DEF IInv, SourceInv
<1>3. \A q \in Receivers : ReceiverInv(q)'
  BY <1>1, ReceiverStays DEF IInv
<1>4. EndInv'
  <2>1. ctl # "idle"
    <3> SUFFICES ASSUME ctl = "idle" PROVE FALSE
      OBVIOUS
    <3>1. pc[r] \in {"idle", "done"}
      BY DEF IInv, EndInv
    <3> QED BY <3>1
  <2>2. \A q \in Receivers : pc'[q] = "done" /\ job.verify => job.covers
    BY <1>1 DEF IInv, EndInv
  <2> QED BY <1>1, <2>1, <2>2 DEF IInv, EndInv
<1>5. TypeOK'
  <2>1. BucketBound'
    BY BoundStays DEF IInv
  <2> QED BY <1>1, <1>2, <1>3, <2>1, TypeFrom DEF IInv, TypeOK
<1>6. \A q \in Receivers :
        pc'[Source] \notin {"idle", "failed"} /\ pc'[q] # "failed" => StreamInv(q)'
  BY <1>1, StreamStays DEF IInv
<1> QED BY <1>2, <1>3, <1>4, <1>5, <1>6 DEF IInv

\* load_weights takes a tensor, or the generator posts the next header.
LEMMA LoadOneKeeps ==
  ASSUME IInv, NEW r \in Receivers, LoadOne(r)
  PROVE  IInv'
<1> USE Group
<1>0. /\ pc[r] = "load" /\ UNCHANGED <<job, ctl, version, bucket, next>>
      /\ pc \in PcType /\ inside = [m \in Members |-> inside[m]]
      /\ staged \in [Receivers -> Seq(1 .. Len(job.weights))]
      /\ loaded \in [Receivers -> Seq(1 .. Len(job.weights))]
  BY DEF LoadOne, IInv, TypeOK, PcType
<1>1. ReceiverInv(r) /\ (pc[Source] \notin {"idle", "failed"} => StreamInv(r))
  BY <1>0 DEF IInv
<1>2. CASE staged[r] = <<>>
  <2>1. /\ pc' = [pc EXCEPT ![r] = "header"] /\ inside' = [inside EXCEPT ![r] = HeaderPost]
        /\ UNCHANGED <<staged, loaded>>
    BY <1>2 DEF LoadOne
  <2>2. pc'[r] = "header" /\ inside'[r] = HeaderPost /\ pc'[Source] = pc[Source]
    BY <1>0, <2>1 DEF PcType
  <2>3. ReceiverInv(r)'
    <3>1. pc[Source] \notin {"idle", "metadata", "payload", "done"}
      BY <1>0, <1>1 DEF ReceiverInv
    <3> QED BY <1>0, <1>1, <2>2, <3>1, Posts DEF ReceiverInv, RECEIVING
  <2>4. pc[Source] \notin {"idle", "failed"} => StreamInv(r)'
    BY <1>0, <1>1, <1>2, <2>1 DEF StreamInv
  <2>5. "header" \in RECEIVING
    BY DEF RECEIVING
  <2>6. /\ inside' = [m \in Members |-> inside'[m]]
        /\ \A m \in Members \ {r} : inside'[m] = inside[m]
    BY <1>0, <2>1
  <2> QED BY <1>0, <2>1, <2>3, <2>4, <2>5, <2>6, ReceiverMoves
<1>3. CASE staged[r] # <<>>
  <2>1. /\ loaded' = [loaded EXCEPT ![r] = Append(@, Head(staged[r]))]
        /\ staged' = [staged EXCEPT ![r] = Tail(@)] /\ UNCHANGED <<pc, inside>>
    BY <1>3 DEF LoadOne
  <2>2. /\ staged[r] \in Seq(1 .. Len(job.weights)) /\ loaded[r] \in Seq(1 .. Len(job.weights))
        /\ Head(staged[r]) \in 1 .. Len(job.weights) /\ Head(staged[r]) = staged[r][1]
        /\ Tail(staged[r]) \in Seq(1 .. Len(job.weights))
        /\ loaded'[r] = Append(loaded[r], Head(staged[r])) /\ staged'[r] = Tail(staged[r])
    BY <1>0, <1>3, <2>1
  <2>3. /\ staged' \in [Receivers -> Seq(1 .. Len(job.weights))]
        /\ loaded' \in [Receivers -> Seq(1 .. Len(job.weights))]
        /\ \A q \in Receivers \ {r} : staged'[q] = staged[q] /\ loaded'[q] = loaded[q]
    BY <1>0, <2>1, <2>2
  <2>4. ReceiverInv(r)'
    BY <1>0, <1>1, <2>1 DEF ReceiverInv
  <2>5. ASSUME pc[Source] \notin {"idle", "failed"} PROVE StreamInv(r)'
    <3> DEFINE l == Len(loaded[r])
               t == Len(staged[r])
               b == Len(bucket)
    <3>1. l \in Nat /\ t \in Nat /\ t > 0 /\ b \in Nat /\ next \in Nat
      BY <1>3, <2>2 DEF IInv, TypeOK
    <3>2. /\ Len(loaded'[r]) = l + 1 /\ Len(staged'[r]) = t - 1
          /\ \A i \in 1 .. l : loaded'[r][i] = loaded[r][i]
          /\ loaded'[r][l + 1] = staged[r][1]
          /\ \A i \in 1 .. (t - 1) : staged'[r][i] = staged[r][i + 1]
      BY <2>2, <1>3
    <3>3. /\ \A i \in 1 .. l : loaded[r][i] = i
          /\ \A i \in 1 .. t : staged[r][i] = l + i
          /\ \A i \in 1 .. b : bucket[i] = l + t + i
          /\ l + t + b = next - 1
      BY <1>1, <2>5 DEF StreamInv
    <3> HIDE DEF l, t, b
    <3>4. ASSUME NEW i \in 1 .. (l + 1)
          PROVE  loaded'[r][i] = i
      <4>1. CASE i \in 1 .. l
        BY <3>2, <3>3, <4>1
      <4>2. CASE i = l + 1
        <5>1. 1 \in 1 .. t /\ staged[r][1] = l + 1
          BY <3>1, <3>3
        <5> QED
          BY <3>2, <4>2, <5>1
      <4> QED
        BY <3>1, <4>1, <4>2
    <3>5. ASSUME NEW i \in 1 .. (t - 1)
          PROVE  staged'[r][i] = (l + 1) + i
      <4>1. i + 1 \in 1 .. t /\ staged'[r][i] = staged[r][i + 1]
        BY <3>1, <3>2
      <4>2. staged[r][i + 1] = l + (i + 1)
        BY <3>3, <4>1
      <4> QED
        BY <3>1, <4>1, <4>2
    <3>6. \A i \in 1 .. b : bucket[i] = (l + 1) + (t - 1) + i
      BY <3>1, <3>3
    <3>7. (l + 1) + (t - 1) + b = next - 1
      BY <3>1, <3>3
    <3>8. pc'[r] = "load" /\ bucket' = bucket /\ next' = next
      BY <1>0, <2>1
    <3> QED BY <3>2, <3>4, <3>5, <3>6, <3>7, <3>8 DEF StreamInv, b
  <2>6. "load" \in RECEIVING /\ pc' = [pc EXCEPT ![r] = "load"]
    BY <1>0, <2>1 DEF RECEIVING, PcType
  <2>7. /\ inside' = [m \in Members |-> inside'[m]]
        /\ \A m \in Members \ {r} : inside'[m] = inside[m]
    BY <1>0, <2>1
  <2> QED BY <1>0, <2>3, <2>4, <2>5, <2>6, <2>7, ReceiverMoves
<1> QED BY <1>2, <1>3

\* load_weights raises, or the receiver verifies.
LEMMA LoadEndKeeps ==
  ASSUME IInv, NEW r \in Receivers, LoadFail(r) \/ Verify(r)
  PROVE  IInv'
<1> USE Group
<1>0. /\ pc[r] \in {"load", "verify"}
      /\ UNCHANGED <<job, ctl, version, inside, bucket, next, staged, loaded>>
      /\ pc \in PcType /\ inside = [m \in Members |-> inside[m]]
      /\ staged \in [Receivers -> Seq(1 .. Len(job.weights))]
      /\ loaded \in [Receivers -> Seq(1 .. Len(job.weights))]
  BY DEF LoadFail, Verify, IInv, TypeOK, PcType
<1>1. ReceiverInv(r) /\ (pc[Source] \notin {"idle", "failed"} => StreamInv(r))
  BY <1>0 DEF IInv
<1>2. CASE pc' = [pc EXCEPT ![r] = "failed"]
  <2>1. pc'[r] = "failed" /\ pc'[Source] = pc[Source] /\ inside'[r] = Outside
    BY <1>0, <1>1, <1>2, Posts DEF PcType, ReceiverInv
  <2>2. pc[Source] # "idle"
    BY <1>0, <1>1 DEF ReceiverInv
  <2>3. ReceiverInv(r)'
    BY <2>1, <2>2, Posts DEF ReceiverInv
  <2> QED BY <1>0, <1>2, <2>3, ReceiverMoves
<1>3. CASE Verify(r) /\ pc' = [pc EXCEPT ![r] = "done"] /\ (job.verify => job.covers)
  <2>1. pc[r] = "verify" /\ pc'[r] = "done" /\ pc'[Source] = pc[Source] /\ inside'[r] = Outside
    BY <1>0, <1>1, <1>3, Posts DEF PcType, ReceiverInv, Verify
  <2>2. pc[Source] \notin {"idle", "export", "pack", "header", "end", "endHeader", "metadata", "payload"}
    BY <2>1, <1>1 DEF ReceiverInv
  <2>3. ReceiverInv(r)'
    BY <2>1, <2>2, Posts DEF ReceiverInv
  <2>4. pc[Source] \notin {"idle", "failed"} => StreamInv(r)'
    BY <1>0, <1>1, <2>1 DEF StreamInv
  <2> QED BY <1>0, <1>3, <2>3, <2>4, ReceiverMoves
<1> QED BY <1>2, <1>3 DEF LoadFail, Verify, Missing

\* The timeout of the process group.
LEMMA GroupTimeoutKeeps ==
  ASSUME IInv, NEW m \in Members, GroupTimeout(m)
  PROVE  IInv'
<1> USE Group
<1>0. /\ pc' = [pc EXCEPT ![m] = "failed"] /\ inside' = [inside EXCEPT ![m] = Outside]
      /\ UNCHANGED <<job, ctl, version, bucket, next, staged, loaded>>
      /\ inside[m] # Outside /\ pc \in PcType /\ inside = [k \in Members |-> inside[k]]
      /\ staged \in [Receivers -> Seq(1 .. Len(job.weights))]
      /\ loaded \in [Receivers -> Seq(1 .. Len(job.weights))]
  BY DEF GroupTimeout, IInv, TypeOK, PcType
<1>1. CASE m \in Receivers
  <2>1. ReceiverInv(m)
    BY <1>1 DEF IInv
  <2>2. pc[m] \in {"header", "metadata", "payload"}
    BY <2>1, <1>0 DEF ReceiverInv
  <2>3. pc'[m] = "failed" /\ pc'[Source] = pc[Source] /\ inside'[m] = Outside
    BY <1>0, <1>1 DEF PcType
  <2>4. pc[Source] \notin {"idle", "done"}
    BY <2>1, <2>2 DEF ReceiverInv
  <2>5. ReceiverInv(m)'
    BY <2>3, <2>4, Posts DEF ReceiverInv
  <2>6. /\ inside' = [k \in Members |-> inside'[k]]
        /\ \A k \in Members \ {m} : inside'[k] = inside[k]
    BY <1>0
  <2> QED BY <1>0, <1>1, <2>2, <2>5, <2>6, ReceiverMoves
<1>2. CASE m = Source
  <2>1. pc' \in PcType /\ pc'[Source] = "failed" /\ \A r \in Receivers : pc'[r] = pc[r]
    BY <1>0, <1>2 DEF PcType
  <2>2. /\ inside' = [k \in Members |-> inside'[k]] /\ inside'[Source] = Outside
        /\ \A r \in Receivers : inside'[r] = inside[r]
    BY <1>0, <1>2
  <2>3. SourceInv'
    BY <2>1, <2>2 DEF SourceInv
  <2>4. \A r \in Receivers : ReceiverInv(r)'
    BY <1>0, <2>1, <2>2, ReceiverStays DEF IInv
  <2>5. EndInv'
    <3>1. pc[Source] \in {"header", "metadata", "payload", "endHeader"}
      BY <1>0, <1>2 DEF IInv, SourceInv
    <3>2. ctl # "idle"
      <4> SUFFICES ASSUME ctl = "idle" PROVE FALSE
        OBVIOUS
      <4>1. pc[Source] \in {"idle", "done"}
        BY DEF IInv, EndInv
      <4> QED BY <4>1, <3>1
    <3> QED BY <1>0, <2>1, <3>2 DEF IInv, EndInv
  <2>6. TypeOK'
    <3>1. BucketBound'
      BY <1>0, BoundStays DEF IInv
    <3> QED BY <1>0, <2>1, <2>3, <2>4, <3>1, TypeFrom DEF IInv, TypeOK
  <2> QED BY <2>1, <2>2, <2>3, <2>4, <2>5, <2>6 DEF IInv
<1> QED BY <1>1, <1>2

\* IInv is inductive.
LEMMA IInvStep == IInv /\ [Next]_vars => IInv'
<1> SUFFICES ASSUME IInv, [Next]_vars PROVE IInv'
  OBVIOUS
<1>1. CASE UNCHANGED vars
  <2>1. TypeOK' /\ SourceInv' /\ EndInv'
    BY <1>1 DEF vars, IInv, TypeOK, Busy, BucketBound, Bytes, SourceInv, EndInv
  <2>2. \A r \in Receivers : ReceiverInv(r)'
    BY <1>1, ReceiverStays DEF vars, IInv
  <2>3. \A r \in Receivers :
          pc'[Source] \notin {"idle", "failed"} /\ pc'[r] # "failed" => StreamInv(r)'
    BY <1>1, StreamStays DEF vars, IInv
  <2> QED BY <1>1, <2>1, <2>2, <2>3 DEF vars, IInv
<1>2. CASE Control
  BY <1>2, StartSyncKeeps, ControlKeeps DEF Control
<1>3. CASE Send
  BY <1>3, SenderPlainKeeps, PackKeeps, SendBucketKeeps DEF Send
<1>4. CASE Broadcast
  BY <1>4, BroadcastKeeps
<1>5. ASSUME NEW r \in Receivers, Receive(r) PROVE IInv'
  BY <1>5, LoadOneKeeps, LoadEndKeeps DEF Receive
<1>6. ASSUME NEW m \in Members, GroupTimeout(m) PROVE IInv'
  BY <1>6, GroupTimeoutKeeps
<1> QED BY <1>1, <1>2, <1>3, <1>4, <1>5, <1>6 DEF Next

\* IInv holds in every reachable state.
LEMMA Invariant == Spec => []IInv
BY InitIInv, IInvStep, PTL DEF Spec

-----------------------------------------------------------------------------
(* The theorems *)

\* Whenever the whole group is inside a broadcast it is the same one, with the same
\* sizes, and the bucket stays within its bound: for any number of receivers, any
\* list of tensors, any failure and any timeout.
THEOREM StreamsPair == Spec => []BroadcastsPair
<1>1. IInv => BroadcastsPair
  <2> SUFFICES ASSUME IInv, \A m \in Members : inside[m] # Outside
               PROVE  Cardinality({inside[m] : m \in Members}) = 1
    BY DEF BroadcastsPair, IInv
  <2> USE Group
  <2>1. inside[Source] = IF pc[Source] \in {"header", "endHeader"} THEN HeaderPost
                         ELSE BodyPost(pc[Source], bucket)
    BY AllInside DEF IInv, SourceInv
  <2>2. \A m \in Members : inside[m] = inside[Source]
    BY <2>1, AllInside
  <2>3. {inside[m] : m \in Members} = {inside[Source]}
    BY <2>2
  <2> QED BY <2>3, FS_Singleton
<1> QED BY <1>1, Invariant, PTL

\* A synchronisation the trainer takes as committed put every tensor, once and in
\* order, into every receiver, and with verify_full_load it covered the model.
THEOREM CommitIsComplete == Spec => []CommittedEverywhere
<1>1. IInv => CommittedEverywhere
  <2> SUFFICES ASSUME IInv, ctl = "idle", version > 0
               PROVE  /\ \A r \in Receivers : loaded[r] = [i \in 1 .. Len(job.weights) |-> i]
                      /\ job.verify => job.covers
    BY DEF CommittedEverywhere
  <2> USE Group
  <2>1. \A m \in Members : pc[m] = "done"
    BY DEF IInv, EndInv, TypeOK
  <2>2. bucket = <<>> /\ next = Len(job.weights) + 1 /\ Len(job.weights) \in Nat
    BY <2>1, JobTypes DEF IInv, EndInv
  <2>3. ASSUME NEW r \in Receivers PROVE loaded[r] = [i \in 1 .. Len(job.weights) |-> i]
    <3>1. StreamInv(r) /\ pc[r] = "done"
      BY <2>1 DEF IInv
    <3>2. loaded[r] \in Seq(1 .. Len(job.weights)) /\ staged[r] \in Seq(1 .. Len(job.weights))
      BY DEF IInv, TypeOK
    <3>3. Len(loaded[r]) = Len(job.weights) /\ \A i \in 1 .. Len(loaded[r]) : loaded[r][i] = i
      <4> DEFINE l == Len(loaded[r])
                 t == Len(staged[r])
                 w == Len(job.weights)
      <4>1. l \in Nat /\ t \in Nat /\ w \in Nat /\ Len(bucket) = 0
        BY <3>2, <2>2
      <4>2. l + t + Len(bucket) = next - 1 /\ ~(t > 0) /\ next = w + 1
        BY <3>1, <2>2 DEF StreamInv
      <4> HIDE DEF l, t, w
      <4>3. l = w
        BY <4>1, <4>2
      <4> QED BY <3>1, <4>3 DEF StreamInv, l, w
    <3>4. loaded[r] \in [1 .. Len(loaded[r]) -> 1 .. Len(job.weights)]
      BY <3>2, LenProperties
    <3> QED BY <3>3, <3>4
  <2>4. job.verify => job.covers
    <3>1. 1 \in Receivers
      BY RdmaAssumption DEF Receivers
    <3> QED BY <2>1, <3>1 DEF IInv, EndInv
  <2> QED BY <2>3, <2>4
<1> QED BY <1>1, Invariant, PTL
=============================================================================

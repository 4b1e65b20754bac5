--------------------------- MODULE RdmaBroadcast ---------------------------
(***************************************************************************)
(* Weight synchronisation over a persistent RCCL group: actor rank 0       *)
(* broadcasts HF-named buckets (send_weight_stream) and every vLLM worker  *)
(* feeds them to model.load_weights (receive_weight_stream), both started  *)
(* and joined by RLTrainer._sync_weights_rdma, under a timeout.            *)
(*                                                                         *)
(* A broadcast is a collective: nobody leaves it before everybody has      *)
(* entered it.  A bucket is three of them (header, metadata, payload), and *)
(* the end of a stream is one more header.  A member that raises enters no *)
(* further broadcast; the others stay inside theirs until the group's own  *)
(* timeout ends the process.                                               *)
(***************************************************************************)
EXTENDS Integers, Sequences, FiniteSets

CONSTANTS
  NumReceivers,    \* vLLM workers in the group: replicas * tensor_parallel_size
  Jobs,            \* what a run may synchronise, see JobType
  Syncs,           \* synchronisations of one run
  SenderMayFail,   \* gathering, quantising or the integrity check may raise
  ReceiverMayFail, \* model.load_weights may raise
  TimeoutsMayFire  \* waits longer than timeout_s may happen

ASSUME RdmaAssumption ==
  /\ NumReceivers \in Nat \ {0}
  /\ Syncs \in Nat \ {0}
  /\ {SenderMayFail, ReceiverMayFail, TimeoutsMayFire} \subseteq BOOLEAN
  /\ \A job \in Jobs : /\ job.weights \in Seq(Nat)   \* bytes of each tensor
                       /\ job.bucketBytes \in Nat \ {0}
                       /\ job.covers \in BOOLEAN     \* they make up the model
                       /\ job.verify \in BOOLEAN     \* verify_full_load

Source == 0
Receivers == 1 .. NumReceivers
Members == {Source} \cup Receivers

VARIABLES
  job,      \* the chosen member of Jobs
  ctl,      \* the controller: where _sync_weights_rdma or cleanup is
  version,  \* global_step + 1 of the current synchronisation
  pc,       \* pc[m]: where member m of the group is
  inside,   \* inside[m]: the broadcast m has entered, or Outside
  bucket,   \* indices of the tensors the sender has packed
  next,     \* index of the next tensor of the parameter iterator
  staged,   \* staged[r]: received tensors load_weights has not taken yet
  loaded    \* loaded[r]: the tensors r loaded in this synchronisation

vars == <<job, ctl, version, pc, inside, bucket, next, staged, loaded>>

\* A broadcast is its kind and what fixes its size.
Outside == [kind |-> "none"]
\* A receiver posts an empty header of four integers and reads it afterwards.
HeaderPost == [kind |-> "header"]
BodyPost(kind, entries) == [kind |-> kind, entries |-> entries]

RECEIVING == {"header", "metadata", "payload", "load", "verify"}
SENDING == {"export", "pack", "header", "metadata", "payload", "end", "endHeader"}
Busy(m) == pc[m] \in RECEIVING \cup SENDING

\* Bytes of the tensors whose indices are listed in s; sums.
Bytes(s) ==
  LET sum[i \in 0 .. Len(s)] == IF i = 0 THEN 0 ELSE sum[i - 1] + job.weights[s[i]]
  IN  sum[Len(s)]

Init ==
  /\ job \in Jobs
  /\ ctl = "idle"
  /\ version = 0
  /\ pc = [m \in Members |-> "idle"]
  /\ inside = [m \in Members |-> Outside]
  /\ bucket = <<>>
  /\ next = 1
  /\ staged = [r \in Receivers |-> <<>>]
  /\ loaded = [r \in Receivers |-> <<>>]

-----------------------------------------------------------------------------
(* The controller *)

\* Both sides are started and told the same version.
StartSync ==
  /\ ctl = "idle"
  /\ version < Syncs
  /\ ctl' = "joining"
  /\ version' = version + 1
  /\ pc' = [m \in Members |-> IF m = Source THEN "export" ELSE "header"]
  /\ inside' = [m \in Members |-> IF m = Source THEN Outside ELSE HeaderPost]
  /\ bucket' = <<>>
  /\ next' = 1
  /\ staged' = [r \in Receivers |-> <<>>]
  /\ loaded' = [r \in Receivers |-> <<>>]
  /\ UNCHANGED job

\* Mutant: only the source's statistics are waited for.
MutCommit ==
  /\ ctl = "joining"
  /\ pc[Source] = "done"
  /\ ctl' = "idle"
  /\ UNCHANGED <<job, version, pc, inside, bucket, next, staged, loaded>>

\* ray.get returned a result of every sender and receiver.
Commit ==
  /\ ctl = "joining"
  /\ \A m \in Members : pc[m] = "done"
  /\ ctl' = "idle"
  /\ UNCHANGED <<job, version, pc, inside, bucket, next, staged, loaded>>

\* ray.get raises what a worker raised, or GetTimeoutError after timeout_s;
\* train() propagates it to main, whose finally clause calls cleanup.
Raise ==
  /\ ctl = "joining"
  /\ \/ \E m \in Members : pc[m] = "failed"
     \/ TimeoutsMayFire /\ \E m \in Members : Busy(m)
  /\ ctl' = "cleanup"
  /\ UNCHANGED <<job, version, pc, inside, bucket, next, staged, loaded>>

Finish ==
  /\ ctl = "idle"
  /\ version = Syncs
  /\ ctl' = "cleanup"
  /\ UNCHANGED <<job, version, pc, inside, bucket, next, staged, loaded>>

\* destroy_rdma_weight_group is queued behind the call a worker is busy with.
Cleanup ==
  /\ ctl = "cleanup"
  /\ \A m \in Members : ~Busy(m)
  /\ ctl' = "ended"
  /\ UNCHANGED <<job, version, pc, inside, bucket, next, staged, loaded>>

-----------------------------------------------------------------------------
(* The sender *)

Export ==
  /\ pc[Source] = "export"
  /\ pc' = [pc EXCEPT ![Source] = "pack"]
  /\ UNCHANGED <<job, ctl, version, inside, bucket, next, staged, loaded>>

\* The next tensor no longer fits beside those already packed.
Overflows == bucket # <<>> /\ Bytes(bucket) + job.weights[next] > job.bucketBytes

\* One iteration of the loop of send_weight_stream, up to a flush.
Pack ==
  /\ pc[Source] = "pack"
  /\ next <= Len(job.weights)
  /\ IF Overflows
     THEN /\ pc' = [pc EXCEPT ![Source] = "header"]
          /\ UNCHANGED <<bucket, next>>
     ELSE /\ bucket' = Append(bucket, next)
          /\ next' = next + 1
          /\ pc' = [pc EXCEPT ![Source] =
                      IF Bytes(bucket) + job.weights[next] >= job.bucketBytes
                      THEN "header" ELSE "pack"]
  /\ UNCHANGED <<job, ctl, version, inside, staged, loaded>>

\* The last, partly filled bucket; nothing to flush when there is none.
PackLast ==
  /\ pc[Source] = "pack"
  /\ next > Len(job.weights)
  /\ pc' = [pc EXCEPT ![Source] = IF bucket = <<>> THEN "end" ELSE "header"]
  /\ UNCHANGED <<job, ctl, version, inside, bucket, next, staged, loaded>>

\* The sender enters its next broadcast.
SendBucket ==
  /\ inside[Source] = Outside
  /\ pc[Source] \in {"header", "metadata", "payload", "end"}
  /\ inside' = [inside EXCEPT ![Source] =
                  IF pc[Source] \in {"header", "end"} THEN HeaderPost
                  ELSE BodyPost(pc[Source], bucket)]
  /\ pc' = [pc EXCEPT ![Source] = IF @ = "end" THEN "endHeader" ELSE @]
  /\ UNCHANGED <<job, ctl, version, bucket, next, staged, loaded>>

\* The parameter iterator raises.
SenderFail ==
  /\ SenderMayFail
  /\ pc[Source] \in {"export", "pack"}
  /\ pc' = [pc EXCEPT ![Source] = "failed"]
  /\ UNCHANGED <<job, ctl, version, inside, bucket, next, staged, loaded>>

-----------------------------------------------------------------------------
(* The group and the receivers *)

\* metadata_bytes and payload_bytes of a bucket header must be positive.
HeaderRefused == Bytes(bucket) = 0

\* Mutant: a header that announces no payload is skipped instead of refused.
MutAfterHeader(r) ==
  IF pc[Source] = "endHeader" THEN "verify"
  ELSE IF HeaderRefused THEN "header" ELSE "metadata"

\* What a receiver does with a header: the end of the stream, an invalid one,
\* or the broadcast of the metadata whose size the header gave.
AfterHeader(r) ==
  IF pc[Source] = "endHeader" THEN "verify"
  ELSE IF HeaderRefused THEN "failed" ELSE "metadata"

\* Everybody is in: the broadcast completes.  The sender goes on to its next
\* part; each receiver acts on what it got and enters its next broadcast.
SenderAfter ==
  CASE pc[Source] = "header"    -> "metadata"
    [] pc[Source] = "metadata"  -> "payload"
    [] pc[Source] = "payload"   -> "pack"
    [] pc[Source] = "endHeader" -> "done"
ReceiverAfter(r) ==
  CASE pc[r] = "header"   -> AfterHeader(r)
    [] pc[r] = "metadata" -> "payload"
    [] pc[r] = "payload"  -> "load"
PostOf(m, place) ==
  CASE m # Source /\ place = "header"                  -> HeaderPost
    [] m # Source /\ place \in {"metadata", "payload"} -> BodyPost(place, bucket)
    [] OTHER                                           -> Outside

Broadcast ==
  /\ \A m \in Members : inside[m] # Outside
  /\ pc' = [m \in Members |-> IF m = Source THEN SenderAfter ELSE ReceiverAfter(m)]
  /\ inside' = [m \in Members |-> PostOf(m, pc'[m])]
  /\ bucket' = IF pc[Source] = "payload" THEN <<>> ELSE bucket
  /\ staged' = [r \in Receivers |-> IF pc[r] = "payload" THEN bucket ELSE staged[r]]
  /\ UNCHANGED <<job, ctl, version, next, loaded>>

\* load_weights takes one tensor from the generator, which posts the next
\* header when the bucket is used up.
LoadOne(r) ==
  /\ pc[r] = "load"
  /\ IF staged[r] = <<>>
     THEN /\ pc' = [pc EXCEPT ![r] = "header"]
          /\ inside' = [inside EXCEPT ![r] = HeaderPost]
          /\ UNCHANGED <<staged, loaded>>
     ELSE /\ loaded' = [loaded EXCEPT ![r] = Append(@, Head(staged[r]))]
          /\ staged' = [staged EXCEPT ![r] = Tail(@)]
          /\ UNCHANGED <<pc, inside>>
  /\ UNCHANGED <<job, ctl, version, bucket, next>>

LoadFail(r) ==
  /\ ReceiverMayFail
  /\ pc[r] = "load"
  /\ staged[r] # <<>>
  /\ pc' = [pc EXCEPT ![r] = "failed"]
  /\ UNCHANGED <<job, ctl, version, inside, bucket, next, staged, loaded>>

\* verify_full_load raises when parameters of the model were not loaded.
Missing == ~job.covers
Verify(r) ==
  /\ pc[r] = "verify"
  /\ pc' = [pc EXCEPT ![r] = IF job.verify /\ Missing THEN "failed" ELSE "done"]
  /\ UNCHANGED <<job, ctl, version, inside, bucket, next, staged, loaded>>

\* Mutant: the independent group is created without a timeout.
MutGroupTimeout(m) == FALSE /\ UNCHANGED vars

\* The timeout of the process group ends a member that waited too long.
GroupTimeout(m) ==
  /\ inside[m] # Outside
  /\ TimeoutsMayFire
  /\ pc' = [pc EXCEPT ![m] = "failed"]
  /\ inside' = [inside EXCEPT ![m] = Outside]
  /\ UNCHANGED <<job, ctl, version, bucket, next, staged, loaded>>

Receive(r) == LoadOne(r) \/ LoadFail(r) \/ Verify(r)
Send == Export \/ Pack \/ PackLast \/ SendBucket \/ SenderFail
Control == StartSync \/ Commit \/ Raise \/ Finish \/ Cleanup

Next ==
  \/ Control
  \/ Send
  \/ Broadcast
  \/ \E r \in Receivers : Receive(r)
  \/ \E m \in Members : GroupTimeout(m)

Spec == Init /\ [][Next]_vars

\* Every process keeps running, an exception or a timeout is delivered, and no
\* tensor takes forever to load.
FairSpec ==
  /\ Spec
  /\ WF_vars(Control)
  /\ WF_vars(Send)
  /\ WF_vars(Broadcast)
  /\ \A r \in Receivers : WF_vars(LoadOne(r) \/ Verify(r))
  /\ \A m \in Members : WF_vars(GroupTimeout(m))

-----------------------------------------------------------------------------
(* Properties *)

\* The staging memory of the broadcast is one bucket of bucket_size_mb, or one
\* tensor that is larger than that (send_weight_stream).
BucketBound == Len(bucket) > 1 => Bytes(bucket) <= job.bucketBytes

\* Types, and the bound of the one buffer of the transport; only a process that
\* is sending or receiving is inside a collective.
TypeOK ==
  /\ job \in Jobs
  /\ ctl \in {"idle", "joining", "cleanup", "ended"}
  /\ version \in 0 .. Syncs
  /\ pc \in [Members -> RECEIVING \cup SENDING \cup {"idle", "done", "failed"}]
  /\ next \in 1 .. (Len(job.weights) + 1)
  /\ bucket \in Seq(1 .. Len(job.weights))
  /\ staged \in [Receivers -> Seq(1 .. Len(job.weights))]
  /\ loaded \in [Receivers -> Seq(1 .. Len(job.weights))]
  /\ \A m \in Members : inside[m] # Outside => Busy(m)
  /\ BucketBound

\* The collectives pair up: whenever the whole group is inside a broadcast,
\* all are inside the same one, with the same sizes (dist.broadcast calls of
\* send_weight_stream and receive_weight_stream, which only the header ties
\* together).
BroadcastsPair ==
  /\ TypeOK
  /\ (\A m \in Members : inside[m] # Outside) => Cardinality({inside[m] : m \in Members}) = 1

\* A synchronisation _sync_weights_rdma reports as committed left every tensor
\* of the source in every worker's model, once and in order, and, with
\* verify_full_load, no parameter of the model behind.
CommittedEverywhere ==
  ctl = "idle" /\ version > 0 =>
    /\ \A r \in Receivers : loaded[r] = [i \in 1 .. Len(job.weights) |-> i]
    /\ job.verify => job.covers

\* Whatever raises or stalls, nobody stays inside a broadcast for good: the
\* run comes to the end of cleanup.
AllReleased == <>(ctl = "ended")
=============================================================================

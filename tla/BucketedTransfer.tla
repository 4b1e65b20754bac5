-------------------------- MODULE BucketedTransfer --------------------------
(***************************************************************************)
(* One weight synchronisation between a BucketedWeightSender (training     *)
(* actor) and a BucketedWeightReceiver (colocated vLLM worker) of          *)
(* engine/inference/bucketed_weight_transfer.py.                           *)
(*                                                                         *)
(* The sender packs tensors into a buffer both processes map, one slot of  *)
(* it at a time, and sends a control message per bucket over a ZMQ REQ/REP *)
(* pair.  With double_buffer the receiver acknowledges a bucket before it  *)
(* loads it, so the sender packs one slot while the other is being read.   *)
(*                                                                         *)
(* A tensor is named by its position in the list of weights; the buffer is *)
(* a function from addresses to the name whose byte is stored there.       *)
(***************************************************************************)
EXTENDS Integers, Sequences

CONSTANTS
  WeightLists,     \* the possible lists of weights: nbytes and dtype.itemsize
  Configs,         \* ways the two ends may be configured, see below
  Versions,        \* weight versions; a synchronisation has one at each end
  NoVersion,       \* version=None: not stamped by the sender, not checked
  GatherMayFail,   \* the generator of weights may raise
  LoadMayFail      \* on_bucket_received may raise

ASSUME TransferAssumption ==
  /\ WeightLists \subseteq Seq([bytes : Nat, item : Nat \ {0}])
  /\ \A c \in Configs :
       /\ c.bytes \in Nat           \* max(bucket_size_mb << 20, min_bucket_bytes)
       /\ c.doubleBuffer \in BOOLEAN
       /\ c.useShm \in BOOLEAN      \* host shared memory instead of CUDA IPC
       /\ c.debugTimeout \in BOOLEAN \* LUMEN_WEIGHT_TRANSFER_ZMQ_TIMEOUT_MS is set
  /\ {GatherMayFail, LoadMayFail} \subseteq BOOLEAN

VARIABLES
  config,                             \* the chosen member of Configs
  weights, sent, expected,            \* the weights and versions of this sync
  buffer,                             \* the shared buffer
  senderPc, next, slot, offset, meta, \* async_send_weights
  request, reply,                     \* the REQ/REP pair
  receiverPc, message, views, loaded  \* receive_weights

inputs       == <<config, weights, sent, expected>>
senderVars   == <<senderPc, next, slot, offset, meta>>
receiverVars == <<receiverPc, message, views, loaded>>
vars == <<inputs, buffer, senderVars, request, reply, receiverVars>>

DoubleBuffer == config.doubleBuffer
UseShm       == config.useShm
DebugTimeout == config.debugTimeout
NumSlots   == IF DoubleBuffer THEN 2 ELSE 1
BucketSize == config.bytes \div NumSlots

Addresses == 0 .. (BucketSize * NumSlots - 1)
Names     == 1 .. Len(weights)
Unset     == 0    \* a byte of torch.empty
Torn      == -1   \* a byte being copied, a tensor that mixes two

\* An entry of bucket_meta; a direct one carries its own IPC handle.
Entry(name, start)  == [name |-> name, start |-> start, direct |-> FALSE]
Direct(name)        == [name |-> name, start |-> 0, direct |-> TRUE]
Entries == [name : Names, start : Nat, direct : BOOLEAN]

\* _control; the version rides on every bucket.
Control(entries, isLast, ackEarly) ==
  [kind |-> "bucket", entries |-> entries, isLast |-> isLast,
   ackEarly |-> ackEarly, version |-> sent]
Handshake == [kind |-> "handle", entries |-> <<>>, isLast |-> FALSE,
              ackEarly |-> FALSE, version |-> sent]
NoMessage == [kind |-> "none", entries |-> <<>>, isLast |-> FALSE,
              ackEarly |-> FALSE, version |-> NoVersion]
Messages  == [kind : {"bucket", "handle", "none"}, entries : Seq(Entries),
              isLast : BOOLEAN, ackEarly : BOOLEAN,
              version : Versions \cup {NoVersion}]

\* Every variable has its type.
TypeOK ==
  /\ config \in Configs
  /\ weights \in WeightLists /\ {sent, expected} \subseteq Versions \cup {NoVersion}
  /\ buffer \in [Addresses -> Names \cup {Unset, Torn}]
  /\ senderPc \in {"start", "handshake", "pack", "ack", "direct", "last", "done", "failed"}
  /\ next \in 1 .. (Len(weights) + 1)
  /\ slot \in 0 .. (NumSlots - 1)
  /\ offset \in 0 .. BucketSize
  /\ meta \in Seq(Entries)
  /\ request \in Messages /\ reply \in BOOLEAN
  /\ receiverPc \in {"handshake", "recv", "load", "sync", "done", "failed"}
  /\ message \in Messages
  /\ views \in Seq(Names \cup {Unset, Torn})
  /\ loaded \in Seq(Names \cup {Unset, Torn})

Init ==
  /\ config \in Configs
  /\ weights \in WeightLists
  /\ sent \in Versions \cup {NoVersion} /\ expected \in Versions \cup {NoVersion}
  /\ buffer = [a \in Addresses |-> Unset]
  /\ senderPc = "start" /\ next = 1 /\ slot = 0 /\ offset = 0 /\ meta = <<>>
  /\ request = NoMessage /\ reply = FALSE
  /\ receiverPc = "handshake" /\ message = NoMessage
  /\ views = <<>> /\ loaded = <<>>

-----------------------------------------------------------------------------
(* BucketedWeightSender.async_send_weights *)

Extent(e) == e.start .. (e.start + weights[e.name].bytes - 1)

\* _init_socket and _init_buffer up to the blocking recv.
SendHandshake ==
  /\ senderPc = "start"
  /\ request' = Handshake
  /\ senderPc' = "handshake"
  /\ UNCHANGED <<inputs, buffer, next, slot, offset, meta, reply, receiverVars>>

HandshakeAck ==
  /\ senderPc = "handshake" /\ reply
  /\ reply' = FALSE
  /\ senderPc' = "pack"
  /\ UNCHANGED <<inputs, buffer, next, slot, offset, meta, request, receiverVars>>

Fits == offset + weights[next].bytes <= BucketSize

Start == slot * BucketSize + offset

\* The tensor fits: enqueue its copy, which is complete only after _sync().
Pack ==
  /\ senderPc = "pack" /\ next <= Len(weights)
  /\ Fits
  /\ meta' = Append(meta, Entry(next, Start))
  /\ buffer' = [a \in Addresses |->
                  IF a \in Extent(Entry(next, Start)) THEN Torn ELSE buffer[a]]
  /\ offset' = offset + weights[next].bytes
  /\ next' = next + 1
  /\ UNCHANGED <<inputs, senderPc, slot, request, reply, receiverVars>>

\* torch.cuda.synchronize(): the copies of this bucket have landed.
Sync ==
  buffer' = [a \in Addresses |->
    IF \E i \in 1 .. Len(meta) : a \in Extent(meta[i])
      THEN meta[CHOOSE i \in 1 .. Len(meta) : a \in Extent(meta[i])].name
      ELSE buffer[a]]

\* Mutant: the last bucket is acknowledged early as well.
MutAckEarly(isLast) == DoubleBuffer
AckEarly(isLast) == DoubleBuffer /\ ~isLast

\* The tensor does not fit into what is left of a non-empty bucket: flush it.
Flush ==
  /\ senderPc = "pack" /\ next <= Len(weights)
  /\ ~Fits /\ meta # <<>>
  /\ Sync
  /\ request' = Control(meta, FALSE, AckEarly(FALSE))
  /\ senderPc' = "ack"
  /\ UNCHANGED <<inputs, next, slot, offset, meta, reply, receiverVars>>

\* Mutant: the slot is not rotated.
MutSameSlot == slot
NextSlot == (slot + 1) % NumSlots

FlushAck ==
  /\ senderPc = "ack" /\ reply
  /\ reply' = FALSE
  /\ slot' = NextSlot
  /\ meta' = <<>> /\ offset' = 0
  /\ senderPc' = "pack"
  /\ UNCHANGED <<inputs, buffer, next, request, receiverVars>>

\* The tensor exceeds a whole bucket: send its own IPC handle.
DirectSend ==
  /\ senderPc = "pack" /\ next <= Len(weights)
  /\ ~Fits /\ meta = <<>> /\ ~UseShm
  /\ request' = Control(<<Direct(next)>>, FALSE, FALSE)
  /\ senderPc' = "direct"
  /\ UNCHANGED <<inputs, buffer, next, slot, offset, meta, reply, receiverVars>>

DirectAck ==
  /\ senderPc = "direct" /\ reply
  /\ reply' = FALSE
  /\ next' = next + 1
  /\ senderPc' = "pack"
  /\ UNCHANGED <<inputs, buffer, slot, offset, meta, request, receiverVars>>

\* The weights are exhausted: the last bucket, empty or not.
FlushLast ==
  /\ senderPc = "pack" /\ next > Len(weights)
  /\ Sync
  /\ request' = Control(meta, TRUE, AckEarly(TRUE))
  /\ senderPc' = "last"
  /\ UNCHANGED <<inputs, next, slot, offset, meta, reply, receiverVars>>

LastAck ==
  /\ senderPc = "last" /\ reply
  /\ reply' = FALSE
  /\ slot' = NextSlot
  /\ senderPc' = "done"
  /\ UNCHANGED <<inputs, buffer, next, offset, meta, request, receiverVars>>

\* The sender raises: gathering a weight fails, a weight is too large for
\* shared memory, or (with the debug timeout) no reply comes.
SenderRaise ==
  /\ \/ senderPc = "pack" /\ next <= Len(weights) /\ GatherMayFail
     \/ senderPc = "pack" /\ next <= Len(weights) /\ ~Fits /\ meta = <<>> /\ UseShm
     \/ senderPc \in {"handshake", "ack", "direct", "last"} /\ DebugTimeout /\ ~reply
  /\ senderPc' = "failed"
  /\ UNCHANGED <<inputs, buffer, next, slot, offset, meta, request, reply, receiverVars>>

-----------------------------------------------------------------------------
(* BucketedWeightReceiver.receive_weights *)

\* What the view of an entry shows: the tensor if all its bytes are there.
Seen(e) ==
  IF e.direct \/ \A a \in Extent(e) : buffer[a] = e.name THEN e.name ELSE Torn

SeenAll(entries) == [i \in 1 .. Len(entries) |-> Seen(entries[i])]

\* _init_buffer: map the buffer and acknowledge.
ReceiveHandshake ==
  /\ receiverPc = "handshake" /\ request.kind = "handle"
  /\ request' = NoMessage
  /\ reply' = TRUE
  /\ receiverPc' = "recv"
  /\ UNCHANGED <<inputs, buffer, senderVars, message, views, loaded>>

\* check_bucket_version
VersionMatches(m) ==
  expected = NoVersion \/ m.version = expected

\* torch refuses to view bytes as a wider dtype at an odd place (external).
Viewable(e) == e.direct \/ e.start % weights[e.name].item = 0

AllViewable(entries) == \A i \in 1 .. Len(entries) : Viewable(entries[i])

\* Take a control message, build the views of its entries (copies, with
\* use_shm), and acknowledge at once if told to.
Receive ==
  /\ receiverPc = "recv" /\ request.kind = "bucket"
  /\ VersionMatches(request) /\ AllViewable(request.entries)
  /\ message' = request
  /\ request' = NoMessage
  /\ views' = SeenAll(request.entries)
  /\ reply' = request.ackEarly
  /\ receiverPc' = "load"
  /\ UNCHANGED <<inputs, buffer, senderVars, loaded>>

\* on_bucket_received starts copying the views into the model's parameters.
Load ==
  /\ receiverPc = "load"
  /\ views' = IF UseShm THEN views ELSE SeenAll(message.entries)
  /\ receiverPc' = "sync"
  /\ UNCHANGED <<inputs, buffer, senderVars, request, reply, message, loaded>>

\* _sync(): the copies have ended; a view that changed meanwhile is torn.  A
\* bucket not acknowledged yet is acknowledged now; the last one ends the loop.
LoadSync ==
  /\ receiverPc = "sync"
  /\ loaded' = loaded \o [i \in 1 .. Len(views) |->
                 IF UseShm \/ Seen(message.entries[i]) = views[i] THEN views[i] ELSE Torn]
  /\ reply' = (reply \/ ~message.ackEarly)
  /\ receiverPc' = IF message.isLast THEN "done" ELSE "recv"
  /\ UNCHANGED <<inputs, buffer, senderVars, request, message, views>>

\* Mutant: a loader's exception is swallowed and the loop goes on.
MutSwallow ==
  /\ receiverPc = "load" /\ LoadMayFail
  /\ receiverPc' = "recv"
  /\ UNCHANGED <<inputs, buffer, senderVars, request, reply, message, views, loaded>>

\* The receiver raises: wrong version, a view torch refuses, the loader fails,
\* or (with the debug timeout) no message comes.
ReceiverRaise ==
  /\ \/ receiverPc = "recv" /\ request.kind = "bucket" /\ ~VersionMatches(request)
     \/ receiverPc = "recv" /\ request.kind = "bucket" /\ ~AllViewable(request.entries)
     \/ receiverPc = "load" /\ LoadMayFail
     \/ receiverPc \in {"handshake", "recv"} /\ DebugTimeout /\ request = NoMessage
  /\ receiverPc' = "failed"
  /\ UNCHANGED <<inputs, buffer, senderVars, request, reply, message, views, loaded>>

-----------------------------------------------------------------------------
Sender == \/ SendHandshake \/ HandshakeAck \/ Pack \/ Flush \/ FlushAck
          \/ DirectSend \/ DirectAck \/ FlushLast \/ LastAck \/ SenderRaise
Receiver == ReceiveHandshake \/ Receive \/ Load \/ LoadSync \/ ReceiverRaise

\* Both sides have returned, or one has raised: ray.wait in _sync_weights_ipc
\* hands the controller the result or the exception.
Settled == \/ senderPc = "done" /\ receiverPc = "done"
           \/ "failed" \in {senderPc, receiverPc}

\* The controller has its answer; what the other side still does is moot.
Joined == Settled /\ UNCHANGED vars

Next == Sender \/ Receiver \/ Joined
Spec == Init /\ [][Next]_vars

\* Both processes are scheduled, and the socket delivers.
FairSpec == Spec /\ WF_vars(Sender) /\ WF_vars(Receiver)

-----------------------------------------------------------------------------
(* Properties *)

\* What the receiver has loaded is exactly the first weights of the list, in
\* order, none torn by the sender packing the next bucket, none twice, and none
\* from a synchronisation other than the expected one (check_bucket_version).
LoadsPrefix ==
  /\ TypeOK
  /\ loaded # <<>> => expected \in {NoVersion, sent}
  /\ Len(loaded) <= Len(weights)
  /\ \A i \in 1 .. Len(loaded) : loaded[i] = i

\* A side that returns normally knows that every weight has been loaded: the
\* last acknowledgement, unlike the early ones, comes after loading.
DoneMeansLoaded ==
  "done" \in {senderPc, receiverPc} => Len(loaded) = Len(weights)

\* The controller is never left waiting for a pair that cannot make progress.
AlwaysSettles == <>Settled
=============================================================================

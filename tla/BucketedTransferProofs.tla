----------------------- MODULE BucketedTransferProofs -----------------------
(***************************************************************************)
(* Proofs about BucketedTransfer, for every list of weights, bucket size   *)
(* and configuration, and with every failure the module has: the receiver  *)
(* loads exactly the first weights of the list, none of them torn, and a   *)
(* side that returns has seen all of them loaded.                          *)
(***************************************************************************)
EXTENDS BucketedTransfer, NumberLemmas, SequenceTheorems

-----------------------------------------------------------------------------
(* Entries es of the weights w in a buffer buf.  The operators depend on     *)
(* their parameters only, so that a step that leaves those alone is seen to  *)
(* leave the operators alone.                                                *)

End(w, e) == e.start + w[e.name].bytes
Ext(w, e) == e.start .. (End(w, e) - 1)

\* The entries are those of the weights after the k-th, in order.
Numbered(es, k) == \A i \in 1 .. Len(es) : es[i].name = k + i

\* They lie one behind the other in the off bytes from base on.
Packed(w, es, base, off) ==
  /\ \A i \in 1 .. Len(es) :
       ~es[i].direct /\ base <= es[i].start /\ End(w, es[i]) <= base + off
  /\ \A i, j \in 1 .. Len(es) : i < j => End(w, es[i]) <= es[j].start

\* Their tensors are in the buffer.
InPlace(buf, w, es) ==
  \A i \in 1 .. Len(es) :
    es[i].direct \/ \A a \in Ext(w, es[i]) : a \in DOMAIN buf /\ buf[a] = es[i].name

\* The size bytes from base on hold no part of them.
Away(w, es, base, size) ==
  \A i \in 1 .. Len(es) :
    es[i].direct \/ \A a \in Ext(w, es[i]) : a \notin base .. (base + size - 1)

SlotsOf(c) == IF c.doubleBuffer THEN 2 ELSE 1
SizeOf(c)  == c.bytes \div SlotsOf(c)

-----------------------------------------------------------------------------
(* The invariant *)

\* bucket_meta holds the weights before the next one, back to back in the slot.
MetaInv ==
  /\ senderPc \in {"start", "handshake", "direct"} => meta = <<>>
  /\ senderPc \in {"start", "handshake"} => next = 1
  /\ senderPc = "direct" => next <= Len(weights)
  /\ senderPc = "last" => next = Len(weights) + 1
  /\ senderPc \in {"pack", "ack", "last"} =>
       /\ Len(meta) <= next - 1 /\ Numbered(meta, next - 1 - Len(meta))
       /\ Packed(weights, meta, slot * SizeOf(config), offset)

Loading(pc)   == pc \in {"load", "sync"}
InHand(pc, m) == IF Loading(pc) THEN Len(m.entries) ELSE 0
Requested(m)  == IF m.kind = "bucket" THEN Len(m.entries) ELSE 0

\* The message m is the bucket that a sender at pc waits for an answer to.
Waiting(pc) == pc \in {"ack", "direct", "last"}
IsOut(m, pc, n, es, c) ==
  /\ m.entries = IF pc = "direct" THEN <<Direct(n)>> ELSE es
  /\ m.isLast = (pc = "last")
  /\ m.ackEarly = (pc = "ack" /\ c.doubleBuffer)

\* Who has the turn.  An answered bucket that is still being loaded was
\* acknowledged early, and is not where the sender packs.
TurnInv ==
  /\ senderPc = "start" => request = NoMessage /\ ~reply /\ receiverPc \in {"handshake", "failed"}
  /\ senderPc = "handshake" =>
       \/ request.kind = "handle" /\ ~reply /\ receiverPc \in {"handshake", "failed"}
       \/ request.kind = "none" /\ reply /\ receiverPc \in {"recv", "failed"}
  /\ senderPc = "pack" =>
       /\ request.kind = "none" /\ ~reply /\ receiverPc \in {"recv", "load", "sync", "failed"}
       /\ Loading(receiverPc) =>
            message.ackEarly
            /\ Away(weights, message.entries, slot * SizeOf(config), SizeOf(config))
  /\ Waiting(senderPc) =>
       /\ request.kind # "handle" /\ receiverPc # "handshake"
       /\ request.kind = "bucket" =>
            ~reply /\ IsOut(request, senderPc, next, meta, config)
       /\ request.kind = "none" /\ Loading(receiverPc) =>
            IsOut(message, senderPc, next, meta, config) /\ (~message.ackEarly => ~reply)
       /\ senderPc = "direct" /\ reply => receiverPc \in {"recv", "failed"}
       /\ senderPc = "last" /\ reply => receiverPc = "done"
       /\ receiverPc = "done" => senderPc = "last"
  /\ senderPc = "done" => receiverPc = "done"
  /\ receiverPc = "handshake" => request.kind # "bucket"
  /\ request.kind = "handle" => receiverPc \in {"handshake", "failed"}
  /\ receiverPc = "done" => request.kind = "none"
  /\ request.kind = "bucket" /\ Loading(receiverPc) => message.ackEarly

\* What is being loaded, and what is requested next, continues what is loaded.
LoadedInv ==
  /\ Len(loaded) <= Len(weights) /\ \A i \in 1 .. Len(loaded) : loaded[i] = i
  /\ loaded # <<>> \/ Loading(receiverPc) => expected \in {NoVersion, sent}
  /\ receiverPc = "done" => Len(loaded) = Len(weights)
MessageInv ==
  Loading(receiverPc) =>
    /\ Numbered(message.entries, Len(loaded)) /\ InPlace(buffer, weights, message.entries)
    /\ Len(views) = Len(message.entries)
    /\ \A i \in 1 .. Len(views) : views[i] = message.entries[i].name
    /\ message.isLast =>
         ~message.ackEarly /\ Len(loaded) + InHand(receiverPc, message) = Len(weights)
RequestInv ==
  request.kind = "bucket" /\ receiverPc # "failed" =>
    /\ Numbered(request.entries, Len(loaded) + InHand(receiverPc, message))
    /\ InPlace(buffer, weights, request.entries)
    /\ request.version = sent
    /\ request.isLast =>
         /\ ~request.ackEarly
         /\ Len(loaded) + InHand(receiverPc, message) + Requested(request) = Len(weights)

\* How many weights have been sent.
CountInv ==
  receiverPc # "failed" =>
    /\ senderPc \in {"start", "handshake"} => loaded = <<>>
    /\ senderPc = "pack" => Len(loaded) + InHand(receiverPc, message) = next - 1 - Len(meta)
    /\ Waiting(senderPc) =>
         Len(loaded) + InHand(receiverPc, message) + Requested(request) =
           IF senderPc = "direct" THEN next ELSE next - 1

IInv == TypeOK /\ MetaInv /\ TurnInv /\ LoadedInv /\ MessageInv /\ RequestInv /\ CountInv

-----------------------------------------------------------------------------
(* Sizes and types *)

\* The sizes and the places of the slots are numbers, and the slots are in the buffer.
LEMMA Sizes ==
  ASSUME TypeOK
  PROVE  /\ Len(weights) \in Nat /\ Names = 1 .. Len(weights)
         /\ \A n \in Names : weights[n].bytes \in Nat
         /\ NumSlots = SlotsOf(config) /\ NumSlots \in {1, 2}
         /\ BucketSize = SizeOf(config) /\ BucketSize \in Nat
         /\ slot * BucketSize \in {0, BucketSize} /\ slot * BucketSize \in Nat
         /\ slot * BucketSize + BucketSize <= BucketSize * NumSlots
<1>1. Len(weights) \in Nat /\ \A n \in Names : weights[n].bytes \in Nat
  <2>1. weights \in Seq([bytes : Nat, item : Nat \ {0}])
    BY TransferAssumption DEF TypeOK
  <2>2. /\ Len(weights) \in Nat
        /\ \A n \in 1 .. Len(weights) : weights[n] \in [bytes : Nat, item : Nat \ {0}]
    BY <2>1, ElementOfSeq, LenProperties
  <2> QED
    BY <2>2 DEF Names
<1>2. /\ NumSlots \in {1, 2} /\ NumSlots = SlotsOf(config)
      /\ config.bytes \in Nat /\ slot \in 0 .. (NumSlots - 1)
  BY TransferAssumption DEF TypeOK, NumSlots, SlotsOf, DoubleBuffer
<1>3. BucketSize \in Nat /\ BucketSize = SizeOf(config)
  BY <1>2 DEF BucketSize, SizeOf
<1>4. slot * BucketSize \in {0, BucketSize}
  BY <1>2, <1>3
<1>5. slot * BucketSize + BucketSize <= BucketSize * NumSlots
  BY <1>2, <1>3
<1>6. slot * BucketSize \in Nat
  BY <1>3, <1>4
<1> QED
  BY <1>1, <1>2, <1>3, <1>4, <1>5, <1>6, Zenon DEF Names

\* A step that leaves the inputs alone keeps the types if what it changes has its
\* type.
LEMMA TypeFrom ==
  ASSUME TypeOK, UNCHANGED inputs,
         buffer' \in [Addresses -> Names \cup {Unset, Torn}],
         senderPc' \in {"start", "handshake", "pack", "ack", "direct", "last", "done", "failed"},
         next' \in 1 .. (Len(weights) + 1), slot' \in 0 .. (NumSlots - 1),
         offset' \in 0 .. BucketSize, meta' \in Seq(Entries),
         request' \in Messages, reply' \in BOOLEAN,
         receiverPc' \in {"handshake", "recv", "load", "sync", "done", "failed"},
         message' \in Messages,
         views' \in Seq(Names \cup {Unset, Torn}), loaded' \in Seq(Names \cup {Unset, Torn})
  PROVE  TypeOK'
<1>1. /\ weights' = weights /\ config' = config /\ sent' = sent /\ expected' = expected
  BY DEF inputs
<1>2. Names' = Names /\ NumSlots' = NumSlots
  BY <1>1 DEF Names, NumSlots, DoubleBuffer
<1>3. BucketSize' = BucketSize /\ Entries' = Entries
  BY <1>1, <1>2 DEF BucketSize, Entries
<1>4. Addresses' = Addresses /\ Messages' = Messages
  BY <1>2, <1>3 DEF Addresses, Messages
<1> QED
  BY <1>1, <1>2, <1>3, <1>4 DEF TypeOK

\* The receiver's steps.
LEMMA ReceiverType ==
  ASSUME TypeOK, UNCHANGED <<inputs, buffer, senderVars>>,
         request' \in Messages, reply' \in BOOLEAN,
         receiverPc' \in {"handshake", "recv", "load", "sync", "done", "failed"},
         message' \in Messages,
         views' \in Seq(Names \cup {Unset, Torn}), loaded' \in Seq(Names \cup {Unset, Torn})
  PROVE  TypeOK'
<1>1. /\ buffer' \in [Addresses -> Names \cup {Unset, Torn}]
      /\ senderPc' \in {"start", "handshake", "pack", "ack", "direct", "last", "done", "failed"}
      /\ next' \in 1 .. (Len(weights) + 1) /\ slot' \in 0 .. (NumSlots - 1)
      /\ offset' \in 0 .. BucketSize /\ meta' \in Seq(Entries)
  BY DEF TypeOK, senderVars
<1> QED
  BY <1>1, TypeFrom

\* The sender's steps.
LEMMA SenderType ==
  ASSUME TypeOK, UNCHANGED <<inputs, receiverVars>>,
         buffer' \in [Addresses -> Names \cup {Unset, Torn}],
         senderPc' \in {"start", "handshake", "pack", "ack", "direct", "last", "done", "failed"},
         next' \in 1 .. (Len(weights) + 1), slot' \in 0 .. (NumSlots - 1),
         offset' \in 0 .. BucketSize, meta' \in Seq(Entries),
         request' \in Messages, reply' \in BOOLEAN
  PROVE  TypeOK'
<1>1. /\ receiverPc' \in {"handshake", "recv", "load", "sync", "done", "failed"}
      /\ message' \in Messages
      /\ views' \in Seq(Names \cup {Unset, Torn}) /\ loaded' \in Seq(Names \cup {Unset, Torn})
  BY DEF TypeOK, receiverVars
<1> QED
  BY <1>1, TypeFrom

\* The lengths and the number of the next weight are numbers.
LEMMA Counts ==
  ASSUME TypeOK
  PROVE  /\ Len(loaded) \in Nat /\ Len(meta) \in Nat /\ next \in Nat /\ next <= Len(weights) + 1
         /\ InHand(receiverPc, message) \in Nat /\ Requested(request) \in Nat
<1>1. /\ message.entries \in Seq(Entries) /\ request.entries \in Seq(Entries)
      /\ loaded \in Seq(Names \cup {Unset, Torn}) /\ meta \in Seq(Entries)
      /\ next \in 1 .. (Len(weights) + 1)
  BY DEF TypeOK, Messages
<1>2. /\ Len(message.entries) \in Nat /\ Len(request.entries) \in Nat
      /\ Len(loaded) \in Nat /\ Len(meta) \in Nat
  BY <1>1, LenProperties
<1>3. next \in Nat /\ next <= Len(weights) + 1
  BY <1>1, Sizes
<1>4. InHand(receiverPc, message) \in Nat
  BY <1>2 DEF InHand
<1>5. Requested(request) \in Nat
  BY <1>2 DEF Requested
<1> QED
  BY <1>2, <1>3, <1>4, <1>5

\* The slots are used in turn.
LEMMA SlotTurns ==
  ASSUME TypeOK
  PROVE  /\ NextSlot \in 0 .. (NumSlots - 1)
         /\ NumSlots = 2 => NextSlot # slot
<1>1. slot \in 0 .. (NumSlots - 1) /\ NumSlots \in {1, 2}
  BY Sizes DEF TypeOK
<1>2. CASE NumSlots = 1
  <2>1. slot = 0
    BY <1>1, <1>2
  <2> QED
    BY <1>2, <2>1 DEF NextSlot
<1>3. CASE NumSlots = 2
  <2>1. slot \in {0, 1}
    BY <1>1, <1>3
  <2> QED
    BY <1>3, <2>1 DEF NextSlot
<1> QED
  BY <1>1, <1>2, <1>3

\* The messages the sender sends.
LEMMA MessageTypes ==
  ASSUME TypeOK
  PROVE  /\ NoMessage \in Messages /\ Handshake \in Messages
         /\ \A es \in Seq(Entries), l \in BOOLEAN, e \in BOOLEAN : Control(es, l, e) \in Messages
<1>1. sent \in Versions \cup {NoVersion} /\ <<>> \in Seq(Entries)
  BY DEF TypeOK
<1> QED
  BY <1>1 DEF Messages, NoMessage, Handshake, Control

-----------------------------------------------------------------------------
(* Buckets *)

\* A tensor packed behind the others.
LEMMA PackedAppend ==
  ASSUME NEW w, NEW E, NEW es \in Seq(E), NEW base \in Nat, NEW off \in Nat, NEW e,
         Packed(w, es, base, off), ~e.direct, e.start = base + off,
         w[e.name].bytes \in Nat,
         \A i \in 1 .. Len(es) : End(w, es[i]) \in Int
  PROVE  Packed(w, Append(es, e), base, off + w[e.name].bytes)
<1> DEFINE fs == Append(es, e)
<1>1. /\ Len(es) \in Nat /\ Len(fs) = Len(es) + 1 /\ fs[Len(es) + 1] = e
      /\ \A i \in 1 .. Len(es) : fs[i] = es[i]
  OBVIOUS
<1> HIDE DEF fs
<1>2. End(w, e) = base + off + w[e.name].bytes /\ End(w, e) \in Int
  BY DEF End
<1>3. \A i \in 1 .. Len(fs) : i \in 1 .. Len(es) \/ i = Len(es) + 1
  BY <1>1
<1>4. ASSUME NEW i \in 1 .. Len(fs)
      PROVE  /\ ~fs[i].direct /\ base <= fs[i].start
             /\ End(w, fs[i]) <= base + (off + w[e.name].bytes)
  <2>1. CASE i \in 1 .. Len(es)
    BY <1>1, <2>1 DEF Packed
  <2>2. CASE i = Len(es) + 1
    BY <1>1, <1>2, <2>2
  <2> QED
    BY <1>3, <2>1, <2>2
<1>5. ASSUME NEW i \in 1 .. Len(fs), NEW j \in 1 .. Len(fs), i < j
      PROVE  End(w, fs[i]) <= fs[j].start
  <2>1. i \in 1 .. Len(es)
    BY <1>1, <1>5
  <2>2. CASE j \in 1 .. Len(es)
    BY <1>1, <1>5, <2>1, <2>2 DEF Packed
  <2>3. CASE j = Len(es) + 1
    BY <1>1, <2>1, <2>3 DEF Packed
  <2> QED
    BY <1>3, <2>2, <2>3
<1> QED
  BY <1>4, <1>5 DEF Packed, fs

\* What is away from the bytes that change stays in place.
LEMMA InPlaceStays ==
  ASSUME NEW w, NEW es, NEW base, NEW size, NEW buf, NEW new,
         InPlace(buf, w, es), Away(w, es, base, size), DOMAIN new = DOMAIN buf,
         \A a \in DOMAIN buf : a \notin base .. (base + size - 1) => new[a] = buf[a]
  PROVE  InPlace(new, w, es)
BY DEF InPlace, Away

\* A full slot is away from the other one.
LEMMA OtherSlot ==
  ASSUME NEW w, NEW es, NEW base \in Int, NEW size \in Int, NEW off \in Int, NEW other \in Int,
         Packed(w, es, base, off), off <= size,
         other + size <= base \/ base + size <= other,
         \A i \in 1 .. Len(es) : End(w, es[i]) \in Int /\ es[i].start \in Int
  PROVE  Away(w, es, other, size)
BY DEF Packed, Away, Ext

\* The entries of a list that can be sent have integers for places.
LEMMA Places ==
  ASSUME TypeOK, NEW es \in Seq(Entries)
  PROVE  \A i \in 1 .. Len(es) :
           /\ es[i] \in Entries /\ es[i].start \in Int /\ End(weights, es[i]) \in Int
           /\ es[i].name \in Names /\ Extent(es[i]) = Ext(weights, es[i])
<1>1. \A i \in 1 .. Len(es) : es[i] \in Entries
  OBVIOUS
<1>2. \A e \in Entries : /\ e.start \in Int /\ e.name \in Names
                         /\ End(weights, e) \in Int /\ Extent(e) = Ext(weights, e)
  BY Sizes DEF Entries, End, Ext, Extent
<1> QED
  BY <1>1, <1>2

\* The views of entries that are in place show their tensors.
LEMMA SeenInPlace ==
  ASSUME TypeOK, NEW es \in Seq(Entries), InPlace(buffer, weights, es)
  PROVE  /\ Len(SeenAll(es)) = Len(es)
         /\ \A i \in 1 .. Len(es) : SeenAll(es)[i] = es[i].name
         /\ SeenAll(es) \in Seq(Names \cup {Unset, Torn})
<1>1. \A i \in 1 .. Len(es) : Seen(es[i]) = es[i].name /\ es[i].name \in Names
  BY Places DEF Seen, InPlace
<1> QED
  BY <1>1 DEF SeenAll

\* After _sync() the bucket is in its slot, and the rest of the buffer as it was.
LEMMA SyncPlaces ==
  ASSUME TypeOK, Packed(weights, meta, slot * SizeOf(config), offset), Sync
  PROVE  /\ buffer' \in [Addresses -> Names \cup {Unset, Torn}]
         /\ InPlace(buffer', weights, meta)
         /\ DOMAIN buffer' = DOMAIN buffer
         /\ \A a \in DOMAIN buffer :
              a \notin slot * SizeOf(config) .. (slot * SizeOf(config) + SizeOf(config) - 1) =>
                buffer'[a] = buffer[a]
<1> DEFINE base == slot * SizeOf(config)
           In(a) == {i \in 1 .. Len(meta) : a \in Ext(weights, meta[i])}
           own(a) == CHOOSE i \in 1 .. Len(meta) : a \in Ext(weights, meta[i])
<1>1. /\ meta \in Seq(Entries) /\ Len(meta) \in Nat /\ offset \in Nat /\ offset <= SizeOf(config)
      /\ base \in Nat /\ SizeOf(config) \in Nat /\ base + SizeOf(config) <= BucketSize * NumSlots
      /\ buffer \in [Addresses -> Names \cup {Unset, Torn}]
  BY Sizes, LenProperties DEF TypeOK
<1>2. \A i \in 1 .. Len(meta) :
        /\ meta[i].start \in Int /\ End(weights, meta[i]) \in Int
        /\ meta[i].name \in Names /\ Extent(meta[i]) = Ext(weights, meta[i])
  BY <1>1, Places
<1>3. \A i \in 1 .. Len(meta) :
        \A a \in Ext(weights, meta[i]) : a \in base .. (base + SizeOf(config) - 1)
  BY <1>1, <1>2 DEF Packed, Ext
<1>4. \A i, j \in 1 .. Len(meta) :
        \A a \in Ext(weights, meta[i]) : a \in Ext(weights, meta[j]) => i = j
  <2>1. ASSUME NEW i \in 1 .. Len(meta), NEW j \in 1 .. Len(meta), i < j,
               NEW a \in Ext(weights, meta[i]), a \in Ext(weights, meta[j])
        PROVE  FALSE
    BY <1>2, <2>1 DEF Packed, Ext
  <2>2. \A i, j \in 1 .. Len(meta) : i < j \/ j < i \/ i = j
    BY <1>1
  <2> QED
    BY <2>1, <2>2
<1>5. buffer' = [a \in Addresses |->
                   IF \E i \in 1 .. Len(meta) : a \in Ext(weights, meta[i])
                     THEN meta[own(a)].name ELSE buffer[a]]
  <2>1. \A a \in Addresses, i \in 1 .. Len(meta) :
          a \in Extent(meta[i]) <=> a \in Ext(weights, meta[i])
    BY <1>2
  <2>2. \A a \in Addresses :
          (CHOOSE i \in 1 .. Len(meta) : a \in Extent(meta[i])) = own(a)
    BY <1>2
  <2> HIDE DEF own
  <2> QED
    BY <2>1, <2>2 DEF Sync
<1>6. \A a : \A i \in 1 .. Len(meta) : a \in Ext(weights, meta[i]) => own(a) = i
  BY <1>4
<1>7. \A a : (\E i \in 1 .. Len(meta) : a \in Ext(weights, meta[i])) => own(a) \in 1 .. Len(meta)
  BY <1>6
<1> HIDE DEF own
<1>8. buffer' \in [Addresses -> Names \cup {Unset, Torn}] /\ DOMAIN buffer' = DOMAIN buffer
  BY <1>1, <1>2, <1>5, <1>7
<1>9. InPlace(buffer', weights, meta)
  <2>1. ASSUME NEW i \in 1 .. Len(meta), NEW a \in Ext(weights, meta[i])
        PROVE  a \in DOMAIN buffer' /\ buffer'[a] = meta[i].name
    <3>1. a \in base .. (base + SizeOf(config) - 1)
      BY <1>3
    <3>2. BucketSize * NumSlots \in Int
      BY Sizes
    <3>3. a \in 0 .. (BucketSize * NumSlots - 1)
      BY <1>1, <3>1, <3>2
    <3>4. a \in Addresses
      BY <3>3 DEF Addresses
    <3> QED
      BY <1>5, <1>6, <3>4
  <2> QED
    BY <2>1 DEF InPlace
<1> QED
  BY <1>1, <1>3, <1>5, <1>8, <1>9

-----------------------------------------------------------------------------
(* Steps *)

USE DEF inputs, senderVars, receiverVars

\* The sender offers the buffer: nothing is sent, nothing loaded.
LEMMA SendHandshakeKeeps ==
  ASSUME IInv, SendHandshake
  PROVE  IInv'
<1> USE DEF IInv
<1>1. TypeOK'
  BY SenderType, MessageTypes DEF TypeOK, SendHandshake
<1>2. MetaInv'
  BY DEF MetaInv, SendHandshake
<1>3. TurnInv'
  BY DEF TurnInv, Waiting, SendHandshake, Handshake
<1>4. LoadedInv'
  BY DEF LoadedInv, SendHandshake
<1>5. MessageInv'
  BY DEF MessageInv, SendHandshake
<1>6. RequestInv'
  BY DEF RequestInv, SendHandshake, Handshake
<1>7. CountInv'
  BY Sizes DEF CountInv, Waiting, SendHandshake
<1> QED
  BY <1>1, <1>2, <1>3, <1>4, <1>5, <1>6, <1>7

\* The first bucket starts empty.
LEMMA HandshakeAckKeeps ==
  ASSUME IInv, HandshakeAck
  PROVE  IInv'
<1> USE DEF IInv
<1>1. TypeOK'
  BY SenderType, MessageTypes DEF TypeOK, HandshakeAck
<1>2. MetaInv'
  <2>1. Len(<<>>) = 0 /\ meta' = <<>> /\ next' = 1 /\ senderPc' = "pack"
    BY DEF MetaInv, HandshakeAck
  <2> QED
    BY <2>1 DEF MetaInv, Numbered, Packed
<1>3. TurnInv'
  BY DEF TurnInv, Loading, HandshakeAck
<1>4. LoadedInv'
  BY DEF LoadedInv, HandshakeAck
<1>5. MessageInv'
  BY DEF MessageInv, HandshakeAck
<1>6. RequestInv'
  BY DEF RequestInv, HandshakeAck
<1>7. CountInv'
  <2>1. Len(<<>>) = 0 /\ meta = <<>> /\ next = 1
    BY DEF MetaInv, HandshakeAck
  <2> QED
    BY <2>1 DEF CountInv, TurnInv, Loading, Waiting, InHand, HandshakeAck
<1> QED
  BY <1>1, <1>2, <1>3, <1>4, <1>5, <1>6, <1>7

\* Packing touches the sender's slot only, away from what is being loaded.
LEMMA PackKeeps ==
  ASSUME IInv, Pack
  PROVE  IInv'
<1> USE DEF IInv
<1> DEFINE base == slot * SizeOf(config)
           e == Entry(next, Start)
<1>8. /\ next \in Names /\ weights[next].bytes \in Nat /\ offset \in Nat /\ base \in Nat
      /\ offset + weights[next].bytes <= SizeOf(config) /\ SizeOf(config) \in Nat
      /\ Len(meta) \in Nat /\ meta \in Seq(Entries)
  <2>1. next \in Names
    BY Sizes, Counts DEF TypeOK, Pack
  <2>2. offset \in Nat /\ meta \in Seq(Entries) /\ Fits
    BY Sizes DEF TypeOK, Pack
  <2> QED
    BY <2>1, <2>2, Sizes, Counts DEF Fits
<1>9. e \in Entries /\ e.name = next /\ e.start = base + offset /\ ~e.direct
  BY <1>8, Sizes DEF Entries, Entry, Start
<1>10. Extent(e) = (base + offset) .. (base + offset + weights[next].bytes - 1)
  BY <1>9 DEF Extent
<1>11. /\ buffer' \in [Addresses -> Names \cup {Unset, Torn}] /\ DOMAIN buffer' = DOMAIN buffer
       /\ \A a \in DOMAIN buffer :
            a \notin base .. (base + SizeOf(config) - 1) => buffer'[a] = buffer[a]
  <2>1. /\ buffer \in [Addresses -> Names \cup {Unset, Torn}]
        /\ buffer' = [a \in Addresses |-> IF a \in Extent(e) THEN Torn ELSE buffer[a]]
    BY DEF TypeOK, Pack
  <2>2. \A a \in Extent(e) : a \in base .. (base + SizeOf(config) - 1)
    BY <1>8, <1>10
  <2> QED
    BY <2>1, <2>2
<1> HIDE DEF e, base
<1>1. TypeOK'
  <2>1. /\ offset' \in 0 .. BucketSize /\ next' \in 1 .. (Len(weights) + 1)
        /\ meta' \in Seq(Entries)
    <3>1. /\ offset' = offset + weights[next].bytes /\ next' = next + 1
          /\ meta' = Append(meta, e)
      BY DEF Pack, e
    <3>2. next \in 1 .. Len(weights) /\ Len(weights) \in Nat /\ BucketSize = SizeOf(config)
      BY <1>8, Sizes
    <3>3. meta' \in Seq(Entries)
      BY <1>8, <1>9, <3>1
    <3> QED
      BY <1>8, <3>1, <3>2, <3>3
  <2> QED
    BY <1>11, <2>1, SenderType DEF TypeOK, Pack
<1>2. MetaInv'
  <2>1. Packed(weights, meta', base, offset')
    <3>1. \A i \in 1 .. Len(meta) : End(weights, meta[i]) \in Int
      BY Places, <1>8
    <3>2. Packed(weights, meta, base, offset)
      BY DEF MetaInv, Pack, base
    <3> QED
      BY <1>8, <1>9, <3>1, <3>2, PackedAppend DEF Pack, e
  <2>2. Len(meta') = Len(meta) + 1 /\ Numbered(meta', next - 1 - Len(meta))
    <3>1. meta' = Append(meta, e)
      BY DEF Pack, e
    <3>2. /\ Len(meta') = Len(meta) + 1 /\ meta'[Len(meta) + 1] = e
          /\ \A i \in 1 .. Len(meta) : meta'[i] = meta[i]
      BY <1>8, <3>1
    <3> QED
      <4>1. /\ \A i \in 1 .. Len(meta) : meta[i].name = next - 1 - Len(meta) + i
            /\ next \in Int /\ e.name = next
        BY <1>8, <1>9 DEF MetaInv, Numbered, Names, Pack
      <4>2. ASSUME NEW i \in 1 .. Len(meta')
            PROVE  meta'[i].name = next - 1 - Len(meta) + i
        <5>1. CASE i \in 1 .. Len(meta)
          BY <3>2, <4>1, <5>1
        <5>2. CASE i = Len(meta) + 1
          BY <1>8, <3>2, <4>1, <5>2
        <5> QED
          BY <1>8, <3>2, <5>1, <5>2
      <4> QED
        BY <3>2, <4>2 DEF Numbered
  <2>3. /\ senderPc' = "pack" /\ next' = next + 1 /\ next \in Nat
        /\ UNCHANGED <<weights, slot, config>>
    BY <1>8, Sizes DEF Pack
  <2>4. Len(meta') <= next' - 1 /\ next' - 1 - Len(meta') = next - 1 - Len(meta)
    <3>1. Len(meta) <= next - 1
      BY DEF MetaInv, Pack
    <3> QED
      BY <1>8, <2>2, <2>3, <3>1
  <2> QED
    BY <2>1, <2>2, <2>3, <2>4 DEF MetaInv, base
<1>3. TurnInv'
  BY DEF TurnInv, Waiting, Pack
<1>4. LoadedInv'
  BY DEF LoadedInv, Pack
<1>5. MessageInv'
  <2>1. Loading(receiverPc) => InPlace(buffer', weights, message.entries)
    BY <1>11, InPlaceStays DEF MessageInv, TurnInv, Pack, base
  <2> QED
    BY <2>1 DEF MessageInv, Pack
<1>6. RequestInv'
  BY DEF RequestInv, TurnInv, Pack
<1>7. CountInv'
  <2>1. Len(meta') = Len(meta) + 1 /\ next \in Nat
    BY <1>8, <1>9 DEF Pack, Names
  <2>2. receiverPc # "failed" =>
          Len(loaded) + InHand(receiverPc, message) = next' - 1 - Len(meta')
    BY <1>8, <2>1, Counts DEF CountInv, Pack
  <2> QED
    BY <2>2 DEF CountInv, Waiting, Pack
<1> QED
  BY <1>1, <1>2, <1>3, <1>4, <1>5, <1>6, <1>7

\* A flushed bucket is in place and continues what has been sent.
LEMMA FlushKeeps ==
  ASSUME IInv, Flush
  PROVE  IInv'
<1> USE DEF IInv
<1> DEFINE base == slot * SizeOf(config)
<1>8. /\ buffer' \in [Addresses -> Names \cup {Unset, Torn}] /\ InPlace(buffer', weights, meta)
      /\ DOMAIN buffer' = DOMAIN buffer
      /\ \A a \in DOMAIN buffer :
            a \notin base .. (base + SizeOf(config) - 1) => buffer'[a] = buffer[a]
  BY SyncPlaces DEF MetaInv, Flush
<1>9. /\ meta \in Seq(Entries) /\ Len(meta) \in Nat /\ next \in Nat
      /\ request'.kind = "bucket" /\ request'.entries = meta /\ request'.version = sent
      /\ request'.isLast = FALSE /\ request'.ackEarly = DoubleBuffer
      /\ request.kind = "none" /\ DoubleBuffer \in BOOLEAN
  BY LenProperties, TransferAssumption DEF TypeOK, TurnInv, AckEarly, Control, DoubleBuffer,
     Flush
<1> HIDE DEF base
<1>1. TypeOK'
  <2>1. request' \in Messages
    BY <1>9, MessageTypes DEF Flush, AckEarly
  <2> QED
    BY <1>8, <2>1, SenderType DEF TypeOK, Flush
<1>2. MetaInv'
  BY Sizes DEF MetaInv, Flush
<1>3. TurnInv'
  BY <1>9 DEF TurnInv, IsOut, DoubleBuffer, Flush
<1>4. LoadedInv'
  BY DEF LoadedInv, Flush
<1>5. MessageInv'
  <2>1. Loading(receiverPc) => InPlace(buffer', weights, message.entries)
    BY <1>8, InPlaceStays DEF MessageInv, TurnInv, Flush, base
  <2> QED
    BY <2>1 DEF MessageInv, Flush
<1>6. RequestInv'
  BY <1>8, <1>9, Sizes DEF RequestInv, MetaInv, CountInv, Flush
<1>7. CountInv'
  <2>1. Requested(request') = Len(meta)
    BY <1>9 DEF Requested
  <2>2. receiverPc # "failed" =>
          Len(loaded) + InHand(receiverPc, message) + Requested(request') = next - 1
    <3>1. senderPc = "pack"
      BY DEF Flush
    <3> QED
      BY <2>1, <3>1, Counts DEF CountInv
  <2> QED
    BY <2>2 DEF CountInv, Flush
<1> QED
  BY <1>1, <1>2, <1>3, <1>4, <1>5, <1>6, <1>7

\* The next slot is not the one still being loaded.
LEMMA FlushAckKeeps ==
  ASSUME IInv, FlushAck
  PROVE  IInv'
<1> USE DEF IInv
<1>8. /\ slot' \in 0 .. (NumSlots - 1) /\ slot \in 0 .. (NumSlots - 1) /\ NumSlots \in {1, 2}
      /\ NumSlots = SlotsOf(config) /\ SizeOf(config) \in Nat /\ BucketSize = SizeOf(config)
  BY Sizes, SlotTurns DEF TypeOK, FlushAck
<1>9. Len(<<>>) = 0 /\ <<>> \in Seq(Entries) /\ request.kind = "none"
  BY DEF TypeOK, TurnInv, Waiting, Messages, FlushAck
<1>1. TypeOK'
  <2>1. offset' \in 0 .. BucketSize /\ meta' \in Seq(Entries)
    BY <1>8, <1>9 DEF FlushAck
  <2> QED
    BY <1>8, <2>1, SenderType DEF TypeOK, FlushAck
<1>2. MetaInv'
  BY <1>9 DEF TypeOK, MetaInv, Numbered, Packed, FlushAck
<1>3. TurnInv'
  <2>1. ASSUME Loading(receiverPc)
        PROVE  /\ message.ackEarly
               /\ Away(weights, message.entries, slot' * SizeOf(config), SizeOf(config))
    <3>1. message.ackEarly /\ message.entries = meta /\ config.doubleBuffer
      BY <1>9, <2>1 DEF TurnInv, Waiting, IsOut, FlushAck
    <3>2. NumSlots = 2
      BY <1>8, <3>1 DEF SlotsOf
    <3>3. slot' # slot
      BY <3>2, SlotTurns DEF FlushAck
    <3>4. \/ slot' * SizeOf(config) + SizeOf(config) <= slot * SizeOf(config)
          \/ slot * SizeOf(config) + SizeOf(config) <= slot' * SizeOf(config)
      BY <1>8, <3>2, <3>3
    <3>5. \A i \in 1 .. Len(meta) : End(weights, meta[i]) \in Int /\ meta[i].start \in Int
      BY Places DEF TypeOK
    <3>6. /\ Packed(weights, meta, slot * SizeOf(config), offset)
          /\ offset \in Int /\ offset <= SizeOf(config)
      BY <1>8 DEF TypeOK, MetaInv, FlushAck
    <3>7. slot * SizeOf(config) \in Int /\ slot' * SizeOf(config) \in Int
      <4>1. slot \in Int /\ slot' \in Int /\ SizeOf(config) \in Int
        BY <1>8
      <4> QED
        BY <4>1
    <3> DEFINE base  == slot * SizeOf(config)
               other == slot' * SizeOf(config)
    <3>8. /\ base \in Int /\ other \in Int /\ SizeOf(config) \in Int
          /\ other + SizeOf(config) <= base \/ base + SizeOf(config) <= other
          /\ Packed(weights, meta, base, offset)
      BY <1>8, <3>4, <3>6, <3>7
    <3> HIDE DEF base, other
    <3>9. Away(weights, meta, other, SizeOf(config))
      BY <3>5, <3>6, <3>8, OtherSlot
    <3> QED
      BY <3>1, <3>9 DEF other
  <2>2. receiverPc \in {"recv", "load", "sync", "failed"}
    BY DEF TypeOK, TurnInv, Waiting, FlushAck
  <2> QED
    BY <1>9, <2>1, <2>2 DEF TurnInv, Waiting, FlushAck
<1>4. LoadedInv'
  BY DEF LoadedInv, FlushAck
<1>5. MessageInv'
  BY DEF MessageInv, FlushAck
<1>6. RequestInv'
  BY DEF RequestInv, FlushAck
<1>7. CountInv'
  <2>1. Requested(request) = 0
    BY <1>9 DEF Requested
  <2>2. receiverPc # "failed" =>
          Len(loaded) + InHand(receiverPc, message) = next - 1 - Len(<<>>)
    BY <1>9, <2>1, Counts DEF CountInv, Waiting, FlushAck
  <2> QED
    BY <2>2 DEF CountInv, Waiting, FlushAck
<1> QED
  BY <1>1, <1>2, <1>3, <1>4, <1>5, <1>6, <1>7

\* A tensor of its own continues what has been sent.
LEMMA DirectSendKeeps ==
  ASSUME IInv, DirectSend
  PROVE  IInv'
<1> USE DEF IInv
<1>8. /\ next \in Names /\ Direct(next) \in Entries /\ <<Direct(next)>> \in Seq(Entries)
      /\ Len(<<Direct(next)>>) = 1 /\ <<Direct(next)>>[1] = Direct(next)
      /\ Direct(next).direct /\ Direct(next).name = next
  BY Sizes DEF TypeOK, Direct, Entries, DirectSend
<1>9. /\ request'.kind = "bucket" /\ request'.entries = <<Direct(next)>> /\ request'.version = sent
      /\ request'.isLast = FALSE /\ request'.ackEarly = FALSE /\ request.kind = "none"
      /\ Len(meta) = 0 /\ next \in Nat /\ next <= Len(weights)
  BY <1>8, Sizes DEF TurnInv, Control, DirectSend
<1>1. TypeOK'
  <2>1. request' \in Messages
    BY <1>8, MessageTypes DEF DirectSend
  <2> QED
    BY <2>1, SenderType DEF TypeOK, DirectSend
<1>2. MetaInv'
  BY <1>9 DEF MetaInv, DirectSend
<1>3. TurnInv'
  BY <1>9 DEF TurnInv, IsOut, DirectSend
<1>4. LoadedInv'
  BY DEF LoadedInv, DirectSend
<1>5. MessageInv'
  BY DEF MessageInv, DirectSend
<1>6. RequestInv'
  <2>1. InPlace(buffer, weights, <<Direct(next)>>) /\ Numbered(<<Direct(next)>>, next - 1)
    BY <1>8, <1>9 DEF InPlace, Numbered
  <2>2. receiverPc # "failed" => Len(loaded) + InHand(receiverPc, message) = next - 1
    BY <1>9 DEF CountInv, DirectSend
  <2> QED
    BY <1>9, <2>1, <2>2 DEF RequestInv, DirectSend
<1>7. CountInv'
  <2>1. receiverPc # "failed" => Len(loaded) + InHand(receiverPc, message) = next - 1
    BY <1>9 DEF CountInv, DirectSend
  <2> QED
    <3>1. Requested(request') = 1
      BY <1>8, <1>9 DEF Requested
    <3>2. receiverPc # "failed" =>
            Len(loaded) + InHand(receiverPc, message) + Requested(request') = next
      BY <2>1, <3>1, Counts
    <3> QED
      BY <3>2 DEF CountInv, DirectSend
<1> QED
  BY <1>1, <1>2, <1>3, <1>4, <1>5, <1>6, <1>7

\* The direct tensor has been loaded when its answer comes.
LEMMA DirectAckKeeps ==
  ASSUME IInv, DirectAck
  PROVE  IInv'
<1> USE DEF IInv
<1>8. /\ next \in Nat /\ next <= Len(weights) /\ meta = <<>> /\ Len(meta) = 0
      /\ receiverPc \in {"recv", "failed"} /\ request.kind = "none"
  BY Sizes DEF TypeOK, MetaInv, TurnInv, Waiting, Messages, DirectAck
<1>1. TypeOK'
  <2>1. next' \in 1 .. (Len(weights) + 1)
    BY <1>8, Sizes DEF DirectAck
  <2> QED
    BY <2>1, SenderType DEF TypeOK, DirectAck
<1>2. MetaInv'
  BY <1>8 DEF MetaInv, Numbered, Packed, DirectAck
<1>3. TurnInv'
  BY <1>8 DEF TurnInv, Loading, DirectAck
<1>4. LoadedInv'
  BY DEF LoadedInv, DirectAck
<1>5. MessageInv'
  BY DEF MessageInv, DirectAck
<1>6. RequestInv'
  BY DEF RequestInv, DirectAck
<1>7. CountInv'
  BY <1>8, LenProperties DEF CountInv, Waiting, InHand, Requested, DirectAck
<1> QED
  BY <1>1, <1>2, <1>3, <1>4, <1>5, <1>6, <1>7

\* With the last bucket every weight has been sent.
LEMMA FlushLastKeeps ==
  ASSUME IInv, FlushLast
  PROVE  IInv'
<1> USE DEF IInv
<1> DEFINE base == slot * SizeOf(config)
<1>8. /\ buffer' \in [Addresses -> Names \cup {Unset, Torn}] /\ InPlace(buffer', weights, meta)
      /\ DOMAIN buffer' = DOMAIN buffer
      /\ \A a \in DOMAIN buffer :
            a \notin base .. (base + SizeOf(config) - 1) => buffer'[a] = buffer[a]
  BY SyncPlaces DEF MetaInv, FlushLast
<1>9. /\ meta \in Seq(Entries) /\ Len(meta) \in Nat /\ next \in Nat
      /\ request'.kind = "bucket" /\ request'.entries = meta /\ request'.version = sent
      /\ request'.isLast = TRUE /\ request'.ackEarly = FALSE
      /\ request.kind = "none" /\ DoubleBuffer \in BOOLEAN
  BY LenProperties, TransferAssumption DEF TypeOK, TurnInv, AckEarly, Control, DoubleBuffer,
     FlushLast
<1> HIDE DEF base
<1>1. TypeOK'
  <2>1. request' \in Messages
    BY <1>9, MessageTypes DEF FlushLast, AckEarly
  <2> QED
    BY <1>8, <2>1, SenderType DEF TypeOK, FlushLast
<1>2. MetaInv'
  BY Sizes DEF TypeOK, MetaInv, FlushLast
<1>3. TurnInv'
  BY <1>9 DEF TurnInv, IsOut, FlushLast
<1>4. LoadedInv'
  BY DEF LoadedInv, FlushLast
<1>5. MessageInv'
  <2>1. Loading(receiverPc) => InPlace(buffer', weights, message.entries)
    BY <1>8, InPlaceStays DEF MessageInv, TurnInv, FlushLast, base
  <2> QED
    BY <2>1 DEF MessageInv, FlushLast
<1>6. RequestInv'
  <2>1. Requested(request') = Len(meta)
    BY <1>9 DEF Requested
  <2>2. receiverPc # "failed" =>
          /\ Len(loaded) + InHand(receiverPc, message) = next - 1 - Len(meta)
          /\ Len(loaded) + InHand(receiverPc, message) + Requested(request') = Len(weights)
    <3>1. senderPc = "pack" /\ next > Len(weights)
      BY DEF FlushLast
    <3>2. next = Len(weights) + 1
      BY <3>1, Counts, Sizes
    <3> QED
      BY <2>1, <3>1, <3>2, Counts, Sizes DEF CountInv
  <2> QED
    BY <1>8, <1>9, <2>2 DEF RequestInv, MetaInv, FlushLast
<1>7. CountInv'
  <2>1. Requested(request') = Len(meta)
    BY <1>9 DEF Requested
  <2>2. receiverPc # "failed" =>
          Len(loaded) + InHand(receiverPc, message) + Requested(request') = next - 1
    <3>1. senderPc = "pack"
      BY DEF FlushLast
    <3> QED
      BY <2>1, <3>1, Counts DEF CountInv
  <2> QED
    BY <2>2 DEF CountInv, FlushLast
<1> QED
  BY <1>1, <1>2, <1>3, <1>4, <1>5, <1>6, <1>7

\* The last answer comes after loading.
LEMMA LastAckKeeps ==
  ASSUME IInv, LastAck
  PROVE  IInv'
<1> USE DEF IInv
<1>1. TypeOK'
  <2>1. slot' \in 0 .. (NumSlots - 1)
    BY SlotTurns DEF LastAck
  <2> QED
    BY <2>1, SenderType DEF TypeOK, LastAck
<1>2. MetaInv'
  BY DEF MetaInv, LastAck
<1>3. TurnInv'
  BY DEF TurnInv, Waiting, LastAck
<1>4. LoadedInv'
  BY DEF LoadedInv, LastAck
<1>5. MessageInv'
  BY DEF MessageInv, LastAck
<1>6. RequestInv'
  BY DEF RequestInv, LastAck
<1>7. CountInv'
  BY Sizes DEF CountInv, Waiting, LastAck
<1> QED
  BY <1>1, <1>2, <1>3, <1>4, <1>5, <1>6, <1>7

\* A sender that raises leaves the receiver as it is.
LEMMA SenderRaiseKeeps ==
  ASSUME IInv, SenderRaise
  PROVE  IInv'
<1> USE DEF IInv
<1>1. TypeOK'
  BY SenderType, MessageTypes DEF TypeOK, SenderRaise
<1>2. MetaInv'
  BY DEF MetaInv, SenderRaise
<1>3. TurnInv'
  BY DEF TurnInv, Waiting, SenderRaise
<1>4. LoadedInv'
  BY DEF LoadedInv, SenderRaise
<1>5. MessageInv'
  BY DEF MessageInv, SenderRaise
<1>6. RequestInv'
  BY DEF RequestInv, SenderRaise
<1>7. CountInv'
  BY Sizes DEF CountInv, Waiting, SenderRaise
<1> QED
  BY <1>1, <1>2, <1>3, <1>4, <1>5, <1>6, <1>7

\* The receiver maps the buffer; nothing has been sent.
LEMMA ReceiveHandshakeKeeps ==
  ASSUME IInv, ReceiveHandshake
  PROVE  IInv'
<1> USE DEF IInv
<1>1. TypeOK'
  BY ReceiverType, MessageTypes DEF TypeOK, ReceiveHandshake
<1>2. MetaInv'
  BY DEF MetaInv, ReceiveHandshake
<1>3. TurnInv'
  BY DEF TurnInv, ReceiveHandshake, NoMessage
<1>4. LoadedInv'
  BY DEF LoadedInv, Loading, ReceiveHandshake
<1>5. MessageInv'
  BY DEF MessageInv, Loading, ReceiveHandshake
<1>6. RequestInv'
  BY DEF RequestInv, ReceiveHandshake, NoMessage
<1>7. CountInv'
  BY Sizes DEF CountInv, Loading, InHand, Requested, ReceiveHandshake, NoMessage
<1> QED
  BY <1>1, <1>2, <1>3, <1>4, <1>5, <1>6, <1>7

\* The requested bucket is the next to load, and its version is right.
LEMMA ReceiveKeeps ==
  ASSUME IInv, Receive
  PROVE  IInv'
<1> USE DEF IInv
<1>8. request' \in Messages /\ request'.kind = "none" /\ Len(loaded) \in Nat
  BY MessageTypes, LenProperties DEF NoMessage, Receive
<1>9. /\ Numbered(request.entries, Len(loaded)) /\ InPlace(buffer, weights, request.entries)
      /\ request.version = sent /\ request.entries \in Seq(Entries) /\ Len(request.entries) \in Nat
      /\ request.isLast => ~request.ackEarly /\ Len(loaded) + Len(request.entries) = Len(weights)
  BY <1>8, LenProperties DEF TypeOK, Messages, RequestInv, Loading, InHand, Requested, Receive
<1>10. /\ Len(views') = Len(request.entries)
       /\ \A i \in 1 .. Len(views') : views'[i] = request.entries[i].name
       /\ views' \in Seq(Names \cup {Unset, Torn})
  BY <1>9, SeenInPlace DEF Receive
<1>1. TypeOK'
  BY <1>8, <1>10, ReceiverType DEF TypeOK, Messages, Receive
<1>2. MetaInv'
  BY DEF MetaInv, Receive
<1>3. TurnInv'
  BY <1>8 DEF TurnInv, IsOut, Receive
<1>4. LoadedInv'
  BY <1>9 DEF LoadedInv, VersionMatches, Receive
<1>5. MessageInv'
  BY <1>9, <1>10 DEF MessageInv, InHand, Receive
<1>6. RequestInv'
  BY <1>8 DEF RequestInv
<1>7. CountInv'
  BY <1>8 DEF CountInv, TurnInv, Loading, InHand, Requested, Receive
<1> QED
  BY <1>1, <1>2, <1>3, <1>4, <1>5, <1>6, <1>7

\* The views still show the tensors.
LEMMA LoadKeeps ==
  ASSUME IInv, Load
  PROVE  IInv'
<1> USE DEF IInv
<1>8. /\ Len(views') = Len(message.entries)
      /\ \A i \in 1 .. Len(views') : views'[i] = message.entries[i].name
      /\ views' \in Seq(Names \cup {Unset, Torn})
  <2>1. /\ Loading(receiverPc) /\ message.entries \in Seq(Entries)
        /\ InPlace(buffer, weights, message.entries)
    BY DEF TypeOK, Messages, MessageInv, Loading, Load
  <2>2. CASE UseShm
    BY <2>1, <2>2 DEF TypeOK, MessageInv, Load
  <2>3. CASE ~UseShm
    BY <2>1, <2>3, SeenInPlace DEF Load
  <2> QED
    BY <2>2, <2>3
<1>1. TypeOK'
  BY <1>8, ReceiverType DEF TypeOK, Load
<1>2. MetaInv'
  BY DEF MetaInv, Load
<1>3. TurnInv'
  BY DEF TurnInv, Loading, Load
<1>4. LoadedInv'
  BY DEF LoadedInv, Loading, Load
<1>5. MessageInv'
  BY <1>8 DEF MessageInv, Loading, InHand, Load
<1>6. RequestInv'
  BY DEF RequestInv, Loading, InHand, Load
<1>7. CountInv'
  BY Sizes DEF CountInv, Loading, InHand, Load
<1> QED
  BY <1>1, <1>2, <1>3, <1>4, <1>5, <1>6, <1>7

\* No view has changed while it was copied, so the next weights are loaded.
LEMMA LoadSyncKeeps ==
  ASSUME IInv, LoadSync
  PROVE  IInv'
<1> USE DEF IInv
<1> DEFINE n == Len(loaded)
           m == Len(message.entries)
           landed == [i \in 1 .. Len(views) |->
                        IF UseShm \/ Seen(message.entries[i]) = views[i] THEN views[i] ELSE Torn]
<1>8. /\ Loading(receiverPc) /\ message.entries \in Seq(Entries) /\ m \in Nat /\ n \in Nat
      /\ InPlace(buffer, weights, message.entries) /\ Numbered(message.entries, n)
      /\ Len(views) = m /\ \A i \in 1 .. m : views[i] = message.entries[i].name
  BY LenProperties DEF TypeOK, Messages, MessageInv, Loading, LoadSync
<1>9. \A i \in 1 .. m : Seen(message.entries[i]) = message.entries[i].name
  BY <1>8, Places DEF Seen, InPlace
<1>10. /\ landed \in Seq(Names \cup {Unset, Torn}) /\ Len(landed) = m
       /\ \A i \in 1 .. m : landed[i] = n + i
  <2>1. \A i \in 1 .. m : message.entries[i].name \in Names
    BY <1>8, Places
  <2> QED
    BY <1>8, <1>9, <2>1 DEF Numbered
<1> HIDE DEF landed
<1>11. /\ loaded' \in Seq(Names \cup {Unset, Torn}) /\ Len(loaded') = n + m
       /\ \A i \in 1 .. (n + m) : loaded'[i] = IF i <= n THEN loaded[i] ELSE landed[i - n]
  <2>1. loaded' = loaded \o landed /\ loaded \in Seq(Names \cup {Unset, Torn})
    BY DEF TypeOK, LoadSync, landed
  <2> QED
    <3>1. /\ loaded \o landed \in Seq(Names \cup {Unset, Torn})
          /\ Len(loaded \o landed) = Len(loaded) + Len(landed)
          /\ \A i \in 1 .. (Len(loaded) + Len(landed)) : (loaded \o landed)[i] =
               IF i <= Len(loaded) THEN loaded[i] ELSE landed[i - Len(loaded)]
      BY <1>10, <2>1, ConcatProperties, Zenon
    <3> QED
      BY <1>10, <2>1, <3>1, Zenon
<1>12. n + m <= Len(weights)
  <2>1. m > 0 => n + m \in Names
    <3>1. m > 0 => m \in 1 .. m /\ message.entries[m].name = n + m
      BY <1>8 DEF Numbered
    <3> QED
      BY <1>8, <3>1, Places
  <2> QED
    BY <1>8, <2>1, Sizes DEF LoadedInv
<1> HIDE DEF n, m
<1>1. TypeOK'
  BY <1>11, ReceiverType DEF TypeOK, LoadSync
<1>2. MetaInv'
  BY DEF MetaInv, LoadSync
<1>3. TurnInv'
  <2>1. /\ reply \in BOOLEAN /\ message.isLast \in BOOLEAN /\ message.ackEarly \in BOOLEAN
        /\ request.kind \in {"bucket", "handle", "none"} /\ receiverPc = "sync"
        /\ message.isLast => ~message.ackEarly
    BY DEF TypeOK, Messages, MessageInv, Loading, LoadSync
  <2>2. /\ receiverPc' \in {"done", "recv"} /\ (receiverPc' = "done" <=> message.isLast)
        /\ reply' <=> reply \/ ~message.ackEarly
        /\ UNCHANGED <<senderPc, request, message, next, meta, config, weights, slot>>
        /\ ~Loading(receiverPc')
    BY <2>1 DEF Loading, LoadSync
  <2>3. CASE senderPc \in {"start", "handshake", "done"}
    BY <2>1, <2>3 DEF TurnInv
  <2>4. CASE senderPc \in {"pack", "failed"}
    BY <2>1, <2>2, <2>4 DEF TurnInv, Waiting, Loading
  <2>5. CASE Waiting(senderPc)
    BY <2>1, <2>2, <2>5 DEF TurnInv, Loading, IsOut
  <2> QED
    BY <2>3, <2>4, <2>5 DEF TypeOK, Waiting
<1>4. LoadedInv'
  <2>1. \A i \in 1 .. Len(loaded') : loaded'[i] = i
    <3>1. /\ \A i \in 1 .. n : loaded[i] = i
          /\ Len(loaded') = n + m /\ n \in Nat /\ m \in Nat
      BY <1>8, <1>11 DEF LoadedInv, n
    <3>2. ASSUME NEW i \in 1 .. Len(loaded')
          PROVE  loaded'[i] = i
      <4>1. CASE i <= n
        BY <1>11, <3>1, <4>1
      <4>2. CASE ~(i <= n)
        <5>1. i - n \in 1 .. m /\ n + (i - n) = i
          BY <3>1, <4>2
        <5> QED
          BY <1>10, <1>11, <3>1, <4>2, <5>1
      <4> QED
        BY <4>1, <4>2
    <3> QED
      BY <3>2
  <2>2. message.isLast => n + m = Len(weights)
    BY <1>8 DEF MessageInv, InHand, n
  <2> QED
    BY <1>8, <1>11, <1>12, <2>1, <2>2 DEF LoadedInv, LoadSync
<1>5. MessageInv'
  BY DEF MessageInv, Loading, LoadSync
<1>6. RequestInv'
  <2>1. /\ ~Loading(receiverPc') /\ InHand(receiverPc, message) = m
        /\ InHand(receiverPc', message') = 0 /\ Len(loaded') + 0 = n + m
    BY <1>8, <1>11 DEF Loading, InHand, LoadSync, m
  <2> QED
    BY <1>8, <2>1 DEF RequestInv, LoadSync
<1>7. CountInv'
  <2>1. /\ InHand(receiverPc, message) = m /\ InHand(receiverPc', message') = 0
        /\ Len(loaded') + 0 = n + m /\ receiverPc # "failed"
    BY <1>8, <1>11 DEF Loading, InHand, LoadSync, m
  <2>2. senderPc \notin {"start", "handshake"}
    BY <1>8 DEF TurnInv, Loading
  <2> QED
    BY <1>8, <2>1, <2>2 DEF CountInv, LoadSync
<1> QED
  BY <1>1, <1>2, <1>3, <1>4, <1>5, <1>6, <1>7

\* A receiver that raises loads nothing more.
LEMMA ReceiverRaiseKeeps ==
  ASSUME IInv, ReceiverRaise
  PROVE  IInv'
<1> USE DEF IInv
<1>1. TypeOK'
  BY ReceiverType, MessageTypes DEF TypeOK, ReceiverRaise
<1>2. MetaInv'
  BY DEF MetaInv, ReceiverRaise
<1>3. TurnInv'
  <2>1. /\ receiverPc \in {"handshake", "recv", "load"} /\ receiverPc' = "failed"
        /\ UNCHANGED <<senderPc, request, reply, message, next, meta, config, weights, slot>>
    BY DEF ReceiverRaise
  <2>2. ~Loading(receiverPc')
    BY <2>1 DEF Loading
  <2>3. Waiting(senderPc) /\ senderPc = "last" => ~reply
    BY <2>1 DEF TurnInv
  <2>4. senderPc # "done"
    BY <2>1 DEF TurnInv
  <2> QED
    BY <2>1, <2>2, <2>3, <2>4 DEF TurnInv
<1>4. LoadedInv'
  BY DEF LoadedInv, Loading, ReceiverRaise
<1>5. MessageInv'
  BY DEF MessageInv, Loading, ReceiverRaise
<1>6. RequestInv'
  BY DEF RequestInv, ReceiverRaise
<1>7. CountInv'
  BY Sizes DEF CountInv, ReceiverRaise
<1> QED
  BY <1>1, <1>2, <1>3, <1>4, <1>5, <1>6, <1>7

-----------------------------------------------------------------------------
(* The invariant holds. *)

\* Nothing has been sent and nothing loaded.
LEMMA IInvInit == Init => IInv
<1> SUFFICES ASSUME Init
             PROVE  IInv
  OBVIOUS
<1>1. /\ <<>> \in Seq(Entries) /\ <<>> \in Seq(Names \cup {Unset, Torn}) /\ Len(<<>>) = 0
      /\ NoMessage.kind = "none"
  BY DEF NoMessage
<1>2. TypeOK
  <2>1. NoMessage \in Messages
    BY <1>1 DEF NoMessage, Messages
  <2>2. Len(weights) \in Nat
    BY TransferAssumption, LenProperties
  <2>3. NumSlots \in {1, 2} /\ config.bytes \in Nat
    BY TransferAssumption DEF Init, NumSlots
  <2>4. BucketSize \in Nat
    BY <2>3 DEF BucketSize
  <2>5. /\ next \in 1 .. (Len(weights) + 1) /\ slot \in 0 .. (NumSlots - 1)
        /\ offset \in 0 .. BucketSize
    BY <2>2, <2>3, <2>4 DEF Init
  <2>6. buffer \in [Addresses -> Names \cup {Unset, Torn}]
    BY DEF Init
  <2> QED
    BY <1>1, <2>1, <2>5, <2>6 DEF Init, TypeOK
<1>3. MetaInv
  BY DEF MetaInv, Init
<1>4. TurnInv
  BY <1>1 DEF TurnInv, Init, Waiting
<1>5. LoadedInv
  BY <1>1, <1>2, Sizes DEF LoadedInv, Init, Loading
<1>6. MessageInv /\ RequestInv
  BY <1>1 DEF MessageInv, RequestInv, Init, Loading
<1>7. CountInv
  BY DEF CountInv, Init, Waiting
<1> QED
  BY <1>2, <1>3, <1>4, <1>5, <1>6, <1>7 DEF IInv

\* A step that changes nothing.
LEMMA StutterKeeps ==
  ASSUME IInv, UNCHANGED vars
  PROVE  IInv'
<1> USE DEF IInv, vars
<1>1. TypeOK'
  BY SenderType DEF TypeOK
<1>2. MetaInv'
  BY DEF MetaInv
<1>3. TurnInv'
  BY DEF TurnInv
<1>4. LoadedInv'
  BY DEF LoadedInv
<1>5. MessageInv' /\ RequestInv' /\ CountInv'
  BY DEF MessageInv, RequestInv, CountInv
<1> QED
  BY <1>1, <1>2, <1>3, <1>4, <1>5

\* Every step keeps the invariant.
LEMMA IInvStep == IInv /\ [Next]_vars => IInv'
<1> SUFFICES ASSUME IInv, [Next]_vars
             PROVE  IInv'
  OBVIOUS
<1>1. CASE Sender
  BY <1>1, SendHandshakeKeeps, HandshakeAckKeeps, PackKeeps, FlushKeeps, FlushAckKeeps,
     DirectSendKeeps, DirectAckKeeps, FlushLastKeeps, LastAckKeeps, SenderRaiseKeeps DEF Sender
<1>2. CASE Receiver
  BY <1>2, ReceiveHandshakeKeeps, ReceiveKeeps, LoadKeeps, LoadSyncKeeps, ReceiverRaiseKeeps
     DEF Receiver
<1>3. CASE Joined \/ UNCHANGED vars
  BY <1>3, StutterKeeps DEF Joined
<1> QED
  BY <1>1, <1>2, <1>3 DEF Next

\* The invariant always holds.
LEMMA Invariance == Spec => []IInv
BY IInvInit, IInvStep, PTL DEF Spec

-----------------------------------------------------------------------------
(* The theorems *)

\* For every list of weights, bucket size, buffering and failure: what the
\* receiver has loaded is the first weights of the list, in order, none of them
\* torn by the sender packing the next bucket and none of another version.
THEOREM LoadsArePrefixes == Spec => []LoadsPrefix
<1>1. IInv => LoadsPrefix
  BY DEF IInv, LoadsPrefix, LoadedInv
<1> QED
  BY <1>1, Invariance, PTL

\* A side that returns without raising knows that every weight has been loaded.
THEOREM DoneIsLoaded == Spec => []DoneMeansLoaded
<1>1. IInv => DoneMeansLoaded
  BY DEF IInv, DoneMeansLoaded, TurnInv, LoadedInv
<1> QED
  BY <1>1, Invariance, PTL
=============================================================================

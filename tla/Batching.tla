------------------------------ MODULE Batching ------------------------------
(***************************************************************************)
(* How rows of a batch are moved: DataProto (core/protocol.py), the        *)
(* dispatch and collect functions (controller/dispatch.py), the greedy     *)
(* token-budget chunks of the log-prob and training passes, the two        *)
(* length balancers, and sequence packing (engine/training/packing.py).    *)
(* A batch is the sequence of its row numbers; every column of the batch   *)
(* is indexed alike, so a row number stands for all of a row's columns.    *)
(***************************************************************************)
EXTENDS Integers, Sequences, FiniteSets, SequencesExt

\* f(x), with x evaluated once: a fold evaluates its accumulator at every mention.
Strict(f(_), x) == CHOOSE y \in {f(v) : v \in {x}} : TRUE

MapSeq(f(_), s) == [i \in DOMAIN s |-> f(s[i])]
Total(f(_), s)  == FoldLeft(LAMBDA acc, x : acc + f(x), 0, s)
RowsOf(n)       == [i \in 1 .. n |-> i]

\* Tokens of the rows listed in s; len[r] is the length of row r.
Tokens(len, s) == Total(LAMBDA r : len[r], s)

\* Python's s[from:to].
Slice(s, from, to) == SubSeq(s, from + 1, to)

-----------------------------------------------------------------------------
(* DataProto *)

\* Mutant: every chunk has the same size and the last rows are lost.
MutSplit(s, k) ==
  [i \in 1 .. k |-> Slice(s, (i - 1) * (Len(s) \div k), i * (Len(s) \div k))]

\* DataProto.split.
Split(s, k) ==
  [i \in 1 .. k |-> Slice(s, ((i - 1) * Len(s)) \div k, (i * Len(s)) \div k)]

\* DataProto.merge and concat: the parts in the order they are given.
Merge(parts) == FlattenSeq(parts)

\* DataProto.pad_to_divisor repeats rows from the front.
PadSize(s, d) == IF s = <<>> THEN 0 ELSE (d - (Len(s) % d)) % d
PadToDivisor(s, d) ==
  s \o [i \in 1 .. PadSize(s, d) |-> s[((i - 1) % Len(s)) + 1]]

\* DataProto.unpad.
Unpad(s, pad) == Slice(s, 0, Len(s) - pad)

\* DataProto.mini_batches.
FixedMiniBatches(s, size) ==
  [b \in 1 .. ((Len(s) + size - 1) \div size) |->
     Slice(s, (b - 1) * size, IF b * size < Len(s) THEN b * size ELSE Len(s))]

-----------------------------------------------------------------------------
(* Dispatch and collect *)

\* A worker group reports, for each of its workers, its data-parallel rank and
\* whether its result is the one to collect.  The peers of a data-parallel rank
\* (tensor or pipeline ranks) are adjacent ("inner") or strided ("outer").
Workers(t) == 1 .. (t.dp * t.peers)
DpRank(t, w)    == IF t.layout = "inner" THEN (w - 1) \div t.peers ELSE (w - 1) % t.dp
IsCollect(t, w) == IF t.layout = "inner" THEN (w - 1) % t.peers = 0 ELSE (w - 1) \div t.dp = 0

\* dispatch_with_dp_ranks and the auto path of dispatch_and_call.
DispatchDpRanks(s, t) == [w \in Workers(t) |-> Split(s, t.dp)[DpRank(t, w) + 1]]

\* collect_with_mask: the kept results, in worker order.
CollectWithMask(results, t) ==
  Merge(MapSeq(LAMBDA w : results[w],
               SelectSeq(RowsOf(t.dp * t.peers), LAMBDA w : IsCollect(t, w))))

-----------------------------------------------------------------------------
(* Token-budget chunks *)

\* Mutant: the row that overflows the budget still joins the chunk.
MutFits(tokens, more, budget) == tokens <= budget

Fits(tokens, more, budget) == tokens + more <= budget

\* The boundaries loop of _compute_log_probs_for_model, compute_log_probs and
\* _dynamic_mini_batches: rows in order, a chunk takes the next row while the
\* budget allows it, and always its first row.
GreedyChunks(s, len, budget) ==
  LET Place(chunks, row) ==
        IF chunks # <<>> /\ Fits(Tokens(len, Last(chunks)), len[row], budget)
        THEN Front(chunks) \o <<Append(Last(chunks), row)>>
        ELSE Append(chunks, <<row>>)
  IN FoldLeft(LAMBDA chunks, row : Strict(LAMBDA c : Place(c, row), chunks), <<>>, s)

\* argsort of the lengths, shortest first.  torch does not fix the order of
\* equal lengths: these are all the orders it may return.
SortedOrders(s, len) ==
  {o \in SetToSeqs(ToSet(s)) : \A i \in 1 .. Len(o) - 1 : len[o[i]] <= len[o[i + 1]]}

-----------------------------------------------------------------------------
(* Karmarkar-Karp, utils/seqlen_balancing.py *)

\* _Set.__lt__: by sum, then size, then items.
ItemsLess(a, b) ==
  \E i \in DOMAIN a : a[i] # b[i] /\ (\A j \in 1 .. i - 1 : a[j] = b[j])
                      /\ (a[i][1] < b[i][1] \/ (a[i][1] = b[i][1] /\ a[i][2] < b[i][2]))
SetLess(a, b) ==
  \/ a.sum < b.sum
  \/ a.sum = b.sum /\ Len(a.items) < Len(b.items)
  \/ a.sum = b.sum /\ Len(a.items) = Len(b.items) /\ ItemsLess(a.items, b.items)

Descending(sets) == SortSeq(sets, LAMBDA a, b : SetLess(b, a))
Spread(st)       == st[1].sum - st[Len(st)].sum

\* _State.__lt__: the state the heap pops first.
PopsBefore(s, t) == \/ Spread(s) > Spread(t)
                    \/ Spread(s) = Spread(t) /\ SetLess(t[1], s[1])
Popped(pq) == CHOOSE s \in pq : \A t \in pq \ {s} : PopsBefore(s, t)

\* Mutant: the states are added the same way round.
MutMergeStates(s, t) ==
  Descending([i \in DOMAIN s |-> [sum   |-> s[i].sum + t[i].sum,
                                  items |-> s[i].items \o t[i].items]])

\* _State.merge: the largest set of one with the smallest of the other.
MergeStates(s, t) ==
  Descending([i \in DOMAIN s |->
                LET o == t[Len(t) + 1 - i]
                IN [sum |-> s[i].sum + o.sum, items |-> s[i].items \o o.items]])

\* karmarkar_karp with equal_size = False: k sequences of indices into work.
KarmarkarKarp(work, k) ==
  LET Single(i) == Descending([j \in 1 .. k |->
                     IF j = 1 THEN [sum |-> work[i], items |-> <<<<i, work[i]>>>>]
                              ELSE [sum |-> 0, items |-> <<>>]])
      MergeTop(pq) == LET s == Popped(pq)
                          t == Popped(pq \ {s})
                      IN (pq \ {s, t}) \union {MergeStates(s, t)}
      final == FoldLeft(LAMBDA pq, i : Strict(MergeTop, pq),
                        {Single(i) : i \in DOMAIN work}, RowsOf(Len(work) - 1))
  IN MapSeq(LAMBDA set : MapSeq(LAMBDA it : it[1], set.items), Popped(final))

\* get_seqlen_balanced_partitions sorts every part.
BalancedPartitions(work, k) ==
  MapSeq(LAMBDA p : SortSeq(p, LAMBDA a, b : a < b), KarmarkarKarp(work, k))

\* calculate_workload.
Workload(l) == 24576 * l + l * l

-----------------------------------------------------------------------------
(* _balance_rows_across_workers *)

\* Rows longest first, ties by row number (Python's sort is stable).
LongestFirst(s, len) ==
  SortSeq(s, LAMBDA a, b : len[a] > len[b] \/ (len[a] = len[b] /\ a < b))

\* Mutant: a full bin still takes rows.
MutBinOpen(bin, size) == TRUE

BinOpen(bin, size) == Len(bin) < size

\* Each row goes to the first of the least loaded bins that have room.
BalancedBins(s, len, k) ==
  LET size == Len(s) \div k
      Best(bins) ==
        CHOOSE b \in 1 .. k :
          /\ BinOpen(bins[b], size)
          /\ \A c \in 1 .. k : BinOpen(bins[c], size) =>
               \/ Tokens(len, bins[b]) < Tokens(len, bins[c])
               \/ Tokens(len, bins[b]) = Tokens(len, bins[c]) /\ b <= c
      Put(bins, row) == [bins EXCEPT ![Best(bins)] = Append(@, row)]
  IN FoldLeft(LAMBDA bins, row : Strict(LAMBDA b : Put(b, row), bins),
              [b \in 1 .. k |-> <<>>], LongestFirst(s, len))

BalanceRows(s, len, k) ==
  IF k <= 1 \/ Len(s) < k \/ Len(s) % k # 0 THEN s
  ELSE Merge(BalancedBins(s, len, k))

-----------------------------------------------------------------------------
(* Sequence packing *)

\* A left-padded matrix: row r has its len tokens at the right end of width S.
Padding == <<0, 0>>
LeftPadded(lens, S) ==
  [r \in DOMAIN lens |-> [c \in 1 .. S |->
     IF c > S - lens[r] THEN <<r, c - (S - lens[r])>> ELSE Padding]]

\* pack_sequences takes the last seq_lens[r] columns of every row.
PackSequences(ids, lens) ==
  Merge([r \in DOMAIN lens |-> SubSeq(ids[r], Len(ids[r]) - lens[r] + 1, Len(ids[r]))])

CuSeqlens(lens) == [i \in 1 .. Len(lens) + 1 |-> Total(LAMBDA x : x, SubSeq(lens, 1, i - 1))]

\* packed_token_log_probs: one value per token that is not the last of its
\* sequence; the value at a token is the log-prob of the token after it.
PackedTokenLogProbs(packed, lens) ==
  LET cu   == CuSeqlens(lens)
      last == {cu[i] : i \in 2 .. Len(cu)}
  IN MapSeq(LAMBDA j : packed[j + 1],
            SelectSeq(RowsOf(Len(packed)), LAMBDA j : j \notin last))

\* Mutant: the flat values are indexed by the unshifted lengths.
MutShifted(lens) == CuSeqlens(lens)

\* shifted_cu: every sequence has one value less than it has tokens.
Shifted(lens) == CuSeqlens([i \in DOMAIN lens |-> lens[i] - 1])

\* unpack_log_probs: [B, S-1], zero where there is no value.
UnpackLogProbs(flat, lens, S) ==
  LET cu == Shifted(lens)
  IN [r \in DOMAIN lens |-> [c \in 1 .. S - 1 |->
        LET k == c - (S - lens[r])
        IN IF k >= 1 /\ cu[r] + k <= Len(flat) THEN flat[cu[r] + k] ELSE Padding]]

=============================================================================

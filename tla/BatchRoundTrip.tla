--------------------------- MODULE BatchRoundTrip ---------------------------
(***************************************************************************)
(* The operators of Batching, on every batch of up to MaxRows rows.        *)
(***************************************************************************)
EXTENDS Batching

CONSTANTS
  RowLengths,    \* token counts a row may have
  MaxRows,       \* bound on the rows of a batch
  Groups,        \* numbers of data-parallel groups considered
  Budgets        \* values of max_token_len_per_gpu considered

ASSUME BatchAssumption ==
  /\ RowLengths \subseteq Nat \ {0} /\ MaxRows \in Nat
  /\ Groups \subseteq Nat \ {0} /\ Budgets \subseteq Int

Topologies ==
  {[dp |-> d, peers |-> p, layout |-> l] :
      d \in Groups, p \in 1 .. 2, l \in {"inner", "outer"}}

VARIABLES lens, topo, budget
vars == <<lens, topo, budget>>

Init == lens = <<>> /\ topo \in Topologies /\ budget \in Budgets

\* One more row.
Grow(l) == /\ Len(lens) < MaxRows
           /\ lens' = Append(lens, l)
           /\ UNCHANGED <<topo, budget>>

Next == \E l \in RowLengths : Grow(l)
Spec == Init /\ [][Next]_vars

rows   == RowsOf(Len(lens))
width  == FoldLeft(LAMBDA a, x : IF x > a THEN x ELSE a, 1, lens) + 1

-----------------------------------------------------------------------------
(* Properties *)

\* A batch dispatched to the workers by data-parallel rank and collected through
\* the mask comes back with every row once and in its place, whatever the layout
\* of the peers and also when the rows do not divide evenly; the validation
\* path, which pads first and unpads last, agrees (dispatch_and_call).
DispatchRoundTrip ==
  LET padded == PadToDivisor(rows, topo.dp)
  IN /\ CollectWithMask(DispatchDpRanks(rows, topo), topo) = rows
     /\ Unpad(CollectWithMask(DispatchDpRanks(padded, topo), topo), PadSize(rows, topo.dp)) = rows

\* The chunks cut the batch without reordering or losing a row; a chunk of more
\* than one row stays within the budget; no chunk could have taken the first
\* row of the next one (_compute_log_probs_for_model, _dynamic_mini_batches).
ChunksFillBudget ==
  LET chunks == GreedyChunks(rows, lens, budget)
  IN /\ Merge(chunks) = rows
     /\ \A i \in DOMAIN chunks :
          /\ chunks[i] # <<>>
          /\ Len(chunks[i]) > 1 => Tokens(lens, chunks[i]) <= budget
          /\ i < Len(chunks) => Tokens(lens, chunks[i]) + lens[chunks[i + 1][1]] > budget

\* Karmarkar-Karp puts every row in exactly one part, leaves no part empty (the
\* function asserts both), and the heaviest and the lightest part differ by at
\* most the heaviest row.
PartitionsBalanced ==
  LET work  == MapSeq(Workload, lens)
      parts == BalancedPartitions(work, topo.dp)
      load  == MapSeq(LAMBDA p : Tokens(work, p), parts)
  IN Len(lens) >= topo.dp =>
       /\ IsInjective(Merge(parts)) /\ ToSet(Merge(parts)) = ToSet(rows)
       /\ \A i, j \in DOMAIN parts :
            /\ parts[i] # <<>>
            /\ \E r \in ToSet(rows) : load[i] - load[j] <= work[r]

\* The reordered batch is cut by split exactly at the bins' borders, so every
\* worker trains on the bin that was balanced for it and on no other row
\* (_balance_rows_across_workers followed by split).
WorkersGetTheirBin ==
  LET n == topo.dp
  IN n > 1 /\ Len(lens) >= n /\ Len(lens) % n = 0
       => Split(BalanceRows(rows, lens, n), n) = BalancedBins(rows, lens, n)

\* Packed and unpacked again, column c of a row holds the log-prob of the token
\* in column c + 1 if both are tokens of the row, and zero elsewhere: the
\* alignment the importance ratio relies on.
PackRoundTrip ==
  LET ids == LeftPadded(lens, width)
      out == UnpackLogProbs(PackedTokenLogProbs(PackSequences(ids, lens), lens), lens, width)
  IN out = [r \in DOMAIN lens |-> [c \in 1 .. width - 1 |->
              IF ids[r][c] # Padding THEN ids[r][c + 1] ELSE Padding]]

=============================================================================

--------------------------- MODULE MCShmPipeline ---------------------------
EXTENDS ShmPipeline

\* Every rank has as many micro-batches in every step.
MCEven == {[s \in Steps |-> 2 * WorldSize]}

\* One micro-batch more in the last step, or not.
MCUneven ==
  {[s \in Steps |-> WorldSize],
   [s \in Steps |-> IF s = Total - 1 THEN WorldSize + 1 ELSE WorldSize]}
=============================================================================

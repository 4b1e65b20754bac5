-------------------------- MODULE MCRdmaBroadcast --------------------------
EXTENDS RdmaBroadcast

\* Up to three tensors of 0, 1 or 3 bytes (a tensor may have no elements), buckets
\* smaller and larger than one tensor.
MCJobs ==
  [weights : UNION {[1 .. n -> {0, 1, 3}] : n \in 0 .. 3}, bucketBytes : {2, 4},
   covers : BOOLEAN, verify : BOOLEAN]
=============================================================================

------------------------ MODULE MCBucketedTransfer ------------------------
EXTENDS BucketedTransfer

\* Up to 4 weights of 0 to 3 bytes, or of one element of a two-byte dtype.
Items == {[bytes |-> b, item |-> 1] : b \in 0 .. 3} \cup {[bytes |-> 2, item |-> 2]}
MCLists == UNION {[1 .. k -> Items] : k \in 0 .. 4}

\* Two slots of 2 bytes over CUDA IPC (vLLM); one slot of 2 bytes (ATOM); two
\* slots of 3 bytes in shared memory with the debug timeout.
Config(bytes, double, shm, debug) ==
  [bytes |-> bytes, doubleBuffer |-> double, useShm |-> shm, debugTimeout |-> debug]
MCConfigs ==
  {Config(5, TRUE, FALSE, FALSE), Config(2, FALSE, FALSE, FALSE), Config(6, TRUE, TRUE, TRUE)}
=============================================================================

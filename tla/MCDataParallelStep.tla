-------------------------- MODULE MCDataParallelStep --------------------------
(* Instances of DataParallelStep for TLC. *)
EXTENDS DataParallelStep

\* Up to three rows with 0 to 2 response tokens, four rows with 1 or 2.
Batches == UNION {[1 .. n -> 0 .. 2] : n \in 1 .. 3} \union [1 .. 4 -> 1 .. 2]

Job(path, resp, maxTok, micro, g, checked, balance, epochs) ==
  [path |-> path, resp |-> resp, maxTok |-> maxTok, micro |-> micro, g |-> g,
   checked |-> checked, balance |-> balance, epochs |-> epochs]

AllJobs ==
  {Job("torchrun", resp, maxTok, 2, g, c, b, e) :
     resp \in Batches, maxTok \in {0, 3, 4}, g \in 1 .. 2, c \in BOOLEAN, b \in BOOLEAN, e \in 1 .. 2}
  \union
  {Job("ray", resp, maxTok, 1, g, TRUE, FALSE, 1) :
     resp \in Batches, maxTok \in {0, 3, 4}, g \in 1 .. 2}
MCJobs == {j \in AllJobs : Len(j.resp) % j.g = 0 /\ (j.path = "torchrun" /\ j.g = 1 => ~j.checked)}
===============================================================================

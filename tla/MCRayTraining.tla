--------------------------- MODULE MCRayTraining ---------------------------
EXTENDS RayTraining

\* Every backend with and without sleep, validation, filtering and resuming;
\* one request (only the first replica is busy) or enough for both.
MCJobs ==
  {j \in [backend : Backends, sleep : BOOLEAN, sync : BOOLEAN, filter : BOOLEAN,
          valSteps : 0 .. 2, requests : 1 .. 2, start : 0 .. 1] : j.sync \/ j.sleep}
=============================================================================

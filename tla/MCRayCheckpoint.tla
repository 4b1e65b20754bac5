-------------------------- MODULE MCRayCheckpoint --------------------------
EXTENDS RayCheckpoint

CONSTANTS head, trainer, other

Place(c, ranks) == [controller |-> c, rank |-> ranks]

\* Two ranks on the controller's node, saving one after the other, or each on a
\* training node of its own.
MCPlacements ==
  {Place(head, [r \in Ranks |-> head]),
   Place(head, [r \in Ranks |-> IF r = 0 THEN trainer ELSE other])}

MCNodes == {head, trainer, other}
=============================================================================

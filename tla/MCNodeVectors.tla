----------------------------- MODULE MCNodeVectors -----------------------------
(***************************************************************************)
(* The instance of NodeVectors that TLC checks.                            *)
(***************************************************************************)
EXTENDS NodeVectors

\* Node 3 is not part of the world.
MCNodeInputs == {1, 2, 3}

MCInitialNodes ==
  1 :> [position |-> 0, velocity |-> 1] @@ 2 :> [position |-> 5, velocity |-> 0]

\* The least and the largest time, so that an elapsed time may overflow, and
\* two in between.
MCQueryTimes == {MinCount, 0, 2, MaxCount}

MCVelocities == {2}
===============================================================================

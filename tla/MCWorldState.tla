----------------------------- MODULE MCWorldState -----------------------------
(***************************************************************************)
(* The instance of WorldState that TLC checks.                             *)
(***************************************************************************)
EXTENDS WorldState, TLC

MCOneNode == 1 :> [position |-> 0, velocity |-> 1]
===============================================================================

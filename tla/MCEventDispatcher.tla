-------------------------- MODULE MCEventDispatcher --------------------------
(***************************************************************************)
(* The instances of EventDispatcher that TLC checks.                       *)
(***************************************************************************)
EXTENDS EventDispatcher

\* An invalid phase and three of the six: one before, one between, one last.
MCPhaseInputs == {5, kSessionFinalize, kSignalArrival, kCycleClose}
===============================================================================

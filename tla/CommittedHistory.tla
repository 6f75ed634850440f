--------------------------- MODULE CommittedHistory ---------------------------
(***************************************************************************)
(* What the store of world snapshots promises: an append-only history in   *)
(* which versions count up one by one, time does not run back, and each    *)
(* planning cycle commits at most once, in order.                          *)
(***************************************************************************)
EXTENDS Integers

CONSTANT NoCycle     \* no cycle has been committed yet

VARIABLES version, committedAt, lastCycle

vars == <<version, committedAt, lastCycle>>

Init == version \in Nat /\ committedAt \in Int /\ lastCycle = NoCycle

Commit ==
  /\ version' = version + 1
  /\ committedAt' \in Int /\ committedAt' >= committedAt
  /\ lastCycle' \in Nat
  /\ lastCycle # NoCycle => lastCycle' > lastCycle

Spec == Init /\ [][Commit]_vars
===============================================================================

---------------------------- MODULE WorldStateStore ----------------------------
(***************************************************************************)
(* WorldStateStore and CommitService::CommitCycle: the committed snapshot  *)
(* and the checks a DeltaSet must pass to replace it.                      *)
(***************************************************************************)
EXTENDS Motion

CONSTANTS
  MaxVersion,    \* numeric_limits<uint64_t>::max(), scaled down
  NoCycle        \* an empty optional<PlanningCycleId>

VARIABLES currentSnapshot, lastCommittedCycle

\* Mutant: the DeltaSet may start from an older snapshot.
MayCommitStale(expectedVersion, d) ==
  /\ expectedVersion = currentSnapshot.version
  /\ d.effectiveAt >= currentSnapshot.committedAt
  /\ currentSnapshot.version # MaxVersion
  /\ lastCommittedCycle # NoCycle => d.cycleId > lastCommittedCycle
  /\ DOMAIN d.nodes = DOMAIN currentSnapshot.nodes

\* Mutant: the largest version is incremented.
MayCommitPastMax(expectedVersion, d) ==
  /\ expectedVersion = currentSnapshot.version
  /\ d.baseVersion = expectedVersion
  /\ d.effectiveAt >= currentSnapshot.committedAt
  /\ lastCommittedCycle # NoCycle => d.cycleId > lastCommittedCycle
  /\ DOMAIN d.nodes = DOMAIN currentSnapshot.nodes

\* Mutant: a planning cycle may be committed twice.
MayCommitRepeated(expectedVersion, d) ==
  /\ expectedVersion = currentSnapshot.version
  /\ d.baseVersion = expectedVersion
  /\ d.effectiveAt >= currentSnapshot.committedAt
  /\ currentSnapshot.version # MaxVersion
  /\ lastCommittedCycle # NoCycle => d.cycleId >= lastCommittedCycle
  /\ DOMAIN d.nodes = DOMAIN currentSnapshot.nodes

\* The checks of CommitCycle, in the order the code makes them.
MayCommit(expectedVersion, d) ==
  /\ expectedVersion = currentSnapshot.version
  /\ d.baseVersion = expectedVersion
  /\ d.effectiveAt >= currentSnapshot.committedAt
  /\ currentSnapshot.version # MaxVersion
  /\ lastCommittedCycle # NoCycle => d.cycleId > lastCommittedCycle
  /\ DOMAIN d.nodes = DOMAIN currentSnapshot.nodes

CommitSnapshot(d) ==
  /\ currentSnapshot' = [version     |-> currentSnapshot.version + 1,
                         committedAt |-> d.effectiveAt,
                         nodes       |-> d.nodes]
  /\ lastCommittedCycle' = d.cycleId
===============================================================================

------------------------------ MODULE WorldState ------------------------------
(***************************************************************************)
(* The committed world and the working states of planning cycles:          *)
(* WorldStateStore and CommitService, with any number of CycleWorkingState *)
(* values that their owners update, finalize and commit in any order.      *)
(*                                                                         *)
(* Nothing but the version check of CommitCycle keeps two cycles that      *)
(* started from the same snapshot from overwriting each other.             *)
(***************************************************************************)
EXTENDS WorldStateStore, FiniteSets

CONSTANTS
  Owners,        \* who holds a working state
  NodeInputs,    \* the node ids a caller names, known to the world or not
  InitialNodes,  \* node -> its state in the first snapshot
  Velocities,    \* the velocities a caller sets
  QueryTimes,    \* the times a caller names
  CycleIds,      \* the PlanningCycleIds a caller names
  FirstVersion,  \* the version of the first snapshot
  MaxChanges,    \* velocity changes per working state; bounds the model
  NoWorking,     \* an owner that holds no working state
  NoDelta        \* an owner that holds no DeltaSet

ASSUME WorldAssumption ==
  /\ QueryTimes \subseteq Counts
  /\ Velocities \subseteq Int
  /\ CycleIds \subseteq Nat
  /\ NoCycle \notin Nat
  /\ FirstVersion \in Nat /\ MaxVersion \in Nat /\ FirstVersion <= MaxVersion
  /\ InitialNodes \in [DOMAIN InitialNodes -> NodeState]

VARIABLES
  working,       \* owner -> its CycleWorkingState
  delta,         \* owner -> the DeltaSet it finalized last
  deltaBase,     \* history: owner -> the snapshot that delta started from
  changes,       \* history: owner -> the velocity changes it accepted
  commits        \* history: the snapshots every commit started from, found
                 \* and left

storeVars == <<currentSnapshot, lastCommittedCycle, commits>>
deltaVars == <<delta, deltaBase>>
vars == <<storeVars, deltaVars, working, changes>>

History == INSTANCE CommittedHistory WITH
             version     <- currentSnapshot.version,
             committedAt <- currentSnapshot.committedAt,
             lastCycle   <- lastCommittedCycle

Init ==
  /\ \E t \in QueryTimes :
       currentSnapshot = [version |-> FirstVersion, committedAt |-> t,
                          nodes |-> InitialNodes]
  /\ lastCommittedCycle = NoCycle
  /\ working = [o \in Owners |-> NoWorking]
  /\ delta = [o \in Owners |-> NoDelta]
  /\ deltaBase = [o \in Owners |-> NoDelta]
  /\ changes = [o \in Owners |-> {}]
  /\ commits = {}

\* CycleWorkingState::Create copies the snapshot that is current now.
Create(o, cycleId, t) ==
  /\ t >= currentSnapshot.committedAt
  /\ working' = [working EXCEPT ![o] =
                   [base      |-> currentSnapshot,
                    cycleId   |-> cycleId,
                    startedAt |-> t,
                    overlays  |-> [n \in {} |-> 0]]]
  /\ changes' = [changes EXCEPT ![o] = {}]
  /\ UNCHANGED <<storeVars, deltaVars>>

ChangeVelocity(o, node, velocity, t) ==
  /\ working[o] # NoWorking
  /\ ProjectNodeState(working[o], node, t) # NoState
  /\ Cardinality(changes[o]) < MaxChanges
  /\ working' = [working EXCEPT ![o] = UpdateVelocity(@, node, velocity, t)]
  /\ changes' = [changes EXCEPT ![o] = @ \cup
                   {[index |-> Cardinality(@), node |-> node,
                     velocity |-> velocity, at |-> t]}]
  /\ UNCHANGED <<storeVars, deltaVars>>

Finalize(o, t) ==
  /\ working[o] # NoWorking
  /\ MayFinalize(working[o], t)
  /\ delta' = [delta EXCEPT ![o] = FinalizeDeltaSet(working[o], t)]
  /\ deltaBase' = [deltaBase EXCEPT ![o] = working[o].base]
  /\ UNCHANGED <<storeVars, working, changes>>

CommitCycle(o, expectedVersion) ==
  /\ delta[o] # NoDelta
  /\ MayCommit(expectedVersion, delta[o])
  /\ CommitSnapshot(delta[o])
  /\ commits' = commits \cup {[base |-> deltaBase[o], from |-> currentSnapshot,
                               to |-> currentSnapshot']}
  /\ UNCHANGED <<working, deltaVars, changes>>

Next ==
  \E o \in Owners :
    \/ \E c \in CycleIds, t \in QueryTimes : Create(o, c, t)
    \/ \E n \in NodeInputs, v \in Velocities, t \in QueryTimes :
         ChangeVelocity(o, n, v, t)
    \/ \E t \in QueryTimes : Finalize(o, t)
    \/ \E v \in FirstVersion .. MaxVersion : CommitCycle(o, v)

Spec == Init /\ [][Next]_vars

(***************************************************************************)
(* Properties.                                                             *)
(***************************************************************************)
Snapshot == [version : FirstVersion .. MaxVersion, committedAt : Counts,
             nodes : [DOMAIN InitialNodes -> NodeState]]

DeltaSet == [cycleId : CycleIds, baseVersion : FirstVersion .. MaxVersion,
             effectiveAt : Counts, nodes : [DOMAIN InitialNodes -> NodeState]]

WorkingState(w) ==
  /\ DOMAIN w = {"base", "cycleId", "startedAt", "overlays"}
  /\ w.base \in Snapshot /\ w.cycleId \in CycleIds /\ w.startedAt \in Counts
  /\ DOMAIN w.overlays \subseteq DOMAIN InitialNodes
  /\ \A n \in DOMAIN w.overlays :
       w.overlays[n] \in [state : NodeState, anchor : Counts]

\* The type of every variable; a commit never changes the set of nodes.
TypeOK ==
  /\ currentSnapshot \in Snapshot
  /\ lastCommittedCycle \in CycleIds \cup {NoCycle}
  /\ \A o \in Owners : working[o] # NoWorking => WorkingState(working[o])
  /\ \A o \in Owners : delta[o] # NoDelta => delta[o] \in DeltaSet

\* No lost update: whatever the owners do, every committed snapshot was
\* derived from the very snapshot it replaces, so of two working states with
\* the same base at most one is ever committed.
NoLostUpdate == \A c \in commits : c.base = c.from

\* The store is a linear history: versions without gaps up to the largest
\* one, times that never run back, strictly increasing planning cycles.
ImplementsHistory == History!Spec

Latest(accepted) ==
  CHOOSE c \in accepted : \A d \in accepted : d.index <= c.index

\* The velocity a node has at time u, when these changes have been accepted
\* since the base snapshot.
VelocityAt(base, accepted, n, u) ==
  LET effective == {c \in accepted : c.node = n /\ c.at <= u}
  IN  IF effective = {} THEN base.nodes[n].velocity
                        ELSE Latest(effective).velocity

\* The sum of v[0], v[1] and so on, up to and without v[k], for every k.
Sums(v) ==
  LET sum[k \in Nat] == IF k = 0 THEN 0 ELSE sum[k - 1] + v[k - 1]
  IN  sum

\* The way it covers since the base snapshot, one unit of time at a time.
Travelled(base, accepted, n, t) ==
  Sums([k \in Nat |-> VelocityAt(base, accepted, n, base.committedAt + k)])
    [t - base.committedAt]

\* A projected position is where the node really is: the path its velocity
\* describes since the snapshot, however often and whenever the velocity
\* changed on the way.  Re-anchoring neither loses nor repeats a stretch.
ProjectionIsTrajectory ==
  \A o \in Owners : working[o] # NoWorking =>
    \A n \in DOMAIN InitialNodes, t \in QueryTimes :
      LET state == ProjectNodeState(working[o], n, t)
          base  == working[o].base
      IN  state # NoState =>
            /\ state.position = base.nodes[n].position
                                 + Travelled(base, changes[o], n, t)
            /\ state.velocity = VelocityAt(base, changes[o], n, t)
===============================================================================

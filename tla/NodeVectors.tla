------------------------------ MODULE NodeVectors ------------------------------
(***************************************************************************)
(* The committed world as the code keeps it.  WorldState takes the nodes   *)
(* of a snapshot, the overlays of a working state and the replacements of  *)
(* a DeltaSet for maps from NodeIds.  They are vectors: sorted when a      *)
(* snapshot is created, searched by bisection, grown by an insertion, and  *)
(* the replacements are compared with the snapshot position by position.   *)
(* This module is WorldState with the vectors, and implements it.          *)
(***************************************************************************)
EXTENDS WorldStateStore, SortedVectors, TLC

CONSTANTS
  Owners, NodeInputs, InitialNodes, Velocities, QueryTimes, CycleIds,
  FirstVersion, MaxChanges, NoWorking, NoDelta,   \* see WorldState
  NoVector   \* the error of WorldSnapshot::Create

ASSUME VectorAssumption ==
  /\ QueryTimes \subseteq Counts
  /\ Velocities \subseteq Int
  /\ CycleIds \subseteq Nat
  /\ NoCycle \notin Nat
  /\ FirstVersion \in Nat /\ MaxVersion \in Nat /\ FirstVersion <= MaxVersion
  /\ InitialNodes \in [DOMAIN InitialNodes -> NodeState]
  /\ IsFiniteSet(DOMAIN InitialNodes)
  /\ DOMAIN InitialNodes \cup NodeInputs \subseteq Nat

VARIABLES working, delta, deltaBase, changes, commits   \* see WorldState

storeVars == <<currentSnapshot, lastCommittedCycle, commits>>
deltaVars == <<delta, deltaBase>>
vars == <<storeVars, deltaVars, working, changes>>

(***************************************************************************)
(* Vectors of [node, state], or of [node, state, anchor].                  *)
(***************************************************************************)
Position(vector, node) == LowerBound(vector, LAMBDA e : e.node < node)

\* WorldSnapshot::FindNode, FindOverlay and the search of StateProjector.
Finds(vector, node) ==
  LET i == Position(vector, node)
  IN  i <= Len(vector) /\ vector[i].node = node

Found(vector, node) == vector[Position(vector, node)]

\* Mutant: a new overlay goes to the end.
WithOverlayLast(overlays, e) ==
  IF Finds(overlays, e.node)
    THEN [overlays EXCEPT ![Position(overlays, e.node)] = e]
    ELSE Append(overlays, e)

WithOverlay(overlays, e) ==
  IF Finds(overlays, e.node)
    THEN [overlays EXCEPT ![Position(overlays, e.node)] = e]
    ELSE InsertAt(overlays, Position(overlays, e.node), e)

\* std::sort by NodeId.
SortedById(given) ==
  LET order == CHOOSE p \in Bijection(DOMAIN given, DOMAIN given) :
                 \A i, j \in DOMAIN given :
                   i < j => given[p[i]].node <= given[p[j]].node
  IN  [i \in DOMAIN given |-> given[order[i]]]

\* WorldSnapshot::Create: sorted, then searched for two neighbours alike.
SnapshotNodes(given) ==
  LET sorted == SortedById(given)
  IN  IF \E i \in 2 .. Len(sorted) : sorted[i - 1].node = sorted[i].node
        THEN NoVector
        ELSE sorted

\* Mutant: the NodeIds are not compared.
IsAsLong(nodes, replacements) == Len(replacements) = Len(nodes)

\* CommitService::ValidateFullReplacement.
IsFullReplacement(nodes, replacements) ==
  /\ \A i \in 2 .. Len(replacements) :
       replacements[i - 1].node < replacements[i].node
  /\ Len(replacements) = Len(nodes)
  /\ \A i \in DOMAIN nodes : replacements[i].node = nodes[i].node

(***************************************************************************)
(* The working state.                                                      *)
(***************************************************************************)
Projected(w, node, t) ==
  IF ~Finds(w.base.nodes, node)
    THEN NoState
    ELSE IF Finds(w.overlays, node)
           THEN LET e == Found(w.overlays, node)
                IN  ProjectFromAnchor(e.state, e.anchor, t)
           ELSE ProjectFromAnchor(Found(w.base.nodes, node).state,
                                  w.base.committedAt, t)

NodeStateAt(w, node, t) ==
  IF t < w.startedAt THEN NoState ELSE Projected(w, node, t)

\* Mutant: the change of velocity counts from the start of the cycle.
OverlayFromStart(w, node, velocity, t) ==
  [node |-> node, anchor |-> w.startedAt,
   state |-> [NodeStateAt(w, node, t) EXCEPT !.velocity = velocity]]

Overlay(w, node, velocity, t) ==
  [node |-> node, anchor |-> t,
   state |-> [NodeStateAt(w, node, t) EXCEPT !.velocity = velocity]]

Replacements(w, t) ==
  [i \in DOMAIN w.base.nodes |->
     LET n == w.base.nodes[i].node
     IN  [node |-> n, state |-> Projected(w, n, t)]]

(***************************************************************************)
(* The operations.                                                         *)
(***************************************************************************)
InitialEntries == {[node |-> n, state |-> InitialNodes[n]] :
                     n \in DOMAIN InitialNodes}

\* The program lists the nodes of the first snapshot in any order.
Init ==
  /\ \E t \in QueryTimes, given \in SetToSeqs(InitialEntries) :
       currentSnapshot = [version |-> FirstVersion, committedAt |-> t,
                          nodes |-> SnapshotNodes(given)]
  /\ lastCommittedCycle = NoCycle
  /\ working = [o \in Owners |-> NoWorking]
  /\ delta = [o \in Owners |-> NoDelta]
  /\ deltaBase = [o \in Owners |-> NoDelta]
  /\ changes = [o \in Owners |-> {}]
  /\ commits = {}

Create(o, cycleId, t) ==
  /\ t >= currentSnapshot.committedAt
  /\ working' = [working EXCEPT ![o] =
                   [base |-> currentSnapshot, cycleId |-> cycleId,
                    startedAt |-> t, overlays |-> <<>>]]
  /\ changes' = [changes EXCEPT ![o] = {}]
  /\ UNCHANGED <<storeVars, deltaVars>>

ChangeVelocity(o, node, velocity, t) ==
  /\ working[o] # NoWorking
  /\ NodeStateAt(working[o], node, t) # NoState
  /\ Cardinality(changes[o]) < MaxChanges
  /\ working' = [working EXCEPT ![o].overlays =
                   WithOverlay(@, Overlay(working[o], node, velocity, t))]
  /\ changes' = [changes EXCEPT ![o] = @ \cup
                   {[index |-> Cardinality(@), node |-> node,
                     velocity |-> velocity, at |-> t]}]
  /\ UNCHANGED <<storeVars, deltaVars>>

Finalize(o, t) ==
  /\ working[o] # NoWorking
  /\ t >= working[o].startedAt
  /\ LET w == working[o]
     IN  /\ \A i \in DOMAIN w.base.nodes : Replacements(w, t)[i].state # NoState
         /\ delta' = [delta EXCEPT ![o] =
                        [cycleId |-> w.cycleId, baseVersion |-> w.base.version,
                         effectiveAt |-> t, nodes |-> Replacements(w, t)]]
         /\ deltaBase' = [deltaBase EXCEPT ![o] = w.base]
  /\ UNCHANGED <<storeVars, working, changes>>

\* A replacement that names another node.
For(n, replacement) == [replacement EXCEPT !.node = n]

\* A DeltaSet is a plain struct: what a caller may have done to the order, the
\* length and the ids of the list of its replacements before it is committed.
\* The states stay those that were finalized: CommitService cannot tell them.
Submitted(replacements) ==
  {replacements, Reverse(replacements), Front(replacements)}
    \cup {Append(replacements, For(n, Last(replacements))) : n \in NodeInputs}
    \cup {[replacements EXCEPT ![i] = For(n, @)] :
            i \in DOMAIN replacements, n \in NodeInputs}

\* MayCommit compares the domains of the two vectors, which is their size.
CommitCycle(o, expectedVersion, submitted) ==
  LET d     == [delta[o] EXCEPT !.nodes = submitted]
      nodes == SnapshotNodes(submitted)
  IN  /\ IsFullReplacement(currentSnapshot.nodes, submitted)
      /\ MayCommit(expectedVersion, d)
      /\ nodes # NoVector
      /\ CommitSnapshot([d EXCEPT !.nodes = nodes])
      /\ commits' = commits \cup {[base |-> deltaBase[o],
                                   from |-> currentSnapshot,
                                   to |-> currentSnapshot']}
      /\ UNCHANGED <<working, deltaVars, changes>>

Next ==
  \E o \in Owners :
    \/ \E c \in CycleIds, t \in QueryTimes : Create(o, c, t)
    \/ \E n \in NodeInputs, v \in Velocities, t \in QueryTimes :
         ChangeVelocity(o, n, v, t)
    \/ \E t \in QueryTimes : Finalize(o, t)
    \/ /\ delta[o] # NoDelta
       /\ \E v \in FirstVersion .. MaxVersion,
             s \in Submitted(delta[o].nodes) : CommitCycle(o, v, s)

Spec == Init /\ [][Next]_vars

(***************************************************************************)
(* The maps the vectors stand for.                                         *)
(***************************************************************************)
Nodes(vector) == {e.node : e \in Range(vector)}

TheEntry(vector, n) == CHOOSE e \in Range(vector) : e.node = n

Mapped(vector) == [n \in Nodes(vector) |-> TheEntry(vector, n).state]

MappedSnapshot(s) == [s EXCEPT !.nodes = Mapped(@)]

MappedWorking(w) ==
  [w EXCEPT !.base = MappedSnapshot(@),
            !.overlays = [n \in Nodes(@) |->
                            [state |-> TheEntry(@, n).state,
                             anchor |-> TheEntry(@, n).anchor]]]

World == INSTANCE WorldState WITH
  currentSnapshot <- MappedSnapshot(currentSnapshot),
  working   <- [o \in Owners |-> IF working[o] = NoWorking THEN NoWorking
                                 ELSE MappedWorking(working[o])],
  delta     <- [o \in Owners |-> IF delta[o] = NoDelta THEN NoDelta
                                 ELSE MappedSnapshot(delta[o])],
  deltaBase <- [o \in Owners |-> IF deltaBase[o] = NoDelta THEN NoDelta
                                 ELSE MappedSnapshot(deltaBase[o])],
  commits   <- {[base |-> MappedSnapshot(c.base),
                 from |-> MappedSnapshot(c.from),
                 to   |-> MappedSnapshot(c.to)] : c \in commits}

(***************************************************************************)
(* The markers of an owner that holds nothing are no working state and no  *)
(* snapshot, neither as vectors nor as maps.                               *)
(***************************************************************************)
NodeEntry == [node : Nat, state : NodeState]
OverlayEntry == [node : Nat, anchor : Counts, state : NodeState]

VectorSnapshot ==
  [version : FirstVersion .. MaxVersion, committedAt : Counts,
   nodes : Seq(NodeEntry)]

VectorDelta ==
  [cycleId : CycleIds, baseVersion : FirstVersion .. MaxVersion,
   effectiveAt : Counts, nodes : Seq(NodeEntry)]

WorkingStates(Snapshots, Overlays) ==
  [base : Snapshots, cycleId : CycleIds, startedAt : Counts,
   overlays : Overlays]

OverlayMaps ==
  UNION {[S -> [state : NodeState, anchor : Counts]] :
           S \in SUBSET DOMAIN InitialNodes}

ASSUME MarkerAssumption ==
  /\ NoWorking \notin WorkingStates(VectorSnapshot, Seq(OverlayEntry))
  /\ NoWorking \notin WorkingStates(World!Snapshot, OverlayMaps)
  /\ NoDelta \notin VectorSnapshot \cup VectorDelta
  /\ NoDelta \notin World!Snapshot \cup World!DeltaSet

(***************************************************************************)
(* Properties.                                                             *)
(***************************************************************************)

\* The types of WorldState, and every vector lists its nodes once and in the
\* order of their ids, which is what the bisections rely on.
TypeOK ==
  /\ World!TypeOK
  /\ LET ById(d, e) == d.node < e.node
     IN  /\ IsSortedBy(currentSnapshot.nodes, ById)
         /\ \A o \in Owners : working[o] # NoWorking =>
              /\ IsSortedBy(working[o].base.nodes, ById)
              /\ IsSortedBy(working[o].overlays, ById)

\* Bisection finds what a map would: whatever the order in which the nodes
\* were listed and changed their velocities, every node is projected from its
\* own latest change, and a node that is not in the world from none.
LookupsAgree ==
  \A o \in Owners : working[o] # NoWorking =>
    \A n \in NodeInputs, t \in QueryTimes :
      NodeStateAt(working[o], n, t)
        = World!ProjectNodeState(MappedWorking(working[o]), n, t)

\* A projected position is where the node really is: WorldState says so of
\* the maps that these vectors stand for.
ProjectionIsTrajectory == World!ProjectionIsTrajectory

\* The vectors implement the maps.  A list of replacements whose order, length or
\* ids a caller altered is not committed: it would give a node the state of
\* another, or none.
ImplementsWorld == World!Spec
===============================================================================

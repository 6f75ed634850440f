-------------------------------- MODULE Motion --------------------------------
(***************************************************************************)
(* The state of the nodes during one planning cycle: WorldSnapshot,        *)
(* StateProjector and CycleWorkingState.                                   *)
(*                                                                         *)
(* A node moves on a straight line from its motion anchor: the last        *)
(* velocity change of this cycle, or else the committed snapshot.  The     *)
(* three axes follow one law, so a position is one number, in units in     *)
(* which a velocity times an elapsed time is exact.  Capability and node   *)
(* id of a NodeCommittedState never change and are left out.               *)
(***************************************************************************)
EXTENDS SimTime

CONSTANT NoState   \* the error of a projection that fails

NodeState == [position : Int, velocity : Int]

(***************************************************************************)
(* A snapshot is [version, committedAt, nodes]; a working state is         *)
(* [base, cycleId, startedAt, overlays], where overlays maps the nodes     *)
(* that changed velocity to [state, anchor].                               *)
(***************************************************************************)
ProjectFromAnchor(state, anchor, t) ==
  LET elapsed == CheckedSubtractCounts(t, anchor)
  IN  IF t < anchor \/ elapsed = NoCount
        THEN NoState
        ELSE [state EXCEPT !.position = @ + state.velocity * elapsed]

\* StateProjector::ProjectNodeState.
ProjectState(w, node, t) ==
  IF node \notin DOMAIN w.base.nodes
    THEN NoState
    ELSE IF node \in DOMAIN w.overlays
           THEN ProjectFromAnchor(w.overlays[node].state,
                                  w.overlays[node].anchor, t)
           ELSE ProjectFromAnchor(w.base.nodes[node], w.base.committedAt, t)

\* CycleWorkingState::ProjectNodeState.
ProjectNodeState(w, node, t) ==
  IF t < w.startedAt THEN NoState ELSE ProjectState(w, node, t)

\* The working state after a velocity change; the node is anchored anew.
UpdateVelocity(w, node, velocity, t) ==
  LET moved == [state  |-> [ProjectNodeState(w, node, t)
                              EXCEPT !.velocity = velocity],
                anchor |-> t]
  IN  [w EXCEPT !.overlays = [n \in DOMAIN w.overlays \cup {node} |->
                                IF n = node THEN moved ELSE w.overlays[n]]]

MayFinalize(w, t) ==
  /\ t >= w.startedAt
  /\ \A n \in DOMAIN w.base.nodes : ProjectState(w, n, t) # NoState

\* Mutant: only the nodes that changed velocity are replaced.
FinalizeMovedNodes(w, t) ==
  [cycleId     |-> w.cycleId,
   baseVersion |-> w.base.version,
   effectiveAt |-> t,
   nodes       |-> [n \in DOMAIN w.overlays |-> ProjectState(w, n, t)]]

\* The DeltaSet that replaces every node of the base snapshot.
FinalizeDeltaSet(w, t) ==
  [cycleId     |-> w.cycleId,
   baseVersion |-> w.base.version,
   effectiveAt |-> t,
   nodes       |-> [n \in DOMAIN w.base.nodes |-> ProjectState(w, n, t)]]
===============================================================================

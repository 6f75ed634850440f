--------------------------- MODULE WorldStateProofs ---------------------------
(***************************************************************************)
(* Machine-checked proofs about WorldState: any number of owners, nodes,   *)
(* cycles and velocity changes, times and versions of any width.           *)
(***************************************************************************)
EXTENDS WorldState, FiniteSetTheorems, NaturalsInduction, TLAPS

(***************************************************************************)
(* A version identifies a snapshot: what started from the current version  *)
(* started from the current snapshot.                                      *)
(***************************************************************************)
StartedFrom(base) ==
  /\ base.version \in Nat /\ base.version <= currentSnapshot.version
  /\ base.version = currentSnapshot.version => base = currentSnapshot

VersionInv ==
  /\ currentSnapshot.version \in Nat
  /\ \A o \in Owners : working[o] # NoWorking => StartedFrom(working[o].base)
  /\ \A o \in Owners : delta[o] # NoDelta =>
       /\ StartedFrom(deltaBase[o])
       /\ delta[o].baseVersion = deltaBase[o].version

ShapeInv ==
  /\ working = [o \in Owners |-> working[o]]
  /\ delta = [o \in Owners |-> delta[o]]
  /\ deltaBase = [o \in Owners |-> deltaBase[o]]

IInv == ShapeInv /\ VersionInv /\ NoLostUpdate

LEMMA InitInv == Init => IInv
<1> SUFFICES ASSUME Init PROVE IInv
  OBVIOUS
<1>1. ShapeInv
  BY DEF Init, ShapeInv
<1>2. VersionInv
  BY WorldAssumption DEF Init, VersionInv
<1>3. NoLostUpdate
  BY DEF Init, NoLostUpdate
<1> QED
  BY <1>1, <1>2, <1>3 DEF IInv

LEMMA CreateInv ==
  ASSUME IInv, NEW o \in Owners, NEW c \in CycleIds, NEW t \in QueryTimes,
         Create(o, c, t)
  PROVE  IInv'
<1> USE DEF Create, storeVars, deltaVars
<1> DEFINE w == [base |-> currentSnapshot, cycleId |-> c, startedAt |-> t,
                 overlays |-> [n \in {} |-> 0]]
<1>1. working' = [working EXCEPT ![o] = w] /\ w.base = currentSnapshot
  OBVIOUS
<1> HIDE DEF w
<1>2. ShapeInv'
  BY <1>1 DEF IInv, ShapeInv
<1>3. \A p \in Owners : working'[p] = IF p = o THEN w ELSE working[p]
  BY <1>1 DEF IInv, ShapeInv
<1>4. UNCHANGED <<currentSnapshot, delta, deltaBase, commits>>
  OBVIOUS
<1>5. VersionInv'
  BY <1>1, <1>3, <1>4 DEF IInv, VersionInv, StartedFrom
<1> QED
  BY <1>2, <1>4, <1>5 DEF IInv, NoLostUpdate

\* A velocity change keeps the snapshot the working state started from.
LEMMA ChangeVelocityInv ==
  ASSUME IInv, NEW o \in Owners, NEW n, NEW v, NEW t,
         ChangeVelocity(o, n, v, t)
  PROVE  IInv'
<1> DEFINE w == UpdateVelocity(working[o], n, v, t)
<1>1. /\ working' = [working EXCEPT ![o] = w] /\ working[o] # NoWorking
      /\ UNCHANGED <<currentSnapshot, delta, deltaBase, commits>>
  BY DEF ChangeVelocity, storeVars, deltaVars
<1>2. w.base = working[o].base
  BY DEF UpdateVelocity
<1> HIDE DEF w
<1>3. ShapeInv'
  BY <1>1 DEF IInv, ShapeInv
<1>4. \A p \in Owners : working'[p] = IF p = o THEN w ELSE working[p]
  BY <1>1 DEF IInv, ShapeInv
<1>5. VersionInv'
  BY <1>1, <1>2, <1>4 DEF IInv, VersionInv, StartedFrom
<1> QED
  BY <1>1, <1>3, <1>5 DEF IInv, NoLostUpdate

\* A DeltaSet carries the version of the snapshot its working state started
\* from.
LEMMA FinalizeInv ==
  ASSUME IInv, NEW o \in Owners, NEW t, Finalize(o, t)
  PROVE  IInv'
<1> DEFINE d == FinalizeDeltaSet(working[o], t)
           base == working[o].base
<1>1. /\ delta' = [delta EXCEPT ![o] = d]
      /\ deltaBase' = [deltaBase EXCEPT ![o] = base]
      /\ working[o] # NoWorking
      /\ UNCHANGED <<currentSnapshot, commits, working>>
  BY DEF Finalize, storeVars
<1>2. d.baseVersion = base.version
  BY DEF FinalizeDeltaSet
<1>3. StartedFrom(base)
  BY <1>1 DEF IInv, VersionInv
<1> HIDE DEF d, base
<1>4. ShapeInv'
  BY <1>1 DEF IInv, ShapeInv
<1>5. \A p \in Owners : /\ delta'[p] = IF p = o THEN d ELSE delta[p]
                        /\ deltaBase'[p] = IF p = o THEN base ELSE deltaBase[p]
  BY <1>1 DEF IInv, ShapeInv
<1>6. VersionInv'
  BY <1>1, <1>2, <1>3, <1>5 DEF IInv, VersionInv, StartedFrom
<1> QED
  BY <1>1, <1>4, <1>6 DEF IInv, NoLostUpdate

\* A commit takes the version of no snapshot that anybody started from.
LEMMA CommitCycleInv ==
  ASSUME IInv, NEW o \in Owners, NEW v, CommitCycle(o, v)
  PROVE  IInv'
<1>1. /\ delta[o] # NoDelta /\ delta[o].baseVersion = currentSnapshot.version
      /\ commits' = commits \cup {[base |-> deltaBase[o],
                                   from |-> currentSnapshot,
                                   to |-> currentSnapshot']}
      /\ currentSnapshot'.version = currentSnapshot.version + 1
      /\ UNCHANGED <<working, delta, deltaBase>>
  BY DEF CommitCycle, CommitSnapshot, MayCommit, deltaVars
<1>2. deltaBase[o] = currentSnapshot
  BY <1>1 DEF IInv, VersionInv, StartedFrom
<1>3. NoLostUpdate'
  BY <1>1, <1>2 DEF IInv, NoLostUpdate
<1>4. \A b : StartedFrom(b) => StartedFrom(b)'
  BY <1>1 DEF StartedFrom, IInv, VersionInv
<1>5. VersionInv'
  BY <1>1, <1>4 DEF IInv, VersionInv
<1>6. ShapeInv'
  BY <1>1 DEF IInv, ShapeInv
<1> QED
  BY <1>3, <1>5, <1>6 DEF IInv

LEMMA NextInv == IInv /\ [Next]_vars => IInv'
<1> SUFFICES ASSUME IInv, [Next]_vars PROVE IInv'
  OBVIOUS
<1>1. CASE Next
  BY <1>1, CreateInv, ChangeVelocityInv, FinalizeInv, CommitCycleInv DEF Next
<1>2. CASE UNCHANGED vars
  BY <1>2 DEF vars, storeVars, deltaVars, IInv, ShapeInv, VersionInv,
              StartedFrom, NoLostUpdate
<1> QED
  BY <1>1, <1>2

LEMMA Inductive == Spec => []IInv
BY InitInv, NextInv, PTL DEF Spec

\* Every commit replaces the snapshot its DeltaSet was computed from: the
\* version check of CommitCycle is enough to serialize the cycles.
THEOREM NoLostUpdateTheorem == Spec => []NoLostUpdate
<1>1. IInv => NoLostUpdate
  BY DEF IInv
<1> QED
  BY <1>1, Inductive, PTL

(***************************************************************************)
(* Types: projections stay states of nodes, so every commit is one.        *)
(***************************************************************************)
LEMMA ProjectedType ==
  ASSUME NEW w, WorkingState(w), NEW n, NEW t \in Counts
  PROVE  ProjectState(w, n, t) = NoState \/ ProjectState(w, n, t) \in NodeState
<1>1. ASSUME NEW state \in NodeState, NEW anchor \in Counts
      PROVE  \/ ProjectFromAnchor(state, anchor, t) = NoState
             \/ ProjectFromAnchor(state, anchor, t) \in NodeState
  <2>1. CASE t < anchor \/ CheckedSubtractCounts(t, anchor) = NoCount
    BY <2>1 DEF ProjectFromAnchor
  <2>2. CASE ~(t < anchor) /\ CheckedSubtractCounts(t, anchor) # NoCount
    <3> DEFINE elapsed == CheckedSubtractCounts(t, anchor)
    <3>1. elapsed \in Int
      BY <2>2, WidthAssumption DEF CheckedSubtractCounts, Counts, MinCount
    <3>2. ProjectFromAnchor(state, anchor, t)
            = [state EXCEPT !.position = @ + state.velocity * elapsed]
      BY <2>2, Zenon DEF ProjectFromAnchor
    <3> HIDE DEF elapsed
    <3>3. state.position + state.velocity * elapsed \in Int
      BY <3>1 DEF NodeState
    <3> QED
      BY <3>2, <3>3 DEF NodeState
  <2> QED
    BY <2>1, <2>2
<1>2. CASE n \notin DOMAIN w.base.nodes
  BY <1>2 DEF ProjectState
<1>3. CASE n \in DOMAIN w.base.nodes /\ n \in DOMAIN w.overlays
  <2>1. w.overlays[n].state \in NodeState /\ w.overlays[n].anchor \in Counts
    BY <1>3 DEF WorkingState
  <2>2. ProjectState(w, n, t)
          = ProjectFromAnchor(w.overlays[n].state, w.overlays[n].anchor, t)
    BY <1>3 DEF ProjectState
  <2> QED
    BY <1>1, <2>1, <2>2
<1>4. CASE n \in DOMAIN w.base.nodes /\ n \notin DOMAIN w.overlays
  <2>1. w.base.nodes[n] \in NodeState /\ w.base.committedAt \in Counts
    BY <1>4 DEF WorkingState, Snapshot
  <2>2. ProjectState(w, n, t)
          = ProjectFromAnchor(w.base.nodes[n], w.base.committedAt, t)
    BY <1>4 DEF ProjectState
  <2> QED
    BY <1>1, <2>1, <2>2
<1> QED
  BY <1>2, <1>3, <1>4

LEMMA UpdatedType ==
  ASSUME NEW w, WorkingState(w), NEW n, NEW t \in Counts, NEW v \in Int,
         ProjectNodeState(w, n, t) # NoState
  PROVE  WorkingState(UpdateVelocity(w, n, v, t))
<1> DEFINE projected == ProjectNodeState(w, n, t)
           moved == [state |-> [projected EXCEPT !.velocity = v], anchor |-> t]
           overlays == [m \in DOMAIN w.overlays \cup {n} |->
                          IF m = n THEN moved ELSE w.overlays[m]]
<1>1. projected = ProjectState(w, n, t)
  BY DEF ProjectNodeState
<1>2. projected \in NodeState
  BY <1>1, ProjectedType
<1>3. n \in DOMAIN InitialNodes
  BY <1>1 DEF ProjectState, WorkingState, Snapshot
<1>4. moved \in [state : NodeState, anchor : Counts]
  BY <1>2 DEF NodeState
<1>5. UpdateVelocity(w, n, v, t) = [w EXCEPT !.overlays = overlays]
  BY DEF UpdateVelocity
<1> HIDE DEF projected, moved
<1>6. /\ DOMAIN overlays \subseteq DOMAIN InitialNodes
      /\ \A m \in DOMAIN overlays :
           overlays[m] \in [state : NodeState, anchor : Counts]
  BY <1>3, <1>4 DEF WorkingState
<1> HIDE DEF overlays
<1> QED
  BY <1>5, <1>6 DEF WorkingState

LEMMA FinalizedType ==
  ASSUME NEW w, WorkingState(w), NEW t \in Counts, MayFinalize(w, t)
  PROVE  FinalizeDeltaSet(w, t) \in DeltaSet
<1>1. DOMAIN w.base.nodes = DOMAIN InitialNodes
  BY DEF WorkingState, Snapshot
<1>2. \A n \in DOMAIN InitialNodes : ProjectState(w, n, t) \in NodeState
  BY <1>1, ProjectedType DEF MayFinalize
<1> QED
  BY <1>1, <1>2 DEF FinalizeDeltaSet, DeltaSet, WorkingState, Snapshot

\* The part of the type that depends on the owners.
OwnersOK ==
  /\ \A o \in Owners : working[o] # NoWorking => WorkingState(working[o])
  /\ \A o \in Owners : delta[o] # NoDelta => delta[o] \in DeltaSet

LEMMA InitType == Init => TypeOK
<1> SUFFICES ASSUME Init PROVE TypeOK
  OBVIOUS
<1>1. currentSnapshot \in Snapshot
  BY WorldAssumption DEF Init, Snapshot
<1>2. lastCommittedCycle = NoCycle /\ OwnersOK
  BY DEF Init, OwnersOK
<1> QED
  BY <1>1, <1>2 DEF TypeOK, OwnersOK

LEMMA CreateType ==
  ASSUME TypeOK, IInv, NEW o \in Owners, NEW c \in CycleIds,
         NEW t \in QueryTimes, Create(o, c, t)
  PROVE  TypeOK'
<1> DEFINE w == [base |-> currentSnapshot, cycleId |-> c, startedAt |-> t,
                 overlays |-> [n \in {} |-> 0]]
<1>1. WorkingState(w)
  BY WorldAssumption DEF WorkingState, TypeOK
<1>2. /\ working' = [working EXCEPT ![o] = w]
      /\ UNCHANGED <<currentSnapshot, lastCommittedCycle, delta>>
  BY DEF Create, storeVars, deltaVars
<1> HIDE DEF w
<1>3. \A p \in Owners : working'[p] = IF p = o THEN w ELSE working[p]
  BY <1>2 DEF IInv, ShapeInv
<1>4. \A p \in Owners : working'[p] # NoWorking => WorkingState(working'[p])
  BY <1>1, <1>3 DEF TypeOK
<1> QED
  BY <1>2, <1>4 DEF TypeOK, Snapshot, DeltaSet, WorkingState

LEMMA ChangeVelocityType ==
  ASSUME TypeOK, IInv, NEW o \in Owners, NEW n, NEW v \in Velocities,
         NEW t \in QueryTimes, ChangeVelocity(o, n, v, t)
  PROVE  TypeOK'
<1> DEFINE w == UpdateVelocity(working[o], n, v, t)
<1>1. /\ working' = [working EXCEPT ![o] = w] /\ working[o] # NoWorking
      /\ ProjectNodeState(working[o], n, t) # NoState
      /\ UNCHANGED <<currentSnapshot, lastCommittedCycle, delta>>
  BY DEF ChangeVelocity, storeVars, deltaVars
<1>2. v \in Int /\ t \in Counts
  BY WorldAssumption
<1>3. WorkingState(w)
  BY <1>1, <1>2, UpdatedType DEF TypeOK
<1> HIDE DEF w
<1>4. \A p \in Owners : working'[p] = IF p = o THEN w ELSE working[p]
  BY <1>1 DEF IInv, ShapeInv
<1>5. \A p \in Owners : working'[p] # NoWorking => WorkingState(working'[p])
  BY <1>3, <1>4 DEF TypeOK
<1> QED
  BY <1>1, <1>5 DEF TypeOK, Snapshot, DeltaSet, WorkingState

LEMMA FinalizeType ==
  ASSUME TypeOK, IInv, NEW o \in Owners, NEW t \in QueryTimes, Finalize(o, t)
  PROVE  TypeOK'
<1> DEFINE d == FinalizeDeltaSet(working[o], t)
<1>1. /\ delta' = [delta EXCEPT ![o] = d] /\ working[o] # NoWorking
      /\ MayFinalize(working[o], t)
      /\ UNCHANGED <<currentSnapshot, lastCommittedCycle, working>>
  BY DEF Finalize, storeVars
<1>2. d \in DeltaSet
  BY <1>1, FinalizedType, WorldAssumption DEF TypeOK
<1> HIDE DEF d
<1>3. \A p \in Owners : delta'[p] = IF p = o THEN d ELSE delta[p]
  BY <1>1 DEF IInv, ShapeInv
<1>4. \A p \in Owners : delta'[p] # NoDelta => delta'[p] \in DeltaSet
  BY <1>2, <1>3 DEF TypeOK
<1> QED
  BY <1>1, <1>4 DEF TypeOK, Snapshot, DeltaSet, WorkingState

LEMMA CommitCycleType ==
  ASSUME TypeOK, NEW o \in Owners, NEW v, CommitCycle(o, v)
  PROVE  TypeOK'
<1>1. /\ delta[o] \in DeltaSet
      /\ currentSnapshot.version # MaxVersion
      /\ UNCHANGED <<working, delta>>
      /\ currentSnapshot' = [version     |-> currentSnapshot.version + 1,
                             committedAt |-> delta[o].effectiveAt,
                             nodes       |-> delta[o].nodes]
      /\ lastCommittedCycle' = delta[o].cycleId
  BY DEF CommitCycle, CommitSnapshot, MayCommit, deltaVars, TypeOK
<1>2. currentSnapshot.version + 1 \in FirstVersion .. MaxVersion
  BY <1>1, WorldAssumption DEF TypeOK, Snapshot
<1>3. currentSnapshot' \in Snapshot /\ lastCommittedCycle' \in CycleIds
  BY <1>1, <1>2 DEF Snapshot, DeltaSet
<1> QED
  BY <1>1, <1>3 DEF TypeOK, Snapshot, DeltaSet, WorkingState

LEMMA NextType == TypeOK /\ IInv /\ [Next]_vars => TypeOK'
<1> SUFFICES ASSUME TypeOK, IInv, [Next]_vars PROVE TypeOK'
  OBVIOUS
<1>1. CASE Next
  BY <1>1, CreateType, ChangeVelocityType, FinalizeType, CommitCycleType
     DEF Next
<1>2. CASE UNCHANGED vars
  BY <1>2 DEF vars, storeVars, deltaVars, TypeOK, Snapshot, DeltaSet,
              WorkingState
<1> QED
  BY <1>1, <1>2

\* Every variable keeps its type: every commit is a snapshot of all the nodes.
THEOREM TypeCorrect == Spec => []TypeOK
BY InitType, NextType, Inductive, PTL DEF Spec

(***************************************************************************)
(* The store implements the linear history.                                *)
(***************************************************************************)
LEMMA InitHistory == Init => History!Init
<1> SUFFICES ASSUME Init PROVE History!Init
  OBVIOUS
<1>1. PICK t \in QueryTimes :
        currentSnapshot = [version |-> FirstVersion, committedAt |-> t,
                           nodes |-> InitialNodes]
  BY DEF Init
<1>2. t \in Int
  BY WorldAssumption, WidthAssumption DEF Counts, MinCount
<1> QED
  BY <1>1, <1>2, WorldAssumption DEF Init, History!Init

LEMMA CommitHistory ==
  ASSUME TypeOK, NEW o \in Owners, NEW v, CommitCycle(o, v)
  PROVE  History!Commit
<1>1. /\ delta[o] \in DeltaSet
      /\ delta[o].effectiveAt >= currentSnapshot.committedAt
      /\ lastCommittedCycle # NoCycle => delta[o].cycleId > lastCommittedCycle
      /\ currentSnapshot'.version = currentSnapshot.version + 1
      /\ currentSnapshot'.committedAt = delta[o].effectiveAt
      /\ lastCommittedCycle' = delta[o].cycleId
  BY DEF CommitCycle, CommitSnapshot, MayCommit, TypeOK
<1>2. delta[o].effectiveAt \in Int /\ delta[o].cycleId \in Nat
  BY <1>1, WorldAssumption, WidthAssumption DEF DeltaSet, Counts, MinCount
<1> QED
  BY <1>1, <1>2 DEF History!Commit

\* The store of world snapshots, whoever finalizes and commits in whatever
\* order, is an append-only history without gaps.
THEOREM ImplementsHistoryTheorem == Spec => ImplementsHistory
<1>1. TypeOK /\ [Next]_vars => [History!Commit]_(History!vars)
  <2> SUFFICES ASSUME TypeOK, [Next]_vars
               PROVE  History!Commit \/ UNCHANGED History!vars
    OBVIOUS
  <2>1. CASE \E o \in Owners, v \in FirstVersion .. MaxVersion : CommitCycle(o, v)
    BY <2>1, CommitHistory
  <2>2. CASE UNCHANGED storeVars
    BY <2>2 DEF storeVars, History!vars
  <2> QED
    BY <2>1, <2>2 DEF Next, vars, Create, ChangeVelocity, Finalize
<1> QED
  BY InitHistory, <1>1, TypeCorrect, PTL
     DEF Spec, ImplementsHistory, History!Spec

(***************************************************************************)
(* Where a node is.  Sums of any length are beyond a single step of the    *)
(* provers: what holds of them is shown by looking at the first place      *)
(* where it would fail.                                                    *)
(***************************************************************************)
LEMMA FirstOf ==
  ASSUME NEW T, T \subseteq Nat, T # {}
  PROVE  \E x \in T : \A y \in T : x <= y
<1> DEFINE less == {p \in Nat \X Nat : p[1] < p[2]}
<1>1. IsWellFoundedOn(less, Nat)
  BY NatLessThanWellFounded DEF OpToRel
<1>2. \A m, n \in Nat : m < n => <<m, n>> \in less
  OBVIOUS
<1> HIDE DEF less
<1>3. PICK x \in T : \A y \in T : <<y, x>> \notin less
  BY <1>1, WFMin
<1>4. \A y \in T : ~(y < x)
  BY <1>2, <1>3
<1> QED
  BY <1>3, <1>4

\* f holds the sums of v up to k.
AreSums(f, v, k) ==
  /\ f \in [0 .. k -> Int] /\ f[0] = 0
  /\ \A i \in 0 .. k - 1 : f[i + 1] = f[i] + v[i]

LEMMA SumsUpTo ==
  ASSUME NEW v \in [Nat -> Int], NEW k \in Nat
  PROVE  \E f : AreSums(f, v, k)
<1> DEFINE Bad == {i \in Nat : ~\E f : AreSums(f, v, i)}
<1> SUFFICES ASSUME Bad # {} PROVE FALSE
  OBVIOUS
<1>1. PICK x \in Bad : \A y \in Bad : x <= y
  BY FirstOf
<1>2. CASE x = 0
  <2>1. AreSums([i \in 0 .. 0 |-> 0], v, 0)
    BY DEF AreSums
  <2> QED
    BY <1>1, <1>2, <2>1
<1>3. CASE x # 0
  <2>1. x - 1 \in Nat /\ x - 1 \notin Bad
    BY <1>1, <1>3
  <2>2. PICK f : AreSums(f, v, x - 1)
    BY <2>1
  <2> DEFINE g == [i \in 0 .. x |-> IF i = x THEN f[x - 1] + v[x - 1] ELSE f[i]]
  <2>3. x \in Nat /\ v[x - 1] \in Int /\ f[x - 1] \in Int
    BY <2>1, <2>2 DEF AreSums
  <2>4. g \in [0 .. x -> Int] /\ g[0] = 0
    BY <1>3, <2>2, <2>3 DEF AreSums
  <2>5. ASSUME NEW i \in 0 .. x - 1 PROVE g[i + 1] = g[i] + v[i]
    <3>1. CASE i = x - 1
      BY <2>3, <3>1
    <3>2. CASE i # x - 1
      BY <2>2, <2>3, <3>2 DEF AreSums
    <3> QED
      BY <3>1, <3>2
  <2>6. AreSums(g, v, x)
    BY <2>4, <2>5 DEF AreSums
  <2> QED
    BY <1>1, <2>6
<1> QED
  BY <1>2, <1>3

LEMMA SumsUnique ==
  ASSUME NEW v \in [Nat -> Int], NEW w \in [Nat -> Int],
         NEW j \in Nat, NEW k \in Nat, NEW f, NEW g,
         AreSums(f, v, j), AreSums(g, w, k),
         NEW n \in Nat, n <= j, n <= k, \A i \in 0 .. n - 1 : v[i] = w[i]
  PROVE  f[n] = g[n]
<1> DEFINE Bad == {i \in 0 .. n : f[i] # g[i]}
<1> SUFFICES ASSUME Bad # {} PROVE FALSE
  OBVIOUS
<1>0. Bad \subseteq Nat
  OBVIOUS
<1>1. PICK x \in Bad : \A y \in Bad : x <= y
  <2> HIDE DEF Bad
  <2> QED
    BY <1>0, FirstOf
<1>2. x # 0
  BY <1>1 DEF AreSums
<1>3. x - 1 \in 0 .. n - 1 /\ f[x - 1] = g[x - 1]
  BY <1>1, <1>2
<1>4. f[(x - 1) + 1] = g[(x - 1) + 1]
  BY <1>3 DEF AreSums
<1> QED
  BY <1>1, <1>4

LEMMA SumsAreSums ==
  ASSUME NEW v \in [Nat -> Int]
  PROVE  /\ Sums(v) \in [Nat -> Int] /\ Sums(v)[0] = 0
         /\ \A k \in Nat : Sums(v)[k + 1] = Sums(v)[k] + v[k]
<1> DEFINE F(k) == CHOOSE f : AreSums(f, v, k)
           h == [k \in Nat |-> F(k)[k]]
           IsSum(f) == f = [k \in Nat |-> IF k = 0 THEN 0
                                                 ELSE f[k - 1] + v[k - 1]]
<1>1. \A k \in Nat : AreSums(F(k), v, k)
  BY SumsUpTo
<1> HIDE DEF F
<1>2. ASSUME NEW k \in Nat PROVE h[k] \in Int
  BY <1>1 DEF AreSums
<1>3. h[0] = 0
  BY <1>1 DEF AreSums
<1>4. ASSUME NEW k \in Nat, k # 0 PROVE h[k] = h[k - 1] + v[k - 1]
  <2>1. k - 1 \in Nat /\ k - 1 <= k
    BY <1>4
  <2>2. F(k)[k - 1] = F(k - 1)[k - 1]
    BY <1>1, <2>1, SumsUnique
  <2>3. k - 1 \in 0 .. k - 1 /\ (k - 1) + 1 = k
    BY <1>4
  <2>4. F(k)[k] = F(k)[k - 1] + v[k - 1]
    BY <1>1, <2>3 DEF AreSums
  <2> QED
    BY <2>1, <2>2, <2>4
<1>5. h = [k \in Nat |-> IF k = 0 THEN 0 ELSE h[k - 1] + v[k - 1]]
  <2> HIDE DEF h
  <2>1. DOMAIN h = Nat /\ h = [k \in Nat |-> h[k]]
    BY DEF h
  <2> QED
    BY <1>3, <1>4, <2>1
<1>6. IsSum(h)
  BY <1>5
<1>7. Sums(v) = CHOOSE f : IsSum(f)
  BY DEF Sums
<1>8. IsSum(Sums(v))
  <2> HIDE DEF IsSum, h
  <2> QED
    BY <1>6, <1>7
<1> DEFINE s == Sums(v)
<1>9. s = [k \in Nat |-> IF k = 0 THEN 0 ELSE s[k - 1] + v[k - 1]]
  BY <1>8
<1> HIDE DEF s
<1>10. /\ s[0] = 0
       /\ \A k \in Nat : s[k + 1] = s[k] + v[k]
  <2>1. s[0] = 0
    BY <1>9
  <2>2. ASSUME NEW k \in Nat PROVE s[k + 1] = s[k] + v[k]
    <3>1. k + 1 \in Nat /\ k + 1 # 0 /\ (k + 1) - 1 = k
      OBVIOUS
    <3> QED
      BY <1>9, <3>1
  <2> QED
    BY <2>1, <2>2
<1>11. s \in [Nat -> Int]
  <2> DEFINE Bad == {i \in Nat : s[i] \notin Int}
  <2>1. CASE Bad # {}
    <3>1. PICK x \in Bad : \A y \in Bad : x <= y
      BY <2>1, FirstOf
    <3>2. x # 0
      BY <1>10, <3>1
    <3>3. x - 1 \in Nat /\ s[x - 1] \in Int /\ v[x - 1] \in Int
      BY <3>1, <3>2
    <3>4. s[(x - 1) + 1] \in Int
      BY <1>10, <3>3
    <3> QED
      BY <3>1, <3>4
  <2>2. CASE Bad = {}
    <3>1. DOMAIN s = Nat
      BY <1>9
    <3>2. s = [k \in Nat |-> s[k]]
      BY <1>9
    <3> QED
      BY <2>2, <3>2
  <2> QED
    BY <2>1, <2>2
<1> QED
  BY <1>10, <1>11 DEF s

LEMMA SumsAgree ==
  ASSUME NEW v \in [Nat -> Int], NEW w \in [Nat -> Int], NEW n \in Nat,
         \A i \in 0 .. n - 1 : v[i] = w[i]
  PROVE  Sums(v)[n] = Sums(w)[n]
<1> DEFINE Bad == {i \in 0 .. n : Sums(v)[i] # Sums(w)[i]}
<1> SUFFICES ASSUME Bad # {} PROVE FALSE
  OBVIOUS
<1>0. Bad \subseteq Nat
  OBVIOUS
<1>1. PICK x \in Bad : \A y \in Bad : x <= y
  <2> HIDE DEF Bad
  <2> QED
    BY <1>0, FirstOf
<1>2. x # 0
  BY <1>1, SumsAreSums
<1>3. x - 1 \in 0 .. n - 1 /\ Sums(v)[x - 1] = Sums(w)[x - 1]
  BY <1>1, <1>2
<1>4. Sums(v)[(x - 1) + 1] = Sums(w)[(x - 1) + 1]
  BY <1>3, SumsAreSums
<1> QED
  BY <1>1, <1>4

\* Over a stretch of equal numbers the sums grow in a straight line.
LEMMA SumsStraight ==
  ASSUME NEW v \in [Nat -> Int], NEW c \in Int, NEW j \in Nat, NEW k \in Nat,
         j <= k, \A i \in j .. k - 1 : v[i] = c
  PROVE  Sums(v)[k] = Sums(v)[j] + c * (k - j)
<1> DEFINE s == Sums(v)
           Bad == {i \in j .. k : s[i] # s[j] + c * (i - j)}
<1>1. s \in [Nat -> Int] /\ \A i \in Nat : s[i + 1] = s[i] + v[i]
  BY SumsAreSums
<1> HIDE DEF s
<1>2. CASE Bad # {}
  <2>0. Bad \subseteq Nat
    OBVIOUS
  <2>1. PICK x \in Bad : \A y \in Bad : x <= y
    <3> HIDE DEF Bad
    <3> QED
      BY <1>2, <2>0, FirstOf
  <2>2. x # j
    BY <1>1, <2>1
  <2>3. /\ x - 1 \in j .. k - 1 /\ x - 1 \in Nat
        /\ s[x - 1] = s[j] + c * ((x - 1) - j)
    BY <2>1, <2>2
  <2>4. s[(x - 1) + 1] = s[x - 1] + c
    BY <1>1, <2>3
  <2>5. x \in Int /\ s[j] \in Int /\ s[x - 1] \in Int
    BY <1>1, <2>3
  <2>6. c * ((x - 1) - j) + c = c * (x - j)
    BY <2>5
  <2> QED
    BY <2>1, <2>3, <2>4, <2>5, <2>6
<1>3. CASE Bad = {}
  BY <1>3 DEF s
<1> QED
  BY <1>2, <1>3

(***************************************************************************)
(* The velocity changes of a working state, in the order of their indexes. *)
(***************************************************************************)
Numbered(accepted) ==
  /\ IsFiniteSet(accepted)
  /\ \A c \in accepted : /\ c.index \in 0 .. Cardinality(accepted) - 1
                         /\ c.velocity \in Int /\ c.at \in Int
  /\ \A c, d \in accepted : c.index = d.index => c = d

LEMMA LatestIs ==
  ASSUME NEW accepted, Numbered(accepted), NEW S, S \subseteq accepted,
         NEW c \in S, \A d \in S : d.index <= c.index
  PROVE  Latest(S) = c
<1>1. Latest(S) \in S /\ \A d \in S : d.index <= Latest(S).index
  BY DEF Latest
<1>2. c.index \in Int /\ Latest(S).index \in Int
  BY <1>1 DEF Numbered
<1>3. c.index = Latest(S).index
  BY <1>1, <1>2
<1> QED
  BY <1>1, <1>3 DEF Numbered

LEMMA LatestExists ==
  ASSUME NEW accepted, Numbered(accepted), NEW S, S \subseteq accepted, S # {}
  PROVE  Latest(S) \in S
<1> DEFINE T == {Cardinality(accepted) - c.index : c \in S}
<1>1. Cardinality(accepted) \in Nat
  BY FS_CardinalityType DEF Numbered
<1>2. \A c \in S : c.index \in 0 .. Cardinality(accepted) - 1
  BY DEF Numbered
<1>3. T \subseteq Nat /\ T # {}
  BY <1>1, <1>2
<1>4. PICK x \in T : \A y \in T : x <= y
  <2> HIDE DEF T
  <2> QED
    BY <1>3, FirstOf
<1>5. PICK c \in S : x = Cardinality(accepted) - c.index
  BY <1>4
<1>6. ASSUME NEW d \in S PROVE d.index <= c.index
  <2>1. Cardinality(accepted) - c.index <= Cardinality(accepted) - d.index
    BY <1>4, <1>5
  <2> QED
    BY <1>1, <1>2, <2>1
<1> QED
  BY <1>5, <1>6, LatestIs

\* The velocity from the last change of a node on.
LEMMA VelocityFromLatest ==
  ASSUME NEW base, NEW accepted, Numbered(accepted), NEW n,
         NEW c \in accepted, c.node = n,
         \A d \in accepted : d.node = n => d.index <= c.index,
         NEW u \in Int, c.at <= u
  PROVE  VelocityAt(base, accepted, n, u) = c.velocity
<1> DEFINE S == {d \in accepted : d.node = n /\ d.at <= u}
<1>1. S \subseteq accepted /\ c \in S /\ \A d \in S : d.index <= c.index
  OBVIOUS
<1>2. VelocityAt(base, accepted, n, u) = Latest(S).velocity
  BY <1>1 DEF VelocityAt
<1> HIDE DEF S
<1>3. Latest(S) = c
  BY <1>1, LatestIs
<1> QED
  BY <1>2, <1>3

LEMMA VelocityType ==
  ASSUME NEW base, NEW accepted, Numbered(accepted), NEW n,
         base.nodes[n].velocity \in Int, NEW u
  PROVE  VelocityAt(base, accepted, n, u) \in Int
<1> DEFINE S == {d \in accepted : d.node = n /\ d.at <= u}
<1>1. S \subseteq accepted
  OBVIOUS
<1>2. VelocityAt(base, accepted, n, u) =
        IF S = {} THEN base.nodes[n].velocity ELSE Latest(S).velocity
  BY DEF VelocityAt
<1> HIDE DEF S
<1>3. S # {} => Latest(S) \in accepted
  BY <1>1, LatestExists
<1> QED
  BY <1>2, <1>3 DEF Numbered

\* A velocity change is without effect on other nodes, and before its time.
LEMMA VelocityKept ==
  ASSUME NEW base, NEW accepted, NEW x, NEW m, NEW u,
         x.node # m \/ ~(x.at <= u)
  PROVE  VelocityAt(base, accepted \cup {x}, m, u)
           = VelocityAt(base, accepted, m, u)
<1> DEFINE S == {d \in accepted : d.node = m /\ d.at <= u}
           T == {d \in accepted \cup {x} : d.node = m /\ d.at <= u}
           V(R) == IF R = {} THEN base.nodes[m].velocity ELSE Latest(R).velocity
<1>1. S = T
  OBVIOUS
<1>2. /\ VelocityAt(base, accepted, m, u) = V(S)
      /\ VelocityAt(base, accepted \cup {x}, m, u) = V(T)
  BY DEF VelocityAt
<1> HIDE DEF S, T, V
<1> QED
  BY <1>1, <1>2

(***************************************************************************)
(* A working state follows the changes it accepted.                        *)
(***************************************************************************)
Way(base, accepted, n) ==
  [k \in Nat |-> VelocityAt(base, accepted, n, base.committedAt + k)]

\* The anchor of an overlay is the last change of its node, and lies where the
\* changes lead to.
Follows(w, accepted) ==
  /\ Numbered(accepted)
  /\ w.base.committedAt <= w.startedAt
  /\ \A c \in accepted : c.node \in DOMAIN w.overlays
  /\ \A n \in DOMAIN w.overlays :
       LET state  == w.overlays[n].state
           anchor == w.overlays[n].anchor
       IN  /\ w.base.committedAt <= anchor
           /\ \E c \in accepted :
                /\ c.node = n /\ c.at = anchor /\ c.velocity = state.velocity
                /\ \A d \in accepted : d.node = n => d.index <= c.index
           /\ state.position = w.base.nodes[n].position
                                 + Travelled(w.base, accepted, n, anchor)

LEMMA WayType ==
  ASSUME NEW w, WorkingState(w), NEW accepted, Numbered(accepted),
         NEW n \in DOMAIN InitialNodes
  PROVE  /\ w.base.nodes[n] \in NodeState
         /\ w.base.committedAt \in Int
         /\ Way(w.base, accepted, n) \in [Nat -> Int]
         /\ \A t : Travelled(w.base, accepted, n, t)
                     = Sums(Way(w.base, accepted, n))[t - w.base.committedAt]
<1>1. w.base.nodes[n] \in NodeState /\ w.base.committedAt \in Counts
  BY DEF WorkingState, Snapshot
<1>2. w.base.committedAt \in Int
  BY <1>1, WidthAssumption DEF Counts, MinCount
<1>3. w.base.nodes[n].velocity \in Int
  BY <1>1 DEF NodeState
<1>4. \A u : VelocityAt(w.base, accepted, n, u) \in Int
  BY <1>3, VelocityType
<1> QED
  BY <1>1, <1>2, <1>4 DEF Way, Travelled

LEMMA OnTrajectory ==
  ASSUME NEW w, WorkingState(w), NEW accepted, Follows(w, accepted),
         NEW n \in DOMAIN InitialNodes, NEW t \in Counts,
         ProjectNodeState(w, n, t) # NoState
  PROVE  /\ w.base.committedAt <= t
         /\ ProjectNodeState(w, n, t).position
              = w.base.nodes[n].position + Travelled(w.base, accepted, n, t)
         /\ ProjectNodeState(w, n, t).velocity
              = VelocityAt(w.base, accepted, n, t)
<1> DEFINE base == w.base
           way == Way(base, accepted, n)
<1>1. /\ Numbered(accepted)
      /\ base.nodes[n] \in NodeState /\ base.committedAt \in Int
      /\ base.committedAt \in Counts
      /\ way \in [Nat -> Int]
      /\ \A u : Travelled(base, accepted, n, u)
                  = Sums(way)[u - base.committedAt]
  BY WayType DEF Follows, WorkingState, Snapshot
<1>2. t \in Int /\ NoCount \notin Int /\ MaxCount \in Nat
  BY WidthAssumption DEF Counts, MinCount
<1>3. ProjectNodeState(w, n, t) = ProjectState(w, n, t)
  BY DEF ProjectNodeState
<1>4. DOMAIN base.nodes = DOMAIN InitialNodes
  BY DEF WorkingState, Snapshot
<1>5. PICK state \in NodeState, anchor \in Counts :
        /\ ProjectState(w, n, t) = ProjectFromAnchor(state, anchor, t)
        /\ anchor \in Int /\ base.committedAt <= anchor
        /\ state.position = base.nodes[n].position
                              + Sums(way)[anchor - base.committedAt]
        /\ \A u \in Int : anchor <= u =>
             VelocityAt(base, accepted, n, u) = state.velocity
  <2>1. CASE n \in DOMAIN w.overlays
    <3> DEFINE state == w.overlays[n].state
               anchor == w.overlays[n].anchor
    <3>1. state \in NodeState /\ anchor \in Counts
      BY <2>1 DEF WorkingState
    <3>2. anchor \in Int
      BY <3>1, WidthAssumption DEF Counts, MinCount
    <3>3. ProjectState(w, n, t) = ProjectFromAnchor(state, anchor, t)
      BY <1>4, <2>1 DEF ProjectState
    <3>4. /\ base.committedAt <= anchor
          /\ state.position = base.nodes[n].position
                                + Sums(way)[anchor - base.committedAt]
          /\ \E c \in accepted :
               /\ c.node = n /\ c.at = anchor /\ c.velocity = state.velocity
               /\ \A d \in accepted : d.node = n => d.index <= c.index
      BY <1>1, <2>1 DEF Follows
    <3>5. \A u \in Int : anchor <= u =>
            VelocityAt(base, accepted, n, u) = state.velocity
      <4> HIDE DEF base, state, anchor
      <4>1. PICK c \in accepted :
              /\ c.node = n /\ c.at = anchor /\ c.velocity = state.velocity
              /\ \A d \in accepted : d.node = n => d.index <= c.index
        BY <3>4
      <4>2. ASSUME NEW u \in Int, anchor <= u
            PROVE  VelocityAt(base, accepted, n, u) = c.velocity
        <5>1. c.at <= u /\ Numbered(accepted)
          BY <1>1, <4>1, <4>2
        <5> QED
          BY <4>1, <5>1, VelocityFromLatest
      <4> QED
        BY <4>1, <4>2
    <3> QED
      BY <3>1, <3>2, <3>3, <3>4, <3>5
  <2>2. CASE n \notin DOMAIN w.overlays
    <3>1. ProjectState(w, n, t)
            = ProjectFromAnchor(base.nodes[n], base.committedAt, t)
      BY <1>4, <2>2 DEF ProjectState
    <3>2. Sums(way)[base.committedAt - base.committedAt] = 0
      BY <1>1, SumsAreSums
    <3>3. \A u : VelocityAt(base, accepted, n, u) = base.nodes[n].velocity
      <4>1. \A c \in accepted : c.node # n
        BY <2>2 DEF Follows
      <4>2. \A u : {c \in accepted : c.node = n /\ c.at <= u} = {}
        BY <4>1
      <4> QED
        BY <4>2 DEF VelocityAt
    <3>4. base.nodes[n].position \in Int
      BY <1>1 DEF NodeState
    <3> HIDE DEF base, way
    <3>5. base.nodes[n].position = base.nodes[n].position
                                     + Sums(way)[base.committedAt - base.committedAt]
      BY <3>2, <3>4
    <3>6. base.committedAt <= base.committedAt
      BY <1>1
    <3> QED
      BY <1>1, <3>1, <3>3, <3>5, <3>6
  <2> QED
    BY <2>1, <2>2
<1> HIDE DEF base, way
<1>6. /\ ~(t < anchor)
      /\ CheckedSubtractCounts(t, anchor) # NoCount
      /\ ProjectNodeState(w, n, t)
           = [state EXCEPT !.position =
                @ + state.velocity * CheckedSubtractCounts(t, anchor)]
  BY <1>3, <1>5 DEF ProjectFromAnchor
<1>7. CheckedSubtractCounts(t, anchor) = t - anchor
  BY <1>2, <1>5, <1>6 DEF CheckedSubtractCounts
<1>8. /\ ProjectNodeState(w, n, t).position
           = state.position + state.velocity * (t - anchor)
      /\ ProjectNodeState(w, n, t).velocity = state.velocity
  BY <1>6, <1>7 DEF NodeState
<1>9. Sums(way)[t - base.committedAt]
        = Sums(way)[anchor - base.committedAt] + state.velocity * (t - anchor)
  <2> DEFINE j == anchor - base.committedAt
             k == t - base.committedAt
  <2>1. j \in Nat /\ k \in Nat /\ j <= k /\ k - j = t - anchor
    BY <1>1, <1>2, <1>5, <1>6
  <2>2. state.velocity \in Int
    BY DEF NodeState
  <2>3. \A i \in j .. k - 1 : way[i] = state.velocity
    BY <1>1, <1>5, <2>1 DEF way, Way
  <2> HIDE DEF j, k
  <2>4. Sums(way)[k] = Sums(way)[j] + state.velocity * (k - j)
    BY <1>1, <2>1, <2>2, <2>3, SumsStraight
  <2> QED
    BY <2>1, <2>4 DEF j, k
<1>10. base.committedAt <= t
  BY <1>1, <1>2, <1>5, <1>6
<1>11. ProjectNodeState(w, n, t).position
         = base.nodes[n].position + Travelled(base, accepted, n, t)
  <2>1. Sums(way) \in [Nat -> Int] /\ anchor - base.committedAt \in Nat
    BY <1>1, <1>5, SumsAreSums
  <2>2. /\ base.nodes[n].position \in Int
        /\ Sums(way)[anchor - base.committedAt] \in Int
        /\ state.velocity * (t - anchor) \in Int
    BY <1>1, <1>2, <1>5, <2>1 DEF NodeState
  <2> QED
    BY <1>1, <1>5, <1>8, <1>9, <2>2
<1>12. VelocityAt(base, accepted, n, t) = state.velocity
  BY <1>2, <1>5, <1>6
<1> QED
  BY <1>8, <1>10, <1>11, <1>12 DEF base

\* What a velocity change at t adds to the changes accepted so far.
Change(accepted, n, velocity, t) ==
  [index |-> Cardinality(accepted), node |-> n, velocity |-> velocity,
   at |-> t]

LEMMA ChangeIsNumbered ==
  ASSUME NEW accepted, Numbered(accepted), NEW n, NEW velocity \in Int,
         NEW t \in Int
  PROVE  LET c == Change(accepted, n, velocity, t)
         IN  /\ Numbered(accepted \cup {c})
             /\ c \notin accepted
             /\ \A d \in accepted : d.index < c.index
<1> DEFINE c == Change(accepted, n, velocity, t)
           size == Cardinality(accepted)
<1>1. IsFiniteSet(accepted) /\ size \in Nat
  BY FS_CardinalityType DEF Numbered
<1>2. c.index = size /\ c.velocity \in Int /\ c.at \in Int
  BY DEF Change
<1>3. \A d \in accepted : d.index \in 0 .. size - 1
  BY DEF Numbered
<1> HIDE DEF c, size
<1>4. \A d \in accepted : d.index < c.index
  BY <1>1, <1>2, <1>3
<1>5. c \notin accepted
  BY <1>1, <1>2, <1>3
<1>6. /\ IsFiniteSet(accepted \cup {c})
      /\ Cardinality(accepted \cup {c}) = size + 1
  BY <1>1, <1>5, FS_AddElement DEF size
<1>7. Numbered(accepted \cup {c})
  <2> DEFINE all == accepted \cup {c}
  <2>1. \A d \in all : d = c \/ d \in accepted
    OBVIOUS
  <2> HIDE DEF all
  <2>2. ASSUME NEW d \in all
        PROVE  d.index \in 0 .. size /\ d.velocity \in Int /\ d.at \in Int
    <3>1. CASE d = c
      BY <1>1, <1>2, <3>1
    <3>2. CASE d \in accepted
      <4>1. d.index \in 0 .. size - 1 /\ d.velocity \in Int /\ d.at \in Int
        BY <1>3, <3>2 DEF Numbered
      <4> QED
        BY <1>1, <4>1
    <3> QED
      BY <2>1, <3>1, <3>2
  <2>3. ASSUME NEW d \in all, NEW e \in all, d.index = e.index PROVE d = e
    <3>1. CASE d \in accepted /\ e \in accepted
      BY <2>3, <3>1 DEF Numbered
    <3>2. CASE d \in accepted /\ e = c
      BY <1>1, <1>2, <1>3, <2>3, <3>2
    <3>3. CASE d = c /\ e \in accepted
      BY <1>1, <1>2, <1>3, <2>3, <3>3
    <3> QED
      BY <2>1, <3>1, <3>2, <3>3
  <2>4. IsFiniteSet(all) /\ Cardinality(all) - 1 = size
    BY <1>1, <1>6 DEF all
  <2>5. Numbered(all)
    BY <2>2, <2>3, <2>4 DEF Numbered
  <2> QED
    BY <2>5 DEF all
<1> QED
  BY <1>4, <1>5, <1>7 DEF c

\* A change leaves the way of the other nodes, and the way up to its time.
LEMMA WayKept ==
  ASSUME NEW w, WorkingState(w), NEW accepted, NEW c, NEW all,
         all = accepted \cup {c},
         Numbered(accepted), Numbered(all), c.at \in Int,
         NEW m \in DOMAIN InitialNodes, NEW t \in Int,
         w.base.committedAt <= t, c.node # m \/ t <= c.at
  PROVE  Travelled(w.base, all, m, t) = Travelled(w.base, accepted, m, t)
<1> DEFINE base == w.base
           old == Way(base, accepted, m)
           new == Way(base, all, m)
           k == t - base.committedAt
<1>1. /\ base.committedAt \in Int
      /\ old \in [Nat -> Int] /\ new \in [Nat -> Int]
      /\ Travelled(base, accepted, m, t) = Sums(old)[k]
      /\ Travelled(base, all, m, t) = Sums(new)[k]
  BY WayType
<1>2. k \in Nat
  BY <1>1
<1>3. ASSUME NEW i \in 0 .. k - 1 PROVE old[i] = new[i]
  <2>1. c.node # m \/ ~(c.at <= base.committedAt + i)
    BY <1>1, <1>2
  <2>2. VelocityAt(base, all, m, base.committedAt + i)
          = VelocityAt(base, accepted, m, base.committedAt + i)
    BY <2>1, VelocityKept
  <2> QED
    BY <1>2, <2>2 DEF Way
<1> HIDE DEF old, new, k, base
<1>4. Sums(old)[k] = Sums(new)[k]
  BY <1>1, <1>2, <1>3, SumsAgree
<1> QED
  BY <1>1, <1>4 DEF base

LEMMA SteeredFollows ==
  ASSUME NEW w, WorkingState(w), NEW accepted, Follows(w, accepted),
         NEW n, NEW velocity \in Int, NEW t \in Counts,
         ProjectNodeState(w, n, t) # NoState
  PROVE  Follows(UpdateVelocity(w, n, velocity, t),
                 accepted \cup {Change(accepted, n, velocity, t)})
<1> DEFINE base == w.base
           c == Change(accepted, n, velocity, t)
           all == accepted \cup {c}
           state == [ProjectNodeState(w, n, t) EXCEPT !.velocity = velocity]
           u == UpdateVelocity(w, n, velocity, t)
<1>1. t \in Int
  BY WidthAssumption DEF Counts, MinCount
<1>2. /\ Numbered(accepted) /\ Numbered(all) /\ c \notin accepted
      /\ \A d \in accepted : d.index < c.index
  BY <1>1, ChangeIsNumbered DEF Follows
<1>3. c.node = n /\ c.at = t /\ c.velocity = velocity
  BY DEF Change
<1>4. n \in DOMAIN InitialNodes
  BY DEF ProjectNodeState, ProjectState, WorkingState, Snapshot
<1>5. /\ base.committedAt <= t
      /\ ProjectNodeState(w, n, t).position
           = base.nodes[n].position + Travelled(base, accepted, n, t)
  BY <1>4, OnTrajectory
<1>6. ProjectNodeState(w, n, t) \in NodeState
  BY ProjectedType DEF ProjectNodeState
<1>7. state.position = ProjectNodeState(w, n, t).position
      /\ state.velocity = velocity
  BY <1>6 DEF NodeState
<1>8. /\ u.base = base /\ u.startedAt = w.startedAt
      /\ u.overlays = [m \in DOMAIN w.overlays \cup {n} |->
                         IF m = n THEN [state |-> state, anchor |-> t]
                                  ELSE w.overlays[m]]
  BY DEF UpdateVelocity, WorkingState
<1> HIDE DEF c, state, u, base
<1>8a. all = accepted \cup {c}
  OBVIOUS
<1>8b. WorkingState(w) /\ base = w.base
  BY DEF base
<1> HIDE DEF all
<1>9. base.committedAt <= u.startedAt
  BY <1>8 DEF Follows, base
<1>10. \A d \in all : d.node \in DOMAIN u.overlays
  BY <1>3, <1>8, <1>8a DEF Follows
<1>11. ASSUME NEW m \in DOMAIN u.overlays
       PROVE  /\ base.committedAt <= u.overlays[m].anchor
              /\ \E x \in all :
                   /\ x.node = m /\ x.at = u.overlays[m].anchor
                   /\ x.velocity = u.overlays[m].state.velocity
                   /\ \A d \in all : d.node = m => d.index <= x.index
              /\ u.overlays[m].state.position = base.nodes[m].position
                   + Travelled(base, all, m, u.overlays[m].anchor)
  <2>1. CASE m = n
    <3>1. u.overlays[m] = [state |-> state, anchor |-> t]
      BY <1>8, <2>1
    <3>2. Travelled(base, all, n, t) = Travelled(base, accepted, n, t)
      <4>1. c.at \in Int /\ t <= c.at
        BY <1>1, <1>3
      <4> QED
        BY <1>1, <1>2, <1>4, <1>5, <1>8a, <1>8b, <4>1, WayKept
    <3>3. \A d \in all : d.index <= c.index
      BY <1>2, <1>8a DEF Numbered
    <3> QED
      BY <1>3, <1>5, <1>7, <1>8a, <2>1, <3>1, <3>2, <3>3
  <2>2. CASE m # n
    <3>1. m \in DOMAIN w.overlays /\ u.overlays[m] = w.overlays[m]
      BY <1>8, <2>2
    <3>2. m \in DOMAIN InitialNodes /\ w.overlays[m].anchor \in Counts
      BY <3>1 DEF WorkingState
    <3>3. w.overlays[m].anchor \in Int
      BY <3>2, WidthAssumption DEF Counts, MinCount
    <3>4. /\ base.committedAt <= w.overlays[m].anchor
          /\ w.overlays[m].state.position = base.nodes[m].position
               + Travelled(base, accepted, m, w.overlays[m].anchor)
          /\ \E x \in accepted :
               /\ x.node = m /\ x.at = w.overlays[m].anchor
               /\ x.velocity = w.overlays[m].state.velocity
               /\ \A d \in accepted : d.node = m => d.index <= x.index
      BY <3>1 DEF Follows, base
    <3>5. Travelled(base, all, m, w.overlays[m].anchor)
            = Travelled(base, accepted, m, w.overlays[m].anchor)
      <4>1. c.at \in Int /\ c.node # m
        BY <1>1, <1>3, <2>2
      <4> QED
        BY <1>2, <1>8a, <1>8b, <3>2, <3>3, <3>4, <4>1, WayKept
    <3> QED
      BY <1>3, <1>8a, <2>2, <3>1, <3>4, <3>5
  <2> QED
    BY <2>1, <2>2
<1>12. Follows(u, all)
  BY <1>2, <1>8, <1>9, <1>10, <1>11 DEF Follows
<1> QED
  BY <1>12 DEF all, u, c

(***************************************************************************)
(* Every working state does, at any time.                                  *)
(***************************************************************************)
FollowInv ==
  /\ changes = [o \in Owners |-> changes[o]]
  /\ \A o \in Owners : working[o] # NoWorking => Follows(working[o], changes[o])

LEMMA InitFollow == Init => FollowInv
BY DEF Init, FollowInv

LEMMA CreateFollow ==
  ASSUME TypeOK, IInv, FollowInv, NEW o \in Owners, NEW c \in CycleIds,
         NEW t \in QueryTimes, Create(o, c, t)
  PROVE  FollowInv'
<1> DEFINE w == [base |-> currentSnapshot, cycleId |-> c, startedAt |-> t,
                 overlays |-> [n \in {} |-> 0]]
<1>1. /\ working' = [working EXCEPT ![o] = w]
      /\ changes' = [changes EXCEPT ![o] = {}]
      /\ t >= currentSnapshot.committedAt
  BY DEF Create
<1>2. currentSnapshot.committedAt \in Int /\ t \in Int
  BY WorldAssumption, WidthAssumption DEF TypeOK, Snapshot, Counts, MinCount
<1>3. Follows(w, {})
  <2>1. Numbered({})
    BY FS_EmptySet DEF Numbered
  <2> QED
    BY <1>1, <1>2, <2>1 DEF Follows
<1> HIDE DEF w
<1>4. \A p \in Owners : /\ working'[p] = IF p = o THEN w ELSE working[p]
                        /\ changes'[p] = IF p = o THEN {} ELSE changes[p]
  BY <1>1 DEF IInv, ShapeInv, FollowInv
<1>5. changes' = [p \in Owners |-> changes'[p]]
  BY <1>1 DEF FollowInv
<1> QED
  BY <1>3, <1>4, <1>5 DEF FollowInv

LEMMA ChangeVelocityFollow ==
  ASSUME TypeOK, IInv, FollowInv, NEW o \in Owners, NEW n,
         NEW v \in Velocities, NEW t \in QueryTimes, ChangeVelocity(o, n, v, t)
  PROVE  FollowInv'
<1> DEFINE w == UpdateVelocity(working[o], n, v, t)
           all == changes[o] \cup {Change(changes[o], n, v, t)}
<1>1. /\ working' = [working EXCEPT ![o] = w] /\ working[o] # NoWorking
      /\ changes' = [changes EXCEPT ![o] = all]
      /\ ProjectNodeState(working[o], n, t) # NoState
  BY DEF ChangeVelocity, Change
<1>2. v \in Int /\ t \in Counts
  BY WorldAssumption
<1>3. Follows(w, all)
  BY <1>1, <1>2, SteeredFollows DEF TypeOK, FollowInv
<1> HIDE DEF w, all
<1>4. \A p \in Owners : /\ working'[p] = IF p = o THEN w ELSE working[p]
                        /\ changes'[p] = IF p = o THEN all ELSE changes[p]
  BY <1>1 DEF IInv, ShapeInv, FollowInv
<1>5. changes' = [p \in Owners |-> changes'[p]]
  BY <1>1 DEF FollowInv
<1> QED
  BY <1>3, <1>4, <1>5 DEF FollowInv

LEMMA NextFollow ==
  ASSUME TypeOK, IInv, FollowInv, [Next]_vars
  PROVE  FollowInv'
<1>1. CASE UNCHANGED <<working, changes>>
  BY <1>1 DEF FollowInv
<1> QED
  BY <1>1, CreateFollow, ChangeVelocityFollow
     DEF Next, vars, Finalize, CommitCycle

LEMMA FollowingIsTrajectory ==
  ASSUME TypeOK, FollowInv
  PROVE  ProjectionIsTrajectory
<1> SUFFICES ASSUME NEW o \in Owners, working[o] # NoWorking,
                    NEW n \in DOMAIN InitialNodes, NEW t \in QueryTimes,
                    ProjectNodeState(working[o], n, t) # NoState
             PROVE  /\ ProjectNodeState(working[o], n, t).position
                         = working[o].base.nodes[n].position
                             + Travelled(working[o].base, changes[o], n, t)
                    /\ ProjectNodeState(working[o], n, t).velocity
                         = VelocityAt(working[o].base, changes[o], n, t)
  BY DEF ProjectionIsTrajectory
<1>1. WorkingState(working[o]) /\ Follows(working[o], changes[o])
  BY DEF TypeOK, FollowInv
<1>2. t \in Counts
  BY WorldAssumption
<1> QED
  BY <1>1, <1>2, OnTrajectory

\* A projected position is where the velocities that were accepted lead to: no
\* sequence of changes, at whatever times, loses or repeats a stretch.
THEOREM ProjectionIsTrajectoryTheorem == Spec => []ProjectionIsTrajectory
BY InitFollow, NextFollow, FollowingIsTrajectory, TypeCorrect, Inductive, PTL
   DEF Spec
===============================================================================

--------------------------- MODULE NodeVectorsProofs ---------------------------
(***************************************************************************)
(* Machine-checked proofs about NodeVectors: the sorted vectors and the    *)
(* bisections of the code stand for the maps of WorldState, for any number *)
(* of nodes, owners, cycles and velocity changes and any width of times    *)
(* and versions.                                                           *)
(***************************************************************************)
EXTENDS NodeVectors, SignalRegistriesProofs, FiniteSetTheorems,
        FunctionTheorems

(***************************************************************************)
(* Vectors in the order of their NodeIds.                                  *)
(***************************************************************************)
Keyed(E) == \A e \in E : e.node \in Nat

Ordered(v) == \A i, j \in DOMAIN v : i < j => v[i].node < v[j].node

LEMMA EntriesAreKeyed == Keyed(NodeEntry) /\ Keyed(OverlayEntry)
BY DEF Keyed, NodeEntry, OverlayEntry

\* What is known of every vector.
LEMMA VectorShape ==
  ASSUME NEW E, Keyed(E), NEW v \in Seq(E)
  PROVE  /\ Len(v) \in Nat /\ DOMAIN v = 1 .. Len(v)
         /\ \A i \in 1 .. Len(v) : v[i] \in E /\ v[i].node \in Nat
         /\ Nodes(v) = {v[i].node : i \in 1 .. Len(v)}
         /\ Range(v) \subseteq E
<1>1. Len(v) \in Nat /\ DOMAIN v = 1 .. Len(v)
  BY LenProperties
<1>2. \A i \in 1 .. Len(v) : v[i] \in E
  BY ElementOfSeq
<1> QED
  BY <1>1, <1>2 DEF Keyed, Nodes, Range

\* A node has one entry.
LEMMA EntryAt ==
  ASSUME NEW E, Keyed(E), NEW v \in Seq(E), Ordered(v), NEW i \in DOMAIN v
  PROVE  TheEntry(v, v[i].node) = v[i]
<1>1. v[i] \in Range(v)
  BY DEF Range
<1>2. ASSUME NEW e \in Range(v), e.node = v[i].node
      PROVE  e = v[i]
  <2>1. PICK j \in DOMAIN v : e = v[j]
    BY DEF Range
  <2>2. i \in Nat /\ j \in Nat /\ v[i].node \in Nat /\ v[j].node \in Nat
    BY VectorShape
  <2>3. ~(i < j) /\ ~(j < i)
    BY <1>2, <2>1, <2>2 DEF Ordered
  <2> QED
    BY <2>1, <2>2, <2>3
<1> QED
  BY <1>1, <1>2 DEF TheEntry

LEMMA EntryOf ==
  ASSUME NEW E, Keyed(E), NEW v \in Seq(E), Ordered(v), NEW n \in Nodes(v)
  PROVE  TheEntry(v, n) \in E /\ TheEntry(v, n).node = n
<1>1. PICK i \in DOMAIN v : n = v[i].node
  BY DEF Nodes, Range
<1>2. v[i] \in E
  BY VectorShape
<1> QED
  BY <1>1, <1>2, EntryAt

\* The bisection ends before the first entry that is not less.
LEMMA Bisection ==
  ASSUME NEW E, Keyed(E), NEW v \in Seq(E), Ordered(v), NEW n \in Nat
  PROVE  /\ Position(v, n) \in 1 .. Len(v) + 1
         /\ \A i \in 1 .. Position(v, n) - 1 : v[i].node < n
         /\ \A i \in Position(v, n) .. Len(v) : n <= v[i].node
<1> DEFINE P == {i \in 1 .. Len(v) : ~(v[i].node < n)}
           k == Position(v, n)
<1>1. /\ Len(v) \in Nat /\ DOMAIN v = 1 .. Len(v)
      /\ \A i \in 1 .. Len(v) : v[i].node \in Nat
  BY VectorShape
<1>2. k = Min(P \cup {Len(v) + 1})
  BY <1>1 DEF Position, LowerBound
<1>3. P \subseteq 1 .. Len(v)
  OBVIOUS
<1> HIDE DEF P, k
<1>4. /\ k \in 1 .. Len(v) + 1
      /\ k <= Len(v) => k \in P
      /\ \A i \in P : k <= i
  BY <1>1, <1>2, <1>3, LeastPosition
<1>5. ASSUME NEW i \in 1 .. k - 1 PROVE v[i].node < n
  BY <1>1, <1>4 DEF P
<1>6. ASSUME NEW i \in k .. Len(v) PROVE n <= v[i].node
  <2>1. k \in 1 .. Len(v) /\ i \in 1 .. Len(v) /\ n <= v[k].node
    BY <1>1, <1>4 DEF P
  <2>2. k = i \/ v[k].node < v[i].node
    BY <2>1, <1>1 DEF Ordered
  <2>3. v[k].node \in Nat /\ v[i].node \in Nat
    BY <2>1, <1>1
  <2> QED
    BY <2>1, <2>2, <2>3
<1> QED
  BY <1>4, <1>5, <1>6 DEF k

\* Bisection finds the entry of every node that is there and no other.
LEMMA Lookup ==
  ASSUME NEW E, Keyed(E), NEW v \in Seq(E), Ordered(v), NEW n \in Nat
  PROVE  /\ Finds(v, n) <=> n \in Nodes(v)
         /\ Finds(v, n) => Found(v, n) = TheEntry(v, n)
<1> DEFINE k == Position(v, n)
<1>1. /\ Len(v) \in Nat /\ DOMAIN v = 1 .. Len(v)
      /\ \A i \in 1 .. Len(v) : v[i].node \in Nat
      /\ Nodes(v) = {v[i].node : i \in 1 .. Len(v)}
  BY VectorShape
<1>2. /\ k \in 1 .. Len(v) + 1
      /\ \A i \in 1 .. k - 1 : v[i].node < n
      /\ \A i \in k .. Len(v) : n <= v[i].node
  BY Bisection
<1>3. Finds(v, n) <=> k <= Len(v) /\ v[k].node = n
  BY DEF Finds
<1>4. Found(v, n) = v[k]
  BY DEF Found
<1> HIDE DEF k
<1>5. CASE k <= Len(v) /\ v[k].node = n
  <2>1. k \in DOMAIN v
    BY <1>1, <1>2, <1>5
  <2>2. TheEntry(v, n) = v[k]
    BY <2>1, <1>5, EntryAt
  <2> QED
    BY <2>1, <2>2, <1>1, <1>3, <1>4, <1>5
<1>6. CASE ~(k <= Len(v) /\ v[k].node = n)
  <2>1. ASSUME NEW i \in 1 .. Len(v), v[i].node = n PROVE FALSE
    <3>1. i \in k .. Len(v) /\ k \in 1 .. Len(v)
      BY <2>1, <1>1, <1>2
    <3>2. n <= v[k].node /\ v[k].node \in Nat
      BY <3>1, <1>1, <1>2
    <3>3. n < v[k].node /\ (k = i \/ v[k].node < v[i].node)
      BY <3>1, <3>2, <1>1, <1>6 DEF Ordered
    <3> QED
      BY <3>2, <3>3, <2>1
  <2> QED
    BY <2>1, <1>1, <1>3, <1>6
<1> QED
  BY <1>5, <1>6

\* Two vectors with the same entries stand for the same map.
LEMMA SameMap ==
  ASSUME NEW u, NEW v, Range(u) = Range(v)
  PROVE  Nodes(u) = Nodes(v) /\ Mapped(u) = Mapped(v)
BY DEF Mapped, Nodes, TheEntry

LEMMA MapType ==
  ASSUME NEW v \in Seq(NodeEntry), Ordered(v)
  PROVE  Mapped(v) \in [Nodes(v) -> NodeState]
<1>1. \A n \in Nodes(v) : TheEntry(v, n) \in NodeEntry
  BY EntryOf, EntriesAreKeyed
<1> QED
  BY <1>1 DEF Mapped, NodeEntry

(***************************************************************************)
(* Sorting.                                                                *)
(***************************************************************************)
Distinct(v) == \A i, j \in DOMAIN v : v[i].node = v[j].node => i = j

\* The position of an entry in the order is the number of the entries up to it.
LEMMA SortingOrder ==
  ASSUME NEW E, Keyed(E), NEW g \in Seq(E), Distinct(g)
  PROVE  \E p \in Bijection(DOMAIN g, DOMAIN g) :
           \A i, j \in DOMAIN g : i < j => g[p[i]].node <= g[p[j]].node
<1> DEFINE D == 1 .. Len(g)
           upTo(i) == {j \in D : g[j].node <= g[i].node}
           r == [i \in D |-> Cardinality(upTo(i))]
<1>1. /\ Len(g) \in Nat /\ DOMAIN g = D
      /\ \A i \in D : g[i].node \in Nat
  BY VectorShape
<1>2. IsFiniteSet(D) /\ Cardinality(D) = Len(g)
  BY <1>1, FS_Interval
<1> HIDE DEF D
<1>3. ASSUME NEW i \in D
      PROVE  IsFiniteSet(upTo(i)) /\ Cardinality(upTo(i)) \in D
  <2>1. upTo(i) \in SUBSET D
    OBVIOUS
  <2>2. i \in upTo(i)
    BY <1>1
  <2> HIDE DEF upTo
  <2>3. IsFiniteSet(upTo(i)) /\ Cardinality(upTo(i)) <= Len(g)
    BY <1>2, <2>1, FS_Subset
  <2>4. Cardinality(upTo(i)) \in Nat /\ Cardinality(upTo(i)) # 0
    BY <2>2, <2>3, FS_CardinalityType, FS_EmptySet
  <2> QED
    BY <2>3, <2>4, <1>1 DEF D
<1>4. ASSUME NEW i \in D, NEW k \in D, g[i].node < g[k].node
      PROVE  r[i] < r[k]
  <2>1. upTo(i) \in SUBSET upTo(k)
    BY <1>1, <1>4
  <2>2. k \in upTo(k) /\ k \notin upTo(i)
    BY <1>1, <1>4
  <2>3. IsFiniteSet(upTo(k)) /\ Cardinality(upTo(i)) \in D
          /\ Cardinality(upTo(k)) \in D
    BY <1>3
  <2>4. r[i] = Cardinality(upTo(i)) /\ r[k] = Cardinality(upTo(k))
    OBVIOUS
  <2> HIDE DEF upTo, r
  <2>5. /\ Cardinality(upTo(i)) <= Cardinality(upTo(k))
        /\ Cardinality(upTo(k)) # Cardinality(upTo(i))
    BY <2>1, <2>2, <2>3, FS_Subset
  <2> QED
    BY <2>3, <2>4, <2>5, <1>1 DEF D
<1>5. r \in [D -> D]
  BY <1>3
<1> HIDE DEF r
<1>6. r \in Injection(D, D)
  <2> SUFFICES ASSUME NEW i \in D, NEW k \in D, r[i] = r[k] PROVE i = k
    BY <1>5, Fun_IsInj
  <2>1. r[i] \in Nat /\ r[k] \in Nat
    BY <1>1, <1>5 DEF D
  <2>2. g[i].node = g[k].node
    BY <2>1, <1>1, <1>4
  <2> QED
    BY <2>2, <1>1 DEF Distinct
<1>7. r \in Bijection(D, D)
  <2>1. r \in Surjection(D, D)
    BY <1>2, <1>6, FS_Injection
  <2> QED
    BY <2>1, <1>6, Fun_IsBij
<1> DEFINE p == Inverse(r, D, D)
<1>8. /\ p \in Bijection(D, D) /\ p \in [D -> D]
      /\ \A s \in D : p[r[s]] = s
  BY <1>7, Fun_BijInverse, Fun_BijectionProperties
<1>9. \A t \in D : \E s \in D : r[s] = t
  BY <1>7, Fun_BijectionProperties
<1> HIDE DEF p
<1>10. \A t \in D : r[p[t]] = t
  BY <1>8, <1>9
<1>11. ASSUME NEW i \in D, NEW j \in D, i < j
       PROVE  g[p[i]].node <= g[p[j]].node
  <2>1. p[i] \in D /\ p[j] \in D
    BY <1>8
  <2>2. ~(g[p[j]].node < g[p[i]].node)
    <3> SUFFICES ASSUME g[p[j]].node < g[p[i]].node PROVE FALSE
      OBVIOUS
    <3>1. r[p[j]] < r[p[i]]
      BY <2>1, <1>4
    <3> QED
      BY <3>1, <1>1, <1>10, <1>11 DEF D
  <2> QED
    BY <2>1, <2>2, <1>1
<1> QED
  BY <1>1, <1>8, <1>11

\* A list that names every node once is sorted and keeps its entries.
LEMMA Sorted ==
  ASSUME NEW E, Keyed(E), NEW g \in Seq(E), Distinct(g)
  PROVE  /\ SnapshotNodes(g) \in Seq(E)
         /\ Range(SnapshotNodes(g)) = Range(g)
         /\ Ordered(SnapshotNodes(g))
<1> DEFINE D == DOMAIN g
           p == CHOOSE q \in Bijection(D, D) :
                  \A i, j \in D : i < j => g[q[i]].node <= g[q[j]].node
           v == [i \in D |-> g[p[i]]]
<1>1. /\ Len(g) \in Nat /\ D = 1 .. Len(g)
      /\ \A i \in D : g[i] \in E /\ g[i].node \in Nat
  BY VectorShape
<1>2. /\ p \in Bijection(D, D)
      /\ \A i, j \in D : i < j => g[p[i]].node <= g[p[j]].node
  BY SortingOrder
<1>3. SortedById(g) = v
  BY DEF SortedById
<1> HIDE DEF p, D
<1>4. /\ \A i \in D : p[i] \in D
      /\ \A i, j \in D : p[i] = p[j] => i = j
      /\ \A t \in D : \E s \in D : p[s] = t
  BY <1>2, Fun_BijectionProperties
<1>5. v \in Seq(E) /\ Len(v) = Len(g) /\ DOMAIN v = D
  <2>1. v \in [1 .. Len(g) -> E]
    BY <1>1, <1>4
  <2>2. v \in Seq(E)
    BY <2>1, <1>1, IsASeq
  <2> QED
    BY <2>2, <1>1, LenProperties
<1>6. Ordered(v)
  <2> SUFFICES ASSUME NEW i \in D, NEW j \in D, i < j
               PROVE  v[i].node < v[j].node
    BY <1>5 DEF Ordered
  <2>1. p[i] # p[j] /\ p[i] \in D /\ p[j] \in D
    BY <1>1, <1>4
  <2>2. g[p[i]].node # g[p[j]].node
    BY <2>1 DEF Distinct, D
  <2> QED
    BY <2>1, <2>2, <1>1, <1>2
<1>7. Range(v) = Range(g)
  BY <1>4, <1>5 DEF Range, D
<1> HIDE DEF v
<1>8. ~\E i \in 2 .. Len(v) : v[i - 1].node = v[i].node
  <2> SUFFICES ASSUME NEW i \in 2 .. Len(v), v[i - 1].node = v[i].node
               PROVE  FALSE
    OBVIOUS
  <2>1. i \in D /\ i - 1 \in D /\ i - 1 < i
    BY <1>1, <1>5
  <2>2. v[i - 1].node < v[i].node /\ v[i].node \in Nat
    BY <2>1, <1>5, <1>6, VectorShape DEF Ordered
  <2> QED
    BY <2>2
<1>9. SnapshotNodes(g) = v
  BY <1>3, <1>8 DEF SnapshotNodes
<1> QED
  BY <1>5, <1>6, <1>7, <1>9

(***************************************************************************)
(* The overlays of a working state.                                        *)
(***************************************************************************)

LEMMA InsertInOrder ==
  ASSUME NEW E, Keyed(E), NEW v \in Seq(E), Ordered(v), NEW e \in E,
         NEW k \in 1 .. Len(v) + 1,
         \A i \in 1 .. k - 1 : v[i].node < e.node,
         \A i \in k .. Len(v) : e.node < v[i].node
  PROVE  LET w == InsertAt(v, k, e)
         IN  /\ w \in Seq(E) /\ Ordered(w)
             /\ Range(w) = Range(v) \cup {e}
<1> DEFINE R == {p \in E \X E : p[1].node < p[2].node}
           w == InsertAt(v, k, e)
<1>1. /\ Len(v) \in Nat /\ DOMAIN v = 1 .. Len(v)
      /\ \A i \in 1 .. Len(v) : v[i] \in E
  BY VectorShape
<1>2. \A i, j \in 1 .. Len(v) : i < j => <<v[i], v[j]>> \in R
  BY <1>1 DEF Ordered
<1>3. \A i \in 1 .. k - 1 : <<v[i], e>> \in R
  BY <1>1
<1>4. \A i \in k .. Len(v) : <<e, v[i]>> \in R
  BY <1>1
<1>5. \A c, d : <<c, d>> \in R => c.node < d.node
  OBVIOUS
<1> HIDE DEF R
<1>6. /\ w \in Seq(E) /\ Len(w) = Len(v) + 1
      /\ Range(w) = Range(v) \cup {e}
      /\ \A i, j \in 1 .. Len(w) : i < j => <<w[i], w[j]>> \in R
  BY <1>2, <1>3, <1>4, InsertKeepsOrder
<1> HIDE DEF w
<1>7. Ordered(w)
  BY <1>5, <1>6, LenProperties DEF Ordered
<1> QED
  BY <1>6, <1>7 DEF w

\* Whether an entry is replaced or inserted, the vector stays in order, the
\* node has the new entry and every other node has the entry it had.
LEMMA Overlaid ==
  ASSUME NEW E, Keyed(E), NEW v \in Seq(E), Ordered(v), NEW e \in E
  PROVE  LET w == WithOverlay(v, e)
         IN  /\ w \in Seq(E) /\ Ordered(w)
             /\ Nodes(w) = Nodes(v) \cup {e.node}
             /\ TheEntry(w, e.node) = e
             /\ \A n \in Nodes(v) \ {e.node} : TheEntry(w, n) = TheEntry(v, n)
<1> DEFINE k == Position(v, e.node)
           w == WithOverlay(v, e)
<1>1. /\ Len(v) \in Nat /\ DOMAIN v = 1 .. Len(v)
      /\ \A i \in 1 .. Len(v) : v[i] \in E /\ v[i].node \in Nat
      /\ Nodes(v) = {v[i].node : i \in 1 .. Len(v)}
  BY VectorShape
<1>2. e.node \in Nat
  BY DEF Keyed
<1>3. /\ k \in 1 .. Len(v) + 1
      /\ \A i \in 1 .. k - 1 : v[i].node < e.node
      /\ \A i \in k .. Len(v) : e.node <= v[i].node
  BY <1>2, Bisection
<1>4. /\ w \in Seq(E) /\ Ordered(w) /\ e \in Range(w)
      /\ Range(w) \subseteq Range(v) \cup {e}
      /\ \A d \in Range(v) : d.node # e.node => d \in Range(w)
  <2>1. CASE Finds(v, e.node)
    <3>1. k \in DOMAIN v /\ v[k].node = e.node
      BY <2>1, <1>1, <1>3 DEF Finds
    <3>2. w = [v EXCEPT ![k] = e]
      BY <2>1 DEF WithOverlay
    <3> HIDE DEF w, k
    <3>3. /\ w \in Seq(E) /\ DOMAIN w = DOMAIN v /\ w[k] = e
          /\ \A i \in DOMAIN v : w[i] = IF i = k THEN e ELSE v[i]
      BY <3>1, <3>2, ExceptSeq
    <3>4. \A i \in DOMAIN v : w[i].node = v[i].node
      BY <3>1, <3>3
    <3>5. Ordered(w)
      BY <3>3, <3>4 DEF Ordered
    <3>6. \A d \in Range(v) : d.node # e.node => d \in Range(w)
      BY <3>1, <3>3 DEF Range
    <3>7. Range(w) \subseteq Range(v) \cup {e} /\ e \in Range(w)
      BY <3>1, <3>3 DEF Range
    <3> QED
      BY <3>3, <3>5, <3>6, <3>7
  <2>2. CASE ~Finds(v, e.node)
    <3>1. w = InsertAt(v, k, e)
      BY <2>2 DEF WithOverlay
    <3>2. \A i \in 1 .. Len(v) : v[i].node # e.node
      BY <2>2, <1>1, <1>2, Lookup
    <3> HIDE DEF w, k
    <3>3. \A i \in k .. Len(v) : e.node < v[i].node
      BY <1>1, <1>2, <1>3, <3>2
    <3>4. /\ w \in Seq(E) /\ Ordered(w)
          /\ Range(w) = Range(v) \cup {e}
      BY <1>3, <3>1, <3>3, InsertInOrder
    <3> QED
      BY <3>4
  <2> QED
    BY <2>1, <2>2
<1> HIDE DEF w, k
<1>5. Nodes(w) = Nodes(v) \cup {e.node}
  BY <1>4 DEF Nodes
<1>6. \A d \in Range(w) : TheEntry(w, d.node) = d
  BY <1>4, EntryAt DEF Range
<1>7. ASSUME NEW n \in Nodes(v) \ {e.node}
      PROVE  TheEntry(w, n) = TheEntry(v, n)
  <2>1. PICK i \in DOMAIN v : v[i].node = n
    BY DEF Nodes, Range
  <2>2. v[i] \in Range(w)
    BY <2>1, <1>4 DEF Range
  <2> QED
    BY <2>1, <2>2, <1>6, EntryAt
<1> QED
  BY <1>4, <1>5, <1>6, <1>7 DEF w

(***************************************************************************)
(* The types of the vectors.  The invariant says of every vector that it   *)
(* is in order and lists the nodes of the world, the overlays some of      *)
(* them.                                                                   *)
(***************************************************************************)
Complete(vector) == Ordered(vector) /\ Nodes(vector) = DOMAIN InitialNodes

SnapshotOK(s) == s \in VectorSnapshot /\ Complete(s.nodes)

DeltaOK(d) == d \in VectorDelta /\ Complete(d.nodes)

WorkingOK(w) ==
  /\ w \in WorkingStates(VectorSnapshot, Seq(OverlayEntry))
  /\ Complete(w.base.nodes)
  /\ Ordered(w.overlays) /\ Nodes(w.overlays) \subseteq DOMAIN InitialNodes

VInv ==
  /\ SnapshotOK(currentSnapshot)
  /\ lastCommittedCycle \in CycleIds \cup {NoCycle}
  /\ working = [o \in Owners |-> working[o]]
  /\ delta = [o \in Owners |-> delta[o]]
  /\ deltaBase = [o \in Owners |-> deltaBase[o]]
  /\ \A o \in Owners :
       /\ working[o] # NoWorking => WorkingOK(working[o])
       /\ delta[o] # NoDelta => DeltaOK(delta[o]) /\ SnapshotOK(deltaBase[o])
       /\ deltaBase[o] # NoDelta => SnapshotOK(deltaBase[o])

LEMMA ProjectionType ==
  ASSUME NEW state \in NodeState, NEW anchor \in Counts, NEW t \in Counts
  PROVE  \/ ProjectFromAnchor(state, anchor, t) = NoState
         \/ ProjectFromAnchor(state, anchor, t) \in NodeState
<1>1. CASE t < anchor \/ CheckedSubtractCounts(t, anchor) = NoCount
  BY <1>1 DEF ProjectFromAnchor
<1>2. CASE ~(t < anchor) /\ CheckedSubtractCounts(t, anchor) # NoCount
  <2> DEFINE elapsed == CheckedSubtractCounts(t, anchor)
  <2>1. elapsed \in Int
    BY <1>2, WidthAssumption DEF CheckedSubtractCounts, Counts, MinCount
  <2>2. ProjectFromAnchor(state, anchor, t)
          = [state EXCEPT !.position = @ + state.velocity * elapsed]
    BY <1>2, Zenon DEF ProjectFromAnchor
  <2> HIDE DEF elapsed
  <2>3. state.position + state.velocity * elapsed \in Int
    BY <2>1 DEF NodeState
  <2> QED
    BY <2>2, <2>3 DEF NodeState
<1> QED
  BY <1>1, <1>2

\* A node is projected from its own entry, or not at all.
LEMMA ProjectedFrom ==
  ASSUME NEW w, WorkingOK(w), NEW n \in Nat, NEW t
  PROVE  Projected(w, n, t) =
           IF n \notin DOMAIN InitialNodes
             THEN NoState
             ELSE IF n \in Nodes(w.overlays)
                    THEN ProjectFromAnchor(TheEntry(w.overlays, n).state,
                                           TheEntry(w.overlays, n).anchor, t)
                    ELSE ProjectFromAnchor(TheEntry(w.base.nodes, n).state,
                                           w.base.committedAt, t)
<1>1. /\ w.base.nodes \in Seq(NodeEntry) /\ w.overlays \in Seq(OverlayEntry)
      /\ Ordered(w.base.nodes) /\ Nodes(w.base.nodes) = DOMAIN InitialNodes
      /\ Ordered(w.overlays)
  BY DEF WorkingOK, WorkingStates, VectorSnapshot, Complete
<1>2. /\ Finds(w.base.nodes, n) <=> n \in DOMAIN InitialNodes
      /\ Finds(w.base.nodes, n) =>
           Found(w.base.nodes, n) = TheEntry(w.base.nodes, n)
  BY <1>1, Lookup, EntriesAreKeyed
<1>3. /\ Finds(w.overlays, n) <=> n \in Nodes(w.overlays)
      /\ Finds(w.overlays, n) =>
           Found(w.overlays, n) = TheEntry(w.overlays, n)
  BY <1>1, Lookup, EntriesAreKeyed
<1> QED
  BY <1>2, <1>3 DEF Projected

LEMMA ProjectedType ==
  ASSUME NEW w, WorkingOK(w), NEW n \in Nat, NEW t \in Counts
  PROVE  Projected(w, n, t) = NoState \/ Projected(w, n, t) \in NodeState
<1>1. /\ w.base.nodes \in Seq(NodeEntry) /\ w.overlays \in Seq(OverlayEntry)
      /\ Ordered(w.base.nodes) /\ Nodes(w.base.nodes) = DOMAIN InitialNodes
      /\ Ordered(w.overlays) /\ w.base.committedAt \in Counts
  BY DEF WorkingOK, WorkingStates, VectorSnapshot, Complete
<1>2. CASE n \in DOMAIN InitialNodes /\ n \in Nodes(w.overlays)
  <2>1. TheEntry(w.overlays, n) \in OverlayEntry
    BY <1>1, <1>2, EntryOf, EntriesAreKeyed
  <2> QED
    BY <2>1, <1>2, ProjectedFrom, ProjectionType DEF OverlayEntry
<1>3. CASE n \in DOMAIN InitialNodes /\ n \notin Nodes(w.overlays)
  <2>1. TheEntry(w.base.nodes, n) \in NodeEntry
    BY <1>1, <1>3, EntryOf, EntriesAreKeyed
  <2> QED
    BY <2>1, <1>1, <1>3, ProjectedFrom, ProjectionType DEF NodeEntry
<1> QED
  BY <1>2, <1>3, ProjectedFrom

(***************************************************************************)
(* The maps the vectors stand for.                                         *)
(***************************************************************************)
LEMMA SameTypes == World!NodeState = NodeState /\ World!Counts = Counts
BY DEF World!NodeState, NodeState, World!Counts, Counts, World!MinCount,
       MinCount

LEMMA SameLaw ==
  ASSUME NEW s, NEW a, NEW t
  PROVE  World!ProjectFromAnchor(s, a, t) = ProjectFromAnchor(s, a, t)
BY DEF World!ProjectFromAnchor, ProjectFromAnchor,
       World!CheckedSubtractCounts, CheckedSubtractCounts, World!Counts,
       Counts, World!MinCount, MinCount

LEMMA MappedSnapshotIs ==
  ASSUME NEW s, SnapshotOK(s)
  PROVE  /\ MappedSnapshot(s) = [version |-> s.version,
                                 committedAt |-> s.committedAt,
                                 nodes |-> Mapped(s.nodes)]
         /\ MappedSnapshot(s) \in World!Snapshot
         /\ s # NoDelta
<1>1. /\ s = [version |-> s.version, committedAt |-> s.committedAt,
              nodes |-> s.nodes]
      /\ s.version \in FirstVersion .. MaxVersion /\ s.committedAt \in Counts
      /\ s.nodes \in Seq(NodeEntry)
      /\ Ordered(s.nodes) /\ Nodes(s.nodes) = DOMAIN InitialNodes
  BY DEF SnapshotOK, VectorSnapshot, Complete
<1>2. MappedSnapshot(s) = [version |-> s.version,
                           committedAt |-> s.committedAt,
                           nodes |-> Mapped(s.nodes)]
  BY <1>1 DEF MappedSnapshot
<1>3. Mapped(s.nodes) \in [DOMAIN InitialNodes -> NodeState]
  BY <1>1, MapType
<1>4. MappedSnapshot(s) \in World!Snapshot
  BY <1>1, <1>2, <1>3, SameTypes DEF World!Snapshot
<1> QED
  BY <1>2, <1>4, MarkerAssumption DEF SnapshotOK

LEMMA MappedDeltaIs ==
  ASSUME NEW d, DeltaOK(d)
  PROVE  /\ MappedSnapshot(d) = [cycleId |-> d.cycleId,
                                 baseVersion |-> d.baseVersion,
                                 effectiveAt |-> d.effectiveAt,
                                 nodes |-> Mapped(d.nodes)]
         /\ MappedSnapshot(d) \in World!DeltaSet
         /\ MappedSnapshot(d) # NoDelta
<1>1. /\ d = [cycleId |-> d.cycleId, baseVersion |-> d.baseVersion,
              effectiveAt |-> d.effectiveAt, nodes |-> d.nodes]
      /\ d.cycleId \in CycleIds /\ d.effectiveAt \in Counts
      /\ d.baseVersion \in FirstVersion .. MaxVersion
      /\ d.nodes \in Seq(NodeEntry)
      /\ Ordered(d.nodes) /\ Nodes(d.nodes) = DOMAIN InitialNodes
  BY DEF DeltaOK, VectorDelta, Complete
<1>2. MappedSnapshot(d) = [cycleId |-> d.cycleId,
                           baseVersion |-> d.baseVersion,
                           effectiveAt |-> d.effectiveAt,
                           nodes |-> Mapped(d.nodes)]
  BY <1>1 DEF MappedSnapshot
<1>3. Mapped(d.nodes) \in [DOMAIN InitialNodes -> NodeState]
  BY <1>1, MapType
<1>4. MappedSnapshot(d) \in World!DeltaSet
  BY <1>1, <1>2, <1>3, SameTypes DEF World!DeltaSet
<1> QED
  BY <1>2, <1>4, MarkerAssumption

MappedOverlays(overlays) ==
  [n \in Nodes(overlays) |-> [state |-> TheEntry(overlays, n).state,
                              anchor |-> TheEntry(overlays, n).anchor]]

LEMMA MappedWorkingIs ==
  ASSUME NEW w, WorkingOK(w)
  PROVE  /\ SnapshotOK(w.base)
         /\ MappedWorking(w) = [base |-> MappedSnapshot(w.base),
                                cycleId |-> w.cycleId,
                                startedAt |-> w.startedAt,
                                overlays |-> MappedOverlays(w.overlays)]
         /\ World!WorkingState(MappedWorking(w))
         /\ MappedWorking(w) # NoWorking
         /\ w # NoWorking
<1>1. /\ w = [base |-> w.base, cycleId |-> w.cycleId,
              startedAt |-> w.startedAt, overlays |-> w.overlays]
      /\ w.base \in VectorSnapshot /\ w.cycleId \in CycleIds
      /\ w.startedAt \in Counts /\ w.overlays \in Seq(OverlayEntry)
      /\ Ordered(w.overlays) /\ Nodes(w.overlays) \subseteq DOMAIN InitialNodes
  BY DEF WorkingOK, WorkingStates
<1>2. SnapshotOK(w.base)
  BY <1>1 DEF WorkingOK, SnapshotOK
<1>3. MappedWorking(w) = [base |-> MappedSnapshot(w.base),
                          cycleId |-> w.cycleId,
                          startedAt |-> w.startedAt,
                          overlays |-> MappedOverlays(w.overlays)]
  <2>1. MappedWorking(w) = [w EXCEPT !.base = MappedSnapshot(w.base),
                                     !.overlays = MappedOverlays(w.overlays)]
    BY DEF MappedWorking, MappedOverlays
  <2> QED
    BY <1>1, <2>1
<1>4. MappedOverlays(w.overlays)
        \in [Nodes(w.overlays) -> [state : NodeState, anchor : Counts]]
  <2>1. \A n \in Nodes(w.overlays) : TheEntry(w.overlays, n) \in OverlayEntry
    BY <1>1, EntryOf, EntriesAreKeyed
  <2> QED
    BY <2>1 DEF MappedOverlays, OverlayEntry
<1>5. MappedSnapshot(w.base) \in World!Snapshot
  BY <1>2, MappedSnapshotIs
<1>6. World!WorkingState(MappedWorking(w))
  <2> DEFINE m == MappedWorking(w)
  <2>1. /\ DOMAIN m = {"base", "cycleId", "startedAt", "overlays"}
        /\ m.base = MappedSnapshot(w.base) /\ m.cycleId = w.cycleId
        /\ m.startedAt = w.startedAt
        /\ m.overlays = MappedOverlays(w.overlays)
    BY <1>3
  <2> HIDE DEF m
  <2>2. \A n \in DOMAIN m.overlays :
          m.overlays[n] \in [state : NodeState, anchor : Counts]
    BY <2>1, <1>4
  <2>3. DOMAIN m.overlays \subseteq DOMAIN InitialNodes
    BY <2>1, <1>1, <1>4
  <2>4. World!WorkingState(m)
    BY <2>1, <2>2, <2>3, <1>1, <1>5, SameTypes DEF World!WorkingState
  <2> QED
    BY <2>4 DEF m
<1>7. MappedWorking(w) \in WorkingStates(World!Snapshot, OverlayMaps)
  <2>1. MappedOverlays(w.overlays) \in OverlayMaps
    BY <1>1, <1>4 DEF OverlayMaps
  <2> QED
    BY <2>1, <1>1, <1>3, <1>5 DEF WorkingStates
<1> QED
  BY <1>2, <1>3, <1>6, <1>7, MarkerAssumption DEF WorkingOK

\* A bisection of the vectors is a lookup in the maps.
LEMMA MappedProjection ==
  ASSUME NEW w, WorkingOK(w), NEW n \in Nat, NEW t
  PROVE  /\ Projected(w, n, t) = World!ProjectState(MappedWorking(w), n, t)
         /\ NodeStateAt(w, n, t)
              = World!ProjectNodeState(MappedWorking(w), n, t)
<1> DEFINE m == MappedWorking(w)
<1>1. /\ m.base = MappedSnapshot(w.base) /\ m.startedAt = w.startedAt
      /\ m.overlays = MappedOverlays(w.overlays)
  BY MappedWorkingIs
<1>2. /\ m.base.nodes = Mapped(w.base.nodes)
      /\ m.base.committedAt = w.base.committedAt
      /\ Nodes(w.base.nodes) = DOMAIN InitialNodes
  BY <1>1, MappedWorkingIs, MappedSnapshotIs DEF WorkingOK, Complete
<1> HIDE DEF m
<1>3. Projected(w, n, t) = World!ProjectState(m, n, t)
  <2>1. CASE n \notin DOMAIN InitialNodes
    BY <2>1, <1>2, ProjectedFrom DEF World!ProjectState, Mapped
  <2>2. CASE n \in DOMAIN InitialNodes /\ n \in Nodes(w.overlays)
    <3>1. /\ n \in DOMAIN m.base.nodes /\ n \in DOMAIN m.overlays
          /\ m.overlays[n].state = TheEntry(w.overlays, n).state
          /\ m.overlays[n].anchor = TheEntry(w.overlays, n).anchor
      BY <2>2, <1>1, <1>2 DEF Mapped, MappedOverlays
    <3> QED
      BY <2>2, <3>1, ProjectedFrom, SameLaw DEF World!ProjectState
  <2>3. CASE n \in DOMAIN InitialNodes /\ n \notin Nodes(w.overlays)
    <3>1. /\ n \in DOMAIN m.base.nodes /\ n \notin DOMAIN m.overlays
          /\ m.base.nodes[n] = TheEntry(w.base.nodes, n).state
      BY <2>3, <1>1, <1>2 DEF Mapped, MappedOverlays
    <3> QED
      BY <2>3, <3>1, <1>2, ProjectedFrom, SameLaw DEF World!ProjectState
  <2> QED
    BY <2>1, <2>2, <2>3
<1> QED
  BY <1>1, <1>3 DEF NodeStateAt, World!ProjectNodeState, m

(***************************************************************************)
(* What the operations do to a working state.                              *)
(***************************************************************************)
LEMMA Created ==
  ASSUME NEW s, SnapshotOK(s), NEW c \in CycleIds, NEW t \in Counts
  PROVE  LET w == [base |-> s, cycleId |-> c, startedAt |-> t,
                   overlays |-> <<>>]
         IN  /\ WorkingOK(w)
             /\ MappedWorking(w) = [base |-> MappedSnapshot(s), cycleId |-> c,
                                    startedAt |-> t,
                                    overlays |-> [n \in {} |-> 0]]
<1> DEFINE w == [base |-> s, cycleId |-> c, startedAt |-> t,
                 overlays |-> <<>>]
<1>1. <<>> \in Seq(OverlayEntry) /\ Ordered(<<>>) /\ Nodes(<<>>) = {}
  BY DEF Ordered, Nodes, Range
<1>2. w \in WorkingStates(VectorSnapshot, Seq(OverlayEntry))
  BY <1>1 DEF WorkingStates, SnapshotOK
<1>3. WorkingOK(w)
  BY <1>1, <1>2 DEF WorkingOK, SnapshotOK
<1>4. MappedOverlays(<<>>) = [n \in {} |-> 0]
  BY <1>1 DEF MappedOverlays
<1>5. MappedWorking(w) = [base |-> MappedSnapshot(w.base),
                          cycleId |-> w.cycleId, startedAt |-> w.startedAt,
                          overlays |-> MappedOverlays(w.overlays)]
  BY <1>3, MappedWorkingIs
<1> QED
  BY <1>3, <1>4, <1>5

\* A velocity change anchors the node anew, in the vector as in the map.
LEMMA Updated ==
  ASSUME NEW w, WorkingOK(w), NEW n \in Nat, NEW v \in Int, NEW t \in Counts,
         NodeStateAt(w, n, t) # NoState
  PROVE  LET u == [w EXCEPT !.overlays =
                     WithOverlay(@, Overlay(w, n, v, t))]
         IN  /\ WorkingOK(u)
             /\ MappedWorking(u)
                  = World!UpdateVelocity(MappedWorking(w), n, v, t)
<1> DEFINE e == Overlay(w, n, v, t)
           over == WithOverlay(w.overlays, e)
           u == [w EXCEPT !.overlays = over]
           m == MappedWorking(w)
           moved == [state |-> e.state, anchor |-> e.anchor]
<1>1. /\ NodeStateAt(w, n, t) \in NodeState /\ n \in DOMAIN InitialNodes
      /\ NodeStateAt(w, n, t) = World!ProjectNodeState(m, n, t)
  BY ProjectedType, ProjectedFrom, MappedProjection DEF NodeStateAt
<1>2. /\ e \in OverlayEntry /\ e.node = n /\ e.anchor = t
      /\ e.state = [World!ProjectNodeState(m, n, t) EXCEPT !.velocity = v]
  BY <1>1 DEF Overlay, OverlayEntry, NodeState
<1>3. /\ w.overlays \in Seq(OverlayEntry) /\ Ordered(w.overlays)
      /\ Nodes(w.overlays) \subseteq DOMAIN InitialNodes
  BY DEF WorkingOK, WorkingStates
<1>4. /\ m.overlays = MappedOverlays(w.overlays)
      /\ m = [base |-> MappedSnapshot(w.base), cycleId |-> w.cycleId,
              startedAt |-> w.startedAt, overlays |-> m.overlays]
  BY MappedWorkingIs
<1>5. World!UpdateVelocity(m, n, v, t)
        = [m EXCEPT !.overlays = [k \in DOMAIN m.overlays \cup {n} |->
                                    IF k = n THEN moved ELSE m.overlays[k]]]
  BY <1>2 DEF World!UpdateVelocity
<1> HIDE DEF e, m
<1>6. /\ over \in Seq(OverlayEntry) /\ Ordered(over)
      /\ Nodes(over) = Nodes(w.overlays) \cup {n}
      /\ TheEntry(over, n) = e
      /\ \A k \in Nodes(w.overlays) \ {n} :
           TheEntry(over, k) = TheEntry(w.overlays, k)
  BY <1>2, <1>3, Overlaid, EntriesAreKeyed
<1> HIDE DEF over
<1>7. /\ u = [base |-> w.base, cycleId |-> w.cycleId,
              startedAt |-> w.startedAt, overlays |-> over]
      /\ u.base = w.base /\ u.overlays = over
  BY DEF WorkingOK, WorkingStates
<1> HIDE DEF u
<1>8. WorkingOK(u)
  BY <1>1, <1>3, <1>6, <1>7 DEF WorkingOK, WorkingStates
<1>9. MappedWorking(u) = [base |-> MappedSnapshot(w.base),
                          cycleId |-> w.cycleId, startedAt |-> w.startedAt,
                          overlays |-> MappedOverlays(over)]
  BY <1>7, <1>8, MappedWorkingIs
<1>10. MappedOverlays(over) = [k \in DOMAIN m.overlays \cup {n} |->
                                 IF k = n THEN moved ELSE m.overlays[k]]
  BY <1>4, <1>6 DEF MappedOverlays
<1>11. MappedWorking(u) = World!UpdateVelocity(m, n, v, t)
  BY <1>4, <1>5, <1>9, <1>10
<1> QED
  BY <1>8, <1>11 DEF u, over, e, m

\* The replacements of a working state, listed as its snapshot lists them.
LEMMA Replaced ==
  ASSUME NEW w, WorkingOK(w), NEW t \in Counts, t >= w.startedAt,
         \A i \in DOMAIN w.base.nodes : Replacements(w, t)[i].state # NoState
  PROVE  LET d == [cycleId |-> w.cycleId, baseVersion |-> w.base.version,
                   effectiveAt |-> t, nodes |-> Replacements(w, t)]
         IN  /\ DeltaOK(d)
             /\ World!MayFinalize(MappedWorking(w), t)
             /\ MappedSnapshot(d)
                  = World!FinalizeDeltaSet(MappedWorking(w), t)
<1> DEFINE r == Replacements(w, t)
           b == w.base.nodes
           m == MappedWorking(w)
           d == [cycleId |-> w.cycleId, baseVersion |-> w.base.version,
                 effectiveAt |-> t, nodes |-> r]
<1>1. /\ b \in Seq(NodeEntry) /\ Ordered(b) /\ Nodes(b) = DOMAIN InitialNodes
      /\ w.cycleId \in CycleIds /\ w.base.version \in FirstVersion .. MaxVersion
  BY DEF WorkingOK, WorkingStates, VectorSnapshot, Complete
<1> DEFINE at(i) == [node |-> b[i].node, state |-> Projected(w, b[i].node, t)]
<1>2. r = [i \in DOMAIN b |-> at(i)]
  BY DEF Replacements
<1>3. \A i \in DOMAIN b : r[i].state # NoState
  OBVIOUS
<1> HIDE DEF r, b
<1>4. /\ Len(b) \in Nat /\ DOMAIN b = 1 .. Len(b)
      /\ \A i \in 1 .. Len(b) : b[i].node \in Nat
      /\ Nodes(b) = {b[i].node : i \in 1 .. Len(b)}
  BY <1>1, VectorShape, EntriesAreKeyed
<1>5. DOMAIN r = DOMAIN b /\ \A i \in DOMAIN b : r[i] = at(i)
  BY <1>2
<1>6. \A i \in DOMAIN b : Projected(w, b[i].node, t) # NoState
  BY <1>5, <1>3
<1>7. \A i \in DOMAIN b : r[i] \in NodeEntry
  BY <1>4, <1>5, <1>6, ProjectedType DEF NodeEntry
<1>8. r \in Seq(NodeEntry)
  <2>1. r = [i \in 1 .. Len(b) |-> r[i]]
    BY <1>4 DEF Replacements, r, b
  <2>2. r \in [1 .. Len(b) -> NodeEntry]
    BY <2>1, <1>4, <1>7
  <2> QED
    BY <2>2, <1>4, IsASeq
<1>9. Ordered(r) /\ Nodes(r) = DOMAIN InitialNodes
  <2>1. Ordered(r)
    BY <1>1, <1>5 DEF Ordered
  <2>2. Nodes(r) = Nodes(b)
    BY <1>5 DEF Nodes, Range
  <2> QED
    BY <2>1, <2>2, <1>1
<1>10. DeltaOK(d)
  BY <1>1, <1>8, <1>9 DEF DeltaOK, VectorDelta, Complete
<1>11. /\ m.base.nodes = Mapped(b) /\ m.base.version = w.base.version
      /\ m.cycleId = w.cycleId /\ m.startedAt = w.startedAt
      /\ DOMAIN m.base.nodes = DOMAIN InitialNodes
  <2>1. /\ m.base = MappedSnapshot(w.base) /\ m.cycleId = w.cycleId
        /\ m.startedAt = w.startedAt /\ SnapshotOK(w.base)
    BY MappedWorkingIs
  <2>2. m.base.nodes = Mapped(b) /\ m.base.version = w.base.version
    BY <2>1, MappedSnapshotIs DEF b
  <2> QED
    BY <2>1, <2>2, <1>1 DEF Mapped
<1> HIDE DEF m
<1>12. ASSUME NEW n \in DOMAIN InitialNodes
       PROVE  /\ World!ProjectState(m, n, t) # NoState
              /\ TheEntry(r, n).state = World!ProjectState(m, n, t)
  <2>1. PICK i \in DOMAIN b : b[i].node = n
    BY <1>1, <1>4
  <2>2. r[i].node = n /\ r[i].state = Projected(w, n, t)
    BY <2>1, <1>5
  <2>3. TheEntry(r, n) = r[i]
    BY <2>1, <2>2, <1>5, <1>8, <1>9, EntryAt, EntriesAreKeyed
  <2>4. Projected(w, n, t) = World!ProjectState(m, n, t)
    BY MappedProjection, VectorAssumption DEF m
  <2> QED
    BY <2>1, <2>2, <2>3, <2>4, <1>6
<1>13. World!MayFinalize(m, t)
  BY <1>11, <1>12 DEF World!MayFinalize
<1>14. Mapped(r) = [n \in DOMAIN m.base.nodes |-> World!ProjectState(m, n, t)]
  BY <1>9, <1>11, <1>12 DEF Mapped
<1>15. MappedSnapshot(d) = World!FinalizeDeltaSet(m, t)
  <2>1. MappedSnapshot(d) = [cycleId |-> w.cycleId,
                             baseVersion |-> w.base.version,
                             effectiveAt |-> t, nodes |-> Mapped(r)]
    BY <1>10, MappedDeltaIs
  <2> QED
    BY <2>1, <1>11, <1>14 DEF World!FinalizeDeltaSet
<1> QED
  BY <1>10, <1>13, <1>15 DEF m, r

(***************************************************************************)
(* What a commit takes.                                                    *)
(***************************************************************************)

\* Two entries of a vector in order have different nodes.
LEMMA OrderedIsDistinct ==
  ASSUME NEW v \in Seq(NodeEntry), Ordered(v)
  PROVE  Distinct(v)
<1> SUFFICES ASSUME NEW i \in DOMAIN v, NEW j \in DOMAIN v,
                    v[i].node = v[j].node, i # j
             PROVE  FALSE
  BY DEF Distinct
<1>1. i \in Nat /\ j \in Nat /\ v[i].node \in Nat /\ v[j].node \in Nat
  BY VectorShape, EntriesAreKeyed
<1>2. i < j \/ j < i
  BY <1>1
<1> QED
  BY <1>1, <1>2 DEF Ordered

\* However the order, the length or the ids of the finalized list were altered,
\* only the list as it was names the nodes of the snapshot position by position.
LEMMA OnlyTheReplacements ==
  ASSUME NEW c \in Seq(NodeEntry), Complete(c),
         NEW r \in Seq(NodeEntry), Complete(r),
         NEW s \in Submitted(r), IsFullReplacement(c, s)
  PROVE  s = r
<1>1. /\ Len(c) \in Nat /\ DOMAIN c = 1 .. Len(c)
      /\ \A i \in 1 .. Len(c) : c[i].node \in Nat
      /\ Nodes(c) = {c[i].node : i \in 1 .. Len(c)}
  BY VectorShape, EntriesAreKeyed
<1>2. /\ Len(r) \in Nat /\ DOMAIN r = 1 .. Len(r)
      /\ \A i \in 1 .. Len(r) : r[i] \in NodeEntry /\ r[i].node \in Nat
      /\ Nodes(r) = {r[i].node : i \in 1 .. Len(r)}
  BY VectorShape, EntriesAreKeyed
<1>3. /\ Len(s) = Len(c)
      /\ \A i \in 1 .. Len(c) : s[i].node = c[i].node
  BY <1>1 DEF IsFullReplacement
<1>4. \A i, j \in 1 .. Len(c) : s[i].node = s[j].node => i = j
  BY <1>1, <1>3, OrderedIsDistinct DEF Complete, Distinct
<1>5. \A i, j \in 1 .. Len(r) : r[i].node = r[j].node => i = j
  BY <1>2, OrderedIsDistinct DEF Complete, Distinct
<1>6. \A i \in 1 .. Len(c) : \E j \in 1 .. Len(r) : s[i].node = r[j].node
  BY <1>1, <1>2, <1>3 DEF Complete
<1>7. \A j \in 1 .. Len(r) : \E i \in 1 .. Len(c) : s[i].node = r[j].node
  <2> SUFFICES ASSUME NEW j \in 1 .. Len(r)
               PROVE  \E i \in 1 .. Len(c) : s[i].node = r[j].node
    OBVIOUS
  <2>1. r[j].node \in Nodes(c)
    BY <1>2 DEF Complete
  <2> QED
    BY <2>1, <1>1, <1>3
<1>8. CASE s = Reverse(r)
  <2>1. s = [i \in 1 .. Len(r) |-> r[(Len(r) - i) + 1]]
    BY <1>8 DEF Reverse
  <2>2. s \in Seq(NodeEntry) /\ Len(s) = Len(r)
    <3>1. s \in [1 .. Len(r) -> NodeEntry]
      BY <2>1, <1>2
    <3> QED
      BY <3>1, <1>2, IsASeq, LenProperties
  <2>3. CASE Len(r) <= 1
    BY <2>1, <2>2, <2>3, <1>2
  <2>4. CASE Len(r) > 1
    <3> DEFINE L == Len(r)
    <3>1. /\ 1 \in 1 .. L /\ 2 \in 1 .. L /\ L \in 1 .. L /\ L - 1 \in 1 .. L
          /\ L - 1 < L
      BY <2>4, <1>2
    <3>2. s[1] = r[L] /\ s[2] = r[L - 1]
      BY <2>1, <3>1, <1>2
    <3>3. c[1].node < c[2].node
      BY <3>1, <2>2, <1>1, <1>3 DEF Complete, Ordered
    <3>4. s[1].node < s[2].node
      BY <3>1, <3>3, <2>2, <1>3
    <3>5. r[L - 1].node < r[L].node
      BY <3>1, <1>2 DEF Complete, Ordered
    <3>6. r[L - 1].node \in Nat /\ r[L].node \in Nat
      BY <3>1, <1>2
    <3> QED
      BY <3>2, <3>4, <3>5, <3>6
  <2> QED
    BY <2>3, <2>4, <1>2
<1>9. CASE s = Front(r)
  <2>1. s = SubSeq(r, 1, Len(r) - 1)
    BY <1>9 DEF Front
  <2>2. CASE Len(r) = 0
    <3>1. Len(s) = 0 /\ s \in Seq(NodeEntry)
      BY <2>1, <2>2, SubSeqProperties
    <3> QED
      BY <2>2, <3>1, SeqEqual
  <2>3. CASE Len(r) # 0
    <3>1. /\ Len(s) = Len(r) - 1
          /\ \A i \in 1 .. Len(r) - 1 : s[i] = r[i]
      BY <2>1, <2>3, <1>2, SubSeqProperties
    <3>2. PICK i \in 1 .. Len(c) : s[i].node = r[Len(r)].node
      BY <2>3, <1>2, <1>7
    <3>3. i \in 1 .. Len(r) /\ i # Len(r) /\ s[i] = r[i]
      BY <3>1, <1>2, <1>3
    <3> QED
      <4>1. Len(r) \in 1 .. Len(r)
        BY <2>3, <1>2
      <4>2. r[i].node = r[Len(r)].node
        BY <3>2, <3>3
      <4> QED
        BY <4>1, <4>2, <3>3, <1>5
  <2> QED
    BY <2>2, <2>3
<1>10. ASSUME NEW x, s = Append(r, x) PROVE FALSE
  <2>1. r \in Seq(NodeEntry \cup {x})
    BY SeqMonotonic
  <2>2. /\ Len(s) = Len(r) + 1
        /\ \A i \in 1 .. Len(r) : s[i] = r[i]
    BY <2>1, <1>10, AppendProperties
  <2>3. Len(r) + 1 \in 1 .. Len(c)
    BY <2>2, <1>2, <1>3
  <2>4. PICK j \in 1 .. Len(r) : s[Len(r) + 1].node = r[j].node
    BY <2>3, <1>6
  <2>5. j \in 1 .. Len(c) /\ s[j] = r[j] /\ j # Len(r) + 1
    BY <2>2, <1>2, <1>3
  <2> QED
    BY <2>3, <2>4, <2>5, <1>4
<1>11. ASSUME NEW i \in DOMAIN r, NEW n, s = [r EXCEPT ![i] = For(n, r[i])]
       PROVE  s = r
  <2>1. /\ Len(r) = Len(c) /\ s[i] = For(n, r[i])
        /\ \A j \in DOMAIN r \ {i} : s[j] = r[j]
    <3>1. DOMAIN s = 1 .. Len(r)
      BY <1>2, <1>11
    <3> QED
      BY <3>1, <1>2, <1>3, <1>11
  <2>2. s[i].node = n
    BY <2>1, <1>2 DEF NodeEntry, For
  <2>3. PICK j \in 1 .. Len(r) : s[i].node = r[j].node
    BY <2>1, <1>2, <1>6
  <2>4. i = j
    BY <2>1, <2>3, <1>2, <1>4
  <2>5. For(n, r[i]) = r[i]
    BY <2>2, <2>3, <2>4, <1>2 DEF NodeEntry, For
  <2> QED
    BY <2>5, <1>2, <1>11
<1>12. \/ s = r \/ s = Reverse(r) \/ s = Front(r)
       \/ \E n \in NodeInputs : s = Append(r, For(n, Last(r)))
       \/ \E i \in DOMAIN r, n \in NodeInputs : s = [r EXCEPT ![i] = For(n, r[i])]
  BY DEF Submitted
<1> QED
  BY <1>8, <1>9, <1>10, <1>11, <1>12

\* The nodes a commit leaves are the ones it was given, sorted or not.
LEMMA Taken ==
  ASSUME NEW c \in Seq(NodeEntry), Complete(c),
         NEW r \in Seq(NodeEntry), Complete(r),
         NEW s \in Submitted(r), IsFullReplacement(c, s)
  PROVE  LET nodes == SnapshotNodes(s)
         IN  /\ nodes \in Seq(NodeEntry) /\ Complete(nodes)
             /\ Mapped(nodes) = Mapped(r)
<1>1. s = r
  BY OnlyTheReplacements
<1> DEFINE nodes == SnapshotNodes(s)
<1>2. Distinct(r)
  BY OrderedIsDistinct DEF Complete
<1>3. nodes \in Seq(NodeEntry) /\ Range(nodes) = Range(r) /\ Ordered(nodes)
  BY <1>1, <1>2, Sorted, EntriesAreKeyed
<1> HIDE DEF nodes
<1>4. Nodes(nodes) = Nodes(r) /\ Mapped(nodes) = Mapped(r)
  BY <1>3, SameMap
<1>5. Complete(nodes)
  BY <1>3, <1>4 DEF Complete
<1> QED
  BY <1>3, <1>4, <1>5 DEF nodes

\* The first snapshot has every node once, however the program lists them.
LEMMA Listed ==
  ASSUME NEW given \in SetToSeqs(InitialEntries)
  PROVE  LET nodes == SnapshotNodes(given)
         IN  /\ nodes \in Seq(NodeEntry) /\ Complete(nodes)
             /\ Mapped(nodes) = InitialNodes
<1> DEFINE I == DOMAIN InitialNodes
           entry(n) == [node |-> n, state |-> InitialNodes[n]]
           f == [n \in I |-> entry(n)]
           N == Cardinality(InitialEntries)
           nodes == SnapshotNodes(given)
<1>1. InitialEntries = {entry(n) : n \in I}
  BY DEF InitialEntries
<1>2. \A n \in I : n \in Nat /\ InitialNodes[n] \in NodeState
  BY VectorAssumption
<1>3. InitialEntries \subseteq NodeEntry
  BY <1>1, <1>2 DEF NodeEntry
<1>4. IsFiniteSet(InitialEntries) /\ N \in Nat
  <2>1. f \in [I -> InitialEntries]
    BY <1>1
  <2>2. \A e \in InitialEntries : \E n \in I : f[n] = e
    BY <1>1
  <2>3. f \in Surjection(I, InitialEntries)
    BY <2>1, <2>2, Fun_IsSurj
  <2> QED
    BY <2>3, FS_Surjection, FS_CardinalityType, VectorAssumption
<1> HIDE DEF N
<1>5. /\ given \in [1 .. N -> InitialEntries]
      /\ \A i, j \in 1 .. N : given[i] = given[j] => i = j
  BY DEF SetToSeqs, N
<1>6. given \in Injection(1 .. N, InitialEntries)
  BY <1>5, Fun_IsInj
<1>7. \A e \in InitialEntries : \E i \in 1 .. N : given[i] = e
  <2>1. Cardinality(1 .. N) = N
    BY <1>4, FS_Interval
  <2>2. given \in Surjection(1 .. N, InitialEntries)
    BY <2>1, <1>4, <1>6, FS_Injection DEF N
  <2> QED
    BY <2>2 DEF Surjection
<1>8. given \in Seq(NodeEntry) /\ DOMAIN given = 1 .. N
  BY <1>3, <1>4, <1>5, IsASeq
<1>9. Range(given) = InitialEntries
  BY <1>5, <1>7, <1>8 DEF Range
<1>10. Distinct(given)
  <2> SUFFICES ASSUME NEW i \in 1 .. N, NEW j \in 1 .. N,
                      given[i].node = given[j].node
               PROVE  i = j
    BY <1>8 DEF Distinct
  <2>1. PICK n \in I : given[i] = entry(n)
    BY <1>1, <1>5
  <2>2. PICK m \in I : given[j] = entry(m)
    BY <1>1, <1>5
  <2> QED
    BY <2>1, <2>2, <1>5
<1>11. nodes \in Seq(NodeEntry) /\ Range(nodes) = Range(given) /\ Ordered(nodes)
  BY <1>8, <1>10, Sorted, EntriesAreKeyed
<1> HIDE DEF nodes
<1>12. Nodes(nodes) = I
  <2>1. ASSUME NEW n \in I PROVE \E e \in Range(nodes) : e.node = n
    <3>1. entry(n) \in Range(nodes)
      BY <1>1, <1>9, <1>11
    <3> QED
      BY <3>1
  <2>2. \A e \in Range(nodes) : e.node \in I
    BY <1>1, <1>9, <1>11
  <2> QED
    BY <2>1, <2>2 DEF Nodes
<1>13. \A n \in I : TheEntry(nodes, n) = entry(n)
  <2> SUFFICES ASSUME NEW n \in I PROVE TheEntry(nodes, n) = entry(n)
    OBVIOUS
  <2>1. PICK i \in DOMAIN nodes : nodes[i] = entry(n)
    BY <1>1, <1>9, <1>11 DEF Range
  <2> QED
    BY <2>1, <1>11, EntryAt, EntriesAreKeyed
<1>14. Mapped(nodes) = InitialNodes
  BY <1>12, <1>13, VectorAssumption DEF Mapped
<1> QED
  BY <1>11, <1>12, <1>14 DEF Complete, nodes

(***************************************************************************)
(* Every step of the vectors is a step of the maps.                        *)
(***************************************************************************)
MWorking(w) == IF w = NoWorking THEN NoWorking ELSE MappedWorking(w)

MDelta(d) == IF d = NoDelta THEN NoDelta ELSE MappedSnapshot(d)

MCommit(c) == [base |-> MappedSnapshot(c.base), from |-> MappedSnapshot(c.from),
               to |-> MappedSnapshot(c.to)]

LEMMA InitWorld == Init => VInv /\ World!Init
<1> SUFFICES ASSUME Init PROVE VInv /\ World!Init
  OBVIOUS
<1>1. PICK t \in QueryTimes, given \in SetToSeqs(InitialEntries) :
        currentSnapshot = [version |-> FirstVersion, committedAt |-> t,
                           nodes |-> SnapshotNodes(given)]
  BY DEF Init
<1>2. /\ lastCommittedCycle = NoCycle
      /\ working = [o \in Owners |-> NoWorking]
      /\ delta = [o \in Owners |-> NoDelta]
      /\ deltaBase = [o \in Owners |-> NoDelta]
      /\ changes = [o \in Owners |-> {}]
      /\ commits = {}
  BY DEF Init
<1>3. /\ currentSnapshot.nodes \in Seq(NodeEntry)
      /\ Complete(currentSnapshot.nodes)
      /\ Mapped(currentSnapshot.nodes) = InitialNodes
  BY <1>1, Listed
<1>4. SnapshotOK(currentSnapshot)
  BY <1>1, <1>3, VectorAssumption DEF SnapshotOK, VectorSnapshot
<1>5. VInv
  BY <1>2, <1>4 DEF VInv
<1>6. MappedSnapshot(currentSnapshot) = [version |-> FirstVersion,
                                         committedAt |-> t,
                                         nodes |-> InitialNodes]
  BY <1>1, <1>3, <1>4, MappedSnapshotIs
<1>7. World!Init
  BY <1>2, <1>6 DEF World!Init
<1> QED
  BY <1>5, <1>7

LEMMA CreateWorld ==
  ASSUME VInv, NEW o \in Owners, NEW c \in CycleIds, NEW t \in QueryTimes,
         Create(o, c, t)
  PROVE  VInv' /\ World!Create(o, c, t)
<1> DEFINE w == [base |-> currentSnapshot, cycleId |-> c, startedAt |-> t,
                 overlays |-> <<>>]
           m == [base |-> MappedSnapshot(currentSnapshot), cycleId |-> c,
                 startedAt |-> t, overlays |-> [n \in {} |-> 0]]
<1>1. SnapshotOK(currentSnapshot) /\ t \in Counts
  BY VectorAssumption DEF VInv
<1>2. /\ WorkingOK(w) /\ MappedWorking(w) = m /\ w # NoWorking
  BY <1>1, Created, MappedWorkingIs
<1>3. /\ t >= currentSnapshot.committedAt
      /\ working' = [working EXCEPT ![o] = w]
      /\ changes' = [changes EXCEPT ![o] = {}]
      /\ UNCHANGED <<currentSnapshot, lastCommittedCycle, commits, delta,
                     deltaBase>>
  BY DEF Create, storeVars, deltaVars
<1>4. t >= MappedSnapshot(currentSnapshot).committedAt
  BY <1>1, <1>3, MappedSnapshotIs
<1> HIDE DEF w, m
<1>5. VInv'
  BY <1>2, <1>3 DEF VInv
<1>6. [p \in Owners |-> MWorking(working[p])]'
        = [[p \in Owners |-> MWorking(working[p])] EXCEPT ![o] = m]
  BY <1>2, <1>3 DEF VInv, MWorking
<1>7. World!Create(o, c, t)
  BY <1>3, <1>4, <1>6
     DEF World!Create, World!storeVars, World!deltaVars, MWorking, m
<1> QED
  BY <1>5, <1>7

LEMMA SameCardinality == \A S : World!Cardinality(S) = Cardinality(S)
BY DEF World!Cardinality, Cardinality

LEMMA ChangeVelocityWorld ==
  ASSUME VInv, NEW o \in Owners, NEW n \in NodeInputs, NEW v \in Velocities,
         NEW t \in QueryTimes, ChangeVelocity(o, n, v, t)
  PROVE  VInv' /\ World!ChangeVelocity(o, n, v, t)
<1> DEFINE w == working[o]
           u == [w EXCEPT !.overlays = WithOverlay(@, Overlay(w, n, v, t))]
           W == [p \in Owners |-> MWorking(working[p])]
<1>1. n \in Nat /\ v \in Int /\ t \in Counts
  BY VectorAssumption
<1>2. /\ w # NoWorking /\ NodeStateAt(w, n, t) # NoState
      /\ Cardinality(changes[o]) < MaxChanges
      /\ working' = [working EXCEPT ![o] = u]
      /\ changes' = [changes EXCEPT ![o] = @ \cup
                       {[index |-> Cardinality(@), node |-> n,
                         velocity |-> v, at |-> t]}]
      /\ UNCHANGED <<currentSnapshot, lastCommittedCycle, commits, delta,
                     deltaBase>>
  BY DEF ChangeVelocity, storeVars, deltaVars
<1> HIDE DEF w
<1>3. WorkingOK(w)
  BY <1>2 DEF VInv, w
<1>4. /\ WorkingOK(u)
      /\ MappedWorking(u) = World!UpdateVelocity(MappedWorking(w), n, v, t)
  BY <1>1, <1>2, <1>3, Updated
<1> HIDE DEF u
<1>5. u # NoWorking /\ MappedWorking(w) # NoWorking
  BY <1>3, <1>4, MappedWorkingIs
<1>6. World!ProjectNodeState(MappedWorking(w), n, t) # NoState
  BY <1>1, <1>2, <1>3, MappedProjection
<1>7. VInv'
  BY <1>2, <1>4, <1>5 DEF VInv
<1>8. W[o] = MappedWorking(w)
  BY <1>2 DEF MWorking, w
<1>9. W' = [W EXCEPT ![o] = World!UpdateVelocity(@, n, v, t)]
  <2>1. W' = [W EXCEPT ![o] = MappedWorking(u)]
    BY <1>2, <1>5 DEF VInv, MWorking
  <2> QED
    BY <2>1, <1>4, <1>8
<1>10. W[o] # NoWorking /\ World!ProjectNodeState(W[o], n, t) # NoState
  BY <1>5, <1>6, <1>8
<1>11. /\ World!Cardinality(changes[o]) < MaxChanges
       /\ changes' = [changes EXCEPT ![o] = @ \cup
                        {[index |-> World!Cardinality(@), node |-> n,
                          velocity |-> v, at |-> t]}]
  BY <1>2, SameCardinality
<1> HIDE DEF W
<1>12. World!ChangeVelocity(o, n, v, t)
  BY <1>2, <1>9, <1>10, <1>11
     DEF World!ChangeVelocity, World!storeVars, World!deltaVars, W, MWorking
<1> QED
  BY <1>7, <1>12

LEMMA FinalizeWorld ==
  ASSUME VInv, NEW o \in Owners, NEW t \in QueryTimes, Finalize(o, t)
  PROVE  VInv' /\ World!Finalize(o, t)
<1> DEFINE w == working[o]
           d == [cycleId |-> w.cycleId, baseVersion |-> w.base.version,
                 effectiveAt |-> t, nodes |-> Replacements(w, t)]
           m == MappedWorking(w)
<1>1. t \in Counts
  BY VectorAssumption
<1>2. /\ w # NoWorking /\ t >= w.startedAt
      /\ \A i \in DOMAIN w.base.nodes : Replacements(w, t)[i].state # NoState
      /\ delta' = [delta EXCEPT ![o] = d]
      /\ deltaBase' = [deltaBase EXCEPT ![o] = w.base]
      /\ UNCHANGED <<currentSnapshot, lastCommittedCycle, commits, working,
                     changes>>
  BY DEF Finalize, storeVars
<1> HIDE DEF w
<1>3. WorkingOK(w)
  BY <1>2 DEF VInv, w
<1>4. /\ DeltaOK(d) /\ World!MayFinalize(m, t)
      /\ MappedSnapshot(d) = World!FinalizeDeltaSet(m, t)
  BY <1>1, <1>2, <1>3, Replaced
<1>5. /\ SnapshotOK(w.base) /\ m.base = MappedSnapshot(w.base)
      /\ m # NoWorking
  BY <1>3, MappedWorkingIs
<1> HIDE DEF d, m
<1>6. d # NoDelta /\ w.base # NoDelta
  BY <1>4, <1>5, MarkerAssumption DEF DeltaOK, SnapshotOK
<1>7. VInv'
  BY <1>2, <1>4, <1>5, <1>6 DEF VInv
<1>8. /\ [p \in Owners |-> MDelta(delta[p])]'
           = [[p \in Owners |-> MDelta(delta[p])] EXCEPT
                ![o] = World!FinalizeDeltaSet(m, t)]
      /\ [p \in Owners |-> MDelta(deltaBase[p])]'
           = [[p \in Owners |-> MDelta(deltaBase[p])] EXCEPT ![o] = m.base]
  BY <1>2, <1>4, <1>5, <1>6 DEF VInv, MDelta
<1>9. m = [p \in Owners |-> IF working[p] = NoWorking THEN NoWorking
                            ELSE MappedWorking(working[p])][o]
  BY <1>2 DEF m, w
<1>10. World!Finalize(o, t)
  BY <1>2, <1>4, <1>5, <1>8, <1>9
     DEF World!Finalize, World!storeVars, MDelta
<1> QED
  BY <1>7, <1>10

LEMMA CommitWorld ==
  ASSUME VInv, NEW o \in Owners, NEW v, delta[o] # NoDelta,
         NEW s \in Submitted(delta[o].nodes), CommitCycle(o, v, s)
  PROVE  VInv' /\ World!CommitCycle(o, v)
<1> DEFINE d == delta[o]
           nodes == SnapshotNodes(s)
           S == MappedSnapshot(currentSnapshot)
           D == MappedSnapshot(d)
           B == MappedSnapshot(deltaBase[o])
           next == [version |-> currentSnapshot.version + 1,
                    committedAt |-> d.effectiveAt, nodes |-> nodes]
           N == MappedSnapshot(next)
<1>1. /\ SnapshotOK(currentSnapshot) /\ DeltaOK(d)
      /\ SnapshotOK(deltaBase[o])
  BY DEF VInv
<1>2. /\ IsFullReplacement(currentSnapshot.nodes, s)
      /\ v = currentSnapshot.version /\ d.baseVersion = v
      /\ d.effectiveAt >= currentSnapshot.committedAt
      /\ currentSnapshot.version # MaxVersion
      /\ lastCommittedCycle # NoCycle => d.cycleId > lastCommittedCycle
      /\ currentSnapshot' = next
      /\ lastCommittedCycle' = d.cycleId
      /\ commits' = commits \cup {[base |-> deltaBase[o],
                                   from |-> currentSnapshot, to |-> next]}
      /\ UNCHANGED <<working, delta, deltaBase, changes>>
  <2>1. d = [cycleId |-> d.cycleId, baseVersion |-> d.baseVersion,
             effectiveAt |-> d.effectiveAt, nodes |-> d.nodes]
    BY <1>1 DEF DeltaOK, VectorDelta
  <2>2. [d EXCEPT !.nodes = s]
          = [cycleId |-> d.cycleId, baseVersion |-> d.baseVersion,
             effectiveAt |-> d.effectiveAt, nodes |-> s]
    BY <2>1
  <2> HIDE DEF d
  <2> QED
    BY <2>2 DEF CommitCycle, CommitSnapshot, MayCommit, deltaVars, d
<1>3. /\ currentSnapshot.nodes \in Seq(NodeEntry)
      /\ Complete(currentSnapshot.nodes)
      /\ d.nodes \in Seq(NodeEntry) /\ Complete(d.nodes)
  BY <1>1 DEF SnapshotOK, DeltaOK, VectorSnapshot, VectorDelta
<1>4. /\ nodes \in Seq(NodeEntry) /\ Complete(nodes)
      /\ Mapped(nodes) = Mapped(d.nodes)
  BY <1>2, <1>3, Taken
<1> HIDE DEF nodes
<1>5. currentSnapshot.version + 1 \in FirstVersion .. MaxVersion
  BY <1>1, <1>2, VectorAssumption DEF SnapshotOK, VectorSnapshot
<1>6. SnapshotOK(next)
  BY <1>1, <1>4, <1>5 DEF SnapshotOK, DeltaOK, VectorSnapshot, VectorDelta
<1> HIDE DEF d
<1>7. VInv'
  BY <1>1, <1>2, <1>6 DEF VInv, DeltaOK, VectorDelta, d
<1>8. /\ S.version = currentSnapshot.version
      /\ S.committedAt = currentSnapshot.committedAt
      /\ S.nodes = Mapped(currentSnapshot.nodes)
  BY <1>1, MappedSnapshotIs
<1>9. /\ D.cycleId = d.cycleId /\ D.baseVersion = d.baseVersion
      /\ D.effectiveAt = d.effectiveAt /\ D.nodes = Mapped(d.nodes)
  BY <1>1, MappedDeltaIs
<1>10. N = [version |-> S.version + 1, committedAt |-> D.effectiveAt,
            nodes |-> D.nodes]
  BY <1>4, <1>6, <1>8, <1>9, MappedSnapshotIs
<1>11. DOMAIN D.nodes = DOMAIN S.nodes
  BY <1>3, <1>8, <1>9 DEF Mapped, Complete
<1>12. /\ D = [p \in Owners |-> MDelta(delta[p])][o] /\ D # NoDelta
       /\ B = [p \in Owners |-> MDelta(deltaBase[p])][o]
  BY <1>1, MappedDeltaIs, MappedSnapshotIs DEF MDelta, d
<1>13. {MCommit(c) : c \in commits}'
         = {MCommit(c) : c \in commits}
             \cup {[base |-> B, from |-> S, to |-> N]}
  <2> DEFINE last == [base |-> deltaBase[o], from |-> currentSnapshot,
                      to |-> next]
  <2>1. MCommit(last) = [base |-> B, from |-> S, to |-> N]
    BY DEF MCommit
  <2>2. commits' = commits \cup {last}
    BY <1>2
  <2> HIDE DEF last
  <2>3. {MCommit(c) : c \in commits \cup {last}}
          = {MCommit(c) : c \in commits} \cup {MCommit(last)}
    OBVIOUS
  <2> QED
    BY <2>1, <2>2, <2>3
<1>14. MappedSnapshot(currentSnapshot') = N
  BY <1>2
<1> HIDE DEF S, D, B, N
<1>15. World!MayCommit(v, D)
  BY <1>2, <1>8, <1>9, <1>11 DEF World!MayCommit, S
<1>16. World!CommitSnapshot(D)
  BY <1>2, <1>9, <1>10, <1>14 DEF World!CommitSnapshot, S
<1> QED
  BY <1>2, <1>7, <1>12, <1>13, <1>14, <1>15, <1>16
     DEF World!CommitCycle, World!deltaVars, MDelta, MCommit, S, B

LEMMA UnchangedWorld ==
  ASSUME VInv, UNCHANGED vars
  PROVE  VInv' /\ UNCHANGED World!vars
<1>1. UNCHANGED <<currentSnapshot, lastCommittedCycle, commits, working, delta,
                  deltaBase, changes>>
  BY DEF vars, storeVars, deltaVars
<1>2. VInv'
  BY <1>1 DEF VInv
<1>3. UNCHANGED World!vars
  BY <1>1 DEF World!vars, World!storeVars, World!deltaVars
<1> QED
  BY <1>2, <1>3

LEMMA NextWorld == VInv /\ [Next]_vars => VInv' /\ [World!Next]_(World!vars)
<1> SUFFICES ASSUME VInv, [Next]_vars
             PROVE  VInv' /\ (World!Next \/ UNCHANGED World!vars)
  OBVIOUS
<1>1. CASE UNCHANGED vars
  BY <1>1, UnchangedWorld
<1>2. ASSUME NEW o \in Owners, NEW c \in CycleIds, NEW t \in QueryTimes,
             Create(o, c, t)
      PROVE  VInv' /\ World!Next
  BY <1>2, CreateWorld DEF World!Next
<1>3. ASSUME NEW o \in Owners, NEW n \in NodeInputs, NEW v \in Velocities,
             NEW t \in QueryTimes, ChangeVelocity(o, n, v, t)
      PROVE  VInv' /\ World!Next
  BY <1>3, ChangeVelocityWorld DEF World!Next
<1>4. ASSUME NEW o \in Owners, NEW t \in QueryTimes, Finalize(o, t)
      PROVE  VInv' /\ World!Next
  BY <1>4, FinalizeWorld DEF World!Next
<1>5. ASSUME NEW o \in Owners, delta[o] # NoDelta,
             NEW v \in FirstVersion .. MaxVersion,
             NEW s \in Submitted(delta[o].nodes), CommitCycle(o, v, s)
      PROVE  VInv' /\ World!Next
  BY <1>5, CommitWorld DEF World!Next
<1> QED
  BY <1>1, <1>2, <1>3, <1>4, <1>5 DEF Next

LEMMA InductiveVectors == Spec => []VInv
BY InitWorld, NextWorld, PTL DEF Spec

\* The sorted vectors, the bisections and the comparison of the replacements
\* position by position implement the maps of WorldState: a list of replacements
\* with another order, length or other ids than the finalized one is refused.
THEOREM ImplementsWorldTheorem == Spec => ImplementsWorld
<1>1. Init => World!Init
  BY InitWorld
<1>2. VInv /\ [Next]_vars => [World!Next]_(World!vars)
  BY NextWorld
<1> QED
  BY <1>1, <1>2, InductiveVectors, PTL DEF Spec, ImplementsWorld, World!Spec

\* Every variable keeps its type, and every vector stays in the order that the
\* bisections of the code rely on.
THEOREM VectorTypeCorrect == Spec => []TypeOK
<1>1. VInv => TypeOK
  <2> SUFFICES ASSUME VInv PROVE TypeOK
    OBVIOUS
  <2>1. MappedSnapshot(currentSnapshot) \in World!Snapshot
    BY MappedSnapshotIs DEF VInv
  <2>2. \A o \in Owners : working[o] # NoWorking =>
          World!WorkingState(MappedWorking(working[o]))
    BY MappedWorkingIs DEF VInv
  <2>3. \A o \in Owners : delta[o] # NoDelta =>
          MappedSnapshot(delta[o]) \in World!DeltaSet
    BY MappedDeltaIs DEF VInv
  <2>4. World!TypeOK
    BY <2>1, <2>2, <2>3 DEF World!TypeOK, VInv
  <2>5. \A o \in Owners : working[o] # NoWorking =>
          Ordered(working[o].base.nodes) /\ Ordered(working[o].overlays)
    BY DEF VInv, WorkingOK, Complete
  <2>6. Ordered(currentSnapshot.nodes)
    BY DEF VInv, SnapshotOK, Complete
  <2> QED
    BY <2>4, <2>5, <2>6 DEF TypeOK, IsSortedBy, Ordered
<1> QED
  BY <1>1, InductiveVectors, PTL

\* A bisection finds what a map would: every node is projected from its own
\* latest velocity change or else from its own committed state, and a node
\* that is not in the world from none, in whatever order the nodes were listed
\* and changed their velocities.
THEOREM LookupsAgreeTheorem == Spec => []LookupsAgree
<1>1. VInv => LookupsAgree
  BY MappedProjection, VectorAssumption DEF VInv, LookupsAgree
<1> QED
  BY <1>1, InductiveVectors, PTL

(***************************************************************************)
(* The theorem of WorldStateProofs, for the maps of these vectors.         *)
(***************************************************************************)
Maps == INSTANCE WorldStateProofs WITH
  currentSnapshot <- MappedSnapshot(currentSnapshot),
  working   <- [o \in Owners |-> MWorking(working[o])],
  delta     <- [o \in Owners |-> MDelta(delta[o])],
  deltaBase <- [o \in Owners |-> MDelta(deltaBase[o])],
  commits   <- {MCommit(c) : c \in commits}

LEMMA MapsBounds ==
  /\ MaxCount \in Nat /\ NoCount \notin Int
  /\ QueryTimes \subseteq Maps!Counts /\ Velocities \subseteq Int
  /\ CycleIds \subseteq Nat /\ NoCycle \notin Nat
  /\ FirstVersion \in Nat /\ MaxVersion \in Nat /\ FirstVersion <= MaxVersion
  /\ InitialNodes \in [DOMAIN InitialNodes -> Maps!NodeState]
<1>1. Maps!Counts = Counts /\ Maps!NodeState = NodeState
  BY DEF Maps!Counts, Counts, Maps!MinCount, MinCount, Maps!NodeState,
         NodeState
<1> QED
  BY <1>1, WidthAssumption, VectorAssumption

LEMMA SameMapsInit == World!Init => Maps!Init
BY DEF World!Init, Maps!Init, MWorking, MDelta, MCommit

LEMMA SameProjection ==
  \A w, n, t :
    /\ World!ProjectState(w, n, t) = Maps!ProjectState(w, n, t)
    /\ World!ProjectNodeState(w, n, t) = Maps!ProjectNodeState(w, n, t)
<1>1. \A a, b : World!CheckedSubtractCounts(a, b)
                  = Maps!CheckedSubtractCounts(a, b)
  BY DEF World!CheckedSubtractCounts, Maps!CheckedSubtractCounts,
         World!Counts, Maps!Counts, World!MinCount, Maps!MinCount
<1>2. \A s, a, t : World!ProjectFromAnchor(s, a, t)
                     = Maps!ProjectFromAnchor(s, a, t)
  BY <1>1 DEF World!ProjectFromAnchor, Maps!ProjectFromAnchor
<1>3. \A w, n, t : World!ProjectState(w, n, t) = Maps!ProjectState(w, n, t)
  BY <1>2 DEF World!ProjectState, Maps!ProjectState
<1> QED
  BY <1>3 DEF World!ProjectNodeState, Maps!ProjectNodeState

LEMMA SameMapsStep == [World!Next]_(World!vars) => [Maps!Next]_(Maps!vars)
<1> USE DEF World!storeVars, Maps!storeVars, World!deltaVars, Maps!deltaVars,
            MWorking, MDelta, MCommit
<1>1. \A w, n, v, t : World!UpdateVelocity(w, n, v, t)
                        = Maps!UpdateVelocity(w, n, v, t)
  BY SameProjection DEF World!UpdateVelocity, Maps!UpdateVelocity
<1>2. \A w, t : /\ World!MayFinalize(w, t) <=> Maps!MayFinalize(w, t)
                /\ World!FinalizeDeltaSet(w, t) = Maps!FinalizeDeltaSet(w, t)
  BY SameProjection DEF World!MayFinalize, Maps!MayFinalize,
     World!FinalizeDeltaSet, Maps!FinalizeDeltaSet
<1>3. \A S : World!Cardinality(S) = Maps!Cardinality(S)
  BY DEF World!Cardinality, Maps!Cardinality
<1>4. ASSUME NEW o, NEW c, NEW t, World!Create(o, c, t)
      PROVE  Maps!Create(o, c, t)
  BY <1>4 DEF World!Create, Maps!Create
<1>5. ASSUME NEW o, NEW n, NEW v, NEW t, World!ChangeVelocity(o, n, v, t)
      PROVE  Maps!ChangeVelocity(o, n, v, t)
  BY <1>1, <1>3, <1>5, SameProjection
     DEF World!ChangeVelocity, Maps!ChangeVelocity
<1>6. ASSUME NEW o, NEW t, World!Finalize(o, t)
      PROVE  Maps!Finalize(o, t)
  BY <1>2, <1>6 DEF World!Finalize, Maps!Finalize
<1>7. ASSUME NEW o, NEW v, World!CommitCycle(o, v)
      PROVE  Maps!CommitCycle(o, v)
  BY <1>7 DEF World!CommitCycle, Maps!CommitCycle, World!MayCommit,
     Maps!MayCommit, World!CommitSnapshot, Maps!CommitSnapshot
<1>8. World!Next => Maps!Next
  BY <1>4, <1>5, <1>6, <1>7 DEF World!Next, Maps!Next
<1>9. UNCHANGED World!vars => UNCHANGED Maps!vars
  BY DEF World!vars, Maps!vars
<1> QED
  BY <1>8, <1>9

LEMMA SameTrajectory == Maps!ProjectionIsTrajectory => ProjectionIsTrajectory
<1>1. \A S : World!Latest(S) = Maps!Latest(S)
  BY DEF World!Latest, Maps!Latest
<1>2. \A base, a, n, u : World!VelocityAt(base, a, n, u)
                           = Maps!VelocityAt(base, a, n, u)
  BY <1>1 DEF World!VelocityAt, Maps!VelocityAt
<1>3. \A v : World!Sums(v) = Maps!Sums(v)
  BY DEF World!Sums, Maps!Sums
<1>4. \A base, a, n, t : World!Travelled(base, a, n, t)
                           = Maps!Travelled(base, a, n, t)
  BY <1>2, <1>3 DEF World!Travelled, Maps!Travelled
<1> QED
  BY <1>2, <1>4, SameProjection
     DEF ProjectionIsTrajectory, World!ProjectionIsTrajectory,
         Maps!ProjectionIsTrajectory, MWorking

\* A node is where the velocities that its working state accepted lead to,
\* whatever the order and the times of the changes: finding it by bisection
\* and re-anchoring it on every change loses no stretch and repeats none.
THEOREM ProjectionIsTrajectoryTheorem == Spec => []ProjectionIsTrajectory
<1>1. World!Spec => Maps!Spec
  BY SameMapsInit, SameMapsStep, PTL DEF World!Spec, Maps!Spec
<1>2. Maps!Spec => []Maps!ProjectionIsTrajectory
  BY Maps!ProjectionIsTrajectoryTheorem, MapsBounds
<1> QED
  BY <1>1, <1>2, SameTrajectory, ImplementsWorldTheorem, PTL
     DEF ImplementsWorld
===============================================================================

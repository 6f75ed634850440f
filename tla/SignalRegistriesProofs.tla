------------------------ MODULE SignalRegistriesProofs ------------------------
(***************************************************************************)
(* Machine-checked proofs about the two registries: an insertion keeps the *)
(* canonical order, and the two binary searches of SignalsForReceiver find *)
(* exactly the signals of the receiver, whatever the vector holds.         *)
(***************************************************************************)
EXTENDS SignalRegistries, SequenceTheorems, WellFoundedInduction, TLAPS

LEMMA MinOfNaturals ==
  ASSUME NEW T, T \subseteq Nat, T # {}
  PROVE  Min(T) \in T /\ \A y \in T : Min(T) <= y
<1> DEFINE less == {p \in Nat \X Nat : p[1] < p[2]}
<1>1. IsWellFoundedOn(less, Nat)
  BY NatLessThanWellFounded DEF OpToRel
<1>2. \A m, n \in Nat : m < n => <<m, n>> \in less
  OBVIOUS
<1> HIDE DEF less
<1>3. PICK x \in T : \A y \in T : <<y, x>> \notin less
  BY <1>1, WFMin
<1>4. ASSUME NEW y \in T PROVE x <= y
  <2>1. x \in Nat /\ y \in Nat
    OBVIOUS
  <2>2. ~(y < x)
    BY <2>1, <1>2, <1>3
  <2> QED
    BY <2>1, <2>2
<1> QED
  BY <1>4 DEF Min

LEMMA InsertAtProperties ==
  ASSUME NEW S, NEW v \in Seq(S), NEW x \in S, NEW i \in 1 .. Len(v) + 1
  PROVE  LET w == InsertAt(v, i, x)
         IN  /\ w \in Seq(S) /\ Len(w) = Len(v) + 1
             /\ \A j \in 1 .. i - 1 : w[j] = v[j]
             /\ w[i] = x
             /\ \A j \in i + 1 .. Len(v) + 1 : w[j] = v[j - 1]
<1> DEFINE a == SubSeq(v, 1, i - 1)
           b == SubSeq(v, i, Len(v))
           w == InsertAt(v, i, x)
<1>1. Len(v) \in Nat /\ i \in Nat /\ \A j \in 1 .. Len(v) : v[j] \in S
  BY ElementOfSeq, LenProperties
<1>2. /\ a \in Seq(S) /\ Len(a) = i - 1
      /\ \A j \in 1 .. i - 1 : a[j] = v[j]
  BY <1>1, SubSeqProperties
<1>3. /\ b \in Seq(S) /\ Len(b) = Len(v) - i + 1
      /\ \A j \in 1 .. Len(v) - i + 1 : b[j] = v[i + j - 1]
  BY <1>1, SubSeqProperties
<1>4. <<x>> \in Seq(S) /\ Len(<<x>>) = 1 /\ <<x>>[1] = x
  OBVIOUS
<1> DEFINE c == a \o <<x>>
<1> HIDE DEF a, b
<1>5. /\ c \in Seq(S) /\ Len(c) = i
      /\ \A j \in 1 .. i : c[j] = IF j <= i - 1 THEN a[j] ELSE <<x>>[j - (i - 1)]
  BY <1>1, <1>2, <1>4, ConcatProperties
<1> HIDE DEF c
<1>6. /\ c \o b \in Seq(S) /\ Len(c \o b) = Len(v) + 1
      /\ \A j \in 1 .. Len(v) + 1 :
           (c \o b)[j] = IF j <= i THEN c[j] ELSE b[j - i]
  BY <1>1, <1>3, <1>5, ConcatProperties
<1>7. w = c \o b
  BY DEF InsertAt, a, b, c
<1> HIDE DEF w
<1>8. \A j \in 1 .. i - 1 : w[j] = v[j]
  BY <1>1, <1>2, <1>5, <1>6, <1>7
<1>9. w[i] = x
  BY <1>1, <1>4, <1>5, <1>6, <1>7
<1>10. \A j \in i + 1 .. Len(v) + 1 : w[j] = v[j - 1]
  <2> SUFFICES ASSUME NEW j \in i + 1 .. Len(v) + 1 PROVE w[j] = v[j - 1]
    OBVIOUS
  <2>1. w[j] = b[j - i]
    BY <1>1, <1>6, <1>7
  <2>2. j - i \in 1 .. Len(v) - i + 1 /\ i + (j - i) - 1 = j - 1
    BY <1>1
  <2> QED
    BY <2>1, <2>2, <1>3
<1> QED
  BY <1>6, <1>7, <1>8, <1>9, <1>10 DEF w

\* The order is given as a set of pairs, which the lemma can be applied to.
LEMMA InsertKeepsOrder ==
  ASSUME NEW S, NEW v \in Seq(S), NEW x \in S, NEW R,
         NEW i \in 1 .. Len(v) + 1,
         \A j, k \in 1 .. Len(v) : j < k => <<v[j], v[k]>> \in R,
         \A j \in 1 .. i - 1 : <<v[j], x>> \in R,
         \A j \in i .. Len(v) : <<x, v[j]>> \in R
  PROVE  LET w == InsertAt(v, i, x)
         IN  /\ w \in Seq(S) /\ Len(w) = Len(v) + 1
             /\ Range(w) = Range(v) \cup {x}
             /\ \A j, k \in 1 .. Len(w) : j < k => <<w[j], w[k]>> \in R
<1> DEFINE w == InsertAt(v, i, x)
<1>1. Len(v) \in Nat /\ i \in Nat /\ DOMAIN v = 1 .. Len(v)
  BY LenProperties
<1>2. /\ w \in Seq(S) /\ Len(w) = Len(v) + 1
      /\ \A j \in 1 .. i - 1 : w[j] = v[j]
      /\ w[i] = x
      /\ \A j \in i + 1 .. Len(v) + 1 : w[j] = v[j - 1]
  BY ONLY InsertAtProperties, v \in Seq(S), x \in S, i \in 1 .. Len(v) + 1
<1>3. DOMAIN w = 1 .. Len(w)
  BY <1>2, LenProperties
<1> HIDE DEF w
<1>4. Range(w) = Range(v) \cup {x}
  <2>1. ASSUME NEW j \in 1 .. Len(w) PROVE w[j] \in Range(v) \cup {x}
    <3>1. CASE j < i
      BY <3>1, <1>1, <1>2 DEF Range
    <3>2. CASE j = i
      BY <3>2, <1>2
    <3>3. CASE j > i
      <4>1. j \in i + 1 .. Len(v) + 1 /\ j - 1 \in 1 .. Len(v)
        BY <3>3, <1>1, <1>2
      <4> QED
        BY <4>1, <1>1, <1>2 DEF Range
    <3> QED
      BY <3>1, <3>2, <3>3, <1>1
  <2>2. x \in Range(w)
    BY <1>1, <1>2, <1>3 DEF Range
  <2>3. ASSUME NEW j \in 1 .. Len(v) PROVE v[j] \in Range(w)
    <3>1. CASE j < i
      BY <3>1, <1>1, <1>2, <1>3 DEF Range
    <3>2. CASE j >= i
      <4>1. j + 1 \in i + 1 .. Len(v) + 1 /\ (j + 1) - 1 = j
        BY <3>2, <1>1
      <4>2. j + 1 \in DOMAIN w /\ w[j + 1] = v[j]
        BY <4>1, <1>1, <1>2, <1>3
      <4> QED
        BY <4>2 DEF Range
    <3> QED
      BY <3>1, <3>2, <1>1
  <2> QED
    BY <2>1, <2>2, <2>3, <1>1, <1>3 DEF Range
<1>5. ASSUME NEW j \in 1 .. Len(w), NEW k \in 1 .. Len(w), j < k
      PROVE  <<w[j], w[k]>> \in R
  <2>1. CASE k < i
    BY <2>1, <1>1, <1>2, <1>5
  <2>2. CASE k = i
    BY <2>2, <1>1, <1>2, <1>5
  <2>3. CASE k > i /\ j < i
    <3>1. k - 1 \in 1 .. Len(v) /\ j \in 1 .. Len(v) /\ j < k - 1
      BY <2>3, <1>1, <1>2, <1>5
    <3>2. w[k] = v[k - 1] /\ w[j] = v[j]
      BY <2>3, <1>1, <1>2
    <3> QED
      BY <3>1, <3>2
  <2>4. CASE k > i /\ j = i
    <3>1. k - 1 \in i .. Len(v)
      BY <2>4, <1>1, <1>2
    <3>2. w[k] = v[k - 1] /\ w[j] = x
      BY <2>4, <1>1, <1>2
    <3> QED
      BY <3>1, <3>2
  <2>5. CASE k > i /\ j > i
    <3>1. k - 1 \in 1 .. Len(v) /\ j - 1 \in 1 .. Len(v) /\ j - 1 < k - 1
      BY <2>5, <1>1, <1>2, <1>5
    <3>2. w[k] = v[k - 1] /\ w[j] = v[j - 1]
      BY <2>5, <1>1, <1>2
    <3> QED
      BY <3>1, <3>2
  <2> QED
    BY <2>1, <2>2, <2>3, <2>4, <2>5, <1>1, <1>2
<1> QED
  BY <1>2, <1>4, <1>5 DEF w

LEMMA LeastPosition ==
  ASSUME NEW n \in Nat, NEW P, P \subseteq 1 .. n
  PROVE  LET i == Min(P \cup {n + 1})
         IN  /\ i \in 1 .. n + 1
             /\ i <= n => i \in P
             /\ \A j \in P : i <= j
<1> DEFINE T == P \cup {n + 1}
<1>1. T \subseteq Nat /\ T # {}
  OBVIOUS
<1> HIDE DEF T
<1> DEFINE i == Min(T)
<1>2. i \in T /\ \A j \in T : i <= j
  BY <1>1, MinOfNaturals
<1> HIDE DEF i
<1>3. /\ i \in 1 .. n + 1
      /\ i <= n => i \in P
      /\ \A j \in P : i <= j
  BY <1>2 DEF T
<1> QED
  BY <1>3 DEF i, T

\* The keys of the elements are integers.
IsSignalSet(S) ==
  \A s \in S : s.receiver \in Int /\ s.from \in Int /\ s.transmission \in Int

IsSessionSet(S) ==
  IsSignalSet({r.signal : r \in S}) /\ \A r \in S : r.reception \in Int

LEMMA CanonicalLessIsOrder ==
  ASSUME NEW S, IsSignalSet(S), NEW a \in S, NEW b \in S, NEW c \in S
  PROVE  /\ CanonicalLess(a, b) /\ CanonicalLess(b, c) => CanonicalLess(a, c)
         /\ \/ CanonicalLess(a, b) \/ CanonicalLess(b, a)
            \/ a.receiver = b.receiver /\ a.transmission = b.transmission
         /\ CanonicalLess(a, b) => a.receiver <= b.receiver
<1>1. /\ a.receiver \in Int /\ b.receiver \in Int /\ c.receiver \in Int
      /\ a.from \in Int /\ b.from \in Int /\ c.from \in Int
      /\ a.transmission \in Int /\ b.transmission \in Int
      /\ c.transmission \in Int
  BY DEF IsSignalSet
<1> QED
  BY <1>1 DEF CanonicalLess

LEMMA SessionLessIsOrder ==
  ASSUME NEW S, IsSessionSet(S), NEW a \in S, NEW b \in S, NEW c \in S
  PROVE  /\ SessionLess(a, b) /\ SessionLess(b, c) => SessionLess(a, c)
         /\ \/ SessionLess(a, b) \/ SessionLess(b, a)
            \/ a.reception = b.reception
<1>1. \A q \in S : /\ q.reception \in Int /\ q.signal.from \in Int
                   /\ q.signal.receiver \in Int
                   /\ q.signal.transmission \in Int
  BY DEF IsSessionSet, IsSignalSet
<1>2. /\ a.reception \in Int /\ b.reception \in Int /\ c.reception \in Int
      /\ a.signal.from \in Int /\ b.signal.from \in Int
      /\ c.signal.from \in Int /\ a.signal.receiver \in Int
      /\ b.signal.receiver \in Int /\ c.signal.receiver \in Int
      /\ a.signal.transmission \in Int /\ b.signal.transmission \in Int
      /\ c.signal.transmission \in Int
  BY <1>1
<1> QED
  BY <1>2 DEF SessionLess

(***************************************************************************)
(* InFlightSignalLedger.                                                   *)
(***************************************************************************)

\* Insert keeps the ledger in canonical order, adds the signal and nothing
\* else, whatever was inserted before and in which order.
THEOREM InsertedInOrder ==
  ASSUME NEW S, IsSignalSet(S), NEW signals \in Seq(S), NEW s \in S,
         IsSortedBy(signals, CanonicalLess), MayInsert(signals, s)
  PROVE  /\ Inserted(signals, s) \in Seq(S)
         /\ IsSortedBy(Inserted(signals, s), CanonicalLess)
         /\ Range(Inserted(signals, s)) = Range(signals) \cup {s}
<1> DEFINE n == Len(signals)
           P == {j \in 1 .. n : CanonicalLess(s, signals[j])}
           i == Min(P \cup {n + 1})
           R == {p \in S \X S : CanonicalLess(p[1], p[2])}
<1>1. n \in Nat /\ DOMAIN signals = 1 .. n /\ \A j \in 1 .. n : signals[j] \in S
  BY LenProperties, ElementOfSeq
<1>2. Inserted(signals, s) = InsertAt(signals, i, s)
  BY <1>1 DEF Inserted, SortedInsert, LowerBound
<1>3. /\ i \in 1 .. n + 1
      /\ i <= n => CanonicalLess(s, signals[i])
      /\ \A j \in 1 .. n : CanonicalLess(s, signals[j]) => i <= j
  <2> HIDE DEF n
  <2>1. P \subseteq 1 .. n
    OBVIOUS
  <2> HIDE DEF P
  <2>2. i \in 1 .. n + 1 /\ (i <= n => i \in P) /\ \A j \in P : i <= j
    BY <1>1, <2>1, LeastPosition
  <2> QED
    BY <2>2 DEF P
<1>4. \A a, b \in S : <<a, b>> \in R <=> CanonicalLess(a, b)
  OBVIOUS
<1>5. \A j, k \in 1 .. n : j < k => <<signals[j], signals[k]>> \in R
  BY <1>1, <1>4 DEF IsSortedBy
<1> HIDE DEF n, i, R, P
<1>6. \A j \in 1 .. i - 1 : <<signals[j], s>> \in R
  <2> SUFFICES ASSUME NEW j \in 1 .. i - 1
               PROVE  CanonicalLess(signals[j], s)
    BY <1>1, <1>3, <1>4
  <2>1. j \in 1 .. n /\ ~CanonicalLess(s, signals[j])
    BY <1>1, <1>3
  <2>2. signals[j] \in S /\ signals[j] \in Range(signals)
    BY <2>1, <1>1 DEF Range
  <2>3. signals[j].receiver # s.receiver
          \/ signals[j].transmission # s.transmission
    BY <2>2 DEF MayInsert
  <2> QED
    BY <2>1, <2>2, <2>3, CanonicalLessIsOrder
<1>7. \A j \in i .. n : <<s, signals[j]>> \in R
  <2> SUFFICES ASSUME NEW j \in i .. n
               PROVE  CanonicalLess(s, signals[j])
    BY <1>1, <1>3, <1>4
  <2>1. j \in 1 .. n /\ i \in 1 .. n /\ CanonicalLess(s, signals[i])
    BY <1>1, <1>3
  <2>2. CASE i = j
    BY <2>1, <2>2
  <2>3. CASE i # j
    <3>1. i < j
      BY <2>1, <2>3
    <3>2. CanonicalLess(signals[i], signals[j])
      BY <3>1, <2>1, <1>1 DEF IsSortedBy
    <3>3. signals[i] \in S /\ signals[j] \in S
      BY <2>1, <1>1
    <3> QED
      BY <2>1, <3>2, <3>3, CanonicalLessIsOrder
  <2> QED
    BY <2>2, <2>3
<1> DEFINE w == InsertAt(signals, i, s)
<1>8. /\ w \in Seq(S) /\ Len(w) = n + 1
      /\ Range(w) = Range(signals) \cup {s}
      /\ \A j, k \in 1 .. Len(w) : j < k => <<w[j], w[k]>> \in R
  BY <1>3, <1>5, <1>6, <1>7, InsertKeepsOrder DEF n
<1>9. DOMAIN w = 1 .. Len(w) /\ \A j \in 1 .. Len(w) : w[j] \in S
  BY <1>8, LenProperties, ElementOfSeq
<1> HIDE DEF w
<1>10. IsSortedBy(w, CanonicalLess)
  BY <1>4, <1>8, <1>9 DEF IsSortedBy
<1> QED
  BY <1>2, <1>8, <1>10 DEF w

\* The two binary searches find exactly the signals of the receiver.
THEOREM SignalsForReceiverAreAll ==
  ASSUME NEW S, IsSignalSet(S), NEW signals \in Seq(S), NEW receiver \in Int,
         IsSortedBy(signals, CanonicalLess)
  PROVE  Range(SignalsForReceiver(signals, receiver)) =
           {s \in Range(signals) : s.receiver = receiver}
<1> DEFINE n == Len(signals)
           P == {j \in 1 .. n : ~(signals[j].receiver < receiver)}
           first == Min(P \cup {n + 1})
           tail == SubSeq(signals, first, n)
           Q == {j \in 1 .. Len(tail) : ~(tail[j].receiver <= receiver)}
           size == Min(Q \cup {Len(tail) + 1}) - 1
           found == SubSeq(tail, 1, size)
<1>1. n \in Nat /\ DOMAIN signals = 1 .. n /\ \A j \in 1 .. n : signals[j] \in S
  BY LenProperties, ElementOfSeq
<1>2. /\ first \in 1 .. n + 1
      /\ first <= n => first \in P
      /\ \A j \in P : first <= j
  <2> HIDE DEF n
  <2>1. P \subseteq 1 .. n
    OBVIOUS
  <2> HIDE DEF P
  <2> QED
    BY <1>1, <2>1, LeastPosition
<1>3. \A j \in 1 .. n : j < first => signals[j].receiver < receiver
  BY <1>1, <1>2
<1>4. \A j \in 1 .. n : first <= j => signals[j].receiver >= receiver
  <2> SUFFICES ASSUME NEW j \in 1 .. n, first <= j
               PROVE  signals[j].receiver >= receiver
    OBVIOUS
  <2>1. first \in 1 .. n /\ signals[first].receiver >= receiver
    BY <1>1, <1>2 DEF IsSignalSet
  <2>2. first < j => CanonicalLess(signals[first], signals[j])
    BY <2>1, <1>1 DEF IsSortedBy
  <2> HIDE DEF first
  <2>3. first = j \/ first < j
    BY <2>1
  <2>4. signals[first].receiver <= signals[j].receiver
    BY <2>1, <2>2, <2>3, <1>1, CanonicalLessIsOrder DEF IsSignalSet
  <2> QED
    BY <2>1, <2>4, <1>1 DEF IsSignalSet
<1>5. /\ tail \in Seq(S) /\ Len(tail) = n - first + 1
      /\ \A j \in 1 .. n - first + 1 : tail[j] = signals[first + j - 1]
  <2> HIDE DEF first, n
  <2>1. \A j \in first .. n : signals[j] \in S
    BY <1>1, <1>2
  <2> QED
    BY <1>1, <1>2, <2>1, SubSeqProperties
<1>6. DOMAIN tail = 1 .. Len(tail) /\ Len(tail) \in Nat
  BY <1>5, LenProperties
<1> HIDE DEF first, n, tail
<1>7. /\ size \in 0 .. Len(tail)
      /\ size < Len(tail) => size + 1 \in Q
      /\ \A j \in Q : size < j
  <2>1. Q \subseteq 1 .. Len(tail)
    OBVIOUS
  <2> HIDE DEF Q
  <2> DEFINE m == Min(Q \cup {Len(tail) + 1})
  <2>2. /\ m \in 1 .. Len(tail) + 1
        /\ m <= Len(tail) => m \in Q
        /\ \A j \in Q : m <= j
    BY <1>6, <2>1, LeastPosition
  <2>3. size = m - 1 /\ \A j \in Q : j \in Int
    BY <2>1
  <2> HIDE DEF m, size
  <2> QED
    BY <1>6, <2>2, <2>3
<1>8. SignalsForReceiver(signals, receiver) = found
  BY <1>1, <1>6 DEF SignalsForReceiver, LowerBound, first, n, tail
<1> HIDE DEF size
<1>9. /\ found \in Seq(S) /\ Len(found) = size
      /\ \A j \in 1 .. size : found[j] = tail[j]
  <2>1. \A j \in 1 .. size : tail[j] \in S
    BY <1>5, <1>6, <1>7, ElementOfSeq
  <2>2. /\ found \in Seq(S)
        /\ Len(found) = IF 1 <= size THEN size - 1 + 1 ELSE 0
        /\ \A j \in 1 .. size - 1 + 1 : found[j] = tail[1 + j - 1]
    BY <1>6, <1>7, <2>1, SubSeqProperties
  <2> HIDE DEF found
  <2> QED
    BY <1>6, <1>7, <2>2
<1>10. DOMAIN found = 1 .. size
  BY <1>9, LenProperties
<1> HIDE DEF found
<1>11. ASSUME NEW j \in 1 .. size
       PROVE  found[j] \in Range(signals) /\ found[j].receiver = receiver
  <2>1. j \in 1 .. Len(tail) /\ first + j - 1 \in 1 .. n
        /\ first <= first + j - 1 /\ j \in 1 .. n - first + 1
    BY <1>1, <1>2, <1>5, <1>6, <1>7
  <2>2. found[j] = signals[first + j - 1] /\ found[j] = tail[j]
    BY <2>1, <1>5, <1>9
  <2>3. found[j] \in Range(signals) /\ found[j].receiver \in Int
    BY <2>1, <2>2, <1>1 DEF Range, IsSignalSet
  <2>4. found[j].receiver >= receiver
    BY <2>1, <2>2, <1>4
  <2>5. j \notin Q
    BY <1>6, <1>7
  <2>6. found[j].receiver <= receiver
    BY <2>1, <2>2, <2>5
  <2> QED
    BY <2>3, <2>4, <2>6
<1>12. ASSUME NEW j \in 1 .. n, signals[j].receiver = receiver
       PROVE  \E k \in 1 .. size : found[k] = signals[j]
  <2>1. signals[j].receiver \in Int /\ ~(j < first)
    BY <1>1, <1>3, <1>12 DEF IsSignalSet
  <2> DEFINE k == j - first + 1
  <2>2. k \in 1 .. n - first + 1 /\ first + k - 1 = j /\ k \in 1 .. Len(tail)
    BY <1>1, <1>2, <1>5, <2>1
  <2>3. tail[k] = signals[j]
    BY <2>2, <1>5
  <2>4. k <= size
    <3> SUFFICES ASSUME size < k PROVE FALSE
      BY <2>2, <1>6, <1>7
    <3>1. size + 1 \in Q /\ size + 1 \in 1 .. Len(tail) /\ size + 1 <= k
      BY <1>6, <1>7, <2>2
    <3> DEFINE l == first + (size + 1) - 1
    <3>2. tail[size + 1] = signals[l] /\ l \in 1 .. n /\ l <= j
      BY <3>1, <2>2, <1>1, <1>2, <1>5, <1>6
    <3>3. signals[l].receiver > receiver
      BY <3>1, <3>2, <1>1 DEF IsSignalSet
    <3>4. l < j => CanonicalLess(signals[l], signals[j])
      BY <3>2, <1>1 DEF IsSortedBy
    <3> HIDE DEF l
    <3>5. l = j \/ l < j
      BY <3>2
    <3>6. signals[l] \in S /\ signals[j] \in S
      BY <3>2, <1>1
    <3>7. l < j => signals[l].receiver <= signals[j].receiver
      BY <3>4, <3>6, CanonicalLessIsOrder
    <3>8. signals[l].receiver \in Int
      BY <3>6 DEF IsSignalSet
    <3> QED
      BY <1>12, <3>3, <3>5, <3>7, <3>8
  <2>5. k \in 1 .. size
    BY <2>2, <2>4, <1>6, <1>7
  <2> HIDE DEF k
  <2> QED
    BY <2>3, <2>5, <1>9
<1>13. Range(found) = {s \in Range(signals) : s.receiver = receiver}
  BY <1>1, <1>10, <1>11, <1>12 DEF Range
<1> QED
  BY <1>8, <1>13

\* Contains, which searches for the receiver and compares whole signals, is
\* membership.
THEOREM ContainsSignalIsMembership ==
  ASSUME NEW S, IsSignalSet(S), NEW signals \in Seq(S), NEW s \in S,
         IsSortedBy(signals, CanonicalLess)
  PROVE  ContainsSignal(signals, s) <=> s \in Range(signals)
<1>1. s.receiver \in Int
  BY DEF IsSignalSet
<1>2. Range(SignalsForReceiver(signals, s.receiver)) =
        {t \in Range(signals) : t.receiver = s.receiver}
  BY <1>1, SignalsForReceiverAreAll
<1> QED
  BY <1>2 DEF ContainsSignal

(***************************************************************************)
(* ReceptionResultAccumulator.                                             *)
(***************************************************************************)

\* Append keeps the sessions in canonical order, as long as no two share a
\* ReceptionId.
THEOREM AppendedInOrder ==
  ASSUME NEW S, IsSessionSet(S), NEW sessions \in Seq(S), NEW r \in S,
         IsSortedBy(sessions, SessionLess),
         \A q \in Range(sessions) : q.reception # r.reception
  PROVE  /\ Appended(sessions, r) \in Seq(S)
         /\ IsSortedBy(Appended(sessions, r), SessionLess)
         /\ Range(Appended(sessions, r)) = Range(sessions) \cup {r}
         /\ Len(Appended(sessions, r)) = Len(sessions) + 1
<1> DEFINE n == Len(sessions)
           P == {j \in 1 .. n : SessionLess(r, sessions[j])}
           i == Min(P \cup {n + 1})
           R == {p \in S \X S : SessionLess(p[1], p[2])}
<1>1. n \in Nat /\ DOMAIN sessions = 1 .. n
      /\ \A j \in 1 .. n : sessions[j] \in S
  BY LenProperties, ElementOfSeq
<1>2. Appended(sessions, r) = InsertAt(sessions, i, r)
  BY <1>1 DEF Appended, SortedInsert, LowerBound
<1>3. /\ i \in 1 .. n + 1
      /\ i <= n => SessionLess(r, sessions[i])
      /\ \A j \in 1 .. n : SessionLess(r, sessions[j]) => i <= j
  <2> HIDE DEF n
  <2>1. P \subseteq 1 .. n
    OBVIOUS
  <2> HIDE DEF P
  <2>2. i \in 1 .. n + 1 /\ (i <= n => i \in P) /\ \A j \in P : i <= j
    BY <1>1, <2>1, LeastPosition
  <2> QED
    BY <2>2 DEF P
<1>4. \A a, b \in S : <<a, b>> \in R <=> SessionLess(a, b)
  OBVIOUS
<1>5. \A j, k \in 1 .. n : j < k => <<sessions[j], sessions[k]>> \in R
  BY <1>1, <1>4 DEF IsSortedBy
<1> HIDE DEF n, i, R, P
<1>6. \A j \in 1 .. i - 1 : <<sessions[j], r>> \in R
  <2> SUFFICES ASSUME NEW j \in 1 .. i - 1
               PROVE  SessionLess(sessions[j], r)
    BY <1>1, <1>3, <1>4
  <2>1. j \in 1 .. n /\ ~SessionLess(r, sessions[j])
    BY <1>1, <1>3
  <2>2. sessions[j] \in S /\ sessions[j] \in Range(sessions)
    BY <2>1, <1>1 DEF Range
  <2> QED
    BY <2>1, <2>2, SessionLessIsOrder
<1>7. \A j \in i .. n : <<r, sessions[j]>> \in R
  <2> SUFFICES ASSUME NEW j \in i .. n
               PROVE  SessionLess(r, sessions[j])
    BY <1>1, <1>3, <1>4
  <2>1. j \in 1 .. n /\ i \in 1 .. n /\ SessionLess(r, sessions[i])
    BY <1>1, <1>3
  <2>2. CASE i = j
    BY <2>1, <2>2
  <2>3. CASE i # j
    <3>1. i < j
      BY <2>1, <2>3
    <3>2. SessionLess(sessions[i], sessions[j])
      BY <3>1, <2>1, <1>1 DEF IsSortedBy
    <3>3. sessions[i] \in S /\ sessions[j] \in S
      BY <2>1, <1>1
    <3> QED
      BY <2>1, <3>2, <3>3, SessionLessIsOrder
  <2> QED
    BY <2>2, <2>3
<1> DEFINE w == InsertAt(sessions, i, r)
<1>8. /\ w \in Seq(S) /\ Len(w) = n + 1
      /\ Range(w) = Range(sessions) \cup {r}
      /\ \A j, k \in 1 .. Len(w) : j < k => <<w[j], w[k]>> \in R
  BY <1>3, <1>5, <1>6, <1>7, InsertKeepsOrder DEF n
<1>9. DOMAIN w = 1 .. Len(w) /\ \A j \in 1 .. Len(w) : w[j] \in S
  BY <1>8, LenProperties, ElementOfSeq
<1> HIDE DEF w
<1>10. IsSortedBy(w, SessionLess)
  BY <1>4, <1>8, <1>9 DEF IsSortedBy
<1> QED
  BY <1>2, <1>8, <1>10 DEF w, n
===============================================================================

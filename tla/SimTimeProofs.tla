---------------------------- MODULE SimTimeProofs ----------------------------
(***************************************************************************)
(* The checked arithmetic is exact for every width of the counts.          *)
(***************************************************************************)
EXTENDS MCSimTime, TLAPS

LEMMA AddExact ==
  ASSUME NEW a \in Counts, NEW b \in Counts
  PROVE  CheckedAddCounts(a, b) = Exactly(a + b)
BY WidthAssumption DEF Counts, MinCount, CheckedAddCounts, Exactly

LEMMA SubtractExact ==
  ASSUME NEW a \in Counts, NEW b \in Counts
  PROVE  CheckedSubtractCounts(a, b) = Exactly(a - b)
BY WidthAssumption DEF Counts, MinCount, CheckedSubtractCounts, Exactly

LEMMA TimesMonotone ==
  ASSUME NEW a \in Int, NEW b \in Int, NEW s \in Int, s > 0, a <= b
  PROVE  a * s <= b * s
OBVIOUS

LEMMA Quotient ==
  ASSUME NEW m \in Nat, NEW s \in Int, s > 0
  PROVE  /\ m \div s \in Int
         /\ (m \div s) * s <= m
         /\ m < (m \div s) * s + s
OBVIOUS

LEMMA Products ==
  ASSUME NEW q \in Int, NEW s \in Int
  PROVE  /\ q * s \in Int
         /\ (q + 1) * s = q * s + s
         /\ (-q) * s = -(q * s)
OBVIOUS

\* What comparing with the quotient tells of the product.
LEMMA AtMostQuotient ==
  ASSUME NEW m \in Nat, NEW s \in Int, s > 0, NEW v \in Int
  PROVE  v <= m \div s <=> v * s <= m
<1> DEFINE q == m \div s
<1>1. q \in Int /\ q * s <= m /\ m < q * s + s
  BY Quotient
<1> HIDE DEF q
<1>2. CASE v <= q
  BY <1>1, <1>2, TimesMonotone, Products DEF q
<1>3. CASE v >= q + 1
  <2>1. (q + 1) * s <= v * s
    BY <1>1, <1>3, TimesMonotone
  <2>2. (q + 1) * s = q * s + s /\ q * s \in Int /\ v * s \in Int
    BY <1>1, Products
  <2> QED
    BY <1>1, <1>3, <2>1, <2>2 DEF q
<1> QED
  BY <1>1, <1>2, <1>3

\* The limits are rounded towards zero, the least one included.
LEMMA ScaleExact ==
  ASSUME NEW v \in Counts, NEW s \in Counts, s > 0
  PROVE  CheckedScaleNanoseconds(v, s) = Exactly(v * s)
<1>1. /\ MaxCount \in Nat /\ MaxCount + 1 \in Nat /\ MinCount = -(MaxCount + 1)
      /\ v \in Int /\ -v \in Int /\ s \in Int
  BY WidthAssumption DEF Counts, MinCount
<1>2. /\ TruncatedDivide(MaxCount, s) = MaxCount \div s
      /\ TruncatedDivide(MinCount, s) = -((MaxCount + 1) \div s)
  <2>1. -MinCount = MaxCount + 1 /\ ~(MinCount >= 0) /\ MaxCount >= 0
    BY <1>1
  <2> QED
    BY <2>1 DEF TruncatedDivide
<1>3. v > MaxCount \div s <=> v * s > MaxCount
  <2>1. v <= MaxCount \div s <=> v * s <= MaxCount
    BY <1>1, AtMostQuotient
  <2>2. MaxCount \div s \in Int /\ v * s \in Int
    BY <1>1, Quotient, Products
  <2> QED
    BY <1>1, <2>1, <2>2
<1>4. v < -((MaxCount + 1) \div s) <=> v * s < MinCount
  <2>1. -v <= (MaxCount + 1) \div s <=> (-v) * s <= MaxCount + 1
    BY <1>1, AtMostQuotient
  <2>2. /\ (MaxCount + 1) \div s \in Int
        /\ v * s \in Int /\ (-v) * s = -(v * s)
    BY <1>1, Quotient, Products
  <2> HIDE DEF MinCount
  <2> QED
    BY <1>1, <2>1, <2>2
<1>5. v * s \in Int
  BY <1>1, Products
<1> QED
  BY <1>1, <1>2, <1>3, <1>4, <1>5
     DEF CheckedScaleNanoseconds, Exactly, Counts

\* Checked addition never returns a wrapped count.
THEOREM AddIsExactTheorem == Spec => []AddIsExact
<1> DEFINE Inv == lhs \in Counts /\ rhs \in Counts
<1>1. Init => Inv
  BY DEF Init
<1>2. Inv /\ [Exchange]_vars => Inv'
  BY DEF Exchange, vars
<1>3. Inv => AddIsExact
  BY AddExact DEF AddIsExact
<1> QED
  BY <1>1, <1>2, <1>3, PTL DEF Spec

\* Checked subtraction never returns a wrapped count.
THEOREM SubtractIsExactTheorem == Spec => []SubtractIsExact
<1> DEFINE Inv == lhs \in Counts /\ rhs \in Counts
<1>1. Init => Inv
  BY DEF Init
<1>2. Inv /\ [Exchange]_vars => Inv'
  BY DEF Exchange, vars
<1>3. Inv => SubtractIsExact
  BY SubtractExact DEF SubtractIsExact
<1> QED
  BY <1>1, <1>2, <1>3, PTL DEF Spec

\* A time given in larger units is scaled to exact nanoseconds or refused.
THEOREM ScaleIsExactTheorem == Spec => []ScaleIsExact
<1> DEFINE Inv == lhs \in Counts /\ rhs \in Counts
<1>1. Init => Inv
  BY DEF Init
<1>2. Inv /\ [Exchange]_vars => Inv'
  BY DEF Exchange, vars
<1>3. Inv => ScaleIsExact
  BY ScaleExact DEF ScaleIsExact
<1> QED
  BY <1>1, <1>2, <1>3, PTL DEF Spec
===============================================================================

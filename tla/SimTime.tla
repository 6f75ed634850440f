------------------------------- MODULE SimTime -------------------------------
(***************************************************************************)
(* The checked time arithmetic of contracts/time.hpp.  SimTime and         *)
(* SimDuration hold a signed count of nanoseconds of a fixed width; every  *)
(* operation either yields the exact result or nothing.                    *)
(***************************************************************************)
EXTENDS Integers

CONSTANTS
  MaxCount,   \* numeric_limits<NanosecondCount>::max(), scaled down
  NoCount     \* std::nullopt

MinCount == -MaxCount - 1
Counts   == MinCount .. MaxCount

ASSUME WidthAssumption ==
  /\ MaxCount \in Nat
  /\ NoCount \notin Int

\* Mutant: the largest sum is taken for an overflow.
AddCountsOffByOne(lhs, rhs) ==
  IF \/ rhs > 0 /\ lhs >= MaxCount - rhs
     \/ rhs < 0 /\ lhs < MinCount - rhs
  THEN NoCount
  ELSE lhs + rhs

CheckedAddCounts(lhs, rhs) ==
  IF \/ rhs > 0 /\ lhs > MaxCount - rhs
     \/ rhs < 0 /\ lhs < MinCount - rhs
  THEN NoCount
  ELSE lhs + rhs

\* Mutant: subtracting a negative count is taken to be safe.
SubtractCountsOneSided(lhs, rhs) ==
  IF rhs > 0 /\ lhs < MinCount + rhs THEN NoCount ELSE lhs - rhs

CheckedSubtractCounts(lhs, rhs) ==
  IF \/ rhs > 0 /\ lhs < MinCount + rhs
     \/ rhs < 0 /\ lhs > MaxCount + rhs
  THEN NoCount
  ELSE lhs - rhs

\* Mutant: the division rounds down.
FlooredDivide(n, d) == n \div d

\* Integer division of C++ rounds towards zero; \div rounds down.
TruncatedDivide(n, d) == IF n >= 0 THEN n \div d ELSE -((-n) \div d)

CheckedScaleNanoseconds(value, scale) ==
  IF \/ value > TruncatedDivide(MaxCount, scale)
     \/ value < TruncatedDivide(MinCount, scale)
  THEN NoCount
  ELSE value * scale
===============================================================================

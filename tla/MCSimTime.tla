------------------------------ MODULE MCSimTime ------------------------------
(***************************************************************************)
(* SimTime on every pair of operands, with counts of a few bits.           *)
(***************************************************************************)
EXTENDS SimTime

VARIABLES lhs, rhs

vars == <<lhs, rhs>>

Init == lhs \in Counts /\ rhs \in Counts

Exchange == lhs' = rhs /\ rhs' = lhs

Spec == Init /\ [][Exchange]_vars

\* The integer n, if the type can hold it.
Exactly(n) == IF n \in Counts THEN n ELSE NoCount

\* CheckedAdd yields the sum whenever it fits the type and only then: no
\* wrapped time is returned at either end of the range.
AddIsExact == CheckedAddCounts(lhs, rhs) = Exactly(lhs + rhs)

\* The same of CheckedSubtract, whose operands may be the least count.
SubtractIsExact == CheckedSubtractCounts(lhs, rhs) = Exactly(lhs - rhs)

\* The same of TryFromMicroseconds, TryFromMilliseconds and TryFromSeconds,
\* for any positive number of nanoseconds per unit.
ScaleIsExact ==
  rhs > 0 => CheckedScaleNanoseconds(lhs, rhs) = Exactly(lhs * rhs)
===============================================================================

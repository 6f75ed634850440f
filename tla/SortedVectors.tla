----------------------------- MODULE SortedVectors -----------------------------
(***************************************************************************)
(* Vectors the code keeps sorted, and what it asks of the C++ library to   *)
(* do so: std::sort after a push_back, and binary searches.                *)
(***************************************************************************)
EXTENDS SequencesExt

\* The first position at or after which no element comes before the one that
\* is looked for: std::lower_bound on a vector that is partitioned by Before.
LowerBound(vector, Before(_)) ==
  Min({i \in DOMAIN vector : ~Before(vector[i])} \cup {Len(vector) + 1})

\* push_back and std::sort on a vector that was sorted, with an order in which
\* no two elements tie: the new element goes before the first larger one.
SortedInsert(vector, x, Less(_, _)) ==
  InsertAt(vector, LowerBound(vector, LAMBDA e : ~Less(x, e)), x)

IsSortedBy(vector, Less(_, _)) ==
  \A i, j \in DOMAIN vector : i < j => Less(vector[i], vector[j])
===============================================================================

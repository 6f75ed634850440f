--------------------------- MODULE SignalRegistries ---------------------------
(***************************************************************************)
(* The two registries a cycle fills: InFlightSignalLedger with the signals *)
(* that arrived, ReceptionResultAccumulator with the sessions that ended.  *)
(* Both are vectors in canonical order whatever the order of the calls.    *)
(***************************************************************************)
EXTENDS SortedVectors

CanonicalLess(s, t) ==
  \/ s.receiver < t.receiver
  \/ s.receiver = t.receiver /\ s.from < t.from
  \/ s.receiver = t.receiver /\ s.from = t.from
       /\ s.transmission < t.transmission

MayInsert(signals, s) ==
  \A e \in Range(signals) :
    e.receiver # s.receiver \/ e.transmission # s.transmission

\* Mutant: the vector is not sorted after the push_back.
InsertedLast(signals, s) == Append(signals, s)

Inserted(signals, s) == SortedInsert(signals, s, CanonicalLess)

\* The span between two binary searches for the receiver.
SignalsForReceiver(signals, receiver) ==
  LET first == LowerBound(signals, LAMBDA e : e.receiver < receiver)
      tail  == SubSeq(signals, first, Len(signals))
      size  == LowerBound(tail, LAMBDA e : e.receiver <= receiver) - 1
  IN  SubSeq(tail, 1, size)

\* The element with the receiver and transmission of s is s as a whole.
ContainsSignal(signals, s) ==
  s \in Range(SignalsForReceiver(signals, s.receiver))

ReadyForCycleClose(signals, closeTime) ==
  \A s \in Range(signals) : s.until <= closeTime

SessionLess(q, r) ==
  \/ q.signal.from < r.signal.from
  \/ q.signal.from = r.signal.from /\ q.signal.receiver < r.signal.receiver
  \/ q.signal.from = r.signal.from /\ q.signal.receiver = r.signal.receiver
       /\ \/ q.signal.transmission < r.signal.transmission
          \/ q.signal.transmission = r.signal.transmission
               /\ q.reception < r.reception

Appended(sessions, r) == SortedInsert(sessions, r, SessionLess)
===============================================================================

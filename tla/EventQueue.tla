------------------------------ MODULE EventQueue ------------------------------
(***************************************************************************)
(* What the EventDispatcher promises, with no simulator, time bucket or    *)
(* run loop in sight: a set of accepted events that are dispatched one by  *)
(* one, each of them the least of all that are pending, and never after an *)
(* event that should have followed it.  An event is its EventKey: the time *)
(* and phase it asks for and the sequence number that breaks ties.         *)
(* Events may be accepted at the time that is being dispatched, but each   *)
(* in a later phase than all that was dispatched then: however many ids    *)
(* there are, a chain of events that add events to their own time is no    *)
(* longer than there are phases.                                           *)
(***************************************************************************)
EXTENDS Integers

CONSTANT Keys        \* the event keys that can ever be accepted

VARIABLES
  pending,           \* the accepted events that wait for their turn
  dispatched         \* the events whose callback was called

vars == <<pending, dispatched>>

\* The order of EventKey: its members are compared one after the other.
Precedes(k, l) ==
  \/ k.time < l.time
  \/ k.time = l.time /\ k.phase < l.phase
  \/ k.time = l.time /\ k.phase = l.phase /\ k.sequence < l.sequence

Init ==
  /\ pending = {}
  /\ dispatched = {}

\* Nothing of this time, in this phase or a later one, nor of a later time, has
\* been dispatched.
IsStillToCome(k) ==
  \A d \in dispatched :
    d.time < k.time \/ (d.time = k.time /\ d.phase < k.phase)

Accept(k) ==
  /\ IsStillToCome(k)
  /\ \A p \in pending \cup dispatched : p.sequence # k.sequence
  /\ pending' = pending \cup {k}
  /\ UNCHANGED dispatched

Dispatch(k) ==
  /\ k \in pending
  /\ \A p \in pending \ {k} : Precedes(k, p)
  /\ pending' = pending \ {k}
  /\ dispatched' = dispatched \cup {k}

Next == \E k \in Keys : Accept(k) \/ Dispatch(k)

Spec == Init /\ [][Next]_vars
===============================================================================

--------------------------- MODULE ReceptionHistory ---------------------------
(***************************************************************************)
(* What the planning cycles promise to whoever reads their receptions,     *)
(* with no events, ledger or providers in sight: signals are emitted, each *)
(* is received at most once and together with all the signals it meets,    *)
(* and a cycle is settled when nothing that was emitted is left over.      *)
(***************************************************************************)
EXTENDS Integers

VARIABLES
  sent,        \* the signals that were emitted
  received,    \* [signal, met] for every reception
  settled      \* the signals of the cycles that were committed

vars == <<sent, received, settled>>

\* Two signals meet at a receiver: some unit of time and some unit of
\* frequency belong to both.
Meet(s, t) ==
  /\ s.receiver = t.receiver
  /\ (s.from .. s.until - 1) \cap (t.from .. t.until - 1) # {}
  /\ (s.lower .. s.upper - 1) \cap (t.lower .. t.upper - 1) # {}

Met(s) == {t \in sent \ {s} : Meet(s, t)}

Init == sent = {} /\ received = {} /\ settled = {}

\* New signals come too late to meet one that was received already.
Emit ==
  /\ sent \subseteq sent'
  /\ \A s \in sent' \ sent :
       /\ \A r \in received : ~Meet(r.signal, s)
       /\ \A t \in sent' \ {s} :
            t.transmission # s.transmission \/ t.receiver # s.receiver
  /\ UNCHANGED <<received, settled>>

Receive ==
  \E s \in sent \ settled :
    /\ \A r \in received : r.signal # s
    /\ received' = received \cup {[signal |-> s, met |-> Met(s)]}
    /\ UNCHANGED <<sent, settled>>

Settle ==
  /\ \A s \in sent : \E r \in received : r.signal = s
  /\ settled' = sent
  /\ UNCHANGED <<sent, received>>

Next == Emit \/ Receive \/ Settle

Spec == Init /\ [][Next]_vars

(***************************************************************************)
(* What follows from it.                                                   *)
(***************************************************************************)

\* A reception knows every signal that ever meets the received one, however
\* late it was emitted.
Complete == \A r \in received : r.met = Met(r.signal)

\* One reception per signal, and of emitted signals only.
ReceivedOnce ==
  /\ \A r \in received : r.signal \in sent
  /\ \A q, r \in received : q.signal = r.signal => q = r

\* Every signal of a committed cycle was received.
SettledIsReceived == \A s \in settled : \E r \in received : r.signal = s
===============================================================================

------------------------ MODULE ReceptionHistoryProofs ------------------------
(***************************************************************************)
(* Machine-checked proof that the planning cycles keep the promises of     *)
(* ReceptionHistory, for any number of cycles, requests and answers of the *)
(* providers, failures included: what a reader of the receptions may rely  *)
(* on follows from these promises.  The one thing that is asked of the     *)
(* program is that it heeds the error of a Run.  Then, from an invariant   *)
(* about the world a cycle works on, that a close on time commits, and     *)
(* when alone the receiving side fails.                                    *)
(***************************************************************************)
EXTENDS ReceptionProofs

(***************************************************************************)
(* What follows from ReceptionHistory.                                     *)
(***************************************************************************)
Promised ==
  /\ History!Complete
  /\ History!ReceivedOnce
  /\ History!SettledIsReceived

LEMMA InitPromised == History!Init => Promised
BY DEF History!Init, Promised, History!Complete, History!ReceivedOnce,
       History!SettledIsReceived

LEMMA EmitPromised ==
  ASSUME Promised, History!Emit
  PROVE  Promised'
<1>1. History!Complete'
  <2> SUFFICES ASSUME NEW r \in Heard
               PROVE  r.met = History!Met(r.signal)'
    BY DEF History!Emit, History!Complete
  <2>1. \A t \in Emitted' \ {r.signal} :
          History!Meet(r.signal, t) => t \in Emitted \ {r.signal}
    BY DEF History!Emit
  <2>2. History!Met(r.signal)' =
          {t \in Emitted' \ {r.signal} : History!Meet(r.signal, t)}
    BY DEF History!Met
  <2>3. History!Met(r.signal)' = History!Met(r.signal)
    BY <2>1, <2>2 DEF History!Met, History!Emit
  <2> QED
    BY <2>3 DEF Promised, History!Complete
<1>2. History!ReceivedOnce' /\ History!SettledIsReceived'
  BY DEF History!Emit, Promised, History!ReceivedOnce,
         History!SettledIsReceived
<1> QED
  BY <1>1, <1>2 DEF Promised

LEMMA ReceivePromised ==
  ASSUME Promised, History!Receive
  PROVE  Promised'
<1>1. PICK s \in Emitted \ Settled :
        /\ \A r \in Heard : r.signal # s
        /\ Heard' = Heard \cup {[signal |-> s, met |-> History!Met(s)]}
        /\ Emitted' = Emitted /\ Settled' = Settled
  BY DEF History!Receive
<1>2. \A t : History!Met(t)' = History!Met(t)
  BY <1>1 DEF History!Met
<1>3. History!Complete'
  BY <1>1, <1>2 DEF Promised, History!Complete
<1>4. History!ReceivedOnce' /\ History!SettledIsReceived'
  BY <1>1 DEF Promised, History!ReceivedOnce, History!SettledIsReceived
<1> QED
  BY <1>3, <1>4 DEF Promised

LEMMA SettlePromised ==
  ASSUME Promised, History!Settle
  PROVE  Promised'
<1>1. \A t : History!Met(t)' = History!Met(t)
  BY DEF History!Settle, History!Met
<1> QED
  BY <1>1 DEF History!Settle, Promised, History!Complete,
              History!ReceivedOnce, History!SettledIsReceived

LEMMA NextPromised == Promised /\ [History!Next]_(History!vars) => Promised'
<1> SUFFICES ASSUME Promised, [History!Next]_(History!vars) PROVE Promised'
  OBVIOUS
<1>1. CASE UNCHANGED History!vars
  <2>1. Emitted' = Emitted /\ Heard' = Heard /\ Settled' = Settled
    BY <1>1 DEF History!vars
  <2>2. \A t : History!Met(t)' = History!Met(t)
    BY <2>1 DEF History!Met
  <2> QED
    BY <2>1, <2>2 DEF Promised, History!Complete, History!ReceivedOnce,
                      History!SettledIsReceived
<1> QED
  BY <1>1, EmitPromised, ReceivePromised, SettlePromised DEF History!Next

LEMMA KeepsPromises == History!Spec => []Promised
BY InitPromised, NextPromised, PTL DEF History!Spec

\* A window never misses a signal, however late that signal is emitted.
THEOREM CompleteTheorem == History!Spec => []History!Complete
<1>1. Promised => History!Complete
  BY DEF Promised
<1> QED
  BY <1>1, KeepsPromises, PTL

\* No signal is received twice, and none that was not emitted.
THEOREM ReceivedOnceTheorem == History!Spec => []History!ReceivedOnce
<1>1. Promised => History!ReceivedOnce
  BY DEF Promised
<1> QED
  BY <1>1, KeepsPromises, PTL

\* What a committed cycle emitted was received.
THEOREM SettledIsReceivedTheorem == History!Spec => []History!SettledIsReceived
<1>1. Promised => History!SettledIsReceived
  BY DEF Promised
<1> QED
  BY <1>1, KeepsPromises, PTL

(***************************************************************************)
(* The dispatcher of a program that heeds errors.                          *)
(***************************************************************************)
Heeding == BeginRun => ~executionError

LEMMA KernelBegins ==
  ASSUME [Next]_vars, Kernel!BeginRun
  PROVE  BeginRun
<1>1. control = "host" /\ control' = "simulator"
  BY DEF Kernel!BeginRun
<1>2. ~\E c \in Cycles : OpenCycle(c)
  BY <1>1 DEF OpenCycle, kernelVars
<1>3. ~\E e \in HostEvents : HostSchedules(e)
  BY <1>1 DEF HostSchedules, Schedule, D!ScheduleAt
<1>4. ~RunLoop
  BY <1>1 DEF RunLoop, Call, D!CallNext, D!EnterBucket, D!LeaveBucket, D!EndRun
<1>5. ~Handlers
  BY <1>1 DEF Handlers, RefuseTransmission, Transmit, ScheduleFanOut,
              HandleSignalArrival, HandleSessionFinalize, HandleCycleClose,
              ChangeVelocity, Executing
<1>6. ~UNCHANGED vars
  BY <1>1 DEF vars, kernelVars
<1> QED
  BY <1>2, <1>3, <1>4, <1>5, <1>6 DEF Next

LEMMA TidyStep ==
  ASSUME CycleInv, Kernel!IInv, Kernel!TidyInv, [Next]_vars, Heeding
  PROVE  Kernel!TidyInv' /\ (executionError => executionError')
<1>1. [Kernel!Next]_(Kernel!vars)
  BY NextStep, SameKernelStep
<1>2. Kernel!BeginRun => ~executionError
  BY KernelBegins DEF Heeding
<1>3. Kernel!TidyInv'
  BY <1>1, <1>2, Kernel!NextTidy, KernelBounds
<1>4. executionError => executionError'
  BY <1>1, <1>2
     DEF Kernel!Next, Kernel!RunLoop, Kernel!Schedule, Kernel!ScheduleAt,
         Kernel!EnterBucket, Kernel!CallNext, Kernel!CallbackReturns,
         Kernel!LeaveBucket, Kernel!EndRun, Kernel!vars, Kernel!loopVars,
         Kernel!schedulerVars, Kernel!IInv, Kernel!ControlInv
<1> QED
  BY <1>3, <1>4

(***************************************************************************)
(* The invariant.                                                          *)
(***************************************************************************)

\* An event that names a signal is due when the signal arrives or ends.
HasTime(callback, time) ==
  /\ callback.kind = "SignalArrival" => time = callback.signal.from
  /\ callback.kind = "SessionFinalize" => time = callback.signal.until

TimeInv ==
  /\ \A k \in records : HasTime(callbacks[k.sequence], k.time)
  /\ \A e \in fanOut : HasTime(e.callback, e.time)
  /\ control = "callback" => HasTime(executing, now)

\* One cycle is open at a time.
OpenInv ==
  /\ \A t \in sent : t.cycle \in DOMAIN cycles
  /\ \A c, d \in DOMAIN cycles \ committed : c = d

\* Its signals begin when those of the cycles before it have ended.
CyclesInv ==
  /\ OpenInv
  /\ \A t, u \in sent :
       t.cycle \in committed /\ u.cycle \notin committed =>
         \A s \in t.signals, v \in u.signals : s.until <= v.from

\* A signal that was received is over.
PastInv == \A r \in Receptions : r.signal.until <= now

\* An event of this kind is to come for the signal, or is on the stack.
Pending(kind, s) ==
  \/ \E k \in records : Names(callbacks[k.sequence], kind, s)
  \/ \E e \in fanOut : Names(e.callback, kind, s)
  \/ control = "callback" /\ Names(executing, kind, s)

IsReceived(s) == \E r \in Receptions : r.signal = s

\* While nothing failed, no signal of the open cycle is lost: it is in the
\* ledger or will arrive, and it was received or will be.
TrackedInv ==
  ~executionError =>
    \A t \in sent : t.cycle \notin committed =>
      \A s \in t.signals :
        /\ s \in Range(ledger) \/ Pending("SignalArrival", s)
        /\ IsReceived(s) \/ Pending("SessionFinalize", s)

HistoryInv ==
  /\ TimeInv
  /\ CyclesInv
  /\ PastInv
  /\ TrackedInv
  /\ ClosedCycle

(***************************************************************************)
(* Facts about a state.                                                    *)
(***************************************************************************)
LEMMA SignalBounds ==
  ASSUME AllocationInv, NEW t \in sent, NEW s \in t.signals
  PROVE  /\ s \in Emitted
         /\ {s.from, s.until, s.lower, s.upper} \subseteq Int
         /\ s.from < s.until /\ s.lower < s.upper
         /\ t.request.startedAt <= s.from
         /\ s.until <= CloseTime[t.cycle]
         /\ s.transmission = t.transmission
<1>1. IsSignalOf(s, t)
  BY DEF AllocationInv, IsTransmission
<1>2. D!Times \subseteq Int
  BY LifecycleAssumption DEF D!Times
<1> QED
  BY <1>1, <1>2 DEF IsSignalOf, Emitted

LEMMA ClockIsInt == CycleInv => now \in Int
BY LifecycleAssumption DEF CycleInv, D!Times

\* A cycle is committed at its close.
LEMMA CommittedIsPast ==
  ASSUME CycleInv, Kernel!IInv, PhaseInv, NEW c \in committed
  PROVE  CloseTime[c] \in Int /\ CloseTime[c] <= now
<1>1. c \in Cycles
  BY DEF PhaseInv, CycleInv
<1>2. CloseTime[c] \in Int
  BY <1>1, CloseTimeIsTime
<1>3. PICK d \in dispatched : d.time = CloseTime[c]
  BY DEF PhaseInv
<1>4. d.time < now \/ d.time = now
  BY DEF Kernel!IInv, Kernel!ClockInv
<1> QED
  BY <1>2, <1>3, <1>4, ClockIsInt

\* While a callback runs nothing has failed, and only a TxStart that fans out
\* has events of its own.
LEMMA CallbackFacts ==
  ASSUME Kernel!IInv, CallbackInv, control = "callback"
  PROVE  /\ ~executionError
         /\ executing.kind # "FanOut" => fanOut = {}
BY DEF Kernel!IInv, Kernel!ControlInv, CallbackInv, Executing

\* An event that is due before the clock cannot be pending any more.
LEMMA NotPending ==
  ASSUME CycleInv, Kernel!TidyInv, TimeInv, ~executionError, fanOut = {},
         NEW s, {s.from, s.until} \subseteq Int,
         NEW kind \in {"SignalArrival", "SessionFinalize"},
         control = "callback" => executing.kind # kind,
         kind = "SignalArrival" => s.from < now,
         kind = "SessionFinalize" => s.until < now
  PROVE  ~Pending(kind, s)
<1> SUFFICES ASSUME NEW k \in records, Names(callbacks[k.sequence], kind, s)
             PROVE  FALSE
  BY DEF Pending, Names
<1>1. k.time >= now
  BY DEF Kernel!TidyInv
<1>2. k.time = IF kind = "SignalArrival" THEN s.from ELSE s.until
  BY DEF TimeInv, HasTime, Names
<1> QED
  BY <1>1, <1>2, ClockIsInt

(***************************************************************************)
(* What a reception and a close find.                                      *)
(***************************************************************************)

\* The window of a signal that ends now is all that it will ever meet.
LEMMA WindowIsMet ==
  ASSUME CycleInv, Kernel!IInv, Kernel!TidyInv, IInv, HistoryInv,
         NEW noise, NEW decoded, Received(noise, decoded)
  PROVE  WindowOf(executing.signal) = History!Met(executing.signal)
<1> DEFINE s == executing.signal
<1>1. /\ control = "callback" /\ executing.kind = "SessionFinalize"
      /\ now = s.until
  BY DEF Received, MayReceive, Executing
<1>2. PICK t \in sent : s \in t.signals /\ t.cycle = executing.cycle
  BY <1>1, ExecutingSignal DEF IInv
<1>3. executing.cycle \notin committed
  BY <1>1, NothingAfterCommit DEF IInv
<1>4. /\ s \in Emitted /\ s.receiver \in Int
      /\ {s.from, s.until, s.lower, s.upper} \subseteq Int
      /\ s.from < s.until /\ s.lower < s.upper
  BY <1>2, SignalBounds, EmittedSignal DEF IInv
<1>5. /\ Range(SignalsForReceiver(ledger, s.receiver)) =
           {u \in Range(ledger) : u.receiver = s.receiver}
      /\ Range(ledger) \subseteq Emitted
  <2>1. IsSortedBy(ledger, CanonicalLess) /\ ledger \in Seq(Emitted)
    BY DEF IInv, LedgerInv, IsSortedBy
  <2>2. IsSignalSet(Emitted)
    BY EmittedAreSignals DEF IInv
  <2>3. Range(ledger) \subseteq Emitted
    BY <2>1 DEF Range
  <2> QED
    BY <1>4, <2>1, <2>2, <2>3, SignalsForReceiverAreAll
<1> HIDE DEF s
<1>6. WindowOf(s) = {u \in Range(ledger) :
                       /\ u.receiver = s.receiver
                       /\ u.transmission # s.transmission
                       /\ HasP0SignalOverlap(s, u)}
  BY <1>5 DEF WindowOf
<1>7. ASSUME NEW u \in Emitted
      PROVE  /\ HasP0SignalOverlap(s, u) <=> History!Meet(s, u)
             /\ u.receiver = s.receiver =>
                  (u.transmission # s.transmission <=> u # s)
  <2>1. PICK v \in sent : u \in v.signals
    BY DEF Emitted
  <2>2. /\ {u.from, u.until, u.lower, u.upper} \subseteq Int
        /\ u.from < u.until /\ u.lower < u.upper
    BY <2>1, SignalBounds DEF IInv
  <2>3. HasP0SignalOverlap(s, u) <=> History!Meet(s, u)
    BY <1>4, <2>2, OverlapIsMeeting
  <2> QED
    BY <1>4, <2>3, SignalIdentity DEF IInv
<1>8. ASSUME NEW u \in Emitted, History!Meet(s, u)
      PROVE  u \in Range(ledger)
  <2>1. PICK v \in sent : u \in v.signals
    BY DEF Emitted
  <2>2. {u.from, u.until} \subseteq Int
    BY <2>1, SignalBounds DEF IInv
  <2>3. u.from < s.until /\ s.from < u.until
    BY <1>4, <1>8, <2>2 DEF History!Meet
  <2>4. v.cycle \notin committed
    <3>1. v.cycle \in committed => u.until <= s.from
      BY <1>2, <1>3, <2>1 DEF HistoryInv, CyclesInv
    <3> QED
      BY <1>4, <2>2, <2>3, <3>1
  <2>5. ~executionError /\ fanOut = {}
    BY <1>1, CallbackFacts DEF IInv
  <2>6. ~Pending("SignalArrival", u)
    BY <1>1, <2>2, <2>3, <2>5, NotPending DEF HistoryInv
  <2> QED
    BY <2>1, <2>4, <2>5, <2>6 DEF HistoryInv, TrackedInv
<1>9. WindowOf(s) \subseteq History!Met(s)
  BY <1>5, <1>6, <1>7 DEF History!Met
<1>10. History!Met(s) \subseteq WindowOf(s)
  <2> SUFFICES ASSUME NEW u \in Emitted \ {s}, History!Meet(s, u)
               PROVE  u \in WindowOf(s)
    BY DEF History!Met
  <2>1. u.receiver = s.receiver
    BY DEF History!Meet
  <2> QED
    BY <1>6, <1>7, <1>8, <2>1
<1> QED
  BY <1>9, <1>10 DEF s

\* At its close everything of the cycle has been received.
LEMMA AllReceivedAtClose ==
  ASSUME CycleInv, Kernel!IInv, Kernel!TidyInv, IInv, HistoryInv, Closed
  PROVE  /\ \A t \in sent : t.cycle \in committed'
         /\ \A s \in Emitted : IsReceived(s)
<1> DEFINE c == executing.cycle
<1>1. /\ control = "callback" /\ executing.kind = "CycleClose"
      /\ c \notin committed /\ now = CloseTime[c]
      /\ committed' = committed \cup {c}
  BY DEF Closed, Executing
<1>2. ~executionError /\ fanOut = {}
  BY <1>1, CallbackFacts DEF IInv
<1>3. c \in DOMAIN cycles
  BY <1>1 DEF IInv, CallbackInv, IsCallback
<1>4. \A t \in sent : t.cycle \in committed \/ t.cycle = c
  BY <1>1, <1>3 DEF HistoryInv, CyclesInv, OpenInv
<1>5. PICK d \in dispatched : d.time = now /\ d.phase = 90
  BY <1>1 DEF IInv, PhaseInv, HasPhase
<1>6. ASSUME NEW t \in sent, t.cycle = c, NEW s \in t.signals
      PROVE  IsReceived(s)
  <2>1. {s.from, s.until} \subseteq Int /\ s.until <= now
    BY <1>1, <1>6, SignalBounds DEF IInv
  <2>2. IsReceived(s) \/ Pending("SessionFinalize", s)
    BY <1>1, <1>2, <1>6 DEF HistoryInv, TrackedInv
  <2>3. ASSUME NEW k \in records,
               Names(callbacks[k.sequence], "SessionFinalize", s)
        PROVE  FALSE
    <3>1. k.time = s.until /\ k.phase = 10
      BY <2>3 DEF HistoryInv, TimeInv, HasTime, IInv, PhaseInv, HasPhase, Names
    <3>2. k.time >= now
      BY <1>2 DEF Kernel!TidyInv
    <3>3. Kernel!Queue!Precedes(d, k)
      BY <3>2 DEF Kernel!IInv, Kernel!ClockInv
    <3>4. k.time = now
      BY <2>1, <3>1, <3>2, ClockIsInt
    <3> QED
      BY <1>5, <3>1, <3>3, <3>4, ClockIsInt DEF Kernel!Queue!Precedes
  <2> QED
    BY <1>1, <1>2, <2>2, <2>3 DEF Pending, Names
<1>7. \A s \in Emitted : IsReceived(s)
  <2> SUFFICES ASSUME NEW t \in sent, NEW s \in t.signals PROVE IsReceived(s)
    BY DEF Emitted
  <2> QED
    BY <1>4, <1>6 DEF HistoryInv, ClosedCycle, IsReceived
<1> QED
  BY <1>1, <1>4, <1>7

\* What is emitted now is too late for the signals that are over and for the
\* cycles that are closed.
LEMMA EmittedIsLate ==
  ASSUME CycleInv, Kernel!IInv, IInv, HistoryInv, NEW t, Emitting(t)
  PROVE  /\ \A s \in t.signals :
              /\ {s.from, s.until} \subseteq Int
              /\ s.from < s.until /\ now <= s.from
         /\ t.cycle \in committed => t.signals = {}
         /\ \A u \in sent : u.cycle \in committed =>
              \A s \in u.signals, v \in t.signals : s.until <= v.from
<1>1. IsTransmission(t) /\ t.request.startedAt = now
  BY DEF Emitting
<1>2. D!Times \subseteq Int /\ now \in Int
  BY LifecycleAssumption, ClockIsInt DEF D!Times
<1>3. \A s \in t.signals :
        /\ {s.from, s.until} \subseteq Int
        /\ s.from < s.until /\ now <= s.from /\ s.until <= CloseTime[t.cycle]
  BY <1>1, <1>2 DEF IsTransmission, IsSignalOf
<1>4. t.cycle \in committed => t.signals = {}
  <2> SUFFICES ASSUME t.cycle \in committed, NEW s \in t.signals
               PROVE  FALSE
    OBVIOUS
  <2>1. CloseTime[t.cycle] \in Int /\ CloseTime[t.cycle] <= now
    BY CommittedIsPast DEF IInv
  <2> QED
    BY <1>2, <1>3, <2>1
<1>5. ASSUME NEW u \in sent, u.cycle \in committed,
             NEW s \in u.signals, NEW v \in t.signals
      PROVE  s.until <= v.from
  <2>1. s.until \in Int /\ s.until <= CloseTime[u.cycle]
    BY SignalBounds DEF IInv
  <2>2. CloseTime[u.cycle] \in Int /\ CloseTime[u.cycle] <= now
    BY <1>5, CommittedIsPast DEF IInv
  <2> QED
    BY <1>2, <1>3, <2>1, <2>2
<1> QED
  BY <1>3, <1>4, <1>5

(***************************************************************************)
(* Every step preserves the invariant.                                     *)
(***************************************************************************)
LEMMA TimeStep ==
  ASSUME Kernel!IInv, CallbackInv, TimeInv, Step
  PROVE  TimeInv'
<1>1. \A k \in records : k.sequence \in DOMAIN callbacks
  BY DEF CallbackInv, Kernel!IInv, Kernel!NoEventLost
<1>2. CASE Quiet
  BY <1>2 DEF Quiet, TimeInv, HasTime
<1>3. ASSUME NEW key, Called(key)
      PROVE  TimeInv'
  BY <1>3 DEF Called, TimeInv, HasTime
<1>4. ASSUME NEW e, Scheduled(e)
      PROVE  TimeInv'
  <2>1. PICK key : /\ key.sequence = nextSequence /\ key.time = e.time
                   /\ records' = records \cup {key}
    BY <1>4, ScheduledCallbacks
  <2>2. /\ callbacks'[nextSequence] = e.callback
        /\ \A q \in DOMAIN callbacks : callbacks'[q] = callbacks[q]
    BY <1>4, ScheduledCallbacks
  <2>3. /\ UNCHANGED <<control, now, executing>> /\ fanOut' \subseteq fanOut
        /\ \/ e \in fanOut
           \/ e \in HostEvents /\ e.callback.cycle \in DOMAIN cycles
    BY <1>4 DEF Scheduled
  <2>4. HasTime(e.callback, e.time)
    BY <2>3, HostCallback DEF TimeInv, HasTime
  <2>5. \A k \in records' : HasTime(callbacks'[k.sequence], k.time)
    BY <1>1, <2>1, <2>2, <2>4 DEF TimeInv
  <2> QED
    BY <2>3, <2>5 DEF TimeInv, HasTime
<1>5. CASE Returned
  BY <1>5 DEF Returned, TimeInv, HasTime
<1>6. ASSUME NEW t, Emitting(t)
      PROVE  TimeInv'
  <2>1. /\ executing' = [kind |-> "FanOut", cycle |-> executing.cycle]
        /\ fanOut' = FanOut(t.signals)
        /\ UNCHANGED <<control, now, records, callbacks>>
    BY <1>6 DEF Emitting
  <2>2. ASSUME NEW e \in fanOut' PROVE HasTime(e.callback, e.time)
    <3>1. PICK s \in t.signals : e \in {Arrival(s), Finalize(s)}
      BY <2>1 DEF FanOut
    <3> QED
      BY <3>1 DEF Arrival, Finalize, HasTime
  <2> QED
    BY <2>1, <2>2 DEF TimeInv, HasTime
<1> QED
  BY <1>2, <1>3, <1>4, <1>5, <1>6 DEF Step, Idle, Arrived, Received, Closed

LEMMA OpenStep ==
  ASSUME CallbackInv, OpenInv, Step
  PROVE  OpenInv'
<1>1. CASE Quiet
  BY <1>1 DEF Quiet, radioVars, OpenInv
<1>2. ASSUME NEW t, Emitting(t)
      PROVE  OpenInv'
  <2>1. /\ sent' = sent \cup {t} /\ UNCHANGED <<cycles, committed>>
        /\ t.cycle \in DOMAIN cycles
    BY <1>2 DEF Emitting, Executing, CallbackInv, IsCallback
  <2> QED
    BY <2>1 DEF OpenInv
<1>3. CASE /\ DOMAIN cycles' = DOMAIN cycles /\ sent' = sent
           /\ committed \subseteq committed'
  BY <1>3 DEF OpenInv
<1> QED
  BY <1>1, <1>2, <1>3
     DEF Step, Called, Scheduled, Idle, Returned, Arrived, Received, Closed,
         radioVars

LEMMA CyclesStep ==
  ASSUME CycleInv, Kernel!IInv, Kernel!TidyInv, IInv, HistoryInv, Step
  PROVE  CyclesInv'
<1>1. OpenInv'
  BY OpenStep DEF IInv, HistoryInv, CyclesInv
<1>2. CASE UNCHANGED <<sent, committed>>
  BY <1>1, <1>2 DEF HistoryInv, CyclesInv
<1>3. CASE Closed
  <2>1. \A t \in sent' : t.cycle \in committed'
    BY <1>3, AllReceivedAtClose DEF Closed, radioVars
  <2> QED
    BY <1>1, <2>1 DEF CyclesInv
<1>4. ASSUME NEW t, Emitting(t)
      PROVE  CyclesInv'
  <2>1. sent' = sent \cup {t} /\ committed' = committed
    BY <1>4 DEF Emitting
  <2>2. /\ t.cycle \in committed => t.signals = {}
        /\ \A u \in sent : u.cycle \in committed =>
             \A s \in u.signals, v \in t.signals : s.until <= v.from
    BY <1>4, EmittedIsLate
  <2> QED
    BY <1>1, <2>1, <2>2 DEF HistoryInv, CyclesInv
<1> QED
  BY <1>2, <1>3, <1>4
     DEF Step, Quiet, Called, Scheduled, Idle, Arrived, Received, radioVars

LEMMA PastStep ==
  ASSUME CycleInv, CycleInv', IInv, PastInv, Step
  PROVE  PastInv'
<1>1. now \in Int /\ now' \in Int /\ now <= now'
  <2>1. now \in Int /\ now' \in Int
    BY LifecycleAssumption DEF CycleInv, D!Times
  <2>2. Quiet => now <= now'
    BY DEF Quiet
  <2>3. Step => now' = now \/ Quiet
    BY DEF Step, Called, Scheduled, Idle, Arrived, Received, Closed, Emitting,
           Returned
  <2> QED
    BY <2>1, <2>2, <2>3
<1>2. \A r \in Receptions : r.signal.until \in Int /\ r.signal.until <= now'
  <2> SUFFICES ASSUME NEW r \in Receptions
               PROVE  r.signal.until \in Int /\ r.signal.until <= now'
    OBVIOUS
  <2>1. PICK t \in sent : r.signal \in t.signals
    BY DEF IInv, ResultInv, IsSession, Emitted
  <2>2. r.signal.until \in Int
    BY <2>1, SignalBounds DEF IInv
  <2> QED
    BY <1>1, <2>2 DEF PastInv
<1>3. CASE results' = results
  BY <1>2, <1>3 DEF PastInv, Receptions
<1>4. ASSUME NEW noise, NEW decoded, Received(noise, decoded)
      PROVE  PastInv'
  <2> DEFINE new == Session(executing.signal, noise, decoded)
  <2>1. Receptions' = Receptions \cup {new} /\ new.signal = executing.signal
    BY <1>4, ReceivedResults DEF IInv
  <2> HIDE DEF new
  <2>2. now = executing.signal.until /\ now' = now
    BY <1>4 DEF Received, MayReceive, Returned
  <2> QED
    BY <1>1, <1>2, <2>1, <2>2 DEF PastInv
<1> QED
  BY <1>3, <1>4 DEF Step, Quiet, Called, Scheduled, Idle, Arrived, Closed,
                    Emitting, receiveVars

\* Scheduling an event or calling its callback leaves it pending.
LEMMA StillPending ==
  ASSUME Kernel!IInv, CallbackInv, NEW kind, NEW s,
         kind \in {"SignalArrival", "SessionFinalize"},
         Pending(kind, s),
         Quiet \/ (\E key : Called(key)) \/ (\E e : Scheduled(e))
  PROVE  Pending(kind, s)'
<1>1. CASE Quiet
  BY <1>1 DEF Quiet, Pending, Names
<1>2. ASSUME NEW key, Called(key)
      PROVE  Pending(kind, s)'
  <2>1. /\ records' = records \ {key} /\ control' = "callback"
        /\ executing' = callbacks[key.sequence] /\ control # "callback"
        /\ UNCHANGED <<callbacks, fanOut>>
    BY <1>2 DEF Called
  <2>2. CASE \E k \in records : Names(callbacks[k.sequence], kind, s)
    BY <2>1, <2>2 DEF Pending, Names
  <2>3. CASE \E e \in fanOut : Names(e.callback, kind, s)
    BY <2>1, <2>3 DEF Pending, Names
  <2> QED
    BY <2>1, <2>2, <2>3 DEF Pending
<1>3. ASSUME NEW e, Scheduled(e)
      PROVE  Pending(kind, s)'
  <2>1. PICK key : key.sequence = nextSequence /\ records' = records \cup {key}
    BY <1>3, ScheduledCallbacks
  <2>2. /\ callbacks'[nextSequence] = e.callback
        /\ \A q \in DOMAIN callbacks : callbacks'[q] = callbacks[q]
    BY <1>3, ScheduledCallbacks
  <2>3. UNCHANGED <<control, executing>>
        /\ (fanOut' = fanOut \/ fanOut' = fanOut \ {e})
    BY <1>3 DEF Scheduled
  <2>4. \A k \in records : k.sequence \in DOMAIN callbacks
    BY DEF CallbackInv, Kernel!IInv, Kernel!NoEventLost
  <2>5. CASE \E k \in records : Names(callbacks[k.sequence], kind, s)
    BY <2>1, <2>2, <2>4, <2>5 DEF Pending, Names
  <2>6. CASE \E f \in fanOut : Names(f.callback, kind, s)
    <3>1. PICK f \in fanOut : Names(f.callback, kind, s)
      BY <2>6
    <3>2. f \in fanOut' \/ (key \in records' /\ callbacks'[key.sequence] = f.callback)
      BY <2>1, <2>2, <2>3
    <3> QED
      BY <3>1, <3>2 DEF Pending, Names
  <2>7. CASE control = "callback" /\ Names(executing, kind, s)
    BY <2>3, <2>7 DEF Pending, Names
  <2> QED
    BY <2>5, <2>6, <2>7 DEF Pending
<1> QED
  BY <1>1, <1>2, <1>3

\* A callback that returns without an error took nothing away but what it was
\* called for.
LEMMA PendingAfterReturn ==
  ASSUME Returned, fanOut = {}, NEW kind, NEW s, Pending(kind, s),
         ~Names(executing, kind, s)
  PROVE  Pending(kind, s)'
BY DEF Returned, Pending, Names

LEMMA TrackedAfterReturn ==
  ASSUME CycleInv, Kernel!IInv, Kernel!TidyInv, IInv, HistoryInv, Returned,
         Idle \/ Arrived \/ (\E noise, decoded : Received(noise, decoded)),
         ~executionError'
  PROVE  TrackedInv'
<1>1. /\ ~executionError /\ control = "callback"
      /\ executing.kind # "FanOut" => fanOut = {}
  BY CallbackFacts DEF Returned, IInv
<1>2. fanOut = {}
  BY <1>1 DEF Idle, Arrived, Received, Executing
<1>3. UNCHANGED <<sent, committed>>
  BY DEF Idle, Arrived, Received, radioVars
<1>4. Range(ledger) \subseteq Range(ledger')
      /\ (executing.kind = "SignalArrival" => executing.signal \in Range(ledger'))
  <2>1. CASE Arrived
    <3> DEFINE s == executing.signal
    <3>1. /\ MayInsert(ledger, s) /\ ledger' = Inserted(ledger, s)
          /\ executing.kind = "SignalArrival"
      BY <2>1 DEF Arrived, Executing
    <3>2. s \in Emitted
      BY <1>1, <3>1, ExecutingSignal DEF IInv
    <3>3. /\ IsSignalSet(Emitted) /\ ledger \in Seq(Emitted)
          /\ IsSortedBy(ledger, CanonicalLess)
      BY EmittedAreSignals DEF IInv, LedgerInv, IsSortedBy
    <3> HIDE DEF s
    <3>4. Range(ledger') = Range(ledger) \cup {s}
      BY <3>1, <3>2, <3>3, InsertedInOrder
    <3> QED
      BY <3>4 DEF s
  <2>2. CASE Idle \/ \E noise, decoded : Received(noise, decoded)
    BY <2>2 DEF Idle, Received, Executing, receiveVars
  <2> QED
    BY <2>1, <2>2
<1>5. /\ \A s : IsReceived(s) => IsReceived(s)'
      /\ executing.kind = "SessionFinalize" =>
           \E r \in Receptions' : r.signal = executing.signal
  <2>1. ASSUME NEW noise, NEW decoded, Received(noise, decoded)
        PROVE  /\ \A s : IsReceived(s) => IsReceived(s)'
               /\ \E r \in Receptions' : r.signal = executing.signal
    <3> DEFINE new == Session(executing.signal, noise, decoded)
    <3>1. Receptions' = Receptions \cup {new} /\ new.signal = executing.signal
      BY <2>1, ReceivedResults DEF IInv
    <3> HIDE DEF new
    <3> QED
      BY <3>1 DEF IsReceived
  <2>2. CASE Idle \/ Arrived
    <3>1. Receptions' = Receptions
      BY <2>2 DEF Idle, Arrived, receiveVars, Receptions
    <3> QED
      BY <2>2, <3>1 DEF Idle, Arrived, Executing, IsReceived
  <2> QED
    BY <2>1, <2>2
<1> SUFFICES ASSUME NEW t \in sent, t.cycle \notin committed,
                    NEW s \in t.signals
             PROVE  /\ s \in Range(ledger') \/ Pending("SignalArrival", s)'
                    /\ IsReceived(s)' \/ Pending("SessionFinalize", s)'
  BY <1>3 DEF TrackedInv
<1>6. /\ s \in Range(ledger) \/ Pending("SignalArrival", s)
      /\ IsReceived(s) \/ Pending("SessionFinalize", s)
  BY <1>1 DEF HistoryInv, TrackedInv
<1>7. s \in Range(ledger') \/ Pending("SignalArrival", s)'
  <2>1. CASE Names(executing, "SignalArrival", s)
    BY <1>4, <2>1 DEF Names
  <2>2. CASE ~Names(executing, "SignalArrival", s)
    BY <1>2, <1>4, <1>6, <2>2, PendingAfterReturn
  <2> QED
    BY <2>1, <2>2
<1>8. IsReceived(s)' \/ Pending("SessionFinalize", s)'
  <2>1. CASE Names(executing, "SessionFinalize", s)
    BY <1>5, <2>1 DEF Names, IsReceived
  <2>2. CASE ~Names(executing, "SessionFinalize", s)
    BY <1>2, <1>5, <1>6, <2>2, PendingAfterReturn
  <2> QED
    BY <2>1, <2>2
<1> QED
  BY <1>7, <1>8

LEMMA TrackedStep ==
  ASSUME CycleInv, Kernel!IInv, Kernel!TidyInv, IInv, HistoryInv, Step,
         executionError => executionError'
  PROVE  TrackedInv'
<1> SUFFICES ASSUME ~executionError' PROVE TrackedInv'
  BY DEF TrackedInv
<1>1. ~executionError
  OBVIOUS
<1>2. CASE Quiet \/ (\E key : Called(key)) \/ (\E e : Scheduled(e))
  <2>1. UNCHANGED <<sent, ledger, results, committed>>
    BY <1>2 DEF Quiet, Called, Scheduled, radioVars, receiveVars
  <2>2. \A s : IsReceived(s)' <=> IsReceived(s)
    BY <2>1 DEF IsReceived, Receptions
  <2>3. \A s : \A kind \in {"SignalArrival", "SessionFinalize"} :
          Pending(kind, s) => Pending(kind, s)'
    BY <1>2, StillPending DEF IInv
  <2> QED
    BY <1>1, <2>1, <2>2, <2>3 DEF HistoryInv, TrackedInv
<1>3. CASE Closed
  BY <1>3, AllReceivedAtClose DEF Closed, radioVars, TrackedInv
<1>4. ASSUME NEW t, Emitting(t)
      PROVE  TrackedInv'
  <2>1. /\ control = "callback" /\ executing.kind = "TxStart"
        /\ sent' = sent \cup {t} /\ fanOut' = FanOut(t.signals)
        /\ UNCHANGED <<control, records, callbacks, ledger, results, committed>>
    BY <1>4 DEF Emitting, Executing, receiveVars
  <2>2. fanOut = {}
    BY <2>1, CallbackFacts DEF IInv
  <2>3. \A s : IsReceived(s)' <=> IsReceived(s)
    BY <2>1 DEF IsReceived, Receptions
  <2>4. ASSUME NEW s, NEW kind \in {"SignalArrival", "SessionFinalize"},
               Pending(kind, s)
        PROVE  Pending(kind, s)'
    BY <2>1, <2>2, <2>4 DEF Pending, Names
  <2>5. ASSUME NEW s \in t.signals
        PROVE  Pending("SignalArrival", s)' /\ Pending("SessionFinalize", s)'
    <3>1. Arrival(s) \in fanOut' /\ Finalize(s) \in fanOut'
      BY <2>1 DEF FanOut
    <3>2. /\ Names(Arrival(s).callback, "SignalArrival", s)
          /\ Names(Finalize(s).callback, "SessionFinalize", s)
      BY DEF Arrival, Finalize, Names
    <3>3. /\ \E e \in fanOut' : Names(e.callback, "SignalArrival", s)
          /\ \E e \in fanOut' : Names(e.callback, "SessionFinalize", s)
      BY <3>1, <3>2
    <3> QED
      BY <3>3 DEF Pending, Names
  <2> QED
    BY <1>1, <2>1, <2>3, <2>4, <2>5 DEF HistoryInv, TrackedInv
<1> QED
  BY <1>2, <1>3, <1>4, TrackedAfterReturn
     DEF Step, Idle, Arrived, Received

LEMMA ClosedStep ==
  ASSUME CycleInv, Kernel!IInv, Kernel!TidyInv, IInv, HistoryInv, Step
  PROVE  ClosedCycle'
<1>1. \A s : IsReceived(s) => IsReceived(s)'
  <2>1. CASE results' = results
    BY <2>1 DEF IsReceived, Receptions
  <2>2. ASSUME NEW noise, NEW decoded, Received(noise, decoded)
        PROVE  Receptions \subseteq Receptions'
    BY <2>2, ReceivedResults DEF IInv
  <2> QED
    BY <2>1, <2>2 DEF IsReceived, Step, Quiet, Called, Scheduled, Idle,
                      Arrived, Closed, Emitting, receiveVars
<1>2. CASE UNCHANGED <<sent, committed>>
  BY <1>1, <1>2 DEF HistoryInv, ClosedCycle, IsReceived
<1>3. CASE Closed
  <2>1. \A s \in Emitted : IsReceived(s)'
    BY <1>1, <1>3, AllReceivedAtClose
  <2> QED
    BY <1>3, <2>1 DEF Closed, radioVars, Emitted, ClosedCycle, IsReceived
<1>4. ASSUME NEW t, Emitting(t)
      PROVE  ClosedCycle'
  <2>1. sent' = sent \cup {t} /\ committed' = committed
    BY <1>4 DEF Emitting
  <2>2. t.cycle \in committed => t.signals = {}
    BY <1>4, EmittedIsLate
  <2> QED
    BY <1>1, <2>1, <2>2 DEF HistoryInv, ClosedCycle, IsReceived
<1> QED
  BY <1>2, <1>3, <1>4
     DEF Step, Quiet, Called, Scheduled, Idle, Arrived, Received, radioVars

LEMMA InitHistory == Init => Kernel!TidyInv /\ HistoryInv
BY DEF Init, D!Init, Kernel!TidyInv, HistoryInv, TimeInv, CyclesInv, OpenInv,
       PastInv, TrackedInv, ClosedCycle, Receptions, Range

\* The five invariants of a system whose program heeds errors.
Invs ==
  /\ CycleInv /\ Kernel!IInv /\ IInv
  /\ Kernel!TidyInv
  /\ HistoryInv

LEMMA HistoryStep == Invs /\ [Next]_vars /\ Heeding => Invs'
<1> SUFFICES ASSUME Invs, [Next]_vars, Heeding PROVE Invs'
  OBVIOUS
<1>1. CycleInv' /\ Kernel!IInv' /\ IInv'
  BY InductiveStep DEF Invs
<1>2. Kernel!TidyInv' /\ (executionError => executionError')
  BY TidyStep DEF Invs
<1>3. Step
  BY StepKinds DEF Invs
<1>4. HistoryInv'
  BY <1>1, <1>2, <1>3, TimeStep, CyclesStep, PastStep, TrackedStep, ClosedStep
     DEF Invs, HistoryInv, IInv
<1> QED
  BY <1>1, <1>2, <1>4 DEF Invs

LEMMA InductiveHistory == Spec /\ HeedsErrors => []Invs
<1>1. Init => Invs
  <2>1. Init => CycleInv /\ Kernel!IInv /\ IInv
    BY InitCycle, InitReception, SameKernelInit, Kernel!InitInv, KernelBounds
       DEF Init
  <2> QED
    BY <2>1, InitHistory DEF Invs
<1>2. Invs /\ [Next]_vars /\ [BeginRun => ~executionError]_vars => Invs'
  <2>1. ASSUME UNCHANGED vars PROVE Heeding
    BY <2>1 DEF Heeding, BeginRun, D!BeginRun, vars, kernelVars
  <2> QED
    BY <2>1, HistoryStep DEF Heeding
<1> QED
  BY <1>1, <1>2, PTL DEF Spec, HeedsErrors

(***************************************************************************)
(* Every step is one of ReceptionHistory.                                  *)
(***************************************************************************)
SameHistory == Emitted' = Emitted /\ Heard' = Heard /\ Settled' = Settled

LEMMA OtherStepKeepsHistory ==
  ASSUME \/ Quiet
         \/ \E key : Called(key)
         \/ \E e : Scheduled(e)
         \/ Idle
         \/ Arrived
  PROVE  SameHistory
<1>1. UNCHANGED <<sent, committed, results>>
  BY DEF Quiet, Called, Scheduled, Idle, Arrived, radioVars, receiveVars
<1> QED
  BY <1>1 DEF SameHistory, Emitted, Heard, Receptions, Settled

LEMMA ReceivedIsReceive ==
  ASSUME Invs, NEW noise, NEW decoded, Received(noise, decoded)
  PROVE  History!Receive
<1> DEFINE s == executing.signal
           new == Session(s, noise, decoded)
<1>1. /\ control = "callback" /\ executing.kind = "SessionFinalize"
      /\ now = s.until
  BY DEF Received, MayReceive, Executing
<1>2. PICK t \in sent : s \in t.signals /\ t.cycle = executing.cycle
  BY <1>1, ExecutingSignal DEF Invs, IInv
<1>3. s \in Emitted \ Settled
  <2>1. executing.cycle \notin committed
    BY <1>1, NothingAfterCommit DEF Invs, IInv
  <2>2. ASSUME NEW u \in sent, s \in u.signals PROVE u = t
    <3>1. u.transmission = t.transmission
      BY <1>2, <2>2, SignalBounds DEF Invs, IInv
    <3> QED
      BY <3>1 DEF Invs, IInv, AllocationInv
  <2> QED
    BY <1>2, <2>1, <2>2 DEF Emitted, Settled
<1>4. \A r \in Heard : r.signal # s
  BY <1>1 DEF Invs, IInv, EndingInv, Over, Executing, Heard
<1>5. Heard' = Heard \cup {[signal |-> s, met |-> History!Met(s)]}
  <2>1. Receptions' = Receptions \cup {new}
    BY ReceivedResults DEF Invs, IInv
  <2>2. new.signal = s /\ new.window = WindowOf(s)
    BY DEF Session
  <2>3. new.window = History!Met(s)
    BY <2>2, WindowIsMet DEF Invs
  <2> HIDE DEF new, s
  <2>4. Heard' = Heard \cup {[signal |-> new.signal, met |-> new.window]}
    BY <2>1 DEF Heard
  <2> QED
    BY <2>2, <2>3, <2>4
<1>6. Emitted' = Emitted /\ Settled' = Settled
  BY DEF Received, radioVars, Emitted, Settled
<1> QED
  BY <1>3, <1>4, <1>5, <1>6 DEF History!Receive

LEMMA ClosedIsSettle ==
  ASSUME Invs, Closed
  PROVE  History!Settle
<1>1. /\ \A t \in sent : t.cycle \in committed'
      /\ \A s \in Emitted : IsReceived(s)
  BY AllReceivedAtClose DEF Invs
<1>2. UNCHANGED <<sent, results>>
  BY DEF Closed, radioVars
<1>3. Emitted' = Emitted /\ Heard' = Heard
  BY <1>2 DEF Emitted, Heard, Receptions
<1>4. Settled' = Emitted
  BY <1>1, <1>2 DEF Settled, Emitted
<1>5. ASSUME NEW s \in Emitted
      PROVE  \E r \in Heard : r.signal = s
  <2>1. PICK q \in Receptions : q.signal = s
    BY <1>1 DEF IsReceived
  <2>2. [signal |-> q.signal, met |-> q.window] \in Heard
    BY DEF Heard
  <2> QED
    BY <2>1, <2>2
<1> QED
  BY <1>3, <1>4, <1>5 DEF History!Settle

LEMMA EmittingIsEmit ==
  ASSUME Invs, Invs', NEW t, Emitting(t)
  PROVE  History!Emit
<1>1. /\ sent' = sent \cup {t} /\ UNCHANGED <<committed, results>>
      /\ \A s \in t.signals : {s.from, s.until} \subseteq Int
                              /\ s.from < s.until /\ now <= s.from
      /\ t.cycle \in committed => t.signals = {}
  BY EmittedIsLate DEF Emitting, receiveVars, Invs
<1>2. Emitted' = Emitted \cup t.signals
  BY <1>1 DEF Emitted
<1>3. Heard' = Heard
  BY <1>1 DEF Heard, Receptions
<1>4. Settled' = Settled
  BY <1>1 DEF Settled
<1>5. ASSUME NEW s \in Emitted' \ Emitted, NEW r \in Heard
      PROVE  ~History!Meet(r.signal, s)
  <2>1. s.from \in Int /\ now <= s.from
    BY <1>1, <1>2, <1>5
  <2>2. PICK q \in Receptions : r.signal = q.signal
    BY DEF Heard
  <2>3. PICK u \in sent : q.signal \in u.signals
    BY DEF Invs, IInv, ResultInv, IsSession, Emitted
  <2>4. r.signal.until \in Int /\ r.signal.until <= now
    BY <2>2, <2>3, SignalBounds DEF Invs, IInv, HistoryInv, PastInv
  <2> QED
    BY <2>1, <2>4, ClockIsInt DEF Invs, History!Meet
<1>6. ASSUME NEW s \in Emitted', NEW u \in Emitted' \ {s}
      PROVE  u.transmission # s.transmission \/ u.receiver # s.receiver
  <2>1. PICK v \in sent' : s \in v.signals
    BY DEF Emitted
  <2>2. PICK w \in sent' : u \in w.signals
    BY DEF Emitted
  <2>3. IsTransmission(v) /\ IsTransmission(w)
        /\ (v.transmission = w.transmission => v = w)
    BY <2>1, <2>2 DEF Invs, IInv, AllocationInv, IsTransmission, IsSignalOf
  <2>4. s.transmission = v.transmission /\ u.transmission = w.transmission
    BY <2>1, <2>2, <2>3 DEF IsTransmission, IsSignalOf
  <2> QED
    BY <2>1, <2>2, <2>3, <2>4 DEF IsTransmission
<1> QED
  BY <1>2, <1>3, <1>4, <1>5, <1>6 DEF History!Emit

\* The cycles of a program that heeds the error of a Run keep the promises of
\* ReceptionHistory, whatever fails, whatever the providers answer, and however
\* many cycles there are.
THEOREM ImplementsReceptionsTheorem == Spec /\ HeedsErrors => ImplementsReceptions
<1>1. Init => History!Init
  BY DEF Init, History!Init, Emitted, Heard, Receptions, Settled, Range
<1>2. Invs /\ Invs' /\ [Next]_vars => [History!Next]_(History!vars)
  <2> SUFFICES ASSUME Invs, Invs', [Next]_vars
               PROVE  [History!Next]_(History!vars)
    OBVIOUS
  <2>1. Step
    BY StepKinds DEF Invs
  <2>2. SameHistory => UNCHANGED History!vars
    BY DEF SameHistory, History!vars
  <2> QED
    BY <2>1, <2>2, OtherStepKeepsHistory, ReceivedIsReceive, ClosedIsSettle,
       EmittingIsEmit DEF Step, History!Next
<1> QED
  BY <1>1, <1>2, InductiveHistory, PTL
     DEF Spec, ImplementsReceptions, History!Spec

\* The window of a session holds every signal that ever meets the received one,
\* those that were emitted after the reception included.
THEOREM WindowCompleteTheorem == Spec /\ HeedsErrors => []WindowComplete
<1>1. History!Complete => WindowComplete
  <2> SUFFICES ASSUME History!Complete, NEW r \in Receptions
               PROVE  r.window = History!Met(r.signal)
    BY DEF WindowComplete
  <2>1. [signal |-> r.signal, met |-> r.window] \in Heard
    BY DEF Heard
  <2> QED
    BY <2>1 DEF History!Complete
<1> QED
  BY <1>1, ImplementsReceptionsTheorem, CompleteTheorem, PTL
     DEF ImplementsReceptions

\* When a cycle is committed every signal that was emitted in it was received.
THEOREM ClosedCycleTheorem == Spec /\ HeedsErrors => []ClosedCycle
<1>1. Invs => ClosedCycle
  BY DEF Invs, HistoryInv
<1> QED
  BY <1>1, InductiveHistory, PTL

\* A program that calls Run once has no error to heed.
LEMMA OneRunHeeds ==
  ASSUME MaxRuns <= 1
  PROVE  Spec => HeedsErrors
<1>1. Init => CycleInv /\ Kernel!IInv /\ IInv /\ Kernel!FirstRun
  <2>1. Init => CycleInv /\ Kernel!IInv /\ IInv
    BY InitCycle, InitReception, SameKernelInit, Kernel!InitInv, KernelBounds
       DEF Init
  <2> QED
    BY <2>1, SameKernelInit, Kernel!InitFirstRun, KernelBounds DEF Init
<1>2. CycleInv /\ Kernel!IInv /\ IInv /\ Kernel!FirstRun /\ [Next]_vars
        => (CycleInv /\ Kernel!IInv /\ IInv /\ Kernel!FirstRun)'
  BY InductiveStep, NextStep, SameKernelStep, Kernel!NextFirstRun,
     KernelBounds
<1>3. Kernel!IInv /\ Kernel!FirstRun => (BeginRun => ~executionError)
  <2>1. BeginRun => Kernel!BeginRun
    BY DEF BeginRun, D!BeginRun, Kernel!BeginRun, D!schedulerVars,
           Kernel!schedulerVars
  <2> QED
    BY <2>1, Kernel!BeginsOnce, KernelBounds
<1>4. CycleInv /\ Kernel!IInv /\ IInv /\ Kernel!FirstRun /\ [Next]_vars
        => [BeginRun => ~executionError]_vars
  BY <1>3
<1> QED
  BY <1>1, <1>2, <1>4, PTL DEF Spec, HeedsErrors

\* A program that calls Run once, as the tests do, gets complete windows.
COROLLARY WindowCompleteInOneRun ==
  ASSUME MaxRuns <= 1
  PROVE  Spec => []WindowComplete
BY OneRunHeeds, WindowCompleteTheorem, PTL

\* A program that calls Run once commits no cycle with a reception missing.
COROLLARY ClosedCycleInOneRun ==
  ASSUME MaxRuns <= 1
  PROVE  Spec => []ClosedCycle
BY OneRunHeeds, ClosedCycleTheorem, PTL

(***************************************************************************)
(* The world a cycle works on.                                             *)
(***************************************************************************)

\* The program has a velocity change of this node for this cycle and time.
Steers(c, n, t) ==
  \E e \in HostEvents :
    /\ e.callback.kind = "ChangeVelocity" /\ e.callback.cycle = c
    /\ e.callback.node = n /\ e.callback.effectiveAt = t

\* A working state knows every node from the start of its cycle on, and has
\* overlays for velocity changes of the program only.
IsWorkingOf(w, c) ==
  /\ w = [base |-> w.base, cycleId |-> c, startedAt |-> StartTime[c],
          overlays |-> w.overlays]
  /\ w.base.nodes \in [DOMAIN InitialNodes -> NodeState]
  /\ w.base.committedAt \in 0 .. StartTime[c]
  /\ DOMAIN w.overlays \subseteq DOMAIN InitialNodes
  /\ \A n \in DOMAIN w.overlays :
       /\ w.overlays[n].state \in NodeState
       /\ w.overlays[n].anchor \in StartTime[c] .. MaxCount
       /\ Steers(c, n, w.overlays[n].anchor)

LEMMA ProjectedFromAnchor ==
  ASSUME NEW state \in NodeState, NEW anchor \in Counts, NEW t \in Counts
  PROVE  /\ ProjectFromAnchor(state, anchor, t) \in NodeState \cup {NoState}
         /\ 0 <= anchor /\ anchor <= t =>
              ProjectFromAnchor(state, anchor, t) \in NodeState
<1> DEFINE elapsed == CheckedSubtractCounts(t, anchor)
           moved == [state EXCEPT !.position = @ + state.velocity * elapsed]
<1>1. /\ MaxCount \in Nat /\ NoCount \notin Int
      /\ anchor \in Int /\ t \in Int /\ MinCount <= t
      /\ MinCount = -MaxCount - 1
  BY WidthAssumption DEF Counts, MinCount
<1>2. elapsed # NoCount => elapsed \in Int
  BY <1>1 DEF CheckedSubtractCounts
<1>3. 0 <= anchor /\ anchor <= t => elapsed # NoCount
  BY <1>1 DEF CheckedSubtractCounts
<1>4. elapsed # NoCount => moved \in NodeState
  <2> SUFFICES ASSUME elapsed \in Int PROVE moved \in NodeState
    BY <1>2
  <2> HIDE DEF elapsed
  <2>1. state.position \in Int /\ state.velocity \in Int
    BY DEF NodeState
  <2>2. state.position + state.velocity * elapsed \in Int
    BY <2>1
  <2> QED
    BY <2>2 DEF NodeState
<1>5. ProjectFromAnchor(state, anchor, t) =
        IF t < anchor \/ elapsed = NoCount THEN NoState ELSE moved
  BY DEF ProjectFromAnchor
<1> HIDE DEF elapsed, moved
<1> QED
  BY <1>1, <1>3, <1>4, <1>5

LEMMA TimesOfCycle ==
  ASSUME NEW c \in Cycles
  PROVE  /\ StartTime[c] \in Nat /\ StartTime[c] <= MaxCount
         /\ MaxCount \in Nat
         /\ 0 .. StartTime[c] \subseteq Counts
         /\ StartTime[c] .. MaxCount \subseteq Counts
<1>1. StartTime[c] \in Nat /\ StartTime[c] <= MaxCount /\ MaxCount \in Nat
  BY LifecycleAssumption, WidthAssumption
<1> QED
  BY <1>1 DEF Counts, MinCount

LEMMA ProjectedState ==
  ASSUME NEW c \in Cycles, NEW w, IsWorkingOf(w, c),
         NEW n \in DOMAIN InitialNodes, NEW t \in Counts
  PROVE  /\ ProjectState(w, n, t) \in NodeState \cup {NoState}
         /\ n \notin DOMAIN w.overlays /\ StartTime[c] <= t =>
              ProjectState(w, n, t) \in NodeState
         /\ n \in DOMAIN w.overlays /\ w.overlays[n].anchor <= t =>
              ProjectState(w, n, t) \in NodeState
<1>1. DOMAIN w.base.nodes = DOMAIN InitialNodes /\ w.base.nodes[n] \in NodeState
  BY DEF IsWorkingOf
<1>2. t \in Int
  BY WidthAssumption DEF Counts, MinCount
<1>3. CASE n \in DOMAIN w.overlays
  <2>1. /\ w.overlays[n].state \in NodeState
        /\ w.overlays[n].anchor \in Counts
        /\ 0 <= w.overlays[n].anchor
    BY <1>3, TimesOfCycle DEF IsWorkingOf
  <2>2. ProjectState(w, n, t) =
          ProjectFromAnchor(w.overlays[n].state, w.overlays[n].anchor, t)
    BY <1>1, <1>3 DEF ProjectState
  <2> QED
    BY <1>3, <2>1, <2>2, ProjectedFromAnchor
<1>4. CASE n \notin DOMAIN w.overlays
  <2>1. /\ w.base.committedAt \in Counts
        /\ 0 <= w.base.committedAt /\ w.base.committedAt <= StartTime[c]
        /\ StartTime[c] \in Int /\ w.base.committedAt \in Int
    BY TimesOfCycle DEF IsWorkingOf
  <2>2. ProjectState(w, n, t) =
          ProjectFromAnchor(w.base.nodes[n], w.base.committedAt, t)
    BY <1>1, <1>4 DEF ProjectState
  <2> QED
    BY <1>1, <1>2, <1>4, <2>1, <2>2, ProjectedFromAnchor
<1> QED
  BY <1>3, <1>4

\* A velocity change that is accepted leaves a working state of its cycle.
LEMMA UpdatedWorking ==
  ASSUME NEW c \in Cycles, NEW w, IsWorkingOf(w, c),
         NEW n, NEW velocity \in Int, NEW t \in Counts, Steers(c, n, t),
         ProjectNodeState(w, n, t) # NoState
  PROVE  IsWorkingOf(UpdateVelocity(w, n, velocity, t), c)
<1> DEFINE moved == [ProjectNodeState(w, n, t) EXCEPT !.velocity = velocity]
           u == UpdateVelocity(w, n, velocity, t)
<1>1. /\ ProjectNodeState(w, n, t) = ProjectState(w, n, t)
      /\ ~(t < w.startedAt) /\ w.startedAt = StartTime[c]
  BY DEF ProjectNodeState, IsWorkingOf
<1>2. n \in DOMAIN InitialNodes
  BY <1>1 DEF ProjectState, IsWorkingOf
<1>3. ProjectNodeState(w, n, t) \in NodeState
  BY <1>1, <1>2, ProjectedState
<1>4. moved \in NodeState
  BY <1>3 DEF NodeState
<1>5. t \in StartTime[c] .. MaxCount
  BY <1>1, TimesOfCycle, WidthAssumption DEF Counts, MinCount
<1>6. /\ u = [base |-> w.base, cycleId |-> c, startedAt |-> StartTime[c],
              overlays |-> u.overlays]
      /\ u.overlays = [m \in DOMAIN w.overlays \cup {n} |->
                         IF m = n THEN [state |-> moved, anchor |-> t]
                                  ELSE w.overlays[m]]
  BY DEF UpdateVelocity, IsWorkingOf
<1>7. u.base = w.base
  BY <1>6
<1> HIDE DEF u, moved
<1>8. IsWorkingOf(u, c)
  BY <1>2, <1>4, <1>5, <1>6, <1>7 DEF IsWorkingOf
<1> QED
  BY <1>8 DEF u

\* The store: one version per commit, and nothing is committed before the
\* close of the cycle that was committed last.  The open cycle works on the
\* current snapshot and expects its version.
StoreInv ==
  /\ currentSnapshot.nodes \in [DOMAIN InitialNodes -> NodeState]
  /\ currentSnapshot.committedAt \in D!Times
  /\ IsFiniteSet(committed) /\ currentSnapshot.version = Cardinality(committed)
  /\ \A c \in committed : CloseTime[c] <= currentSnapshot.committedAt
  /\ lastCommittedCycle \in committed \cup {NoCycle}
  /\ \A c \in DOMAIN cycles \ committed :
       /\ cycles[c].working.base = currentSnapshot
       /\ cycles[c].expectedVersion = currentSnapshot.version

WorkingInv ==
  \A c \in DOMAIN cycles :
    /\ cycles[c] = [working |-> cycles[c].working,
                    expectedVersion |-> cycles[c].expectedVersion]
    /\ IsWorkingOf(cycles[c].working, c)

\* Nothing is sent before the cycle starts.
StartInv ==
  \A t \in sent : /\ t.request.startedAt \in Nat
                  /\ StartTime[t.cycle] <= t.request.startedAt

WorldInv == OpenInv /\ StoreInv /\ WorkingInv /\ StartInv

LEMMA OpenCycleWorld ==
  ASSUME CycleInv, PhaseInv, WorldInv, NEW c \in Cycles, OpenCycle(c)
  PROVE  StoreInv' /\ WorkingInv' /\ StartInv'
<1>1. /\ c \notin DOMAIN cycles /\ DOMAIN cycles = committed
      /\ StartTime[c] >= currentSnapshot.committedAt
      /\ DOMAIN cycles' = DOMAIN cycles \cup {c}
      /\ cycles'[c] = NewCycle(c)
      /\ \A d \in DOMAIN cycles : cycles'[d] = cycles[d]
      /\ UNCHANGED <<currentSnapshot, lastCommittedCycle, committed, sent>>
  BY DEF OpenCycle, Extended, storeVars, radioVars
<1>2. IsWorkingOf(NewCycle(c).working, c)
  <2>1. currentSnapshot.committedAt \in 0 .. StartTime[c]
    BY <1>1, TimesOfCycle, LifecycleAssumption
       DEF WorldInv, StoreInv, D!Times
  <2> QED
    BY <2>1 DEF NewCycle, IsWorkingOf, WorldInv, StoreInv
<1>3. WorkingInv'
  <2>1. cycles'[c] = [working |-> cycles'[c].working,
                      expectedVersion |-> cycles'[c].expectedVersion]
    BY <1>1 DEF NewCycle
  <2> QED
    BY <1>1, <1>2, <2>1 DEF WorldInv, WorkingInv
<1>4. StoreInv'
  <2>1. /\ cycles'[c].working.base = currentSnapshot
        /\ cycles'[c].expectedVersion = currentSnapshot.version
    BY <1>1 DEF NewCycle
  <2> QED
    BY <1>1, <2>1 DEF WorldInv, StoreInv, D!Times
<1> QED
  BY <1>1, <1>3, <1>4 DEF WorldInv, StartInv

LEMMA ChangeVelocityWorld ==
  ASSUME CycleInv, CallbackInv, WorldInv, ChangeVelocity
  PROVE  StoreInv' /\ WorkingInv' /\ StartInv'
<1> DEFINE c == executing.cycle
           ok == ProjectNodeState(Working, executing.node,
                                  executing.effectiveAt) # NoState
           w == UpdateVelocity(Working, executing.node, executing.velocity,
                               executing.effectiveAt)
<1>1. /\ control = "callback" /\ executing.kind = "ChangeVelocity"
      /\ cycles' = IF ok THEN [cycles EXCEPT ![c].working = w] ELSE cycles
      /\ UNCHANGED <<currentSnapshot, lastCommittedCycle, committed, sent>>
  BY DEF ChangeVelocity, Executing, Working, storeVars, radioVars
<1>2. /\ c \in DOMAIN cycles /\ c \in Cycles
      /\ executing.velocity \in Int /\ executing.effectiveAt \in Counts
      /\ Steers(c, executing.node, executing.effectiveAt)
  BY <1>1, MotionAssumption DEF CallbackInv, IsCallback, CycleInv, Steers
<1>3. IsWorkingOf(Working, c)
  BY <1>2 DEF WorldInv, WorkingInv, Working
<1>4. CASE ok
  <2>1. IsWorkingOf(w, c)
    BY <1>2, <1>3, <1>4, UpdatedWorking
  <2>2. w.base = Working.base
    BY <1>3 DEF UpdateVelocity, IsWorkingOf
  <2>3. cycles[c] = [working |-> Working,
                     expectedVersion |-> cycles[c].expectedVersion]
    BY <1>2 DEF WorldInv, WorkingInv, Working
  <2> HIDE DEF w
  <2>4. /\ DOMAIN cycles' = DOMAIN cycles
        /\ \A d \in DOMAIN cycles \ {c} : cycles'[d] = cycles[d]
        /\ cycles'[c] = [cycles[c] EXCEPT !.working = w]
    BY <1>1, <1>2, <1>4
  <2>5. cycles'[c] = [working |-> w,
                      expectedVersion |-> cycles[c].expectedVersion]
    BY <2>3, <2>4
  <2> HIDE DEF c
  <2>6. WorkingInv'
    BY <2>1, <2>4, <2>5 DEF WorldInv, WorkingInv
  <2>7. \A d \in DOMAIN cycles :
          /\ cycles'[d].working.base = cycles[d].working.base
          /\ cycles'[d].expectedVersion = cycles[d].expectedVersion
    BY <2>2, <2>4, <2>5 DEF Working, c
  <2>8. StoreInv'
    BY <1>1, <2>4, <2>7 DEF WorldInv, StoreInv, D!Times
  <2> QED
    BY <1>1, <2>6, <2>8 DEF WorldInv, StartInv
<1>5. CASE ~ok
  BY <1>1, <1>5 DEF WorldInv, StoreInv, WorkingInv, StartInv, D!Times
<1> QED
  BY <1>4, <1>5

LEMMA CloseWorld ==
  ASSUME CycleInv, CallbackInv, PhaseInv, WorldInv, HandleCycleClose
  PROVE  StoreInv' /\ WorkingInv' /\ StartInv'
<1> DEFINE c == executing.cycle
<1>1. /\ control = "callback" /\ cycles' = cycles /\ sent' = sent
      /\ c \in DOMAIN cycles /\ c \in Cycles /\ now \in D!Times
  BY DEF HandleCycleClose, Executing, radioVars, CallbackInv, IsCallback,
         CycleInv
<1>2. WorkingInv' /\ StartInv'
  BY <1>1 DEF WorldInv, WorkingInv, StartInv
<1>3. CASE UNCHANGED storeVars
  BY <1>1, <1>2, <1>3 DEF storeVars, WorldInv, StoreInv, D!Times
<1>4. CASE /\ MayClose(c) /\ CommitSnapshot(Delta)
           /\ committed' = committed \cup {c}
  <2>1. /\ c \notin committed /\ now = CloseTime[c]
        /\ MayFinalize(Working, now)
        /\ now >= currentSnapshot.committedAt
    BY <1>4 DEF MayClose, MayCommit, Delta, FinalizeDeltaSet
  <2>2. IsWorkingOf(Working, c)
    BY <1>1 DEF WorldInv, WorkingInv, Working
  <2>3. /\ currentSnapshot'.version = currentSnapshot.version + 1
        /\ currentSnapshot'.committedAt = now
        /\ currentSnapshot'.nodes = [n \in DOMAIN Working.base.nodes |->
                                       ProjectState(Working, n, now)]
        /\ lastCommittedCycle' = c
    BY <1>4, <2>2 DEF CommitSnapshot, Delta, FinalizeDeltaSet, IsWorkingOf
  <2>4. now \in Counts
    BY <1>1, LifecycleAssumption, WidthAssumption
       DEF D!Times, Counts, MinCount
  <2>5. currentSnapshot'.nodes \in [DOMAIN InitialNodes -> NodeState]
    <3>1. DOMAIN Working.base.nodes = DOMAIN InitialNodes
      BY <2>2 DEF IsWorkingOf
    <3>2. ASSUME NEW n \in DOMAIN InitialNodes
          PROVE  ProjectState(Working, n, now) \in NodeState
      BY <1>1, <2>1, <2>2, <2>4, <3>1, ProjectedState DEF MayFinalize
    <3> QED
      BY <2>3, <3>1, <3>2
  <2>6. /\ IsFiniteSet(committed')
        /\ currentSnapshot'.version = Cardinality(committed')
    <3>1. IsFiniteSet(committed)
          /\ currentSnapshot.version = Cardinality(committed)
      BY DEF WorldInv, StoreInv
    <3> QED
      BY <1>4, <2>1, <2>3, <3>1, FS_AddElement
  <2>7. \A d \in committed' : CloseTime[d] <= currentSnapshot'.committedAt
    <3>1. ASSUME NEW d \in committed PROVE CloseTime[d] <= now
      <4>1. d \in Cycles
        BY DEF PhaseInv, CycleInv
      <4>2. CloseTime[d] \in Int /\ CloseTime[d] <= currentSnapshot.committedAt
            /\ currentSnapshot.committedAt \in Int /\ now \in Int
        BY <1>1, <4>1, CloseTimeIsTime, LifecycleAssumption
           DEF WorldInv, StoreInv, D!Times
      <4> QED
        BY <2>1, <4>2
    <3>2. CloseTime[c] <= now
      BY <1>1, <2>1, CloseTimeIsTime
    <3> QED
      BY <1>4, <2>3, <3>1, <3>2
  <2>8. DOMAIN cycles' \ committed' = {}
    BY <1>1, <1>4, <2>1 DEF WorldInv, OpenInv
  <2>9. currentSnapshot'.committedAt \in D!Times'
    BY <1>1, <2>3 DEF D!Times
  <2>10. lastCommittedCycle' \in committed' \cup {NoCycle}
    BY <1>4, <2>3
  <2>11. StoreInv'
    BY <2>5, <2>6, <2>7, <2>8, <2>9, <2>10 DEF StoreInv
  <2> QED
    BY <1>2, <2>11
<1> QED
  BY <1>3, <1>4 DEF HandleCycleClose, storeVars

\* A transmission waits for the start of its cycle: its sender has no position
\* before that.
LEMMA EmittingWorld ==
  ASSUME CycleInv, CallbackInv, WorldInv, NEW t, Emitting(t)
  PROVE  StartInv'
<1>1. /\ control = "callback" /\ executing.cycle \in DOMAIN cycles
      /\ sent' = sent \cup {t} /\ t.cycle = executing.cycle
      /\ MayTransmit(t.request)
  BY DEF Emitting, Executing, CallbackInv, IsCallback
<1>2. IsWorkingOf(Working, t.cycle)
  BY <1>1 DEF WorldInv, WorkingInv, Working
<1>3. ~(t.request.startedAt < StartTime[t.cycle])
  BY <1>1, <1>2 DEF MayTransmit, ProjectNodeState, IsWorkingOf
<1>4. StartTime[t.cycle] \in Nat
  BY TimesOfCycle DEF Emitting, IsTransmission
<1>5. t.request.startedAt = now
  BY DEF Emitting
<1>6. now \in Nat
  BY LifecycleAssumption DEF CycleInv, D!Times
<1> QED
  BY <1>1, <1>3, <1>4, <1>5, <1>6 DEF WorldInv, StartInv

LEMMA WorldStep ==
  ASSUME CycleInv, Kernel!IInv, IInv, WorldInv, [Next]_vars
  PROVE  WorldInv'
<1>1. Step
  BY StepKinds
<1>2. OpenInv'
  BY <1>1, OpenStep DEF IInv, WorldInv
<1>3. CASE \E c \in Cycles : OpenCycle(c)
  BY <1>2, <1>3, OpenCycleWorld DEF IInv, WorldInv
<1>4. CASE ChangeVelocity
  BY <1>2, <1>4, ChangeVelocityWorld DEF IInv, WorldInv
<1>5. CASE HandleCycleClose
  BY <1>2, <1>5, CloseWorld DEF IInv, WorldInv
<1>6. CASE UNCHANGED <<cycles, storeVars>>
  <2>1. StoreInv' /\ WorkingInv'
    BY <1>6 DEF storeVars, WorldInv, StoreInv, WorkingInv, D!Times
  <2>2. StartInv'
    <3>1. CASE sent' = sent
      BY <3>1 DEF WorldInv, StartInv
    <3>2. ASSUME NEW t, Emitting(t) PROVE StartInv'
      BY <3>2, EmittingWorld DEF IInv
    <3> QED
      BY <1>1, <3>1, <3>2
         DEF Step, Quiet, Called, Scheduled, Idle, Arrived, Received, Closed,
             radioVars
  <2> QED
    BY <1>2, <2>1, <2>2 DEF WorldInv
<1> QED
  BY <1>3, <1>4, <1>5, <1>6
     DEF Next, Handlers, vars, runtimeVars, HostSchedules, BeginRun, RunLoop,
         Call, RefuseTransmission, Transmit, ScheduleFanOut,
         HandleSignalArrival, HandleSessionFinalize

LEMMA InitWorld == Init => WorldInv
<1> SUFFICES ASSUME Init PROVE WorldInv
  OBVIOUS
<1>1. /\ currentSnapshot = [version |-> 0, committedAt |-> 0,
                            nodes |-> InitialNodes]
      /\ committed = {} /\ sent = {} /\ DOMAIN cycles = {}
      /\ lastCommittedCycle = NoCycle
  BY DEF Init
<1>2. 0 \in D!Times
  BY LifecycleAssumption DEF D!Times
<1>3. StoreInv
  BY <1>1, <1>2, MotionAssumption, FS_EmptySet DEF StoreInv
<1> QED
  BY <1>1, <1>3 DEF WorldInv, OpenInv, WorkingInv, StartInv

LEMMA InductiveWorld == Spec => [](CycleInv /\ Kernel!IInv /\ IInv /\ WorldInv)
<1>1. Init => WorldInv
  BY InitWorld
<1>2. CycleInv /\ Kernel!IInv /\ IInv /\ WorldInv /\ [Next]_vars => WorldInv'
  BY WorldStep
<1> QED
  BY <1>1, <1>2, ReceptionInvariant, PTL DEF Spec

(***************************************************************************)
(* A close on time commits.                                                *)
(***************************************************************************)

\* The cycles are planned in the order of their ids: a cycle starts before any
\* later one closes.
PlannedInOrder ==
  \A c, d \in Cycles : /\ StartTime[c] <= CloseTime[c]
                       /\ c < d => StartTime[c] < CloseTime[d]

\* No velocity change takes effect after the close of its cycle.
SteersInTime ==
  \A e \in HostEvents :
    e.callback.kind = "ChangeVelocity" =>
      e.callback.effectiveAt <= CloseTime[e.callback.cycle]

\* The store has a version for every cycle.
EnoughVersions ==
  /\ MaxVersion \in Nat
  /\ IsFiniteSet(Cycles) /\ Cardinality(Cycles) <= MaxVersion

\* A signal of the open cycle ends by its close.
LEMMA ReadyAtClose ==
  ASSUME CycleInv, IInv, WorldInv, NEW c \in DOMAIN cycles \ committed,
         now = CloseTime[c]
  PROVE  ReadyForCycleClose(ledger, now)
<1> SUFFICES ASSUME NEW s \in Range(ledger) PROVE s.until <= now
  BY DEF ReadyForCycleClose
<1>1. PICK t \in sent : s \in t.signals /\ t.cycle \notin committed
  BY DEF IInv, LedgerInv
<1>2. t.cycle = c
  BY <1>1 DEF WorldInv, OpenInv
<1> QED
  BY <1>1, <1>2, SignalBounds DEF IInv

\* Every node has a position at the close.
LEMMA FinalizesAtClose ==
  ASSUME CycleInv, WorldInv, PlannedInOrder, SteersInTime,
         NEW c \in DOMAIN cycles, now = CloseTime[c]
  PROVE  MayFinalize(cycles[c].working, now)
<1> DEFINE w == cycles[c].working
<1>1. c \in Cycles /\ IsWorkingOf(w, c)
  BY DEF CycleInv, WorldInv, WorkingInv
<1>2. /\ now \in Counts /\ now \in Int
      /\ StartTime[c] \in Int /\ StartTime[c] <= now
      /\ MaxCount \in Int
  BY <1>1, TimesOfCycle, CloseTimeIsTime, LifecycleAssumption, WidthAssumption
     DEF PlannedInOrder, Counts, MinCount, CycleInv, D!Times
<1>3. w.startedAt = StartTime[c] /\ DOMAIN w.base.nodes = DOMAIN InitialNodes
  BY <1>1 DEF IsWorkingOf
<1>4. \A n \in DOMAIN w.overlays : w.overlays[n].anchor <= now
  BY <1>1 DEF IsWorkingOf, Steers, SteersInTime
<1> HIDE DEF w
<1>5. \A n \in DOMAIN InitialNodes : ProjectState(w, n, now) # NoState
  BY <1>1, <1>2, <1>4, ProjectedState, MotionAssumption
<1>6. MayFinalize(w, now)
  BY <1>2, <1>3, <1>5 DEF MayFinalize
<1> QED
  BY <1>6 DEF w

\* The snapshot the open cycle works on is the current one, and older than its
\* start; its id is larger than any that was committed.
LEMMA CommitsAtClose ==
  ASSUME CycleInv, PhaseInv, WorldInv, PlannedInOrder, EnoughVersions,
         NEW c \in DOMAIN cycles \ committed, now = CloseTime[c]
  PROVE  MayCommit(cycles[c].expectedVersion,
                   FinalizeDeltaSet(cycles[c].working, now))
<1> DEFINE w == cycles[c].working
           d == FinalizeDeltaSet(w, now)
<1>1. c \in Cycles /\ IsWorkingOf(w, c)
  BY DEF CycleInv, WorldInv, WorkingInv
<1>2. /\ w.base = currentSnapshot
      /\ cycles[c].expectedVersion = currentSnapshot.version
  BY DEF WorldInv, StoreInv
<1>3. /\ d.cycleId = c /\ d.baseVersion = currentSnapshot.version
      /\ d.effectiveAt = now /\ DOMAIN d.nodes = DOMAIN currentSnapshot.nodes
  BY <1>1, <1>2 DEF FinalizeDeltaSet, IsWorkingOf
<1>4. /\ currentSnapshot.committedAt \in 0 .. StartTime[c]
      /\ StartTime[c] \in Int /\ StartTime[c] <= now /\ now \in Int
  BY <1>1, <1>2, TimesOfCycle, ClockIsInt DEF IsWorkingOf, PlannedInOrder
<1>5. currentSnapshot.version # MaxVersion
  <2>1. committed \subseteq Cycles \ {c}
    BY DEF PhaseInv, CycleInv
  <2>2. /\ IsFiniteSet(Cycles \ {c})
        /\ Cardinality(Cycles \ {c}) = Cardinality(Cycles) - 1
    BY <1>1, FS_RemoveElement DEF EnoughVersions
  <2>3. Cardinality(committed) <= Cardinality(Cycles) - 1
    BY <2>1, <2>2, FS_Subset
  <2>4. /\ Cardinality(committed) \in Nat /\ Cardinality(Cycles) \in Nat
        /\ currentSnapshot.version = Cardinality(committed)
    BY FS_CardinalityType DEF WorldInv, StoreInv, EnoughVersions
  <2> QED
    BY <2>3, <2>4 DEF EnoughVersions
<1>6. ASSUME lastCommittedCycle # NoCycle
      PROVE  c > lastCommittedCycle
  <2> DEFINE b == lastCommittedCycle
  <2>1. b \in committed /\ b \in Cycles /\ b # c
    BY <1>6 DEF WorldInv, StoreInv, PhaseInv, CycleInv
  <2>2. CloseTime[b] \in Int /\ CloseTime[b] <= currentSnapshot.committedAt
    BY <2>1, CloseTimeIsTime DEF WorldInv, StoreInv
  <2>3. ~(c < b)
    BY <1>1, <1>4, <2>1, <2>2 DEF PlannedInOrder
  <2>4. b \in Nat /\ c \in Nat
    BY <1>1, <2>1, LifecycleAssumption
  <2> QED
    BY <2>1, <2>3, <2>4
<1> HIDE DEF d
<1>7. MayCommit(cycles[c].expectedVersion, d)
  BY <1>2, <1>3, <1>4, <1>5, <1>6 DEF MayCommit
<1> QED
  BY <1>7 DEF d

\* When the cycles follow each other in time as their ids do, and no decision
\* takes effect after its cycle, a close on time commits its cycle: nothing an
\* earlier cycle, a transmission, a failure or a retry left behind can refuse it.
THEOREM EveryCycleCommitsTheorem ==
  ASSUME PlannedInOrder, SteersInTime, EnoughVersions
  PROVE  Spec => EveryCycleCommits
<1>1. CycleInv /\ Kernel!IInv /\ IInv /\ WorldInv /\ [Next]_vars
        => [control = "callback" /\ control' = "bucket"
              /\ executing.kind = "CycleClose"
              /\ now = CloseTime[executing.cycle]
            => executing.cycle \in committed']_vars
  <2> SUFFICES ASSUME CycleInv, Kernel!IInv, IInv, WorldInv, Next,
                      control = "callback", control' = "bucket",
                      executing.kind = "CycleClose",
                      now = CloseTime[executing.cycle]
               PROVE  executing.cycle \in committed'
    OBVIOUS
  <2> DEFINE c == executing.cycle
  <2>1. HandleCycleClose
    BY DEF Next, OpenCycle, HostSchedules, Schedule, BeginRun, RunLoop, Call,
           Handlers, RefuseTransmission, Transmit, ScheduleFanOut,
           HandleSignalArrival, HandleSessionFinalize, ChangeVelocity,
           Executing, D!ScheduleAt, D!BeginRun, D!EnterBucket, D!CallNext,
           D!LeaveBucket, D!EndRun, kernelVars
  <2>2. c \in DOMAIN cycles
    BY DEF IInv, CallbackInv, IsCallback
  <2>3. CASE c \in committed
    BY <2>1, <2>3 DEF HandleCycleClose, storeVars
  <2>4. CASE c \notin committed
    <3>1. /\ ReadyForCycleClose(ledger, now)
          /\ MayFinalize(Working, now)
          /\ MayCommit(cycles[c].expectedVersion, Delta)
      BY <2>2, <2>4, ReadyAtClose, FinalizesAtClose, CommitsAtClose
         DEF IInv, Working, Delta
    <3>2. MayClose(c)
      BY <2>4, <3>1 DEF MayClose
    <3> QED
      BY <2>1, <3>2 DEF HandleCycleClose
  <2> QED
    BY <2>3, <2>4
<1> QED
  BY <1>1, InductiveWorld, PTL DEF Spec, EveryCycleCommits

(***************************************************************************)
(* The receiving side.                                                     *)
(***************************************************************************)

\* A signal that arrives is new to the ledger.
LEMMA ArrivesAnew ==
  ASSUME Invs, Executing("SignalArrival")
  PROVE  now = executing.signal.from /\ MayInsert(ledger, executing.signal)
<1> DEFINE s == executing.signal
<1>1. control = "callback" /\ executing.kind = "SignalArrival" /\ s \in Emitted
  BY ExecutingSignal DEF Executing, Invs, IInv
<1>2. now = s.from
  BY <1>1 DEF Invs, HistoryInv, TimeInv, HasTime
<1>3. ASSUME NEW e \in Range(ledger),
             e.receiver = s.receiver, e.transmission = s.transmission
      PROVE  FALSE
  <2>1. e \in Emitted
    BY DEF Invs, IInv, LedgerInv, Range
  <2>2. e = s
    BY <1>1, <1>3, <2>1, SignalIdentity DEF Invs, IInv
  <2>3. Over("SignalArrival", s)
    BY <1>3, <2>2 DEF Invs, IInv, ArrivalInv
  <2> QED
    BY <2>3 DEF Over
<1> QED
  BY <1>2, <1>3 DEF MayInsert

\* A signal that ends is in the ledger, and so is a window for it.
LEMMA EndsInLedger ==
  ASSUME Invs, Executing("SessionFinalize")
  PROVE  /\ now = executing.signal.until
         /\ ContainsSignal(ledger, executing.signal)
         /\ IsReceiverWindow(executing.signal, WindowOf(executing.signal))
<1> DEFINE s == executing.signal
<1>1. control = "callback" /\ executing.kind = "SessionFinalize"
  BY DEF Executing
<1>2. now = s.until
  BY <1>1 DEF Invs, HistoryInv, TimeInv, HasTime
<1>3. PICK t \in sent : s \in t.signals /\ t.cycle = executing.cycle
  BY <1>1, ExecutingSignal DEF Invs, IInv
<1>4. executing.cycle \notin committed
  BY <1>1, <1>2, NothingAfterCommit DEF Invs, IInv
<1>5. /\ s \in Emitted /\ s.receiver \in Int
      /\ {s.from, s.until} \subseteq Int /\ s.from < s.until
  BY <1>3, SignalBounds, EmittedSignal DEF Invs, IInv
<1>6. ~executionError /\ fanOut = {}
  BY <1>1, CallbackFacts DEF Invs, IInv
<1>7. s \in Range(ledger)
  <2>1. ~Pending("SignalArrival", s)
    BY <1>1, <1>2, <1>5, <1>6, NotPending DEF Invs, HistoryInv
  <2> QED
    BY <1>3, <1>4, <1>6, <2>1 DEF Invs, HistoryInv, TrackedInv
<1>8. /\ IsSortedBy(ledger, CanonicalLess) /\ ledger \in Seq(Emitted)
      /\ Range(ledger) \subseteq Emitted /\ IsSignalSet(Emitted)
  BY EmittedAreSignals DEF Invs, IInv, LedgerInv, IsSortedBy, Range
<1>9. ContainsSignal(ledger, s)
  BY <1>5, <1>7, <1>8, ContainsSignalIsMembership
<1>10. Range(SignalsForReceiver(ledger, s.receiver)) =
         {u \in Range(ledger) : u.receiver = s.receiver}
  BY <1>5, <1>8, SignalsForReceiverAreAll
<1> HIDE DEF s
<1>11. /\ WindowOf(s) \subseteq {u \in Emitted : u.receiver = s.receiver}
       /\ \A u \in WindowOf(s) : /\ u.transmission # s.transmission
                                 /\ HasP0SignalOverlap(s, u)
  BY <1>8, <1>10 DEF WindowOf
<1>12. \A u, v \in WindowOf(s) : u.transmission = v.transmission => u = v
  BY <1>11, SignalIdentity DEF Invs, IInv
<1>13. IsReceiverWindow(s, WindowOf(s))
  BY <1>11, <1>12 DEF IsReceiverWindow
<1> QED
  BY <1>2, <1>9, <1>13 DEF s

\* The program steers no receiver.
ReceiversKeepCourse ==
  \A e \in HostEvents :
    e.callback.kind = "ChangeVelocity" => e.callback.node \notin Receivers

\* Where a receiver was when the signal arrived is known when it ends.
LEMMA ReceiverHasPosition ==
  ASSUME CycleInv, IInv, WorldInv, ReceiversKeepCourse,
         NEW t \in sent, NEW s \in t.signals, t.cycle \in DOMAIN cycles
  PROVE  ProjectNodeState(cycles[t.cycle].working, s.receiver, s.from) # NoState
<1> DEFINE c == t.cycle
           w == cycles[c].working
<1>1. c \in Cycles /\ IsWorkingOf(w, c)
  BY DEF CycleInv, WorldInv, WorkingInv
<1>2. /\ IsSignalOf(s, t) /\ Range(t.request.candidates) \subseteq Receivers
  BY DEF IInv, AllocationInv, IsTransmission
<1>3. s.receiver \in Receivers /\ s.receiver \in DOMAIN InitialNodes
      /\ s.from \in D!Times /\ t.request.startedAt <= s.from
  BY <1>2, LifecycleAssumption DEF IsSignalOf
<1>4. s.from \in Counts /\ s.from \in Int
  BY <1>3, LifecycleAssumption, WidthAssumption DEF D!Times, Counts, MinCount
<1>5. StartTime[c] <= s.from /\ StartTime[c] \in Int
  BY <1>1, <1>3, <1>4, TimesOfCycle DEF WorldInv, StartInv
<1>6. s.receiver \notin DOMAIN w.overlays
  BY <1>1, <1>3 DEF IsWorkingOf, Steers, ReceiversKeepCourse
<1>7. w.startedAt = StartTime[c]
  BY <1>1 DEF IsWorkingOf
<1> HIDE DEF w
<1>8. ProjectState(w, s.receiver, s.from) \in NodeState
  BY <1>1, <1>3, <1>4, <1>5, <1>6, ProjectedState
<1>9. ProjectNodeState(w, s.receiver, s.from) # NoState
  BY <1>4, <1>5, <1>7, <1>8, MotionAssumption DEF ProjectNodeState
<1> QED
  BY <1>9 DEF w

LEMMA FinalizeFailsBelowZero ==
  ASSUME Invs, WorldInv, ReceiversKeepCourse, ~ProvidersMayFail,
         Misrouted = {}, ~receptionIds.exhausted, HandleSessionFinalize
  PROVE  executionError' <=> executing.signal.lower < 0
<1> DEFINE s == executing.signal
<1>1. /\ Executing("SessionFinalize")
      /\ control = "callback" /\ executing.kind = "SessionFinalize"
  BY DEF HandleSessionFinalize, Executing
<1>2. PICK t \in sent : s \in t.signals /\ t.cycle = executing.cycle
  BY <1>1, ExecutingSignal DEF Invs, IInv
<1>3. t.cycle \in DOMAIN cycles
  BY <1>2 DEF WorldInv, OpenInv
<1>4. /\ now = s.until /\ ContainsSignal(ledger, s)
      /\ IsReceiverWindow(s, WindowOf(s))
  BY <1>1, EndsInLedger
<1>5. ProjectNodeState(Working, s.receiver, s.from) # NoState
  BY <1>2, <1>3, ReceiverHasPosition DEF Invs, Working
<1>6. MayQueryNoise(s) <=> ~(s.lower < 0)
  <2>1. s.from < s.until /\ s.lower < s.upper /\ s.lower \in Int
    BY <1>2, SignalBounds DEF Invs, IInv
  <2> QED
    BY <2>1 DEF MayQueryNoise
<1>7. MayReceive(s) <=> ~(s.lower < 0)
  BY <1>4, <1>5, <1>6 DEF MayReceive
<1>8. /\ \A noise \in Observations(s) : IsObservationOf(s, noise)
      /\ \A decoded \in DecodeResults(s) : IsDecodeResultOf(s, decoded)
  BY DEF Observations, DecodeResults, IsObservationOf, IsDecodeResultOf,
         NoiseQuery
<1>9. \A ok : Returns(ok) => executionError' = ~ok
  BY DEF Returns, D!CallbackReturns
<1>10. \/ MayReceive(s) /\ Returns(TRUE)
       \/ ~MayReceive(s) /\ Returns(FALSE)
  BY <1>8 DEF HandleSessionFinalize
<1> QED
  BY <1>7, <1>9, <1>10

\* With providers that answer what they were asked, receivers that are not
\* steered and ReceptionIds left, a signal that was emitted is always received,
\* however many others there are and in whatever order they come; unless its own
\* band reaches below zero, and then the Run fails.
THEOREM ReceiverFailsOnlyBelowZeroTheorem ==
  ASSUME ~ProvidersMayFail, Misrouted = {}, ReceiversKeepCourse
  PROVE  Spec /\ HeedsErrors /\ []~receptionIds.exhausted
           => ReceiverFailsOnlyBelowZero
<1>1. Invs /\ WorldInv /\ ~receptionIds.exhausted /\ [Next]_vars
        => [control = "callback" /\ control' = "bucket"
              /\ executing.kind \in {"SignalArrival", "SessionFinalize"}
            => (executionError' <=> /\ executing.kind = "SessionFinalize"
                                    /\ executing.signal.lower < 0)]_vars
  <2> SUFFICES ASSUME Invs, WorldInv, ~receptionIds.exhausted, Next,
                      control = "callback", control' = "bucket",
                      executing.kind \in {"SignalArrival", "SessionFinalize"}
               PROVE  executionError' <=> /\ executing.kind = "SessionFinalize"
                                          /\ executing.signal.lower < 0
    OBVIOUS
  <2>1. HandleSignalArrival \/ HandleSessionFinalize
    BY DEF Next, OpenCycle, HostSchedules, Schedule, BeginRun, RunLoop, Call,
           Handlers, RefuseTransmission, Transmit, ScheduleFanOut,
           HandleCycleClose, ChangeVelocity, Executing, D!ScheduleAt,
           D!BeginRun, D!EnterBucket, D!CallNext, D!LeaveBucket, D!EndRun,
           kernelVars
  <2>2. CASE HandleSignalArrival
    <3>1. Executing("SignalArrival") /\ executing.kind # "SessionFinalize"
      BY <2>2 DEF HandleSignalArrival, Executing
    <3>2. now = executing.signal.from /\ MayInsert(ledger, executing.signal)
      BY <3>1, ArrivesAnew
    <3>3. Returns(TRUE)
      BY <2>2, <3>2 DEF HandleSignalArrival
    <3> QED
      BY <3>1, <3>3 DEF Returns, D!CallbackReturns
  <2>3. CASE HandleSessionFinalize
    BY <2>3, FinalizeFailsBelowZero DEF HandleSessionFinalize, Executing
  <2> QED
    BY <2>1, <2>2, <2>3
<1> QED
  BY <1>1, InductiveHistory, InductiveWorld, PTL
     DEF Spec, ReceiverFailsOnlyBelowZero
===============================================================================

--------------------------- MODULE ReceptionProofs ---------------------------
(***************************************************************************)
(* Machine-checked proofs about what SignalLifecycle receives: the ledger, *)
(* the sessions and their ids, and the commit that ends a cycle.  They     *)
(* build on the invariants of SignalLifecycleProofs and of the dispatcher, *)
(* and on the theorems about the registries.                               *)
(***************************************************************************)
EXTENDS SignalLifecycleProofs, SignalRegistriesProofs, FiniteSetTheorems

(***************************************************************************)
(* The steps of the system, as far as what is received depends on them.    *)
(***************************************************************************)

\* The program, the run loop or a cycle that opens: no callback is called.
Quiet ==
  /\ UNCHANGED <<callbacks, executing, fanOut, radioVars, receiveVars,
                 committed, dispatched, accepted, records>>
  /\ \/ DOMAIN cycles' = DOMAIN cycles
     \/ DOMAIN cycles = committed
          /\ \E c : DOMAIN cycles' = DOMAIN cycles \cup {c}
  /\ now <= now'
  /\ control' = "callback" <=> control = "callback"
  /\ control = "callback" =>
       now' = now /\ lastPhaseAtTime' = lastPhaseAtTime

Called(key) ==
  /\ key \in records
  /\ control' = "callback"
  /\ executing' = callbacks[key.sequence]
  /\ records' = records \ {key}
  /\ dispatched' = dispatched \cup {key}
  /\ key.time = dispatchTime /\ dispatchTime = now /\ now' = now
  /\ lastPhaseAtTime' = key.phase
  /\ control = "bucket"
  /\ UNCHANGED <<accepted, callbacks, fanOut, cycles, radioVars, receiveVars,
                 committed>>

Scheduled(e) ==
  /\ LET key == D!NextKey(e.time, e.phase)
     IN  /\ ~sequenceExhausted
         /\ records' = records \cup {key}
         /\ accepted' = accepted \cup {key}
  /\ callbacks' = Extended(callbacks, nextSequence, e.callback)
  /\ UNCHANGED <<control, now, dispatched, lastPhaseAtTime, executing, cycles,
                 radioVars, receiveVars, committed>>
  /\ \/ e \in fanOut /\ fanOut' = fanOut \ {e}
     \/ e \in HostEvents /\ fanOut' = fanOut
          /\ e.callback.cycle \in DOMAIN cycles

\* What every return of a callback has in common.
Returned ==
  /\ control = "callback" /\ control' = "bucket"
  /\ executing' = NoCallback
  /\ fanOut' = {}
  /\ UNCHANGED <<callbacks, now, lastPhaseAtTime, records, accepted,
                 dispatched>>
  /\ DOMAIN cycles' = DOMAIN cycles

\* It leaves no trace but a TransmissionId that was spent.  What was due, an
\* arrival, the end of a signal or the rest of a fan-out, ends in an error.
Idle ==
  /\ Returned
  /\ \/ executionError'
     \/ /\ executing.kind \notin {"SignalArrival", "SessionFinalize"}
        /\ executing.kind = "FanOut" => fanOut = {}
  /\ \/ UNCHANGED transmissionIds
     \/ ~transmissionIds.exhausted
          /\ transmissionIds' = Allocated(transmissionIds)
  /\ UNCHANGED <<sent, receiveVars, committed>>

Arrived ==
  /\ Returned
  /\ Executing("SignalArrival")
  /\ now = executing.signal.from
  /\ MayInsert(ledger, executing.signal)
  /\ ledger' = Inserted(ledger, executing.signal)
  /\ UNCHANGED <<radioVars, receptionIds, results, committed>>

Received(noise, decoded) ==
  /\ Returned
  /\ Executing("SessionFinalize")
  /\ MayReceive(executing.signal)
  /\ IsObservationOf(executing.signal, noise)
  /\ IsDecodeResultOf(executing.signal, decoded)
  /\ results' = Appended(results, Session(executing.signal, noise, decoded))
  /\ receptionIds' = Allocated(receptionIds)
  /\ UNCHANGED <<radioVars, ledger, committed>>

Closed ==
  /\ Returned
  /\ Executing("CycleClose")
  /\ executing.cycle \notin committed
  /\ now = CloseTime[executing.cycle]
  /\ ledger' = <<>>
  /\ committed' = committed \cup {executing.cycle}
  /\ UNCHANGED <<radioVars, receptionIds, results>>

\* A signal of a transmission that was accepted.
IsSignalOf(s, t) ==
  /\ s \in [transmission : {t.transmission}, packet : {t.request.packet},
            receiver : Range(t.request.candidates), from : D!Times,
            until : D!Times, lower : Int, upper : Int]
  /\ t.request.startedAt <= s.from
  /\ s.from < s.until
  /\ s.until <= CloseTime[t.cycle]
  /\ s.lower < s.upper

\* A transmission in a cycle: one signal per receiver.
IsTransmission(t) ==
  /\ t.cycle \in Cycles
  /\ Range(t.request.candidates) \subseteq Receivers
  /\ \A s \in t.signals : IsSignalOf(s, t)
  /\ \A s, u \in t.signals : s.receiver = u.receiver => s = u

Emitting(t) ==
  /\ Executing("TxStart")
  /\ ~transmissionIds.exhausted
  /\ t.transmission = transmissionIds.next
  /\ t.cycle = executing.cycle
  /\ t.request.startedAt = now
  /\ MayTransmit(t.request)
  /\ IsTransmission(t)
  /\ transmissionIds' = Allocated(transmissionIds)
  /\ sent' = sent \cup {t}
  /\ fanOut' = FanOut(t.signals)
  /\ executing' = [kind |-> "FanOut", cycle |-> executing.cycle]
  /\ UNCHANGED <<control, now, dispatched, lastPhaseAtTime, records, accepted,
                 callbacks, receiveVars, cycles, committed>>

Step ==
  \/ Quiet
  \/ \E key : Called(key)
  \/ \E e : Scheduled(e)
  \/ Idle
  \/ Arrived
  \/ \E noise, decoded : Received(noise, decoded)
  \/ Closed
  \/ \E t : Emitting(t)

LEMMA ReturnsIsReturned ==
  ASSUME NEW ok, Returns(ok), DOMAIN cycles' = DOMAIN cycles
  PROVE  Returned
BY DEF Returns, Returned, D!CallbackReturns, D!schedulerVars

\* Why the signals of a transmission that succeeds are typed: EmittedSignals,
\* and the band and the receivers of the answers.
LEMMA EmitIsTransmission ==
  ASSUME CycleInv, Executing("TxStart"), MayTransmit(executing.request),
         NEW emission \in Emissions(EncodeRequest(executing.request)),
         IsEmissionOf(EncodeRequest(executing.request), emission),
         NEW responses \in ResponseVectors(transmissionIds.next,
                                           Range(executing.request.candidates)),
         \A n \in Range(executing.request.candidates) :
           IsResponseTo(transmissionIds.next, n, responses[n]),
         NEW signals,
         signals = {ReceivedSignal(emission, responses[n]) :
                      n \in Range(executing.request.candidates)},
         EndsInCycle(emission, signals)
  PROVE  IsTransmission([transmission |-> transmissionIds.next,
                         cycle |-> executing.cycle,
                         request |-> executing.request, signals |-> signals])
<1> DEFINE t == [transmission |-> transmissionIds.next,
                 cycle |-> executing.cycle,
                 request |-> executing.request, signals |-> signals]
           request == executing.request
<1>1. executing.cycle \in Cycles
  BY DEF Executing, CycleInv
<1>2. Range(request.candidates) \subseteq Receivers /\ now = request.startedAt
  BY DEF MayTransmit
<1>3. \A s \in signals :
        /\ s.from \in D!Times /\ s.until \in D!Times
        /\ now <= s.from /\ s.from < s.until
        /\ s.until <= CloseTime[executing.cycle]
        /\ s.transmission = transmissionIds.next
        /\ s.packet = request.packet
        /\ s.receiver \in Range(request.candidates)
  BY EmittedSignals
<1>4. /\ emission.band.center \in Int /\ emission.band.half \in Int
      /\ emission.band.half > 0
  BY LifecycleAssumption DEF Emissions, IsEmission
<1>5. ASSUME NEW n \in Range(request.candidates),
             NEW s, s = ReceivedSignal(emission, responses[n])
      PROVE  /\ s \in [transmission : {transmissionIds.next},
                       packet : {request.packet},
                       receiver : Range(request.candidates),
                       from : D!Times, until : D!Times,
                       lower : Int, upper : Int]
             /\ s.receiver = n
             /\ s.lower < s.upper
  <2>1. s \in signals /\ s # NoSignal
    BY <1>5 DEF EndsInCycle
  <2>2. s = [transmission |-> emission.transmission,
             packet |-> emission.packet,
             receiver |-> responses[n].receiver,
             from |-> s.from, until |-> s.until,
             lower |-> emission.band.center - emission.band.half,
             upper |-> emission.band.center + emission.band.half]
    BY <1>5, <2>1 DEF ReceivedSignal
  <2>3. /\ emission.band.center - emission.band.half \in Int
        /\ emission.band.center + emission.band.half \in Int
        /\ emission.band.center - emission.band.half
             < emission.band.center + emission.band.half
    BY <1>4
  <2>4. responses[n].receiver = n
    BY DEF IsResponseTo
  <2>5. /\ s.from \in D!Times /\ s.until \in D!Times
        /\ s.transmission = transmissionIds.next
        /\ s.packet = request.packet
        /\ s.receiver \in Range(request.candidates)
    BY <1>3, <2>1
  <2> QED
    BY ONLY <2>2, <2>3, <2>4, <2>5
<1>6. \A s \in signals : IsSignalOf(s, t)
  BY <1>2, <1>3, <1>5 DEF IsSignalOf
<1>7. \A s, u \in signals : s.receiver = u.receiver => s = u
  BY <1>5
<1> QED
  BY <1>1, <1>2, <1>6, <1>7 DEF IsTransmission

LEMMA EmittingStep ==
  ASSUME CycleInv, Transmit, ~Returns(FALSE)
  PROVE  \E t : Emitting(t)
<1> DEFINE request == executing.request
           receivers == Range(request.candidates)
<1>1. PICK emission \in Emissions(EncodeRequest(request)) :
        /\ IsEmissionOf(EncodeRequest(request), emission)
        /\ \E responses \in ResponseVectors(transmissionIds.next, receivers) :
             /\ \A n \in receivers :
                  IsResponseTo(transmissionIds.next, n, responses[n])
             /\ Emit(request, emission, responses)
  BY DEF Transmit, Fail, EncodeRequest
<1>2. PICK responses \in ResponseVectors(transmissionIds.next, receivers) :
        /\ \A n \in receivers :
             IsResponseTo(transmissionIds.next, n, responses[n])
        /\ Emit(request, emission, responses)
  BY <1>1
<1> DEFINE signals == {ReceivedSignal(emission, responses[n]) :
                         n \in receivers}
           t == [transmission |-> transmissionIds.next,
                 cycle |-> executing.cycle,
                 request |-> request, signals |-> signals]
<1>3. /\ EndsInCycle(emission, signals)
      /\ sent' = sent \cup {t}
      /\ fanOut' = FanOut(signals)
      /\ executing' = [kind |-> "FanOut", cycle |-> executing.cycle]
      /\ UNCHANGED <<kernelVars, callbacks>>
  BY <1>2 DEF Emit
<1>4. /\ Executing("TxStart") /\ MayTransmit(request)
      /\ ~transmissionIds.exhausted
      /\ transmissionIds' = Allocated(transmissionIds)
      /\ UNCHANGED <<storeVars, receiveVars, cycles>>
  BY DEF Transmit
<1>5. IsTransmission(t)
  BY <1>1, <1>2, <1>3, <1>4, EmitIsTransmission
<1>6. UNCHANGED <<control, now, dispatched, lastPhaseAtTime, records, accepted,
                  callbacks, receiveVars, cycles, committed>>
  BY <1>3, <1>4 DEF kernelVars, storeVars
<1>7. /\ t.transmission = transmissionIds.next /\ t.cycle = executing.cycle
      /\ t.signals = signals /\ t.request.startedAt = now
      /\ MayTransmit(t.request)
  BY <1>4 DEF MayTransmit
<1> HIDE DEF t, signals
<1>8. Emitting(t)
  BY <1>3, <1>4, <1>5, <1>6, <1>7 DEF Emitting
<1> QED
  BY <1>8

LEMMA ScheduledStep ==
  ASSUME NEW e, Schedule(e), UNCHANGED <<executing, runtimeVars>>,
         \/ e \in fanOut /\ fanOut' = fanOut \ {e}
         \/ e \in HostEvents /\ fanOut' = fanOut
              /\ e.callback.cycle \in DOMAIN cycles
  PROVE  Scheduled(e)
BY DEF Schedule, Scheduled, D!ScheduleAt, D!MayScheduleAt, D!Insert,
       D!GatewayScheduleAt, D!loopVars, runtimeVars, storeVars

LEMMA QuietStep ==
  ASSUME CycleInv, Kernel!IInv,
         \/ UNCHANGED vars
         \/ \E c \in Cycles : OpenCycle(c)
         \/ BeginRun
         \/ RunLoop /\ ~\E key \in records : Call(key)
  PROVE  Quiet
<1>0. now \in Int
  BY LifecycleAssumption DEF CycleInv, D!Times
<1>1. CASE UNCHANGED vars
  BY <1>1, <1>0 DEF vars, Quiet, kernelVars, runtimeVars, storeVars
<1>2. CASE \E c \in Cycles : OpenCycle(c)
  BY <1>2, <1>0 DEF OpenCycle, Extended, Quiet, kernelVars, storeVars
<1>3. CASE BeginRun
  BY <1>3, <1>0 DEF BeginRun, D!BeginRun, D!schedulerVars, Quiet, runtimeVars,
              storeVars
<1>4. CASE RunLoop /\ ~\E key \in records : Call(key)
  <2>1. now <= now'
    <3>1. ASSUME NEW t \in D!Times, D!EnterBucket(t)
          PROVE  now' = t /\ t >= now
      BY <3>1 DEF D!EnterBucket, D!Times, Kernel!Times, Kernel!IInv,
                  Kernel!ArmedInv
    <3>2. D!LeaveBucket \/ D!EndRun => now' = now
      BY DEF D!LeaveBucket, D!EndRun
    <3> QED
      BY <1>4, <1>0, <3>1, <3>2 DEF RunLoop
  <2> QED
    BY <1>4, <2>1
       DEF RunLoop, D!EnterBucket, D!LeaveBucket, D!EndRun, D!schedulerVars,
           D!loopVars, Quiet, runtimeVars, storeVars
<1> QED
  BY <1>1, <1>2, <1>3, <1>4

LEMMA CalledStep ==
  ASSUME Kernel!IInv, NEW key \in records, Call(key)
  PROVE  Called(key)
<1>1. dispatchTime = now
  BY DEF Call, D!CallNext, Kernel!IInv, Kernel!ControlInv
<1> QED
  BY <1>1 DEF Call, Called, D!CallNext, D!RecordsAt, runtimeVars, storeVars

\* A handler that returns does one of four things.
LEMMA HandlerKinds ==
  ASSUME \/ RefuseTransmission \/ HandleSignalArrival
         \/ HandleSessionFinalize \/ HandleCycleClose \/ ChangeVelocity
  PROVE  \/ Idle
         \/ Arrived
         \/ \E noise, decoded : Received(noise, decoded)
         \/ Closed
<1>1. Returned
  BY HandlerReturns, ReturnsIsReturned
<1>2. \A ok : Returns(ok) => executionError' = ~ok
  BY DEF Returns, D!CallbackReturns
<1>3. CASE RefuseTransmission
  BY <1>1, <1>2, <1>3
     DEF RefuseTransmission, Idle, runtimeVars, storeVars, radioVars
<1>4. CASE HandleSignalArrival
  <2> DEFINE s == executing.signal
             ok == now = s.from /\ MayInsert(ledger, s)
  <2>1. executionError' = ~ok /\ ledger' = IF ok THEN Inserted(ledger, s)
                                                 ELSE ledger
    BY <1>2, <1>4 DEF HandleSignalArrival
  <2>2. /\ Executing("SignalArrival")
        /\ UNCHANGED <<storeVars, radioVars, receptionIds, results, cycles>>
    BY <1>4 DEF HandleSignalArrival
  <2>3. CASE ok
    BY <1>1, <2>1, <2>2, <2>3 DEF Arrived, storeVars
  <2>4. CASE ~ok
    BY <1>1, <2>1, <2>2, <2>4 DEF Idle, storeVars, radioVars, receiveVars
  <2> QED
    BY <2>3, <2>4
<1>5. CASE HandleSessionFinalize
  BY <1>1, <1>2, <1>5 DEF HandleSessionFinalize, Idle, Received, storeVars,
                          radioVars, receiveVars
<1>6. CASE HandleCycleClose
  BY <1>1, <1>2, <1>6 DEF HandleCycleClose, MayClose, Idle, Closed, storeVars,
                          radioVars, receiveVars
<1>7. CASE ChangeVelocity
  BY <1>1, <1>7 DEF ChangeVelocity, Executing, Idle, storeVars, radioVars
<1> QED
  BY <1>3, <1>4, <1>5, <1>6, <1>7

LEMMA StepKinds ==
  ASSUME CycleInv, Kernel!IInv, [Next]_vars
  PROVE  Step
<1>1. CASE \/ UNCHANGED vars
           \/ \E c \in Cycles : OpenCycle(c)
           \/ BeginRun
           \/ RunLoop /\ ~\E key \in records : Call(key)
  BY <1>1, QuietStep DEF Step
<1>2. CASE \E key \in records : Call(key)
  BY <1>2, CalledStep DEF Step
<1>3. CASE \E e \in HostEvents : HostSchedules(e)
  BY <1>3, ScheduledStep DEF HostSchedules, Step
<1>4. CASE ScheduleFanOut
  <2>1. CASE Returns(FALSE) \/ Returns(TRUE)
    <3>1. Returned /\ UNCHANGED <<transmissionIds, sent, receiveVars, committed>>
      BY <1>4, <2>1, ReturnsIsReturned
         DEF ScheduleFanOut, runtimeVars, storeVars, radioVars
    <3>2. executionError' \/ (executing.kind = "FanOut" /\ fanOut = {})
      <4>1. Returns(FALSE) => executionError'
        BY DEF Returns, D!CallbackReturns
      <4>2. Returns(TRUE) => control' = "bucket"
        BY DEF Returns, D!CallbackReturns
      <4>3. control' = "bucket" /\ ~Returns(FALSE)
              => executing.kind = "FanOut" /\ fanOut = {}
        BY <1>4 DEF ScheduleFanOut, Executing, Schedule, D!ScheduleAt
      <4> QED
        BY <2>1, <4>1, <4>2, <4>3
    <3> QED
      BY <3>1, <3>2 DEF Idle, Step
  <2>2. CASE \E e \in fanOut : Schedule(e) /\ fanOut' = fanOut \ {e}
                                 /\ UNCHANGED executing
    BY <1>4, <2>2, ScheduledStep DEF ScheduleFanOut, Step
  <2> QED
    BY <1>4, <2>1, <2>2 DEF ScheduleFanOut
<1>5. CASE Transmit
  <2>1. CASE Returns(FALSE) /\ UNCHANGED sent
    <3>1. executionError'
      BY <2>1 DEF Returns, D!CallbackReturns
    <3> QED
      BY <1>5, <2>1, <3>1, ReturnsIsReturned DEF Transmit, Idle, storeVars, Step
  <2>2. CASE ~Returns(FALSE)
    BY <1>5, <2>2, EmittingStep DEF Step
  <2>3. Returns(FALSE) => UNCHANGED sent
    <3> SUFFICES ASSUME Returns(FALSE) PROVE UNCHANGED sent
      OBVIOUS
    <3>1. control' # control
      BY DEF Returns, D!CallbackReturns
    <3> QED
      BY <1>5, <3>1 DEF Transmit, Fail, Emit, kernelVars
  <2> QED
    BY <2>1, <2>2, <2>3
<1>6. CASE \/ RefuseTransmission \/ HandleSignalArrival
           \/ HandleSessionFinalize \/ HandleCycleClose \/ ChangeVelocity
  BY <1>6, HandlerKinds DEF Step
<1> QED
  BY <1>1, <1>2, <1>3, <1>4, <1>5, <1>6 DEF Next, Handlers, RunLoop

(***************************************************************************)
(* The inductive invariant.                                                *)
(***************************************************************************)

\* A TransmissionId is the next one only once.
AllocationInv ==
  /\ transmissionIds \in [next : FirstTransmissionId .. MaxId,
                          exhausted : BOOLEAN]
  /\ \A t \in sent :
       /\ IsTransmission(t)
       /\ t.transmission \in FirstTransmissionId .. MaxId
       /\ transmissionIds.exhausted \/ t.transmission < transmissionIds.next
  /\ \A t, u \in sent : t.transmission = u.transmission => t = u

\* A callback belongs to a cycle that was opened, one that names a signal names
\* a signal of its cycle, and one that steers a node comes from the program.
IsCallback(callback) ==
  /\ callback.cycle \in DOMAIN cycles
  /\ callback.kind \in {"SignalArrival", "SessionFinalize"} =>
       \E t \in sent : /\ t.cycle = callback.cycle
                       /\ callback.signal \in t.signals
  /\ callback.kind = "ChangeVelocity" => \E e \in HostEvents : e.callback = callback

CallbackInv ==
  /\ DOMAIN callbacks = {k.sequence : k \in accepted}
  /\ \A q \in DOMAIN callbacks : IsCallback(callbacks[q])
  /\ \A e \in fanOut : IsCallback(e.callback)
  /\ control = "callback" => IsCallback(executing)
  /\ executing # NoCallback => control = "callback"
  /\ fanOut # {} => Executing("FanOut")

HasPhase(callback, phase) ==
  /\ callback.kind = "SessionFinalize" => phase = 10
  /\ callback.kind = "CycleClose" => phase = 90

\* Sessions end before, and cycles after, everything else of their instant;
\* a cycle that is committed leaves a dispatched event at its close.
PhaseInv ==
  /\ \A k \in records : HasPhase(callbacks[k.sequence], k.phase)
  /\ \A e \in fanOut : HasPhase(e.callback, e.phase)
  /\ control = "callback" =>
       /\ HasPhase(executing, lastPhaseAtTime)
       /\ \E d \in dispatched : d.time = now /\ d.phase = lastPhaseAtTime
  /\ \A c \in committed :
       /\ c \in DOMAIN cycles
       /\ \E d \in dispatched : d.time = CloseTime[c] /\ d.phase = 90

\* A callback that brings a signal, or ends it.
Names(callback, kind, s) == callback.kind = kind /\ callback.signal = s

Twins(callback, kind, other) ==
  callback.kind = kind /\ Names(other, kind, callback.signal)

\* The event with this sequence has been taken out of its bucket.
Taken(q) == q \in DOMAIN callbacks /\ \A k \in records : k.sequence # q

\* A signal has one event of this kind.  It waits to be scheduled, or in a
\* bucket, or it has been taken out and is on the stack or over.
Once(kind) ==
  /\ \A p, q \in DOMAIN callbacks : Twins(callbacks[p], kind, callbacks[q]) => p = q
  /\ \A e \in fanOut, q \in DOMAIN callbacks :
       ~Twins(e.callback, kind, callbacks[q])
  /\ \A e, f \in fanOut : Twins(e.callback, kind, f.callback) => e = f
  /\ Executing(kind) => \E q : Taken(q) /\ callbacks[q] = executing

Over(kind, s) ==
  /\ \E q : Taken(q) /\ Names(callbacks[q], kind, s)
  /\ ~(Executing(kind) /\ executing.signal = s)

\* Only when its arrival is over may a signal be in the ledger.
ArrivalInv ==
  Once("SignalArrival") /\ \A s \in Range(ledger) : Over("SignalArrival", s)

\* Only when its end is over may it have been received.
EndingInv ==
  /\ Once("SessionFinalize")
  /\ \A r \in Receptions : Over("SessionFinalize", r.signal)

\* The ledger: signals of cycles that are not committed, in their order.
LedgerInv ==
  /\ ledger \in Seq(Emitted)
  /\ \A i, j \in DOMAIN ledger : i < j => CanonicalLess(ledger[i], ledger[j])
  /\ \A s \in Range(ledger) : \E t \in sent :
       s \in t.signals /\ t.cycle \notin committed

\* What a session says of the signal it is about.
IsSession(r) ==
  /\ r.signal \in Emitted
  /\ r.reception \in FirstReceptionId .. MaxId
  /\ r.window \subseteq {s \in Emitted : s.receiver = r.signal.receiver}
  /\ IsObservationOf(r.signal, r.noise)
  /\ IsDecodeResultOf(r.signal, r.decoded)

\* The sessions, in their order, and their ids.
ResultInv ==
  /\ receptionIds \in [next : FirstReceptionId .. MaxId, exhausted : BOOLEAN]
  /\ results \in Seq(Receptions)
  /\ \A i, j \in DOMAIN results : i < j => SessionLess(results[i], results[j])
  /\ \A r \in Receptions : IsSession(r)
  /\ IsFiniteSet(Receptions)
  /\ ReceptionsNumbered

IInv ==
  /\ AllocationInv
  /\ CallbackInv
  /\ PhaseInv
  /\ ArrivalInv
  /\ EndingInv
  /\ LedgerInv
  /\ ResultInv

(***************************************************************************)
(* Facts about a state.                                                    *)
(***************************************************************************)
LEMMA EmittedSignal ==
  ASSUME AllocationInv, NEW s \in Emitted
  PROVE  /\ s \in [transmission : FirstTransmissionId .. MaxId,
                   packet : {t.request.packet : t \in sent},
                   receiver : Receivers, from : D!Times, until : D!Times,
                   lower : Int, upper : Int]
         /\ s.receiver \in Int /\ s.from \in Int /\ s.transmission \in Int
         /\ s.from < s.until
<1>1. PICK t \in sent : s \in t.signals
  BY DEF Emitted
<1>2. /\ IsSignalOf(s, t) /\ t.transmission \in FirstTransmissionId .. MaxId
      /\ Range(t.request.candidates) \subseteq Receivers
  BY <1>1 DEF AllocationInv, IsTransmission
<1>3. Receivers \subseteq Nat /\ FirstTransmissionId \in Int /\ MaxId \in Int
      /\ MaxTime \in Nat
  BY LifecycleAssumption
<1>4. /\ s \in [transmission : {t.transmission}, packet : {t.request.packet},
                receiver : Range(t.request.candidates), from : D!Times,
                until : D!Times, lower : Int, upper : Int]
      /\ s.from < s.until
  BY <1>2 DEF IsSignalOf
<1>5. s \in [transmission : FirstTransmissionId .. MaxId,
             packet : {u.request.packet : u \in sent},
             receiver : Receivers, from : D!Times, until : D!Times,
             lower : Int, upper : Int]
  BY <1>1, <1>2, <1>4
<1>6. s.receiver \in Receivers /\ s.from \in 0 .. MaxTime
      /\ s.transmission \in FirstTransmissionId .. MaxId
  <2>1. s.receiver \in Range(t.request.candidates)
    BY <1>4
  <2>2. s.from \in D!Times /\ s.transmission = t.transmission
    BY <1>4
  <2> QED
    BY <1>2, <2>1, <2>2 DEF D!Times
<1>7. s.receiver \in Int /\ s.from \in Int /\ s.transmission \in Int
  <2>1. s.receiver \in Int
    <3>1. \A n \in Receivers : n \in Int
      BY <1>3
    <3> QED
      BY <1>6, <3>1
  <2>2. s.from \in Int
    BY <1>3, <1>6
  <2>3. s.transmission \in Int
    BY <1>3, <1>6
  <2> QED
    BY <2>1, <2>2, <2>3
<1> QED
  BY <1>4, <1>5, <1>7

\* A signal is known by its receiver and its transmission.
LEMMA SignalIdentity ==
  ASSUME AllocationInv, NEW s \in Emitted, NEW u \in Emitted,
         s.receiver = u.receiver, s.transmission = u.transmission
  PROVE  s = u
<1>1. PICK t \in sent : s \in t.signals
  BY DEF Emitted
<1>2. PICK v \in sent : u \in v.signals
  BY DEF Emitted
<1>3. s.transmission = t.transmission /\ u.transmission = v.transmission
  BY <1>1, <1>2 DEF AllocationInv, IsTransmission, IsSignalOf
<1>4. t = v
  BY <1>3 DEF AllocationInv
<1> QED
  BY <1>1, <1>2, <1>4 DEF AllocationInv, IsTransmission

LEMMA EmittedAreSignals ==
  ASSUME AllocationInv
  PROVE  IsSignalSet(Emitted)
BY EmittedSignal DEF IsSignalSet

\* No callback is called for a signal, or closes a cycle, that is committed.
LEMMA NothingAfterCommit ==
  ASSUME Kernel!IInv, AllocationInv, CallbackInv, PhaseInv,
         control = "callback", executing.cycle \in committed,
         executing.kind \in {"SignalArrival", "SessionFinalize"}
  PROVE  /\ executing.kind = "SignalArrival" => now # executing.signal.from
         /\ executing.kind = "SessionFinalize" => now # executing.signal.until
<1> DEFINE c == executing.cycle
           s == executing.signal
<1>1. PICK t \in sent : t.cycle = c /\ s \in t.signals
  BY DEF CallbackInv, IsCallback
<1>2. /\ s.from \in Int /\ s.until \in Int
      /\ s.from < s.until /\ s.until <= CloseTime[c]
  <2>1. IsSignalOf(s, t)
    BY <1>1 DEF AllocationInv, IsTransmission
  <2>2. MaxTime \in Nat
    BY LifecycleAssumption
  <2> QED
    BY <1>1, <2>1, <2>2 DEF IsSignalOf, D!Times
<1>3. PICK d \in dispatched : d.time = CloseTime[c] /\ d.phase = 90
  BY DEF PhaseInv
<1>4. CloseTime[c] < now \/ (CloseTime[c] = now /\ 90 <= lastPhaseAtTime)
  BY <1>3 DEF Kernel!IInv, Kernel!ClockInv
<1>5. executing.kind = "SessionFinalize" => lastPhaseAtTime = 10
  BY DEF PhaseInv, HasPhase
<1>6. now \in Int /\ CloseTime[c] \in Int
  <2>1. now \in Kernel!Times /\ d.time \in Kernel!Times
    BY <1>3 DEF Kernel!IInv, Kernel!TypeOK, Kernel!EventKey
  <2> QED
    BY <1>3, <2>1, LifecycleAssumption DEF Kernel!Times
<1> QED
  BY <1>2, <1>4, <1>5, <1>6

(***************************************************************************)
(* Every step preserves it.                                                *)
(***************************************************************************)

\* What an allocation does to a counter of ids.
LEMMA AllocatedIds ==
  ASSUME NEW first \in Nat, first <= MaxId,
         NEW ids \in [next : first .. MaxId, exhausted : BOOLEAN],
         ~ids.exhausted
  PROVE  /\ Allocated(ids) \in [next : first .. MaxId, exhausted : BOOLEAN]
         /\ Allocated(ids).exhausted <=> ids.next = MaxId
         /\ Allocated(ids).next = IF ids.next = MaxId THEN ids.next
                                                      ELSE ids.next + 1
<1>1. MaxId \in Nat /\ ids.next \in first .. MaxId
  BY LifecycleAssumption
<1>2. CASE ids.next = MaxId
  <2>1. Allocated(ids) = [ids EXCEPT !.exhausted = TRUE]
    BY <1>2 DEF Allocated
  <2>2. /\ Allocated(ids).next = ids.next
        /\ Allocated(ids).exhausted = TRUE
        /\ Allocated(ids) \in [next : first .. MaxId, exhausted : BOOLEAN]
    BY <2>1
  <2> QED
    BY <1>2, <2>2
<1>3. CASE ids.next # MaxId
  <2>1. Allocated(ids) = [ids EXCEPT !.next = ids.next + 1]
    BY <1>3 DEF Allocated
  <2>2. /\ Allocated(ids).next = ids.next + 1
        /\ Allocated(ids).exhausted = ids.exhausted
    BY <2>1
  <2>3. ids.next + 1 \in first .. MaxId
    BY <1>1, <1>3
  <2>4. Allocated(ids) \in [next : first .. MaxId, exhausted : BOOLEAN]
    BY <2>1, <2>3
  <2> QED
    BY <1>3, <2>2, <2>4
<1> QED
  BY <1>2, <1>3

LEMMA OnlyGrows ==
  ASSUME Step
  PROVE  sent \subseteq sent' /\ Emitted \subseteq Emitted'
<1>1. sent \subseteq sent'
  BY DEF Step, Quiet, Called, Scheduled, Idle, Arrived, Received, Closed,
         Emitting, radioVars
<1> QED
  BY <1>1 DEF Emitted

LEMMA AllocationStep ==
  ASSUME AllocationInv, Step
  PROVE  AllocationInv'
<1>1. /\ FirstTransmissionId \in Nat /\ MaxId \in Nat
      /\ FirstTransmissionId <= MaxId
  BY LifecycleAssumption
<1>2. CASE UNCHANGED <<transmissionIds, sent>>
  BY <1>2 DEF AllocationInv, IsTransmission, IsSignalOf, D!Times
<1>3. ASSUME ~transmissionIds.exhausted,
             transmissionIds' = Allocated(transmissionIds)
      PROVE  /\ transmissionIds' \in [next : FirstTransmissionId .. MaxId,
                                      exhausted : BOOLEAN]
             /\ \A id \in FirstTransmissionId .. MaxId :
                  id <= transmissionIds.next =>
                    transmissionIds'.exhausted \/ id < transmissionIds'.next
             /\ transmissionIds.next \in FirstTransmissionId .. MaxId
             /\ \A t \in sent : /\ t.transmission < transmissionIds.next
                                /\ t.transmission # transmissionIds.next
  <2>1. transmissionIds \in [next : FirstTransmissionId .. MaxId,
                             exhausted : BOOLEAN]
    BY DEF AllocationInv
  <2>2. /\ transmissionIds' \in [next : FirstTransmissionId .. MaxId,
                                 exhausted : BOOLEAN]
        /\ transmissionIds'.exhausted <=> transmissionIds.next = MaxId
        /\ transmissionIds'.next = IF transmissionIds.next = MaxId
                                     THEN transmissionIds.next
                                     ELSE transmissionIds.next + 1
    BY <1>1, <1>3, <2>1, AllocatedIds
  <2>3. transmissionIds.next \in FirstTransmissionId .. MaxId
    BY <2>1
  <2>4. \A t \in sent : /\ t.transmission \in FirstTransmissionId .. MaxId
                        /\ t.transmission < transmissionIds.next
    BY <1>3 DEF AllocationInv
  <2>5. \A id \in FirstTransmissionId .. MaxId :
          id <= transmissionIds.next =>
            transmissionIds'.exhausted \/ id < transmissionIds'.next
    BY <1>1, <2>2, <2>3
  <2>6. \A t \in sent : t.transmission # transmissionIds.next
    BY <1>1, <2>3, <2>4
  <2> QED
    BY <2>2, <2>3, <2>4, <2>5, <2>6
<1>4. CASE /\ ~transmissionIds.exhausted /\ sent' = sent
           /\ transmissionIds' = Allocated(transmissionIds)
  <2>1. \A t \in sent : t.transmission <= transmissionIds.next
    <3>1. transmissionIds.next \in Int
      BY <1>1 DEF AllocationInv
    <3> QED
      BY <1>1, <1>3, <1>4, <3>1 DEF AllocationInv
  <2>2. \A t \in sent : t.transmission \in FirstTransmissionId .. MaxId
    BY DEF AllocationInv
  <2>3. \A t \in sent :
          transmissionIds'.exhausted \/ t.transmission < transmissionIds'.next
    BY <1>3, <1>4, <2>1, <2>2
  <2> QED
    BY <1>3, <1>4, <2>3 DEF AllocationInv, IsTransmission, IsSignalOf, D!Times
<1>5. ASSUME NEW t, Emitting(t)
      PROVE  AllocationInv'
  <2>1. /\ ~transmissionIds.exhausted /\ sent' = sent \cup {t}
        /\ transmissionIds' = Allocated(transmissionIds)
        /\ IsTransmission(t) /\ t.transmission = transmissionIds.next
    BY <1>5 DEF Emitting
  <2>2. \A u \in sent' : /\ IsTransmission(u)
                         /\ u.transmission \in FirstTransmissionId .. MaxId
                         /\ u.transmission <= transmissionIds.next
    <3>1. transmissionIds.next \in Int
      BY <1>1 DEF AllocationInv
    <3> QED
      BY <1>1, <1>3, <2>1, <3>1 DEF AllocationInv
  <2>3. \A u \in sent' :
          transmissionIds'.exhausted \/ u.transmission < transmissionIds'.next
    BY <1>3, <2>1, <2>2
  <2>4. \A u, v \in sent' : u.transmission = v.transmission => u = v
    BY <1>3, <2>1 DEF AllocationInv
  <2>5. \A u \in sent' : IsTransmission(u)'
    BY <2>2 DEF IsTransmission, IsSignalOf, D!Times
  <2> QED
    BY <1>3, <2>1, <2>2, <2>3, <2>4, <2>5 DEF AllocationInv
<1> QED
  BY <1>2, <1>4, <1>5
     DEF Step, Quiet, Called, Scheduled, Idle, Arrived, Received, Closed,
         radioVars

\* What a scheduled event does to the callbacks.
LEMMA ScheduledCallbacks ==
  ASSUME Kernel!IInv, CallbackInv, NEW e, Scheduled(e)
  PROVE  /\ nextSequence \notin DOMAIN callbacks
         /\ DOMAIN callbacks' = DOMAIN callbacks \cup {nextSequence}
         /\ callbacks'[nextSequence] = e.callback
         /\ \A q \in DOMAIN callbacks : callbacks'[q] = callbacks[q]
         /\ \E key : /\ key.sequence = nextSequence /\ key.phase = e.phase
                     /\ key.time = e.time
                     /\ records' = records \cup {key}
                     /\ accepted' = accepted \cup {key}
<1>1. \A k \in accepted : k.sequence < nextSequence
  BY DEF Scheduled, Kernel!IInv, Kernel!SequenceInv
<1>2. \A k \in accepted : k.sequence # nextSequence
  <2>1. nextSequence \in Int
    BY LifecycleAssumption DEF Kernel!IInv, Kernel!TypeOK
  <2> QED
    BY <1>1, <2>1
<1>3. nextSequence \notin DOMAIN callbacks
  BY <1>2 DEF CallbackInv
<1>4. callbacks' = Extended(callbacks, nextSequence, e.callback)
  BY DEF Scheduled
<1>5. /\ DOMAIN callbacks' = DOMAIN callbacks \cup {nextSequence}
      /\ callbacks'[nextSequence] = e.callback
      /\ \A q \in DOMAIN callbacks : callbacks'[q] = callbacks[q]
  BY <1>3, <1>4 DEF Extended
<1>6. \E key : /\ key.sequence = nextSequence /\ key.phase = e.phase
               /\ key.time = e.time
               /\ records' = records \cup {key}
               /\ accepted' = accepted \cup {key}
  BY DEF Scheduled, D!NextKey
<1> QED
  BY <1>3, <1>5, <1>6

LEMMA CallbackStays ==
  ASSUME Step, DOMAIN cycles \subseteq DOMAIN cycles',
         NEW callback, IsCallback(callback)
  PROVE  IsCallback(callback)'
BY OnlyGrows DEF IsCallback

LEMMA CyclesGrow ==
  ASSUME Step
  PROVE  DOMAIN cycles \subseteq DOMAIN cycles'
BY DEF Step, Quiet, Called, Scheduled, Idle, Arrived, Received, Closed,
       Emitting, Returned

\* What the program schedules names no signal.
LEMMA HostCallback ==
  ASSUME NEW e \in HostEvents, e.callback.cycle \in DOMAIN cycles
  PROVE  /\ e.callback.kind \notin {"SignalArrival", "SessionFinalize"}
         /\ IsCallback(e.callback) /\ HasPhase(e.callback, e.phase)
BY LifecycleAssumption DEF IsCallback, HasPhase

\* What a transmission schedules names its signals.
LEMMA FanOutCallback ==
  ASSUME CallbackInv, NEW t, Emitting(t), NEW e \in FanOut(t.signals)
  PROVE  /\ IsCallback(e.callback)'
         /\ HasPhase(e.callback, e.phase)
         /\ \E s \in t.signals : /\ e \in {Arrival(s), Finalize(s)}
                                 /\ e.callback.signal = s
<1>1. PICK s \in t.signals : e \in {Arrival(s), Finalize(s)}
  BY DEF FanOut
<1>2. /\ e.callback.cycle = executing.cycle /\ e.callback.signal = s
      /\ e.callback.kind \in {"SignalArrival", "SessionFinalize"}
      /\ HasPhase(e.callback, e.phase)
  BY <1>1 DEF Arrival, Finalize, HasPhase, D!kSignalArrival,
              D!kSessionFinalize
<1>3. t \in sent' /\ t.cycle = executing.cycle /\ cycles' = cycles
  BY DEF Emitting
<1>4. executing.cycle \in DOMAIN cycles
  BY DEF Emitting, Executing, CallbackInv, IsCallback
<1>5. IsCallback(e.callback)'
  BY <1>2, <1>3, <1>4 DEF IsCallback
<1> QED
  BY <1>1, <1>2, <1>5

LEMMA CallbackStep ==
  ASSUME Kernel!IInv, CallbackInv, Step
  PROVE  CallbackInv'
<1>1. \A callback : IsCallback(callback) => IsCallback(callback)'
  BY CallbackStays, CyclesGrow
<1>2. \A x : x \in Range(callbacks) => IsCallback(x)'
  BY <1>1 DEF CallbackInv, Range
<1>3. \A e \in fanOut : IsCallback(e.callback)'
  BY <1>1 DEF CallbackInv
<1>4. \A x : x = executing /\ control = "callback" => IsCallback(x)'
  BY <1>1 DEF CallbackInv
<1>5. CASE Quiet
  <2>1. UNCHANGED <<callbacks, executing, fanOut, accepted>>
        /\ (control' = "callback" <=> control = "callback")
    BY <1>5 DEF Quiet
  <2>2. \A q \in DOMAIN callbacks' : IsCallback(callbacks[q])'
    BY <1>2, <2>1 DEF IsCallback, Range
  <2>3. control' = "callback" => IsCallback(executing)'
    BY <1>4, <2>1 DEF IsCallback
  <2> QED
    BY <1>3, <2>1, <2>2, <2>3 DEF CallbackInv, Executing
<1>6. ASSUME NEW key, Called(key)
      PROVE  CallbackInv'
  <2>1. /\ executing' = callbacks[key.sequence] /\ key \in records
        /\ control' = "callback" /\ control # "callback"
        /\ UNCHANGED <<callbacks, fanOut, accepted>>
    BY <1>6 DEF Called
  <2>2. \A q \in DOMAIN callbacks' : IsCallback(callbacks[q])'
    BY <1>2, <2>1 DEF IsCallback, Range
  <2>3. key.sequence \in DOMAIN callbacks
    BY <2>1 DEF CallbackInv, Kernel!IInv, Kernel!NoEventLost
  <2>4. IsCallback(executing)'
    BY <2>1, <2>2, <2>3 DEF IsCallback
  <2>5. fanOut' = {}
    BY <2>1 DEF CallbackInv, Executing
  <2> QED
    BY <2>1, <2>2, <2>4, <2>5 DEF CallbackInv
<1>7. ASSUME NEW e, Scheduled(e)
      PROVE  CallbackInv'
  <2>1. /\ DOMAIN callbacks' = DOMAIN callbacks \cup {nextSequence}
        /\ callbacks'[nextSequence] = e.callback
        /\ \A q \in DOMAIN callbacks : callbacks'[q] = callbacks[q]
        /\ \E key : key.sequence = nextSequence
                      /\ accepted' = accepted \cup {key}
    BY <1>7, ScheduledCallbacks
  <2>2. /\ UNCHANGED <<control, executing>>
        /\ fanOut' \subseteq fanOut
        /\ \/ e \in fanOut
           \/ e \in HostEvents /\ e.callback.cycle \in DOMAIN cycles
    BY <1>7 DEF Scheduled
  <2>3. IsCallback(e.callback)'
    BY <1>1, <1>3, <2>2, HostCallback
  <2>4. \A q \in DOMAIN callbacks' : IsCallback(callbacks[q])'
    BY <1>2, <2>1, <2>3 DEF IsCallback, Range
  <2>5. control' = "callback" => IsCallback(executing)'
    BY <1>4, <2>2 DEF IsCallback
  <2>6. DOMAIN callbacks' = {k.sequence : k \in accepted'}
    BY <2>1 DEF CallbackInv
  <2> QED
    BY <1>3, <2>2, <2>4, <2>5, <2>6 DEF CallbackInv, Executing
<1>8. CASE Returned
  <2>1. /\ executing' = NoCallback /\ fanOut' = {} /\ control' # "callback"
        /\ UNCHANGED <<callbacks, accepted>>
    BY <1>8 DEF Returned
  <2>2. \A q \in DOMAIN callbacks' : IsCallback(callbacks[q])'
    BY <1>2, <2>1 DEF IsCallback, Range
  <2> QED
    BY <2>1, <2>2 DEF CallbackInv
<1>9. ASSUME NEW t, Emitting(t)
      PROVE  CallbackInv'
  <2>1. /\ executing' = [kind |-> "FanOut", cycle |-> executing.cycle]
        /\ Executing("TxStart") /\ fanOut' = FanOut(t.signals)
        /\ UNCHANGED <<control, callbacks, accepted, cycles>>
    BY <1>9 DEF Emitting
  <2>2. \A q \in DOMAIN callbacks' : IsCallback(callbacks[q])'
    BY <1>2, <2>1 DEF IsCallback, Range
  <2>3. IsCallback(executing)'
    BY <2>1 DEF IsCallback, Executing, CallbackInv
  <2>4. \A e \in fanOut' : IsCallback(e.callback)'
    BY <1>9, <2>1, FanOutCallback
  <2>5. Executing("FanOut")'
    BY <2>1 DEF Executing
  <2> QED
    BY <2>1, <2>2, <2>3, <2>4, <2>5 DEF CallbackInv, Executing
<1> QED
  BY <1>5, <1>6, <1>7, <1>8, <1>9 DEF Step, Idle, Arrived, Received, Closed

LEMMA PhaseStep ==
  ASSUME Kernel!IInv, CallbackInv, PhaseInv, Step
  PROVE  PhaseInv'
<1>1. \A k \in records : k.sequence \in DOMAIN callbacks
  BY DEF CallbackInv, Kernel!IInv, Kernel!NoEventLost
<1>2. DOMAIN cycles \subseteq DOMAIN cycles' /\ dispatched \subseteq dispatched'
  BY CyclesGrow DEF Step, Quiet, Called, Scheduled, Idle, Arrived, Received,
                    Closed, Emitting, Returned
<1>3. committed' = committed =>
        \A c \in committed' :
          /\ c \in DOMAIN cycles'
          /\ \E d \in dispatched' : d.time = CloseTime[c] /\ d.phase = 90
  BY <1>2 DEF PhaseInv
<1>4. CASE Quiet
  BY <1>3, <1>4 DEF Quiet, PhaseInv, HasPhase
<1>5. ASSUME NEW key, Called(key)
      PROVE  PhaseInv'
  <2>1. /\ executing' = callbacks[key.sequence] /\ key \in records
        /\ records' = records \ {key} /\ dispatched' = dispatched \cup {key}
        /\ key.time = now /\ now' = now /\ lastPhaseAtTime' = key.phase
        /\ UNCHANGED <<callbacks, fanOut, committed>>
    BY <1>5 DEF Called
  <2>2. HasPhase(executing', lastPhaseAtTime')
    BY <2>1 DEF PhaseInv
  <2>3. \E d \in dispatched' : d.time = now' /\ d.phase = lastPhaseAtTime'
    BY <2>1
  <2> QED
    BY <1>3, <2>1, <2>2, <2>3 DEF PhaseInv, HasPhase
<1>6. ASSUME NEW e, Scheduled(e)
      PROVE  PhaseInv'
  <2>1. PICK key : /\ key.sequence = nextSequence /\ key.phase = e.phase
                   /\ records' = records \cup {key}
    BY <1>6, ScheduledCallbacks
  <2>2. /\ callbacks'[nextSequence] = e.callback
        /\ \A q \in DOMAIN callbacks : callbacks'[q] = callbacks[q]
    BY <1>6, ScheduledCallbacks
  <2>3. /\ UNCHANGED <<control, now, dispatched, lastPhaseAtTime, executing,
                       committed>>
        /\ fanOut' \subseteq fanOut
        /\ \/ e \in fanOut
           \/ e \in HostEvents /\ e.callback.cycle \in DOMAIN cycles
    BY <1>6 DEF Scheduled
  <2>4. HasPhase(e.callback, e.phase)
    BY <2>3, HostCallback DEF PhaseInv
  <2>5. ASSUME NEW k \in records' PROVE HasPhase(callbacks'[k.sequence], k.phase)
    <3>1. CASE k = key
      BY <2>1, <2>2, <2>4, <3>1
    <3>2. CASE k \in records
      BY <1>1, <2>2, <3>2 DEF PhaseInv
    <3> QED
      BY <2>1, <3>1, <3>2
  <2> QED
    BY <1>3, <2>3, <2>5 DEF PhaseInv, HasPhase
<1>7. CASE Returned /\ committed' = committed
  BY <1>3, <1>7 DEF Returned, PhaseInv, HasPhase
<1>8. CASE Closed
  <2>1. /\ Returned /\ Executing("CycleClose")
        /\ now = CloseTime[executing.cycle]
        /\ committed' = committed \cup {executing.cycle}
    BY <1>8 DEF Closed
  <2>2. executing.cycle \in DOMAIN cycles
    BY <2>1 DEF Executing, CallbackInv, IsCallback
  <2>3. \E d \in dispatched : d.time = CloseTime[executing.cycle]
                                /\ d.phase = 90
    BY <2>1 DEF Executing, PhaseInv, HasPhase
  <2>4. \A c \in committed' :
          /\ c \in DOMAIN cycles'
          /\ \E d \in dispatched' : d.time = CloseTime[c] /\ d.phase = 90
    BY <1>2, <2>1, <2>2, <2>3 DEF PhaseInv
  <2> QED
    BY <2>1, <2>4 DEF Returned, PhaseInv, HasPhase
<1>9. ASSUME NEW t, Emitting(t)
      PROVE  PhaseInv'
  <2>1. /\ executing' = [kind |-> "FanOut", cycle |-> executing.cycle]
        /\ fanOut' = FanOut(t.signals)
        /\ UNCHANGED <<control, now, dispatched, lastPhaseAtTime, records,
                       callbacks, committed>>
    BY <1>9 DEF Emitting
  <2>2. HasPhase(executing', lastPhaseAtTime')
    BY <2>1 DEF HasPhase
  <2>3. \A e \in fanOut' : HasPhase(e.callback, e.phase)
    BY <1>9, <2>1, FanOutCallback
  <2> QED
    BY <1>3, <2>1, <2>2, <2>3 DEF PhaseInv, HasPhase
<1> QED
  BY <1>4, <1>5, <1>6, <1>7, <1>8, <1>9 DEF Step, Idle, Arrived, Received

LEMMA ExecutingSignal ==
  ASSUME CallbackInv, control = "callback",
         executing.kind \in {"SignalArrival", "SessionFinalize"}
  PROVE  /\ executing.signal \in Emitted
         /\ \E t \in sent : /\ executing.signal \in t.signals
                            /\ t.cycle = executing.cycle
BY DEF CallbackInv, IsCallback, Emitted

\* A reception that succeeds adds one session, with the next id, in its place.
LEMMA ReceivedResults ==
  ASSUME AllocationInv, CallbackInv, LedgerInv, ResultInv,
         NEW noise, NEW decoded, Received(noise, decoded)
  PROVE  LET r == Session(executing.signal, noise, decoded)
         IN  /\ results' \in Seq(Receptions')
             /\ Receptions' = Receptions \cup {r}
             /\ \A i, j \in DOMAIN results' :
                  i < j => SessionLess(results'[i], results'[j])
             /\ Len(results') = Len(results) + 1
             /\ IsSession(r)
             /\ r.signal = executing.signal /\ r.reception = receptionIds.next
             /\ \A q \in Receptions : q.reception # r.reception
<1> DEFINE s == executing.signal
           r == Session(s, noise, decoded)
           S == Receptions \cup {r}
<1>1. s \in Emitted
  BY ExecutingSignal DEF Received, Executing
<1>2. /\ ~receptionIds.exhausted
      /\ IsObservationOf(s, noise) /\ IsDecodeResultOf(s, decoded)
      /\ results' = Appended(results, r)
  BY DEF Received, MayReceive
<1>3. /\ receptionIds.next \in FirstReceptionId .. MaxId
      /\ FirstReceptionId \in Int /\ MaxId \in Int
  BY LifecycleAssumption DEF ResultInv
<1>4. /\ r.signal = s /\ r.reception = receptionIds.next
      /\ r.window = WindowOf(s) /\ r.noise = noise /\ r.decoded = decoded
  BY DEF Session
<1> HIDE DEF r
<1>5. \A q \in Receptions : q.reception # r.reception
  <2>1. {q.reception : q \in Receptions} =
          FirstReceptionId .. receptionIds.next - 1
    BY <1>2 DEF ResultInv, ReceptionsNumbered
  <2> QED
    BY <1>3, <1>4, <2>1
<1>6. IsSignalSet(Emitted)
  BY EmittedAreSignals
<1>7. WindowOf(s) \subseteq {u \in Emitted : u.receiver = s.receiver}
  <2>1. s.receiver \in Int
    BY <1>1, EmittedSignal
  <2>2. IsSortedBy(ledger, CanonicalLess) /\ ledger \in Seq(Emitted)
    BY DEF LedgerInv, IsSortedBy
  <2>3. Range(SignalsForReceiver(ledger, s.receiver)) =
          {u \in Range(ledger) : u.receiver = s.receiver}
    BY <1>6, <2>1, <2>2, SignalsForReceiverAreAll
  <2>4. Range(ledger) \subseteq Emitted
    BY <2>2 DEF Range
  <2> QED
    BY <2>3, <2>4 DEF WindowOf
<1>8. IsSession(r)
  BY <1>1, <1>2, <1>3, <1>4, <1>7 DEF IsSession
<1>9. IsSessionSet(S)
  <2>1. \A q \in S : q.signal \in Emitted /\ q.reception \in Int
    BY <1>3, <1>8 DEF ResultInv, IsSession
  <2> QED
    BY <1>6, <2>1 DEF IsSessionSet, IsSignalSet
<1>10. results \in Seq(S) /\ IsSortedBy(results, SessionLess)
  <2>1. results \in Seq(Receptions)
    BY DEF ResultInv
  <2>2. IsSortedBy(results, SessionLess)
    BY DEF ResultInv, IsSortedBy
  <2> QED
    BY <2>1, <2>2
<1>11. r \in S /\ \A q \in Range(results) : q.reception # r.reception
  BY <1>5 DEF Receptions
<1> HIDE DEF S
<1>12. /\ Appended(results, r) \in Seq(S)
       /\ IsSortedBy(Appended(results, r), SessionLess)
       /\ Range(Appended(results, r)) = Range(results) \cup {r}
       /\ Len(Appended(results, r)) = Len(results) + 1
  BY <1>9, <1>10, <1>11, AppendedInOrder
<1>13. Receptions' = S
  BY <1>2, <1>12 DEF Receptions, S
<1>14. \A i, j \in DOMAIN results' :
         i < j => SessionLess(results'[i], results'[j])
  BY <1>2, <1>12 DEF IsSortedBy
<1> QED
  BY <1>2, <1>4, <1>5, <1>8, <1>12, <1>13, <1>14 DEF S, r

LEMMA OnceCalled ==
  ASSUME Kernel!IInv, CallbackInv, NEW kind, Once(kind), NEW key, Called(key)
  PROVE  /\ Once(kind)'
         /\ \A s : Over(kind, s) => Over(kind, s)'
<1>1. /\ executing' = callbacks[key.sequence] /\ key \in records
      /\ records' = records \ {key}
      /\ UNCHANGED <<callbacks, fanOut>>
  BY DEF Called
<1>2. \A k \in records : k.sequence = key.sequence => k = key
  BY <1>1 DEF Kernel!IInv, Kernel!NoEventLost, Kernel!SequenceInv,
              Kernel!UniqueSequences
<1>3. key.sequence \in DOMAIN callbacks
  BY <1>1 DEF CallbackInv, Kernel!IInv, Kernel!NoEventLost
<1>4. Taken(key.sequence)' /\ \A q : Taken(q) => Taken(q)'
  BY <1>1, <1>2, <1>3 DEF Taken
<1>5. ASSUME NEW s, Over(kind, s)
      PROVE  Over(kind, s)'
  <2>1. PICK q : Taken(q) /\ Names(callbacks[q], kind, s)
    BY <1>5 DEF Over
  <2>2. Taken(q)' /\ Names(callbacks'[q], kind, s)
    BY <1>1, <1>4, <2>1
  <2>3. ~(executing'.kind = kind /\ executing'.signal = s)
    <3> SUFFICES ASSUME executing'.kind = kind, executing'.signal = s
                 PROVE  FALSE
      OBVIOUS
    <3>1. q = key.sequence
      BY <1>1, <1>3, <2>1 DEF Once, Twins, Names, Taken
    <3> QED
      BY <1>1, <2>1, <3>1 DEF Taken
  <2> QED
    BY <2>2, <2>3 DEF Over, Names, Executing
<1> QED
  BY <1>1, <1>4, <1>5 DEF Once, Twins, Names

LEMMA OnceScheduled ==
  ASSUME Kernel!IInv, CallbackInv,
         NEW kind \in {"SignalArrival", "SessionFinalize"}, Once(kind),
         NEW e, Scheduled(e)
  PROVE  /\ Once(kind)'
         /\ \A s : Over(kind, s) => Over(kind, s)'
<1>1. PICK key : key.sequence = nextSequence /\ records' = records \cup {key}
  BY ScheduledCallbacks
<1>2. /\ nextSequence \notin DOMAIN callbacks
      /\ DOMAIN callbacks' = DOMAIN callbacks \cup {nextSequence}
      /\ callbacks'[nextSequence] = e.callback
      /\ \A q \in DOMAIN callbacks : callbacks'[q] = callbacks[q]
  BY ScheduledCallbacks
<1>3. UNCHANGED <<control, executing>>
  BY DEF Scheduled
<1>4. \/ e \in fanOut /\ fanOut' = fanOut \ {e}
      \/ e.callback.kind # kind /\ fanOut' = fanOut
  BY HostCallback DEF Scheduled
<1>5. \A q : Taken(q) => Taken(q)' /\ callbacks'[q] = callbacks[q]
  BY <1>1, <1>2 DEF Taken
<1>6. \A q \in DOMAIN callbacks : /\ ~Twins(e.callback, kind, callbacks[q])
                                  /\ ~Twins(callbacks[q], kind, e.callback)
  BY <1>4 DEF Once, Twins, Names
<1>7. \A p, q \in DOMAIN callbacks' :
        Twins(callbacks'[p], kind, callbacks'[q]) => p = q
  BY <1>2, <1>6 DEF Once
<1>8. ASSUME NEW f \in fanOut', NEW q \in DOMAIN callbacks'
      PROVE  ~Twins(f.callback, kind, callbacks'[q])
  <2>1. CASE q \in DOMAIN callbacks
    BY <1>2, <1>4, <2>1 DEF Once
  <2>2. CASE q = nextSequence
    <3>1. ~Twins(f.callback, kind, e.callback)
      BY <1>4 DEF Once, Twins, Names
    <3> QED
      BY <1>2, <2>2, <3>1
  <2> QED
    BY <1>2, <2>1, <2>2
<1>9. \A f, g \in fanOut' : Twins(f.callback, kind, g.callback) => f = g
  BY <1>4 DEF Once
<1>10. Executing(kind)' => \E q : Taken(q)' /\ callbacks'[q] = executing'
  BY <1>3, <1>5 DEF Once, Executing
<1>11. ASSUME NEW s, Over(kind, s)
       PROVE  Over(kind, s)'
  <2>1. PICK q : Taken(q) /\ Names(callbacks[q], kind, s)
    BY <1>11 DEF Over
  <2>2. Taken(q)' /\ Names(callbacks'[q], kind, s)
    BY <1>5, <2>1
  <2> QED
    BY <1>3, <1>11, <2>2 DEF Over, Names, Executing
<1> QED
  BY <1>7, <1>8, <1>9, <1>10, <1>11 DEF Once, Twins, Names

LEMMA OnceReturned ==
  ASSUME NEW kind, Once(kind), Returned
  PROVE  /\ Once(kind)'
         /\ \A s : Over(kind, s) => Over(kind, s)'
         /\ \A s : Executing(kind) /\ executing.signal = s => Over(kind, s)'
<1>1. /\ UNCHANGED <<callbacks, records>> /\ fanOut' = {}
      /\ control' = "bucket"
  BY DEF Returned
<1>2. \A q : Taken(q) => Taken(q)'
  BY <1>1 DEF Taken
<1>3. ASSUME NEW s, Over(kind, s) \/ (Executing(kind) /\ executing.signal = s)
      PROVE  Over(kind, s)'
  <2>1. PICK q : Taken(q) /\ Names(callbacks[q], kind, s)
    BY <1>3 DEF Over, Once, Executing, Names
  <2>2. Taken(q)' /\ Names(callbacks'[q], kind, s)
    BY <1>1, <1>2, <2>1
  <2> QED
    BY <1>1, <2>2 DEF Over, Names, Executing
<1> QED
  BY <1>1, <1>3 DEF Once, Twins, Names, Executing

LEMMA OnceEmitting ==
  ASSUME AllocationInv, CallbackInv,
         NEW kind \in {"SignalArrival", "SessionFinalize"}, Once(kind),
         NEW t, Emitting(t)
  PROVE  /\ Once(kind)'
         /\ \A s : Over(kind, s) => Over(kind, s)'
<1>1. /\ ~transmissionIds.exhausted /\ t.transmission = transmissionIds.next
      /\ IsTransmission(t) /\ fanOut' = FanOut(t.signals)
      /\ UNCHANGED <<control, records, callbacks>>
      /\ executing' = [kind |-> "FanOut", cycle |-> executing.cycle]
  BY DEF Emitting
<1>2. \A u \in sent : u.transmission # t.transmission
  <2>1. \A u \in sent : u.transmission < transmissionIds.next
    BY <1>1 DEF AllocationInv
  <2>2. transmissionIds.next \in Int
    BY LifecycleAssumption DEF AllocationInv
  <2> QED
    BY <1>1, <2>1, <2>2
<1>3. ASSUME NEW e \in fanOut'
      PROVE  /\ e.callback.signal \in t.signals
             /\ e = IF e.callback.kind = "SignalArrival"
                      THEN Arrival(e.callback.signal)
                      ELSE Finalize(e.callback.signal)
  <2>1. PICK s \in t.signals : /\ e \in {Arrival(s), Finalize(s)}
                               /\ e.callback.signal = s
    BY <1>1, FanOutCallback
  <2>2. /\ Arrival(s).callback.kind = "SignalArrival"
        /\ Finalize(s).callback.kind = "SessionFinalize"
    BY DEF Arrival, Finalize
  <2> QED
    BY <2>1, <2>2
<1>4. ASSUME NEW e \in fanOut', NEW q \in DOMAIN callbacks
      PROVE  ~Twins(e.callback, kind, callbacks[q])
  <2> SUFFICES ASSUME Names(callbacks[q], kind, e.callback.signal)
               PROVE  FALSE
    BY DEF Twins
  <2>1. e.callback.signal.transmission = t.transmission
    BY <1>1, <1>3 DEF IsTransmission, IsSignalOf
  <2>2. PICK u \in sent : callbacks[q].signal \in u.signals
    BY DEF CallbackInv, IsCallback, Names
  <2>3. callbacks[q].signal.transmission = u.transmission
    BY <2>2 DEF AllocationInv, IsTransmission, IsSignalOf
  <2> QED
    BY <1>2, <2>1, <2>3 DEF Names
<1>5. \A e, f \in fanOut' : Twins(e.callback, kind, f.callback) => e = f
  BY <1>3 DEF Twins, Names
<1>6. ~Executing(kind)'
  BY <1>1 DEF Executing
<1>7. \A q : Taken(q) => Taken(q)'
  BY <1>1 DEF Taken
<1>8. \A s : Over(kind, s) => Over(kind, s)'
  BY <1>1, <1>6, <1>7 DEF Over, Names
<1> QED
  BY <1>1, <1>4, <1>5, <1>6, <1>8 DEF Once, Twins, Names

\* Every step leaves a signal with one arrival and one end.
LEMMA OnceStep ==
  ASSUME Kernel!IInv, AllocationInv, CallbackInv, Step,
         NEW kind \in {"SignalArrival", "SessionFinalize"}, Once(kind)
  PROVE  /\ Once(kind)'
         /\ \A s : Over(kind, s) => Over(kind, s)'
<1>1. CASE Quiet
  <2>1. /\ UNCHANGED <<callbacks, executing, fanOut, records>>
        /\ control' = "callback" <=> control = "callback"
    BY <1>1 DEF Quiet
  <2> QED
    BY <2>1 DEF Once, Over, Twins, Names, Taken, Executing
<1> QED
  BY <1>1, OnceCalled, OnceScheduled, OnceReturned, OnceEmitting
     DEF Step, Idle, Arrived, Received, Closed

LEMMA ArrivalStep ==
  ASSUME Kernel!IInv, AllocationInv, CallbackInv, ArrivalInv, LedgerInv, Step
  PROVE  ArrivalInv'
<1>1. /\ Once("SignalArrival")'
      /\ \A s : Over("SignalArrival", s) => Over("SignalArrival", s)'
  BY OnceStep DEF ArrivalInv
<1>2. CASE Range(ledger') \subseteq Range(ledger)
  BY <1>1, <1>2 DEF ArrivalInv
<1>3. CASE Arrived
  <2> DEFINE s == executing.signal
  <2>1. /\ control = "callback" /\ executing.kind = "SignalArrival"
        /\ MayInsert(ledger, s) /\ ledger' = Inserted(ledger, s)
    BY <1>3 DEF Arrived, Executing
  <2>2. s \in Emitted
    BY <2>1, ExecutingSignal
  <2>3. /\ IsSignalSet(Emitted) /\ ledger \in Seq(Emitted)
        /\ IsSortedBy(ledger, CanonicalLess)
    BY EmittedAreSignals DEF LedgerInv, IsSortedBy
  <2> HIDE DEF s
  <2>4. Range(ledger') = Range(ledger) \cup {s}
    BY <2>1, <2>2, <2>3, InsertedInOrder
  <2>5. \A u : u = s => Over("SignalArrival", u)'
    BY <1>3, OnceReturned DEF ArrivalInv, Arrived, s
  <2> QED
    BY <1>1, <2>4, <2>5 DEF ArrivalInv
<1>4. CASE ledger' = <<>>
  BY <1>1, <1>4 DEF ArrivalInv, Range
<1> QED
  BY <1>2, <1>3, <1>4 DEF Step, Quiet, Called, Scheduled, Idle, Received,
                          Closed, Emitting, receiveVars

LEMMA EndingStep ==
  ASSUME Kernel!IInv, AllocationInv, CallbackInv, EndingInv, LedgerInv,
         ResultInv, Step
  PROVE  EndingInv'
<1>1. /\ Once("SessionFinalize")'
      /\ \A s : Over("SessionFinalize", s) => Over("SessionFinalize", s)'
  BY OnceStep DEF EndingInv
<1>2. CASE results' = results
  BY <1>1, <1>2 DEF EndingInv, Receptions
<1>3. ASSUME NEW noise, NEW decoded, Received(noise, decoded)
      PROVE  EndingInv'
  <2> DEFINE new == Session(executing.signal, noise, decoded)
  <2>1. Receptions' = Receptions \cup {new} /\ new.signal = executing.signal
    BY <1>3, ReceivedResults
  <2> HIDE DEF new
  <2>2. \A u : u = executing.signal => Over("SessionFinalize", u)'
    BY <1>3, OnceReturned DEF EndingInv, Received
  <2> QED
    BY <1>1, <2>1, <2>2 DEF EndingInv
<1> QED
  BY <1>2, <1>3 DEF Step, Quiet, Called, Scheduled, Idle, Arrived, Closed,
                    Emitting, receiveVars

LEMMA LedgerStep ==
  ASSUME Kernel!IInv, AllocationInv, CallbackInv, PhaseInv, LedgerInv, Step
  PROVE  LedgerInv'
<1>1. sent \subseteq sent' /\ Emitted \subseteq Emitted'
  BY OnlyGrows
<1>2. CASE UNCHANGED <<ledger, committed>>
  <2>1. ledger' \in Seq(Emitted')
    BY <1>1, <1>2 DEF LedgerInv
  <2> QED
    BY <1>1, <1>2, <2>1 DEF LedgerInv, Range
<1>3. CASE Arrived
  <2> DEFINE s == executing.signal
  <2>1. /\ control = "callback" /\ executing.kind = "SignalArrival"
        /\ now = s.from /\ MayInsert(ledger, s)
        /\ ledger' = Inserted(ledger, s)
        /\ UNCHANGED <<sent, committed>>
    BY <1>3 DEF Arrived, Executing, radioVars
  <2>2. /\ s \in Emitted
        /\ \E t \in sent : s \in t.signals /\ t.cycle = executing.cycle
    BY <2>1, ExecutingSignal
  <2>3. executing.cycle \notin committed
    BY <2>1, NothingAfterCommit
  <2>4. /\ IsSignalSet(Emitted) /\ ledger \in Seq(Emitted)
        /\ IsSortedBy(ledger, CanonicalLess)
    BY EmittedAreSignals DEF LedgerInv, IsSortedBy
  <2> HIDE DEF s
  <2>5. /\ ledger' \in Seq(Emitted)
        /\ IsSortedBy(Inserted(ledger, s), CanonicalLess)
        /\ Range(ledger') = Range(ledger) \cup {s}
    BY <2>1, <2>2, <2>4, InsertedInOrder
  <2>6. \A i, j \in DOMAIN ledger' :
          i < j => CanonicalLess(ledger'[i], ledger'[j])
    BY <2>1, <2>5 DEF IsSortedBy
  <2>7. \A u \in Range(ledger') : \E t \in sent' :
          u \in t.signals /\ t.cycle \notin committed'
    BY <2>1, <2>2, <2>3, <2>5 DEF LedgerInv
  <2>8. Emitted' = Emitted
    BY <2>1 DEF Emitted
  <2> QED
    BY <2>5, <2>6, <2>7, <2>8 DEF LedgerInv
<1>4. CASE ledger' = <<>>
  BY <1>4 DEF LedgerInv, Range
<1> QED
  BY <1>2, <1>3, <1>4 DEF Step, Quiet, Called, Scheduled, Idle, Received,
                          Closed, Emitting, receiveVars

LEMMA NumberedAfterReception ==
  ASSUME AllocationInv, CallbackInv, EndingInv, LedgerInv, ResultInv,
         NEW noise, NEW decoded, Received(noise, decoded)
  PROVE  /\ ReceptionsNumbered' /\ IsFiniteSet(Receptions')
         /\ receptionIds' \in [next : FirstReceptionId .. MaxId,
                               exhausted : BOOLEAN]
<1> DEFINE new == Session(executing.signal, noise, decoded)
<1>1. /\ Receptions' = Receptions \cup {new}
      /\ Len(results') = Len(results) + 1
      /\ new.signal = executing.signal /\ new.reception = receptionIds.next
      /\ \A q \in Receptions : q.reception # new.reception
  BY ReceivedResults
<1> HIDE DEF new
<1>2. /\ receptionIds' = Allocated(receptionIds) /\ ~receptionIds.exhausted
      /\ Executing("SessionFinalize")
  BY DEF Received, MayReceive
<1>3. \A q \in Receptions : q.signal # new.signal
  BY <1>1, <1>2 DEF EndingInv, Over
<1>4. /\ FirstReceptionId \in Nat /\ MaxId \in Nat
      /\ FirstReceptionId <= MaxId
  BY LifecycleAssumption
<1>5. /\ receptionIds \in [next : FirstReceptionId .. MaxId,
                           exhausted : BOOLEAN]
      /\ receptionIds.next \in FirstReceptionId .. MaxId
  BY DEF ResultInv
<1>6. /\ receptionIds' \in [next : FirstReceptionId .. MaxId,
                            exhausted : BOOLEAN]
      /\ receptionIds'.exhausted <=> receptionIds.next = MaxId
      /\ receptionIds'.next = IF receptionIds.next = MaxId
                                THEN receptionIds.next
                                ELSE receptionIds.next + 1
  BY <1>2, <1>4, <1>5, AllocatedIds
<1> DEFINE last == IF receptionIds'.exhausted THEN MaxId
                                             ELSE receptionIds'.next - 1
<1>7. last = receptionIds.next
  BY <1>4, <1>5, <1>6
<1>8. {q.reception : q \in Receptions'} = FirstReceptionId .. last
  <2>1. {q.reception : q \in Receptions} =
          FirstReceptionId .. receptionIds.next - 1
    BY <1>2 DEF ResultInv, ReceptionsNumbered
  <2>2. {q.reception : q \in Receptions'} =
          {q.reception : q \in Receptions} \cup {receptionIds.next}
    BY <1>1
  <2>3. FirstReceptionId .. receptionIds.next =
          (FirstReceptionId .. receptionIds.next - 1)
             \cup {receptionIds.next}
    BY <1>4, <1>5
  <2> QED
    BY <1>7, <2>1, <2>2, <2>3
<1>9. \A q, r \in Receptions' :
        q.signal = r.signal \/ q.reception = r.reception => q = r
  BY <1>1, <1>3 DEF ResultInv, ReceptionsNumbered
<1>10. IsFiniteSet(Receptions') /\ Len(results') = Cardinality(Receptions')
  <2>1. IsFiniteSet(Receptions) /\ Len(results) = Cardinality(Receptions)
    BY DEF ResultInv, ReceptionsNumbered
  <2>2. new \notin Receptions
    BY <1>3
  <2> QED
    BY <1>1, <2>1, <2>2, FS_AddElement
<1> QED
  BY <1>6, <1>8, <1>9, <1>10 DEF ReceptionsNumbered

LEMMA ResultStep ==
  ASSUME AllocationInv, CallbackInv, EndingInv, LedgerInv, ResultInv, Step
  PROVE  ResultInv'
<1>1. Emitted \subseteq Emitted'
  BY OnlyGrows
<1>2. \A r : IsSession(r) => IsSession(r)'
  BY <1>1 DEF IsSession
<1>3. CASE UNCHANGED <<receptionIds, results>>
  <2>1. Receptions' = Receptions
    BY <1>3 DEF Receptions
  <2> QED
    BY <1>2, <1>3, <2>1 DEF ResultInv, ReceptionsNumbered
<1>4. ASSUME NEW noise, NEW decoded, Received(noise, decoded)
      PROVE  ResultInv'
  <2> DEFINE new == Session(executing.signal, noise, decoded)
  <2>1. /\ results' \in Seq(Receptions')
        /\ Receptions' = Receptions \cup {new}
        /\ \A i, j \in DOMAIN results' :
             i < j => SessionLess(results'[i], results'[j])
        /\ IsSession(new)
    BY <1>4, ReceivedResults
  <2>2. \A r \in Receptions' : IsSession(r)
    BY <2>1 DEF ResultInv
  <2>3. \A r \in Receptions' : IsSession(r)'
    BY <1>2, <2>2
  <2> HIDE DEF new
  <2> QED
    BY <1>4, <2>1, <2>3, NumberedAfterReception DEF ResultInv
<1> QED
  BY <1>3, <1>4 DEF Step, Quiet, Called, Scheduled, Idle, Arrived, Closed,
                    Emitting, receiveVars

LEMMA InitReception == Init => IInv
<1> SUFFICES ASSUME Init PROVE IInv
  OBVIOUS
<1>1. /\ FirstTransmissionId \in 0 .. MaxId /\ FirstReceptionId \in 0 .. MaxId
      /\ MaxId \in Nat
  BY LifecycleAssumption
<1>2. Receptions = {} /\ Emitted = {}
  BY DEF Init, Receptions, Emitted, Range
<1>3. /\ control = "host" /\ accepted = {} /\ records = {}
      /\ DOMAIN callbacks = {} /\ executing = NoCallback /\ fanOut = {}
  BY DEF Init, D!Init
<1>4. AllocationInv
  BY <1>1 DEF Init, AllocationInv
<1>5. CallbackInv /\ PhaseInv /\ EndingInv
  BY <1>2, <1>3 DEF Init, CallbackInv, PhaseInv, EndingInv, Once, Executing
<1>6. LedgerInv /\ ArrivalInv
  BY <1>3 DEF Init, LedgerInv, ArrivalInv, Once, Executing, Range
<1>7. ResultInv
  <2>1. {r.reception : r \in Receptions} =
          FirstReceptionId .. FirstReceptionId - 1
    BY <1>1, <1>2
  <2>2. /\ results = <<>>
        /\ receptionIds = [next |-> FirstReceptionId, exhausted |-> FALSE]
    BY DEF Init
  <2>3. IsFiniteSet(Receptions) /\ Len(results) = Cardinality(Receptions)
    BY <1>2, <2>2, FS_EmptySet
  <2>4. ReceptionsNumbered
    BY <1>2, <2>1, <2>2, <2>3 DEF ReceptionsNumbered
  <2> QED
    BY <1>1, <1>2, <2>2, <2>3, <2>4 DEF ResultInv
<1> QED
  BY <1>4, <1>5, <1>6, <1>7 DEF IInv

LEMMA InductiveStep ==
  CycleInv /\ Kernel!IInv /\ IInv /\ [Next]_vars
    => CycleInv' /\ Kernel!IInv' /\ IInv'
<1> SUFFICES ASSUME CycleInv, Kernel!IInv, IInv, [Next]_vars
             PROVE  CycleInv' /\ Kernel!IInv' /\ IInv'
  OBVIOUS
<1>1. CycleInv' /\ KernelStep
  BY NextStep
<1>2. Kernel!IInv'
  BY <1>1, SameKernelStep, Kernel!NextInv, KernelBounds
<1>3. Step
  BY StepKinds
<1>4. IInv'
  BY <1>3, AllocationStep, CallbackStep, PhaseStep, ArrivalStep, EndingStep,
     LedgerStep, ResultStep DEF IInv
<1> QED
  BY <1>1, <1>2, <1>4

\* The invariant of this module, with the two it builds on.
THEOREM ReceptionInvariant == Spec => [](CycleInv /\ Kernel!IInv /\ IInv)
<1>1. Init => CycleInv /\ Kernel!IInv /\ IInv
  BY InitCycle, InitReception, SameKernelInit, Kernel!InitInv, KernelBounds
     DEF Init
<1> QED
  BY <1>1, InductiveStep, PTL DEF Spec

(***************************************************************************)
(* What follows from it.                                                   *)
(***************************************************************************)
LEMMA TypesOfState ==
  ASSUME CycleInv, Kernel!IInv, IInv
  PROVE  TypeOK
<1>1. D!TypeOK
  BY DEF Kernel!IInv, Kernel!TypeOK, D!TypeOK, D!Times, Kernel!Times,
         D!EventPhase, Kernel!EventPhase, D!EventKey, Kernel!EventKey,
         D!NoTime, Kernel!NoTime, D!NoPhase, Kernel!NoPhase,
         D!kSessionFinalize, Kernel!kSessionFinalize, D!kSignalArrival,
         Kernel!kSignalArrival, D!kInputReady, Kernel!kInputReady,
         D!kRuntimeDecision, Kernel!kRuntimeDecision, D!kTxStart,
         Kernel!kTxStart, D!kCycleClose, Kernel!kCycleClose
<1>2. AllocationInv
  BY DEF IInv
<1>3. D!Times \subseteq Counts
  <2>1. MaxTime \in Nat /\ MaxCount \in Nat /\ MaxTime <= MaxCount
    BY LifecycleAssumption, WidthAssumption
  <2> QED
    BY <2>1 DEF D!Times, Counts, MinCount
<1>4. Emitted \subseteq Signal
  <2> SUFFICES ASSUME NEW s \in Emitted PROVE s \in Signal
    OBVIOUS
  <2>1. s \in [transmission : FirstTransmissionId .. MaxId,
               packet : {t.request.packet : t \in sent},
               receiver : Receivers, from : D!Times, until : D!Times,
               lower : Int, upper : Int]
    BY <1>2, EmittedSignal
  <2> QED
    BY <1>3, <2>1 DEF Signal
<1>5. Range(ledger) \subseteq Emitted
  BY DEF IInv, LedgerInv, Range
<1>6. \A r \in Receptions : r.signal \in Emitted /\ r.window \subseteq Emitted
  BY DEF IInv, ResultInv, IsSession
<1>7. committed \subseteq DOMAIN cycles /\ DOMAIN cycles \subseteq Cycles
  BY DEF IInv, PhaseInv, CycleInv
<1> QED
  BY <1>1, <1>4, <1>5, <1>6, <1>7
     DEF TypeOK, IInv, CallbackInv, AllocationInv, ResultInv

\* Every variable has its type, whatever the providers answer, whichever calls
\* fail and however often Run is called: the state of CycleSignalRuntime and
\* of the registries it fills.
THEOREM TypeOKTheorem == Spec => []TypeOK
BY ReceptionInvariant, TypesOfState, PTL

LEMMA SessionsInOrder ==
  ASSUME AllocationInv, ResultInv,
         NEW i \in DOMAIN results, NEW j \in DOMAIN results, i < j
  PROVE  LET s == results[i].signal
             u == results[j].signal
         IN  \/ s.from < u.from
             \/ s.from = u.from /\ s.receiver < u.receiver
             \/ s.from = u.from /\ s.receiver = u.receiver
                  /\ s.transmission < u.transmission
<1> DEFINE q == results[i]
           r == results[j]
<1>1. q \in Receptions /\ r \in Receptions
  BY DEF Receptions, Range
<1>2. SessionLess(q, r)
  BY DEF ResultInv
<1>3. /\ q.signal \in Emitted /\ r.signal \in Emitted
      /\ q.reception \in Int /\ r.reception \in Int
  BY <1>1, LifecycleAssumption DEF ResultInv, IsSession
<1>4. /\ q.signal.receiver = r.signal.receiver
      /\ q.signal.transmission = r.signal.transmission
      => q.reception = r.reception
  <2>1. /\ q.signal.receiver = r.signal.receiver
        /\ q.signal.transmission = r.signal.transmission
        => q.signal = r.signal
    BY <1>3, SignalIdentity
  <2>2. q.signal = r.signal => q = r
    BY <1>1 DEF ResultInv, ReceptionsNumbered
  <2> QED
    BY <2>1, <2>2
<1> QED
  BY <1>2, <1>3, <1>4 DEF SessionLess

LEMMA OrderOfRegistries ==
  ASSUME IInv
  PROVE  CanonicalOrder
<1> DEFINE Earlier(a, b) == \E k \in 1 .. 3 :
             a[k] < b[k] /\ \A j \in 1 .. k - 1 : a[j] = b[j]
<1>1. ASSUME NEW a1, NEW a2, NEW a3, NEW b1, NEW b2, NEW b3,
             \/ a1 < b1
             \/ a1 = b1 /\ a2 < b2
             \/ a1 = b1 /\ a2 = b2 /\ a3 < b3
      PROVE  Earlier(<<a1, a2, a3>>, <<b1, b2, b3>>)
  <2> DEFINE a == <<a1, a2, a3>>
             b == <<b1, b2, b3>>
  <2>1. CASE a1 < b1
    <3>1. 1 \in 1 .. 3 /\ a[1] < b[1] /\ \A j \in 1 .. 1 - 1 : a[j] = b[j]
      BY <2>1
    <3> QED
      BY <3>1
  <2>2. CASE a1 = b1 /\ a2 < b2
    <3>1. 2 \in 1 .. 3 /\ a[2] < b[2] /\ \A j \in 1 .. 2 - 1 : a[j] = b[j]
      BY <2>2
    <3> QED
      BY <3>1
  <2>3. CASE a1 = b1 /\ a2 = b2 /\ a3 < b3
    <3>1. 3 \in 1 .. 3 /\ a[3] < b[3] /\ \A j \in 1 .. 3 - 1 : a[j] = b[j]
      BY <2>3
    <3> QED
      BY <3>1
  <2> QED
    BY <1>1, <2>1, <2>2, <2>3
<1> HIDE DEF Earlier
<1>2. \A i, j \in DOMAIN ledger : i < j =>
        Earlier(<<ledger[i].receiver, ledger[i].from, ledger[i].transmission>>,
                <<ledger[j].receiver, ledger[j].from, ledger[j].transmission>>)
  BY <1>1 DEF IInv, LedgerInv, CanonicalLess
<1>3. \A i, j \in DOMAIN results : i < j =>
        Earlier(<<results[i].signal.from, results[i].signal.receiver,
                  results[i].signal.transmission>>,
                <<results[j].signal.from, results[j].signal.receiver,
                  results[j].signal.transmission>>)
  BY <1>1, SessionsInOrder DEF IInv
<1> QED
  BY <1>2, <1>3 DEF CanonicalOrder, Earlier

\* The registries list signals and sessions in their canonical order, whatever
\* the order of HandleSignalArrival and HandleSessionFinalize calls.
THEOREM CanonicalOrderTheorem == Spec => []CanonicalOrder
BY ReceptionInvariant, OrderOfRegistries, PTL

\* A signal is received at most once, and the ReceptionIds of the sessions
\* have no gap and no duplicate, whichever decoders fail in between.
THEOREM ReceptionsNumberedTheorem == Spec => []ReceptionsNumbered
<1>1. IInv => ReceptionsNumbered
  BY DEF IInv, ResultInv
<1> QED
  BY <1>1, ReceptionInvariant, PTL

LEMMA SessionsAreSound ==
  ASSUME IInv
  PROVE  SessionsOfWhatWasSent
<1> SUFFICES ASSUME NEW r \in Receptions
             PROVE  \E t \in sent :
                      /\ r.signal \in t.signals
                      /\ r.decoded.transmission = t.transmission
                      /\ r.decoded.packet = t.request.packet
                      /\ r.decoded.receiver \in Range(t.request.candidates)
                      /\ r.noise.receiver = r.decoded.receiver
                      /\ t.request.startedAt <= r.noise.from
                      /\ \A s \in r.window : s.receiver = r.decoded.receiver
  BY DEF SessionsOfWhatWasSent
<1>1. IsSession(r)
  BY DEF IInv, ResultInv
<1>2. PICK t \in sent : r.signal \in t.signals
  BY <1>1 DEF IsSession, Emitted
<1>3. IsSignalOf(r.signal, t)
  BY <1>2 DEF IInv, AllocationInv, IsTransmission
<1>4. /\ r.noise.receiver = r.signal.receiver
      /\ r.noise.from = r.signal.from
  BY <1>1 DEF IsSession, IsObservationOf, NoiseQuery
<1> QED
  BY <1>1, <1>2, <1>3, <1>4 DEF IsSession, IsDecodeResultOf, IsSignalOf

\* However providers mix up their answers, a session is about one transmission
\* from end to end: the identity checks of TransmissionExecutor and
\* ReceiverProcessor leave no way in for another one.
THEOREM SessionsOfWhatWasSentTheorem == Spec => []SessionsOfWhatWasSent
BY ReceptionInvariant, SessionsAreSound, PTL

\* No signal of a committed cycle is ever in the ledger the cycles share.
THEOREM LedgerOfOpenCycleTheorem == Spec => []LedgerOfOpenCycle
<1>1. IInv => LedgerOfOpenCycle
  BY DEF IInv, LedgerInv, LedgerOfOpenCycle
<1> QED
  BY <1>1, ReceptionInvariant, PTL

\* What is in the ledger stays there until a cycle is committed: no arrival,
\* failed close or error of a callback takes a signal out.
THEOREM LedgerKeptUntilCommitTheorem == Spec => LedgerKeptUntilCommit
<1>1. CycleInv /\ Kernel!IInv /\ IInv /\ [Next]_vars
        => [Range(ledger) \subseteq Range(ledger')
              \/ committed' # committed]_vars
  <2> SUFFICES ASSUME CycleInv, Kernel!IInv, IInv, [Next]_vars,
                      committed' = committed
               PROVE  Range(ledger) \subseteq Range(ledger')
    OBVIOUS
  <2>1. Step
    BY StepKinds
  <2>2. CASE Arrived
    <3>1. /\ executing.signal \in Emitted /\ MayInsert(ledger, executing.signal)
          /\ ledger' = Inserted(ledger, executing.signal)
      BY <2>2, ExecutingSignal DEF Arrived, Executing, IInv
    <3>2. /\ IsSignalSet(Emitted) /\ ledger \in Seq(Emitted)
          /\ IsSortedBy(ledger, CanonicalLess)
      BY EmittedAreSignals DEF IInv, LedgerInv, IsSortedBy
    <3> QED
      BY <3>1, <3>2, InsertedInOrder
  <2>3. ~Closed
    BY DEF Closed
  <2> QED
    BY <2>1, <2>2, <2>3
       DEF Step, Quiet, Called, Scheduled, Idle, Received, Emitting,
           receiveVars
<1> QED
  BY <1>1, ReceptionInvariant, PTL DEF Spec, LedgerKeptUntilCommit

LEMMA FinalOfCommitted ==
  ASSUME CycleInv, Kernel!IInv, IInv, [Next]_vars, NEW c \in committed
  PROVE  /\ executing # NoCallback /\ executing.cycle = c
              => UNCHANGED <<currentSnapshot, ledger, results>>
         /\ c \in committed'
<1>1. Step
  BY StepKinds
<1>2. c \in committed'
  BY <1>1 DEF Step, Quiet, Called, Scheduled, Idle, Arrived, Received, Closed,
              Emitting
<1> SUFFICES ASSUME executing # NoCallback, executing.cycle = c
             PROVE  UNCHANGED <<currentSnapshot, ledger, results>>
  BY <1>2
<1>3. control = "callback" /\ AllocationInv /\ CallbackInv /\ PhaseInv
  BY DEF IInv, CallbackInv
<1>4. ~Arrived
  <2> SUFFICES ASSUME Arrived PROVE FALSE
    OBVIOUS
  <2> QED
    BY <1>3, NothingAfterCommit DEF Arrived, Executing
<1>5. \A noise, decoded : ~Received(noise, decoded)
  <2> SUFFICES ASSUME NEW noise, NEW decoded, Received(noise, decoded)
               PROVE  FALSE
    OBVIOUS
  <2> QED
    BY <1>3, NothingAfterCommit DEF Received, Executing, MayReceive
<1>6. ~Closed
  BY DEF Closed
<1>7. UNCHANGED <<ledger, results>>
  BY <1>1, <1>4, <1>5, <1>6
     DEF Step, Quiet, Called, Scheduled, Idle, Emitting, receiveVars
<1>8. UNCHANGED currentSnapshot
  <2>1. CASE HandleCycleClose
    BY <2>1 DEF HandleCycleClose, MayClose, storeVars
  <2> QED
    BY <2>1 DEF Next, Handlers, vars, runtimeVars, storeVars, OpenCycle,
                HostSchedules, BeginRun, RunLoop, Call, RefuseTransmission,
                Transmit, ScheduleFanOut, HandleSignalArrival,
                HandleSessionFinalize, ChangeVelocity
<1> QED
  BY <1>7, <1>8

\* A commit ends its cycle: no signal is taken in, no session recorded and no
\* snapshot committed for it afterwards, whatever is still scheduled.
THEOREM CommitIsFinalTheorem == Spec => CommitIsFinal
<1>1. CycleInv /\ Kernel!IInv /\ IInv /\ [Next]_vars
        => [\A c \in committed :
              /\ executing # NoCallback /\ executing.cycle = c
                   => UNCHANGED <<currentSnapshot, ledger, results>>
              /\ c \in committed']_vars
  BY FinalOfCommitted
<1> QED
  BY <1>1, ReceptionInvariant, PTL DEF Spec, CommitIsFinal

(***************************************************************************)
(* The overlap the code computes, and the one a reader means.              *)
(***************************************************************************)
LEMMA MaxOfTwo ==
  ASSUME NEW a \in Int, NEW b \in Int
  PROVE  Max({a, b}) = IF a >= b THEN a ELSE b
<1>1. \E x \in {a, b} : \A y \in {a, b} : x >= y
  OBVIOUS
<1>2. Max({a, b}) \in {a, b} /\ \A y \in {a, b} : Max({a, b}) >= y
  BY <1>1 DEF Max
<1> QED
  BY <1>2

LEMMA MinOfTwo ==
  ASSUME NEW a \in Int, NEW b \in Int
  PROVE  Min({a, b}) = IF a <= b THEN a ELSE b
<1>1. \E x \in {a, b} : \A y \in {a, b} : x <= y
  OBVIOUS
<1>2. Min({a, b}) \in {a, b} /\ \A y \in {a, b} : Min({a, b}) <= y
  BY <1>1 DEF Min
<1> QED
  BY <1>2

\* The latest begin before the earliest end is a common point.
LEMMA CommonPoint ==
  ASSUME NEW a \in Int, NEW b \in Int, NEW c \in Int, NEW d \in Int,
         a < b, c < d
  PROVE  Max({a, c}) < Min({b, d})
           <=> (a .. b - 1) \cap (c .. d - 1) # {}
<1>1. ASSUME Max({a, c}) < Min({b, d})
      PROVE  (a .. b - 1) \cap (c .. d - 1) # {}
  <2> DEFINE x == IF a >= c THEN a ELSE c
  <2>1. x \in a .. b - 1 /\ x \in c .. d - 1
    BY <1>1, MaxOfTwo, MinOfTwo
  <2> QED
    BY <2>1
<1>2. ASSUME NEW x \in (a .. b - 1) \cap (c .. d - 1)
      PROVE  Max({a, c}) < Min({b, d})
  <2>1. x \in Int /\ a <= x /\ c <= x /\ x < b /\ x < d
    BY <1>2
  <2> QED
    BY <2>1, MaxOfTwo, MinOfTwo
<1> QED
  BY <1>1, <1>2

\* HasP0SignalOverlap holds of two signals exactly when they share a receiver,
\* an instant and a frequency: half-open intervals that touch do not overlap.
THEOREM OverlapIsMeeting ==
  ASSUME NEW s, NEW t,
         {s.from, s.until, s.lower, s.upper} \subseteq Int,
         {t.from, t.until, t.lower, t.upper} \subseteq Int,
         s.from < s.until, s.lower < s.upper,
         t.from < t.until, t.lower < t.upper
  PROVE  HasP0SignalOverlap(s, t) <=> History!Meet(s, t)
<1>1. HasTemporalOverlap(s, t)
        <=> (s.from .. s.until - 1) \cap (t.from .. t.until - 1) # {}
  BY CommonPoint DEF HasTemporalOverlap
<1>2. HasSpectralOverlap(s, t)
        <=> (s.lower .. s.upper - 1) \cap (t.lower .. t.upper - 1) # {}
  BY CommonPoint DEF HasSpectralOverlap
<1> QED
  BY <1>1, <1>2 DEF HasP0SignalOverlap, History!Meet
===============================================================================

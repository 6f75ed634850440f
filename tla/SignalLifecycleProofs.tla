------------------------- MODULE SignalLifecycleProofs -------------------------
(***************************************************************************)
(* Machine-checked proofs about SignalLifecycle: any requests, answers of  *)
(* the providers, failures and number of Runs.                             *)
(***************************************************************************)
EXTENDS SignalLifecycle, TLAPS

\* The events that wait to be scheduled lie within a cycle.
IsFanOutEvent(e) ==
  /\ e.time \in D!Times /\ e.phase \in {10, 20}
  /\ e.callback.cycle \in Cycles

\* Every callback, scheduled, on the stack or yet to be scheduled, belongs to
\* a cycle of the program, and the clock has not left the range of the times.
CycleInv ==
  /\ now \in D!Times
  /\ DOMAIN cycles \subseteq Cycles
  /\ \A k \in records : k.sequence \in DOMAIN callbacks
  /\ \A q \in DOMAIN callbacks : callbacks[q].cycle \in Cycles
  /\ control = "callback" => executing.cycle \in Cycles
  /\ \A e \in fanOut : IsFanOutEvent(e)

\* A step of the dispatcher, or one it does not see.
KernelStep == D!Next \/ UNCHANGED D!vars

LEMMA KernelVars == UNCHANGED kernelVars => UNCHANGED D!vars
BY DEF kernelVars, D!vars, D!schedulerVars, D!loopVars

LEMMA CycleOfReturn ==
  ASSUME CycleInv, NEW ok, Returns(ok),
         DOMAIN cycles' \subseteq DOMAIN cycles
  PROVE  CycleInv'
<1>1. /\ now' = now /\ fanOut' = {} /\ records' = records
      /\ callbacks' = callbacks /\ control' = "bucket"
  BY DEF Returns, D!CallbackReturns, D!schedulerVars
<1> QED
  BY <1>1 DEF CycleInv, IsFanOutEvent, D!Times

LEMMA KernelOfReturn ==
  ASSUME NEW ok \in BOOLEAN, Returns(ok)
  PROVE  KernelStep
BY DEF Returns, KernelStep, D!Next

\* What a call of ScheduleAt leaves behind.
LEMMA CallbacksOfSchedule ==
  ASSUME CycleInv, NEW e, Schedule(e), e.callback.cycle \in Cycles
  PROVE  /\ now' = now /\ control' = control
         /\ \A k \in records' : k.sequence \in DOMAIN callbacks'
         /\ \A q \in DOMAIN callbacks' : callbacks'[q].cycle \in Cycles
<1>1. /\ now' = now /\ control' = control
      /\ records' = records \cup {D!NextKey(e.time, e.phase)}
      /\ callbacks' = Extended(callbacks, nextSequence, e.callback)
  BY DEF Schedule, D!ScheduleAt, D!Insert, D!GatewayScheduleAt
<1>2. /\ DOMAIN callbacks' = DOMAIN callbacks \cup {nextSequence}
      /\ \A q \in DOMAIN callbacks' :
           callbacks'[q] = IF q = nextSequence THEN e.callback
                                               ELSE callbacks[q]
  BY <1>1 DEF Extended
<1>3. D!NextKey(e.time, e.phase).sequence = nextSequence
  BY DEF D!NextKey
<1> QED
  BY <1>1, <1>2, <1>3 DEF CycleInv

LEMMA KernelOfSchedule ==
  ASSUME NEW e, Schedule(e), e.time \in D!Times,
         e.phase \in {f.phase : f \in HostEvents} \cup {10, 20}
  PROVE  KernelStep
BY DEF Schedule, KernelStep, D!Next, D!Schedule

\* A signal the executor and the cycle accept lies in the cycle and lasts.
LEMMA SignalInCycle ==
  ASSUME NEW emission, NEW response, NEW close \in Nat, close <= MaxTime,
         emission.startedAt \in D!Times,
         emission.duration \in Nat, emission.duration > 0,
         response.delay \in Nat, LatestExcessDelay(response) \in Nat,
         ReceivedSignal(emission, response) # NoSignal,
         ReceivedSignal(emission, response).until <= close
  PROVE  LET s == ReceivedSignal(emission, response)
         IN  /\ s.from \in D!Times /\ s.until \in D!Times
             /\ s.from < s.until /\ emission.startedAt <= s.from
<1> DEFINE x == LatestExcessDelay(response)
           from == CheckedAddCounts(emission.startedAt, response.delay)
           last == CheckedAddCounts(from, x)
           end == CheckedAddCounts(last, emission.duration)
           s == ReceivedSignal(emission, response)
<1>1. emission.startedAt \in Nat /\ MaxTime \in Nat
  BY LifecycleAssumption DEF D!Times
<1>2. from # NoCount /\ last # NoCount /\ end # NoCount
  BY DEF ReceivedSignal
<1>3. s.from = from /\ s.until = end
  BY <1>2 DEF ReceivedSignal
<1> HIDE DEF x
<1>4. from = emission.startedAt + response.delay
  BY <1>2 DEF CheckedAddCounts
<1>5. last = from + x
  BY <1>2 DEF CheckedAddCounts
<1>6. end = last + emission.duration
  BY <1>2 DEF CheckedAddCounts
<1>7. s.until <= close /\ x \in Nat
  BY DEF s, x
<1> HIDE DEF from, last, end, s
<1>8. /\ s.from \in D!Times /\ s.until \in D!Times /\ s.from < s.until
      /\ emission.startedAt <= s.from
  BY <1>1, <1>3, <1>4, <1>5, <1>6, <1>7 DEF D!Times
<1> QED
  BY <1>8 DEF s

LEMMA CloseTimeIsTime ==
  ASSUME NEW c \in Cycles
  PROVE  CloseTime[c] \in Nat /\ CloseTime[c] <= MaxTime
BY LifecycleAssumption

LEMMA InitCycle == Init => CycleInv
BY LifecycleAssumption DEF Init, CycleInv, D!Init, D!Times

LEMMA OpenCycleStep ==
  ASSUME CycleInv, NEW c \in Cycles, OpenCycle(c)
  PROVE  KernelStep /\ CycleInv'
<1>1. UNCHANGED kernelVars /\ UNCHANGED <<callbacks, executing, fanOut>>
  BY DEF OpenCycle
<1>2. DOMAIN cycles' = DOMAIN cycles \cup {c}
  BY DEF OpenCycle, Extended
<1>3. CycleInv'
  BY <1>1, <1>2 DEF CycleInv, IsFanOutEvent, D!Times, kernelVars
<1> QED
  BY <1>1, <1>3, KernelVars DEF KernelStep

LEMMA HostSchedulesStep ==
  ASSUME CycleInv, NEW e \in HostEvents, HostSchedules(e)
  PROVE  KernelStep /\ CycleInv'
<1>1. e.time \in D!Times
  BY LifecycleAssumption DEF D!Times
<1>2. KernelStep
  BY <1>1, KernelOfSchedule DEF HostSchedules
<1>3. control = "host" /\ e.callback.cycle \in Cycles
  BY DEF HostSchedules, CycleInv
<1>4. UNCHANGED <<executing, fanOut, cycles>>
  BY DEF HostSchedules, runtimeVars
<1>5. CycleInv'
  BY <1>3, <1>4, CallbacksOfSchedule
     DEF HostSchedules, CycleInv, IsFanOutEvent, D!Times
<1> QED
  BY <1>2, <1>5

LEMMA RunLoopStep ==
  ASSUME CycleInv, RunLoop \/ BeginRun
  PROVE  KernelStep /\ CycleInv'
<1>1. KernelStep
  BY DEF RunLoop, BeginRun, Call, KernelStep, D!Next, D!RunLoop
<1>2. UNCHANGED <<callbacks, fanOut, cycles>> /\ records' \subseteq records
  BY DEF RunLoop, BeginRun, Call, runtimeVars, D!CallNext, D!EnterBucket,
         D!LeaveBucket, D!EndRun, D!BeginRun, D!schedulerVars
<1>3. now' \in D!Times
  BY DEF RunLoop, BeginRun, Call, CycleInv, D!CallNext, D!EnterBucket,
         D!LeaveBucket, D!EndRun, D!BeginRun
<1>4. control' = "callback" => executing'.cycle \in Cycles
  <2>1. CASE \E key \in records : Call(key)
    BY <2>1 DEF Call, CycleInv
  <2>2. CASE \/ \E t \in D!Times : D!EnterBucket(t)
             \/ D!LeaveBucket \/ D!EndRun \/ BeginRun
    BY <2>2 DEF D!EnterBucket, D!LeaveBucket, D!EndRun, BeginRun, D!BeginRun
  <2> QED
    BY <2>1, <2>2 DEF RunLoop
<1>5. CycleInv'
  BY <1>2, <1>3, <1>4 DEF CycleInv, IsFanOutEvent, D!Times
<1> QED
  BY <1>1, <1>5

\* What ExecuteTransmission and the cycle have established when a transmission
\* succeeds.
LEMMA EmittedSignals ==
  ASSUME CycleInv, Executing("TxStart"), MayTransmit(executing.request),
         NEW emission \in Emissions(EncodeRequest(executing.request)),
         IsEmissionOf(EncodeRequest(executing.request), emission),
         NEW responses \in ResponseVectors(transmissionIds.next,
                                           Range(executing.request.candidates)),
         \A n \in Range(executing.request.candidates) :
           IsResponseTo(transmissionIds.next, n, responses[n]),
         NEW signals,
         signals = {ReceivedSignal(emission, responses[n]) :
                      n \in Range(executing.request.candidates)},
         EndsInCycle(emission, signals)
  PROVE  \A s \in signals :
           /\ s.from \in D!Times /\ s.until \in D!Times
           /\ now <= s.from /\ s.from < s.until
           /\ s.until <= CloseTime[executing.cycle]
           /\ s.transmission = transmissionIds.next
           /\ s.packet = executing.request.packet
           /\ s.receiver \in Range(executing.request.candidates)
<1> DEFINE request == executing.request
           close == CloseTime[executing.cycle]
<1>1. executing.cycle \in Cycles /\ now \in D!Times
  BY DEF Executing, CycleInv
<1>2. close \in Nat /\ close <= MaxTime
  BY <1>1, CloseTimeIsTime
<1>3. emission.startedAt = now /\ emission.packet = request.packet
      /\ emission.transmission = transmissionIds.next
  BY DEF MayTransmit, IsEmissionOf, EncodeRequest
<1>4. emission.duration \in Nat /\ emission.duration > 0
  BY LifecycleAssumption DEF Emissions, IsEmission, EndsInCycle
<1> SUFFICES ASSUME NEW n \in Range(request.candidates)
             PROVE  LET s == ReceivedSignal(emission, responses[n])
                    IN  /\ s.from \in D!Times /\ s.until \in D!Times
                        /\ now <= s.from /\ s.from < s.until
                        /\ s.until <= close
                        /\ s.transmission = transmissionIds.next
                        /\ s.packet = request.packet
                        /\ s.receiver \in Range(request.candidates)
  OBVIOUS
<1> DEFINE s == ReceivedSignal(emission, responses[n])
<1>5. s # NoSignal /\ s.until <= close
  BY DEF EndsInCycle
<1>6. PICK r \in Responses : responses[n].delay = r.delay
                             /\ responses[n].excess = r.excess
  BY DEF ResponseVectors, ChannelResponses
<1>7. responses[n].delay \in Nat /\ LatestExcessDelay(responses[n]) \in Nat
  BY <1>6, LifecycleAssumption DEF IsResponse, LatestExcessDelay
<1>8. /\ s.transmission = emission.transmission /\ s.packet = emission.packet
      /\ s.receiver = responses[n].receiver
  BY <1>5 DEF ReceivedSignal
<1>9. responses[n].receiver = n
  BY DEF IsResponseTo
<1> HIDE DEF close
<1>10. /\ s.from \in D!Times /\ s.until \in D!Times
       /\ s.from < s.until /\ emission.startedAt <= s.from
  BY <1>1, <1>2, <1>3, <1>4, <1>5, <1>7, SignalInCycle
<1> QED
  BY <1>3, <1>5, <1>8, <1>9, <1>10

LEMMA TransmitStep ==
  ASSUME CycleInv, Transmit
  PROVE  KernelStep /\ CycleInv'
<1>1. cycles' = cycles
  BY DEF Transmit
<1>2. CASE Returns(FALSE)
  BY <1>1, <1>2, CycleOfReturn, KernelOfReturn
<1>3. ASSUME ~Returns(FALSE)
      PROVE  \E signals :
               /\ \A s \in signals : s.from \in D!Times /\ s.until \in D!Times
               /\ fanOut' = FanOut(signals)
               /\ executing' = [kind |-> "FanOut", cycle |-> executing.cycle]
               /\ UNCHANGED <<kernelVars, callbacks>>
  <2> DEFINE request == executing.request
             receivers == Range(request.candidates)
  <2>1. PICK emission \in Emissions(EncodeRequest(request)) :
          /\ IsEmissionOf(EncodeRequest(request), emission)
          /\ \E responses \in ResponseVectors(transmissionIds.next, receivers) :
               /\ \A n \in receivers :
                    IsResponseTo(transmissionIds.next, n, responses[n])
               /\ Emit(request, emission, responses)
    BY <1>3 DEF Transmit, Fail, EncodeRequest
  <2>2. PICK responses \in ResponseVectors(transmissionIds.next, receivers) :
               /\ \A n \in receivers :
                    IsResponseTo(transmissionIds.next, n, responses[n])
               /\ Emit(request, emission, responses)
    BY <2>1
  <2> DEFINE signals == {ReceivedSignal(emission, responses[n]) :
                           n \in receivers}
  <2>3. /\ EndsInCycle(emission, signals)
        /\ fanOut' = FanOut(signals)
        /\ executing' = [kind |-> "FanOut", cycle |-> executing.cycle]
        /\ UNCHANGED <<kernelVars, callbacks>>
    BY <1>3, <2>2 DEF Emit
  <2>4. Executing("TxStart") /\ MayTransmit(request)
    BY DEF Transmit
  <2>5. \A s \in signals : s.from \in D!Times /\ s.until \in D!Times
    BY <2>1, <2>2, <2>3, <2>4, EmittedSignals
  <2> QED
    BY <2>3, <2>5
<1>4. CASE ~Returns(FALSE)
  <2>1. PICK signals :
          /\ \A s \in signals : s.from \in D!Times /\ s.until \in D!Times
          /\ fanOut' = FanOut(signals)
          /\ executing' = [kind |-> "FanOut", cycle |-> executing.cycle]
          /\ UNCHANGED <<kernelVars, callbacks>>
    BY <1>3, <1>4
  <2>2. executing.cycle \in Cycles
    BY DEF Transmit, Executing, CycleInv
  <2>3. \A e \in fanOut' : IsFanOutEvent(e)
    BY <2>1, <2>2 DEF FanOut, Arrival, Finalize, IsFanOutEvent,
                      D!kSignalArrival, D!kSessionFinalize
  <2>4. now' = now /\ control' = control /\ records' = records
    BY <2>1 DEF kernelVars
  <2>5. CycleInv'
    BY <1>1, <2>1, <2>2, <2>3, <2>4 DEF CycleInv, IsFanOutEvent, D!Times
  <2> QED
    BY <2>1, <2>5, KernelVars DEF KernelStep
<1> QED
  BY <1>2, <1>4

LEMMA ScheduleFanOutStep ==
  ASSUME CycleInv, ScheduleFanOut
  PROVE  KernelStep /\ CycleInv'
<1>1. cycles' = cycles
  BY DEF ScheduleFanOut, runtimeVars
<1>2. CASE Returns(FALSE) \/ Returns(TRUE)
  BY <1>1, <1>2, CycleOfReturn, KernelOfReturn
<1>3. CASE \E e \in fanOut : /\ Schedule(e)
                             /\ fanOut' = fanOut \ {e}
                             /\ UNCHANGED executing
  <2>1. PICK e \in fanOut : /\ Schedule(e)
                            /\ fanOut' = fanOut \ {e}
                            /\ UNCHANGED executing
    BY <1>3
  <2>2. IsFanOutEvent(e)
    BY DEF CycleInv
  <2>3. KernelStep
    BY <2>1, <2>2, KernelOfSchedule DEF IsFanOutEvent
  <2>4. CycleInv'
    BY <1>1, <2>1, <2>2, CallbacksOfSchedule
       DEF CycleInv, IsFanOutEvent, D!Times
  <2> QED
    BY <2>3, <2>4
<1> QED
  BY <1>2, <1>3 DEF ScheduleFanOut

\* Every other handler is one return of its callback.
LEMMA HandlerReturns ==
  ASSUME \/ RefuseTransmission \/ HandleSignalArrival
         \/ HandleSessionFinalize \/ HandleCycleClose \/ ChangeVelocity
  PROVE  (\E ok \in BOOLEAN : Returns(ok)) /\ DOMAIN cycles' = DOMAIN cycles
<1>1. CASE RefuseTransmission
  BY <1>1 DEF RefuseTransmission, runtimeVars
<1>2. CASE HandleSignalArrival
  <2>1. (now = executing.signal.from /\ MayInsert(ledger, executing.signal))
          \in BOOLEAN
    OBVIOUS
  <2> QED
    BY <1>2, <2>1 DEF HandleSignalArrival
<1>3. CASE HandleSessionFinalize
  BY <1>3 DEF HandleSessionFinalize
<1>4. CASE HandleCycleClose
  BY <1>4 DEF HandleCycleClose
<1>5. CASE ChangeVelocity
  <2>1. (ProjectNodeState(Working, executing.node,
                          executing.effectiveAt) # NoState) \in BOOLEAN
    OBVIOUS
  <2> QED
    BY <1>5, <2>1 DEF ChangeVelocity
<1> QED
  BY <1>1, <1>2, <1>3, <1>4, <1>5

LEMMA HandlerStep ==
  ASSUME CycleInv,
         \/ RefuseTransmission \/ HandleSignalArrival
         \/ HandleSessionFinalize \/ HandleCycleClose \/ ChangeVelocity
  PROVE  KernelStep /\ CycleInv'
BY HandlerReturns, CycleOfReturn, KernelOfReturn

LEMMA NextStep ==
  ASSUME CycleInv, [Next]_vars
  PROVE  KernelStep /\ CycleInv'
<1>1. CASE UNCHANGED vars
  <2>1. UNCHANGED <<kernelVars, callbacks, executing, fanOut, cycles>>
    BY <1>1 DEF vars, runtimeVars
  <2>2. CycleInv'
    BY <2>1 DEF CycleInv, IsFanOutEvent, D!Times, kernelVars
  <2> QED
    BY <2>1, <2>2, KernelVars DEF KernelStep
<1>2. CASE Next
  BY <1>2, OpenCycleStep, HostSchedulesStep, RunLoopStep, TransmitStep,
     ScheduleFanOutStep, HandlerStep DEF Next, Handlers
<1> QED
  BY <1>1, <1>2

\* The runtime uses the dispatcher as the dispatcher may be used: every
\* behaviour of the cycles is one of EventDispatcher, so what is true of a
\* dispatcher whose callbacks may fail is true of the one in this system.
THEOREM RunsOnDispatcher == Spec => D!Spec
<1>1. Init => D!Init
  BY DEF Init
<1>2. CycleInv /\ [Next]_vars => [D!Next]_(D!vars) /\ CycleInv'
  BY NextStep DEF KernelStep
<1> QED
  BY InitCycle, <1>1, <1>2, PTL DEF Spec, D!Spec

(***************************************************************************)
(* The invariant of EventDispatcherProofs, for the dispatcher in here.     *)
(***************************************************************************)
Kernel == INSTANCE EventDispatcherProofs WITH
            PhaseInputs <- {e.phase : e \in HostEvents}
                             \cup {10, 20}, MayFail <- TRUE

LEMMA KernelBounds ==
  /\ MaxTime \in Nat /\ FirstSequence \in Nat /\ MaxSequence \in Nat
  /\ FirstSequence <= MaxSequence /\ MaxRuns \in Nat
  /\ {e.phase : e \in HostEvents} \cup {10, 20} \subseteq Nat
  /\ TRUE \in BOOLEAN
BY LifecycleAssumption

LEMMA SameKernelInit == D!Init => Kernel!Init
BY DEF D!Init, Kernel!Init, D!Times, Kernel!Times, D!NoTime, Kernel!NoTime,
       D!NoPhase, Kernel!NoPhase

LEMMA SameKernelStep == KernelStep => [Kernel!Next]_(Kernel!vars)
<1>1. D!EventPhase = Kernel!EventPhase /\ D!Times = Kernel!Times
      /\ D!NoPhase = Kernel!NoPhase /\ D!NoTime = Kernel!NoTime
  BY DEF D!EventPhase, Kernel!EventPhase, D!Times, Kernel!Times, D!NoPhase,
         Kernel!NoPhase, D!NoTime, Kernel!NoTime,
         D!kSessionFinalize, Kernel!kSessionFinalize, D!kSignalArrival,
         Kernel!kSignalArrival, D!kInputReady, Kernel!kInputReady,
         D!kRuntimeDecision, Kernel!kRuntimeDecision, D!kTxStart,
         Kernel!kTxStart, D!kCycleClose, Kernel!kCycleClose
<1>2. ASSUME NEW t \in D!Times,
             NEW phase \in {e.phase : e \in HostEvents} \cup {10, 20},
             D!ScheduleAt(t, phase)
      PROVE  Kernel!ScheduleAt(t, phase)
  <2>1. D!PhaseFloor(t) = Kernel!PhaseFloor(t)
    BY <1>1 DEF D!PhaseFloor, Kernel!PhaseFloor
  <2>2. D!NextKey(t, phase) = Kernel!NextKey(t, phase)
    BY DEF D!NextKey, Kernel!NextKey
  <2>3. Kernel!MayScheduleAt(t, phase) /\ Kernel!AllocateSequence
    BY <1>1, <1>2, <2>1
       DEF D!ScheduleAt, D!MayScheduleAt, Kernel!MayScheduleAt,
           D!AllocateSequence, Kernel!AllocateSequence
  <2>4. Kernel!Insert(Kernel!NextKey(t, phase))
    BY <1>2, <2>2
       DEF D!ScheduleAt, D!Insert, Kernel!Insert, D!GatewayScheduleAt,
           Kernel!GatewayScheduleAt
  <2> QED
    BY <1>2, <2>2, <2>3, <2>4
       DEF D!ScheduleAt, Kernel!ScheduleAt, D!loopVars, Kernel!loopVars
<1>3. ASSUME NEW key, D!CallNext(key)
      PROVE  Kernel!CallNext(key)
  <2>1. \A k, l : D!Queue!Precedes(k, l) <=> Kernel!Queue!Precedes(k, l)
    BY DEF D!Queue!Precedes, Kernel!Queue!Precedes
  <2>2. \A t : D!RecordsAt(t) = Kernel!RecordsAt(t)
    BY DEF D!RecordsAt, Kernel!RecordsAt
  <2> QED
    BY <1>3, <2>1, <2>2 DEF D!CallNext, Kernel!CallNext
<1>4. D!BeginRun => Kernel!BeginRun
  BY DEF D!BeginRun, Kernel!BeginRun, D!schedulerVars, Kernel!schedulerVars
<1>5. ASSUME NEW t, D!EnterBucket(t)
      PROVE  Kernel!EnterBucket(t)
  BY <1>1, <1>5 DEF D!EnterBucket, Kernel!EnterBucket
<1>6. D!LeaveBucket => Kernel!LeaveBucket
  BY <1>1 DEF D!LeaveBucket, Kernel!LeaveBucket, D!RecordsAt, Kernel!RecordsAt
<1>7. D!EndRun => Kernel!EndRun
  BY <1>1 DEF D!EndRun, Kernel!EndRun, D!schedulerVars, Kernel!schedulerVars,
         D!loopVars, Kernel!loopVars
<1>8. ASSUME NEW ok, D!CallbackReturns(ok)
      PROVE  Kernel!CallbackReturns(ok)
  BY <1>8 DEF D!CallbackReturns, Kernel!CallbackReturns,
         D!schedulerVars, Kernel!schedulerVars
<1>9. D!Next => Kernel!Next
  BY <1>1, <1>2, <1>3, <1>4, <1>5, <1>6, <1>7, <1>8
     DEF D!Next, Kernel!Next, D!Schedule, Kernel!Schedule, D!RunLoop,
         Kernel!RunLoop
<1>10. UNCHANGED D!vars => UNCHANGED Kernel!vars
  BY DEF D!vars, Kernel!vars, D!schedulerVars, Kernel!schedulerVars,
         D!loopVars, Kernel!loopVars
<1> QED
  BY <1>9, <1>10 DEF KernelStep

\* The invariant the dispatcher is proved from.
THEOREM KernelInvariant == Spec => []Kernel!IInv
<1>1. Init => Kernel!IInv
  BY SameKernelInit, Kernel!InitInv, KernelBounds DEF Init
<1>2. Kernel!IInv /\ [Kernel!Next]_(Kernel!vars) => Kernel!IInv'
  BY Kernel!NextInv, KernelBounds
<1>3. CycleInv /\ Kernel!IInv /\ [Next]_vars => CycleInv' /\ Kernel!IInv'
  BY <1>2, NextStep, SameKernelStep
<1> QED
  BY InitCycle, <1>1, <1>3, PTL DEF Spec
===============================================================================

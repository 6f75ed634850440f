---------------------------- MODULE SignalLifecycle ----------------------------
(***************************************************************************)
(* Planning cycles of P0, one after the other: the callbacks the program   *)
(* gives the kernel's EventDispatcher and the runtime they call.           *)
(* CycleSignalRuntime, with TransmissionExecutor, InFlightSignalLedger,    *)
(* ReceiverProcessor, ReceiverWindowBuilder, ReceptionResultAccumulator,   *)
(* CommunicationIdAllocator, CycleWorkingState and CommitService, wired as *)
(* ns3_signal_lifecycle_integration_test.cpp wires them.                   *)
(*                                                                         *)
(* A TxStart callback transmits, then schedules two events per receiver,   *)
(* one call of ScheduleAt at a time; every other callback is one handler.  *)
(* The providers (Tx PHY, channel, noise, Rx PHY) are interfaces: each     *)
(* answers with any of the values its contract allows, its own query's or  *)
(* another's, or fails.                                                    *)
(***************************************************************************)
EXTENDS Signals, SignalRegistries, WorldStateStore, TLC

CONSTANTS
  MaxTime, FirstSequence, MaxSequence, MaxRuns,   \* see EventDispatcher
  HostEvents,       \* [time, phase, callback] the program may schedule, once
  StartTime, CloseTime,   \* PlanningCycleId -> when the cycle starts, closes
  InitialNodes,     \* node -> its state in the first snapshot
  Transmitters, Receivers,          \* nodes with can_transmit, can_receive
  Durations, Bands, Responses,      \* what Encode and the channel may answer
  Misrouted,        \* the identities of queries whose answers may come back
                    \* for other queries
  ProvidersMayFail,                 \* whether a provider may fail
  FirstTransmissionId, FirstReceptionId, MaxId,
  NoCallback        \* no callback is on the stack

Cycles == DOMAIN StartTime

ASSUME LifecycleAssumption ==
  /\ MaxTime \in Nat /\ Cycles \subseteq Nat
  /\ StartTime \in [Cycles -> 0 .. MaxTime]
  /\ CloseTime \in [Cycles -> 0 .. MaxTime]
  /\ MaxTime <= MaxCount
  /\ FirstSequence \in Nat /\ MaxSequence \in Nat
  /\ FirstSequence <= MaxSequence /\ MaxRuns \in Nat
  /\ \A e \in HostEvents :
       /\ e.time \in 0 .. MaxTime /\ e.phase \in Nat
       /\ e.callback.kind \in {"TxStart", "ChangeVelocity", "CycleClose"}
       /\ e.callback.kind = "CycleClose" => e.phase = 90
  /\ \A r \in Responses : IsResponse(r) /\ LatestExcessDelay(r) \in Nat
  /\ \A d \in Durations, b \in Bands : IsEmission(d, b)
  /\ Transmitters \cup Receivers \subseteq DOMAIN InitialNodes
  /\ Receivers \subseteq Nat
  /\ MaxId \in Nat
  /\ FirstTransmissionId \in 0 .. MaxId /\ FirstReceptionId \in 0 .. MaxId
  /\ ProvidersMayFail \in BOOLEAN

ASSUME MotionAssumption ==
  /\ InitialNodes \in [DOMAIN InitialNodes -> NodeState]
  /\ NoState \notin NodeState
  /\ \A e \in HostEvents :
       e.callback.kind = "ChangeVelocity" =>
         e.callback.velocity \in Int /\ e.callback.effectiveAt \in Counts

VARIABLES
  \* EventDispatcher, the gateway and ns-3.
  control, now, armed, stopped, nextSequence, sequenceExhausted, dispatchTime,
  currentPhase, lastDispatchTime, lastPhaseAtTime, executionError, buckets,
  records, runs, accepted, dispatched,
  callbacks,        \* sequence -> the callback of the EventRecord
  executing,        \* the callback on the stack
  fanOut,           \* the events a TxStart callback has yet to schedule
  \* The runtime.
  transmissionIds, receptionIds,    \* the counters of the id allocator
  cycles,           \* PlanningCycleId -> [working, expectedVersion] of the
                    \* cycles that were opened: CycleWorkingState and the
                    \* version its CycleSignalRuntime expects
  committed,        \* the cycles whose committed_ is set
  ledger,           \* signals_ of InFlightSignalLedger
  results,          \* sessions_ of ReceptionResultAccumulator
  sent              \* history: every TransmissionSession that HandleTxStart
                    \* returned, with its cycle and request

D == INSTANCE EventDispatcher WITH
       PhaseInputs <- {e.phase : e \in HostEvents}
                        \cup {10, 20}, MayFail <- TRUE

kernelVars  == <<control, now, armed, stopped, nextSequence,
                 sequenceExhausted, dispatchTime, currentPhase,
                 lastDispatchTime, lastPhaseAtTime, executionError, buckets,
                 records, runs, accepted, dispatched>>
storeVars   == <<currentSnapshot, lastCommittedCycle, committed>>
radioVars   == <<transmissionIds, sent>>
receiveVars == <<receptionIds, ledger, results>>
runtimeVars == <<storeVars, radioVars, receiveVars, cycles>>
vars        == <<kernelVars, callbacks, executing, fanOut, runtimeVars>>

Init ==
  /\ D!Init
  /\ callbacks = [s \in {} |-> NoCallback]
  /\ executing = NoCallback
  /\ fanOut = {}
  /\ transmissionIds = [next |-> FirstTransmissionId, exhausted |-> FALSE]
  /\ receptionIds = [next |-> FirstReceptionId, exhausted |-> FALSE]
  /\ currentSnapshot = [version |-> 0, committedAt |-> 0,
                        nodes |-> InitialNodes]
  /\ lastCommittedCycle = NoCycle
  /\ cycles = [c \in {} |-> NoCallback]
  /\ committed = {}
  /\ ledger = <<>>
  /\ results = <<>>
  /\ sent = {}

(***************************************************************************)
(* The program and the kernel.                                             *)
(***************************************************************************)

\* A function with one more element in its domain.
Extended(f, x, y) ==
  [z \in DOMAIN f \cup {x} |-> IF z = x THEN y ELSE f[z]]

\* A callback is the payload of the record that ScheduleAt inserts.
Schedule(e) ==
  /\ D!ScheduleAt(e.time, e.phase)
  /\ callbacks' = Extended(callbacks, nextSequence, e.callback)

\* Mutant: every cycle expects the version of the first.
NewCycleStale(c) ==
  [working |-> [base |-> currentSnapshot, cycleId |-> c,
                startedAt |-> StartTime[c], overlays |-> [n \in {} |-> NoState]],
   expectedVersion |-> 0]

\* CycleWorkingState::Create and the constructor of CycleSignalRuntime.
NewCycle(c) ==
  [working |-> [base |-> currentSnapshot, cycleId |-> c,
                startedAt |-> StartTime[c], overlays |-> [n \in {} |-> NoState]],
   expectedVersion |-> currentSnapshot.version]

\* The program opens a cycle when the one before it is committed.  Ledger,
\* results, ids and dispatcher are handed on.
OpenCycle(c) ==
  /\ control = "host"
  /\ c \notin DOMAIN cycles
  /\ DOMAIN cycles = committed
  /\ StartTime[c] >= currentSnapshot.committedAt
  /\ cycles' = Extended(cycles, c, NewCycle(c))
  /\ UNCHANGED <<kernelVars, callbacks, executing, fanOut, storeVars,
                 radioVars, receiveVars>>

HostSchedules(e) ==
  /\ control = "host"
  /\ e.callback.cycle \in DOMAIN cycles
  /\ e.callback \notin Range(callbacks)
  /\ Schedule(e)
  /\ UNCHANGED <<executing, fanOut, runtimeVars>>

Call(key) ==
  /\ D!CallNext(key)
  /\ executing' = callbacks[key.sequence]
  /\ UNCHANGED <<callbacks, fanOut, runtimeVars>>

RunLoop ==
  \/ \E key \in records : Call(key)
  \/ /\ \/ \E t \in D!Times : D!EnterBucket(t)
        \/ D!LeaveBucket
        \/ D!EndRun
     /\ UNCHANGED <<callbacks, executing, fanOut, runtimeVars>>

BeginRun ==
  /\ D!BeginRun
  /\ UNCHANGED <<callbacks, executing, fanOut, runtimeVars>>

Executing(kind) == control = "callback" /\ executing.kind = kind

Working == cycles[executing.cycle].working

\* Mutant: the error of a ScheduleAt does not unwind the loop it ends.
ReturnsInLoop(ok) ==
  /\ D!CallbackReturns(ok)
  /\ executing' = NoCallback
  /\ UNCHANGED <<callbacks, fanOut>>

\* The callback returns; its error, if any, stops the simulator.
Returns(ok) ==
  /\ D!CallbackReturns(ok)
  /\ executing' = NoCallback
  /\ fanOut' = {}
  /\ UNCHANGED callbacks

(***************************************************************************)
(* TxStart: CycleSignalRuntime::HandleTxStart and the fan-out to events.   *)
(***************************************************************************)

\* Mutant: the counter does not advance.
AllocatedAgain(ids) == [ids EXCEPT !.exhausted = ids.next = MaxId]

\* Mutant: exhaustion is not remembered.
AllocatedForEver(ids) == [ids EXCEPT !.next = IF @ = MaxId THEN @ ELSE @ + 1]

\* The last id is handed out once, then allocation fails.
Allocated(ids) ==
  IF ids.next = MaxId THEN [ids EXCEPT !.exhausted = TRUE]
                      ELSE [ids EXCEPT !.next = @ + 1]

\* What ExecuteTransmission checks before it takes a TransmissionId.
\* candidates is the sequence the caller passes, in any order.
MayTransmit(request) ==
  /\ now = request.startedAt
  /\ request.startedAt >= request.eligibleAt
  /\ IsInjective(request.candidates)
  /\ request.sender \notin Range(request.candidates)
  /\ request.sender \in Transmitters
  /\ Range(request.candidates) \subseteq Receivers
  /\ \A n \in Range(request.candidates) \cup {request.sender} :
       ProjectNodeState(Working, n, request.startedAt) # NoState

EncodeRequest(request) ==
  [transmission |-> transmissionIds.next, packet |-> request.packet,
   sender |-> request.sender, startedAt |-> request.startedAt]

\* What ITxPhy::Encode may answer, and IChannelFieldProvider::Query.
Emissions(query) ==
  {[transmission |-> i.transmission, packet |-> i.packet, sender |-> i.sender,
    startedAt |-> i.startedAt, duration |-> d, band |-> b] :
      i \in {query} \cup Misrouted, d \in Durations, b \in Bands}

ChannelResponses(transmission, receiver) ==
  {[transmission |-> i.transmission, receiver |-> i.receiver,
    delay |-> r.delay, excess |-> r.excess] :
      i \in {[transmission |-> transmission, receiver |-> receiver]}
              \cup Misrouted,
      r \in Responses}

\* One answer to each query of a transmission.
ResponseVectors(transmission, receivers) ==
  {f \in [receivers -> UNION {ChannelResponses(transmission, n) :
                                n \in receivers}] :
     \A n \in receivers : f[n] \in ChannelResponses(transmission, n)}

\* Mutant: only the sender has to finish before the close.
EmissionEndsInCycle(emission, signals) ==
  LET endedAt == CheckedAddCounts(emission.startedAt, emission.duration)
  IN  /\ emission.duration > 0
      /\ endedAt # NoCount
      /\ NoSignal \notin signals
      /\ endedAt <= CloseTime[executing.cycle]

\* An emission the executor and then the cycle accept.
EndsInCycle(emission, signals) ==
  LET endedAt == CheckedAddCounts(emission.startedAt, emission.duration)
  IN  /\ emission.duration > 0
      /\ endedAt # NoCount
      /\ NoSignal \notin signals
      /\ endedAt <= CloseTime[executing.cycle]
      /\ \A s \in signals : s.until <= CloseTime[executing.cycle]

Arrival(s) == [time |-> s.from, phase |-> D!kSignalArrival,
               callback |-> [kind |-> "SignalArrival", signal |-> s,
                             cycle |-> executing.cycle]]

Finalize(s) == [time |-> s.until, phase |-> D!kSessionFinalize,
                callback |-> [kind |-> "SessionFinalize", signal |-> s,
                              cycle |-> executing.cycle]]

\* Mutant: signals that end together share one SessionFinalize.
FanOutSharingEnds(signals) ==
  UNION {{Arrival(s), Finalize(CHOOSE t \in signals : t.until = s.until)} :
           s \in signals}

\* The events of a transmission: every signal arrives and ends.
FanOut(signals) == UNION {{Arrival(s), Finalize(s)} : s \in signals}

\* The order in which they are scheduled: receivers in the order of their
\* NodeIds, and the arrival of a signal (phase 20) before its end (phase 10).
ScheduledBefore(e, f) ==
  LET m == e.callback.signal.receiver
      n == f.callback.signal.receiver
  IN  m < n \/ (m = n /\ e.phase > f.phase)

\* Refused before a TransmissionId is taken.
RefuseTransmission ==
  /\ Executing("TxStart")
  /\ ~MayTransmit(executing.request) \/ transmissionIds.exhausted
  /\ Returns(FALSE)
  /\ UNCHANGED runtimeVars

\* The providers answer the queries they were asked: ExecuteTransmission
\* returns the signals of the transmission.
Emit(request, emission, responses) ==
  LET signals == {ReceivedSignal(emission, responses[n]) :
                    n \in Range(request.candidates)}
  IN  \/ /\ EndsInCycle(emission, signals)
         /\ sent' = sent \cup {[transmission |-> transmissionIds.next,
                                cycle |-> executing.cycle,
                                request |-> request, signals |-> signals]}
         /\ fanOut' = FanOut(signals)
         /\ executing' = [kind |-> "FanOut", cycle |-> executing.cycle]
         /\ UNCHANGED <<kernelVars, callbacks>>
      \/ /\ ~EndsInCycle(emission, signals)
         /\ Returns(FALSE)
         /\ UNCHANGED sent

Fail == Returns(FALSE) /\ UNCHANGED sent

\* The TransmissionId is spent whether or not the attempt succeeds.
Transmit ==
  /\ Executing("TxStart")
  /\ MayTransmit(executing.request)
  /\ ~transmissionIds.exhausted
  /\ transmissionIds' = Allocated(transmissionIds)
  /\ LET request   == executing.request
         query     == EncodeRequest(request)
         receivers == Range(request.candidates)
     IN  \/ ProvidersMayFail /\ Fail
         \/ \E emission \in Emissions(query) :
              \/ ~IsEmissionOf(query, emission) /\ Fail
              \/ /\ IsEmissionOf(query, emission)
                 /\ \E responses \in
                         ResponseVectors(query.transmission, receivers) :
                      LET answered == \A n \in receivers :
                            IsResponseTo(query.transmission, n, responses[n])
                      IN  \/ ~answered /\ Fail
                          \/ answered /\ Emit(request, emission, responses)
  /\ UNCHANGED <<storeVars, receiveVars, cycles>>

\* The loop of the callback; the first ScheduleAt that fails ends it.
ScheduleFanOut ==
  /\ Executing("FanOut")
  /\ \/ \E e \in fanOut :
          /\ \A f \in fanOut \ {e} : ScheduledBefore(e, f)
          /\ \/ /\ Schedule(e)
                /\ fanOut' = fanOut \ {e}
                /\ UNCHANGED executing
             \/ /\ ~D!MayScheduleAt(e.time, e.phase)
                /\ Returns(FALSE)
     \/ /\ fanOut = {}
        /\ Returns(TRUE)
  /\ UNCHANGED runtimeVars

(***************************************************************************)
(* Arrival and reception.                                                  *)
(***************************************************************************)
HandleSignalArrival ==
  /\ Executing("SignalArrival")
  /\ LET s  == executing.signal
         ok == now = s.from /\ MayInsert(ledger, s)
     IN  /\ ledger' = IF ok THEN Inserted(ledger, s) ELSE ledger
         /\ Returns(ok)
  /\ UNCHANGED <<storeVars, radioVars, receptionIds, results, cycles>>

\* ReceiverWindowBuilder::Build: what overlaps the desired signal.  Its order
\* is that of ReceiverWindow::Create, which the members determine.
WindowOf(desired) ==
  {s \in Range(SignalsForReceiver(ledger, desired.receiver)) :
     /\ s.transmission # desired.transmission
     /\ HasP0SignalOverlap(desired, s)}

\* ProcessReceivedSignal, apart from what the providers answer.
MayReceive(s) ==
  /\ now = s.until
  /\ ContainsSignal(ledger, s)
  /\ IsReceiverWindow(s, WindowOf(s))
  /\ ProjectNodeState(Working, s.receiver, s.from) # NoState
  /\ MayQueryNoise(s)
  /\ ~receptionIds.exhausted

\* What INoiseFieldProvider::Query may answer, and IRxPhy::Decode.
Observations(s) ==
  {[NoiseQuery(s) EXCEPT !.receiver = i.receiver] :
     i \in {[receiver |-> s.receiver]} \cup Misrouted}

DecodeResults(s) ==
  {[transmission |-> i.transmission, packet |-> i.packet,
    receiver |-> i.receiver] : i \in {s} \cup Misrouted}

Session(s, noise, decoded) ==
  [reception |-> receptionIds.next, signal |-> s, window |-> WindowOf(s),
   noise |-> noise, decoded |-> decoded]

\* Mutant: the ReceptionId is taken before the decoder has answered.
FinalizeTakingIdFirst ==
  /\ Executing("SessionFinalize")
  /\ receptionIds' = Allocated(receptionIds)
  /\ LET s == executing.signal
     IN  \/ /\ MayReceive(s)
            /\ results' = Appended(results, Session(s, NoiseQuery(s), s))
            /\ Returns(TRUE)
         \/ /\ ~MayReceive(s) \/ ProvidersMayFail
            /\ Returns(FALSE)
            /\ UNCHANGED results
  /\ UNCHANGED <<storeVars, radioVars, ledger, cycles>>

\* The providers may fail, and fail the check of their identity.
HandleSessionFinalize ==
  /\ Executing("SessionFinalize")
  /\ LET s == executing.signal
     IN  \/ /\ MayReceive(s)
            /\ \E noise \in Observations(s), decoded \in DecodeResults(s) :
                 /\ IsObservationOf(s, noise)
                 /\ IsDecodeResultOf(s, decoded)
                 /\ results' = Appended(results, Session(s, noise, decoded))
            /\ receptionIds' = Allocated(receptionIds)
            /\ Returns(TRUE)
         \/ /\ \/ ~MayReceive(s)
               \/ ProvidersMayFail
               \/ \E noise \in Observations(s) : ~IsObservationOf(s, noise)
               \/ \E decoded \in DecodeResults(s) :
                    ~IsDecodeResultOf(s, decoded)
            /\ Returns(FALSE)
            /\ UNCHANGED <<receptionIds, results>>
  /\ UNCHANGED <<storeVars, radioVars, ledger, cycles>>

(***************************************************************************)
(* The end of the cycle, and a runtime decision that steers a node.        *)
(***************************************************************************)
Delta == FinalizeDeltaSet(Working, now)

MayClose(c) ==
  /\ c \notin committed
  /\ now = CloseTime[c]
  /\ ReadyForCycleClose(ledger, now)
  /\ MayFinalize(Working, now)
  /\ MayCommit(cycles[c].expectedVersion, Delta)

\* Mutant: a close that fails clears the ledger.
CloseClearingLedger ==
  /\ Executing("CycleClose")
  /\ ledger' = <<>>
  /\ \/ /\ MayClose(executing.cycle)
        /\ CommitSnapshot(Delta)
        /\ committed' = committed \cup {executing.cycle}
        /\ Returns(TRUE)
     \/ /\ ~MayClose(executing.cycle)
        /\ Returns(FALSE)
        /\ UNCHANGED storeVars
  /\ UNCHANGED <<radioVars, receptionIds, results, cycles>>

\* Mutant: a close that fails reports success.
CloseSilently ==
  /\ Executing("CycleClose")
  /\ \/ /\ MayClose(executing.cycle)
        /\ CommitSnapshot(Delta)
        /\ ledger' = <<>>
        /\ committed' = committed \cup {executing.cycle}
     \/ /\ ~MayClose(executing.cycle)
        /\ UNCHANGED <<storeVars, ledger>>
  /\ Returns(TRUE)
  /\ UNCHANGED <<radioVars, receptionIds, results, cycles>>

\* Mutant: the ledger is not cleared.
CloseKeepingLedger ==
  /\ Executing("CycleClose")
  /\ \/ /\ MayClose(executing.cycle)
        /\ CommitSnapshot(Delta)
        /\ committed' = committed \cup {executing.cycle}
        /\ Returns(TRUE)
     \/ /\ ~MayClose(executing.cycle)
        /\ Returns(FALSE)
        /\ UNCHANGED storeVars
  /\ UNCHANGED <<radioVars, receiveVars, cycles>>

HandleCycleClose ==
  /\ Executing("CycleClose")
  /\ \/ /\ MayClose(executing.cycle)
        /\ CommitSnapshot(Delta)
        /\ ledger' = <<>>
        /\ committed' = committed \cup {executing.cycle}
        /\ Returns(TRUE)
     \/ /\ ~MayClose(executing.cycle)
        /\ Returns(FALSE)
        /\ UNCHANGED <<storeVars, ledger>>
  /\ UNCHANGED <<radioVars, receptionIds, results, cycles>>

\* The change may take effect at another time than its event.
ChangeVelocity ==
  /\ Executing("ChangeVelocity")
  /\ LET c  == executing.cycle
         ok == ProjectNodeState(Working, executing.node,
                                executing.effectiveAt) # NoState
     IN  /\ cycles' = IF ok
                        THEN [cycles EXCEPT ![c].working =
                                UpdateVelocity(@, executing.node,
                                               executing.velocity,
                                               executing.effectiveAt)]
                        ELSE cycles
         /\ Returns(ok)
  /\ UNCHANGED <<storeVars, radioVars, receiveVars>>

Handlers ==
  \/ RefuseTransmission
  \/ Transmit
  \/ ScheduleFanOut
  \/ HandleSignalArrival
  \/ HandleSessionFinalize
  \/ HandleCycleClose
  \/ ChangeVelocity

Next ==
  \/ \E c \in Cycles : OpenCycle(c)
  \/ \E e \in HostEvents : HostSchedules(e)
  \/ BeginRun
  \/ RunLoop
  \/ Handlers

Spec == Init /\ [][Next]_vars

\* The thread that called Run keeps running, and the callbacks return.
FairSpec == Spec /\ WF_vars(RunLoop) /\ WF_vars(Handlers)

\* The program does not call Run again after a Run that failed.
HeedsErrors == [][BeginRun => ~executionError]_vars

(***************************************************************************)
(* Properties.                                                             *)
(***************************************************************************)
Emitted == UNION {t.signals : t \in sent}

Receptions == Range(results)

Heard == {[signal |-> r.signal, met |-> r.window] : r \in Receptions}

Settled == UNION {t.signals : t \in {u \in sent : u.cycle \in committed}}

History == INSTANCE ReceptionHistory WITH
             sent <- Emitted, received <- Heard, settled <- Settled

Signal == [transmission : FirstTransmissionId .. MaxId,
           packet : {t.request.packet : t \in sent}, receiver : Receivers,
           from : Counts, until : Counts, lower : Int, upper : Int]

\* The type of every variable; a callback is on the stack only while the
\* dispatcher waits for it to return, and only a TxStart that is scheduling its
\* events has any left.
TypeOK ==
  /\ D!TypeOK
  /\ DOMAIN callbacks = {k.sequence : k \in accepted}
  /\ executing # NoCallback => control = "callback"
  /\ fanOut # {} => Executing("FanOut")
  /\ transmissionIds \in [next : FirstTransmissionId .. MaxId,
                          exhausted : BOOLEAN]
  /\ receptionIds \in [next : FirstReceptionId .. MaxId, exhausted : BOOLEAN]
  /\ Emitted \subseteq Signal
  /\ Range(ledger) \subseteq Emitted
  /\ \A r \in Receptions : r.signal \in Emitted /\ r.window \subseteq Emitted
  /\ committed \subseteq DOMAIN cycles /\ DOMAIN cycles \subseteq Cycles

\* "All real overlaps have arrived" when a reception is computed: its window
\* holds every signal that ever meets the desired one at the receiver, those
\* emitted later included, and no signal that only touches it.
WindowComplete ==
  \A r \in Receptions : r.window = History!Met(r.signal)

\* Closed cycle: when a cycle is committed, every signal that was emitted in
\* it has been received.
ClosedCycle ==
  \A t \in sent : t.cycle \in committed =>
    \A s \in t.signals : \E r \in Receptions : r.signal = s

\* The registries do not remember the order of the calls: signals are listed
\* by receiver, arrival and transmission, sessions by arrival, receiver and
\* transmission, whatever the order in which they came.
CanonicalOrder ==
  LET Earlier(a, b) == \E k \in 1 .. 3 :
        a[k] < b[k] /\ \A j \in 1 .. k - 1 : a[j] = b[j]
      ledgerKey(s)  == <<s.receiver, s.from, s.transmission>>
      sessionKey(s) == <<s.from, s.receiver, s.transmission>>
  IN  /\ \A i, j \in DOMAIN ledger : i < j =>
           Earlier(ledgerKey(ledger[i]), ledgerKey(ledger[j]))
      /\ \A i, j \in DOMAIN results : i < j =>
           Earlier(sessionKey(results[i].signal), sessionKey(results[j].signal))

\* A signal has at most one reception, and only a reception that succeeds
\* takes a ReceptionId: the ids in use have no gap and no duplicate.
ReceptionsNumbered ==
  LET last == IF receptionIds.exhausted THEN MaxId ELSE receptionIds.next - 1
  IN  /\ {r.reception : r \in Receptions} = FirstReceptionId .. last
      /\ \A q, r \in Receptions :
           q.signal = r.signal \/ q.reception = r.reception => q = r
      /\ Len(results) = Cardinality(Receptions)

\* However the providers mix up their answers, a session is about one
\* transmission from end to end: the packet it decoded is the packet that
\* transmission was asked to send, the receiver one of its candidates, and
\* the noise that of the receiver while the signal lasted.
SessionsOfWhatWasSent ==
  \A r \in Receptions : \E t \in sent :
    /\ r.signal \in t.signals
    /\ r.decoded.transmission = t.transmission
    /\ r.decoded.packet = t.request.packet
    /\ r.decoded.receiver \in Range(t.request.candidates)
    /\ r.noise.receiver = r.decoded.receiver
    /\ t.request.startedAt <= r.noise.from
    /\ \A s \in r.window : s.receiver = r.decoded.receiver

\* The ledger is owned by one cycle: it is empty when a cycle opens, and no
\* signal of a committed cycle ever comes back into it.
LedgerOfOpenCycle ==
  \A s \in Range(ledger) : \E t \in sent :
    s \in t.signals /\ t.cycle \notin committed

\* A signal that was emitted is accepted on arrival and can be decoded when
\* it ends: the receiving side fails only when a provider does.
ReceiverNeverFails ==
  [][control = "callback" /\ control' = "bucket"
       /\ executing.kind \in {"SignalArrival", "SessionFinalize"}
     => ~executionError']_vars

\* The same but for one kind of signal, which the contracts of the Tx PHY and
\* of ReceivedSignal admit, the ledger takes and the noise query refuses: the
\* receiving side fails when the band of the signal that ends reaches below
\* zero, and never otherwise, whatever else is in the air.
ReceiverFailsOnlyBelowZero ==
  [][control = "callback" /\ control' = "bucket"
       /\ executing.kind \in {"SignalArrival", "SessionFinalize"}
     => (executionError' <=> /\ executing.kind = "SessionFinalize"
                             /\ executing.signal.lower < 0)]_vars

\* A CycleClose on time commits its cycle, the second cycle as well as the
\* first: no version, time, id or signal that an earlier cycle or a Run that
\* failed left behind stands in its way.
EveryCycleCommits ==
  [][control = "callback" /\ control' = "bucket"
       /\ executing.kind = "CycleClose" /\ now = CloseTime[executing.cycle]
     => executing.cycle \in committed']_vars

\* The ledger loses signals only to a commit: a close that fails neither
\* clears nor truncates it.
LedgerKeptUntilCommit ==
  [][Range(ledger) \subseteq Range(ledger') \/ committed' # committed]_vars

\* A commit ends the cycle: nothing of it is received or recorded after it,
\* and it is not committed again, whatever is still scheduled and however
\* often Run is called.
CommitIsFinal ==
  [][\A c \in committed :
       /\ executing # NoCallback /\ executing.cycle = c
            => UNCHANGED <<currentSnapshot, ledger, results>>
       /\ c \in committed']_vars

\* The cycles keep the promises of ReceptionHistory.
ImplementsReceptions == History!Spec

\* Every signal that is emitted is received, or the Run reports an error.
EventuallyReceived ==
  \A n \in Receivers, id \in FirstTransmissionId .. MaxId :
    (\E s \in Emitted : s.receiver = n /\ s.transmission = id)
      ~> \/ executionError
         \/ \E r \in Receptions : /\ r.signal.receiver = n
                                  /\ r.signal.transmission = id

\* A Run that has the CycleClose of a cycle to dispatch on time commits the
\* cycle or reports an error.
CycleEnds ==
  \A c \in Cycles :
    /\ control # "host"
    /\ \E k \in records : /\ callbacks[k.sequence].kind = "CycleClose"
                         /\ callbacks[k.sequence].cycle = c
    ~> c \in committed \/ executionError
===============================================================================

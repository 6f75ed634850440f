--------------------------- MODULE EventDispatcher ---------------------------
(***************************************************************************)
(* The kernel: kernel/internal/event_dispatcher.hpp on top of              *)
(* kernel/internal/ns3_kernel_gateway.hpp and the ns-3 simulator.          *)
(*                                                                         *)
(* The dispatcher keeps the accepted events in one bucket per timestamp    *)
(* and asks ns-3 for one callback per bucket.  ns-3 calls DispatchTime for *)
(* the least armed time; DispatchTime pops the records of the bucket in    *)
(* key order and calls their callbacks, which may schedule more events or  *)
(* fail.  The first failure stops the simulator.                           *)
(*                                                                         *)
(* The process is sequential: control says which frame is on top of the    *)
(* stack, and a callback is as many steps as the calls it makes.           *)
(***************************************************************************)
EXTENDS Integers, FiniteSets

CONSTANTS
  MaxTime,       \* last timestamp a caller asks for; bounds the model
  FirstSequence, \* the first_sequence argument of the constructor
  MaxSequence,   \* numeric_limits<uint64_t>::max(), scaled down
  MaxRuns,       \* how often the program calls Run; bounds the model
  PhaseInputs,   \* values a caller passes as phase, valid or not
  MayFail        \* whether a callback may return an error

kSessionFinalize == 10
kSignalArrival   == 20
kInputReady      == 30
kRuntimeDecision == 40
kTxStart         == 50
kCycleClose      == 90

EventPhase == {kSessionFinalize, kSignalArrival, kInputReady,
               kRuntimeDecision, kTxStart, kCycleClose}

NoTime  == -1    \* an empty optional<SimTime>
NoPhase == 0     \* an empty optional<EventPhase>: no phase is at or below it

Times    == 0 .. MaxTime
EventKey == [time : Times, phase : EventPhase,
             sequence : FirstSequence .. MaxSequence]

ASSUME BoundsAssumption ==
  /\ MaxTime \in Nat
  /\ FirstSequence \in Nat
  /\ MaxSequence \in Nat
  /\ FirstSequence <= MaxSequence
  /\ MaxRuns \in Nat
  /\ PhaseInputs \subseteq Nat
  /\ MayFail \in BOOLEAN

VARIABLES
  control,           \* "host", "simulator", "bucket" or "callback"
  now,               \* ns3::Simulator::Now()
  armed,             \* how many ns-3 events wait at each time
  stopped,           \* the m_stop flag of the simulator
  nextSequence, sequenceExhausted,
  dispatchTime,      \* dispatching_ and dispatch_time_, set and reset as one
  currentPhase,
  lastDispatchTime, lastPhaseAtTime,
  executionError,
  buckets,           \* the times that have a TimeBucket
  records,           \* the EventRecords of all buckets
  runs,              \* Run calls so far; counts for MaxRuns only
  accepted,          \* history: every key ScheduleAt returned
  dispatched         \* history: every key whose callback was called

schedulerVars == <<nextSequence, sequenceExhausted, buckets, records, armed,
                   accepted>>
loopVars      == <<dispatchTime, currentPhase, lastDispatchTime,
                   lastPhaseAtTime, executionError>>
vars == <<control, now, stopped, schedulerVars, loopVars, runs, dispatched>>

Queue == INSTANCE EventQueue WITH Keys <- EventKey, pending <- records

Init ==
  /\ control = "host"
  /\ now = 0
  /\ armed = [t \in Times |-> 0]
  /\ stopped = FALSE
  /\ nextSequence = FirstSequence
  /\ sequenceExhausted = FALSE
  /\ dispatchTime = NoTime
  /\ currentPhase = NoPhase
  /\ lastDispatchTime = NoTime
  /\ lastPhaseAtTime = NoPhase
  /\ executionError = FALSE
  /\ buckets = {}
  /\ records = {}
  /\ runs = 0
  /\ accepted = {}
  /\ dispatched = {}

(***************************************************************************)
(* Scheduling.                                                             *)
(***************************************************************************)
RecordsAt(t) == {r \in records : r.time = t}

\* Mutant: what was dispatched at a time before is forgotten.
CurrentPhaseFloor(t) == IF dispatchTime = t THEN currentPhase ELSE NoPhase

\* The phase a new event at this time must be later than.
PhaseFloor(t) ==
  CASE dispatchTime = t -> currentPhase
    [] dispatchTime # t /\ lastDispatchTime = t -> lastPhaseAtTime
    [] OTHER -> NoPhase

\* Mutant: the last sequence number is handed out again and again.
AllocateSequenceForEver ==
  /\ sequenceExhausted' = FALSE
  /\ nextSequence' = IF nextSequence = MaxSequence THEN nextSequence
                                                   ELSE nextSequence + 1

\* The last sequence number is handed out once, then allocation fails.
AllocateSequence ==
  /\ ~sequenceExhausted
  /\ sequenceExhausted' = (nextSequence = MaxSequence)
  /\ nextSequence' = IF nextSequence = MaxSequence THEN nextSequence
                                                   ELSE nextSequence + 1

\* Mutant: the phase is not validated.
MayScheduleAnyPhase(t, phase) ==
  /\ t >= now
  /\ phase > PhaseFloor(t)
  /\ ~sequenceExhausted

\* The checks of ScheduleAt; a call that fails one of them changes nothing, nor
\* does one without a callback or with a clock that cannot be converted.
MayScheduleAt(t, phase) ==
  /\ phase \in EventPhase
  /\ t >= now
  /\ phase > PhaseFloor(t)
  /\ ~sequenceExhausted

\* Mutant: every record arms ns-3.
InsertAndArm(key) ==
  /\ records' = records \cup {key}
  /\ buckets' = buckets \cup {key.time}
  /\ armed' = [armed EXCEPT ![key.time] = @ + 1]

\* Mutant: one armed time is taken to be enough for all buckets.
InsertArmingOnce(key) ==
  /\ records' = records \cup {key}
  /\ buckets' = buckets \cup {key.time}
  /\ armed' = IF buckets # {} THEN armed
                              ELSE [armed EXCEPT ![key.time] = @ + 1]

\* The gateway schedules one more DispatchTime for this time, which is not in
\* the past, so that the delay it computes is in range.
GatewayScheduleAt(t) == [armed EXCEPT ![t] = @ + 1]

\* The first record of a time arms ns-3, the others join its bucket.
Insert(key) ==
  /\ records' = records \cup {key}
  /\ buckets' = buckets \cup {key.time}
  /\ armed' = IF key.time \in buckets THEN armed
                                      ELSE GatewayScheduleAt(key.time)

NextKey(t, phase) == [time |-> t, phase |-> phase, sequence |-> nextSequence]

ScheduleAt(t, phase) ==
  /\ control \in {"host", "callback"}
  /\ MayScheduleAt(t, phase)
  /\ AllocateSequence
  /\ Insert(NextKey(t, phase))
  /\ accepted' = accepted \cup {NextKey(t, phase)}
  /\ UNCHANGED <<control, now, stopped, loopVars, runs, dispatched>>

(***************************************************************************)
(* The run loop: Run, the ns-3 event loop and DispatchTime.                *)
(***************************************************************************)
BeginRun ==
  /\ control = "host"
  /\ runs < MaxRuns
  /\ runs' = runs + 1
  /\ control' = "simulator"
  /\ executionError' = FALSE
  /\ stopped' = FALSE
  /\ UNCHANGED <<now, schedulerVars, dispatchTime, currentPhase,
                 lastDispatchTime, lastPhaseAtTime, dispatched>>

\* ns-3 removes its earliest event, moves the clock and calls DispatchTime.
EnterBucket(t) ==
  /\ control = "simulator"
  /\ ~stopped
  /\ armed[t] > 0
  /\ \A u \in Times : armed[u] > 0 => t <= u
  /\ armed' = [armed EXCEPT ![t] = @ - 1]
  /\ now' = t
  /\ control' = "bucket"
  /\ dispatchTime' = t
  /\ currentPhase' = NoPhase
  /\ UNCHANGED <<stopped, nextSequence, sequenceExhausted, buckets, records,
                 accepted, lastDispatchTime, lastPhaseAtTime, executionError,
                 runs, dispatched>>

\* Mutant: any record of the bucket is popped.
CallAny(key) ==
  /\ control = "bucket"
  /\ ~executionError
  /\ key \in RecordsAt(dispatchTime)
  /\ records' = records \ {key}
  /\ currentPhase' = key.phase
  /\ lastDispatchTime' = dispatchTime
  /\ lastPhaseAtTime' = key.phase
  /\ control' = "callback"
  /\ dispatched' = dispatched \cup {key}
  /\ UNCHANGED <<now, stopped, nextSequence, sequenceExhausted, buckets,
                 armed, accepted, dispatchTime, executionError, runs>>

\* One iteration of the loop of DispatchTime, up to the call of the callback.
CallNext(key) ==
  /\ control = "bucket"
  /\ ~executionError
  /\ key \in RecordsAt(dispatchTime)
  /\ \A r \in RecordsAt(dispatchTime) \ {key} : Queue!Precedes(key, r)
  /\ records' = records \ {key}
  /\ currentPhase' = key.phase
  /\ lastDispatchTime' = dispatchTime
  /\ lastPhaseAtTime' = key.phase
  /\ control' = "callback"
  /\ dispatched' = dispatched \cup {key}
  /\ UNCHANGED <<now, stopped, nextSequence, sequenceExhausted, buckets,
                 armed, accepted, dispatchTime, executionError, runs>>

\* Mutant: an error is kept, but the simulator is not stopped.
CallbackReturnsRunningOn(ok) ==
  /\ control = "callback"
  /\ ok \/ MayFail
  /\ control' = "bucket"
  /\ executionError' = ~ok
  /\ UNCHANGED <<now, stopped, schedulerVars, dispatchTime, currentPhase,
                 lastDispatchTime, lastPhaseAtTime, runs, dispatched>>

\* The end of the iteration: an error is kept and stops the simulator.
CallbackReturns(ok) ==
  /\ control = "callback"
  /\ ok \/ MayFail
  /\ control' = "bucket"
  /\ executionError' = ~ok
  /\ stopped' = (stopped \/ ~ok)
  /\ UNCHANGED <<now, schedulerVars, dispatchTime, currentPhase,
                 lastDispatchTime, lastPhaseAtTime, runs, dispatched>>

\* Mutant: the bucket is erased after any of its records.
LeaveBucketEarly ==
  /\ control = "bucket"
  /\ buckets' = buckets \ {dispatchTime}
  /\ control' = "simulator"
  /\ dispatchTime' = NoTime
  /\ currentPhase' = NoPhase
  /\ UNCHANGED <<now, stopped, nextSequence, sequenceExhausted, records,
                 armed, accepted, lastDispatchTime, lastPhaseAtTime,
                 executionError, runs, dispatched>>

\* Mutant: a failed bucket is erased with the records it still holds.
LeaveBucketDropping ==
  /\ control = "bucket"
  /\ executionError \/ RecordsAt(dispatchTime) = {}
  /\ records' = records \ RecordsAt(dispatchTime)
  /\ buckets' = buckets \ {dispatchTime}
  /\ control' = "simulator"
  /\ dispatchTime' = NoTime
  /\ currentPhase' = NoPhase
  /\ UNCHANGED <<now, stopped, nextSequence, sequenceExhausted,
                 armed, accepted, lastDispatchTime, lastPhaseAtTime,
                 executionError, runs, dispatched>>

\* The loop ends: a drained bucket is erased, a failed one is left behind.
LeaveBucket ==
  /\ control = "bucket"
  /\ \/ /\ executionError
        /\ UNCHANGED buckets
     \/ /\ ~executionError
        /\ RecordsAt(dispatchTime) = {}
        /\ buckets' = buckets \ {dispatchTime}
  /\ control' = "simulator"
  /\ dispatchTime' = NoTime
  /\ currentPhase' = NoPhase
  /\ UNCHANGED <<now, stopped, nextSequence, sequenceExhausted, records,
                 armed, accepted, lastDispatchTime, lastPhaseAtTime,
                 executionError, runs, dispatched>>

\* Simulator::Run returns; Run reports executionError to the program.
EndRun ==
  /\ control = "simulator"
  /\ stopped \/ \A t \in Times : armed[t] = 0
  /\ control' = "host"
  /\ UNCHANGED <<now, stopped, schedulerVars, loopVars, runs, dispatched>>

Schedule == \E t \in Times, phase \in PhaseInputs : ScheduleAt(t, phase)

RunLoop ==
  \/ \E t \in Times : EnterBucket(t)
  \/ \E key \in records : CallNext(key)
  \/ LeaveBucket
  \/ EndRun

Next ==
  \/ Schedule
  \/ BeginRun
  \/ RunLoop
  \/ \E ok \in BOOLEAN : CallbackReturns(ok)

Spec == Init /\ [][Next]_vars

\* The thread that called Run keeps running, and every callback returns.
Fairness ==
  /\ WF_vars(RunLoop)
  /\ WF_vars(\E ok \in BOOLEAN : CallbackReturns(ok))

FairSpec == Spec /\ Fairness

\* A program that takes the error of a Run seriously: it does not call Run
\* again after a Run that failed.
HeedsErrors == [][BeginRun => ~executionError]_vars

(***************************************************************************)
(* Properties.                                                             *)
(***************************************************************************)

\* The type of every variable.
TypeOK ==
  /\ control \in {"host", "simulator", "bucket", "callback"}
  /\ now \in Times
  /\ armed \in [Times -> Nat]
  /\ stopped \in BOOLEAN
  /\ nextSequence \in FirstSequence .. MaxSequence
  /\ sequenceExhausted \in BOOLEAN
  /\ dispatchTime \in Times \cup {NoTime}
  /\ currentPhase \in EventPhase \cup {NoPhase}
  /\ lastDispatchTime \in Times \cup {NoTime}
  /\ lastPhaseAtTime \in EventPhase \cup {NoPhase}
  /\ executionError \in BOOLEAN
  /\ buckets \subseteq Times
  /\ records \subseteq EventKey
  /\ runs \in Nat
  /\ accepted \subseteq EventKey
  /\ dispatched \subseteq EventKey

\* "A timestamp is dispatched by a single ns-3 callback": ns-3 holds exactly
\* one event for every bucket that is not being dispatched right now, and
\* none for any other time.  Two of them would enter DispatchTime for a
\* bucket that is gone; none would leave its events to wait for ever.
OneCallbackPerBucket ==
  \A t \in Times :
    armed[t] = IF t \in buckets /\ t # dispatchTime THEN 1 ELSE 0

\* The part of it that outlives a failed callback and a second Run: a time
\* the clock has not reached has its one ns-3 event if it has a bucket.
FutureBucketsArmed ==
  \A t \in Times : t > now => armed[t] = IF t \in buckets THEN 1 ELSE 0

\* An accepted event waits in the bucket of its time until its callback is
\* called, whatever fails around it; it is never dropped nor called twice.
NoEventLost ==
  /\ accepted = records \cup dispatched
  /\ records \cap dispatched = {}
  /\ \A r \in records : r.time \in buckets

\* Two accepted events never share an EventSequenceId, the last id of the
\* type included: ties between equal times and phases are always broken.
UniqueSequences ==
  \A k, l \in accepted : k.sequence = l.sequence => k = l

\* Over the life of the dispatcher, over several Run calls and failed
\* callbacks, callbacks are called in increasing order of EventKey.
DispatchInKeyOrder ==
  [][\A k \in dispatched' \ dispatched, d \in dispatched :
       Queue!Precedes(d, k)]_vars

\* What Run leaves behind it says, and can take up again: when it returns while
\* an event is pending beyond the last one that was dispatched, it reports an
\* error, and that event still has its ns-3 event for the next Run.  An error
\* that is not recorded, or a simulator that runs on after one and empties its
\* event list, would lose the rest of the cycle without a trace.
RunReportsWhatItLeaves ==
  [][control = "simulator" /\ control' = "host" =>
       \A r \in records :
         r.time > lastDispatchTime => executionError /\ armed[r.time] = 1]_vars

\* When Run returns without an error, no event is pending.
RunDrains ==
  [][control = "simulator" /\ control' = "host" /\ ~executionError
       => records = {}]_vars

\* An event that ScheduleAt accepts has a callback coming: ns-3 holds an
\* event for its time, or that time is being dispatched.
AcceptedIsScheduled ==
  [][\A k \in accepted' \ accepted :
       armed'[k.time] > 0 \/ dispatchTime' = k.time]_vars

\* The dispatcher implements the abstract queue of EventQueue.
ImplementsQueue == Queue!Spec

\* An event that is pending while Run is in progress is dispatched, and
\* so is every event its callbacks add, as long as there are ids: a Run
\* never starves an event.
EventuallyDispatched ==
  \A s \in FirstSequence .. MaxSequence :
    (\E r \in records : r.sequence = s) /\ control # "host"
      ~> \E d \in dispatched : d.sequence = s
===============================================================================

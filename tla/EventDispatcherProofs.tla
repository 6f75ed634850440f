------------------------ MODULE EventDispatcherProofs ------------------------
(***************************************************************************)
(* Machine-checked proofs about EventDispatcher, for every bound, every    *)
(* set of phases and any number of Run calls and failing callbacks.        *)
(***************************************************************************)
EXTENDS EventDispatcher, TLAPS

(***************************************************************************)
(* The inductive invariant.  Its parts say where control is, how far the   *)
(* clock and the dispatched events have come, and what ns-3 holds.         *)
(***************************************************************************)

\* Where control is decides which of DispatchTime's members are set.
ControlInv ==
  /\ stopped = executionError
  /\ control \in {"host", "simulator"} => dispatchTime = NoTime
  /\ control \in {"bucket", "callback"} =>
       dispatchTime = now /\ now \in buckets
  /\ control = "callback" =>
       /\ ~executionError
       /\ lastDispatchTime = now
       /\ currentPhase = lastPhaseAtTime
  /\ ~MayFail => ~executionError

\* Every id handed out is below the next one until the ids are exhausted.
SequenceInv ==
  /\ UniqueSequences
  /\ ~sequenceExhausted => \A k \in accepted : k.sequence < nextSequence

\* Nothing was dispatched beyond the clock and the last phase at its time,
\* and what still waits for a time that has not passed comes after it.
ClockInv ==
  /\ \A d \in dispatched :
       \/ d.time < now
       \/ d.time = now /\ lastDispatchTime = now /\ d.phase <= lastPhaseAtTime
  /\ \A r \in records, d \in dispatched :
       r.time >= now => Queue!Precedes(d, r)

\* ns-3 holds at most one event per time, for a bucket that is to come.
ArmedInv ==
  \A t \in Times :
    /\ armed[t] \in {0, 1}
    /\ armed[t] = 1 => t \in buckets /\ t >= now /\ t # dispatchTime
    /\ t > now /\ t \in buckets => armed[t] = 1

IInv ==
  /\ TypeOK
  /\ NoEventLost
  /\ ControlInv
  /\ SequenceInv
  /\ ClockInv
  /\ ArmedInv

(***************************************************************************)
(* Every action preserves the inductive invariant.                         *)
(***************************************************************************)

LEMMA InitInv == Init => IInv
<1> SUFFICES ASSUME Init PROVE IInv
  OBVIOUS
<1>1. TypeOK
  <2>1. now \in Times /\ armed \in [Times -> Nat]
    BY BoundsAssumption DEF Init, Times
  <2>2. nextSequence \in FirstSequence .. MaxSequence
    BY BoundsAssumption DEF Init
  <2> QED
    BY <2>1, <2>2 DEF Init, TypeOK
<1>2. NoEventLost
  BY DEF Init, NoEventLost
<1>3. ControlInv
  BY DEF Init, ControlInv
<1>4. SequenceInv
  BY DEF Init, SequenceInv, UniqueSequences
<1>5. ClockInv
  BY DEF Init, ClockInv
<1>6. ArmedInv
  BY DEF Init, ArmedInv
<1> QED
  BY <1>1, <1>2, <1>3, <1>4, <1>5, <1>6 DEF IInv

\* What is accepted comes after all that was dispatched: at a later time, or at
\* the same time in a later phase.
LEMMA ScheduledToCome ==
  ASSUME IInv, NEW t \in Times, NEW phase \in PhaseInputs,
         ScheduleAt(t, phase), NEW d \in dispatched
  PROVE  d.time < t \/ (d.time = t /\ d.phase < phase)
<1>1. t >= now /\ phase \in EventPhase /\ phase > PhaseFloor(t)
  BY DEF ScheduleAt, MayScheduleAt
<1>2. /\ now \in Int /\ t \in Int /\ d.time \in Int /\ phase \in Int
      /\ d.phase \in Int /\ lastPhaseAtTime \in Int
  BY <1>1 DEF IInv, TypeOK, EventKey, Times, EventPhase, kSessionFinalize,
              kSignalArrival, kInputReady, kRuntimeDecision, kTxStart,
              kCycleClose, NoPhase
<1>3. CASE d.time < now
  BY <1>1, <1>2, <1>3
<1>4. CASE /\ d.time = now /\ lastDispatchTime = now
           /\ d.phase <= lastPhaseAtTime
  <2>1. CASE t = now
    <3>1. PhaseFloor(t) = lastPhaseAtTime
      BY <1>4, <2>1, BoundsAssumption
         DEF PhaseFloor, IInv, TypeOK, ControlInv, ScheduleAt, NoTime, Times
    <3> QED
      BY <1>1, <1>2, <1>4, <2>1, <3>1
  <2>2. CASE t > now
    BY <1>4, <2>2
  <2> QED
    BY <1>1, <1>2, <2>1, <2>2
<1> QED
  BY <1>3, <1>4 DEF IInv, ClockInv

LEMMA ScheduleAtInv ==
  ASSUME IInv, NEW t \in Times, NEW phase \in PhaseInputs,
         ScheduleAt(t, phase)
  PROVE  IInv'
<1> DEFINE key == NextKey(t, phase)
<1>1. /\ key.time = t /\ key.phase = phase /\ key.sequence = nextSequence
      /\ t >= now /\ phase \in EventPhase /\ phase > PhaseFloor(t)
      /\ ~sequenceExhausted
  BY DEF ScheduleAt, MayScheduleAt, NextKey
<1>2. /\ records' = records \cup {key}
      /\ accepted' = accepted \cup {key}
      /\ buckets' = buckets \cup {t}
      /\ armed' = IF t \in buckets THEN armed ELSE [armed EXCEPT ![t] = @ + 1]
  BY <1>1 DEF ScheduleAt, Insert, GatewayScheduleAt
<1>3. UNCHANGED <<control, now, stopped, dispatchTime, currentPhase,
                  lastDispatchTime, lastPhaseAtTime, executionError, runs,
                  dispatched>>
  BY DEF ScheduleAt, loopVars
<1>4. key \in EventKey
  BY <1>1, BoundsAssumption DEF IInv, TypeOK, EventKey, NextKey
<1>5. /\ sequenceExhausted' \in BOOLEAN
      /\ nextSequence' \in FirstSequence .. MaxSequence
      /\ nextSequence' >= nextSequence
      /\ ~sequenceExhausted' => nextSequence' = nextSequence + 1
  <2>1. /\ sequenceExhausted' \in BOOLEAN
        /\ ~sequenceExhausted' => nextSequence # MaxSequence
    BY Zenon DEF ScheduleAt, AllocateSequence
  <2>2. nextSequence' = IF nextSequence = MaxSequence THEN nextSequence
                                                      ELSE nextSequence + 1
    BY DEF ScheduleAt, AllocateSequence
  <2>3. nextSequence \in FirstSequence .. MaxSequence
    BY DEF IInv, TypeOK
  <2> QED
    BY <2>1, <2>2, <2>3, BoundsAssumption
<1>6. TypeOK'
  <2>1. armed' \in [Times -> Nat]
    BY <1>2 DEF IInv, TypeOK
  <2>2. buckets' \subseteq Times
    BY <1>2 DEF IInv, TypeOK
  <2>3. records' \subseteq EventKey /\ accepted' \subseteq EventKey
    BY <1>2, <1>4 DEF IInv, TypeOK
  <2>4. /\ control \in {"host", "simulator", "bucket", "callback"}
        /\ now \in Times /\ stopped \in BOOLEAN /\ executionError \in BOOLEAN
        /\ dispatchTime \in Times \cup {NoTime}
        /\ currentPhase \in EventPhase \cup {NoPhase}
        /\ lastDispatchTime \in Times \cup {NoTime}
        /\ lastPhaseAtTime \in EventPhase \cup {NoPhase}
        /\ runs \in Nat /\ dispatched \subseteq EventKey
    BY DEF IInv, TypeOK
  <2> QED
    BY <1>3, <1>5, <2>1, <2>2, <2>3, <2>4 DEF TypeOK
<1>7. \A k \in accepted : k.sequence < nextSequence
  BY <1>1 DEF IInv, SequenceInv
<1>8. key \notin accepted
  <2> SUFFICES ASSUME key \in accepted PROVE FALSE
    OBVIOUS
  <2> QED
    BY <1>1, <1>7 DEF IInv, TypeOK
<1>9. NoEventLost'
  BY <1>1, <1>2, <1>3, <1>8 DEF IInv, NoEventLost
<1>10. ControlInv'
  BY <1>2, <1>3 DEF IInv, ControlInv
<1>11. SequenceInv'
  BY <1>1, <1>2, <1>5, <1>7, BoundsAssumption
     DEF IInv, TypeOK, EventKey, SequenceInv, UniqueSequences
<1>12. \A d \in dispatched : Queue!Precedes(d, key)
  BY <1>1, ScheduledToCome DEF Queue!Precedes
<1>13. ClockInv'
  BY <1>1, <1>2, <1>3, <1>12 DEF IInv, ClockInv
<1>14. ArmedInv'
  BY <1>1, <1>2, <1>3 DEF IInv, TypeOK, ControlInv, ArmedInv, Times, NoTime
<1> QED
  BY <1>6, <1>9, <1>10, <1>11, <1>13, <1>14 DEF IInv

LEMMA BeginRunInv == IInv /\ BeginRun => IInv'
<1> SUFFICES ASSUME IInv, BeginRun PROVE IInv'
  OBVIOUS
<1> USE DEF BeginRun, schedulerVars
<1>1. TypeOK'
  <2>1. runs' \in Nat
    BY DEF IInv, TypeOK
  <2> QED
    BY <2>1 DEF IInv, TypeOK
<1>2. NoEventLost'
  BY DEF IInv, NoEventLost
<1>3. ControlInv'
  BY DEF IInv, ControlInv
<1>4. SequenceInv'
  BY DEF IInv, SequenceInv, UniqueSequences
<1>5. ClockInv'
  BY DEF IInv, ClockInv
<1>6. ArmedInv'
  BY DEF IInv, ArmedInv
<1> QED
  BY <1>1, <1>2, <1>3, <1>4, <1>5, <1>6 DEF IInv

\* The clock only moves forward.
LEMMA EnterBucketInv ==
  ASSUME IInv, NEW t \in Times, EnterBucket(t)
  PROVE  IInv'
<1> USE DEF EnterBucket
<1>1. TypeOK'
  <2>1. armed' \in [Times -> Nat]
    BY DEF IInv, TypeOK
  <2> QED
    BY <2>1 DEF IInv, TypeOK
<1>2. NoEventLost'
  BY DEF IInv, NoEventLost
<1>3. armed[t] = 1 /\ t \in buckets /\ t >= now /\ dispatchTime = NoTime
  BY DEF IInv, ArmedInv, ControlInv
<1>4. ControlInv'
  BY <1>3 DEF IInv, ControlInv
<1>5. SequenceInv'
  BY DEF IInv, SequenceInv, UniqueSequences
<1>7. ClockInv'
  <2>1. \A d \in dispatched :
          \/ d.time < t
          \/ d.time = t /\ lastDispatchTime = t /\ d.phase <= lastPhaseAtTime
    BY <1>3, BoundsAssumption DEF IInv, TypeOK, ClockInv, EventKey, Times
  <2>2. \A r \in records, d \in dispatched :
          r.time >= t => Queue!Precedes(d, r)
    BY <1>3, BoundsAssumption DEF IInv, TypeOK, ClockInv, EventKey, Times
  <2> QED
    BY <2>1, <2>2 DEF ClockInv
<1>8. ArmedInv'
  <2> SUFFICES ASSUME NEW u \in Times
               PROVE  /\ armed'[u] \in {0, 1}
                      /\ armed'[u] = 1 => u \in buckets /\ u >= t /\ u # t
                      /\ u > t /\ u \in buckets => armed'[u] = 1
    BY DEF ArmedInv
  <2>1. CASE u = t
    BY <1>3, <2>1 DEF IInv, TypeOK, Times
  <2>2. CASE u # t
    <3>1. armed'[u] = armed[u]
      BY <2>2 DEF IInv, TypeOK
    <3>2. armed[u] = 1 => u >= t
      BY DEF IInv, TypeOK, Times
    <3> QED
      BY <1>3, <2>2, <3>1, <3>2, BoundsAssumption
         DEF IInv, TypeOK, ArmedInv, Times, NoTime
  <2> QED
    BY <2>1, <2>2
<1> QED
  BY <1>1, <1>2, <1>4, <1>5, <1>7, <1>8 DEF IInv

\* What is called next follows all that was dispatched before it.
LEMMA CallNextOrder ==
  ASSUME IInv, NEW key \in records, CallNext(key)
  PROVE  /\ key \in EventKey /\ key.time = now
         /\ \A d \in dispatched : Queue!Precedes(d, key)
<1>1. key \in EventKey /\ key.time = now
  BY DEF CallNext, RecordsAt, IInv, TypeOK, ControlInv
<1> QED
  BY <1>1 DEF IInv, ClockInv, TypeOK, EventKey, Times

LEMMA CallNextInv ==
  ASSUME IInv, NEW key \in records, CallNext(key)
  PROVE  IInv'
<1> USE DEF CallNext
<1>1. key \in EventKey /\ key.time = now /\ dispatchTime = now
  BY CallNextOrder DEF IInv, ControlInv
<1>2. TypeOK'
  <2>1. currentPhase' \in EventPhase /\ lastPhaseAtTime' \in EventPhase
    BY <1>1 DEF EventKey
  <2>2. lastDispatchTime' \in Times
    BY <1>1 DEF IInv, TypeOK
  <2>3. records' \subseteq EventKey /\ dispatched' \subseteq EventKey
    BY <1>1 DEF IInv, TypeOK
  <2> QED
    BY <2>1, <2>2, <2>3 DEF IInv, TypeOK
<1>3. NoEventLost'
  BY DEF IInv, NoEventLost
<1>4. ControlInv'
  BY <1>1 DEF IInv, ControlInv
<1>5. SequenceInv'
  BY DEF IInv, SequenceInv, UniqueSequences
<1>6. \A d \in dispatched' :
        \/ d.time < now
        \/ d.time = now /\ d.phase <= key.phase
  <2> SUFFICES ASSUME NEW d \in dispatched
               PROVE  \/ d.time < now
                      \/ d.time = now /\ d.phase <= key.phase
    BY <1>1 DEF EventKey, EventPhase, kSessionFinalize, kSignalArrival,
                kInputReady, kRuntimeDecision, kTxStart, kCycleClose
  <2>1. Queue!Precedes(d, key) /\ d \in EventKey
    BY CallNextOrder DEF IInv, TypeOK
  <2> QED
    BY <1>1, <2>1 DEF EventKey, EventPhase, kSessionFinalize, kSignalArrival,
                      kInputReady, kRuntimeDecision, kTxStart, kCycleClose,
                      Queue!Precedes
<1>7. \A r \in records', d \in dispatched' :
        r.time >= now => Queue!Precedes(d, r)
  <2> SUFFICES ASSUME NEW r \in records \ {key}, r.time >= now
               PROVE  Queue!Precedes(key, r)
    BY DEF IInv, ClockInv
  <2>1. r.time \in Times /\ now \in Times
    BY DEF IInv, TypeOK, EventKey
  <2>2. CASE r.time = now
    BY <1>1, <2>2 DEF RecordsAt
  <2>3. CASE r.time > now
    BY <1>1, <2>3 DEF Queue!Precedes
  <2> QED
    BY <2>1, <2>2, <2>3 DEF Times
<1>8. ClockInv'
  BY <1>1, <1>6, <1>7 DEF IInv, ClockInv
<1>9. ArmedInv'
  BY DEF IInv, ArmedInv
<1> QED
  BY <1>2, <1>3, <1>4, <1>5, <1>8, <1>9 DEF IInv

LEMMA CallbackReturnsInv ==
  ASSUME IInv, NEW ok \in BOOLEAN, CallbackReturns(ok)
  PROVE  IInv'
<1> USE DEF CallbackReturns, schedulerVars
<1>1. executionError' \in BOOLEAN /\ stopped' = executionError'
  BY Zenon DEF IInv, ControlInv
<1>2. TypeOK'
  <2>1. control' = "bucket" /\ stopped' \in BOOLEAN
    BY <1>1
  <2> QED
    BY <1>1, <2>1 DEF IInv, TypeOK
<1>3. NoEventLost'
  BY DEF IInv, NoEventLost
<1>4. ~MayFail => ~executionError'
  BY Zenon
<1>5. ControlInv'
  BY <1>1, <1>4 DEF IInv, ControlInv
<1>6. SequenceInv'
  BY DEF IInv, SequenceInv, UniqueSequences
<1>7. ClockInv'
  BY DEF IInv, ClockInv
<1>8. ArmedInv'
  BY DEF IInv, ArmedInv
<1> QED
  BY <1>2, <1>3, <1>5, <1>6, <1>7, <1>8 DEF IInv

LEMMA LeaveBucketInv == IInv /\ LeaveBucket => IInv'
<1> SUFFICES ASSUME IInv, LeaveBucket PROVE IInv'
  OBVIOUS
<1> USE DEF LeaveBucket
<1>1. dispatchTime = now /\ now \in Times
  BY DEF IInv, TypeOK, ControlInv
<1>2. \/ executionError /\ buckets' = buckets
      \/ RecordsAt(now) = {} /\ buckets' = buckets \ {now}
  BY <1>1
<1>3. TypeOK'
  <2>1. buckets' \subseteq Times
    BY <1>2 DEF IInv, TypeOK
  <2> QED
    BY <2>1 DEF IInv, TypeOK
<1>4. NoEventLost'
  <2>1. \A r \in records : r.time \in buckets'
    BY <1>2 DEF IInv, NoEventLost, RecordsAt
  <2> QED
    BY <2>1 DEF IInv, NoEventLost
<1>5. ControlInv'
  BY DEF IInv, ControlInv
<1>6. SequenceInv'
  BY DEF IInv, SequenceInv, UniqueSequences
<1>7. ClockInv'
  BY DEF IInv, ClockInv
<1>8. ArmedInv'
  <2> SUFFICES ASSUME NEW t \in Times
               PROVE  /\ armed[t] \in {0, 1}
                      /\ armed[t] = 1 => /\ t \in buckets' /\ t >= now
                                         /\ t # NoTime
                      /\ t > now /\ t \in buckets' => armed[t] = 1
    BY DEF ArmedInv
  <2> QED
    BY <1>1, <1>2 DEF IInv, ArmedInv, Times, NoTime
<1> QED
  BY <1>3, <1>4, <1>5, <1>6, <1>7, <1>8 DEF IInv

LEMMA EndRunInv == IInv /\ EndRun => IInv'
<1> SUFFICES ASSUME IInv, EndRun PROVE IInv'
  OBVIOUS
<1> USE DEF EndRun, schedulerVars, loopVars
<1>1. TypeOK'
  BY DEF IInv, TypeOK
<1>2. NoEventLost' /\ SequenceInv' /\ ClockInv' /\ ArmedInv'
  BY DEF IInv, NoEventLost, SequenceInv, UniqueSequences, ClockInv, ArmedInv
<1>3. ControlInv'
  BY DEF IInv, ControlInv
<1> QED
  BY <1>1, <1>2, <1>3 DEF IInv

LEMMA StutterInv == IInv /\ UNCHANGED vars => IInv'
<1> SUFFICES ASSUME IInv, UNCHANGED vars PROVE IInv'
  OBVIOUS
<1> USE DEF vars, schedulerVars, loopVars
<1>1. TypeOK'
  BY DEF IInv, TypeOK
<1>2. NoEventLost' /\ SequenceInv' /\ ClockInv' /\ ArmedInv'
  BY DEF IInv, NoEventLost, SequenceInv, UniqueSequences, ClockInv, ArmedInv
<1>3. ControlInv'
  BY DEF IInv, ControlInv
<1> QED
  BY <1>1, <1>2, <1>3 DEF IInv

LEMMA NextInv == IInv /\ [Next]_vars => IInv'
<1> SUFFICES ASSUME IInv, [Next]_vars PROVE IInv'
  OBVIOUS
<1>1. CASE Schedule
  BY <1>1, ScheduleAtInv DEF Schedule
<1>2. CASE BeginRun
  BY <1>2, BeginRunInv
<1>3. CASE \E t \in Times : EnterBucket(t)
  BY <1>3, EnterBucketInv
<1>4. CASE \E key \in records : CallNext(key)
  BY <1>4, CallNextInv
<1>5. CASE \E ok \in BOOLEAN : CallbackReturns(ok)
  BY <1>5, CallbackReturnsInv
<1>6. CASE LeaveBucket
  BY <1>6, LeaveBucketInv
<1>7. CASE EndRun
  BY <1>7, EndRunInv
<1>8. CASE UNCHANGED vars
  BY <1>8, StutterInv
<1> QED
  BY <1>1, <1>2, <1>3, <1>4, <1>5, <1>6, <1>7, <1>8 DEF Next, RunLoop

LEMMA Inductive == Spec => []IInv
BY InitInv, NextInv, PTL DEF Spec

(***************************************************************************)
(* Safety of the dispatcher, callbacks failing or not.                     *)
(***************************************************************************)

\* Every variable keeps its type.
THEOREM TypeCorrect == Spec => []TypeOK
<1>1. IInv => TypeOK
  BY DEF IInv
<1> QED
  BY <1>1, Inductive, PTL

\* No accepted event is dropped, called twice or left without its bucket.
THEOREM NoEventLostTheorem == Spec => []NoEventLost
<1>1. IInv => NoEventLost
  BY DEF IInv
<1> QED
  BY <1>1, Inductive, PTL

\* EventSequenceIds are unique up to and including the largest one.
THEOREM UniqueSequencesTheorem == Spec => []UniqueSequences
<1>1. IInv => UniqueSequences
  BY DEF IInv, SequenceInv
<1> QED
  BY <1>1, Inductive, PTL

\* A time ahead of the clock has one ns-3 event if and only if it has a
\* bucket, also after failed runs.
THEOREM FutureBucketsArmedTheorem == Spec => []FutureBucketsArmed
<1>1. IInv => FutureBucketsArmed
  BY DEF IInv, TypeOK, ArmedInv, FutureBucketsArmed
<1> QED
  BY <1>1, Inductive, PTL

\* Callbacks are called in increasing order of EventKey, over any number of
\* Run calls and failures.
THEOREM DispatchInKeyOrderTheorem == Spec => DispatchInKeyOrder
<1> DEFINE Ordered == \A k \in dispatched' \ dispatched, d \in dispatched :
                        Queue!Precedes(d, k)
<1>1. IInv /\ [Next]_vars => [Ordered]_vars
  <2> SUFFICES ASSUME IInv, Next, NEW k \in dispatched' \ dispatched,
                      NEW d \in dispatched
               PROVE  Queue!Precedes(d, k)
    BY DEF vars
  <2>1. PICK key \in records : CallNext(key)
    BY DEF Next, RunLoop, Schedule, ScheduleAt, BeginRun, EnterBucket,
           CallbackReturns, LeaveBucket, EndRun
  <2>2. k = key
    BY <2>1 DEF CallNext
  <2> QED
    BY <2>1, <2>2, CallNextOrder
<1> QED
  BY <1>1, Inductive, PTL DEF Spec, DispatchInKeyOrder

\* No bucket beyond the last event that was dispatched is forgotten.  For that,
\* ns-3 calls DispatchTime only while there is something to dispatch, and the
\* simulator calls it only while there is no error, so that no call of it leaves
\* without having dispatched an event.
ResumeInv ==
  /\ \A t \in buckets :
       t > lastDispatchTime /\ t # dispatchTime => armed[t] = 1
  /\ \A t \in Times : armed[t] = 1 => RecordsAt(t) # {}
  /\ control = "bucket" /\ lastDispatchTime # now =>
       ~executionError /\ RecordsAt(now) # {}

LEMMA ScheduleAtResume ==
  ASSUME IInv, ResumeInv, NEW t \in Times, NEW phase \in PhaseInputs,
         ScheduleAt(t, phase)
  PROVE  ResumeInv'
<1> DEFINE key == NextKey(t, phase)
<1>1. /\ records' = records \cup {key} /\ key.time = t
      /\ buckets' = buckets \cup {t}
      /\ armed' = IF t \in buckets THEN armed ELSE [armed EXCEPT ![t] = @ + 1]
      /\ UNCHANGED <<control, now, lastDispatchTime, dispatchTime,
                     executionError>>
  BY DEF ScheduleAt, Insert, GatewayScheduleAt, NextKey, loopVars
<1>2. t \notin buckets => armed[t] = 0
  BY DEF IInv, ArmedInv
<1>3. armed \in [Times -> Nat] /\ buckets \subseteq Times
  BY DEF IInv, TypeOK
<1>4. \A u \in Times : u # t => armed'[u] = armed[u]
  BY <1>1, <1>3
<1>5. \A u \in Times : RecordsAt(u) \subseteq RecordsAt(u)'
  BY <1>1 DEF RecordsAt
<1>6. key \in RecordsAt(t)'
  BY <1>1 DEF RecordsAt
<1>7. now \in Times
  BY DEF IInv, TypeOK
<1>8. ASSUME NEW u \in buckets', u > lastDispatchTime, u # dispatchTime
      PROVE  armed'[u] = 1
  <2>1. CASE u \in buckets
    <3>1. armed[u] = 1
      BY <1>8, <2>1 DEF ResumeInv
    <3> QED
      BY <1>1, <1>3, <1>4, <2>1, <3>1
  <2>2. CASE u \notin buckets
    BY <1>1, <1>2, <1>3, <2>2
  <2> QED
    BY <2>1, <2>2
<1>9. ASSUME NEW u \in Times, armed'[u] = 1
      PROVE  RecordsAt(u)' # {}
  BY <1>4, <1>5, <1>6, <1>9 DEF ResumeInv
<1>10. control' = "bucket" /\ lastDispatchTime' # now' =>
         ~executionError' /\ RecordsAt(now)' # {}
  BY DEF ScheduleAt
<1> QED
  BY <1>1, <1>8, <1>9, <1>10 DEF ResumeInv

LEMMA EnterBucketResume ==
  ASSUME IInv, ResumeInv, NEW t \in Times, EnterBucket(t)
  PROVE  ResumeInv'
<1>1. /\ armed' = [armed EXCEPT ![t] = @ - 1] /\ now' = t /\ dispatchTime' = t
      /\ UNCHANGED <<buckets, records, lastDispatchTime, executionError>>
      /\ ~executionError
  BY DEF EnterBucket, IInv, ControlInv
<1>2. armed[t] = 1 /\ dispatchTime = NoTime
  BY DEF EnterBucket, IInv, ArmedInv, ControlInv
<1>3. armed \in [Times -> Nat] /\ buckets \subseteq Times
  BY DEF IInv, TypeOK
<1>4. armed'[t] = 0 /\ \A u \in Times : u # t => armed'[u] = armed[u]
  BY <1>1, <1>2, <1>3
<1>5. \A u : RecordsAt(u)' = RecordsAt(u)
  BY <1>1 DEF RecordsAt
<1>6. RecordsAt(t) # {}
  BY <1>2 DEF ResumeInv
<1>7. \A u \in buckets : u # NoTime
  BY <1>3 DEF Times, NoTime
<1> QED
  BY <1>1, <1>2, <1>3, <1>4, <1>5, <1>6, <1>7 DEF ResumeInv

LEMMA CallNextResume ==
  ASSUME IInv, ResumeInv, NEW key \in records, CallNext(key)
  PROVE  ResumeInv'
<1>1. /\ records' = records \ {key} /\ key.time = now /\ dispatchTime = now
      /\ lastDispatchTime' = now /\ control' = "callback"
      /\ UNCHANGED <<armed, buckets, now, dispatchTime>>
  BY DEF CallNext, RecordsAt, IInv, ControlInv
<1>2. \A t \in buckets : t > now => armed[t] = 1
  BY DEF IInv, TypeOK, ArmedInv
<1>3. \A t \in Times : armed[t] = 1 => t # now
  BY <1>1 DEF IInv, ArmedInv
<1>4. \A t : t # now => RecordsAt(t)' = RecordsAt(t)
  BY <1>1 DEF RecordsAt
<1> QED
  BY <1>1, <1>2, <1>3, <1>4 DEF ResumeInv

LEMMA LeaveBucketResume ==
  ASSUME IInv, ResumeInv, LeaveBucket
  PROVE  ResumeInv'
<1>1. /\ control = "bucket" /\ control' = "simulator" /\ dispatchTime = now
      /\ buckets' \subseteq buckets
      /\ executionError \/ RecordsAt(now) = {}
      /\ UNCHANGED <<armed, records, lastDispatchTime>>
  BY DEF LeaveBucket, IInv, ControlInv
<1>2. lastDispatchTime = now
  BY <1>1 DEF ResumeInv
<1>3. \A t : RecordsAt(t)' = RecordsAt(t)
  BY <1>1 DEF RecordsAt
<1>4. \A t \in buckets : t > now => t # now
  BY DEF IInv, TypeOK, Times
<1> QED
  BY <1>1, <1>2, <1>3, <1>4 DEF ResumeInv

LEMMA NextResume ==
  ASSUME IInv, ResumeInv, [Next]_vars
  PROVE  ResumeInv'
<1>1. CASE Schedule
  BY <1>1, ScheduleAtResume DEF Schedule
<1>2. CASE \E t \in Times : EnterBucket(t)
  BY <1>2, EnterBucketResume
<1>3. CASE \E key \in records : CallNext(key)
  BY <1>3, CallNextResume
<1>4. CASE \E ok \in BOOLEAN : CallbackReturns(ok)
  BY <1>4 DEF CallbackReturns, schedulerVars, IInv, ControlInv, ResumeInv,
              RecordsAt
<1>5. CASE LeaveBucket
  BY <1>5, LeaveBucketResume
<1>6. CASE BeginRun \/ EndRun \/ UNCHANGED vars
  BY <1>6 DEF BeginRun, EndRun, vars, schedulerVars, loopVars, ResumeInv,
              RecordsAt
<1> QED
  BY <1>1, <1>2, <1>3, <1>4, <1>5, <1>6 DEF Next, RunLoop

LEMMA InitResume == Init => ResumeInv
BY DEF Init, ResumeInv

\* A Run that returns without an error has dispatched every event it could
\* reach, and one that fails leaves the events beyond the failure to the next
\* Run, however many Runs failed before.
THEOREM RunReportsWhatItLeavesTheorem == Spec => RunReportsWhatItLeaves
<1> DEFINE Reports ==
      control = "simulator" /\ control' = "host" =>
        \A r \in records :
          r.time > lastDispatchTime => executionError /\ armed[r.time] = 1
<1>1. IInv /\ ResumeInv /\ [Next]_vars => [Reports]_vars
  <2> SUFFICES ASSUME IInv, ResumeInv, Next, control = "simulator",
                      control' = "host", NEW r \in records,
                      r.time > lastDispatchTime
               PROVE  executionError /\ armed[r.time] = 1
    BY DEF vars
  <2>1. EndRun
    BY DEF Next, RunLoop, Schedule, ScheduleAt, BeginRun, EnterBucket,
           CallNext, CallbackReturns, LeaveBucket
  <2>2. r.time \in buckets /\ r.time \in Times /\ r.time # dispatchTime
    BY DEF IInv, TypeOK, EventKey, NoEventLost, ControlInv, NoTime, Times
  <2>3. armed[r.time] = 1
    BY <2>2 DEF ResumeInv
  <2>4. stopped
    BY <2>1, <2>2, <2>3 DEF EndRun
  <2> QED
    BY <2>3, <2>4 DEF IInv, ControlInv
<1>2. IInv /\ ResumeInv /\ [Next]_vars => (IInv /\ ResumeInv)'
  BY NextInv, NextResume
<1> QED
  BY InitInv, InitResume, <1>1, <1>2, PTL DEF Spec, RunReportsWhatItLeaves

(***************************************************************************)
(* Programs that do not call Run again after a Run that failed.            *)
(***************************************************************************)

\* Until a callback fails, no event is left behind the clock and every bucket
\* that is not being dispatched has its ns-3 event.
TidyInv ==
  ~executionError =>
    /\ \A r \in records : r.time >= now
    /\ \A t \in Times : t \in buckets /\ t # dispatchTime => armed[t] = 1

\* The clock moves over no pending event.
LEMMA EnterBucketTidy ==
  ASSUME IInv, TidyInv, NEW t \in Times, EnterBucket(t)
  PROVE  TidyInv'
<1>1. ~executionError /\ dispatchTime = NoTime
  BY DEF EnterBucket, IInv, ControlInv
<1>2. \A u \in Times : u \in buckets => armed[u] = 1
  BY <1>1 DEF TidyInv, Times, NoTime
<1>3. ASSUME NEW r \in records PROVE r.time >= t
  <2>1. r.time \in Times /\ r.time \in buckets
    BY DEF IInv, TypeOK, EventKey, NoEventLost
  <2>2. armed[r.time] > 0
    BY <1>2, <2>1
  <2> QED
    BY <2>1, <2>2 DEF EnterBucket, Times
<1>4. \A u \in Times : u \in buckets /\ u # t => armed'[u] = 1
  BY <1>2 DEF EnterBucket, IInv, TypeOK
<1> QED
  BY <1>3, <1>4 DEF EnterBucket, TidyInv

LEMMA ScheduleAtTidy ==
  ASSUME IInv, TidyInv, NEW t \in Times, NEW phase \in PhaseInputs,
         ScheduleAt(t, phase)
  PROVE  TidyInv'
<1> SUFFICES ASSUME ~executionError PROVE TidyInv'
  BY DEF TidyInv, ScheduleAt, loopVars
<1> DEFINE key == NextKey(t, phase)
<1>1. /\ records' = records \cup {key} /\ key.time = t /\ t >= now
      /\ buckets' = buckets \cup {t}
      /\ armed' = IF t \in buckets THEN armed ELSE [armed EXCEPT ![t] = @ + 1]
      /\ UNCHANGED <<now, dispatchTime>>
  BY DEF ScheduleAt, MayScheduleAt, Insert, GatewayScheduleAt, NextKey,
         loopVars
<1>2. \A r \in records' : r.time >= now
  BY <1>1 DEF TidyInv
<1>3. ASSUME NEW u \in Times, u \in buckets', u # dispatchTime
      PROVE  armed'[u] = 1
  <2>1. armed \in [Times -> Nat]
    BY DEF IInv, TypeOK
  <2>2. CASE u \in buckets
    <3>1. armed[u] = 1
      BY <1>3, <2>2 DEF TidyInv
    <3> QED
      BY <1>1, <2>1, <2>2, <3>1
  <2>3. CASE u \notin buckets
    <3>1. u = t /\ armed[u] = 0
      BY <1>1, <1>3, <2>3 DEF IInv, ArmedInv
    <3> QED
      BY <1>1, <2>1, <2>3, <3>1
  <2> QED
    BY <2>2, <2>3
<1> QED
  BY <1>1, <1>2, <1>3 DEF TidyInv

LEMMA NextTidy ==
  ASSUME IInv, TidyInv, [Next]_vars, BeginRun => ~executionError
  PROVE  TidyInv'
<1>1. CASE Schedule
  BY <1>1, ScheduleAtTidy DEF Schedule
<1>2. CASE BeginRun
  BY <1>2 DEF BeginRun, schedulerVars, TidyInv
<1>3. CASE \E t \in Times : EnterBucket(t)
  BY <1>3, EnterBucketTidy
<1>4. CASE \E key \in records : CallNext(key)
  BY <1>4 DEF CallNext, TidyInv
<1>5. CASE \E ok \in BOOLEAN : CallbackReturns(ok)
  BY <1>5 DEF CallbackReturns, schedulerVars, IInv, ControlInv, TidyInv
<1>6. CASE LeaveBucket
  BY <1>6 DEF LeaveBucket, TidyInv
<1>7. CASE EndRun \/ UNCHANGED vars
  BY <1>7 DEF EndRun, vars, schedulerVars, loopVars, TidyInv
<1> QED
  BY <1>1, <1>2, <1>3, <1>4, <1>5, <1>6, <1>7 DEF Next, RunLoop

LEMMA InitTidy == Init => TidyInv
BY DEF Init, TidyInv

LEMMA InductiveHeeding == Spec /\ HeedsErrors => [](IInv /\ TidyInv)
<1>1. IInv /\ TidyInv /\ [Next]_vars /\ [BeginRun => ~executionError]_vars
        => (IInv /\ TidyInv)'
  <2> SUFFICES ASSUME IInv, TidyInv, [Next]_vars,
                      [BeginRun => ~executionError]_vars
               PROVE  IInv' /\ TidyInv'
    OBVIOUS
  <2>1. CASE UNCHANGED vars
    BY <2>1, NextInv DEF vars, schedulerVars, loopVars, TidyInv
  <2>2. CASE BeginRun => ~executionError
    BY <2>2, NextInv, NextTidy
  <2> QED
    BY <2>1, <2>2
<1> QED
  BY InitInv, InitTidy, <1>1, PTL DEF Spec, HeedsErrors

\* If callbacks never fail there is no error to heed.
LEMMA NoErrorToHeed ==
  ASSUME ~MayFail
  PROVE  Spec => HeedsErrors
<1>1. IInv /\ [Next]_vars => [BeginRun => ~executionError]_vars
  BY DEF IInv, ControlInv
<1> QED
  BY <1>1, Inductive, PTL DEF Spec, HeedsErrors

\* A program that calls Run at most once has no error to heed either.
FirstRun == runs = 0 => control = "host" /\ ~executionError

LEMMA InitFirstRun == Init => FirstRun
BY DEF Init, FirstRun

LEMMA NextFirstRun ==
  ASSUME IInv, FirstRun, [Next]_vars
  PROVE  FirstRun'
<1>1. runs \in Nat /\ (BeginRun => runs' = runs + 1)
  BY DEF IInv, TypeOK, BeginRun
<1>2. CASE BeginRun
  BY <1>1, <1>2 DEF FirstRun
<1>3. CASE UNCHANGED vars
  BY <1>3 DEF FirstRun, vars, loopVars
<1>4. CASE Schedule
  BY <1>4 DEF FirstRun, Schedule, ScheduleAt, loopVars
<1>5. CASE RunLoop \/ \E ok \in BOOLEAN : CallbackReturns(ok)
  BY <1>5 DEF FirstRun, RunLoop, EnterBucket, CallNext, CallbackReturns,
              LeaveBucket, EndRun, IInv, ControlInv
<1> QED
  BY <1>2, <1>3, <1>4, <1>5 DEF Next

LEMMA BeginsOnce ==
  ASSUME MaxRuns <= 1, IInv, FirstRun, BeginRun
  PROVE  ~executionError
BY BoundsAssumption DEF BeginRun, FirstRun, IInv, TypeOK

\* Until a callback fails there is exactly one ns-3 event for every bucket
\* that is not being dispatched.
THEOREM OneCallbackPerBucketTheorem ==
  Spec /\ HeedsErrors => [](executionError \/ OneCallbackPerBucket)
<1>1. IInv /\ TidyInv => executionError \/ OneCallbackPerBucket
  BY DEF IInv, TypeOK, ArmedInv, TidyInv, OneCallbackPerBucket
<1> QED
  BY <1>1, InductiveHeeding, PTL

\* If callbacks never fail, that is so at any time.
COROLLARY OneCallbackWithoutFailures ==
  ASSUME ~MayFail
  PROVE  Spec => []OneCallbackPerBucket
<1>1. IInv => ~executionError
  BY DEF IInv, ControlInv
<1> QED
  BY <1>1, Inductive, NoErrorToHeed, OneCallbackPerBucketTheorem, PTL

\* When a Run returns without an error nothing is pending, unless the program
\* called Run after a Run that had failed.
THEOREM RunDrainsTheorem == Spec /\ HeedsErrors => RunDrains
<1> DEFINE Drains == control = "simulator" /\ control' = "host"
                       /\ ~executionError => records = {}
<1>1. IInv /\ TidyInv /\ [Next]_vars => [Drains]_vars
  <2> SUFFICES ASSUME IInv, TidyInv, Next, control = "simulator",
                      control' = "host", ~executionError, NEW r \in records
               PROVE  FALSE
    BY DEF vars
  <2>1. EndRun
    BY DEF Next, RunLoop, Schedule, ScheduleAt, BeginRun, EnterBucket,
           CallNext, CallbackReturns, LeaveBucket
  <2>2. r.time \in buckets /\ r.time \in Times /\ r.time # dispatchTime
    BY DEF IInv, TypeOK, EventKey, NoEventLost, ControlInv, NoTime, Times
  <2>3. armed[r.time] = 1
    BY <2>2 DEF TidyInv
  <2>4. ~stopped
    BY DEF IInv, ControlInv
  <2> QED
    BY <2>1, <2>2, <2>3, <2>4 DEF EndRun
<1> QED
  BY <1>1, InductiveHeeding, PTL DEF Spec, RunDrains

\* The dispatcher implements the abstract event queue, failing callbacks
\* included: what it calls next is the least of all pending events, of any
\* time, unless the program called Run after a Run that had failed.
THEOREM ImplementsQueueTheorem == Spec /\ HeedsErrors => ImplementsQueue
<1>1. Init => Queue!Init
  BY DEF Init, Queue!Init
<1>2. IInv /\ TidyInv /\ [Next]_vars => [Queue!Next]_Queue!vars
  <2> SUFFICES ASSUME IInv, TidyInv, [Next]_vars
               PROVE  [Queue!Next]_Queue!vars
    OBVIOUS
  <2>1. CASE Schedule
    <3> PICK t \in Times, phase \in PhaseInputs : ScheduleAt(t, phase)
      BY <2>1 DEF Schedule
    <3> DEFINE key == NextKey(t, phase)
    <3>1. key \in accepted' /\ records' = records \cup {key}
      BY DEF ScheduleAt, Insert
    <3>2. IInv'
      BY ScheduleAtInv
    <3>3. key \in EventKey /\ UNCHANGED <<dispatched, now>>
      BY <3>1, <3>2 DEF IInv, TypeOK, ScheduleAt
    <3>4. key.time = t /\ key.phase = phase
      BY DEF NextKey
    <3>5. Queue!IsStillToCome(key)
      BY <3>4, ScheduledToCome DEF Queue!IsStillToCome
    <3>6. \A p \in records \cup dispatched : p.sequence # key.sequence
      <4> SUFFICES ASSUME NEW p \in accepted PROVE p.sequence # key.sequence
        BY DEF IInv, NoEventLost
      <4>1. p.sequence < nextSequence /\ p.sequence \in Int
        BY DEF ScheduleAt, MayScheduleAt, IInv, TypeOK, EventKey, SequenceInv
      <4>2. key.sequence = nextSequence /\ nextSequence \in Int
        BY DEF NextKey, IInv, TypeOK
      <4> QED
        BY <4>1, <4>2
    <3>7. Queue!Accept(key)
      BY <3>1, <3>3, <3>5, <3>6 DEF Queue!Accept
    <3> QED
      BY <3>3, <3>7 DEF Queue!Next
  <2>2. CASE \E key \in records : CallNext(key)
    <3> PICK key \in records : CallNext(key)
      BY <2>2
    <3>1. key \in EventKey /\ key.time = now
      BY CallNextOrder
    <3>2. \A p \in records \ {key} : Queue!Precedes(key, p)
      <4> SUFFICES ASSUME NEW p \in records \ {key}
                   PROVE  Queue!Precedes(key, p)
        OBVIOUS
      <4>1. p.time \in Times /\ now \in Times /\ p.time >= now
        BY DEF IInv, TypeOK, EventKey, TidyInv, CallNext
      <4>2. CASE p.time = now
        BY <4>2 DEF CallNext, RecordsAt, IInv, ControlInv
      <4>3. CASE p.time > now
        BY <3>1, <4>3 DEF Queue!Precedes
      <4> QED
        BY <4>1, <4>2, <4>3 DEF Times
    <3>3. Queue!Dispatch(key)
      BY <3>2 DEF CallNext, Queue!Dispatch
    <3> QED
      BY <3>1, <3>3 DEF Queue!Next
  <2>3. CASE UNCHANGED <<records, dispatched>>
    BY <2>3 DEF Queue!vars
  <2> QED
    BY <2>1, <2>2, <2>3
       DEF Next, RunLoop, BeginRun, EnterBucket, CallbackReturns,
           LeaveBucket, EndRun, schedulerVars, vars
<1> QED
  BY <1>1, <1>2, InductiveHeeding, PTL DEF Spec, ImplementsQueue, Queue!Spec
===============================================================================

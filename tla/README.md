# Specifications of the NS3-BELLHOP platform core

TLA+ specifications, TLC models and TLAPS proofs for the code under
`src/Platform`. The specifications are written from the C++ sources; the ADRs
under `src/Platform/docs/adr` and the integration tests are read for intent, and where
they disagree with the code the code is modelled and the disagreement is
recorded (see *Disagreements*).

The platform runs an underwater acoustic network in planning cycles. A cycle
starts from a committed snapshot of the world, an ns-3 simulator drives
transmissions, arrivals and receptions in it, and at its end a DeltaSet is
committed as the next snapshot.

## 1. Inventory

| component | source (`src/Platform/...`) | state it keeps | operations |
|---|---|---|---|
| EventDispatcher | `kernel/internal/event_dispatcher.hpp` | buckets of EventRecords by time, the sequence counter, the time and phase being dispatched and dispatched last, the first error | `ScheduleAt`, `Run`, `DispatchTime`, `pending_event_count` |
| Ns3KernelGateway | `kernel/internal/ns3_kernel_gateway.hpp` | none; ns-3 owns the clock, the event list and the stop flag | `PlatformNow`, `ScheduleAt`, `Run`, `Stop`, `Destroy` |
| Checked time | `contracts/.../time.hpp` | none | checked sum, difference and scaling of `int64` counts |
| Signal and provider contracts | `contracts/.../received_signal.hpp`, `receiver_window.hpp`, `tx_phy.hpp`, `channel.hpp`, `noise.hpp`, ... | immutable values | validation, overlap in time and frequency |
| World state contracts | `contracts/.../state.hpp`, `delta.hpp` | immutable values | validation of snapshots and DeltaSets |
| CycleWorkingState, StateProjector | `runtime/internal/cycle_working_state.hpp`, `state_projector.hpp` | the base snapshot and one overlay (state and anchor) per node that changed velocity | `Create`, `ProjectNodeState`, `UpdateVelocity`, `FinalizeDeltaSet` |
| WorldStateStore, CommitService | `runtime/internal/commit_service.hpp`, `world_state_store.hpp` | the current snapshot, the last committed cycle | `CommitCycle` |
| CycleSignalRuntime | `runtime/internal/cycle_signal_runtime.hpp` | the `committed_` flag; everything else by reference | the four handlers |
| TransmissionExecutor | `runtime/internal/transmission_executor.hpp` | none | `ExecuteTransmission` |
| InFlightSignalLedger | `runtime/internal/in_flight_signal_ledger.hpp` | the signals that have arrived, in canonical order | `Insert`, `Contains`, `SignalsForReceiver`, `ValidateReadyForCycleClose`, `ClearForCycleClose` |
| Receiver processing | `runtime/internal/receiver_processor.hpp`, `receiver_window_builder.hpp` | none | window, projection, noise query, decode |
| ReceptionResultAccumulator | `runtime/internal/reception_result_accumulator.hpp` | the completed sessions, sorted | `Append` |
| CommunicationIdAllocator | `runtime/internal/communication_id_allocator.hpp` | two counters with an exhausted flag each | `NextTransmissionId`, `NextReceptionId` |
| adapters, algorithms, assembly, environment, observability, phy, planning, structure | empty CMake interface targets | - | - |

**How they interact.** Everything runs on one thread. The program hands
callbacks to `ScheduleAt` and calls `Run`. `Run` enters ns-3; ns-3 calls back
`DispatchTime` once per timestamp; `DispatchTime` calls the callbacks of that
timestamp in the order of phase and sequence. A callback calls one handler of
`CycleSignalRuntime` (a TxStart callback goes on to schedule an arrival and an
end for each receiver, re-entering the dispatcher), and its error stops the
simulator. The handlers share the ledger, the accumulator, the id allocator,
the working state and the store by reference.

**What is hard.** No threads, no files, no network. The difficulty is in

- *re-entrancy and order*: callbacks schedule into the timestamp that is being
  dispatched; phases close behind the loop; arrivals are processed in an order
  different from that of their transmissions;
- *partial failure*: a callback fails in the middle of a bucket or of its own
  fan-out, a close fails at one of four checks, `Run` is called again after an
  error;
- *stale state*: working states and DeltaSets outlive the snapshot they were
  derived from; positions are asked for at a time that lies in the past; the
  ledger, the store and the kernel outlive the cycle that filled them;
- *mixed-up answers*: providers are handed queries one by one and answer with
  values that carry an identity of their own;
- *numeric edges*: `int64` nanoseconds, the last sequence id, the last
  TransmissionId and ReceptionId, the last SnapshotVersion, half-open intervals
  that touch.

**What makes each component correct.**

| component | correct when |
|---|---|
| EventDispatcher and gateway | it is a priority queue of EventKeys: each accepted event is dispatched exactly once, in key order, with one ns-3 event per timestamp; a failure loses nothing, and Run reports it and leaves what is to come ready for the next Run |
| checked time | an operation yields the exact result, or nothing |
| working state | a projected position is the place the accepted velocity changes lead to |
| commit service | linear history, no lost update |
| ledger and results | canonical order after any sequence of insertions; a binary search finds all signals of a receiver |
| signal runtime | a window holds all and only the signals that meet the desired one; each emitted signal is received exactly once before the cycle commits; a session is about one transmission from end to end; ids are dense; a commit is final and leaves nothing behind for the next cycle |

`PROJECT.json` lists the hazards one by one, at their lines, with the property
that covers each.

## 2. Modules

| module | models | correspondence |
|---|---|---|
| `EventQueue` | abstract specification: what the dispatcher promises | no clock, bucket or run loop |
| `EventDispatcher` | dispatcher, gateway and ns-3 event loop | `ScheduleAt`; `BeginRun`/`EndRun` are the two ends of `Run`; `EnterBucket`, `CallNext`, `CallbackReturns`, `LeaveBucket` are `DispatchTime` cut at the calls of the callbacks, the only points where other code runs |
| `EventDispatcherProofs` | - | theorems about `EventDispatcher` |
| `SimTime` | checked arithmetic, of any width | `CheckedAddCounts`, `CheckedSubtractCounts`, `CheckedScaleNanoseconds` |
| `SimTimeProofs` | - | sums, differences and products are exact for every width |
| `Motion` | snapshots, `StateProjector`, `CycleWorkingState`, with maps from NodeIds | operators on records; `NoState` is the error of a projection |
| `WorldStateStore` | store and `CommitCycle` | `MayCommit` is the checks in the order of the code, `CommitSnapshot` the assignment |
| `CommittedHistory` | abstract specification of the store: an append-only history | - |
| `WorldState` | any number of owners that create, update, finalize and commit working states in any order | one action per call |
| `WorldStateProofs` | - | theorems about `WorldState` |
| `SortedVectors` | `push_back` with `std::sort`, `std::lower_bound` and `std::upper_bound` | external: the C++ library |
| `NodeVectors` | `WorldState` again, with the vectors of the code | `SnapshotNodes` sorts and looks for duplicates, `WithOverlay` inserts where the bisection ended, `IsFullReplacement` compares position by position; a caller may alter the order, length and ids of the list of replacements before the commit, but not the states, which `CommitService` cannot tell from others |
| `NodeVectorsProofs` | - | the vectors implement the maps |
| `Signals` | what the contract types of a signal validate and compute | `ReceivedSignal`, the overlap predicates, `IsReceiverWindow`, `MayQueryNoise`, and the identity checks of every provider answer |
| `SignalRegistries` | `InFlightSignalLedger`, `ReceptionResultAccumulator` | operators on sequences: `Inserted`, `SignalsForReceiver`, `Appended`, ... |
| `SignalRegistriesProofs` | - | theorems about the registries |
| `ReceptionHistory` | abstract specification of the cycles: emitted, received together with what they meet, settled | no events, ledger or providers |
| `ReceptionHistoryProofs` | - | the cycles keep these promises, and what follows from them; closes on time commit, and receptions fail for one reason only |
| `SignalLifecycle` | planning cycles of `CycleSignalRuntime`, one after the other, on the real dispatcher | instantiates `EventDispatcher` as `D`, extends `WorldStateStore` and `SignalRegistries`; one action per handler, plus the fan-out of a TxStart, one `ScheduleAt` per step |
| `SignalLifecycleProofs` | - | the dispatcher inside `SignalLifecycle` |
| `ReceptionProofs` | - | theorems about what is received |
| `MC*` | the instances TLC checks | inputs as definitions |

`SignalLifecycle` composes the others: it uses the dispatcher's own actions for
every kernel step, so a handler that schedules runs `D!ScheduleAt` with all its
checks, and a handler that fails runs `D!CallbackReturns(FALSE)`. It is wired as
`ns3_signal_lifecycle_integration_test.cpp` wires the classes.

A `CycleSignalRuntime` lives for one cycle; the ledger, the results, the id
allocator, the store and the dispatcher are handed in by reference and outlive
it. `OpenCycle` is the construction of a `CycleWorkingState` and of the runtime
for the next cycle. The tests open one cycle per wiring; the model lets the
program open another one, over the same owners, once the one before it has been
committed and while no Run is in progress. Two cycles that are open at a time are
not modelled: `CycleWorkingState` starts from the committed snapshot, and the
second of two commits with the same base is refused (`NoLostUpdate`).

Definitions whose comment begins with *Mutant* are faulty variants of the
definition below them. No specification uses them; each shows that a property
would notice such a fault.

### Abstractions

- Events, signals and sessions are records. The ledger, the results and, in
  `NodeVectors`, the nodes, overlays and replacements are sequences in the order
  of the code. The sort of the nodes of a snapshot is some permutation that
  leaves them in the order of their ids; the ids that survive the check for
  duplicates leave one such. A receiver window is a set, since its order follows from its
  members. The bucket's sorted vector is the set of its records with `CallNext`
  taking the least; `DispatchInKeyOrder` and `ImplementsQueue` check the result.
- `SortedInsert` puts the new element before the first larger one: the result of
  `std::sort` when the vector was sorted and no two elements tie, which
  `InsertedInOrder` and `AppendedInOrder` prove of the two registries.
- A provider (Tx PHY, channel, noise, Rx PHY) is an interface. It answers with
  any value of a small set its contract allows; with an identity out of
  `Misrouted`, as if it had answered another query; or, with
  `ProvidersMayFail`, with an error.
- Space has one axis, and positions are integers. The three axes follow the same
  law; the rounding of doubles is not modelled.
- A band is its center and half its bandwidth, an arrival profile is the delay
  and the set of excess delays. Gains, levels, payloads and destinations decide
  nothing in this code.
- `HandleSessionFinalize` is one step: nothing it reads can change while it
  runs.
- A velocity change is a callback of the program with a time at which it takes
  effect, which need not be the time of its event.
- `MaxSequence`, `MaxCount`, `MaxVersion` and `MaxId` stand for the largest
  values of the C++ types, scaled down so that the edge is reached.

## 3. Runs

Bounds appear in the `.cfg` files; `MaxTime`, `MaxRuns` and `MaxChanges` only
bound the model, the other maxima are edges of the code's types.

| run | cfg | what it shows |
|---|---|---|
| `dispatcher` | `EventDispatcher.cfg` | callbacks succeed: the dispatcher implements `EventQueue`, keeps one ns-3 event per bucket, and a Run dispatches every pending event, those its callbacks add included, and leaves nothing behind |
| `dispatcher_failures` | `EventDispatcherFailures.cfg` | callbacks fail, three Runs: key order, unique sequences, nothing lost, future buckets armed, and a Run that leaves later events behind reports an error and leaves them armed |
| `dispatcher_stranded` | `EventDispatcherStranded.cfg` | disagreement 1 |
| `sim_time` | `SimTime.cfg` | all pairs of six-bit counts against integer arithmetic |
| `world_state` | `WorldState.cfg` | two owners race: no lost update, linear history |
| `node_vectors` | `NodeVectors.cfg` | the vectors and bisections implement the maps of `WorldState`, also when the order, length or ids of the list of replacements were altered before the commit; projected positions follow the accepted velocities, the least and the largest time included; the largest version is never passed |
| `lifecycle` | `SignalLifecycle.cfg` | two senders, signals that overlap, touch or miss each other in time and band, bands that reach below zero: complete windows, nothing open at commit, registries in order, and no reception fails but that of a band below zero |
| `lifecycle_failures` | `SignalLifecycleFailures.cfg` | refused requests, providers that fail or mix up their answers, early and repeated closes, a change dated past the close, a second Run: dense ids, sessions of what was sent, the ledger kept, a commit is final |
| `lifecycle_liveness` | `SignalLifecycleLiveness.cfg` | every emitted signal is received and the cycle commits, or the Run reports an error; the last ReceptionId is handed out once |
| `lifecycle_cycles` | `SignalLifecycleCycles.cfg` | two cycles over one kernel, ledger, store and result list, up to three Runs: each commits, neither sees the signals of the other, and together they implement `ReceptionHistory` |
| `lifecycle_open_cycle` | `SignalLifecycleOpenCycle.cfg` | disagreement 2 |
| `lifecycle_steered` | `SignalLifecycleSteered.cfg` | disagreement 3 |

**Why the bounds are enough.**

- *Dispatcher.* Four sequence ids give four events, spread in every way over
  three times and three phases: enough for two events that tie in time and
  phase, one that arrives while another runs, one in a later bucket, and the
  allocation that must fail. An invalid phase is among the inputs. Three Runs
  allow a failure, a Run that meets what it left behind, and a third Run after
  that. What the proofs cover holds without these bounds. Four ids also end
  every chain of callbacks that schedule callbacks, so that no run can show a
  Run that goes on for ever; `EventuallyDispatched` is about starvation. What
  rules out an endless chain at one time is that `EventQueue` accepts an event
  only in a strictly later phase than all that was dispatched at that time
  (`IsStillToCome`), of which there are finitely many: `ImplementsQueue`.
- *Time.* The checks compare with the ends of the range only, so six bits have
  every case of sixty-four.
- *World.* A lost update needs two owners and one version; `world_state` has
  three versions, two cycle ids, and expected versions that are right, old and
  too new. `node_vectors` has one owner, since working states share nothing, two
  nodes listed in either order and a third id that is unknown, two changes of
  velocity at four times in any order, the least and the largest time among
  them, and two versions, the second one the largest, so that a commit on top of
  it must be refused.
- *Lifecycle.* Two signals at one receiver are the least that overlap, a second
  receiver makes the fan-out longer than one and the ledger's order a matter of
  the receiver as well as of the time. The bands and the answers contain
  a zero duration (an error of the encoder), a band that only touches, one with a
  negative lower edge, arrivals that only touch, paths with an excess delay, a
  signal that ends exactly at the close, one that ends after it, one whose
  times overflow, and an arrival without a delay, which `ScheduleAt` refuses in
  the middle of a fan-out. `MaxId` is two in the failure and liveness runs;
  in the latter a third transmission finds no TransmissionId left, and a third
  signal no ReceptionId. The misrouted identities
  are those of the other transmission of the same packet, and of a node that
  sends.
- *Cycles.* The second cycle starts at the instant the first one closes, so that
  a transmission at its start comes too late: `ScheduleAt` refuses it to the
  program, and nothing else happens. A second close of the first cycle, at a later
  time, is accepted, fails in its handler and stops a Run; two more Runs are left
  to finish. `MaxSequence` is out of reach
  here: its edge is the subject of the other runs.
- `WindowComplete`, `ClosedCycle` and the two liveness properties are checked
  with a single `Run`. They do not hold after a Run that failed: an arrival may be
  stranded in a bucket of that Run (disagreement 1), and later windows miss it;
  a close may be stranded likewise; and a second Run that commits is
  disagreement 2. What they need is a program that starts no Run after one that
  failed (`HeedsErrors`), and a single Run is the smallest such program; the
  theorems cover all of them. `ImplementsReceptions` is checked over three Runs
  with providers that answer.

**Deadlock.** The dispatcher and lifecycle configurations turn the deadlock
check off: the program may stop calling (its `MaxRuns` Runs are over and every
input is used), and then nothing is left to do. In the world-state and time
models some call is always possible, and the check is on.

**Fairness.** `EventDispatcher` assumes weak fairness of the run loop and of the
return of a callback; `SignalLifecycle` of the run loop and of the handlers.
Both are the same fact: the one thread that called `Run` keeps executing, and
callbacks are finite pieces of code that return. Nothing is assumed about the
program: it need not call `Run` or `ScheduleAt`, so the liveness properties
speak of events that are pending while a Run is in progress. No fairness is
asked of a particular callback result or provider answer.

## 4. Proofs

All proofs are checked by TLAPS, for every value of the constants that satisfies
the named assumptions.

**`EventDispatcherProofs`** from `BoundsAssumption` (naturals, and
`FirstSequence <= MaxSequence`). None of the safety properties is inductive
alone: that callbacks come in key order depends on the phase floor, which
depends on `lastDispatchTime` agreeing with what was dispatched, which depends on
where control is. The invariant `IInv` is the conjunction of

- `TypeOK` and `NoEventLost`;
- `ControlInv`: where control is decides which of `DispatchTime`'s members are
  set, and the stop flag is the error;
- `SequenceInv`: ids handed out are distinct and below the next one, until the
  ids are exhausted;
- `ClockInv`: nothing was dispatched beyond the clock and the last phase at its
  time, and what still waits for a time not yet passed follows all of it;
- `ArmedInv`: ns-3 holds at most one event per time, for a bucket to come.

There is one lemma per action. From `IInv` follow `TypeCorrect`,
`NoEventLostTheorem`, `UniqueSequencesTheorem`, `FutureBucketsArmedTheorem`,
and `DispatchInKeyOrderTheorem`, with failing callbacks and any number of Runs.
`RunReportsWhatItLeavesTheorem` covers any number of Runs too, but asks for more
than `IInv`: a Run that returns without an error returns because the event list
is empty, and then no bucket may be left beyond the last dispatched event. The
case to exclude is a call of `DispatchTime` that dispatches nothing and thereby
uses up the only ns-3 event of a bucket. `ResumeInv` says that ns-3 calls it
only for buckets that hold an event, and never while there is an error, so that
every bucket beyond the last dispatched time keeps its ns-3 event.
 `OneCallbackPerBucketTheorem`, `RunDrainsTheorem` and
`ImplementsQueueTheorem` assume `HeedsErrors`: a callback may fail, but the
program starts no Run after that. They have to: after a failure an event may be
stranded in a bucket without an ns-3 event (disagreement 1), and in another Run
the queue, which dispatches the least pending event, no longer describes what
happens. What `HeedsErrors` adds to `IInv` is `TidyInv`: until the error, every
bucket but the one being dispatched is armed. Callbacks that cannot fail leave
no error to heed (`OneCallbackWithoutFailures`), and neither does a program of
one Run. The refinement maps `pending` to `records` and `dispatched` to itself;
`ScheduleAt` implements `Accept`, `CallNext` implements `Dispatch`, every other
action is a stutter.

**`SimTimeProofs`** from `WidthAssumption`: addition, subtraction and scaling
are exact for every width. Scaling is a product of two unknowns, which the SMT
solver does not decide; a few lemmas on products and quotients reduce it to
linear steps.

**`WorldStateProofs`** from `WorldAssumption`: `TypeCorrect`;
`NoLostUpdateTheorem` for any number of owners, by `IInv` = `ShapeInv` (the
maps are functions over the owners), `VersionInv` (a working state or DeltaSet
whose base has the current version started from the current snapshot, and no
base is newer than it) and `NoLostUpdate`; `ImplementsHistoryTheorem`, the
refinement of `CommittedHistory`; and `ProjectionIsTrajectoryTheorem`. A
projection knows one anchor per node, the trajectory all velocity changes, so
what has to be kept is `FollowInv`: the anchor of an overlay is the time of the
last change its node accepted, with the velocity of that change, and its
position is where the changes lead to at that time. Changes may be dated in any
order, but a change before the anchor is refused, since the node cannot be
projected to it (`OnTrajectory`), and a change is without effect on the way
before its time and on other nodes (`WayKept`). Sums over an interval of time
are a recursive function; what is needed of them (`SumsAgree`: they depend on
the terms below only; `SumsStraight`: constant terms make a straight line) is
shown without an induction rule, from the least number for which it would fail
(`FirstOf`).

**`NodeVectorsProofs`** from `VectorAssumption` and `MarkerAssumption` (the
values that mark an owner with nothing in hand are not themselves a snapshot, a
working state or a DeltaSet), for any number of nodes, owners and changes:

- `ImplementsWorldTheorem`: every step of the vectors is a step of `WorldState`
  on the maps they stand for. `NoLostUpdate` and the linear history, proved of
  `WorldState`, thereby hold of the vectors;
- `LookupsAgreeTheorem`: the bisections find what the maps hold;
- `ProjectionIsTrajectoryTheorem`: the theorem of `WorldStateProofs`, instantiated
  (`Maps`) with the maps that the vectors stand for;
- `VectorTypeCorrect`: every vector stays sorted and without duplicates.

The invariant `VInv` says that the nodes of every snapshot and DeltaSet are the
nodes of the world, in the order of their ids, and the overlays a subset of
them. The other results rest on it, and it rests on the lemmas about the
operations: the bisection finds the one entry of a node if there is one
(`Bisection`), an insertion where it ended keeps the order (`Overlaid`), a vector
without duplicates can be sorted (`SortingOrder`, by counting for each entry
those below it), and however the order, length or ids of the finalized list were
altered, only the list as it was passes the comparison (`OnlyTheReplacements`).

**`SignalRegistriesProofs`**, about the containers on their own: an insertion
into a vector in canonical order keeps it in that order and changes its contents
by the new element only (`InsertedInOrder`, `AppendedInOrder`), and on such a
vector the two binary searches return exactly the signals of a receiver
(`SignalsForReceiverAreAll`), so that `Contains` is membership
(`ContainsSignalIsMembership`). They rest on the two orders being strict and
total where keys are distinct, which `MayInsert`, or the fresh ReceptionId,
provides.

**`SignalLifecycleProofs`** from `LifecycleAssumption`: `RunsOnDispatcher`
(`Spec => D!Spec`), for which `CycleInv` (every callback, scheduled, on the stack
or yet to be scheduled, belongs to a cycle of the program, and every event of a
fan-out lies in the range of times, with a phase the fan-out uses) is
inductive and every step is a `KernelStep`, that is, a step of the dispatcher or
one it does not see. The lifecycle is thereby a legal client of the dispatcher.
`KernelInvariant` takes over the dispatcher's `IInv`, by an instance of
`EventDispatcherProofs`.

**`ReceptionProofs`** from the same assumption, for any requests, provider
answers, failures, cycles and number of Runs. The actions are first sorted
into eight kinds of step (`StepKinds`): what matters of an action for what is
received. `ReceptionInvariant` says that `CycleInv`, the dispatcher's `IInv` and
the following `IInv` hold together; each part is needed for the next:

- `AllocationInv`: a transmission has an id of its own, below the next one, and
  one signal per receiver, within its cycle;
- `CallbackInv`: a callback belongs to an opened cycle, one that names a
  signal names a signal of its cycle, and one that steers a node comes from the
  program;
- `PhaseInv`: ends of sessions have the first phase and closes the last one, and a
  committed cycle left a dispatched event at its close. With the dispatcher's
  `ClockInv` nothing of the cycle can be dispatched afterwards;
- `ArrivalInv`, `EndingInv`: one event brings a signal and one ends it. Each waits
  to be scheduled, or in a bucket, or has been taken out; only when the first is
  over may the signal be in the ledger, and only when the second is over may it
  have been received;
- `LedgerInv`: the ledger is in order and holds signals of open cycles only;
- `ResultInv`: the results are in order, their sessions agree with what was sent,
  and the ids are dense.

From it follow `TypeOKTheorem`, `CanonicalOrderTheorem`,
`ReceptionsNumberedTheorem`, `SessionsOfWhatWasSentTheorem`,
`LedgerOfOpenCycleTheorem`, `LedgerKeptUntilCommitTheorem` and
`CommitIsFinalTheorem`. That nothing is received twice is thus a fact about the
composition: the runtime does not remember what it received, and relies on the
fan-out, the sequence ids and the dispatcher. `OverlapIsMeeting` shows that the
overlap predicates of the code mean what `ReceptionHistory` says.

**`ReceptionHistoryProofs`** has three parts. First, the abstract history on its own (a
reception knows all that ever meets its signal, signals are received once,
settled signals were received), then that the lifecycle implements it:
`ImplementsReceptionsTheorem`, and with it `WindowCompleteTheorem` and
`ClosedCycleTheorem`, for any requests, answers, failures of providers and
number of cycles, as long as the program heeds the error of a Run
(`HeedsErrors`; a program of one Run does, as `WindowCompleteInOneRun` and
`ClosedCycleInOneRun` spell out). The invariant adds to that of `ReceptionProofs`
that, until an error, every signal that was emitted is on its way: its arrival is
still to be scheduled or dispatched, or it is in the ledger or its cycle is
committed, and its end likewise waits or is past, and then it was received. With
the order of the dispatcher this gives completeness: whatever meets a signal has
arrived before that signal ends, since it begins before that end and arrivals of
that time and before precede it, and what begins at that very instant does not
meet it.

Third, the world a cycle works on (`MotionAssumption`: the nodes have a state at
the beginning, and velocity changes are values of the code's types).
`InductiveWorld` says of every behaviour that `WorldInv` holds, which is

- `OpenInv`: one cycle is open at a time;
- `StoreInv`: the store has one version per commit, it committed last at the close
  of a cycle, and the open cycle works on its current snapshot;
- `WorkingInv`: a working state knows every node from the start of its cycle on,
  and a node has an overlay only for a velocity change of the program;
- `StartInv`: nothing is sent before the cycle starts.

Two properties of the steps follow, each with hypotheses on the program that say
where the property stops, and that the runs which check it satisfy:

- `EveryCycleCommitsTheorem`: a close on time commits its cycle, however many
  callbacks failed before and however often Run was called. It asks that a cycle
  starts before any cycle with a larger id closes (`PlannedInOrder`; the store
  refuses ids that do not grow), that no velocity change is dated past the close
  (`SteersInTime`; the node would have no position at the close), and that there
  is a version for every cycle (`EnoughVersions`);
- `ReceiverFailsOnlyBelowZeroTheorem`: an arrival is always accepted, and a
  signal that ends is always received, but for a band below zero. It asks for
  providers that answer what they were asked (`~ProvidersMayFail`,
  `Misrouted = {}`), for receivers the program does not steer
  (`ReceiversKeepCourse`: disagreement 3 is what happens otherwise), for a
  program that heeds errors (disagreement 1) and for a ReceptionId that is left.

**Only model-checked.** The liveness properties (`EventuallyDispatched`,
`EventuallyReceived`, `CycleEnds`) and everything that rests on fairness, which
are out of the prover's reach. Every other property of a passing run is stated
by a theorem.

## 5. Disagreements

Three runs end in a counterexample, because the code does something else than a
document says. Each checks one property.

1. `dispatcher_stranded`, `AcceptedIsScheduled`. When a callback fails,
   `DispatchTime` leaves the bucket of its time in place; ns-3 holds no event
   for it any more. A later `ScheduleAt` at that time finds the bucket and does
   not arm ns-3: the call returns a key, and no Run ever dispatches the event.
   ADR-0001:284 says the events of a timestamp are dispatched by a single ns-3
   callback.
2. `lifecycle_open_cycle`, `ClosedCycle`. `HandleCycleClose` asks whether a
   signal of the ledger ends later, not whether it was received. If a reception
   fails and `Run` is called again, the waiting CycleClose commits a cycle with
   a reception that never completed. ADR-0001:124 and 329 exclude this.
3. `lifecycle_steered`, `ReceiverNeverFails`. The receiver is projected to the
   first arrival when the signal ends. A velocity change of the receiver in
   between moves its anchor past that time, the projection is refused, and the
   reception of a legal signal stops the Run. ADR-0001:274-276 say every legal
   signal of the ledger can be decoded, with the geometry at its first arrival.

A fourth one has no run of its own. A TxEmission, and the ReceivedSignal made of
it, may have a bandwidth of more than twice its center frequency; NoiseQuery
refuses a negative lower edge (`noise.hpp:96`), so the reception of that signal
fails, against ADR-0001:274. `ReceiverFailsOnlyBelowZero` states it exactly: the
receiving side fails for these signals and for no others, those that overlap them
included.

## 6. Not modelled

- *Conversion to `ns3::Time`*: exact for every `int64` at nanosecond resolution,
  taken to succeed; the branch of `ScheduleAt` that undoes a new bucket when the
  gateway refuses (`event_dispatcher.hpp:246-249`) is then unreachable, since
  the delay is never negative. With another resolution every `ScheduleAt` is
  refused before it changes anything.
- *`Destroy`* and destructors: they end the life of the objects.
- *Doubles*: rounding, infinities, NaN checks of the contract types.
- *Gains, phases, losses, levels, payloads, destinations*: carried along, they
  decide nothing in this code.
- *Host code that calls a handler outside a callback*, or schedules the same end
  of a signal twice: the repository has no such caller. `ReceptionsNumbered` rests
  on its absence.
- *The eight empty CMake targets* and the build files: there is no code in them.

## 7. Plan

Done, in this order: `EventQueue`, `EventDispatcher` and its proofs; `SimTime`;
`Motion`, `WorldState`, `CommittedHistory` and proofs; `Signals`,
`SignalLifecycle`; `SignalRegistries` and `NodeVectors`, the containers as the code
keeps them; several cycles in succession; `ReceptionHistory` and the refinement;
mixed-up answers and bands below zero; the proofs of the registries, the history
and of what is received; the refinements `ImplementsReceptions` and
`ImplementsWorld`, complete windows and closed cycles for every program that
heeds errors; exact scaling; the world a cycle works on, commits on time,
receptions that fail for one reason only, and the trajectories of the nodes.

Next: *the platform's missing parts* (planning, PHY, environment) once they have
code: the providers of this model are the places to plug them in.

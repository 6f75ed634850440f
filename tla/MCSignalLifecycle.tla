--------------------------- MODULE MCSignalLifecycle ---------------------------
(***************************************************************************)
(* The instances of SignalLifecycle that TLC checks.                       *)
(***************************************************************************)
EXTENDS SignalLifecycle

\* Node 3 drifts; node 4 can neither transmit nor receive.
MCInitialNodes ==
  1 :> [position |-> 0, velocity |-> 0] @@ 2 :> [position |-> 5, velocity |-> 0]
    @@ 3 :> [position |-> 9, velocity |-> 1]
    @@ 4 :> [position |-> 7, velocity |-> 0]

\* Every sender has one packet, which it may send again.
TxStart(cycle, t, sender, eligibleAt, candidates) ==
  [time |-> t, phase |-> 50,
   callback |-> [kind |-> "TxStart", cycle |-> cycle,
                 request |-> [sender |-> sender, packet |-> 10 * sender,
                              startedAt |-> t, eligibleAt |-> eligibleAt,
                              candidates |-> candidates]]]

\* id tells the events of one cycle apart.
CycleClose(cycle, t, id) ==
  [time |-> t, phase |-> 90,
   callback |-> [kind |-> "CycleClose", cycle |-> cycle, id |-> id]]

\* An event at t that turns a node back at effectiveAt.
Steer(cycle, t, node, effectiveAt) ==
  [time |-> t, phase |-> 40,
   callback |-> [kind |-> "ChangeVelocity", cycle |-> cycle, node |-> node,
                 velocity |-> -1, effectiveAt |-> effectiveAt]]

Response(delay, excess) == [delay |-> delay, excess |-> excess]

Band(center, half) == [center |-> center, half |-> half]

\* When the cycles start, and when they close.
MCStart == 1 :> 0
MCCloseAt4 == 1 :> 4
MCCloseAt6 == 1 :> 6
MCStarts == 1 :> 0 @@ 2 :> 4
MCCloses == 1 :> 4 @@ 2 :> 8

\* Two senders whose signals meet at node 3, and the end of the cycle.
MCTwoSenders ==
  {TxStart(1, 1, 1, 0, <<3, 2>>), TxStart(1, 2, 2, 2, <<3>>),
   CycleClose(1, 6, 1)}

\* The last answer makes signals end after the cycle, or never, the first makes
\* a fan-out fail that is perhaps half scheduled.
MCResponses ==
  {Response(0, {}), Response(1, {}), Response(1, {0, 1}), Response(3, {0}),
   Response(5, {})}

\* Answers that put signals on a boundary, one of them without a delay.
MCFewResponses ==
  {Response(0, {}), Response(1, {}), Response(2, {0}), Response(4, {})}

\* One path, or two that spread the signal.
MCTwoResponses == {Response(1, {}), Response(1, {0, 1})}

\* The second band touches the first, the third overlaps both; the last one is
\* wider than twice its center and reaches below zero.
MCBands == {Band(4, 2), Band(8, 2), Band(6, 1), Band(2, 3)}

MCOneBand == {Band(4, 2)}

\* Two senders, one of which sends again, the end of the cycle and a close at the
\* wrong time: more transmissions and signals than there are ids when MaxId is 2.
MCTwoCloses ==
  MCTwoSenders \cup {TxStart(1, 3, 1, 0, <<2>>), CycleClose(1, 5, 2)}

\* Node 3 is steered while its signal lasts.
MCSteered ==
  {TxStart(1, 1, 1, 0, <<3>>), Steer(1, 3, 3, 3), CycleClose(1, 6, 1)}

\* Requests the executor refuses, a second close, a close at the wrong time,
\* a transmission at the time of the close, a change of velocity that takes
\* effect when its event runs and one that is dated past the close.
MCMistakes ==
  {TxStart(1, 1, 1, 0, <<3>>), TxStart(1, 1, 2, 0, <<3, 1>>),
   CycleClose(1, 4, 1), CycleClose(1, 4, 2), CycleClose(1, 3, 3),
   TxStart(1, 1, 4, 0, <<3>>), TxStart(1, 2, 1, 0, <<3, 1, 3>>),
   Steer(1, 2, 3, 2), Steer(1, 2, 1, 5)}

\* Answers to the query of another transmission, packet or receiver.
MCMisrouted ==
  {[transmission |-> 1, packet |-> 10, sender |-> 1, startedAt |-> 1,
    receiver |-> 1],
   [transmission |-> 2, packet |-> 10, sender |-> 1, startedAt |-> 1,
    receiver |-> 3]}

\* More of them: a sender that cannot transmit and is not eligible yet, a deaf
\* receiver.
MCRefused ==
  MCTwoSenders \cup {TxStart(1, 3, 4, 4, <<3>>), TxStart(1, 3, 1, 0, <<4>>)}

\* Two cycles in which a node is steered.  The second one starts at the instant
\* the first one closes: ScheduleAt refuses a transmission at its start.  A second
\* close of the first cycle fails at a later time.
MCTwoCycles ==
  {TxStart(1, 1, 1, 0, <<3, 2>>), TxStart(1, 1, 2, 0, <<3>>),
   Steer(1, 3, 1, 3), CycleClose(1, 4, 1),
   TxStart(2, 4, 1, 0, <<3>>), TxStart(2, 5, 2, 0, <<3>>),
   Steer(2, 7, 1, 7), CycleClose(2, 8, 1), CycleClose(1, 8, 2)}
===============================================================================

-------------------------------- MODULE Signals --------------------------------
(***************************************************************************)
(* What passes between the runtime and its providers, and the signal at    *)
(* one receiver that comes out of it: contracts/tx_phy.hpp, channel.hpp,   *)
(* received_signal.hpp, receiver_window.hpp, noise.hpp and rx_phy.hpp.     *)
(*                                                                         *)
(* Times are counts of nanoseconds, a band is its center frequency and     *)
(* half its bandwidth, a response is the first arrival delay and the set   *)
(* of the excess delays of its paths, empty or with a zero in it.  Gains,  *)
(* phases, losses, levels, positions and the outcome of a decoder are      *)
(* carried along and never decide anything here: they are left out.        *)
(***************************************************************************)
EXTENDS SimTime, FiniteSetsExt

CONSTANT NoSignal   \* the error of ReceivedSignal::Create

\* What TxEmission::Create lets an encoder answer.
IsEmission(duration, band) ==
  duration \in Nat /\ {band.center, band.half} \subseteq Nat \ {0}

\* What ChannelFieldResponse::Create lets a channel provider answer.
IsResponse(response) ==
  /\ response.delay \in Nat
  /\ response.excess \subseteq Nat
  /\ response.excess # {} => 0 \in response.excess

\* ValidateTxEmissionIdentity: the emission is of this packet and request.
IsEmissionOf(request, emission) ==
  /\ emission.transmission = request.transmission
  /\ emission.packet = request.packet
  /\ emission.sender = request.sender
  /\ emission.startedAt = request.startedAt

\* ValidateChannelFieldResponseIdentity.
IsResponseTo(transmission, receiver, response) ==
  response.transmission = transmission /\ response.receiver = receiver

LatestExcessDelay(response) == Max(response.excess \cup {0})

\* ReceivedSignal::Create and the accessors it guards from overflow.
ReceivedSignal(emission, response) ==
  LET from == CheckedAddCounts(emission.startedAt, response.delay)
      last == IF from = NoCount
                THEN NoCount
                ELSE CheckedAddCounts(from, LatestExcessDelay(response))
      end  == IF last = NoCount
                THEN NoCount
                ELSE CheckedAddCounts(last, emission.duration)
  IN  IF end = NoCount \/ emission.transmission # response.transmission
        THEN NoSignal
        ELSE [transmission |-> emission.transmission,
              packet |-> emission.packet, receiver |-> response.receiver,
              from |-> from, until |-> end,
              lower |-> emission.band.center - emission.band.half,
              upper |-> emission.band.center + emission.band.half]

\* Mutant: signals that touch overlap.
HasClosedTemporalOverlap(s, t) == Max({s.from, t.from}) <= Min({s.until, t.until})

\* Half-open intervals and open bands: touching is not overlapping.
HasTemporalOverlap(s, t) == Max({s.from, t.from}) < Min({s.until, t.until})

HasSpectralOverlap(s, t) == Max({s.lower, t.lower}) < Min({s.upper, t.upper})

HasP0SignalOverlap(s, t) ==
  /\ s.receiver = t.receiver
  /\ HasTemporalOverlap(s, t)
  /\ HasSpectralOverlap(s, t)

\* What ReceiverWindow::Create asks of a desired signal and its overlaps.
IsReceiverWindow(desired, overlaps) ==
  /\ \A s \in overlaps : /\ s.transmission # desired.transmission
                        /\ HasP0SignalOverlap(desired, s)
  /\ \A s, t \in overlaps : s.transmission = t.transmission => s = t

\* What NoiseQuery::Create asks of the window of a desired signal.
MayQueryNoise(s) == s.from < s.until /\ 0 <= s.lower /\ s.lower < s.upper

\* CreateNoiseQueryForDesiredSignal, and the observation that answers it.
NoiseQuery(s) == [receiver |-> s.receiver, from |-> s.from, until |-> s.until,
                  lower |-> s.lower, upper |-> s.upper]

\* ValidateNoiseObservationIdentity, and again RxDecodeRequest::Create.
IsObservationOf(s, observation) == observation = NoiseQuery(s)

\* Mutant: an answer about any signal of the receiver is taken.
IsDecodeResultNear(s, result) == result.receiver = s.receiver

\* ValidateRxDecodeResultIdentity.
IsDecodeResultOf(s, result) ==
  /\ result.transmission = s.transmission
  /\ result.packet = s.packet
  /\ result.receiver = s.receiver
===============================================================================

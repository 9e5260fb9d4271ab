--------------------------- MODULE RateControllers ---------------------------
(***************************************************************************)
(* The two controllers that keep statistics of the acks, side by side and  *)
(* driven by the same callbacks.  Acks come at times that do not decrease, *)
(* several of them in one millisecond, and datagram 0 may be acknowledged  *)
(* first, late, twice or never.                                            *)
(***************************************************************************)
EXTENDS Integers, Sequences, FiniteSets, FiniteSetsExt

CONSTANTS PacketSize, NumSamples, MaxDouble, Scale, IntSize,
          Rtts,             \* round-trip times, in ms
          Gaps,             \* times between two acks, in ms
          MaxSent,          \* bound: datagrams sent
          MaxAcks,          \* bound: acks
          MaxDup            \* bound: acks of a datagram acknowledged before

ASSUME RateControllersAssumption ==
    /\ PacketSize \in Nat \ {0} /\ NumSamples \in Nat /\ NumSamples > 1
    /\ MaxDouble \in Nat \ {0}
    /\ Scale \in Nat \ {0} /\ Scale % 10 = 0
    /\ IntSize \in Nat \ {0} /\ IntSize % 2 = 0
    /\ Rtts \subseteq Nat /\ Gaps \subseteq Nat
    /\ MaxSent \in Nat /\ MaxAcks \in Nat /\ MaxDup \in Nat

VARIABLES jm_state, jm_inflight, jm_cwnd_gain, jm_pacing_gain, jm_bytes,
          jm_samples, jm_data,
          j2_cwnd, j2_min, j2_increased, j2_bytes, j2_samples, j2_data,
          sent, arrivals, zeros   \* history: datagrams sent, when each ack
                                  \* came, how many acks were of datagram 0

JM == INSTANCE ExDJMController WITH
    bbr_state <- jm_state, inflight_packets <- jm_inflight,
    cwnd_gain <- jm_cwnd_gain, pacing_gain <- jm_pacing_gain,
    num_bytes_sent <- jm_bytes, rtt_samples <- jm_samples,
    time_to_data_map <- jm_data

JM2 == INSTANCE ExDJM2Controller WITH
    cwnd <- j2_cwnd, previous_min_rtt <- j2_min,
    did_increase_cwnd <- j2_increased, num_bytes_sent <- j2_bytes,
    rtt_samples <- j2_samples, time_to_data_map <- j2_data

j2Vars == <<j2_cwnd, j2_min, j2_increased, j2_bytes, j2_samples, j2_data>>
vars == <<jm_state, jm_inflight, jm_cwnd_gain, jm_pacing_gain, jm_bytes,
          jm_samples, jm_data, j2Vars, sent, arrivals, zeros>>

Init == /\ JM!Init /\ JM2!Init
        /\ sent = 0 /\ arrivals = <<>> /\ zeros = 0

\* assert(delta_time > 0) in delivery_rates() has failed, in both programs alike
Aborted == ~JM!DeltasArePositive(jm_data)

DatagramWasSent ==
    /\ ~Aborted /\ sent < MaxSent
    /\ sent' = sent + 1
    /\ JM!DatagramWasSent
    /\ UNCHANGED <<j2Vars, arrivals, zeros>>

LastArrival == IF arrivals = <<>> THEN 0 ELSE arrivals[Len(arrivals)]

AckReceived(number, rtt, gap) ==
    /\ ~Aborted /\ Len(arrivals) < MaxAcks /\ Len(arrivals) < sent + MaxDup
    /\ number = 0 => zeros <= MaxDup
    /\ LET at == LastArrival + gap
       IN  /\ JM!AckReceived(rtt, at)
           /\ JM2!AckReceived(number, rtt, at)
           /\ arrivals' = Append(arrivals, at)
    /\ zeros' = IF number = 0 THEN zeros + 1 ELSE zeros
    /\ UNCHANGED sent

Next == \/ DatagramWasSent
        \/ \E number \in {0, 1}, rtt \in Rtts, gap \in Gaps :
               AckReceived(number, rtt, gap)

Spec == Init /\ [][Next]_vars

-----------------------------------------------------------------------------
TypeOK ==
    /\ jm_state \in {"STARTUP", "DRAIN", "PROBE_BW"}
    /\ jm_inflight \in -MaxDup..MaxSent
    /\ jm_cwnd_gain \in Nat /\ jm_pacing_gain \in Nat \ {0}
    /\ jm_bytes \in Nat /\ jm_samples \in Seq(Rtts)
    /\ JM!WindowSize \in Nat /\ JM!TimeoutMs \in Nat \ {0}
    /\ j2_cwnd \in Nat /\ j2_min \in Nat /\ j2_increased \in BOOLEAN
    /\ j2_bytes \in Nat /\ j2_samples \in Seq(Rtts)
    /\ sent \in 0..MaxSent /\ zeros \in Nat
    /\ arrivals \in Seq(Nat) /\ Len(arrivals) <= MaxAcks

\* every time so far has been the same number as an int
TimesFitInt == LastArrival < IntSize \div 2

(***************************************************************************)
(* The map keeps the first entry of a millisecond, so a delivery rate is   *)
(* that of the acks of the millisecond before: no ack is left out of the   *)
(* rates, and none is counted twice, for as long as times fit an int       *)
(* (exercised_jm.cc:99-126 and 201, exercised_jm2.cc:117-144 and 224).     *)
(***************************************************************************)
AcksAt(t) == Cardinality({i \in DOMAIN arrivals : arrivals[i] = t})

RateCountsPreviousAcks ==
    TimesFitInt =>
        \A data \in {jm_data, j2_data} :
            \A t \in JM!RateTimes(data) :
                LET prev == JM!Previous(data, t)
                IN  JM!DeliveryRate(data, t)
                        = (Scale * PacketSize * AcksAt(prev)) \div (t - prev)

(***************************************************************************)
(* A datagram that is lost stays in inflight_packets_ for ever, and drain  *)
(* mode ends only when no more are counted there than the square of the    *)
(* minimum round trip allows at the largest burst of acks there was: on a  *)
(* path of less than a millisecond it never ends unless acks come twice    *)
(* (exercised_jm.cc:177, 187 and 222).  Times fit an int.                  *)
(***************************************************************************)
LargestBurst == Max({0} \cup {AcksAt(arrivals[i]) : i \in DOMAIN arrivals})

LossKeepsDraining ==
    [][ (jm_state = "DRAIN" /\ jm_state' = "PROBE_BW" /\ TimesFitInt') =>
          LET rtt      == JM!SlidingMinRtt(jm_samples')
              unacked  == sent - Len(arrivals')
          IN  IF rtt = 0 THEN unacked < 0
              ELSE unacked <= rtt * rtt * LargestBurst' ]_vars

(***************************************************************************)
(* "Delivery rate increased from cwnd growth!!!" (exercised_jm2.cc:247):   *)
(* the window then grows by more than the tenth it grows by at any rate.   *)
(***************************************************************************)
RateGainIsRewarded ==
    [][ (/\ Len(arrivals') > Len(arrivals) /\ zeros' = zeros /\ ~Aborted'
         /\ j2_increased
         /\ JM2!RttIsStable(j2_samples') /\ JM2!RateIncreased(j2_data')) =>
          j2_cwnd' > j2_cwnd + Scale \div 10 ]_vars

(***************************************************************************)
(* However large a round trip is, the window is not pulled back before a   *)
(* smaller one is forgotten, unless one took less than a millisecond; and  *)
(* the initial previous minimum of 0 pulls nothing back, because nothing   *)
(* has grown before it                                                     *)
(* (exercised_jm2.cc:212-215 and 243-258).                                 *)
(***************************************************************************)
SpikesAreSeenLate ==
    [][ j2_cwnd' < j2_cwnd
        => \/ Len(j2_samples') > NumSamples - 1
           \/ \E i \in DOMAIN j2_samples : j2_samples[i] = 0 ]_vars

(***************************************************************************)
(* The inductive invariant: both controllers have seen the same acks, the  *)
(* keys of a map are when they came, as int, and while times fit one each  *)
(* entry is that of the first ack of its millisecond.                      *)
(***************************************************************************)
ArrivalsInOrder ==
    \A i, j \in DOMAIN arrivals : i <= j => arrivals[i] <= arrivals[j]

AcksBefore(t) == Cardinality({i \in DOMAIN arrivals : arrivals[i] < t})

KeysAreTimes(data) ==
    /\ DOMAIN data = {JM!ToInt(arrivals[i]) : i \in DOMAIN arrivals}
    /\ \A t \in DOMAIN data : data[t] \in 0..(PacketSize * MaxAcks)

CountsFirstAcks(data) ==
    TimesFitInt =>
        /\ DOMAIN data = {arrivals[i] : i \in DOMAIN arrivals}
        /\ \A t \in DOMAIN data : data[t] = PacketSize * (AcksBefore(t) + 1)

AcksAreCounted ==
    /\ Len(jm_samples) = Len(arrivals) /\ Len(j2_samples) = Len(arrivals)
    /\ jm_bytes = PacketSize * Len(arrivals)
    /\ j2_bytes = PacketSize * Len(arrivals)
    /\ jm_inflight = sent - Len(arrivals)
    /\ zeros <= Len(arrivals)

MinimumIsKept ==
    IF j2_samples = <<>> THEN j2_min = 0 /\ ~j2_increased
    ELSE j2_min = JM2!MinRtt(j2_samples)

IInv ==
    /\ TypeOK
    /\ ArrivalsInOrder
    /\ KeysAreTimes(jm_data) /\ KeysAreTimes(j2_data)
    /\ CountsFirstAcks(jm_data) /\ CountsFirstAcks(j2_data)
    /\ AcksAreCounted
    /\ MinimumIsKept
=============================================================================

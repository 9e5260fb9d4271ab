--------------------------- MODULE ExDJM2Controller --------------------------
(***************************************************************************)
(* The controller of src/datagrump/exercised_jm2.cc: the window grows      *)
(* while the minimum round trip is stable and is pulled back, once, when   *)
(* it jumps.  The double cwnd_ is an integer multiple of 1/Scale.          *)
(*                                                                         *)
(* inflight_packets_, min_rtt_delta_samples_, cwnd_gain_ and the product   *)
(* window_size() computes first reach the log only, and are left out.      *)
(***************************************************************************)
EXTENDS AckStatistics

VARIABLES cwnd, previous_min_rtt, did_increase_cwnd,
          num_bytes_sent, rtt_samples, time_to_data_map

Larger(a, b) == IF a >= b THEN a ELSE b

Init ==
    /\ cwnd = Scale
    /\ previous_min_rtt = 0
    /\ did_increase_cwnd = FALSE
    /\ num_bytes_sent = 0
    /\ rtt_samples = <<>>
    /\ time_to_data_map = NoData

WindowSize == Larger(cwnd, Scale) \div Scale

MinRtt(samples) == SlidingMinRtt(samples)

RttChange(samples) == MinRtt(samples) - previous_min_rtt

(***************************************************************************)
(* rtt_change_percent < 5.  With a previous minimum of 0 the percentage is *)
(* infinite, or not a number, and the comparison is false.                 *)
(***************************************************************************)
RttIsStable(samples) ==
    previous_min_rtt > 0 /\ 100 * RttChange(samples) < 5 * previous_min_rtt

Half == (1 \div 2) * Scale      \* 1/2, of two ints

RateIncreased(data) == DeliveryRateIncreased(data, 110)

Grown(data) ==
    cwnd + Scale \div 10
         + (IF did_increase_cwnd /\ RateIncreased(data) THEN Half ELSE 0)

\* a faulty variant: pulls back at every jump
PulledBackAlways == (6 * cwnd) \div 10

PulledBack == IF did_increase_cwnd THEN (6 * cwnd) \div 10 ELSE cwnd

\* as in the other controller, the log's delivery rates may abort the program
AckReceived(sequence_number_acked, rtt, timestamp_ack_received) ==
    /\ rtt_samples' = Append(rtt_samples, rtt)
    /\ previous_min_rtt' = MinRtt(rtt_samples')
    /\ num_bytes_sent' = num_bytes_sent + PacketSize
    /\ time_to_data_map' = Emplace(time_to_data_map, timestamp_ack_received,
                                   num_bytes_sent')
    /\ \/ /\ DeltasArePositive(time_to_data_map')
          /\ cwnd' = IF sequence_number_acked = 0 THEN cwnd + Scale
                     ELSE IF RttIsStable(rtt_samples')
                     THEN Grown(time_to_data_map')
                     ELSE PulledBack
          /\ did_increase_cwnd' = (cwnd' > cwnd)
       \/ /\ ~DeltasArePositive(time_to_data_map')
          /\ UNCHANGED <<cwnd, did_increase_cwnd>>
=============================================================================

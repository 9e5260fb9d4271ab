--------------------------- MODULE ExDJMController ---------------------------
(***************************************************************************)
(* The BBR-like controller of src/datagrump/exercised_jm.cc.  Gains are    *)
(* percentages.  cwnd_ and last_sequence_number_acked_ are written and     *)
(* never read, and are left out.                                           *)
(***************************************************************************)
EXTENDS AckStatistics

VARIABLES bbr_state,            \* "STARTUP", "DRAIN" or "PROBE_BW"
          inflight_packets,     \* an int: duplicates may take it below 0
          cwnd_gain, pacing_gain,
          num_bytes_sent, rtt_samples, time_to_data_map

HighGain == 288

Larger(a, b) == IF a >= b THEN a ELSE b

Init ==
    /\ bbr_state = "STARTUP"
    /\ inflight_packets = 0
    /\ cwnd_gain = 80 /\ pacing_gain = 90
    /\ num_bytes_sent = 0
    /\ rtt_samples = <<>>
    /\ time_to_data_map = NoData

Bdp == BandwidthDelayProduct(rtt_samples, time_to_data_map)

WindowSize == Larger(4, (Bdp * cwnd_gain) \div (100 * Scale))

\* a faulty variant: no minimum
PacketTimeUnbounded(bandwidth) ==
    (100 * Scale * PacketSize) \div (pacing_gain * bandwidth)

PacketTime(bandwidth) ==
    Larger((100 * Scale * PacketSize) \div (pacing_gain * bandwidth), 1)

(***************************************************************************)
(* PACKET_SIZE_BYTES / (pacing_gain_ * bandwidth).  With no bandwidth yet  *)
(* the infinity is converted to int, which x86 makes INT_MIN, and the      *)
(* maximum is 1.                                                           *)
(***************************************************************************)
TimeoutMs ==
    LET bandwidth == SlidingMaxBandwidth(time_to_data_map)
    IN  IF bandwidth = 0 THEN 1 ELSE PacketTime(bandwidth)

\* a faulty variant: the send is not counted
DatagramWasNotCounted ==
    UNCHANGED <<bbr_state, inflight_packets, cwnd_gain, pacing_gain,
                num_bytes_sent, rtt_samples, time_to_data_map>>

DatagramWasSent ==
    /\ inflight_packets' = inflight_packets + 1
    /\ UNCHANGED <<bbr_state, cwnd_gain, pacing_gain, num_bytes_sent,
                   rtt_samples, time_to_data_map>>

(***************************************************************************)
(* inflight_bdp() <= bandwidth_delay_product().  A minimum round trip of 0 *)
(* makes the left side infinite, or not a number.                          *)
(***************************************************************************)
HasDrained(inflight, samples, data) ==
    LET min_rtt == SlidingMinRtt(samples)
    IN  IF min_rtt = 0 THEN inflight < 0
        ELSE Scale * PacketSize * inflight
                 <= min_rtt * BandwidthDelayProduct(samples, data)

SwitchToModeDrain ==
    /\ bbr_state' = "DRAIN"
    /\ pacing_gain' = 10000 \div HighGain
    /\ cwnd_gain' = HighGain

SwitchToModeProbeBw ==
    /\ bbr_state' = "PROBE_BW"
    /\ pacing_gain' = 100
    /\ cwnd_gain' = 200

(***************************************************************************)
(* The statistics, whose delivery rates the log asks for before the mode   *)
(* is looked at: if the assertion fails there, the program is aborted.     *)
(***************************************************************************)
AckReceived(rtt, timestamp_ack_received) ==
    /\ inflight_packets' = inflight_packets - 1
    /\ rtt_samples' = Append(rtt_samples, rtt)
    /\ num_bytes_sent' = num_bytes_sent + PacketSize
    /\ time_to_data_map' = Emplace(time_to_data_map, timestamp_ack_received,
                                   num_bytes_sent')
    /\ \/ /\ DeltasArePositive(time_to_data_map')
          /\ CASE bbr_state = "STARTUP" ->
                    IF DeliveryRateIncreased(time_to_data_map', 120)
                    THEN /\ cwnd_gain' = HighGain /\ pacing_gain' = HighGain
                         /\ UNCHANGED bbr_state
                    ELSE SwitchToModeDrain
               [] bbr_state = "DRAIN" ->
                    IF HasDrained(inflight_packets', rtt_samples',
                                  time_to_data_map')
                    THEN SwitchToModeProbeBw
                    ELSE UNCHANGED <<bbr_state, cwnd_gain, pacing_gain>>
               [] OTHER -> UNCHANGED <<bbr_state, cwnd_gain, pacing_gain>>
       \/ /\ ~DeltasArePositive(time_to_data_map')
          /\ UNCHANGED <<bbr_state, cwnd_gain, pacing_gain>>
=============================================================================

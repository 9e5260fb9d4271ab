-------------------------- MODULE ExDLHController ---------------------------
(***************************************************************************)
(* The controller of src/datagrump/exercised_lh.cc: the window is the      *)
(* number of datagrams that leave the network in one round trip, estimated *)
(* from the spacing of the receiver's time stamps.                         *)
(*                                                                         *)
(* A double is an integer multiple of 1/Scale.  outstanding_packets_ and   *)
(* the static last_recv_timestamp are unsigned int: they wrap at           *)
(* UnsignedSize, while the time stamps are 64-bit words.                   *)
(***************************************************************************)
EXTENDS Integers

CONSTANTS Scale,
          UnsignedSize,     \* 2^32
          MaxWindowSize,    \* 80
          MinWindowSize,    \* 5
          InitialRtt        \* 80 ms

VARIABLES rtt_estimate,         \* in ms
          ewma_rate,            \* ms for one datagram, in units of 1/Scale
          outstanding_packets,
          last_recv_timestamp   \* the static local; Unseen before the first ack

Unseen == -1

Larger(a, b) == IF a >= b THEN a ELSE b
Smaller(a, b) == IF a <= b THEN a ELSE b

Init ==
    /\ rtt_estimate = InitialRtt
    /\ ewma_rate = (24 * Scale) \div 10
    /\ outstanding_packets = 0
    /\ last_recv_timestamp = Unseen

(***************************************************************************)
(* rtt_estimate_ / ewma_rate_ rounded to the nearest, and bounded.         *)
(***************************************************************************)
PacketsLeaving ==
    Smaller((2 * rtt_estimate * Scale + ewma_rate) \div (2 * ewma_rate),
            MaxWindowSize)

\* a faulty variant: the draining check tolerates one datagram too many
WindowSizeLax ==
    IF outstanding_packets > PacketsLeaving + 1 THEN 0
    ELSE Larger(PacketsLeaving, MinWindowSize)

WindowSize ==
    IF outstanding_packets > PacketsLeaving THEN 0
    ELSE Larger(PacketsLeaving, MinWindowSize)

\* a faulty variant: does not count
DatagramWasNotCounted ==
    UNCHANGED <<rtt_estimate, ewma_rate, outstanding_packets,
                last_recv_timestamp>>

DatagramWasSent ==
    /\ outstanding_packets' = (outstanding_packets + 1) % UnsignedSize
    /\ UNCHANGED <<rtt_estimate, ewma_rate, last_recv_timestamp>>

\* a faulty variant: the count is signed
AckReceivedSigned(recv_timestamp, rtt) ==
    /\ outstanding_packets' = outstanding_packets - 1
    /\ rtt_estimate' = Smaller(rtt, rtt_estimate)
    /\ last_recv_timestamp' = recv_timestamp % UnsignedSize
    /\ UNCHANGED ewma_rate

(***************************************************************************)
(* The static is initialised by the first ack, with its own time stamp.    *)
(***************************************************************************)
AckReceived(recv_timestamp, rtt) ==
    LET last    == IF last_recv_timestamp = Unseen
                   THEN recv_timestamp % UnsignedSize ELSE last_recv_timestamp
        current == Larger((recv_timestamp - last) * Scale, (3 * Scale) \div 10)
    IN  /\ outstanding_packets' =
             (outstanding_packets + UnsignedSize - 1) % UnsignedSize
        /\ rtt_estimate' = Smaller(rtt, rtt_estimate)
        /\ ewma_rate' = (3 * current + 7 * ewma_rate) \div 10
        /\ last_recv_timestamp' = recv_timestamp % UnsignedSize
=============================================================================

---------------------------- MODULE DatagrumpLH -----------------------------
(***************************************************************************)
(* The datagrump protocol with the ExDLHController in place of the         *)
(* abstract controller: the callbacks send_datagram and got_ack make are   *)
(* steps of the controller, and the window is what it answers.             *)
(***************************************************************************)
EXTENDS Datagrump

CONSTANTS Scale, UnsignedSize, MaxWindowSize, MinWindowSize, InitialRtt

ASSUME LHAssumption ==
    /\ Scale \in Nat \ {0} /\ Scale % 10 = 0
    /\ UnsignedSize \in Nat \ {0}
    /\ MaxWindowSize \in Nat /\ MinWindowSize \in Nat /\ InitialRtt \in Nat

VARIABLES rtt_estimate, ewma_rate, outstanding_packets, last_recv_timestamp

lhVars == <<rtt_estimate, ewma_rate, outstanding_packets, last_recv_timestamp>>

LH == INSTANCE ExDLHController

LHInit == Init /\ LH!Init /\ window = LH!WindowSize

(***************************************************************************)
(* send_datagram calls datagram_was_sent, unless send() has thrown.        *)
(***************************************************************************)
LHSend ==
    /\ CloseWindow \/ SendOnTimeout
    /\ IF pc' = "aborted" THEN UNCHANGED lhVars
       ELSE LH!DatagramWasSent /\ window' = LH!WindowSize'

LHGotAck ==
    /\ GotAck
    /\ IF pc' = "aborted" THEN UNCHANGED lhVars
       ELSE /\ LH!AckReceived(sample'.recv_timestamp_acked,
                              MinusWord(sample'.timestamp_ack_received,
                                        sample'.send_timestamp_acked))
            /\ window' = LH!WindowSize'

LHOther ==
    /\ \/ PollReady \/ PollError \/ PollTimeout \/ WindowClosed
       \/ Acknowledge \/ ReceiverStops \/ ReceiverRestarts
       \/ Network \/ Lose \/ Tick
    /\ UNCHANGED lhVars

LHNext == LHSend \/ LHGotAck \/ LHOther

LHSpec == LHInit /\ [][LHNext]_<<vars, lhVars>>

-----------------------------------------------------------------------------
LHTypeOK ==
    /\ rtt_estimate \in 0..InitialRtt
    /\ ewma_rate \in Nat \ {0}
    /\ outstanding_packets \in 0..(UnsignedSize - 1)
    /\ last_recv_timestamp \in (0..(UnsignedSize - 1)) \cup {LH!Unseen}

(***************************************************************************)
(* outstanding_packets_ counts, next to the datagrams and acks in flight,  *)
(* every one that was ever lost, and misses one for every duplicate: it    *)
(* leaks (exercised_lh.cc:62 and 83).                                      *)
(***************************************************************************)
OutstandingLeaks ==
    stops = 0 => outstanding_packets
                      = (InFlight + lost - duplicated) % UnsignedSize

(***************************************************************************)
(* The inductive invariant: as long as the receiver has not stopped, each  *)
(* ack in flight has a number of its own, so that none is counted twice,   *)
(* and no more were made than datagrams and duplicates.                    *)
(***************************************************************************)
AcksAreNumbered ==
    stops = 0 =>
        /\ \A m \in acks : m.sequence_number < receiverNumber
        /\ receiverNumber + Len(receiverSocket) + Cardinality(data)
               <= sequence_number + duplicated

LHInv == LHTypeOK /\ AcksAreNumbered /\ OutstandingLeaks

(***************************************************************************)
(* Once more were lost than MaxWindowSize and the duplicates, the window   *)
(* is closed and stays so, also below the minimum window, which is applied *)
(* after the check for too many outstanding: only timeouts send            *)
(* (exercised_lh.cc:32-35).                                                *)
(***************************************************************************)
LossClosesTheWindow ==
    (stops = 0 /\ lost > duplicated + MaxWindowSize) => window = 0

(***************************************************************************)
(* "On receipt of an ACK, estimate the EWMA of the rate seen at the        *)
(* receiver" (exercised_lh.cc:87): no datagrams were further apart at the  *)
(* receiver than the time that has passed, so nor is their average.        *)
(***************************************************************************)
RateWasSeen == ewma_rate <= IF now * Scale >= (24 * Scale) \div 10
                            THEN now * Scale ELSE (24 * Scale) \div 10
=============================================================================

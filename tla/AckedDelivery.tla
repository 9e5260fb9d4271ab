---------------------------- MODULE AckedDelivery ----------------------------
(***************************************************************************)
(* What the datagrump protocol promises, with no network, sockets, clocks  *)
(* or windows in it: datagrams 0, 1, 2, ... are sent once each, some of    *)
(* them are delivered, and the sender's counter is moved up past one that  *)
(* was.  Nothing is promised about the order of delivery, nor that what    *)
(* lies below the counter was delivered: next_ack_expected_ in             *)
(* src/datagrump/sender.cc is not a cumulative acknowledgment.             *)
(***************************************************************************)
EXTENDS Naturals

VARIABLES sent,         \* how many datagrams were sent; also the next number
          delivered,    \* which of them the receiver has acknowledged
          acked         \* one past the highest the sender knows delivered

vars == <<sent, delivered, acked>>

Init == sent = 0 /\ delivered = {} /\ acked = 0

Transmit == sent' = sent + 1 /\ UNCHANGED <<delivered, acked>>

Deliver(s) == delivered' = delivered \cup {s} /\ UNCHANGED <<sent, acked>>

Acknowledge(s) ==
    /\ acked <= s
    /\ acked' = s + 1
    /\ UNCHANGED <<sent, delivered>>

Next == \/ Transmit
        \/ \E s \in 0..(sent - 1) : Deliver(s)
        \/ \E s \in delivered : Acknowledge(s)

Spec == Init /\ [][Next]_vars
=============================================================================

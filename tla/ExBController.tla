---------------------------- MODULE ExBController ---------------------------
(***************************************************************************)
(* Additive increase, multiplicative decrease                              *)
(* (src/datagrump/exerciseb.cc): alpha_ = 0.1, beta_ = 1.5, and a timeout  *)
(* is the congestion signal.  The double cwnd_ is an integer multiple of   *)
(* 1/Scale, rounded down.                                                  *)
(***************************************************************************)
EXTENDS Integers

CONSTANTS Scale,
          InitialCwnd       \* 10 in the code

VARIABLE cwnd

Init == cwnd = InitialCwnd * Scale

Largest(a, b) == IF a >= b THEN a ELSE b

WindowSize == cwnd \div Scale

\* a faulty variant: no minimum
DivideByBetaUnbounded == (2 * cwnd) \div 3

DivideByBeta == Largest((2 * cwnd) \div 3, Scale)

DatagramWasSent(on_timeout) ==
    cwnd' = IF on_timeout THEN DivideByBeta ELSE cwnd

\* a faulty variant: alpha for each ack, not for each window of acks
AckReceivedAdds == cwnd' = cwnd + Scale \div 10

AckReceived == cwnd' = cwnd + (Scale * Scale) \div (10 * cwnd)
=============================================================================

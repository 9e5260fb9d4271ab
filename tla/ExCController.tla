---------------------------- MODULE ExCController ---------------------------
(***************************************************************************)
(* The delay-triggered controller of src/datagrump/exercisec.cc: the       *)
(* window shrinks by beta_/cwnd_ when a round trip takes more than 1.4     *)
(* times the moving average, and else grows by alpha_/cwnd_ (alpha_ = 2,   *)
(* beta_ = 5, weight_ = 0.01).  A double is an integer multiple of 1/Scale.*)
(***************************************************************************)
EXTENDS Integers

CONSTANTS Scale,
          InitialCwnd       \* 10 in the code

VARIABLES cwnd, rtt_thresh_ms, rtt_min

Larger(a, b) == IF a >= b THEN a ELSE b
Smaller(a, b) == IF a <= b THEN a ELSE b

Init == /\ cwnd = InitialCwnd * Scale
        /\ rtt_thresh_ms = 50 * Scale
        /\ rtt_min = 80 * Scale

WindowSize == cwnd \div Scale

\* a faulty variant: the threshold is reset to the round trip that exceeded it
ResetToSample(rtt) == rtt * Scale

ResetTo(rtt) == Smaller(rtt_min, rtt * Scale)

AckReceived(rtt) ==
    LET thresh == (rtt * Scale + 99 * rtt_thresh_ms) \div 100
    IN  /\ rtt_min' = Smaller(rtt_min, rtt * Scale)
        /\ IF 10 * rtt * Scale > 14 * thresh
           THEN /\ cwnd' = Larger(cwnd - (5 * Scale * Scale) \div cwnd, Scale)
                /\ rtt_thresh_ms' = ResetTo(rtt)
           ELSE /\ cwnd' = cwnd + (2 * Scale * Scale) \div cwnd
                /\ rtt_thresh_ms' = thresh
=============================================================================

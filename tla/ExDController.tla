---------------------------- MODULE ExDController ---------------------------
(***************************************************************************)
(* The controller the sender uses, src/datagrump/exercised.cc: as in       *)
(* exercisec.cc, but the average is reset to the minimum of the latest     *)
(* round trips only, NumSamples of them (2000 in the code).  A double is   *)
(* an integer multiple of 1/Scale, rounded down.                           *)
(***************************************************************************)
EXTENDS Integers, Sequences

CONSTANTS Scale,
          InitialCwnd,      \* 10 in the code
          NumSamples,       \* 2000 in the code
          MaxDouble         \* numeric_limits<double>::max()

VARIABLES cwnd, rtt_average, rtt_min, rtt_samples

Larger(a, b) == IF a >= b THEN a ELSE b
Smaller(a, b) == IF a <= b THEN a ELSE b

Init == /\ cwnd = InitialCwnd * Scale
        /\ rtt_average = 50 * Scale
        /\ rtt_min = 80 * Scale
        /\ rtt_samples = <<>>

WindowSize == cwnd \div Scale

\* a faulty variant: the search starts from zero
SearchStartZero == 0

SearchStart == MaxDouble

(***************************************************************************)
(* sliding_min_rtt: count goes from 1, and the search ends when            *)
(* count >= num_samples.  It sees one sample fewer than num_samples.       *)
(***************************************************************************)
Rounds(samples, num_samples) == Smaller(Len(samples), num_samples - 1)

(* From the last sample to the first; least[n] is the minimum of n rounds. *)
SlidingMinRtt(samples, num_samples) ==
    LET least[n \in 0..Rounds(samples, num_samples)] ==
            IF n = 0 THEN SearchStart
            ELSE Smaller(samples[Len(samples) - n + 1], least[n - 1])
    IN  least[Rounds(samples, num_samples)]

\* a faulty variant: no minimum
DecreaseUnbounded == cwnd - (5 * Scale * Scale) \div cwnd

Decrease == Larger(cwnd - (5 * Scale * Scale) \div cwnd, Scale)

\* a faulty variant: alpha for each ack, not for each window of acks
IncreaseByAlpha == cwnd + 2 * Scale

Increase == cwnd + (2 * Scale * Scale) \div cwnd

AckReceived(rtt) ==
    LET average == (rtt * Scale + 99 * rtt_average) \div 100
        exceeds == 10 * rtt * Scale > 14 * average
    IN  /\ rtt_samples' = Append(rtt_samples, rtt)
        /\ rtt_min' = SlidingMinRtt(rtt_samples', NumSamples) * Scale
        /\ cwnd' = IF exceeds THEN Decrease ELSE Increase
        /\ rtt_average' = IF exceeds THEN rtt_min' ELSE average
=============================================================================

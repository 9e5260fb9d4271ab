----------------------------- MODULE Controllers ----------------------------
(***************************************************************************)
(* The window controllers side by side, driven by the same callbacks of    *)
(* the sender: datagram_was_sent and ack_received with a round-trip time,  *)
(* in any order and with any times of Rtts.  That a controller computes    *)
(* the true round-trip time is RoundTripIsTrue of Datagrump.               *)
(***************************************************************************)
EXTENDS Integers, Sequences, FiniteSets, FiniteSetsExt

CONSTANTS Scale, InitialCwnd, NumSamples,
          MaxDouble,        \* the largest double
          Rtts,             \* round-trip times, in ms
          MaxAcks,          \* bound: acks received
          MaxTimeouts       \* bound: datagrams sent on a timeout

ASSUME ControllersAssumption ==
    /\ Scale \in Nat /\ Scale >= 10 /\ InitialCwnd \in Nat \ {0}
    /\ NumSamples \in Nat /\ NumSamples > 1
    /\ MaxDouble \in Nat
    /\ Rtts \subseteq 0..MaxDouble  \* the difference of two 64-bit times
    /\ MaxAcks \in Nat /\ MaxTimeouts \in Nat

VARIABLES b_cwnd,
          c_cwnd, c_thresh, c_min,
          d_cwnd, d_average, d_min, d_samples,
          acks,         \* history: acks received
          timeouts      \* history: datagrams sent on a timeout

ExB == INSTANCE ExBController WITH cwnd <- b_cwnd

ExC == INSTANCE ExCController WITH cwnd <- c_cwnd,
                                   rtt_thresh_ms <- c_thresh, rtt_min <- c_min

ExD == INSTANCE ExDController WITH cwnd <- d_cwnd, rtt_average <- d_average,
                                   rtt_min <- d_min, rtt_samples <- d_samples

bVars == b_cwnd
cVars == <<c_cwnd, c_thresh, c_min>>
dVars == <<d_cwnd, d_average, d_min, d_samples>>
vars  == <<bVars, cVars, dVars, acks, timeouts>>

Init == ExB!Init /\ ExC!Init /\ ExD!Init /\ acks = 0 /\ timeouts = 0

(***************************************************************************)
(* A datagram is sent on a timeout; only ExBController takes notice.       *)
(***************************************************************************)
DatagramWasSentOnTimeout ==
    /\ timeouts < MaxTimeouts
    /\ timeouts' = timeouts + 1
    /\ ExB!DatagramWasSent(TRUE)
    /\ UNCHANGED <<cVars, dVars, acks>>

AckReceived(rtt) ==
    /\ acks < MaxAcks
    /\ acks' = acks + 1
    /\ ExB!AckReceived
    /\ ExC!AckReceived(rtt)
    /\ ExD!AckReceived(rtt)
    /\ UNCHANGED timeouts

Next == \/ DatagramWasSentOnTimeout
        \/ \E rtt \in Rtts : AckReceived(rtt)

Spec == Init /\ [][Next]_vars

-----------------------------------------------------------------------------
TypeOK ==
    /\ b_cwnd \in Nat
    /\ c_cwnd \in Nat /\ c_thresh \in Nat /\ c_min \in Nat
    /\ d_cwnd \in Nat /\ d_average \in Nat /\ d_min \in Nat
    /\ d_samples \in Seq(Rtts)
    /\ acks \in 0..MaxAcks /\ timeouts \in 0..MaxTimeouts

(***************************************************************************)
(* No sequence of decreases closes the window: a sender that waits for no  *)
(* ack may always send (exerciseb.cc:45, exercisec.cc:66, exercised.cc:78).*)
(***************************************************************************)
WindowsStayOpen == /\ ExB!WindowSize >= 1
                   /\ ExC!WindowSize >= 1
                   /\ ExD!WindowSize >= 1

(***************************************************************************)
(* Growth by alpha/cwnd adds at most 2 alpha + alpha^2 to the square of    *)
(* the window for each ack: additive increase, of alpha a round trip.      *)
(***************************************************************************)
Square(n) == n * n

AimdGrowsSlowly ==
    100 * Square(b_cwnd)
        <= (100 * Square(InitialCwnd) + 21 * acks) * Square(Scale)

ExDGrowsSlowly == 
    Square(d_cwnd) <= (Square(InitialCwnd) + 8 * acks) * Square(Scale)

(***************************************************************************)
(* The average never falls below every round trip there was and the        *)
(* initial 50 ms, although it is reset again and again: a smaller average  *)
(* would shrink the window at round trips that are not long                *)
(* (exercised.cc:72-79).                                                   *)
(***************************************************************************)
Lowest(samples) == Min({50} \cup {samples[i] : i \in DOMAIN samples})

AverageAboveLowest == d_average >= Lowest(d_samples) * Scale

OnlyLongRoundTripsShrink ==
    [][ d_cwnd' < d_cwnd
        => 10 * d_samples'[Len(d_samples')] > 14 * Lowest(d_samples') ]_vars

(***************************************************************************)
(* Until a round trip is forgotten, and if the first one took no more than *)
(* the 80 ms from which exercisec.cc starts, the two delay controllers are *)
(* the same (exercisec.cc:61-66, exercised.cc:66-89).                      *)
(***************************************************************************)
SameUntilForgotten ==
    (acks > 0 /\ acks < NumSamples /\ d_samples[1] <= 80)
        => c_cwnd = d_cwnd /\ c_thresh = d_average /\ c_min = d_min

(***************************************************************************)
(* And afterwards: ExC, which never forgets a round trip, resets its       *)
(* threshold to no more than what ExD resets its average to, so that at    *)
(* every round trip at which ExD's window shrinks its own does too, for    *)
(* ever (exercisec.cc:60-69, exercised.cc:68-79).                          *)
(***************************************************************************)
NeverLaxerThanExD == c_thresh <= d_average

(***************************************************************************)
(* The inductive invariant: the windows are never below one datagram, ExD  *)
(* knows the minimum of the last NumSamples - 1 round trips, ExC that of   *)
(* all, and the two are alike from the start until ExC has been reset.     *)
(***************************************************************************)
CwndsStayOpen == b_cwnd >= Scale /\ c_cwnd >= Scale /\ d_cwnd >= Scale

MinimumIsRecent ==
    acks > 0 =>
        LET first == Max({1, acks - NumSamples + 2})
        IN  d_min = Scale * Min({d_samples[i] : i \in first..acks})

MinimumIsOfAll == \A i \in DOMAIN d_samples : c_min <= d_samples[i] * Scale

AlikeOrReset == c_thresh = d_average \/ c_min <= d_average

AlikeAtFirst ==
    acks = 0 => c_cwnd = d_cwnd /\ c_thresh = d_average /\ c_min = 80 * Scale

IInv ==
    /\ TypeOK
    /\ Len(d_samples) = acks
    /\ CwndsStayOpen
    /\ AimdGrowsSlowly
    /\ ExDGrowsSlowly
    /\ AverageAboveLowest
    /\ MinimumIsRecent
    /\ MinimumIsOfAll
    /\ AlikeOrReset
    /\ NeverLaxerThanExD
    /\ AlikeAtFirst
    /\ SameUntilForgotten
=============================================================================

---------------------------- MODULE AckStatistics ----------------------------
(***************************************************************************)
(* What the two controllers of src/datagrump/exercised_jm.cc and           *)
(* exercised_jm2.cc remember of their acks and compute from it: the        *)
(* round-trip times in order, and for the first ack of a millisecond how   *)
(* many bytes were acknowledged by then, the std::map time_to_data_map_.   *)
(* Both files hold the same code.  A map is a function on a finite set of  *)
(* times.  Times come as uint64_t, and the keys of the map are int.        *)
(***************************************************************************)
EXTENDS Integers, Sequences, FiniteSets, FiniteSetsExt

CONSTANTS PacketSize,       \* PACKET_SIZE_BYTES, 1472
          NumSamples,       \* the default num_samples, 10
          MaxDouble,        \* numeric_limits<double>::max()
          Scale,            \* a double is an integer multiple of 1/Scale
          IntSize           \* the number of values of an int, 2^32

NoData == [t \in {} |-> 0]

(***************************************************************************)
(* The conversion of a time to a key: modulo 2^32, the upper half negative.*)
(***************************************************************************)
ToInt(t) ==
    LET low == t % IntSize
    IN  IF low < IntSize \div 2 THEN low ELSE low - IntSize

\* a faulty variant: operator[] in place of emplace
EmplaceLast(data, t, bytes) ==
    [s \in DOMAIN data \cup {ToInt(t)} |->
        IF s = ToInt(t) THEN bytes ELSE data[s]]

\* emplace leaves the entry of a time that has one already
Emplace(data, t, bytes) ==
    [s \in DOMAIN data \cup {ToInt(t)} |->
        IF s \in DOMAIN data THEN data[s] ELSE bytes]

(***************************************************************************)
(* The least of the last NumSamples - 1 round trips: count starts from 1   *)
(* and the loop ends at count >= num_samples.                              *)
(***************************************************************************)
SlidingMinRtt(samples) ==
    Min({MaxDouble} \cup {samples[i] : i \in {j \in DOMAIN samples :
                                        j > Len(samples) - (NumSamples - 1)}})

Previous(data, t) == Max({s \in DOMAIN data : s < t})

(***************************************************************************)
(* The times for which there is a delivery rate: all but the first; and    *)
(* the rate, in bytes per ms and 1/Scale, of the bytes over the time since *)
(* the entry before.  Once times have wrapped the bytes may be fewer.      *)
(***************************************************************************)
RateTimes(data) == {t \in DOMAIN data : \E s \in DOMAIN data : s < t}

DeltaTime(data, t) == t - Previous(data, t)

DeltaData(data, t) == data[t] - data[Previous(data, t)]

DeliveryRate(data, t) == (Scale * DeltaData(data, t)) \div DeltaTime(data, t)

(***************************************************************************)
(* assert(delta_time > 0): keys ascend, but the difference of two ints     *)
(* wraps, on x86, from 2^31.                                               *)
(***************************************************************************)
DeltasArePositive(data) ==
    \A t \in RateTimes(data) : DeltaTime(data, t) < IntSize \div 2

SlidingMaxBandwidth(data) ==
    Max({0} \cup {DeliveryRate(data, t) :
                    t \in {u \in RateTimes(data) :
                        Cardinality({s \in DOMAIN data : s >= u}) <= NumSamples}})

BandwidthDelayProduct(samples, data) ==
    SlidingMinRtt(samples) * SlidingMaxBandwidth(data)

(***************************************************************************)
(* The last rate over the one before it, against a threshold in percent: a *)
(* negative rate before turns the comparison round.                        *)
(***************************************************************************)
DeliveryRateIncreased(data, percent) ==
    \/ Cardinality(RateTimes(data)) <= 1
    \/ LET last  == Max(DOMAIN data)
           prior == Previous(data, last)
           now   == 100 * DeltaData(data, last) * DeltaTime(data, prior)
           asked == percent * DeltaData(data, prior) * DeltaTime(data, last)
       IN  IF DeltaData(data, prior) < 0 THEN now <= asked ELSE now >= asked
=============================================================================

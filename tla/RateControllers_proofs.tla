------------------------ MODULE RateControllers_proofs ------------------------
(***************************************************************************)
(* Proofs about the controllers of RateControllers that keep statistics of *)
(* the acks.                                                               *)
(***************************************************************************)
EXTENDS RateControllers, LeastAndGreatest, FiniteSetTheorems

LEMMA Constants ==
  /\ PacketSize \in Nat /\ PacketSize >= 1
  /\ NumSamples \in Nat /\ NumSamples > 1
  /\ MaxDouble \in Nat /\ MaxDouble >= 1
  /\ Scale \in Nat /\ Scale >= 1
  /\ IntSize \in Nat /\ IntSize >= 2 /\ 2 * (IntSize \div 2) = IntSize
  /\ Rtts \subseteq Nat /\ Gaps \subseteq Nat
  /\ MaxSent \in Nat /\ MaxAcks \in Nat /\ MaxDup \in Nat
  BY RateControllersAssumption

LEMMA Quotient ==
  ASSUME NEW a \in Nat, NEW b \in Nat \ {0}
  PROVE  a \div b \in Nat /\ (a \div b) * b <= a /\ a \div b <= a
  OBVIOUS

LEMMA QuotientOfInt ==
  ASSUME NEW a \in Int, NEW b \in Nat \ {0}, NEW c \in Nat, a <= c
  PROVE  a \div b \in Int /\ a \div b <= c
  OBVIOUS

(* The bytes of a packet, as a double.                                     *)
Unit == Scale * PacketSize

LEMMA UnitIsPositive == Unit \in Nat /\ Unit >= 1
  BY Constants DEF Unit

LEMMA IntOfTime ==
  ASSUME NEW t \in Nat
  PROVE  /\ JM!ToInt(t) \in Int /\ JM!ToInt(t) <= IntSize
         /\ t < IntSize \div 2 => JM!ToInt(t) = t
         /\ JM2!ToInt(t) = JM!ToInt(t)
  <1>1. PICK low : low = t % IntSize
    OBVIOUS
  <1>2. low \in 0..(IntSize - 1) /\ (t < IntSize => low = t)
    BY <1>1, Constants
  <1>3. IntSize \div 2 \in Nat /\ IntSize \div 2 <= IntSize
    BY Constants
  <1>4. /\ JM!ToInt(t) = IF low < IntSize \div 2 THEN low ELSE low - IntSize
        /\ JM2!ToInt(t) = JM!ToInt(t)
    BY <1>1 DEF JM!ToInt, JM2!ToInt
  <1> QED
    BY <1>2, <1>3, <1>4, Constants

LEMMA QueueElement ==
  ASSUME NEW S, NEW q \in Seq(S), NEW i \in 1..Len(q)
  PROVE  q[i] \in S
  OBVIOUS

LEMMA Appended ==
  ASSUME NEW S, NEW q \in Seq(S), NEW x \in S
  PROVE  /\ Append(q, x) \in Seq(S) /\ Len(q) \in Nat
         /\ Len(Append(q, x)) = Len(q) + 1 /\ Append(q, x)[Len(q) + 1] = x
         /\ \A i \in 1..Len(q) : Append(q, x)[i] = q[i]
         /\ DOMAIN q = 1..Len(q) /\ DOMAIN Append(q, x) = 1..(Len(q) + 1)
  OBVIOUS

-----------------------------------------------------------------------------
(***************************************************************************)
(* Counting the acks of a sequence of arrivals.                            *)
(***************************************************************************)
Before(a, t) == Cardinality({i \in DOMAIN a : a[i] < t})

At(a, t) == Cardinality({i \in DOMAIN a : a[i] = t})

InOrder(a) == \A i, j \in DOMAIN a : i <= j => a[i] <= a[j]

FirstAcks(data, a) ==
    /\ DOMAIN data = {a[i] : i \in DOMAIN a}
    /\ \A t \in DOMAIN data : data[t] = PacketSize * (Before(a, t) + 1)

LEMMA Counts ==
  ASSUME NEW a \in Seq(Nat), NEW T \in SUBSET (DOMAIN a)
  PROVE  /\ IsFiniteSet(T) /\ Cardinality(T) \in Nat
         /\ Cardinality(T) <= Len(a)
         /\ T = DOMAIN a => Cardinality(T) = Len(a)
  <1>1. DOMAIN a = 1..Len(a) /\ Len(a) \in Nat
    OBVIOUS
  <1>2. IsFiniteSet(DOMAIN a) /\ Cardinality(DOMAIN a) = Len(a)
    <2>1. PICK n \in Nat : n = Len(a)
      BY <1>1
    <2>2. IsFiniteSet(1..n) /\ Cardinality(1..n) = n
      BY FS_Interval
    <2> QED
      BY <1>1, <2>1, <2>2
  <1> QED
    BY <1>1, <1>2, FS_Subset, FS_CardinalityType

(* One ack more, not before the last: what is before a time is the same.   *)
LEMMA BeforeAppended ==
  ASSUME NEW a \in Seq(Nat), NEW at \in Nat, \A i \in DOMAIN a : a[i] <= at,
         NEW t \in Nat, t <= at
  PROVE  /\ Before(Append(a, at), t) = Before(a, t)
         /\ t = at /\ t \notin {a[i] : i \in DOMAIN a} => Before(a, t) = Len(a)
  <1> DEFINE b == Append(a, at)
  <1>1. /\ b \in Seq(Nat) /\ Len(a) \in Nat /\ DOMAIN a = 1..Len(a)
        /\ DOMAIN b = 1..(Len(a) + 1) /\ b[Len(a) + 1] = at
        /\ \A i \in 1..Len(a) : b[i] = a[i] /\ a[i] \in Nat
    BY Appended, QueueElement
  <1> HIDE DEF b
  <1>2. {i \in DOMAIN b : b[i] < t} = {i \in DOMAIN a : a[i] < t}
    <2>1. ASSUME NEW i \in DOMAIN b, b[i] < t
          PROVE  i \in DOMAIN a /\ a[i] < t
      <3>1. i # Len(a) + 1
        BY <1>1, <2>1
      <3>2. i \in 1..Len(a)
        BY <1>1, <3>1
      <3> QED
        BY <1>1, <2>1, <3>2
    <2>2. ASSUME NEW i \in DOMAIN a, a[i] < t
          PROVE  i \in DOMAIN b /\ b[i] < t
      BY <1>1, <2>2
    <2> QED
      BY <2>1, <2>2
  <1>3. ASSUME t = at, t \notin {a[i] : i \in DOMAIN a}
        PROVE  {i \in DOMAIN a : a[i] < t} = DOMAIN a
    <2>1. \A i \in DOMAIN a : a[i] <= t /\ a[i] # t /\ a[i] \in Nat
      BY <1>1, <1>3
    <2>2. \A i \in DOMAIN a : a[i] < t
      BY <2>1
    <2> QED
      BY <2>2
  <1> QED
    BY <1>2, <1>3, Counts DEF Before, b

(* emplace keeps a map of first acks one.                                  *)
LEMMA EmplaceKeepsFirst ==
  ASSUME NEW a \in Seq(Nat), NEW at \in Nat, \A i \in DOMAIN a : a[i] <= at,
         NEW data, FirstAcks(data, a),
         NEW bytes, bytes = PacketSize * (Len(a) + 1),
         NEW d, d = [s \in DOMAIN data \cup {at} |->
                        IF s \in DOMAIN data THEN data[s] ELSE bytes]
  PROVE  FirstAcks(d, Append(a, at))
  <1> DEFINE b == Append(a, at)
  <1>1. /\ Len(a) \in Nat /\ DOMAIN a = 1..Len(a)
        /\ DOMAIN b = 1..(Len(a) + 1) /\ b[Len(a) + 1] = at
        /\ \A i \in 1..Len(a) : b[i] = a[i] /\ a[i] \in Nat
    BY Appended, QueueElement
  <1> HIDE DEF b
  <1>2. DOMAIN d = {b[i] : i \in DOMAIN b}
    <2>1. DOMAIN d = {a[i] : i \in DOMAIN a} \cup {at}
      BY DEF FirstAcks
    <2>2. ASSUME NEW x \in DOMAIN d PROVE \E i \in DOMAIN b : x = b[i]
      <3>1. CASE x = at
        <4>1. Len(a) + 1 \in DOMAIN b
          BY <1>1
        <4> QED
          BY <1>1, <3>1, <4>1
      <3>2. CASE x # at
        <4>1. PICK i \in DOMAIN a : x = a[i]
          BY <2>1, <3>2
        <4>2. i \in DOMAIN b
          BY <1>1
        <4> QED
          BY <1>1, <4>1, <4>2
      <3> QED
        BY <3>1, <3>2
    <2>3. ASSUME NEW i \in DOMAIN b PROVE b[i] \in DOMAIN d
      <3>1. i \in 1..Len(a) \/ i = Len(a) + 1
        BY <1>1
      <3> QED
        BY <1>1, <2>1, <3>1
    <2> QED
      BY <2>2, <2>3
  <1>3. ASSUME NEW t \in DOMAIN d
        PROVE  d[t] = PacketSize * (Before(b, t) + 1)
    <2>1. t \in Nat /\ t <= at
      <3>1. DOMAIN d = DOMAIN data \cup {at}
        OBVIOUS
      <3>2. DOMAIN data = {a[i] : i \in DOMAIN a}
        BY DEF FirstAcks
      <3> QED
        BY <1>1, <3>1, <3>2
    <2>2. Before(b, t) = Before(a, t)
      BY <2>1, BeforeAppended DEF b
    <2>3. CASE t \in DOMAIN data
      BY <2>2, <2>3 DEF FirstAcks
    <2>4. CASE t \notin DOMAIN data
      <3>1. t = at /\ t \notin {a[i] : i \in DOMAIN a}
        BY <2>4 DEF FirstAcks
      <3>2. Before(a, t) = Len(a)
        BY <2>1, <3>1, BeforeAppended
      <3> QED
        BY <2>2, <2>4, <3>2
    <2> QED
      BY <2>3, <2>4
  <1> QED
    BY <1>2, <1>3 DEF FirstAcks, b

(* What lies between two entries next to each other are the acks of one ms.*)
LEMMA DifferenceIsAcksAt ==
  ASSUME NEW a \in Seq(Nat), NEW data, FirstAcks(data, a),
         NEW t \in DOMAIN data, NEW prev \in DOMAIN data, prev < t,
         \A s \in DOMAIN data : s < t => s <= prev
  PROVE  /\ t \in Nat /\ prev \in Nat /\ At(a, prev) \in Nat
         /\ data[t] - data[prev] = PacketSize * At(a, prev)
  <1> DEFINE A == {i \in DOMAIN a : a[i] < prev}
             B == {i \in DOMAIN a : a[i] = prev}
             C == {i \in DOMAIN a : a[i] < t}
  <1>1. \A i \in DOMAIN a : a[i] \in Nat /\ a[i] \in DOMAIN data
    BY QueueElement DEF FirstAcks
  <1>2. t \in Nat /\ prev \in Nat
    BY <1>1 DEF FirstAcks
  <1>3. C = A \cup B /\ A \cap B = {}
    BY <1>1, <1>2
  <1>4. /\ IsFiniteSet(A) /\ Cardinality(A) \in Nat
        /\ IsFiniteSet(B) /\ Cardinality(B) \in Nat
    BY Counts
  <1>5. Before(a, t) = Cardinality(C) /\ Before(a, prev) = Cardinality(A)
        /\ At(a, prev) = Cardinality(B)
    BY DEF Before, At
  <1> HIDE DEF A, B, C
  <1>6. Cardinality(C) = Cardinality(A) + Cardinality(B)
    <2>1. Cardinality(C) = Cardinality(A) + Cardinality(B) - Cardinality({})
      BY <1>3, <1>4, FS_Union
    <2> QED
      BY <1>4, <2>1, FS_EmptySet
  <1>7. /\ data[t] = PacketSize * (Cardinality(C) + 1)
        /\ data[prev] = PacketSize * (Cardinality(A) + 1)
    BY <1>5 DEF FirstAcks
  <1>8. PacketSize * (Cardinality(A) + Cardinality(B) + 1)
          - PacketSize * (Cardinality(A) + 1) = PacketSize * Cardinality(B)
    BY <1>4, Constants
  <1> QED
    BY <1>2, <1>4, <1>5, <1>6, <1>7, <1>8

-----------------------------------------------------------------------------
(***************************************************************************)
(* The statistics of a map of first acks.                                  *)
(***************************************************************************)
LEMMA RateOfMap ==
  ASSUME NEW a \in Seq(Nat), NEW data, FirstAcks(data, a),
         NEW t \in JM!RateTimes(data)
  PROVE  LET prev == JM!Previous(data, t)
         IN  /\ prev \in DOMAIN data /\ prev \in Nat /\ t \in Nat /\ prev < t
             /\ At(a, prev) \in Nat
             /\ JM!DeliveryRate(data, t) = (Unit * At(a, prev)) \div (t - prev)
  <1> DEFINE T == {s \in DOMAIN data : s < t}
  <1>1. t \in DOMAIN data /\ T # {}
    BY DEF JM!RateTimes
  <1>2. DOMAIN data \subseteq Nat /\ t \in Nat
    <2>1. \A i \in DOMAIN a : a[i] \in Nat
      BY QueueElement
    <2> QED
      BY <1>1, <2>1 DEF FirstAcks
  <1>3. T \subseteq Nat /\ \A y \in T : y <= t
    BY <1>2
  <1>4. PICK prev : prev = JM!Previous(data, t)
    OBVIOUS
  <1>5. prev \in T /\ \A s \in T : prev >= s
    <2>1. prev = Max(T)
      BY <1>4 DEF JM!Previous, JM!Max, Max
    <2> HIDE DEF T
    <2> QED
      BY <1>1, <1>2, <1>3, <2>1, MaxIsGreatest
  <1>6. /\ prev \in DOMAIN data /\ prev < t /\ prev \in Nat
        /\ \A s \in DOMAIN data : s < t => s <= prev
    BY <1>2, <1>5
  <1>7. /\ At(a, prev) \in Nat
        /\ data[t] - data[prev] = PacketSize * At(a, prev)
    BY <1>1, <1>6, DifferenceIsAcksAt
  <1>8. JM!DeliveryRate(data, t)
          = (Scale * (data[t] - data[prev])) \div (t - prev)
    BY <1>4 DEF JM!DeliveryRate, JM!DeltaData, JM!DeltaTime
  <1>9. Scale * (data[t] - data[prev]) = Unit * At(a, prev)
    <2>1. PICK n \in Nat : n = At(a, prev)
      BY <1>7
    <2>2. Scale * (PacketSize * n) = (Scale * PacketSize) * n
      BY Constants
    <2> QED
      BY <1>7, <2>1, <2>2 DEF Unit
  <1> QED
    BY <1>2, <1>4, <1>6, <1>7, <1>8, <1>9

Burst(a) == Max({0} \cup {At(a, a[i]) : i \in DOMAIN a})

LEMMA BurstIsLargest ==
  ASSUME NEW a \in Seq(Nat)
  PROVE  /\ Burst(a) \in Nat
         /\ \A i \in DOMAIN a : At(a, a[i]) \in Nat /\ At(a, a[i]) <= Burst(a)
  <1> DEFINE T == {0} \cup {At(a, a[i]) : i \in DOMAIN a}
  <1>1. \A i \in DOMAIN a : At(a, a[i]) \in Nat /\ At(a, a[i]) <= Len(a)
    BY Counts DEF At
  <1>2. Len(a) \in Nat
    OBVIOUS
  <1>3. T \subseteq Nat /\ T # {} /\ \A y \in T : y <= Len(a)
    BY <1>1, <1>2
  <1>4. Max(T) \in Nat /\ \A y \in T : Max(T) >= y
    <2> HIDE DEF T
    <2> QED
      BY <1>2, <1>3, MaxIsGreatest
  <1> QED
    BY <1>1, <1>4 DEF Burst

(* No rate is larger than the largest burst of acks in one millisecond.    *)
LEMMA BandwidthIsBounded ==
  ASSUME NEW a \in Seq(Nat), NEW data, FirstAcks(data, a)
  PROVE  /\ JM!SlidingMaxBandwidth(data) \in Nat
         /\ JM!SlidingMaxBandwidth(data) <= Unit * Burst(a)
  <1> DEFINE last == {u \in JM!RateTimes(data) :
                        JM!Cardinality({s \in DOMAIN data : s >= u}) <= NumSamples}
             T == {0} \cup {JM!DeliveryRate(data, t) : t \in last}
  <1>1. Burst(a) \in Nat /\ Unit * Burst(a) \in Nat
    BY BurstIsLargest, UnitIsPositive
  <1>2. ASSUME NEW t \in JM!RateTimes(data)
        PROVE  /\ JM!DeliveryRate(data, t) \in Nat
               /\ JM!DeliveryRate(data, t) <= Unit * Burst(a)
    <2>1. PICK prev : prev = JM!Previous(data, t)
      OBVIOUS
    <2>2. /\ prev \in DOMAIN data /\ prev \in Nat /\ t \in Nat /\ prev < t
          /\ At(a, prev) \in Nat
          /\ JM!DeliveryRate(data, t) = (Unit * At(a, prev)) \div (t - prev)
      BY <2>1, RateOfMap
    <2>3. Unit * At(a, prev) \in Nat /\ t - prev \in Nat \ {0}
      <3>1. t - prev \in Nat \ {0}
        BY <2>2
      <3>2. PICK n \in Nat : n = At(a, prev)
        BY <2>2
      <3>3. Unit * n \in Nat
        BY UnitIsPositive
      <3> QED
        BY <3>1, <3>2, <3>3
    <2>4. /\ JM!DeliveryRate(data, t) \in Nat
          /\ JM!DeliveryRate(data, t) <= Unit * At(a, prev)
      BY <2>2, <2>3, Quotient
    <2>5. At(a, prev) <= Burst(a)
      <3>1. PICK i \in DOMAIN a : prev = a[i]
        BY <2>2 DEF FirstAcks
      <3> QED
        BY <3>1, BurstIsLargest
    <2>6. Unit * At(a, prev) <= Unit * Burst(a)
      BY <1>1, <2>2, <2>5, UnitIsPositive
    <2> QED
      BY <1>1, <2>3, <2>4, <2>6
  <1>3. T \subseteq Nat /\ T # {} /\ \A y \in T : y <= Unit * Burst(a)
    <2>1. 0 <= Unit * Burst(a)
      BY <1>1
    <2>2. last \subseteq JM!RateTimes(data)
      OBVIOUS
    <2> HIDE DEF last
    <2> QED
      BY <1>2, <2>1, <2>2
  <1>4. JM!SlidingMaxBandwidth(data) = Max(T)
    BY DEF JM!SlidingMaxBandwidth, JM!Max, Max
  <1> HIDE DEF T
  <1> QED
    BY <1>1, <1>3, <1>4, MaxIsGreatest

(* Whatever the keys of a map are, and once times have wrapped a rate may  *)
(* be negative, the bandwidth is a number.                                 *)
Keyed(data, bytes) ==
    \A t \in DOMAIN data :
        t \in Int /\ t <= IntSize /\ data[t] \in Nat /\ data[t] <= bytes

LEMMA BandwidthIsANumber ==
  ASSUME NEW data, NEW bytes \in Nat, Keyed(data, bytes)
  PROVE  JM!SlidingMaxBandwidth(data) \in Nat
  <1> DEFINE last == {u \in JM!RateTimes(data) :
                        JM!Cardinality({s \in DOMAIN data : s >= u}) <= NumSamples}
             T == {0} \cup {JM!DeliveryRate(data, t) : t \in last}
  <1>1. PICK c \in Nat : c = Scale * bytes
    BY Constants
  <1>2. ASSUME NEW t \in JM!RateTimes(data)
        PROVE  JM!DeliveryRate(data, t) \in Int /\ JM!DeliveryRate(data, t) <= c
    <2>1. PICK prev : prev = JM!Previous(data, t)
      OBVIOUS
    <2> DEFINE S == {s \in DOMAIN data : s < t}
    <2>2. S \subseteq Int /\ S # {} /\ \A y \in S : y <= IntSize
      BY DEF JM!RateTimes, Keyed
    <2>3. prev = Max(S)
      BY <2>1 DEF JM!Previous, JM!Max, Max
    <2>4. prev \in S
      <3> HIDE DEF S
      <3>1. IntSize \in Int
        BY Constants
      <3> QED
        BY <2>2, <2>3, <3>1, MaxOfIntegers
    <2>5. /\ t \in DOMAIN data /\ t \in Int /\ prev \in Int /\ prev < t
          /\ data[t] \in Nat /\ data[t] <= bytes /\ data[prev] \in Nat
      BY <2>4 DEF JM!RateTimes, Keyed
    <2>6. PICK d \in Int : d = data[t] - data[prev] /\ d <= bytes
      BY <2>5
    <2>7. Scale * d \in Int /\ Scale * d <= c
      BY <1>1, <2>6, Constants
    <2>8. t - prev \in Nat \ {0}
      BY <2>5
    <2>9. JM!DeliveryRate(data, t) = (Scale * d) \div (t - prev)
      BY <2>1, <2>6 DEF JM!DeliveryRate, JM!DeltaData, JM!DeltaTime
    <2> QED
      BY <2>7, <2>8, <2>9, QuotientOfInt
  <1>3. T \subseteq Int /\ T # {} /\ \A y \in T : y <= c
    <2>1. last \subseteq JM!RateTimes(data)
      OBVIOUS
    <2> HIDE DEF last
    <2> QED
      BY <1>1, <1>2, <2>1
  <1>4. JM!SlidingMaxBandwidth(data) = Max(T)
    BY DEF JM!SlidingMaxBandwidth, JM!Max, Max
  <1>5. 0 \in T
    OBVIOUS
  <1> HIDE DEF T
  <1>6. Max(T) \in Int /\ Max(T) >= 0
    <2>1. c \in Int
      OBVIOUS
    <2>2. Max(T) \in T /\ \A y \in T : Max(T) >= y
      BY <1>3, <2>1, MaxOfIntegers
    <2> QED
      BY <1>3, <1>5, <2>2
  <1> QED
    BY <1>4, <1>6

(***************************************************************************)
(* The round trips of which SlidingMinRtt is the least.                    *)
(***************************************************************************)
Recent(samples) ==
    {MaxDouble} \cup {samples[i] :
        i \in {j \in DOMAIN samples : j > Len(samples) - (NumSamples - 1)}}

LEMMA RecentMinimum ==
  ASSUME NEW samples \in Seq(Rtts)
  PROVE  /\ Recent(samples) \subseteq Nat /\ Recent(samples) # {}
         /\ JM!SlidingMinRtt(samples) = Min(Recent(samples))
         /\ JM2!SlidingMinRtt(samples) = Min(Recent(samples))
         /\ Min(Recent(samples)) \in Recent(samples)
         /\ Min(Recent(samples)) \in Nat
         /\ \A y \in Recent(samples) : Min(Recent(samples)) <= y
  <1>1. Recent(samples) \subseteq Nat /\ Recent(samples) # {}
    <2>1. ASSUME NEW i \in DOMAIN samples PROVE samples[i] \in Nat
      <3>1. i \in 1..Len(samples)
        OBVIOUS
      <3> QED
        BY <3>1, QueueElement, Constants
    <2> QED
      BY <2>1, Constants DEF Recent
  <1>2. /\ JM!SlidingMinRtt(samples) = Min(Recent(samples))
        /\ JM2!SlidingMinRtt(samples) = Min(Recent(samples))
    BY DEF JM!SlidingMinRtt, JM2!SlidingMinRtt, JM!Min, JM2!Min, Min, Recent
  <1> QED
    BY <1>1, <1>2, MinIsLeast

(* While none is forgotten, one round trip more does not raise the minimum.*)
LEMMA MinimumWithOneMore ==
  ASSUME NEW samples \in Seq(Rtts), NEW rtt \in Rtts,
         Len(samples) + 1 <= NumSamples - 1
  PROVE  Min(Recent(Append(samples, rtt))) <= Min(Recent(samples))
  <1> DEFINE more == Append(samples, rtt)
  <1>1. /\ more \in Seq(Rtts) /\ Len(samples) \in Nat
        /\ Len(more) = Len(samples) + 1
        /\ DOMAIN samples = 1..Len(samples) /\ DOMAIN more = 1..(Len(samples) + 1)
        /\ \A i \in 1..Len(samples) : more[i] = samples[i]
    BY Appended
  <1> HIDE DEF more
  <1>2. Recent(samples) \subseteq Recent(more)
    <2>1. ASSUME NEW i \in DOMAIN samples
          PROVE  /\ i \in DOMAIN more /\ more[i] = samples[i]
                 /\ i > Len(more) - (NumSamples - 1)
      BY <1>1, <2>1, Constants
    <2> QED
      BY <2>1 DEF Recent
  <1> QED
    BY <1>1, <1>2, RecentMinimum DEF more

(* A minimum of zero is that of a round trip, and not the initial one.     *)
LEMMA ZeroIsASample ==
  ASSUME NEW samples \in Seq(Rtts), Min(Recent(samples)) = 0
  PROVE  \E i \in DOMAIN samples : samples[i] = 0
  <1>1. 0 \in Recent(samples) /\ MaxDouble # 0
    BY RecentMinimum, Constants
  <1> QED
    BY <1>1 DEF Recent

-----------------------------------------------------------------------------
(***************************************************************************)
(* What the first controller answers is a number.                          *)
(***************************************************************************)
Inputs ==
    /\ arrivals \in Seq(Nat) /\ KeysAreTimes(jm_data)
    /\ jm_samples \in Seq(Rtts)
    /\ jm_cwnd_gain \in Nat /\ jm_pacing_gain \in Nat \ {0}

Outputs == JM!WindowSize \in Nat /\ JM!TimeoutMs \in Nat \ {0}

LEMMA KeysAreKeyed ==
  ASSUME NEW data, KeysAreTimes(data), arrivals \in Seq(Nat)
  PROVE  PacketSize * MaxAcks \in Nat /\ Keyed(data, PacketSize * MaxAcks)
  <1>1. PacketSize * MaxAcks \in Nat
    BY Constants
  <1>2. ASSUME NEW t \in DOMAIN data
        PROVE  /\ t \in Int /\ t <= IntSize
               /\ data[t] \in Nat /\ data[t] <= PacketSize * MaxAcks
    <2>1. PICK i \in DOMAIN arrivals : t = JM!ToInt(arrivals[i])
      BY DEF KeysAreTimes
    <2>2. arrivals[i] \in Nat
      BY QueueElement
    <2>3. data[t] \in 0..(PacketSize * MaxAcks)
      BY DEF KeysAreTimes
    <2> QED
      BY <1>1, <2>1, <2>2, <2>3, IntOfTime
  <1> QED
    BY <1>1, <1>2 DEF Keyed

LEMMA InputsGiveOutputs == Inputs => Outputs
  <1> SUFFICES ASSUME Inputs PROVE Outputs
    OBVIOUS
  <1>1. PICK w : w = JM!SlidingMaxBandwidth(jm_data)
    OBVIOUS
  <1>2. w \in Nat
    BY <1>1, KeysAreKeyed, BandwidthIsANumber DEF Inputs
  <1>3. PICK m : m = JM!SlidingMinRtt(jm_samples)
    OBVIOUS
  <1>4. m \in Nat
    BY <1>3, RecentMinimum DEF Inputs
  <1>5. m * w \in Nat /\ (m * w) * jm_cwnd_gain \in Nat
    BY <1>2, <1>4 DEF Inputs
  <1>6. JM!WindowSize \in Nat
    <2>1. ((m * w) * jm_cwnd_gain) \div (100 * Scale) \in Nat
      <3>1. 100 * Scale \in Nat \ {0}
        BY Constants
      <3> QED
        BY <1>5, <3>1, Quotient
    <2>2. JM!Bdp = m * w
      BY <1>1, <1>3 DEF JM!Bdp, JM!BandwidthDelayProduct
    <2> QED
      BY <2>1, <2>2 DEF JM!WindowSize, JM!Larger
  <1>7. JM!TimeoutMs \in Nat \ {0}
    <2>1. CASE w = 0
      BY <1>1, <2>1 DEF JM!TimeoutMs
    <2>2. CASE w # 0
      <3>1. jm_pacing_gain * w \in Nat \ {0} /\ 100 * Scale * PacketSize \in Nat
        BY <1>2, <2>2, Constants DEF Inputs
      <3>2. (100 * Scale * PacketSize) \div (jm_pacing_gain * w) \in Nat
        BY <3>1, Quotient
      <3>3. JM!PacketTime(w) \in Nat \ {0}
        BY <3>2 DEF JM!PacketTime, JM!Larger
      <3> QED
        BY <1>1, <2>2, <3>3 DEF JM!TimeoutMs
    <2> QED
      BY <2>1, <2>2
  <1> QED
    BY <1>6, <1>7 DEF Outputs

LEMMA InputsGiveOutputsNext == Inputs' => Outputs'
  BY InputsGiveOutputs, PTL

-----------------------------------------------------------------------------
(***************************************************************************)
(* The invariant.                                                          *)
(***************************************************************************)
LEMMA InitInvariant == Init => IInv
  <1> SUFFICES ASSUME Init PROVE IInv
    OBVIOUS
  <1>1. /\ jm_state = "STARTUP" /\ jm_inflight = 0 /\ jm_cwnd_gain = 80
        /\ jm_pacing_gain = 90 /\ jm_bytes = 0 /\ jm_samples = <<>>
        /\ jm_data = [t \in {} |-> 0]
        /\ j2_cwnd = Scale /\ j2_min = 0 /\ j2_increased = FALSE /\ j2_bytes = 0
        /\ j2_samples = <<>> /\ j2_data = [t \in {} |-> 0]
        /\ sent = 0 /\ arrivals = <<>> /\ zeros = 0
    BY DEF Init, JM!Init, JM2!Init, JM!NoData, JM2!NoData
  <1>2. DOMAIN arrivals = {} /\ Len(arrivals) = 0
    BY <1>1
  <1>3. /\ CountsFirstAcks(jm_data) /\ CountsFirstAcks(j2_data)
        /\ KeysAreTimes(jm_data) /\ KeysAreTimes(j2_data)
    BY <1>1, <1>2 DEF CountsFirstAcks, KeysAreTimes
  <1>4. ArrivalsInOrder /\ MinimumIsKept
    BY <1>1, <1>2 DEF ArrivalsInOrder, MinimumIsKept
  <1>5. AcksAreCounted
    <2>1. PacketSize * 0 = 0 /\ 0 - 0 = 0 /\ 0 <= 0
      BY Constants
    <2>2. Len(jm_samples) = 0 /\ Len(j2_samples) = 0
      BY <1>1
    <2>3. /\ PacketSize * Len(arrivals) = 0 /\ sent - Len(arrivals) = 0
          /\ zeros <= Len(arrivals)
      BY <1>1, <1>2, <2>1, Zenon
    <2> QED
      BY <1>1, <1>2, <2>2, <2>3, Zenon DEF AcksAreCounted
  <1>7. Outputs
    BY <1>1, <1>3, InputsGiveOutputs DEF Inputs
  <1>8. TypeOK
    <2>1. 0 \in -MaxDup..MaxSent /\ 0 \in 0..MaxSent /\ 0 <= MaxAcks /\ Scale \in Nat
      BY Constants
    <2>2. /\ jm_samples \in Seq(Rtts) /\ j2_samples \in Seq(Rtts)
          /\ arrivals \in Seq(Nat)
      BY <1>1
    <2>3. /\ 80 \in Nat /\ 90 \in Nat \ {0} /\ 0 \in Nat
          /\ FALSE \in BOOLEAN /\ "STARTUP" \in {"STARTUP", "DRAIN", "PROBE_BW"}
      OBVIOUS
    <2> QED
      BY <1>1, <1>2, <1>7, <2>1, <2>2, <2>3, Zenon DEF TypeOK, Outputs
  <1> QED
    BY <1>3, <1>4, <1>5, <1>8 DEF IInv

LEMMA SendInvariant ==
  ASSUME IInv, DatagramWasSent
  PROVE  IInv'
  <1>1. /\ sent < MaxSent /\ sent' = sent + 1 /\ jm_inflight' = jm_inflight + 1
        /\ UNCHANGED <<jm_state, jm_cwnd_gain, jm_pacing_gain, jm_bytes,
                       jm_samples, jm_data, j2_cwnd, j2_min, j2_increased,
                       j2_bytes, j2_samples, j2_data, arrivals, zeros>>
    BY DEF DatagramWasSent, JM!DatagramWasSent, j2Vars
  <1>2. Inputs'
    BY <1>1 DEF IInv, TypeOK, Inputs, KeysAreTimes
  <1>3. Outputs'
    BY <1>2, InputsGiveOutputsNext
  <1>4. /\ sent \in 0..MaxSent /\ jm_inflight \in -MaxDup..MaxSent
        /\ Len(arrivals) \in Nat /\ jm_inflight = sent - Len(arrivals)
    BY Constants DEF IInv, TypeOK, AcksAreCounted
  <1>5. /\ sent' \in 0..MaxSent /\ jm_inflight' \in -MaxDup..MaxSent
        /\ jm_inflight' = sent' - Len(arrivals)
    <2>1. /\ sent + 1 \in 0..MaxSent /\ jm_inflight + 1 \in -MaxDup..MaxSent
          /\ jm_inflight + 1 = (sent + 1) - Len(arrivals)
      BY <1>1, <1>4, Constants
    <2> QED
      BY <1>1, <2>1
  <1>6. TypeOK'
    BY <1>1, <1>3, <1>5 DEF IInv, TypeOK, Outputs
  <1>7. AcksAreCounted'
    BY <1>1, <1>5 DEF IInv, AcksAreCounted
  <1>8. ArrivalsInOrder'
    BY <1>1 DEF IInv, ArrivalsInOrder
  <1>9. /\ CountsFirstAcks(jm_data)' /\ CountsFirstAcks(j2_data)'
        /\ KeysAreTimes(jm_data)' /\ KeysAreTimes(j2_data)'
    BY <1>1 DEF IInv, CountsFirstAcks, AcksBefore, TimesFitInt, LastArrival,
       KeysAreTimes
  <1>10. MinimumIsKept'
    BY <1>1 DEF IInv, MinimumIsKept, JM2!MinRtt
  <1> QED
    BY <1>6, <1>7, <1>8, <1>9, <1>10 DEF IInv

(* What an ack does to the window of the second controller.                *)
LEMMA AckWindow ==
  ASSUME IInv, NEW number \in {0, 1}, NEW rtt \in Rtts, NEW gap \in Gaps,
         AckReceived(number, rtt, gap)
  PROVE  /\ \/ j2_cwnd' = j2_cwnd
            \/ j2_cwnd' = j2_cwnd + Scale
            \/ j2_cwnd' = j2_cwnd + Scale \div 10
            \/ /\ ~JM2!RttIsStable(j2_samples') /\ j2_increased
               /\ j2_cwnd' = (6 * j2_cwnd) \div 10
         /\ j2_cwnd' \in Nat /\ j2_increased' \in BOOLEAN
  <1>1. JM2!AckReceived(number, rtt, LastArrival + gap)
    BY DEF AckReceived
  <1>2. j2_cwnd \in Nat /\ j2_increased \in BOOLEAN
    BY DEF IInv, TypeOK
  <1>3. \/ /\ j2_cwnd' = IF number = 0 THEN j2_cwnd + Scale
                        ELSE IF JM2!RttIsStable(j2_samples')
                        THEN JM2!Grown(j2_data')
                        ELSE JM2!PulledBack
           /\ j2_increased' = (j2_cwnd' > j2_cwnd)
        \/ j2_cwnd' = j2_cwnd /\ j2_increased' = j2_increased
    BY <1>1, Zenon DEF JM2!AckReceived
  <1>4. JM2!Grown(j2_data') = j2_cwnd + Scale \div 10
    <2>1. JM2!Half = 0
      <3>1. 1 \div 2 = 0
        OBVIOUS
      <3> QED
        BY <3>1, Constants DEF JM2!Half
    <2>2. Scale \div 10 \in Nat
      BY Constants, Quotient
    <2>3. JM2!Grown(j2_data') = j2_cwnd + Scale \div 10 + 0
      BY <2>1 DEF JM2!Grown
    <2> QED
      BY <1>2, <2>2, <2>3
  <1>5. \/ j2_cwnd' = j2_cwnd
        \/ j2_cwnd' = j2_cwnd + Scale
        \/ j2_cwnd' = j2_cwnd + Scale \div 10
        \/ /\ ~JM2!RttIsStable(j2_samples') /\ j2_increased
           /\ j2_cwnd' = (6 * j2_cwnd) \div 10
    BY <1>3, <1>4 DEF JM2!PulledBack
  <1>6. j2_cwnd' \in Nat
    <2>1. /\ j2_cwnd + Scale \in Nat /\ j2_cwnd + Scale \div 10 \in Nat
          /\ (6 * j2_cwnd) \div 10 \in Nat
      BY <1>2, Constants, Quotient
    <2> QED
      BY <1>2, <1>5, <2>1
  <1>7. j2_increased' \in BOOLEAN
    <2>1. PICK after : after = j2_cwnd'
      OBVIOUS
    <2>2. (after > j2_cwnd) \in BOOLEAN
      BY <1>2, <1>6, <2>1
    <2> QED
      BY <1>2, <1>3, <2>1, <2>2, Zenon
  <1> QED
    BY <1>5, <1>6, <1>7

(***************************************************************************)
(* What an ack does to the statistics, of both controllers: at is when it  *)
(* comes.                                                                  *)
(***************************************************************************)
Entered(data, at, bytes) ==
    [s \in DOMAIN data \cup {at} |-> IF s \in DOMAIN data THEN data[s] ELSE bytes]

Counted(number, rtt, at) ==
    /\ Len(arrivals) < MaxAcks /\ Len(arrivals) < sent + MaxDup
    /\ at \in Nat /\ \A i \in DOMAIN arrivals : arrivals[i] <= at
    /\ LastArrival \in Nat /\ LastArrival <= at
    /\ arrivals' = Append(arrivals, at)
    /\ jm_samples' = Append(jm_samples, rtt)
    /\ j2_samples' = Append(j2_samples, rtt)
    /\ jm_bytes' = jm_bytes + PacketSize /\ j2_bytes' = j2_bytes + PacketSize
    /\ jm_data' = Entered(jm_data, JM!ToInt(at), jm_bytes')
    /\ j2_data' = Entered(j2_data, JM!ToInt(at), j2_bytes')
    /\ jm_inflight' = jm_inflight - 1
    /\ j2_min' = JM2!MinRtt(j2_samples')
    /\ zeros' = IF number = 0 THEN zeros + 1 ELSE zeros
    /\ sent' = sent

LEMMA AckIsCounted ==
  ASSUME IInv, NEW number \in {0, 1}, NEW rtt \in Rtts, NEW gap \in Gaps,
         AckReceived(number, rtt, gap)
  PROVE  \E at : Counted(number, rtt, at)
  <1>1. arrivals \in Seq(Nat) /\ gap \in Nat
    BY Constants DEF IInv, TypeOK
  <1>2. PICK at : at = LastArrival + gap
    OBVIOUS
  <1>3. /\ at \in Nat /\ \A i \in DOMAIN arrivals : arrivals[i] <= at
        /\ LastArrival \in Nat /\ LastArrival <= at
    <2>1. CASE arrivals = <<>>
      <3>1. LastArrival = 0 /\ DOMAIN arrivals = {}
        BY <2>1 DEF LastArrival
      <3> QED
        BY <1>1, <1>2, <3>1
    <2>2. CASE arrivals # <<>>
      <3>1. /\ Len(arrivals) \in DOMAIN arrivals /\ Len(arrivals) \in Nat
            /\ DOMAIN arrivals = 1..Len(arrivals)
        BY <1>1, <2>2
      <3>2. LastArrival = arrivals[Len(arrivals)]
        BY <2>2 DEF LastArrival
      <3>3. LastArrival \in Nat
        BY <1>1, <3>1, <3>2, QueueElement
      <3>4. ASSUME NEW i \in DOMAIN arrivals
            PROVE  arrivals[i] <= LastArrival /\ arrivals[i] \in Nat
        <4>1. i <= Len(arrivals) /\ arrivals[i] \in Nat
          BY <1>1, <3>1, QueueElement
        <4> QED
          BY <3>1, <3>2, <4>1 DEF IInv, ArrivalsInOrder
      <3> QED
        BY <1>1, <1>2, <3>3, <3>4
    <2> QED
      BY <2>1, <2>2
  <1>4. /\ Len(arrivals) < MaxAcks /\ Len(arrivals) < sent + MaxDup
        /\ JM!AckReceived(rtt, at) /\ JM2!AckReceived(number, rtt, at)
        /\ arrivals' = Append(arrivals, at)
        /\ zeros' = IF number = 0 THEN zeros + 1 ELSE zeros
        /\ sent' = sent
    BY <1>2 DEF AckReceived
  <1>5. /\ jm_samples' = Append(jm_samples, rtt)
        /\ jm_bytes' = jm_bytes + PacketSize
        /\ jm_data' = Entered(jm_data, JM!ToInt(at), jm_bytes')
        /\ jm_inflight' = jm_inflight - 1
    BY <1>4, Zenon DEF JM!AckReceived, JM!Emplace, Entered
  <1>6. /\ j2_samples' = Append(j2_samples, rtt)
        /\ j2_bytes' = j2_bytes + PacketSize
        /\ j2_data' = Entered(j2_data, JM2!ToInt(at), j2_bytes')
        /\ j2_min' = JM2!MinRtt(j2_samples')
    BY <1>4, Zenon DEF JM2!AckReceived, JM2!Emplace, Entered
  <1>7. JM2!ToInt(at) = JM!ToInt(at)
    BY <1>3, IntOfTime
  <1> QED
    BY <1>3, <1>4, <1>5, <1>6, <1>7, Zenon DEF Counted

LEMMA AckCounts ==
  ASSUME IInv, NEW number \in {0, 1}, NEW rtt \in Rtts, NEW at,
         Counted(number, rtt, at)
  PROVE  /\ AcksAreCounted' /\ Len(arrivals') = Len(arrivals) + 1
         /\ jm_samples' \in Seq(Rtts) /\ j2_samples' \in Seq(Rtts)
         /\ arrivals' \in Seq(Nat) /\ Len(arrivals') <= MaxAcks
         /\ jm_bytes' \in Nat /\ j2_bytes' \in Nat
         /\ jm_inflight' \in -MaxDup..MaxSent /\ zeros' \in Nat
         /\ sent' \in 0..MaxSent
  <1>1. PICK n \in Nat : n = Len(arrivals)
    BY DEF IInv, TypeOK
  <1>2. /\ n = Len(jm_samples) /\ n = Len(j2_samples)
        /\ jm_bytes = PacketSize * n /\ j2_bytes = PacketSize * n
        /\ jm_inflight = sent - n /\ zeros <= n /\ zeros \in Nat
        /\ sent \in 0..MaxSent /\ n < MaxAcks /\ n < sent + MaxDup
    BY <1>1 DEF IInv, TypeOK, AcksAreCounted, Counted
  <1>3. /\ Len(arrivals') = n + 1 /\ Len(jm_samples') = n + 1
        /\ Len(j2_samples') = n + 1
        /\ jm_samples' \in Seq(Rtts) /\ j2_samples' \in Seq(Rtts)
        /\ arrivals' \in Seq(Nat)
    <2>1. /\ arrivals \in Seq(Nat) /\ at \in Nat /\ jm_samples \in Seq(Rtts)
          /\ j2_samples \in Seq(Rtts)
          /\ arrivals' = Append(arrivals, at)
          /\ jm_samples' = Append(jm_samples, rtt)
          /\ j2_samples' = Append(j2_samples, rtt)
      BY DEF Counted, IInv, TypeOK
    <2>2. Append(arrivals, at) \in Seq(Nat) /\ Len(Append(arrivals, at)) = n + 1
      BY <1>1, <2>1, Appended
    <2>3. ASSUME NEW q \in Seq(Rtts), n = Len(q)
          PROVE  Append(q, rtt) \in Seq(Rtts) /\ Len(Append(q, rtt)) = n + 1
      BY <2>3, Appended
    <2>4. /\ Append(jm_samples, rtt) \in Seq(Rtts)
          /\ Len(Append(jm_samples, rtt)) = n + 1
          /\ Append(j2_samples, rtt) \in Seq(Rtts)
          /\ Len(Append(j2_samples, rtt)) = n + 1
      BY <1>2, <2>1, <2>3, Zenon
    <2> QED
      BY <2>1, <2>2, <2>4, Zenon
  <1>4. /\ PacketSize * n + PacketSize = PacketSize * (n + 1)
        /\ PacketSize * (n + 1) \in Nat
    BY Constants
  <1>5. /\ (sent - n) - 1 = sent - (n + 1)
        /\ (sent - n) - 1 \in -MaxDup..MaxSent
        /\ n + 1 <= MaxAcks /\ zeros + 1 <= n + 1 /\ zeros <= n + 1
        /\ zeros + 1 \in Nat
    BY <1>2, Constants
  <1>6. /\ jm_bytes' = PacketSize * (n + 1) /\ j2_bytes' = PacketSize * (n + 1)
        /\ jm_inflight' = sent - (n + 1) /\ sent' = sent
        /\ zeros' <= n + 1 /\ zeros' \in Nat
    BY <1>2, <1>4, <1>5 DEF Counted
  <1> QED
    BY <1>1, <1>2, <1>3, <1>4, <1>5, <1>6 DEF AcksAreCounted

TimeKeys(data, a) ==
    /\ DOMAIN data = {JM!ToInt(a[i]) : i \in DOMAIN a}
    /\ \A t \in DOMAIN data : data[t] \in 0..(PacketSize * MaxAcks)

LEMMA EmplaceKeepsKeys ==
  ASSUME NEW a \in Seq(Nat), NEW at \in Nat, NEW data, TimeKeys(data, a),
         NEW bytes \in 0..(PacketSize * MaxAcks)
  PROVE  TimeKeys(Entered(data, JM!ToInt(at), bytes), Append(a, at))
  <1>1. PICK b, d : b = Append(a, at) /\ d = Entered(data, JM!ToInt(at), bytes)
    OBVIOUS
  <1>2. /\ Len(a) \in Nat /\ DOMAIN a = 1..Len(a)
        /\ DOMAIN b = 1..(Len(a) + 1) /\ b[Len(a) + 1] = at
        /\ \A i \in 1..Len(a) : b[i] = a[i]
    BY <1>1, Appended
  <1>3. DOMAIN b = DOMAIN a \cup {Len(a) + 1} /\ \A i \in DOMAIN a : b[i] = a[i]
    BY <1>2
  <1>4. DOMAIN d = DOMAIN data \cup {JM!ToInt(at)}
    BY <1>1 DEF Entered
  <1>5. DOMAIN d = {JM!ToInt(b[i]) : i \in DOMAIN b}
    BY <1>2, <1>3, <1>4, Zenon DEF TimeKeys
  <1>6. \A t \in DOMAIN d : d[t] \in 0..(PacketSize * MaxAcks)
    <2>1. ASSUME NEW t \in DOMAIN d
          PROVE  d[t] = IF t \in DOMAIN data THEN data[t] ELSE bytes
      BY <1>1 DEF Entered
    <2> QED
      BY <2>1 DEF TimeKeys
  <1> QED
    BY <1>1, <1>5, <1>6 DEF TimeKeys

LEMMA AckStatisticsInvariant ==
  ASSUME IInv, NEW number \in {0, 1}, NEW rtt \in Rtts, NEW at,
         Counted(number, rtt, at)
  PROVE  /\ ArrivalsInOrder' /\ MinimumIsKept'
         /\ CountsFirstAcks(jm_data)' /\ CountsFirstAcks(j2_data)'
         /\ KeysAreTimes(jm_data)' /\ KeysAreTimes(j2_data)'
  <1>1. /\ arrivals \in Seq(Nat) /\ at \in Nat
        /\ \A i \in DOMAIN arrivals : arrivals[i] <= at
        /\ arrivals' = Append(arrivals, at)
    BY DEF IInv, TypeOK, Counted
  <1>2. ArrivalsInOrder'
    <2>1. PICK b : b = Append(arrivals, at)
      OBVIOUS
    <2>2. /\ Len(arrivals) \in Nat /\ DOMAIN arrivals = 1..Len(arrivals)
          /\ DOMAIN b = 1..(Len(arrivals) + 1) /\ b[Len(arrivals) + 1] = at
          /\ \A i \in 1..Len(arrivals) : b[i] = arrivals[i] /\ arrivals[i] \in Nat
      BY <1>1, <2>1, Appended, QueueElement
    <2>3. ASSUME NEW i \in DOMAIN b, NEW j \in DOMAIN b, i <= j
          PROVE  b[i] <= b[j]
      <3>1. CASE j = Len(arrivals) + 1
        BY <1>1, <2>2, <2>3, <3>1
      <3>2. CASE j # Len(arrivals) + 1
        <4>1. i \in DOMAIN arrivals /\ j \in DOMAIN arrivals
          BY <2>2, <2>3, <3>2
        <4> QED
          BY <2>2, <2>3, <4>1 DEF IInv, ArrivalsInOrder
      <3> QED
        BY <3>1, <3>2
    <2> QED
      BY <1>1, <2>1, <2>3, Zenon DEF ArrivalsInOrder
  <1>3. PICK bytes : bytes = PacketSize * (Len(arrivals) + 1)
    OBVIOUS
  <1>4. jm_bytes' = bytes /\ j2_bytes' = bytes
    BY <1>3, AckCounts DEF AcksAreCounted
  <1>5. PICK key : key = JM!ToInt(at)
    OBVIOUS
  <1>6. /\ jm_data' = Entered(jm_data, key, bytes)
        /\ j2_data' = Entered(j2_data, key, bytes)
    BY <1>4, <1>5 DEF Counted
  <1>7. ASSUME TimesFitInt'
        PROVE  FirstAcks(jm_data', arrivals') /\ FirstAcks(j2_data', arrivals')
    <2>1. LastArrival' = at
      <3>1. PICK b : b = Append(arrivals, at)
        OBVIOUS
      <3>2. b # <<>> /\ b[Len(b)] = at
        BY <1>1, <3>1
      <3> QED
        BY <1>1, <3>1, <3>2 DEF LastArrival
    <2>2. at < IntSize \div 2
      BY <1>7, <2>1 DEF TimesFitInt
    <2>3. TimesFitInt
      <3>1. LastArrival \in Nat /\ LastArrival <= at
        BY DEF Counted
      <3>2. IntSize \div 2 \in Nat
        BY Constants
      <3> QED
        BY <1>1, <2>2, <3>1, <3>2 DEF TimesFitInt
    <2>4. key = at
      BY <1>1, <1>5, <2>2, IntOfTime
    <2>5. FirstAcks(jm_data, arrivals) /\ FirstAcks(j2_data, arrivals)
      BY <2>3 DEF IInv, CountsFirstAcks, AcksBefore, FirstAcks, Before
    <2>6. /\ FirstAcks(Entered(jm_data, at, bytes), Append(arrivals, at))
          /\ FirstAcks(Entered(j2_data, at, bytes), Append(arrivals, at))
      BY <1>1, <1>3, <2>5, EmplaceKeepsFirst DEF Entered
    <2> QED
      BY <1>1, <1>6, <2>4, <2>6, Zenon
  <1>8. CountsFirstAcks(jm_data)' /\ CountsFirstAcks(j2_data)'
    BY <1>7, Zenon DEF CountsFirstAcks, AcksBefore, FirstAcks, Before
  <1>10. KeysAreTimes(jm_data)' /\ KeysAreTimes(j2_data)'
    <2>1. bytes \in 0..(PacketSize * MaxAcks)
      <3>1. PICK n \in Nat : n = Len(arrivals) /\ n < MaxAcks
        BY <1>1 DEF Counted
      <3>2. /\ PacketSize * (n + 1) \in Nat /\ PacketSize * MaxAcks \in Nat
            /\ PacketSize * (n + 1) <= PacketSize * MaxAcks
        BY <3>1, Constants
      <3> QED
        BY <1>3, <3>1, <3>2
    <2>2. /\ TimeKeys(Entered(jm_data, key, bytes), Append(arrivals, at))
          /\ TimeKeys(Entered(j2_data, key, bytes), Append(arrivals, at))
      <3>1. TimeKeys(jm_data, arrivals) /\ TimeKeys(j2_data, arrivals)
        BY DEF IInv, KeysAreTimes, TimeKeys
      <3> QED
        BY <1>1, <1>5, <2>1, <3>1, EmplaceKeepsKeys
    <2> QED
      BY <1>1, <1>6, <2>2, Zenon DEF KeysAreTimes, TimeKeys
  <1>9. MinimumIsKept'
    <2>1. j2_samples' = Append(j2_samples, rtt) /\ j2_samples \in Seq(Rtts)
      BY DEF Counted, IInv, TypeOK
    <2>2. Append(j2_samples, rtt) # <<>>
      BY <2>1
    <2> QED
      BY <2>1, <2>2, Zenon DEF MinimumIsKept, Counted
  <1> QED
    BY <1>2, <1>8, <1>9, <1>10

LEMMA AckInvariant ==
  ASSUME IInv, NEW number \in {0, 1}, NEW rtt \in Rtts, NEW gap \in Gaps,
         AckReceived(number, rtt, gap)
  PROVE  IInv'
  <1>1. PICK at : Counted(number, rtt, at)
    BY AckIsCounted
  <1>2. /\ AcksAreCounted'
        /\ jm_samples' \in Seq(Rtts) /\ j2_samples' \in Seq(Rtts)
        /\ arrivals' \in Seq(Nat) /\ Len(arrivals') <= MaxAcks
        /\ jm_bytes' \in Nat /\ j2_bytes' \in Nat
        /\ jm_inflight' \in -MaxDup..MaxSent /\ zeros' \in Nat
        /\ sent' \in 0..MaxSent
    BY <1>1, AckCounts
  <1>3. /\ ArrivalsInOrder' /\ MinimumIsKept'
        /\ CountsFirstAcks(jm_data)' /\ CountsFirstAcks(j2_data)'
        /\ KeysAreTimes(jm_data)' /\ KeysAreTimes(j2_data)'
    BY <1>1, AckStatisticsInvariant
  <1>4. j2_cwnd' \in Nat /\ j2_increased' \in BOOLEAN
    BY AckWindow
  <1>5. /\ jm_state' \in {"STARTUP", "DRAIN", "PROBE_BW"}
        /\ jm_cwnd_gain' \in Nat /\ jm_pacing_gain' \in Nat \ {0}
    <2>1. JM!AckReceived(rtt, LastArrival + gap)
      BY DEF AckReceived
    <2>2. /\ jm_state \in {"STARTUP", "DRAIN", "PROBE_BW"}
          /\ jm_cwnd_gain \in Nat /\ jm_pacing_gain \in Nat \ {0}
      BY DEF IInv, TypeOK
    <2>3. /\ JM!HighGain = 288 /\ 288 \in Nat \ {0} /\ 100 \in Nat \ {0}
          /\ 200 \in Nat /\ 10000 \div 288 \in Nat \ {0}
      BY DEF JM!HighGain
    <2>4. \/ UNCHANGED <<jm_state, jm_cwnd_gain, jm_pacing_gain>>
          \/ /\ jm_state' = jm_state
             /\ jm_cwnd_gain' = JM!HighGain /\ jm_pacing_gain' = JM!HighGain
          \/ /\ jm_state' = "DRAIN" /\ jm_cwnd_gain' = JM!HighGain
             /\ jm_pacing_gain' = 10000 \div JM!HighGain
          \/ /\ jm_state' = "PROBE_BW" /\ jm_cwnd_gain' = 200
             /\ jm_pacing_gain' = 100
      BY <2>1, <2>2
         DEF JM!AckReceived, JM!SwitchToModeDrain, JM!SwitchToModeProbeBw
    <2> QED
      BY <2>2, <2>3, <2>4
  <1>6. j2_min' \in Nat
    <2>1. j2_min' = JM2!MinRtt(j2_samples')
      BY <1>1, Zenon DEF Counted
    <2>2. JM2!MinRtt(j2_samples') \in Nat
      BY <1>2, RecentMinimum DEF JM2!MinRtt
    <2> QED
      BY <2>1, <2>2
  <1>7. Outputs'
    <2>1. Inputs'
      BY <1>2, <1>3, <1>5, Zenon DEF Inputs
    <2> QED
      BY <2>1, InputsGiveOutputsNext
  <1>8. TypeOK'
    BY <1>2, <1>4, <1>5, <1>6, <1>7, Zenon DEF TypeOK, Outputs
  <1> QED
    BY <1>2, <1>3, <1>4, <1>8, Zenon DEF IInv

LEMMA NextInvariant == IInv /\ [Next]_vars => IInv'
  <1> SUFFICES ASSUME IInv, [Next]_vars PROVE IInv'
    OBVIOUS
  <1>1. CASE DatagramWasSent
    BY <1>1, SendInvariant
  <1>2. ASSUME NEW number \in {0, 1}, NEW rtt \in Rtts, NEW gap \in Gaps,
               AckReceived(number, rtt, gap)
        PROVE  IInv'
    BY <1>2, AckInvariant
  <1>3. CASE UNCHANGED vars
    BY <1>3 DEF vars, j2Vars, IInv, TypeOK, ArrivalsInOrder, CountsFirstAcks,
       AcksBefore, AcksAreCounted, MinimumIsKept, KeysAreTimes, TimesFitInt,
       LastArrival,
       JM!WindowSize, JM!Bdp, JM!TimeoutMs, JM!PacketTime, JM2!MinRtt
  <1> QED
    BY <1>1, <1>2, <1>3 DEF Next

(***************************************************************************)
(* The maps, the counters and the window stay in step with the acks that   *)
(* came, whatever they measured (exercised_jm.cc:169-229 and               *)
(* exercised_jm2.cc:203-262).                                              *)
(***************************************************************************)
THEOREM Invariance == Spec => []IInv
  BY InitInvariant, NextInvariant, PTL DEF Spec

-----------------------------------------------------------------------------
LEMMA RatesAreOfPreviousAcks == IInv => RateCountsPreviousAcks
  <1> SUFFICES ASSUME IInv, TimesFitInt, NEW data \in {jm_data, j2_data},
                      NEW t \in JM!RateTimes(data)
               PROVE  LET prev == JM!Previous(data, t)
                      IN  JM!DeliveryRate(data, t)
                            = (Unit * AcksAt(prev)) \div (t - prev)
    BY DEF RateCountsPreviousAcks, Unit
  <1>1. arrivals \in Seq(Nat) /\ FirstAcks(data, arrivals)
    BY DEF IInv, TypeOK, CountsFirstAcks, AcksBefore, FirstAcks, Before
  <1>2. AcksAt(JM!Previous(data, t)) = At(arrivals, JM!Previous(data, t))
    BY DEF AcksAt, At
  <1> QED
    BY <1>1, <1>2, RateOfMap

(***************************************************************************)
(* While times fit an int, a delivery rate is that of the acks of the      *)
(* millisecond before it: none is left out and none is counted twice       *)
(* (exercised_jm.cc:99-126 and 201, exercised_jm2.cc:117-144 and 224).     *)
(***************************************************************************)
THEOREM RatesCountEveryAck == Spec => []RateCountsPreviousAcks
  BY Invariance, RatesAreOfPreviousAcks, PTL

-----------------------------------------------------------------------------
LEMMA SpikeStep ==
  ASSUME IInv, [Next]_vars, j2_cwnd' < j2_cwnd
  PROVE  \/ Len(j2_samples') > NumSamples - 1
         \/ \E i \in DOMAIN j2_samples : j2_samples[i] = 0
  <1>1. j2_cwnd \in Nat /\ j2_samples \in Seq(Rtts)
    BY DEF IInv, TypeOK
  <1>2. PICK number \in {0, 1}, rtt \in Rtts, gap \in Gaps :
          AckReceived(number, rtt, gap)
    <2>1. j2_cwnd' # j2_cwnd
      BY <1>1
    <2>2. ~(DatagramWasSent \/ UNCHANGED vars)
      BY <2>1 DEF DatagramWasSent, vars, j2Vars
    <2> QED
      BY <2>2 DEF Next
  <1>3. PICK samples : samples = Append(j2_samples, rtt)
    OBVIOUS
  <1>4. j2_samples' = samples
    BY <1>2, <1>3, AckIsCounted DEF Counted
  <1>5. ~JM2!RttIsStable(j2_samples') /\ j2_increased
    <2>1. PICK after : after = j2_cwnd'
      OBVIOUS
    <2>2. after < j2_cwnd /\ after # j2_cwnd
      BY <1>1, <2>1
    <2>3. after # j2_cwnd + Scale /\ after # j2_cwnd + Scale \div 10
      <3>1. Scale \div 10 \in Nat
        BY Constants, Quotient
      <3> QED
        BY <1>1, <2>2, <3>1, Constants
    <2> QED
      BY <1>2, <2>1, <2>2, <2>3, AckWindow
  <1>6. j2_min = Min(Recent(j2_samples)) /\ j2_min \in Nat
    <2>1. j2_min = JM2!MinRtt(j2_samples)
      BY <1>5 DEF IInv, MinimumIsKept
    <2> QED
      BY <1>1, <2>1, RecentMinimum DEF JM2!MinRtt
  <1>7. CASE j2_min = 0
    BY <1>1, <1>6, <1>7, ZeroIsASample
  <1>8. CASE j2_min # 0
    <2>1. PICK m \in Nat : m = JM2!MinRtt(samples) /\ m = Min(Recent(samples))
      <3>1. samples \in Seq(Rtts)
        BY <1>1, <1>3
      <3> QED
        BY <3>1, RecentMinimum DEF JM2!MinRtt
    <2>2. m > j2_min
      <3>1. ~(j2_min > 0 /\ 100 * (m - j2_min) < 5 * j2_min)
        BY <1>4, <1>5, <2>1 DEF JM2!RttIsStable, JM2!RttChange
      <3> QED
        BY <1>6, <1>8, <3>1
    <2>3. ~(Len(j2_samples) + 1 <= NumSamples - 1)
      BY <1>1, <1>3, <1>6, <2>1, <2>2, MinimumWithOneMore
    <2>4. Len(samples) > NumSamples - 1
      BY <1>1, <1>3, <2>3, Constants
    <2> QED
      BY <1>4, <2>4
  <1> QED
    BY <1>7, <1>8

(***************************************************************************)
(* The window is not pulled back before a round trip is forgotten, unless  *)
(* one took less than a millisecond; the initial previous minimum of 0     *)
(* pulls nothing back (exercised_jm2.cc:212-215 and 243-258).              *)
(***************************************************************************)
THEOREM SpikesAreIgnoredAtFirst == Spec => SpikesAreSeenLate
  <1>1. IInv /\ [Next]_vars
          => [ j2_cwnd' < j2_cwnd
               => \/ Len(j2_samples') > NumSamples - 1
                  \/ \E i \in DOMAIN j2_samples : j2_samples[i] = 0 ]_vars
    BY SpikeStep
  <1> QED
    BY <1>1, Invariance, PTL DEF Spec, SpikesAreSeenLate

-----------------------------------------------------------------------------
LEMMA DrainArithmetic ==
  ASSUME NEW inflight \in Int, NEW rtt \in Nat, NEW w \in Nat,
         NEW burst \in Nat, w <= Unit * burst,
         Unit * inflight <= rtt * (rtt * w)
  PROVE  inflight <= rtt * rtt * burst
  <1>1. PICK k \in Nat : k = rtt * rtt
    OBVIOUS
  <1>2. rtt * (rtt * w) = k * w
    BY <1>1
  <1>3. PICK p \in Nat : p = Unit /\ p >= 1
    BY UnitIsPositive
  <1>4. PICK c \in Nat : c = p * burst
    BY <1>3
  <1>5. k * w <= k * c
    BY <1>1, <1>3, <1>4
  <1>6. k * c = p * (k * burst)
    BY <1>1, <1>3, <1>4
  <1>7. PICK b \in Nat : b = k * burst
    BY <1>1
  <1>8. p * inflight <= p * b
    BY <1>2, <1>3, <1>5, <1>6, <1>7
  <1>9. inflight <= b
    <2> SUFFICES ASSUME inflight >= b + 1 PROVE FALSE
      BY <1>7
    <2>1. p * inflight >= p * (b + 1)
      BY <1>3, <1>7
    <2>2. p * (b + 1) = p * b + p /\ p * b \in Nat
      BY <1>3, <1>7
    <2> QED
      BY <1>3, <1>8, <2>1, <2>2
  <1> QED
    BY <1>1, <1>7, <1>9

LEMMA BurstOfArrivals == LargestBurst = Burst(arrivals)
  BY DEF LargestBurst, AcksAt, Burst, At

LEMMA BurstOfArrivalsNext == (LargestBurst = Burst(arrivals))'
  BY BurstOfArrivals, PTL

LEMMA DrainStep ==
  ASSUME IInv, IInv', [Next]_vars, jm_state = "DRAIN", jm_state' = "PROBE_BW",
         TimesFitInt'
  PROVE  LET rtt      == JM!SlidingMinRtt(jm_samples')
             unacked  == sent - Len(arrivals')
         IN  IF rtt = 0 THEN unacked < 0
             ELSE unacked <= rtt * rtt * LargestBurst'
  <1>1. PICK number \in {0, 1}, rtt \in Rtts, gap \in Gaps :
          AckReceived(number, rtt, gap)
    <2>1. ~(DatagramWasSent \/ UNCHANGED vars)
      BY DEF DatagramWasSent, JM!DatagramWasSent, vars
    <2> QED
      BY <2>1 DEF Next
  <1>2. JM!HasDrained(jm_inflight', jm_samples', jm_data')
    BY <1>1 DEF AckReceived, JM!AckReceived
  <1>3. PICK inflight, samples, data, a :
          /\ inflight = jm_inflight' /\ samples = jm_samples'
          /\ data = jm_data' /\ a = arrivals'
    OBVIOUS
  <1>4. PICK unacked : unacked = sent - Len(a)
    OBVIOUS
  <1>5. inflight = unacked /\ inflight \in Int
    <2>1. sent' = sent
      BY <1>1 DEF AckReceived
    <2>2. jm_inflight' = sent' - Len(arrivals') /\ jm_inflight' \in -MaxDup..MaxSent
      BY DEF IInv, AcksAreCounted, TypeOK
    <2>3. inflight = sent - Len(a) /\ inflight \in -MaxDup..MaxSent
      BY <1>3, <2>1, <2>2, Zenon
    <2> QED
      BY <1>4, <2>3, Constants
  <1>6. samples \in Seq(Rtts) /\ a \in Seq(Nat) /\ FirstAcks(data, a)
    <2>1. CountsFirstAcks(jm_data)' /\ arrivals' \in Seq(Nat) /\ jm_samples' \in Seq(Rtts)
      BY DEF IInv, TypeOK
    <2> QED
      BY <1>3, <2>1, Zenon DEF CountsFirstAcks, AcksBefore, FirstAcks, Before
  <1>7. PICK m \in Nat : m = JM!SlidingMinRtt(samples)
    BY <1>6, RecentMinimum
  <1>8. PICK w \in Nat : w = JM!SlidingMaxBandwidth(data) /\ w <= Unit * Burst(a)
    BY <1>6, BandwidthIsBounded
  <1>9. IF m = 0 THEN inflight < 0 ELSE Unit * inflight <= m * (m * w)
    BY <1>2, <1>3, <1>7, <1>8 DEF JM!HasDrained, JM!BandwidthDelayProduct,
       Unit
  <1>10. LargestBurst' = Burst(a)
    BY <1>3, BurstOfArrivalsNext, Zenon
  <1>11. m # 0 => inflight <= m * m * Burst(a)
    BY <1>5, <1>6, <1>8, <1>9, BurstIsLargest, DrainArithmetic
  <1> QED
    BY <1>3, <1>4, <1>5, <1>7, <1>9, <1>10, <1>11, Zenon

(***************************************************************************)
(* Drain mode ends only when no more datagrams are unacknowledged, the     *)
(* lost ones with them, than the square of the minimum round trip allows   *)
(* at the largest burst of acks, while times fit an int                    *)
(* (exercised_jm.cc:177, 187 and 222).                                     *)
(***************************************************************************)
THEOREM LossHoldsTheDrain == Spec => LossKeepsDraining
  <1>1. IInv /\ IInv' /\ [Next]_vars
          => [ (jm_state = "DRAIN" /\ jm_state' = "PROBE_BW" /\ TimesFitInt') =>
                 LET rtt      == JM!SlidingMinRtt(jm_samples')
                     unacked  == sent - Len(arrivals')
                 IN  IF rtt = 0 THEN unacked < 0
                     ELSE unacked <= rtt * rtt * LargestBurst' ]_vars
    BY DrainStep
  <1> QED
    BY <1>1, Invariance, PTL DEF Spec, LossKeepsDraining
=============================================================================

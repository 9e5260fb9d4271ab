-------------------------- MODULE Controllers_proofs --------------------------
(***************************************************************************)
(* Proofs about the window controllers of Controllers.                     *)
(***************************************************************************)
EXTENDS Controllers, LeastAndGreatest

-----------------------------------------------------------------------------
(***************************************************************************)
(* sliding_min_rtt(n) is the least of the last n - 1 samples.  What its    *)
(* loop has found after each round is the least of what it has seen: a     *)
(* first round for which that fails would have a round before it for which *)
(* it holds.                                                               *)
(***************************************************************************)
LastOf(samples, n) == {samples[i] : i \in (Len(samples) - n + 1)..Len(samples)}

LeastOfLast(samples, n) ==
    IF n = 0 THEN MaxDouble ELSE Min(LastOf(samples, n))

LEMMA LastOfTypes ==
  ASSUME NEW samples \in Seq(0..MaxDouble), NEW n \in 1..Len(samples),
         MaxDouble \in Nat
  PROVE  LastOf(samples, n) \subseteq 0..MaxDouble /\ LastOf(samples, n) # {}
  <1>1. Len(samples) \in Nat /\ n \in Nat /\ n >= 1 /\ n <= Len(samples)
    OBVIOUS
  <1>2. \A i \in 1..Len(samples) : samples[i] \in 0..MaxDouble
    OBVIOUS
  <1>3. \A i \in (Len(samples) - n + 1)..Len(samples) : i \in 1..Len(samples)
    BY <1>1
  <1>4. Len(samples) \in (Len(samples) - n + 1)..Len(samples)
    BY <1>1
  <1> QED
    BY <1>2, <1>3, <1>4 DEF LastOf

LEMMA LeastOfLastStep ==
  ASSUME NEW samples \in Seq(0..MaxDouble), NEW n \in 1..Len(samples),
         MaxDouble \in Nat
  PROVE  LeastOfLast(samples, n)
           = ExD!Smaller(samples[Len(samples) - n + 1],
                         LeastOfLast(samples, n - 1))
  <1> DEFINE k == Len(samples) - n + 1
  <1>1. /\ Len(samples) \in Nat /\ n \in Nat /\ n >= 1 /\ n <= Len(samples)
        /\ k \in 1..Len(samples)
    OBVIOUS
  <1>2. samples[k] \in 0..MaxDouble
    BY <1>1
  <1>3. CASE n = 1
    <2>1. k = Len(samples)
      BY <1>1, <1>3
    <2>2. LastOf(samples, n) = {samples[k]}
      BY <1>1, <1>3, <2>1 DEF LastOf
    <2>3. Min(LastOf(samples, n)) = samples[k]
      <3> HIDE DEF k
      <3>1. /\ LastOf(samples, n) \subseteq Nat
            /\ samples[k] \in LastOf(samples, n)
            /\ \A y \in LastOf(samples, n) : samples[k] <= y
        BY <1>2, <2>2
      <3> QED
        BY <3>1, MinValue
    <2> HIDE DEF k
    <2> QED
      BY <1>2, <1>3, <2>3 DEF LeastOfLast, ExD!Smaller, k
  <1>4. CASE n > 1
    <2>1. n - 1 \in 1..Len(samples) /\ n # 0 /\ n - 1 # 0
      BY <1>1, <1>4
    <2>2. /\ LastOf(samples, n - 1) \subseteq Nat
          /\ LastOf(samples, n - 1) # {}
      <3>1. 0..MaxDouble \subseteq Nat
        OBVIOUS
      <3> QED
        BY <2>1, <3>1, LastOfTypes
    <2>3. LastOf(samples, n) = LastOf(samples, n - 1) \cup {samples[k]}
      <3>1. PICK A : A = (Len(samples) - (n - 1) + 1)..Len(samples)
        OBVIOUS
      <3>2. (Len(samples) - n + 1)..Len(samples) = A \cup {k}
        BY <1>1, <3>1
      <3>3. /\ LastOf(samples, n) = {samples[i] : i \in A \cup {k}}
            /\ LastOf(samples, n - 1) = {samples[i] : i \in A}
        BY <3>1, <3>2 DEF LastOf
      <3> QED
        BY ONLY <3>3
    <2> HIDE DEF k
    <2>4. Min(LastOf(samples, n))
            = IF samples[k] <= Min(LastOf(samples, n - 1)) THEN samples[k]
              ELSE Min(LastOf(samples, n - 1))
      BY <1>2, <2>2, <2>3, MinOfMore
    <2>5. k = Len(samples) - n + 1
      BY DEF k
    <2>6. /\ LeastOfLast(samples, n) = Min(LastOf(samples, n))
          /\ LeastOfLast(samples, n - 1) = Min(LastOf(samples, n - 1))
      BY <2>1 DEF LeastOfLast
    <2> QED
      BY ONLY <2>4, <2>5, <2>6 DEF ExD!Smaller
  <1> QED
    BY <1>1, <1>3, <1>4

(* The function least of SlidingMinRtt is f.                               *)
Searches(f, samples, rounds) ==
    f = [n \in 0..rounds |->
            IF n = 0 THEN MaxDouble
            ELSE ExD!Smaller(samples[Len(samples) - n + 1], f[n - 1])]

LEMMA SearchFinds ==
  ASSUME NEW samples \in Seq(0..MaxDouble), NEW rounds \in 0..Len(samples),
         MaxDouble \in Nat, NEW f, Searches(f, samples, rounds)
  PROVE  \A n \in 0..rounds : f[n] = LeastOfLast(samples, n)
  <1> DEFINE wrong == {n \in 0..rounds : f[n] # LeastOfLast(samples, n)}
  <1>1. SUFFICES ASSUME wrong # {} PROVE FALSE
    OBVIOUS
  <1>2. wrong \subseteq Nat
    OBVIOUS
  <1>3. PICK n \in wrong : \A m \in wrong : n <= m
    <2> HIDE DEF wrong
    <2> QED
      BY <1>1, <1>2, LeastExists
  <1>4. n \in 0..rounds /\ n \in Nat /\ rounds \in Nat
    OBVIOUS
  <1>5. f[n] = IF n = 0 THEN MaxDouble
               ELSE ExD!Smaller(samples[Len(samples) - n + 1], f[n - 1])
    BY <1>4 DEF Searches
  <1>6. CASE n = 0
    BY <1>5, <1>6 DEF LeastOfLast
  <1>7. CASE n # 0
    <2>1. n - 1 \in 0..rounds /\ ~(n <= n - 1) /\ n \in 1..Len(samples)
      BY <1>4, <1>7
    <2>2. f[n - 1] = LeastOfLast(samples, n - 1)
      BY <1>3, <2>1
    <2> QED
      BY <1>5, <1>7, <2>1, <2>2, LeastOfLastStep
  <1> QED
    BY <1>6, <1>7

LEMMA SearchExists ==
  ASSUME NEW samples \in Seq(0..MaxDouble), NEW rounds \in 0..Len(samples),
         MaxDouble \in Nat
  PROVE  \E f : Searches(f, samples, rounds)
  <1> DEFINE f == [n \in 0..rounds |-> LeastOfLast(samples, n)]
  <1>1. ASSUME NEW n \in 0..rounds
        PROVE  f[n] = IF n = 0 THEN MaxDouble
                      ELSE ExD!Smaller(samples[Len(samples) - n + 1], f[n - 1])
    <2>1. CASE n = 0
      BY <2>1 DEF LeastOfLast
    <2>2. CASE n # 0
      <3>1. n \in 1..Len(samples) /\ n - 1 \in 0..rounds
        BY <2>2
      <3> QED
        BY <2>2, <3>1, LeastOfLastStep
    <2> QED
      BY <2>1, <2>2
  <1>2. Searches(f, samples, rounds)
    <2>1. f = [n \in 0..rounds |-> f[n]]
      OBVIOUS
    <2> HIDE DEF f
    <2> QED
      BY <1>1, <2>1 DEF Searches
  <1> QED
    BY <1>2

LEMMA SlidingMinimum ==
  ASSUME NEW samples \in Seq(0..MaxDouble), MaxDouble \in Nat,
         NEW num_samples \in Nat, num_samples > 1
  PROVE  ExD!SlidingMinRtt(samples, num_samples)
           = LeastOfLast(samples, ExD!Rounds(samples, num_samples))
  <1>1. PICK rounds : rounds = ExD!Rounds(samples, num_samples)
    OBVIOUS
  <1>2. rounds \in 0..Len(samples) /\ rounds \in 0..rounds
    <2>1. Len(samples) \in Nat
      OBVIOUS
    <2> QED
      BY <1>1, <2>1 DEF ExD!Rounds, ExD!Smaller
  <1>3. PICK f : /\ Searches(f, samples, rounds)
                 /\ ExD!SlidingMinRtt(samples, num_samples) = f[rounds]
    BY <1>1, <1>2, SearchExists
       DEF Searches, ExD!SlidingMinRtt, ExD!SearchStart
  <1> QED
    BY <1>1, <1>2, <1>3, SearchFinds

LEMMA QueueElement ==
  ASSUME NEW S, NEW q \in Seq(S), NEW i \in 1..Len(q)
  PROVE  q[i] \in S
  OBVIOUS

LEMMA QueueOfMore ==
  ASSUME NEW S, NEW T, S \subseteq T, NEW q \in Seq(S)
  PROVE  q \in Seq(T)
  <1>1. \A i \in 1..Len(q) : q[i] \in T
    BY QueueElement
  <1>2. q = [i \in 1..Len(q) |-> q[i]] /\ Len(q) \in Nat
    OBVIOUS
  <1> QED
    BY <1>1, <1>2

LEMMA SlidingMinimumIsRecent ==
  ASSUME NEW samples \in Seq(Rtts), Len(samples) > 0
  PROVE  LET first == Max({1, Len(samples) - NumSamples + 2})
         IN  /\ first \in 1..Len(samples)
             /\ ExD!SlidingMinRtt(samples, NumSamples)
                  = Min({samples[i] : i \in first..Len(samples)})
             /\ Len(samples) < NumSamples => first = 1
  <1> DEFINE first == Max({1, Len(samples) - NumSamples + 2})
  <1>1. /\ NumSamples \in Nat /\ NumSamples > 1 /\ Len(samples) \in Nat
        /\ MaxDouble \in Nat
    BY ControllersAssumption
  <1>2. samples \in Seq(0..MaxDouble)
    BY QueueOfMore, ControllersAssumption
  <1>3. PICK rounds : rounds = ExD!Rounds(samples, NumSamples)
    OBVIOUS
  <1>4. rounds = IF Len(samples) <= NumSamples - 1 THEN Len(samples)
                 ELSE NumSamples - 1
    BY <1>3 DEF ExD!Rounds, ExD!Smaller
  <1>5. first = IF Len(samples) - NumSamples + 2 >= 1
                THEN Len(samples) - NumSamples + 2 ELSE 1
    BY <1>1, MaxOfTwo
  <1>6. /\ rounds # 0 /\ first = Len(samples) - rounds + 1
        /\ first \in 1..Len(samples)
        /\ Len(samples) < NumSamples => first = 1
    <2> HIDE DEF first
    <2>1. PICK len \in Nat : len = Len(samples)
      BY <1>1
    <2>2. len > 0
      BY <2>1
    <2>3. rounds = IF len <= NumSamples - 1 THEN len ELSE NumSamples - 1
      BY <1>4, <2>1
    <2>4. first = IF len - NumSamples + 2 >= 1 THEN len - NumSamples + 2 ELSE 1
      BY <1>5, <2>1
    <2>5. /\ rounds # 0 /\ first = len - rounds + 1 /\ first \in 1..len
          /\ len < NumSamples => first = 1
      BY ONLY <1>1, <2>2, <2>3, <2>4
    <2> QED
      BY <2>1, <2>5
  <1>7. ExD!SlidingMinRtt(samples, NumSamples) = Min(LastOf(samples, rounds))
    BY <1>1, <1>2, <1>3, <1>6, SlidingMinimum DEF LeastOfLast
  <1> QED
    BY <1>6, <1>7 DEF LastOf

-----------------------------------------------------------------------------
(***************************************************************************)
(* One step of a window.                                                   *)
(***************************************************************************)
LEMMA Quotient ==
  ASSUME NEW a \in Nat, NEW b \in Nat \ {0}
  PROVE  a \div b \in Nat /\ (a \div b) * b <= a
  OBVIOUS

LEMMA Constants ==
  /\ Scale \in Nat /\ Scale >= 10 /\ InitialCwnd \in Nat /\ InitialCwnd >= 1
  /\ NumSamples \in Nat /\ NumSamples > 1 /\ MaxDouble \in Nat
  /\ Rtts \subseteq Nat /\ Rtts \subseteq 0..MaxDouble
  /\ MaxAcks \in Nat /\ MaxTimeouts \in Nat
  BY ControllersAssumption

LEMMA SquareOfSum ==
  ASSUME NEW c \in Nat, NEW q \in Nat
  PROVE  Square(c + q) = Square(c) + 2 * (q * c) + Square(q)
  BY DEF Square

LEMMA SquareGrows ==
  ASSUME NEW a \in Nat, NEW b \in Nat, a <= b
  PROVE  Square(a) <= Square(b) /\ Square(a) \in Nat /\ Square(b) \in Nat
  BY DEF Square

AimdBound(c, n) ==
    100 * Square(c) <= (100 * Square(InitialCwnd) + 21 * n) * Square(Scale)

ExDBound(c, n) ==
    Square(c) <= (Square(InitialCwnd) + 8 * n) * Square(Scale)

LEMMA AimdGrowth ==
  ASSUME NEW c \in Nat, c >= Scale, NEW n \in Nat, AimdBound(c, n),
         NEW d, d = c + (Scale * Scale) \div (10 * c)
  PROVE  d \in Nat /\ d >= Scale /\ AimdBound(d, n + 1)
  <1> DEFINE q == (Scale * Scale) \div (10 * c)
  <1>1. q \in Nat /\ q * (10 * c) <= Scale * Scale
    <2>1. Scale * Scale \in Nat /\ 10 * c \in Nat \ {0}
      BY Constants
    <2> QED
      BY <2>1, Quotient
  <1>2. PICK r : r = q
    OBVIOUS
  <1>3. r \in Nat /\ 10 * (r * c) <= Scale * Scale
    BY <1>1, <1>2
  <1>4. 10 * r <= Scale
    BY ONLY <1>3, c \in Nat, c >= Scale, Constants
  <1>5. 100 * Square(r) <= Square(Scale)
    <2>1. Square(10 * r) = 100 * Square(r)
      BY <1>3 DEF Square
    <2> QED
      BY <1>3, <1>4, <2>1, SquareGrows, Constants
  <1>6. 100 * Square(c + r) <= 100 * Square(c) + 21 * Square(Scale)
    <2>1. Square(c + r) = Square(c) + 2 * (r * c) + Square(r)
      BY <1>3, SquareOfSum
    <2>2. 10 * (r * c) <= Square(Scale)
      BY <1>3 DEF Square
    <2>3. /\ Square(c) \in Nat /\ r * c \in Nat /\ Square(r) \in Nat
          /\ Square(Scale) \in Nat
      BY <1>3, Constants DEF Square
    <2> QED
      BY ONLY <1>5, <2>1, <2>2, <2>3
  <1>7. /\ (100 * Square(InitialCwnd) + 21 * (n + 1)) * Square(Scale)
            = (100 * Square(InitialCwnd) + 21 * n) * Square(Scale)
              + 21 * Square(Scale)
        /\ Square(c + r) \in Nat /\ Square(c) \in Nat /\ Square(Scale) \in Nat
        /\ (100 * Square(InitialCwnd) + 21 * n) * Square(Scale) \in Nat
    BY <1>3, Constants DEF Square
  <1>8. AimdBound(c + r, n + 1)
    BY <1>6, <1>7 DEF AimdBound
  <1> QED
    BY <1>2, <1>3, <1>8, Constants

LEMMA ExDGrowth ==
  ASSUME NEW c \in Nat, c >= Scale, NEW n \in Nat, ExDBound(c, n),
         NEW d, d = c + (2 * Scale * Scale) \div c
  PROVE  d \in Nat /\ d >= c /\ d >= Scale /\ ExDBound(d, n + 1)
  <1> DEFINE q == (2 * Scale * Scale) \div c
  <1>1. q \in Nat /\ q * c <= 2 * (Scale * Scale)
    <2>1. 2 * Scale * Scale = 2 * (Scale * Scale)
      BY Constants
    <2>2. 2 * (Scale * Scale) \in Nat /\ c \in Nat \ {0}
      BY Constants
    <2> QED
      BY <2>1, <2>2, Quotient
  <1>2. PICK r : r = q
    OBVIOUS
  <1>3. r \in Nat /\ r * c <= 2 * (Scale * Scale)
    BY <1>1, <1>2
  <1>4. r <= 2 * Scale
    BY ONLY <1>3, c \in Nat, c >= Scale, Constants
  <1>5. Square(r) <= 4 * Square(Scale)
    <2>1. Square(2 * Scale) = 4 * Square(Scale)
      BY Constants DEF Square
    <2> QED
      BY <1>3, <1>4, <2>1, SquareGrows, Constants
  <1>6. Square(c + r) <= Square(c) + 8 * Square(Scale)
    <2>1. Square(c + r) = Square(c) + 2 * (r * c) + Square(r)
      BY <1>3, SquareOfSum
    <2>2. r * c <= 2 * Square(Scale)
      BY <1>3 DEF Square
    <2>3. /\ Square(c) \in Nat /\ r * c \in Nat /\ Square(r) \in Nat
          /\ Square(Scale) \in Nat
      BY <1>3, Constants DEF Square
    <2> QED
      BY ONLY <1>5, <2>1, <2>2, <2>3
  <1>7. /\ (Square(InitialCwnd) + 8 * (n + 1)) * Square(Scale)
            = (Square(InitialCwnd) + 8 * n) * Square(Scale)
              + 8 * Square(Scale)
        /\ Square(c + r) \in Nat /\ Square(c) \in Nat /\ Square(Scale) \in Nat
        /\ (Square(InitialCwnd) + 8 * n) * Square(Scale) \in Nat
    BY <1>3, Constants DEF Square
  <1>8. ExDBound(c + r, n + 1)
    BY <1>6, <1>7 DEF ExDBound
  <1> QED
    BY <1>2, <1>3, <1>8, Constants

LEMMA AimdShrinks ==
  ASSUME NEW c \in Nat, c >= Scale, NEW n \in Nat, AimdBound(c, n),
         NEW d, d = ExB!Largest((2 * c) \div 3, Scale)
  PROVE  d \in Nat /\ d >= Scale /\ AimdBound(d, n)
  <1>1. (2 * c) \div 3 \in Nat /\ (2 * c) \div 3 <= c
    OBVIOUS
  <1>2. d \in Nat /\ d >= Scale /\ d <= c
    BY <1>1, Constants DEF ExB!Largest
  <1>3. /\ Square(d) <= Square(c) /\ Square(d) \in Nat /\ Square(c) \in Nat
        /\ (100 * Square(InitialCwnd) + 21 * n) * Square(Scale) \in Nat
    BY <1>2, SquareGrows, Constants DEF Square
  <1> QED
    BY <1>2, <1>3 DEF AimdBound

LEMMA ExDShrinks ==
  ASSUME NEW c \in Nat, c >= Scale, NEW n \in Nat, ExDBound(c, n),
         NEW d, d = ExD!Larger(c - (5 * Scale * Scale) \div c, Scale)
  PROVE  d \in Nat /\ d >= Scale /\ ExDBound(d, n + 1)
  <1>1. (5 * Scale * Scale) \div c \in Nat
    <2>1. 5 * Scale * Scale \in Nat /\ c \in Nat \ {0}
      BY Constants
    <2> QED
      BY <2>1, Quotient
  <1>2. d \in Nat /\ d >= Scale /\ d <= c
    BY <1>1, Constants DEF ExD!Larger
  <1>3. /\ Square(d) <= Square(c) /\ Square(d) \in Nat /\ Square(c) \in Nat
        /\ (Square(InitialCwnd) + 8 * n) * Square(Scale) \in Nat
        /\ (Square(InitialCwnd) + 8 * (n + 1)) * Square(Scale)
            = (Square(InitialCwnd) + 8 * n) * Square(Scale) + 8 * Square(Scale)
        /\ Square(Scale) \in Nat
    BY <1>2, SquareGrows, Constants DEF Square
  <1> QED
    BY <1>2, <1>3 DEF ExDBound

(* A moving average of what is not below a bound is not below it.          *)
LEMMA AverageStays ==
  ASSUME NEW rtt \in Nat, NEW average \in Nat, NEW low \in Nat, low <= rtt,
         average >= low * Scale,
         NEW next, next = (rtt * Scale + 99 * average) \div 100
  PROVE  next \in Nat /\ next >= low * Scale
  <1>1. PICK a : a = rtt * Scale
    OBVIOUS
  <1>2. PICK b : b = low * Scale
    OBVIOUS
  <1>3. a \in Nat /\ b \in Nat /\ b <= a
    BY <1>1, <1>2, Constants
  <1>4. next = (a + 99 * average) \div 100 /\ average >= b
    BY <1>1, <1>2
  <1> QED
    BY ONLY <1>2, <1>3, <1>4, average \in Nat

(***************************************************************************)
(* A round trip and what ExC and ExD make of it: their thresholds c and d, *)
(* ExC's minimum m and the minimum dm to which ExD may reset.              *)
(***************************************************************************)
LEMMA NeverLaxerStep ==
  ASSUME NEW rtt \in Nat, NEW c \in Nat, NEW d \in Nat, NEW m \in Nat,
         NEW dm \in Nat, c <= d, c = d \/ m <= d,
         NEW m2, m2 = (IF m <= rtt THEN m ELSE rtt), m2 <= dm,
         NEW tc, tc = (rtt + 99 * c) \div 100,
         NEW td, td = (rtt + 99 * d) \div 100,
         NEW c2, c2 = (IF 10 * rtt > 14 * tc THEN m2 ELSE tc),
         NEW d2, d2 = (IF 10 * rtt > 14 * td THEN dm ELSE td)
  PROVE  c2 <= d2 /\ (c2 = d2 \/ m2 <= d2)
  <1>1. tc \in Nat /\ td \in Nat /\ tc <= td /\ (c = d => tc = td)
    OBVIOUS
  <1>2. m2 \in Nat /\ (m <= d => m2 <= td)
    OBVIOUS
  <1>3. CASE 10 * rtt > 14 * td
    BY <1>1, <1>2, <1>3
  <1>4. CASE ~(10 * rtt > 14 * td)
    BY <1>1, <1>2, <1>4
  <1> QED
    BY <1>3, <1>4

LEMMA LongerThanLowest ==
  ASSUME NEW rtt \in Nat, NEW average \in Nat, NEW low \in Nat,
         average >= low * Scale, 10 * rtt * Scale > 14 * average
  PROVE  10 * rtt > 14 * low
  <1>1. 10 * rtt * Scale > 14 * low * Scale
    BY Constants
  <1> QED
    BY <1>1, Constants

-----------------------------------------------------------------------------
(***************************************************************************)
(* What the samples' bounds become with one sample more.                   *)
(***************************************************************************)
LEMMA LowestIsLeast ==
  ASSUME NEW samples \in Seq(Rtts)
  PROVE  /\ Lowest(samples) \in Nat /\ Lowest(samples) <= 50
         /\ \A i \in 1..Len(samples) : Lowest(samples) <= samples[i]
         /\ \A low \in Nat :
              (low <= 50 /\ \A i \in 1..Len(samples) : low <= samples[i])
              => low <= Lowest(samples)
  <1> DEFINE T == {50} \cup {samples[i] : i \in DOMAIN samples}
  <1>1. DOMAIN samples = 1..Len(samples)
    OBVIOUS
  <1>2. \A i \in 1..Len(samples) : samples[i] \in Nat
    BY QueueElement, Constants
  <1>3. T \subseteq Nat /\ T # {}
    BY <1>1, <1>2
  <1>4. /\ Lowest(samples) \in T /\ Lowest(samples) \in Nat
        /\ \A y \in T : Lowest(samples) <= y
    <2> HIDE DEF T
    <2>1. Min(T) \in T /\ Min(T) \in Nat /\ \A y \in T : Min(T) <= y
      BY <1>3, MinIsLeast
    <2>2. Lowest(samples) = Min(T)
      BY DEF Lowest, T
    <2> QED
      BY <2>1, <2>2
  <1> QED
    BY <1>1, <1>2, <1>4

LEMMA LowestOfMore ==
  ASSUME NEW samples \in Seq(Rtts), NEW rtt \in Rtts
  PROVE  /\ Lowest(Append(samples, rtt)) \in Nat
         /\ Lowest(Append(samples, rtt)) <= Lowest(samples)
         /\ Lowest(Append(samples, rtt)) <= rtt
  <1> DEFINE more == Append(samples, rtt)
  <1>1. /\ more \in Seq(Rtts) /\ Len(samples) \in Nat
        /\ Len(more) = Len(samples) + 1 /\ more[Len(samples) + 1] = rtt
        /\ \A i \in 1..Len(samples) : more[i] = samples[i]
    OBVIOUS
  <1> HIDE DEF more
  <1>2. /\ Lowest(more) \in Nat /\ Lowest(more) <= 50
        /\ \A i \in 1..Len(more) : Lowest(more) <= more[i]
    BY <1>1, LowestIsLeast
  <1>3. \A i \in 1..Len(samples) : Lowest(more) <= samples[i]
    BY <1>1, <1>2
  <1>4. Lowest(more) <= rtt
    BY <1>1, <1>2
  <1> QED
    BY <1>2, <1>3, <1>4, LowestIsLeast DEF more

-----------------------------------------------------------------------------
(***************************************************************************)
(* The invariant.                                                          *)
(***************************************************************************)
LEMMA InitInvariant == Init => IInv
  <1> SUFFICES ASSUME Init PROVE IInv
    OBVIOUS
  <1>1. /\ b_cwnd = InitialCwnd * Scale /\ c_cwnd = InitialCwnd * Scale
        /\ d_cwnd = InitialCwnd * Scale
        /\ c_thresh = 50 * Scale /\ c_min = 80 * Scale
        /\ d_average = 50 * Scale /\ d_min = 80 * Scale /\ d_samples = <<>>
        /\ acks = 0 /\ timeouts = 0
    BY DEF Init, ExB!Init, ExC!Init, ExD!Init
  <1>2. /\ InitialCwnd * Scale \in Nat /\ InitialCwnd * Scale >= Scale
        /\ 50 * Scale \in Nat /\ 80 * Scale \in Nat
    BY Constants
  <1>3. TypeOK /\ CwndsStayOpen /\ Len(d_samples) = acks
    BY <1>1, <1>2, Constants DEF TypeOK, CwndsStayOpen
  <1>4. Square(InitialCwnd * Scale) = Square(InitialCwnd) * Square(Scale)
    BY Constants DEF Square
  <1>5. /\ AimdBound(InitialCwnd * Scale, 0)
        /\ ExDBound(InitialCwnd * Scale, 0)
    <2>1. Square(InitialCwnd) \in Nat /\ Square(Scale) \in Nat
      BY Constants DEF Square
    <2> QED
      BY <1>4, <2>1 DEF AimdBound, ExDBound
  <1>6. AimdGrowsSlowly /\ ExDGrowsSlowly
    BY <1>1, <1>5 DEF AimdBound, ExDBound, AimdGrowsSlowly, ExDGrowsSlowly
  <1>7. AverageAboveLowest
    <2>1. Lowest(d_samples) \in Nat /\ Lowest(d_samples) <= 50
      BY <1>3, LowestIsLeast DEF TypeOK
    <2>2. Lowest(d_samples) * Scale <= 50 * Scale
      BY <2>1, Constants
    <2> QED
      BY <1>1, <2>2 DEF AverageAboveLowest
  <1>8. /\ MinimumIsRecent /\ AlikeAtFirst /\ SameUntilForgotten
        /\ MinimumIsOfAll /\ AlikeOrReset /\ NeverLaxerThanExD
    BY <1>1, <1>2 DEF MinimumIsRecent, AlikeAtFirst, SameUntilForgotten,
                      MinimumIsOfAll, AlikeOrReset, NeverLaxerThanExD
  <1> QED
    BY <1>3, <1>6, <1>7, <1>8 DEF IInv

LEMMA TimeoutInvariant ==
  ASSUME IInv, DatagramWasSentOnTimeout
  PROVE  IInv'
  <1>1. /\ timeouts' = timeouts + 1 /\ timeouts < MaxTimeouts
        /\ b_cwnd' = ExB!Largest((2 * b_cwnd) \div 3, Scale)
        /\ UNCHANGED <<c_cwnd, c_thresh, c_min, d_cwnd, d_average, d_min,
                       d_samples, acks>>
    BY DEF DatagramWasSentOnTimeout, ExB!DatagramWasSent, ExB!DivideByBeta,
           cVars, dVars
  <1>2. /\ b_cwnd \in Nat /\ b_cwnd >= Scale /\ acks \in Nat
        /\ AimdBound(b_cwnd, acks)
    BY Constants
       DEF IInv, TypeOK, CwndsStayOpen, AimdGrowsSlowly, AimdBound
  <1>3. b_cwnd' \in Nat /\ b_cwnd' >= Scale /\ AimdBound(b_cwnd', acks')
    BY <1>1, <1>2, AimdShrinks
  <1>4. AimdGrowsSlowly'
    BY <1>3 DEF AimdBound, AimdGrowsSlowly
  <1>5. TypeOK' /\ CwndsStayOpen'
    BY <1>1, <1>3, Constants DEF IInv, TypeOK, CwndsStayOpen
  <1>6. /\ (Len(d_samples) = acks)' /\ ExDGrowsSlowly'
        /\ AverageAboveLowest' /\ MinimumIsRecent' /\ AlikeAtFirst'
        /\ SameUntilForgotten' /\ MinimumIsOfAll' /\ AlikeOrReset'
        /\ NeverLaxerThanExD'
    BY <1>1 DEF IInv, ExDGrowsSlowly, AverageAboveLowest, MinimumIsRecent,
                AlikeAtFirst, SameUntilForgotten, MinimumIsOfAll,
                AlikeOrReset, NeverLaxerThanExD
  <1> QED
    BY <1>4, <1>5, <1>6 DEF IInv

(* What both delay controllers make of a round trip.                       *)
Average(rtt, average) == (rtt * Scale + 99 * average) \div 100

Exceeds(rtt, average) == 10 * rtt * Scale > 14 * average

NextCwnd(cwnd, exceeds) ==
    IF exceeds THEN ExD!Larger(cwnd - (5 * Scale * Scale) \div cwnd, Scale)
    ELSE cwnd + (2 * Scale * Scale) \div cwnd

LEMMA AckSteps ==
  ASSUME IInv, NEW rtt \in Rtts, AckReceived(rtt)
  PROVE  /\ acks' = acks + 1 /\ acks < MaxAcks /\ timeouts' = timeouts
         /\ b_cwnd' = b_cwnd + (Scale * Scale) \div (10 * b_cwnd)
         /\ c_min' = ExC!Smaller(c_min, rtt * Scale)
         /\ LET average == Average(rtt, c_thresh)
            IN  /\ c_cwnd' = NextCwnd(c_cwnd, Exceeds(rtt, average))
                /\ c_thresh' = IF Exceeds(rtt, average) THEN c_min' ELSE average
         /\ d_samples' = Append(d_samples, rtt)
         /\ d_min' = ExD!SlidingMinRtt(d_samples', NumSamples) * Scale
         /\ LET average == Average(rtt, d_average)
            IN  /\ d_cwnd' = NextCwnd(d_cwnd, Exceeds(rtt, average))
                /\ d_average' = IF Exceeds(rtt, average) THEN d_min' ELSE average
  <1>1. /\ acks' = acks + 1 /\ acks < MaxAcks /\ timeouts' = timeouts
        /\ ExB!AckReceived /\ ExC!AckReceived(rtt) /\ ExD!AckReceived(rtt)
    BY DEF AckReceived
  <1>2. b_cwnd' = b_cwnd + (Scale * Scale) \div (10 * b_cwnd)
    BY <1>1 DEF ExB!AckReceived
  <1>3. /\ c_min' = ExC!Smaller(c_min, rtt * Scale)
        /\ LET average == Average(rtt, c_thresh)
           IN  /\ c_cwnd' = NextCwnd(c_cwnd, Exceeds(rtt, average))
               /\ c_thresh' = IF Exceeds(rtt, average) THEN c_min' ELSE average
    BY <1>1 DEF ExC!AckReceived, ExC!ResetTo, ExC!Larger, ExD!Larger, Average,
                Exceeds, NextCwnd
  <1>4. /\ d_samples' = Append(d_samples, rtt)
        /\ d_min' = ExD!SlidingMinRtt(d_samples', NumSamples) * Scale
        /\ LET average == Average(rtt, d_average)
           IN  /\ d_cwnd' = NextCwnd(d_cwnd, Exceeds(rtt, average))
               /\ d_average' = IF Exceeds(rtt, average) THEN d_min' ELSE average
    BY <1>1 DEF ExD!AckReceived, ExD!Increase, ExD!Decrease, Average, Exceeds,
                NextCwnd
  <1> QED
    BY <1>1, <1>2, <1>3, <1>4

LEMMA AckSamples ==
  ASSUME IInv, NEW rtt \in Rtts, AckReceived(rtt)
  PROVE  /\ d_samples' \in Seq(Rtts) /\ Len(d_samples') = acks'
         /\ acks \in Nat /\ acks' = acks + 1 /\ rtt \in Nat
         /\ d_samples'[acks'] = rtt
         /\ \A i \in 1..acks : d_samples'[i] = d_samples[i]
  <1>1. /\ d_samples \in Seq(Rtts) /\ Len(d_samples) = acks /\ acks \in Nat
    BY Constants DEF IInv, TypeOK
  <1>2. d_samples' = Append(d_samples, rtt) /\ acks' = acks + 1
    BY AckSteps
  <1> QED
    BY <1>1, <1>2, Constants

(* The moving average before it is reset.                                  *)
LEMMA AckAverage ==
  ASSUME IInv, NEW rtt \in Rtts, AckReceived(rtt)
  PROVE  /\ Lowest(d_samples') \in Nat
         /\ Average(rtt, d_average) \in Nat
         /\ Average(rtt, d_average) >= Lowest(d_samples') * Scale
  <1>1. /\ d_samples \in Seq(Rtts) /\ d_average \in Nat
        /\ d_average >= Lowest(d_samples) * Scale
    BY DEF IInv, TypeOK, AverageAboveLowest
  <1>2. PICK low : low = Lowest(d_samples')
    OBVIOUS
  <1>3. low \in Nat /\ low <= Lowest(d_samples) /\ low <= rtt
    BY <1>1, <1>2, AckSteps, LowestOfMore
  <1>4. rtt \in Nat /\ Lowest(d_samples) \in Nat
    BY <1>1, LowestIsLeast, Constants
  <1>5. low * Scale <= Lowest(d_samples) * Scale
    BY <1>3, <1>4, Constants
  <1>6. d_average >= low * Scale
    BY <1>1, <1>3, <1>4, <1>5, Constants
  <1>7. /\ Average(rtt, d_average) \in Nat
        /\ Average(rtt, d_average) >= low * Scale
    BY <1>1, <1>3, <1>4, <1>6, AverageStays DEF Average
  <1> QED
    BY <1>2, <1>3, <1>7

(* The minimum of the recent round trips.                                  *)
LEMMA AckMinimum ==
  ASSUME IInv, NEW rtt \in Rtts, AckReceived(rtt)
  PROVE  /\ MinimumIsRecent' /\ d_min' \in Nat
         /\ d_min' >= Lowest(d_samples') * Scale
         /\ \E i \in 1..acks' : d_min' = d_samples'[i] * Scale
         /\ acks' < NumSamples =>
              d_min' = Scale * Min({d_samples'[i] : i \in 1..acks'})
  <1>1. PICK samples \in Seq(Rtts) : samples = d_samples'
    BY AckSamples
  <1>2. PICK n \in Nat : n = acks' /\ n = Len(samples) /\ n > 0
    <2>1. acks + 1 \in Nat /\ acks + 1 > 0
      BY AckSamples
    <2> QED
      BY <1>1, <2>1, AckSamples
  <1>3. PICK first : first = Max({1, n - NumSamples + 2})
    OBVIOUS
  <1>4. PICK least : least = Min({samples[i] : i \in first..n})
    OBVIOUS
  <1>5. /\ first \in 1..n
        /\ ExD!SlidingMinRtt(samples, NumSamples) = least
        /\ n < NumSamples => first = 1
    BY <1>2, <1>3, <1>4, SlidingMinimumIsRecent
  <1>6. d_min' = least * Scale
    BY <1>1, <1>5, AckSteps
  <1>7. /\ least \in Nat /\ Lowest(samples) <= least
        /\ \E i \in 1..n : least = samples[i]
    <2> DEFINE T == {samples[i] : i \in first..n}
    <2>1. ASSUME NEW i \in first..n
          PROVE  samples[i] \in Nat /\ i \in 1..Len(samples)
      <3>1. i \in 1..Len(samples)
        BY <1>2, <1>5
      <3> QED
        BY <3>1, QueueElement, Constants
    <2>2. T \subseteq Nat /\ T # {}
      BY <1>5, <2>1
    <2>3. least \in T /\ least \in Nat
      <3> HIDE DEF T
      <3>1. least = Min(T)
        BY <1>4 DEF T
      <3> QED
        BY <2>2, <3>1, MinIsLeast
    <2> QED
      BY <1>2, <2>1, <2>3, LowestIsLeast
  <1>8. /\ least * Scale = Scale * least /\ least * Scale \in Nat
        /\ least * Scale >= Lowest(samples) * Scale
    <2>1. PICK low \in Nat : low = Lowest(samples)
      BY LowestIsLeast
    <2>2. least \in Nat /\ low <= least
      BY <1>7, <2>1
    <2> QED
      BY ONLY <2>1, <2>2, Constants
  <1>9. MinimumIsRecent'
    BY <1>1, <1>2, <1>3, <1>4, <1>6, <1>8, Constants DEF MinimumIsRecent
  <1>10. \E i \in 1..acks' : d_min' = d_samples'[i] * Scale
    BY <1>1, <1>2, <1>6, <1>7
  <1> QED
    BY <1>1, <1>2, <1>4, <1>5, <1>6, <1>8, <1>9, <1>10

(* The least of the round trips so far, while none is forgotten.           *)
LEMMA AckLeast ==
  ASSUME IInv, NEW rtt \in Rtts, AckReceived(rtt), acks > 0
  PROVE  LET least == Min({d_samples[i] : i \in 1..acks})
         IN  /\ least \in Nat
             /\ Min({d_samples'[i] : i \in 1..acks'})
                  = IF rtt <= least THEN rtt ELSE least
  <1> DEFINE T == {d_samples[i] : i \in 1..acks}
  <1>1. /\ d_samples \in Seq(Rtts) /\ Len(d_samples) = acks /\ acks \in Nat
    BY Constants DEF IInv, TypeOK
  <1>2. /\ acks' = acks + 1 /\ rtt \in Nat /\ d_samples'[acks'] = rtt
        /\ \A i \in 1..acks : d_samples'[i] = d_samples[i]
    BY AckSamples
  <1>3. T \subseteq Nat /\ T # {}
    <2>1. \A i \in 1..acks : d_samples[i] \in Nat
      BY <1>1, QueueElement, Constants
    <2>2. 1 \in 1..acks
      BY <1>1
    <2> QED
      BY <2>1, <2>2
  <1>4. {d_samples'[i] : i \in 1..acks'} = T \cup {rtt}
    <2>1. 1..acks' = (1..acks) \cup {acks'}
      BY <1>1, <1>2
    <2> QED
      BY <1>2, <2>1
  <1> HIDE DEF T
  <1>5. Min(T) \in Nat
    BY <1>3, MinIsLeast
  <1>6. Min(T \cup {rtt}) = IF rtt <= Min(T) THEN rtt ELSE Min(T)
    BY <1>2, <1>3, MinOfMore
  <1> QED
    BY <1>4, <1>5, <1>6 DEF T

(* Until a round trip is forgotten, both controllers know the same minimum.*)
LEMMA AckAlike ==
  ASSUME IInv, NEW rtt \in Rtts, AckReceived(rtt)
  PROVE  SameUntilForgotten'
  <1> SUFFICES ASSUME acks' < NumSamples, d_samples'[1] <= 80
               PROVE  c_cwnd' = d_cwnd' /\ c_thresh' = d_average'
                      /\ c_min' = d_min'
    BY DEF SameUntilForgotten
  <1>1. acks \in Nat /\ acks' = acks + 1 /\ rtt \in Nat
    BY AckSamples
  <1>2. /\ c_cwnd = d_cwnd /\ c_thresh = d_average /\ c_min' = d_min'
    <2>1. CASE acks = 0
      <3>1. c_cwnd = d_cwnd /\ c_thresh = d_average /\ c_min = 80 * Scale
        BY <2>1 DEF IInv, AlikeAtFirst
      <3>2. rtt <= 80 /\ acks' = 1 /\ d_samples'[1] = rtt
        BY <1>1, <2>1, AckSamples
      <3>3. c_min' = rtt * Scale
        <4>1. rtt * Scale <= 80 * Scale
          BY <1>1, <3>2, Constants
        <4>2. c_min' = ExC!Smaller(c_min, rtt * Scale)
          BY AckSteps
        <4> QED
          BY <1>1, <3>1, <4>1, <4>2, Constants DEF ExC!Smaller
      <3>4. Min({d_samples'[i] : i \in 1..acks'}) = rtt
        <4>1. {d_samples'[i] : i \in 1..acks'} = {rtt}
          BY <3>2
        <4>2. {rtt} \subseteq Nat /\ rtt \in {rtt} /\ \A y \in {rtt} : rtt <= y
          BY <1>1
        <4> QED
          BY <4>1, <4>2, MinValue
      <3>5. d_min' = Scale * rtt
        BY <3>4, AckMinimum
      <3> QED
        BY <1>1, <3>1, <3>3, <3>5, Constants
    <2>2. CASE acks > 0
      <3>1. /\ c_cwnd = d_cwnd /\ c_thresh = d_average /\ c_min = d_min
        <4>1. d_samples'[1] = d_samples[1] /\ acks < NumSamples
          BY <1>1, <2>2, AckSamples, Constants
        <4> QED
          BY <2>2, <4>1 DEF IInv, SameUntilForgotten
      <3>2. PICK least : least = Min({d_samples[i] : i \in 1..acks})
        OBVIOUS
      <3>3. d_min = Scale * least
        <4>1. Max({1, acks - NumSamples + 2}) = 1
          <5>1. PICK x \in Int : x = acks - NumSamples + 2
            BY <1>1, Constants
          <5>2. x <= 1
            BY <1>1, <5>1, Constants
          <5> QED
            BY <5>1, <5>2, MaxOfTwo
        <4> QED
          BY <2>2, <3>2, <4>1 DEF IInv, MinimumIsRecent
      <3>4. /\ least \in Nat
            /\ d_min' = Scale * (IF rtt <= least THEN rtt ELSE least)
        BY <2>2, <3>2, AckLeast, AckMinimum
      <3>5. c_min' = IF c_min <= rtt * Scale THEN c_min ELSE rtt * Scale
        BY AckSteps DEF ExC!Smaller
      <3>6. /\ rtt <= least => rtt * Scale <= Scale * least
            /\ rtt > least => rtt * Scale > Scale * least
            /\ rtt * Scale = Scale * rtt
            /\ rtt * Scale \in Nat /\ Scale * least \in Nat
        BY <1>1, <3>4, Constants
      <3> QED
        BY <1>1, <3>1, <3>3, <3>4, <3>5, <3>6
    <2> QED
      BY <1>1, <2>1, <2>2
  <1> QED
    BY <1>2, AckSteps

(* ExC's threshold stays below ExD's average.                              *)
LEMMA AckNeverLaxer ==
  ASSUME IInv, NEW rtt \in Rtts, AckReceived(rtt)
  PROVE  MinimumIsOfAll' /\ AlikeOrReset' /\ NeverLaxerThanExD'
  <1>1. /\ c_thresh \in Nat /\ d_average \in Nat /\ c_min \in Nat
        /\ c_thresh <= d_average
        /\ c_thresh = d_average \/ c_min <= d_average
        /\ d_samples \in Seq(Rtts) /\ Len(d_samples) = acks
        /\ \A i \in 1..acks : c_min <= d_samples[i] * Scale
    BY DEF IInv, TypeOK, NeverLaxerThanExD, AlikeOrReset, MinimumIsOfAll
  <1>2. /\ acks \in Nat /\ acks' = acks + 1 /\ rtt \in Nat
        /\ d_samples' \in Seq(Rtts) /\ Len(d_samples') = acks'
        /\ d_samples'[acks'] = rtt
        /\ \A i \in 1..acks : d_samples'[i] = d_samples[i]
    BY AckSamples
  <1>3. PICK r \in Nat : r = rtt * Scale
    <2>1. rtt * Scale \in Nat
      BY <1>2, Constants
    <2> QED
      BY <2>1
  <1>4. PICK least : least = c_min'
    OBVIOUS
  <1>5. least = (IF c_min <= r THEN c_min ELSE r)
    BY <1>3, <1>4, AckSteps DEF ExC!Smaller
  <1>6. least \in Nat /\ least <= c_min /\ least <= r
    BY <1>1, <1>3, <1>5
  <1>7. ASSUME NEW i \in 1..acks' PROVE c_min' <= d_samples'[i] * Scale
    <2>1. CASE i = acks'
      BY <1>2, <1>3, <1>4, <1>6, <2>1
    <2>2. CASE i # acks'
      <3>1. i \in 1..acks
        BY <1>2, <2>2
      <3>2. PICK s \in Nat : s = d_samples[i] * Scale
        <4>1. d_samples[i] \in Nat
          BY <1>1, <3>1, QueueElement, Constants
        <4>2. d_samples[i] * Scale \in Nat
          BY <4>1, Constants
        <4> QED
          BY <4>2
      <3>3. c_min <= s /\ d_samples'[i] * Scale = s
        BY <1>1, <1>2, <3>1, <3>2
      <3> QED
        BY <1>1, <1>4, <1>6, <3>2, <3>3
    <2> QED
      BY <2>1, <2>2
  <1>8. MinimumIsOfAll'
    BY <1>2, <1>7 DEF MinimumIsOfAll
  <1>9. PICK dm \in Nat : dm = d_min' /\ least <= dm
    <2>1. PICK i \in 1..acks' : d_min' = d_samples'[i] * Scale
      BY AckMinimum
    <2> QED
      BY <1>4, <1>7, <2>1, AckMinimum
  <1>10. PICK tc, td : tc = Average(rtt, c_thresh) /\ td = Average(rtt, d_average)
    OBVIOUS
  <1>11. tc = (r + 99 * c_thresh) \div 100 /\ td = (r + 99 * d_average) \div 100
    BY <1>3, <1>10 DEF Average
  <1>12. 10 * rtt * Scale = 10 * r
    BY <1>2, <1>3, Constants
  <1>13. /\ c_thresh' = IF 10 * r > 14 * tc THEN least ELSE tc
         /\ d_average' = IF 10 * r > 14 * td THEN dm ELSE td
    BY <1>4, <1>9, <1>10, <1>12, AckSteps DEF Exceeds
  <1>14. PICK c2, d2 : c2 = c_thresh' /\ d2 = d_average'
    OBVIOUS
  <1>15. /\ c2 = (IF 10 * r > 14 * tc THEN least ELSE tc)
         /\ d2 = (IF 10 * r > 14 * td THEN dm ELSE td)
    BY <1>13, <1>14
  <1>16. c2 <= d2 /\ (c2 = d2 \/ least <= d2)
    BY ONLY <1>1, <1>5, <1>9, <1>11, <1>15, r \in Nat, NeverLaxerStep
  <1> QED
    BY <1>4, <1>8, <1>14, <1>16 DEF AlikeOrReset, NeverLaxerThanExD

LEMMA AckInvariant ==
  ASSUME IInv, NEW rtt \in Rtts, AckReceived(rtt)
  PROVE  IInv'
  <1>0. /\ b_cwnd \in Nat /\ b_cwnd >= Scale /\ c_cwnd \in Nat
        /\ c_cwnd >= Scale /\ d_cwnd \in Nat /\ d_cwnd >= Scale
        /\ c_thresh \in Nat /\ c_min \in Nat /\ d_average \in Nat
        /\ acks \in Nat /\ rtt \in Nat /\ rtt * Scale \in Nat
        /\ AimdBound(b_cwnd, acks) /\ ExDBound(d_cwnd, acks)
    BY Constants DEF IInv, TypeOK, CwndsStayOpen, AimdGrowsSlowly, AimdBound,
                     ExDGrowsSlowly, ExDBound
  <1>1. /\ d_samples' \in Seq(Rtts) /\ Len(d_samples') = acks'
        /\ acks' = acks + 1
    BY AckSamples
  <1>2. b_cwnd' \in Nat /\ b_cwnd' >= Scale /\ AimdBound(b_cwnd', acks')
    BY <1>0, AckSteps, AimdGrowth
  <1>3. AimdGrowsSlowly'
    BY <1>2 DEF AimdBound, AimdGrowsSlowly
  <1>4. ASSUME NEW c \in Nat, c >= Scale, NEW exceeds
        PROVE  NextCwnd(c, exceeds) \in Nat /\ NextCwnd(c, exceeds) >= Scale
    <2>1. /\ (5 * Scale * Scale) \div c \in Nat
          /\ (2 * Scale * Scale) \div c \in Nat
      <3>1. /\ 5 * Scale * Scale \in Nat /\ 2 * Scale * Scale \in Nat
            /\ c \in Nat \ {0}
        BY <1>4, Constants
      <3> QED
        BY <3>1, Quotient
    <2> QED
      BY <1>4, <2>1, Constants DEF NextCwnd, ExD!Larger
  <1>5. /\ d_cwnd' \in Nat /\ d_cwnd' >= Scale /\ ExDBound(d_cwnd', acks')
    <2>1. PICK exceeds : d_cwnd' = NextCwnd(d_cwnd, exceeds)
      BY AckSteps
    <2>2. CASE exceeds
      BY <1>0, <1>1, <2>1, <2>2, ExDShrinks DEF NextCwnd
    <2>3. CASE ~exceeds
      BY <1>0, <1>1, <2>1, <2>3, ExDGrowth DEF NextCwnd
    <2> QED
      BY <2>1, <2>2, <2>3
  <1>6. ExDGrowsSlowly'
    BY <1>5 DEF ExDBound, ExDGrowsSlowly
  <1>7. c_cwnd' \in Nat /\ c_cwnd' >= Scale
    BY <1>0, <1>4, AckSteps
  <1>8. c_min' \in Nat /\ c_thresh' \in Nat
    <2>1. c_min' \in Nat
      BY <1>0, AckSteps DEF ExC!Smaller
    <2>2. Average(rtt, c_thresh) \in Nat
      <3>1. rtt * Scale + 99 * c_thresh \in Nat
        BY <1>0
      <3> QED
        BY <3>1, Quotient DEF Average
    <2> QED
      BY <2>1, <2>2, AckSteps
  <1>9. d_min' \in Nat /\ MinimumIsRecent'
    BY AckMinimum
  <1>10. d_average' \in Nat /\ AverageAboveLowest'
    <2>1. d_average' = d_min' \/ d_average' = Average(rtt, d_average)
      BY AckSteps
    <2> QED
      BY <2>1, AckMinimum, AckAverage DEF AverageAboveLowest
  <1>11. TypeOK'
    <2>1. timeouts' = timeouts /\ timeouts \in 0..MaxTimeouts
      BY AckSteps DEF IInv, TypeOK
    <2>2. acks' \in 0..MaxAcks
      BY <1>0, <1>1, AckSteps, Constants
    <2> QED
      BY <1>1, <1>2, <1>5, <1>7, <1>8, <1>9, <1>10, <2>1, <2>2 DEF TypeOK
  <1>12. CwndsStayOpen' /\ AlikeAtFirst'
    <2>1. acks' # 0
      BY <1>0, <1>1
    <2> QED
      BY <1>2, <1>5, <1>7, <2>1 DEF CwndsStayOpen, AlikeAtFirst
  <1> QED
    BY <1>1, <1>3, <1>6, <1>9, <1>10, <1>11, <1>12, AckAlike, AckNeverLaxer
       DEF IInv

LEMMA NextInvariant ==
  ASSUME IInv, [Next]_vars
  PROVE  IInv'
  <1>1. CASE DatagramWasSentOnTimeout
    BY <1>1, TimeoutInvariant
  <1>2. ASSUME NEW rtt \in Rtts, AckReceived(rtt) PROVE IInv'
    BY <1>2, AckInvariant
  <1>3. CASE UNCHANGED vars
    BY <1>3 DEF vars, bVars, cVars, dVars, IInv, TypeOK, CwndsStayOpen,
                AimdGrowsSlowly, ExDGrowsSlowly, AverageAboveLowest,
                MinimumIsRecent, AlikeAtFirst, SameUntilForgotten,
                MinimumIsOfAll, AlikeOrReset, NeverLaxerThanExD
  <1> QED
    BY <1>1, <1>2, <1>3 DEF Next

(***************************************************************************)
(* The inductive invariant of the three window controllers, for round      *)
(* trips of any lengths, in any number.                                    *)
(***************************************************************************)
THEOREM Invariance == Spec => []IInv
  <1>1. Init => IInv
    BY InitInvariant
  <1>2. IInv /\ [Next]_vars => IInv'
    BY NextInvariant
  <1> QED
    BY <1>1, <1>2, PTL DEF Spec

(***************************************************************************)
(* No decrease closes a window: each controller always allows a datagram.  *)
(***************************************************************************)
THEOREM WindowsAreOpen == Spec => []WindowsStayOpen
  <1>1. IInv => WindowsStayOpen
    <2>1. ASSUME NEW c \in Nat, c >= Scale PROVE c \div Scale >= 1
      <3>1. c = Scale * (c \div Scale) + (c % Scale) /\ c % Scale < Scale
            /\ c % Scale >= 0 /\ c \div Scale \in Int
        BY Constants
      <3> QED
        BY <2>1, <3>1, Constants
    <2> QED
      BY <2>1 DEF IInv, TypeOK, CwndsStayOpen, WindowsStayOpen,
                  ExB!WindowSize, ExC!WindowSize, ExD!WindowSize
  <1> QED
    BY <1>1, Invariance, PTL

(***************************************************************************)
(* However many acks come, the square of the additive-increase window      *)
(* grows by no more than 0.21 an ack.                                      *)
(***************************************************************************)
THEOREM AimdWindowIsBounded == Spec => []AimdGrowsSlowly
  <1>1. IInv => AimdGrowsSlowly
    BY DEF IInv
  <1> QED
    BY <1>1, Invariance, PTL

(***************************************************************************)
(* The square of the delay controller's window grows by no more than 8 an  *)
(* ack.                                                                    *)
(***************************************************************************)
THEOREM ExDWindowIsBounded == Spec => []ExDGrowsSlowly
  <1>1. IInv => ExDGrowsSlowly
    BY DEF IInv
  <1> QED
    BY <1>1, Invariance, PTL

(***************************************************************************)
(* The moving average is never below every round trip there was, although  *)
(* it is reset to their recent minimum.                                    *)
(***************************************************************************)
THEOREM AverageIsAboveLowest == Spec => []AverageAboveLowest
  <1>1. IInv => AverageAboveLowest
    BY DEF IInv
  <1> QED
    BY <1>1, Invariance, PTL

(***************************************************************************)
(* sliding_min_rtt(2000) finds the minimum of the last 1999 samples, one   *)
(* fewer than exercised.hh:22 says.                                        *)
(***************************************************************************)
THEOREM MinimumIsOfRecent == Spec => []MinimumIsRecent
  <1>1. IInv => MinimumIsRecent
    BY DEF IInv
  <1> QED
    BY <1>1, Invariance, PTL

(***************************************************************************)
(* The controllers of exercisec.cc and exercised.cc answer the same until  *)
(* the second one forgets a round trip.                                    *)
(***************************************************************************)
THEOREM AlikeUntilForgotten == Spec => []SameUntilForgotten
  <1>1. IInv => SameUntilForgotten
    BY DEF IInv
  <1> QED
    BY <1>1, Invariance, PTL

(***************************************************************************)
(* Whatever either of them forgets, the threshold of exercisec.cc is never *)
(* above the average of exercised.cc.                                      *)
(***************************************************************************)
THEOREM ExCIsNeverLaxer == Spec => []NeverLaxerThanExD
  <1>1. IInv => NeverLaxerThanExD
    BY DEF IInv
  <1> QED
    BY <1>1, Invariance, PTL

(***************************************************************************)
(* A window shrinks only at a round trip longer than 1.4 times the least   *)
(* one there was, or than 70 ms.                                           *)
(***************************************************************************)
THEOREM ShrinksAtLongRoundTrips == Spec => OnlyLongRoundTripsShrink
  <1>1. ASSUME IInv, [Next]_vars
        PROVE  [ d_cwnd' < d_cwnd
                 => 10 * d_samples'[Len(d_samples')] > 14 * Lowest(d_samples')
               ]_vars
    <2>0. d_cwnd \in Nat /\ d_cwnd >= Scale /\ ExDBound(d_cwnd, acks)
          /\ acks \in Nat
      BY <1>1, Constants
         DEF IInv, TypeOK, CwndsStayOpen, ExDGrowsSlowly, ExDBound
    <2>1. CASE DatagramWasSentOnTimeout
      BY <2>0, <2>1 DEF DatagramWasSentOnTimeout, dVars
    <2>2. ASSUME NEW rtt \in Rtts, AckReceived(rtt), d_cwnd' < d_cwnd
          PROVE  10 * d_samples'[Len(d_samples')] > 14 * Lowest(d_samples')
      <3> DEFINE average == Average(rtt, d_average)
      <3>1. Exceeds(rtt, average)
        <4>1. SUFFICES ASSUME ~Exceeds(rtt, average) PROVE FALSE
          OBVIOUS
        <4>2. PICK c : c = d_cwnd + (2 * Scale * Scale) \div d_cwnd
          OBVIOUS
        <4>3. d_cwnd' = c
          BY <1>1, <2>2, <4>1, <4>2, AckSteps DEF NextCwnd
        <4>4. c \in Nat /\ c >= d_cwnd
          BY <2>0, <4>2, ExDGrowth
        <4> QED
          BY <2>0, <2>2, <4>3, <4>4
      <3>2. /\ Lowest(d_samples') \in Nat /\ average \in Nat
            /\ average >= Lowest(d_samples') * Scale
        BY <1>1, <2>2, AckAverage
      <3>3. PICK low \in Nat : low = Lowest(d_samples')
        BY <3>2
      <3>4. rtt \in Nat /\ d_samples'[Len(d_samples')] = rtt
        BY <1>1, <2>2, AckSamples
      <3>5. 10 * rtt > 14 * low
        <4> HIDE DEF average
        <4> QED
          BY <3>1, <3>2, <3>3, <3>4, LongerThanLowest DEF Exceeds
      <3> QED
        BY <3>3, <3>4, <3>5
    <2>3. CASE UNCHANGED vars
      BY <2>3
    <2> QED
      BY <1>1, <2>1, <2>2, <2>3 DEF Next
  <1> QED
    BY <1>1, Invariance, PTL DEF Spec, OnlyLongRoundTripsShrink
=============================================================================

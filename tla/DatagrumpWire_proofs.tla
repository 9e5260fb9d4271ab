------------------------- MODULE DatagrumpWire_proofs -------------------------
(***************************************************************************)
(* Proofs about what is on its way between the two ends.  On a network     *)
(* that keeps the order, what the sender takes to be in flight is, whatever*)
(* is lost; and the bytes of every message are read back as the message.   *)
(***************************************************************************)
EXTENDS Datagrump_proofs, DatagrumpWire, LeastAndGreatest, FiniteSetTheorems

Ordered == PlacesInOrder /\ EachInOrder /\ NumberedInOrder /\ InWindow

-----------------------------------------------------------------------------
(***************************************************************************)
(* Types: every number in flight is a natural number.                      *)
(***************************************************************************)
LEMMA NumberTypes ==
  ASSUME TypeOK
  PROVE  /\ senderSocket \in Seq(Received) /\ receiverSocket \in Seq(Received)
         /\ Len(senderSocket) \in Nat /\ Len(receiverSocket) \in Nat
         /\ \A m \in data : m.sequence_number \in Nat
         /\ \A m \in acks : /\ m.sequence_number \in Nat
                            /\ m.ack_sequence_number \in Nat
         /\ \A i \in 1..Len(senderSocket) :
              senderSocket[i].message.ack_sequence_number \in Nat
         /\ \A i \in 1..Len(receiverSocket) :
              receiverSocket[i].message.sequence_number \in Nat
         /\ sequence_number \in Nat /\ sequence_number <= MaxSeq
         /\ next_ack_expected \in Nat /\ receiverNumber \in Nat
         /\ lost \in Nat /\ duplicated \in Nat /\ timeouts \in Nat
  <1>1. senderSocket \in Seq(Received) /\ receiverSocket \in Seq(Received)
    BY DEF TypeOK
  <1>2. \A m \in Message : /\ m.sequence_number \in Nat
                           /\ m.ack_sequence_number \in Nat
    BY DEF Message, Word
  <1>3. \A r \in Received : r.message \in Message
    BY DEF Received
  <1>4. \A i \in 1..Len(senderSocket) : senderSocket[i] \in Received
    BY <1>1, QueueElement
  <1>5. \A i \in 1..Len(receiverSocket) : receiverSocket[i] \in Received
    BY <1>1, QueueElement
  <1>6. /\ sequence_number \in Nat /\ sequence_number <= MaxSeq
        /\ next_ack_expected \in Nat /\ receiverNumber \in Nat
        /\ lost \in Nat /\ duplicated \in Nat /\ timeouts \in Nat
    BY DEF TypeOK, Word
  <1>7. data \subseteq Message /\ acks \subseteq Message
    BY DEF TypeOK
  <1> QED
    BY <1>1, <1>2, <1>3, <1>4, <1>5, <1>6, <1>7

LEMMA PlaceTypes ==
  ASSUME TypeOK
  PROVE  /\ InSenderSocket \subseteq Nat /\ InAcks \subseteq Nat
         /\ InReceiverSocket \subseteq Nat /\ InData \subseteq Nat
  BY NumberTypes DEF InSenderSocket, InAcks, InReceiverSocket, InData

(* A receiver on a network that keeps the order never stops.               *)
LEMMA NeverStops ==
  ASSUME IInv, ~Reordering
  PROVE  receiverUp /\ ~ReceiverStops /\ ~ReceiverRestarts
  <1>1. MaxStops = 0 /\ stops = 0
    BY DatagrumpAssumption DEF IInv, TypeOK
  <1>2. receiverUp
    BY <1>1 DEF IInv, StopsAreCounted
  <1> QED
    BY <1>1, <1>2 DEF ReceiverStops, ReceiverRestarts

-----------------------------------------------------------------------------
(***************************************************************************)
(* The places and their order as sets of numbers: what becomes of them     *)
(* when the least number of a place moves to the place before it.          *)
(***************************************************************************)
LEMMA MoveToReceiverSocket ==
  ASSUME TypeOK, PlacesInOrder, InWindow, NEW k \in InData,
         \A n \in InData : k <= n,
         InData' = InData \ {k},
         InReceiverSocket' = InReceiverSocket \cup {k},
         UNCHANGED <<InSenderSocket, InAcks, next_ack_expected,
                     sequence_number, lost>>
  PROVE  PlacesInOrder' /\ InWindow'
  <1>1. \A n \in InData' : k < n
    BY PlaceTypes
  <1>2. PlacesInOrder'
    BY <1>1 DEF PlacesInOrder, Below
  <1>3. NumbersInFlight' = NumbersInFlight
    BY DEF NumbersInFlight
  <1> QED
    BY <1>2, <1>3 DEF InWindow

LEMMA MoveToAcks ==
  ASSUME TypeOK, PlacesInOrder, InWindow, NEW k \in InReceiverSocket,
         \A n \in InReceiverSocket : k <= n,
         InReceiverSocket' = InReceiverSocket \ {k},
         InAcks' = InAcks \cup {k},
         UNCHANGED <<InSenderSocket, InData, next_ack_expected,
                     sequence_number, lost>>
  PROVE  PlacesInOrder' /\ InWindow'
  <1>1. \A n \in InReceiverSocket' : k < n
    BY PlaceTypes
  <1>2. PlacesInOrder'
    BY <1>1 DEF PlacesInOrder, Below
  <1>3. NumbersInFlight' = NumbersInFlight
    BY DEF NumbersInFlight
  <1> QED
    BY <1>2, <1>3 DEF InWindow

LEMMA MoveToSenderSocket ==
  ASSUME TypeOK, PlacesInOrder, InWindow, NEW k \in InAcks,
         \A n \in InAcks : k <= n,
         InAcks' = InAcks \ {k},
         InSenderSocket' = InSenderSocket \cup {k},
         UNCHANGED <<InReceiverSocket, InData, next_ack_expected,
                     sequence_number, lost>>
  PROVE  PlacesInOrder' /\ InWindow'
  <1>1. \A n \in InAcks' : k < n
    BY PlaceTypes
  <1>2. PlacesInOrder'
    BY <1>1 DEF PlacesInOrder, Below
  <1>3. NumbersInFlight' = NumbersInFlight
    BY DEF NumbersInFlight
  <1> QED
    BY <1>2, <1>3 DEF InWindow

(* An ack is taken by the sender: the window begins after it.              *)
LEMMA LeaveSenderSocket ==
  ASSUME TypeOK, PlacesInOrder, InWindow, NEW k \in InSenderSocket,
         \A n \in InSenderSocket : k <= n,
         InSenderSocket' = InSenderSocket \ {k},
         next_ack_expected' = k + 1,
         UNCHANGED <<InAcks, InReceiverSocket, InData, sequence_number, lost>>
  PROVE  PlacesInOrder' /\ InWindow'
  <1>0. /\ InSenderSocket \subseteq Nat /\ InAcks \subseteq Nat
        /\ InReceiverSocket \subseteq Nat /\ InData \subseteq Nat
        /\ sequence_number \in Nat /\ next_ack_expected \in Nat
    BY PlaceTypes, NumberTypes
  <1>1. PlacesInOrder'
    BY DEF PlacesInOrder, Below
  <1>2. NumbersInFlight' = NumbersInFlight \ {k}
    BY <1>0 DEF NumbersInFlight, PlacesInOrder, Below
  <1>3. \A n \in NumbersInFlight : k <= n
    BY <1>0 DEF NumbersInFlight, PlacesInOrder, Below
  <1>4. /\ NumbersInFlight \subseteq next_ack_expected..(sequence_number - 1)
        /\ k \in NumbersInFlight
    BY DEF InWindow, NumbersInFlight
  <1> DEFINE Flight == NumbersInFlight
  <1> HIDE DEF Flight
  <1>5. InWindow'
    BY <1>0, <1>2, <1>3, <1>4 DEF InWindow
  <1> QED
    BY <1>1, <1>5

(* A queue of numbers that increase, and what is left without the first.   *)
Elements(f, n) == {f[i] : i \in 1..n}

Increasing(f, n) == \A i, j \in 1..n : i < j => f[i] < f[j]

Shifted(g, f, n) == \A i \in 1..(n - 1) : g[i] = f[i + 1]

LEMMA TakeFirst ==
  ASSUME NEW n \in Nat \ {0}, NEW f \in [1..n -> Nat], NEW g,
         Increasing(f, n), Shifted(g, f, n)
  PROVE  /\ f[1] \in Elements(f, n)
         /\ \A x \in Elements(f, n) : f[1] <= x
         /\ Elements(g, n - 1) = Elements(f, n) \ {f[1]}
  <1>1. \A i \in 1..n : f[i] \in Nat /\ (i # 1 => f[1] < f[i])
    BY DEF Increasing
  <1>2. f[1] \in Elements(f, n) /\ \A x \in Elements(f, n) : f[1] <= x
    BY <1>1 DEF Elements
  <1>3. Elements(g, n - 1) \subseteq Elements(f, n) \ {f[1]}
    <2>1. \A i \in 1..(n - 1) :
              i + 1 \in 1..n /\ i + 1 # 1 /\ g[i] = f[i + 1]
      BY DEF Shifted
    <2> QED
      BY <1>1, <2>1 DEF Elements
  <1>4. ASSUME NEW x \in Elements(f, n), x # f[1]
        PROVE  x \in Elements(g, n - 1)
    <2>1. PICK i \in 1..n : x = f[i] /\ i # 1
      BY <1>4 DEF Elements
    <2>2. i - 1 \in 1..(n - 1) /\ g[i - 1] = x
      BY <2>1 DEF Shifted
    <2> QED
      BY <2>2 DEF Elements
  <1> QED
    BY <1>2, <1>3, <1>4

-----------------------------------------------------------------------------
(***************************************************************************)
(* One lemma for each action that moves a message.                         *)
(***************************************************************************)
LEMMA ArriveOrder ==
  ASSUME IInv, Ordered, ~Reordering, NEW m \in data, Arrive(m),
         duplicated' = 0
  PROVE  Ordered'
  <1> DEFINE k == m.sequence_number
             r == [message |-> m, at |-> now]
  <1>0. TypeOK
    BY DEF IInv
  <1>1. receiverUp
    BY NeverStops
  <1>2. /\ data' = data \ {m}
        /\ receiverSocket' = Append(receiverSocket, r)
        /\ UNCHANGED <<senderSocket, acks, next_ack_expected, sequence_number,
                       receiverNumber, lost>>
        /\ \A n \in data : k <= n.sequence_number
    BY <1>0, <1>1, NumberTypes
       DEF Arrive, Deliverable, senderVars, receiverVars
  <1>3. r \in Received /\ r.message = m
    BY <1>0 DEF TypeOK, Received
  <1>4. /\ Len(receiverSocket') = Len(receiverSocket) + 1
        /\ \A i \in 1..Len(receiverSocket) :
             receiverSocket'[i] = receiverSocket[i]
        /\ receiverSocket'[Len(receiverSocket) + 1].message = m
        /\ Len(receiverSocket) \in Nat
    BY <1>0, <1>2, <1>3, NumberTypes, AppendElements
  <1> HIDE DEF r
  <1>5. /\ InData' = InData \ {k}
        /\ k \in InData /\ \A n \in InData : k <= n
    BY <1>2 DEF InData, Ordered, EachInOrder
  <1>6. InReceiverSocket' = InReceiverSocket \cup {k}
    BY <1>4 DEF InReceiverSocket
  <1>7. UNCHANGED <<InSenderSocket, InAcks>>
    BY <1>2 DEF InSenderSocket, InAcks
  <1>8. PlacesInOrder' /\ InWindow'
    BY <1>0, <1>2, <1>5, <1>6, <1>7, MoveToReceiverSocket DEF Ordered
  <1>9. EachInOrder'
    <2>1. \A i \in 1..Len(receiverSocket) :
              receiverSocket[i].message.sequence_number < k
      BY <1>5 DEF Ordered, PlacesInOrder, Below, InReceiverSocket
    <2>2. \A i, j \in 1..Len(receiverSocket') :
              i < j => receiverSocket'[i].message.sequence_number
                           < receiverSocket'[j].message.sequence_number
      BY <1>4, <2>1 DEF Ordered, EachInOrder
    <2> QED
      BY <1>2, <2>2 DEF Ordered, EachInOrder
  <1>10. NumberedInOrder'
    <2>1. /\ receiverNumber \in Nat /\ sequence_number \in Nat
          /\ \A n \in data : n.sequence_number \in Nat
      BY <1>0, NumberTypes
    <2>2. \A n \in data : n # m => k + 1 <= n.sequence_number
      BY <1>2, <2>1 DEF Ordered, EachInOrder
    <2>3. \A i \in 1..Len(receiverSocket') :
            receiverNumber' + i
                <= receiverSocket'[i].message.sequence_number + 1
      BY <1>2, <1>4, <2>1 DEF Ordered, NumberedInOrder
    <2>4. \A n \in data' :
            receiverNumber' + Len(receiverSocket') <= n.sequence_number
      BY <1>2, <1>4, <2>1, <2>2 DEF Ordered, NumberedInOrder
    <2>5. k < sequence_number
      BY <1>0 DEF IInv, MessagesAreGenuine, Genuine
    <2>6. receiverNumber' + Len(receiverSocket') <= sequence_number'
      BY <1>2, <1>4, <2>1, <2>5 DEF Ordered, NumberedInOrder
    <2> QED
      BY <1>2, <2>3, <2>4, <2>6 DEF Ordered, NumberedInOrder
  <1> QED
    BY <1>8, <1>9, <1>10 DEF Ordered

LEMMA ArriveAckOrder ==
  ASSUME IInv, Ordered, ~Reordering, NEW m \in acks, ArriveAck(m),
         duplicated' = 0
  PROVE  Ordered'
  <1> DEFINE k == m.ack_sequence_number
             r == [message |-> m, at |-> now]
  <1>0. TypeOK
    BY DEF IInv
  <1>1. \A n \in acks : /\ n.sequence_number \in Nat
                        /\ n.ack_sequence_number \in Nat
    BY <1>0, NumberTypes
  <1>2. /\ acks' = acks \ {m}
        /\ senderSocket' = Append(senderSocket, r)
        /\ UNCHANGED <<receiverSocket, data, next_ack_expected,
                       sequence_number, receiverNumber, lost>>
        /\ \A n \in acks : m.sequence_number <= n.sequence_number
    BY <1>0, NumberTypes DEF ArriveAck, Deliverable, senderVars, receiverVars
  <1>3. r \in Received /\ r.message = m
    BY <1>0 DEF TypeOK, Received
  <1>4. /\ Len(senderSocket') = Len(senderSocket) + 1
        /\ \A i \in 1..Len(senderSocket) :
             senderSocket'[i] = senderSocket[i]
        /\ senderSocket'[Len(senderSocket) + 1].message = m
        /\ Len(senderSocket) \in Nat
    BY <1>0, <1>2, <1>3, NumberTypes, AppendElements
  <1> HIDE DEF r
  <1>5. \A n \in acks : n # m => k < n.ack_sequence_number
    BY <1>1, <1>2 DEF Ordered, EachInOrder
  <1>6. /\ InAcks' = InAcks \ {k}
        /\ k \in InAcks /\ \A n \in InAcks : k <= n
    BY <1>1, <1>2, <1>5 DEF InAcks
  <1>7. InSenderSocket' = InSenderSocket \cup {k}
    BY <1>4 DEF InSenderSocket
  <1>8. UNCHANGED <<InReceiverSocket, InData>>
    BY <1>2 DEF InReceiverSocket, InData
  <1>9. PlacesInOrder' /\ InWindow'
    BY <1>0, <1>2, <1>6, <1>7, <1>8, MoveToSenderSocket DEF Ordered
  <1>10. EachInOrder'
    <2>1. \A i \in 1..Len(senderSocket) :
              senderSocket[i].message.ack_sequence_number < k
      BY <1>6 DEF Ordered, PlacesInOrder, Below, InSenderSocket
    <2>2. \A i, j \in 1..Len(senderSocket') :
              i < j => senderSocket'[i].message.ack_sequence_number
                           < senderSocket'[j].message.ack_sequence_number
      BY <1>4, <2>1 DEF Ordered, EachInOrder
    <2> QED
      BY <1>2, <2>2 DEF Ordered, EachInOrder
  <1>11. NumberedInOrder'
    BY <1>2 DEF Ordered, NumberedInOrder
  <1> QED
    BY <1>9, <1>10, <1>11 DEF Ordered

LEMMA AcknowledgeOrder ==
  ASSUME IInv, Ordered, Acknowledge
  PROVE  Ordered'
  <1> DEFINE m == Head(receiverSocket).message
             k == m.sequence_number
  <1>0. /\ TypeOK /\ receiverSocket \in Seq(Received)
        /\ receiverNumber \in Nat /\ sequence_number \in Nat
        /\ sequence_number <= MaxSeq /\ MaxSeq < WordSize - 1
        /\ MaxSeq \in Nat /\ WordSize \in Nat
        /\ \A x \in data : x.sequence_number \in Nat
        /\ \A i \in 1..Len(receiverSocket) :
              receiverSocket[i].message.sequence_number \in Nat
    BY NumberTypes, DatagrumpAssumption, WordSizeAssumption DEF IInv, Unset
  <1>1. /\ receiverSocket # <<>>
        /\ Len(receiverSocket) \in Nat \ {0}
        /\ Len(Tail(receiverSocket)) = Len(receiverSocket) - 1
        /\ \A i \in 1..Len(Tail(receiverSocket)) :
             Tail(receiverSocket)[i] = receiverSocket[i + 1]
        /\ m = receiverSocket[1].message
        /\ m \in Message
    <2>1. receiverSocket # <<>>
      BY DEF Acknowledge
    <2>2. Head(receiverSocket) \in Received
      BY <1>0, <2>1, TailElements
    <2>3. m \in Message
      BY <2>2 DEF Received
    <2> QED
      BY <1>0, <2>1, <2>3, TailElements
  <1>2. PICK r, t : acks' = acks \cup {Acknowledgment(m, receiverNumber, r, t)}
    BY DEF Acknowledge
  <1>3. /\ receiverSocket' = Tail(receiverSocket)
        /\ receiverNumber' = PlusWord(receiverNumber, 1)
        /\ UNCHANGED <<senderSocket, data, next_ack_expected, sequence_number,
                       lost>>
    BY DEF Acknowledge, senderVars
  <1>4. PICK a : /\ acks' = acks \cup {a}
                 /\ a.sequence_number = receiverNumber
                 /\ a.ack_sequence_number = k
    <2>1. LET x == Acknowledgment(m, receiverNumber, r, t)
          IN  x.sequence_number = receiverNumber /\ x.ack_sequence_number = k
      BY <1>1 DEF Acknowledgment, TransformIntoAck, SetSendTimestamp, Message
    <2> QED
      BY <1>2, <2>1
  <1> HIDE DEF m
  <1>5. /\ k \in InReceiverSocket /\ \A x \in InReceiverSocket : k <= x
        /\ InReceiverSocket' = InReceiverSocket \ {k}
    <2> DEFINE n == Len(receiverSocket)
               f == [i \in 1..n |-> receiverSocket[i].message.sequence_number]
               g == [i \in 1..(n - 1) |->
                        receiverSocket'[i].message.sequence_number]
    <2>1. n \in Nat \ {0} /\ f \in [1..n -> Nat]
      BY <1>0, <1>1
    <2>2. Shifted(g, f, n)
      BY <1>1, <1>3 DEF Shifted
    <2>3. Increasing(f, n)
      BY <1>1 DEF Ordered, EachInOrder, Increasing
    <2>4. /\ InReceiverSocket = Elements(f, n)
          /\ InReceiverSocket' = Elements(g, n - 1)
      BY <1>1, <1>3 DEF InReceiverSocket, Elements
    <2>5. f[1] = k
      BY <1>1
    <2> HIDE DEF n, f, g
    <2> QED
      BY <2>1, <2>2, <2>3, <2>4, <2>5, TakeFirst
  <1>6. InAcks' = InAcks \cup {k}
    BY <1>4 DEF InAcks
  <1>7. UNCHANGED <<InSenderSocket, InData>>
    BY <1>3 DEF InSenderSocket, InData
  <1>8. PlacesInOrder' /\ InWindow'
    BY <1>0, <1>3, <1>5, <1>6, <1>7, MoveToAcks DEF Ordered
  <1>9. \A x \in acks : /\ x.sequence_number < receiverNumber
                        /\ x.ack_sequence_number < k
    BY <1>5 DEF Ordered, NumberedInOrder, PlacesInOrder, Below, InAcks
  <1>10. EachInOrder'
    <2>1. \A x, y \in acks' :
             x # y => \/ /\ x.sequence_number < y.sequence_number
                         /\ x.ack_sequence_number < y.ack_sequence_number
                      \/ /\ y.sequence_number < x.sequence_number
                         /\ y.ack_sequence_number < x.ack_sequence_number
      BY <1>4, <1>9 DEF Ordered, EachInOrder
    <2>2. \A i, j \in 1..Len(receiverSocket') :
              i < j => receiverSocket'[i].message.sequence_number
                           < receiverSocket'[j].message.sequence_number
      BY <1>1, <1>3 DEF Ordered, EachInOrder
    <2> QED
      BY <1>3, <2>1, <2>2 DEF Ordered, EachInOrder
  <1>11. NumberedInOrder'
    <2>1. receiverNumber' = receiverNumber + 1
      <3>1. receiverNumber + Len(receiverSocket) <= sequence_number
        BY DEF Ordered, NumberedInOrder
      <3>2. receiverNumber + 1 < WordSize
        BY <1>0, <1>1, <3>1
      <3> QED
        BY <1>3, <3>2 DEF PlusWord
    <2>2. \A x \in acks' : x.sequence_number < receiverNumber'
      <3>1. \A x \in acks : x.sequence_number \in Nat
        BY <1>0, NumberTypes
      <3> QED
        BY <1>0, <1>4, <1>9, <2>1, <3>1
    <2>3. \A i \in 1..Len(receiverSocket') :
            receiverNumber' + i
                <= receiverSocket'[i].message.sequence_number + 1
      <3> SUFFICES ASSUME NEW i \in 1..(Len(receiverSocket) - 1)
                   PROVE  receiverNumber + 1 + i
                             <= receiverSocket[i + 1].message.sequence_number + 1
        BY <1>1, <1>3, <2>1
      <3>1. i + 1 \in 1..Len(receiverSocket)
        BY <1>1
      <3>2. receiverNumber + (i + 1)
                <= receiverSocket[i + 1].message.sequence_number + 1
        BY <3>1 DEF Ordered, NumberedInOrder
      <3> QED
        BY <1>0, <3>2
    <2>4. \A x \in data :
            receiverNumber' + Len(receiverSocket') <= x.sequence_number
      BY <1>0, <1>1, <1>3, <2>1 DEF Ordered, NumberedInOrder
    <2>5. receiverNumber' + Len(receiverSocket') <= sequence_number'
      BY <1>0, <1>1, <1>3, <2>1 DEF Ordered, NumberedInOrder
    <2> QED
      BY <1>3, <2>2, <2>3, <2>4, <2>5 DEF NumberedInOrder
  <1> QED
    BY <1>8, <1>10, <1>11 DEF Ordered

(* The sender takes the ack whose number is the least in flight.           *)
LEMMA TakenIsLeast ==
  ASSUME IInv, Ordered, senderSocket # <<>>
  PROVE  LET k == senderSocket[1].message.ack_sequence_number
         IN  /\ k \in InSenderSocket
             /\ \A x \in InSenderSocket : k <= x
             /\ \A x \in NumbersInFlight : k <= x
             /\ k \in next_ack_expected..(sequence_number - 1)
             /\ lost = 0 => k = next_ack_expected
             /\ senderSocket' = Tail(senderSocket)
                  => InSenderSocket' = InSenderSocket \ {k}
  <1> DEFINE n == Len(senderSocket)
             k == senderSocket[1].message.ack_sequence_number
             f == [i \in 1..n |-> senderSocket[i].message.ack_sequence_number]
             q == Tail(senderSocket)
             g == [i \in 1..(n - 1) |-> q[i].message.ack_sequence_number]
  <1>0. /\ TypeOK /\ senderSocket \in Seq(Received) /\ n \in Nat \ {0}
        /\ f \in [1..n -> Nat]
        /\ next_ack_expected \in Nat /\ sequence_number \in Nat
    BY NumberTypes DEF IInv
  <1>1. Len(q) = n - 1 /\ \A i \in 1..(n - 1) : q[i] = senderSocket[i + 1]
    BY <1>0, TailElements
  <1>2. Shifted(g, f, n)
    BY <1>0, <1>1 DEF Shifted
  <1>3. Increasing(f, n)
    BY <1>0 DEF Ordered, EachInOrder, Increasing
  <1>4. InSenderSocket = Elements(f, n)
    BY <1>0 DEF InSenderSocket, Elements
  <1>5. f[1] = k
    BY <1>0
  <1>6. senderSocket' = q => InSenderSocket' = Elements(g, n - 1)
    BY <1>0, <1>1 DEF InSenderSocket, Elements
  <1>7. /\ k \in InSenderSocket /\ \A x \in InSenderSocket : k <= x
        /\ Elements(g, n - 1) = InSenderSocket \ {k}
    <2> HIDE DEF n, f, g, k
    <2> QED
      BY <1>0, <1>2, <1>3, <1>4, <1>5, TakeFirst
  <1> HIDE DEF n, f, g, k, q
  <1>8. \A x \in NumbersInFlight : k <= x
    BY <1>0, <1>7, PlaceTypes
       DEF NumbersInFlight, Ordered, PlacesInOrder, Below
  <1>9. k \in next_ack_expected..(sequence_number - 1)
    BY <1>7 DEF Ordered, InWindow, NumbersInFlight
  <1>10. ASSUME lost = 0 PROVE k = next_ack_expected
    <2>1. next_ack_expected \in next_ack_expected..(sequence_number - 1)
      BY <1>0, <1>9
    <2>2. next_ack_expected \in NumbersInFlight
      BY <1>10, <2>1 DEF Ordered, InWindow
    <2> QED
      BY <1>0, <1>8, <1>9, <2>2
  <1> QED
    BY <1>6, <1>7, <1>8, <1>9, <1>10 DEF k, q

LEMMA GotAckOrder ==
  ASSUME IInv, Ordered, GotAck, pc' # "aborted"
  PROVE  /\ Ordered'
         /\ lost = 0 => sample'.ack_sequence_number = next_ack_expected
  <1> DEFINE k == senderSocket[1].message.ack_sequence_number
  <1>0. /\ TypeOK /\ senderSocket # <<>> /\ senderSocket \in Seq(Received)
        /\ next_ack_expected \in Nat /\ sequence_number \in Nat
        /\ sequence_number <= MaxSeq /\ MaxSeq < WordSize - 1
        /\ MaxSeq \in Nat /\ WordSize \in Nat
    BY NumberTypes, DatagrumpAssumption, WordSizeAssumption
       DEF IInv, PollStillHolds, GotAck, Unset
  <1>1. /\ Head(senderSocket) = senderSocket[1]
        /\ Len(senderSocket) \in Nat /\ Len(senderSocket) >= 1
        /\ Len(Tail(senderSocket)) = Len(senderSocket) - 1
        /\ \A i \in 1..Len(Tail(senderSocket)) :
             Tail(senderSocket)[i] = senderSocket[i + 1]
    BY <1>0, TailElements
  <1>2. /\ next_ack_expected' = NextAckExpected(senderSocket[1].message)
        /\ sample'.ack_sequence_number = k
        /\ senderSocket' = Tail(senderSocket)
        /\ UNCHANGED <<receiverSocket, acks, data, sequence_number,
                       receiverNumber, lost>>
    BY <1>1 DEF GotAck, Throw, receiverVars
  <1>3. /\ k \in InSenderSocket /\ \A x \in InSenderSocket : k <= x
        /\ k \in next_ack_expected..(sequence_number - 1)
        /\ lost = 0 => k = next_ack_expected
        /\ InSenderSocket' = InSenderSocket \ {k}
    BY <1>0, <1>2, TakenIsLeast
  <1>4. next_ack_expected' = k + 1
    <2>1. k + 1 < WordSize /\ k \in Nat /\ ~(next_ack_expected >= k + 1)
      <3> HIDE DEF k
      <3> QED
        BY <1>0, <1>3
    <2> QED
      BY <1>2, <2>1 DEF NextAckExpected, PlusWord
  <1>5. UNCHANGED <<InAcks, InReceiverSocket, InData>>
    BY <1>2 DEF InAcks, InReceiverSocket, InData
  <1>6. PlacesInOrder' /\ InWindow'
    <2> HIDE DEF k
    <2> QED
      BY <1>0, <1>2, <1>3, <1>4, <1>5, LeaveSenderSocket DEF Ordered
  <1>7. EachInOrder'
    <2>1. ASSUME NEW i \in 1..Len(senderSocket'),
                 NEW j \in 1..Len(senderSocket'), i < j
          PROVE  senderSocket'[i].message.ack_sequence_number
                     < senderSocket'[j].message.ack_sequence_number
      <3>1. /\ i + 1 \in 1..Len(senderSocket)
            /\ j + 1 \in 1..Len(senderSocket) /\ i + 1 < j + 1
        BY <1>1, <1>2, <2>1
      <3>2. senderSocket[i + 1].message.ack_sequence_number
                < senderSocket[j + 1].message.ack_sequence_number
        BY <3>1 DEF Ordered, EachInOrder
      <3> QED
        BY <1>1, <1>2, <3>2
    <2> QED
      BY <1>2, <2>1 DEF Ordered, EachInOrder
  <1>8. NumberedInOrder'
    BY <1>2 DEF Ordered, NumberedInOrder
  <1> QED
    BY <1>2, <1>3, <1>6, <1>7, <1>8 DEF Ordered

(* The datagram that is sent has the largest number of all.                *)
LEMMA SendOrder ==
  ASSUME IInv, Ordered, NEW on_timeout \in BOOLEAN, SendDatagram(on_timeout)
  PROVE  Ordered'
  <1> DEFINE k == sequence_number
  <1>0. /\ TypeOK /\ k \in Nat /\ next_ack_expected \in Nat
        /\ next_ack_expected <= k /\ receiverNumber \in Nat
        /\ Len(receiverSocket) \in Nat
        /\ InSenderSocket \subseteq Nat /\ InAcks \subseteq Nat
        /\ InReceiverSocket \subseteq Nat /\ InData \subseteq Nat
    BY NumberTypes, PlaceTypes DEF IInv, NoWindowUnderflow
  <1>1. PICK t : data' = data \cup
                   {SetSendTimestamp(NewMessage(k, PayloadLength), t)}
    BY DEF SendDatagram
  <1>2. PICK m : m.sequence_number = k /\ data' = data \cup {m}
    <2>1. SetSendTimestamp(NewMessage(k, PayloadLength), t).sequence_number = k
      BY DEF SetSendTimestamp, NewMessage
    <2> QED
      BY <1>1, <2>1
  <1>3. /\ sequence_number' = k + 1
        /\ UNCHANGED <<senderSocket, acks, receiverSocket, receiverNumber,
                       next_ack_expected, lost>>
    BY DEF SendDatagram, receiverVars
  <1>4. /\ InData' = InData \cup {k}
        /\ UNCHANGED <<InSenderSocket, InAcks, InReceiverSocket>>
    BY <1>2, <1>3 DEF InData, InSenderSocket, InAcks, InReceiverSocket
  <1>5. \A x \in NumbersInFlight : x < k
    BY <1>0 DEF Ordered, InWindow
  <1>6. PlacesInOrder'
    BY <1>4, <1>5 DEF Ordered, PlacesInOrder, Below, NumbersInFlight
  <1>7. EachInOrder'
    <2>1. \A n \in data : n.sequence_number < k
      BY <1>5 DEF NumbersInFlight, InData
    <2>2. \A n \in data : n.sequence_number # k
      BY <1>0, <2>1, NumberTypes
    <2>3. \A x, y \in data' : x.sequence_number = y.sequence_number => x = y
      BY <1>2, <2>2 DEF Ordered, EachInOrder
    <2> QED
      BY <1>3, <2>3 DEF Ordered, EachInOrder
  <1>8. NumberedInOrder'
    <2>1. receiverNumber + Len(receiverSocket) <= k
      BY DEF Ordered, NumberedInOrder
    <2> QED
      BY <1>0, <1>2, <1>3, <2>1 DEF Ordered, NumberedInOrder
  <1>9. InWindow'
    <2>1. NumbersInFlight' = NumbersInFlight \cup {k}
      BY <1>4 DEF NumbersInFlight
    <2>2. next_ack_expected'..(sequence_number' - 1)
             = (next_ack_expected..(k - 1)) \cup {k}
      BY <1>0, <1>3
    <2> QED
      BY <1>3, <2>1, <2>2 DEF Ordered, InWindow
  <1> QED
    BY <1>6, <1>7, <1>8, <1>9 DEF Ordered

LEMMA LoseOrder ==
  ASSUME IInv, Ordered, Lose
  PROVE  Ordered'
  <1>1. /\ data' \subseteq data /\ acks' \subseteq acks /\ lost' # 0
        /\ UNCHANGED <<senderSocket, receiverSocket, receiverNumber,
                       sequence_number, next_ack_expected>>
    BY NumberTypes DEF IInv, Lose, senderVars, receiverVars
  <1>2. /\ InData' \subseteq InData /\ InAcks' \subseteq InAcks
        /\ UNCHANGED <<InSenderSocket, InReceiverSocket>>
    BY <1>1 DEF InData, InAcks, InSenderSocket, InReceiverSocket
  <1>3. PlacesInOrder'
    BY <1>2 DEF Ordered, PlacesInOrder, Below
  <1>4. EachInOrder' /\ NumberedInOrder'
    BY <1>1 DEF Ordered, EachInOrder, NumberedInOrder
  <1>5. InWindow'
    BY <1>1, <1>2 DEF Ordered, InWindow, NumbersInFlight
  <1> QED
    BY <1>3, <1>4, <1>5 DEF Ordered

(* Steps that move no message.                                             *)
LEMMA QuietOrder ==
  ASSUME Ordered,
         UNCHANGED <<senderSocket, receiverSocket, acks, data, receiverNumber,
                     sequence_number, next_ack_expected, lost>>
  PROVE  Ordered'
  BY DEF Ordered, PlacesInOrder, EachInOrder, NumberedInOrder, InWindow,
         NumbersInFlight, InSenderSocket, InAcks, InReceiverSocket, InData

-----------------------------------------------------------------------------
(***************************************************************************)
(* The window bounds what is outstanding, on any network: the window is    *)
(* compared before each send, and each timeout sends one datagram more.    *)
(***************************************************************************)
NoWrap ==
    /\ Outstanding = sequence_number - next_ack_expected
    /\ sequence_number \in Nat /\ next_ack_expected \in Nat
    /\ timeouts \in Nat /\ Windows \subseteq Nat /\ window \in Windows

LEMMA OutstandingValue == IInv => NoWrap
  BY NumberTypes, DatagrumpAssumption
     DEF IInv, TypeOK, NoWindowUnderflow, Outstanding, MinusWord, NoWrap

LEMMA OutstandingValueNext == IInv' => NoWrap'
  BY OutstandingValue, PTL

LEMMA SendBounds ==
  ASSUME IInv, WindowBounds, NEW on_timeout \in BOOLEAN,
         SendDatagram(on_timeout), on_timeout \/ WindowIsOpen, IInv'
  PROVE  WindowBounds'
  <1>1. /\ sequence_number' = sequence_number + 1
        /\ next_ack_expected' = next_ack_expected
        /\ timeouts' = IF on_timeout THEN timeouts + 1 ELSE timeouts
    BY DEF SendDatagram
  <1>2. /\ Outstanding' = sequence_number' - next_ack_expected'
        /\ Outstanding = sequence_number - next_ack_expected
        /\ sequence_number \in Nat /\ next_ack_expected \in Nat
        /\ timeouts \in Nat /\ Windows \subseteq Nat /\ window \in Windows
    BY OutstandingValue, OutstandingValueNext DEF NoWrap
  <1>3. CASE on_timeout
    BY <1>1, <1>2, <1>3 DEF WindowBounds
  <1>4. CASE ~on_timeout
    <2>1. Outstanding' <= window + timeouts'
      BY <1>1, <1>2, <1>4 DEF WindowIsOpen
    <2> QED
      BY <1>2, <2>1 DEF WindowBounds
  <1> QED
    BY <1>3, <1>4

LEMMA OtherBounds ==
  ASSUME IInv, WindowBounds, IInv', next_ack_expected <= next_ack_expected',
         sequence_number' = sequence_number, timeouts' = timeouts
  PROVE  WindowBounds'
  <1>1. /\ Outstanding' = sequence_number' - next_ack_expected'
        /\ Outstanding = sequence_number - next_ack_expected
        /\ next_ack_expected' \in Nat
        /\ sequence_number \in Nat /\ next_ack_expected \in Nat
        /\ timeouts \in Nat /\ Windows \subseteq Nat
    BY OutstandingValue, OutstandingValueNext DEF NoWrap
  <1>2. PICK w \in Windows : Outstanding <= w + timeouts
    BY DEF WindowBounds
  <1>3. Outstanding' <= w + timeouts'
    <2>1. w \in Nat
      BY <1>1
    <2>2. PICK n \in Nat : n = next_ack_expected'
      BY <1>1
    <2>3. next_ack_expected <= n
      BY <2>2
    <2>4. sequence_number \in Nat /\ next_ack_expected \in Nat /\ timeouts \in Nat
      BY <1>1
    <2>5. sequence_number - next_ack_expected <= w + timeouts
      BY <1>1, <1>2
    <2>6. sequence_number - n <= w + timeouts
      BY ONLY <2>1, <2>3, <2>4, <2>5
    <2> QED
      BY <1>1, <2>2, <2>6
  <1> QED
    BY <1>3 DEF WindowBounds

-----------------------------------------------------------------------------
(***************************************************************************)
(* The invariant.                                                          *)
(***************************************************************************)
LEMMA InitOrder == Init => OrderInv
  <1> SUFFICES ASSUME Init PROVE OrderInv
    OBVIOUS
  <1>1. /\ senderSocket = <<>> /\ receiverSocket = <<>> /\ data = {}
        /\ acks = {} /\ sequence_number = 0 /\ next_ack_expected = 0
        /\ receiverNumber = 0 /\ window \in Windows /\ timeouts = 0
    BY DEF Init
  <1>2. /\ InSenderSocket = {} /\ InAcks = {} /\ InReceiverSocket = {}
        /\ InData = {}
    BY <1>1 DEF InSenderSocket, InAcks, InReceiverSocket, InData
  <1>3. PlacesInOrder /\ EachInOrder /\ NumberedInOrder
    BY <1>1, <1>2 DEF PlacesInOrder, Below, EachInOrder, NumberedInOrder
  <1>4. InWindow
    BY <1>1, <1>2 DEF InWindow, NumbersInFlight
  <1>5. WindowBounds
    BY <1>1, DatagrumpAssumption DEF WindowBounds, Outstanding, MinusWord
  <1> QED
    BY <1>3, <1>4, <1>5 DEF OrderInv

LEMMA NextOrdered ==
  ASSUME IInv, Ordered, ~Reordering, [Next]_vars, duplicated' = 0
  PROVE  Ordered'
  <1> USE DEF senderVars, receiverVars, historyVars
  <1>1. CASE PollReady \/ PollError \/ PollTimeout \/ WindowClosed
    BY <1>1, QuietOrder
       DEF PollReady, PollError, PollTimeout, WindowClosed, Throw
  <1>2. CASE CloseWindow
    <2>1. CASE sockErr
      BY <1>2, <2>1, QuietOrder DEF CloseWindow, Throw
    <2>2. CASE ~sockErr
      BY <1>2, <2>2, SendOrder DEF CloseWindow
    <2> QED
      BY <2>1, <2>2
  <1>3. CASE SendOnTimeout
    <2>1. CASE sockErr
      BY <1>3, <2>1, QuietOrder DEF SendOnTimeout, Throw
    <2>2. CASE ~sockErr
      BY <1>3, <2>2, SendOrder DEF SendOnTimeout
    <2> QED
      BY <2>1, <2>2
  <1>4. CASE GotAck
    <2>1. CASE pc' = "aborted"
      <3>1. Throw
        BY <1>4, <2>1 DEF GotAck
      <3> QED
        BY <3>1, QuietOrder DEF Throw
    <2>2. CASE pc' # "aborted"
      BY <1>4, <2>2, GotAckOrder
    <2> QED
      BY <2>1, <2>2
  <1>5. CASE Acknowledge
    BY <1>5, AcknowledgeOrder
  <1>6. CASE Network
    BY <1>6, ArriveOrder, ArriveAckOrder DEF Network
  <1>7. CASE Lose
    BY <1>7, LoseOrder
  <1>8. CASE Tick \/ UNCHANGED vars
    BY <1>8, QuietOrder DEF Tick, vars
  <1> QED
    BY <1>1, <1>2, <1>3, <1>4, <1>5, <1>6, <1>7, <1>8, NeverStops
       DEF Next, Sender

LEMMA NextBounds ==
  ASSUME IInv, WindowBounds, [Next]_vars
  PROVE  WindowBounds'
  <1>0. IInv'
    BY NextInvariant
  <1>1. CASE CloseWindow /\ ~sockErr
    BY <1>0, <1>1, SendBounds DEF CloseWindow
  <1>2. CASE SendOnTimeout /\ ~sockErr
    BY <1>0, <1>2, SendBounds DEF SendOnTimeout
  <1>3. ASSUME ~(CloseWindow /\ ~sockErr), ~(SendOnTimeout /\ ~sockErr)
        PROVE  /\ next_ack_expected <= next_ack_expected'
               /\ UNCHANGED <<sequence_number, timeouts>>
    <2> USE DEF senderVars, receiverVars, historyVars
    <2>0. next_ack_expected \in Nat
      BY OutstandingValue DEF NoWrap
    <2>1. CASE GotAck
      <3>1. CASE Throw
        BY <2>0, <3>1 DEF Throw
      <3>2. CASE ~Throw
        <4>1. /\ next_ack_expected' = NextAckExpected(Head(senderSocket).message)
              /\ UNCHANGED <<sequence_number, timeouts>>
          BY <2>1, <3>2 DEF GotAck
        <4>2. next_ack_expected' \in Nat
          BY <1>0, OutstandingValueNext DEF NoWrap
        <4> QED
          BY <2>0, <4>1, <4>2 DEF NextAckExpected
      <3> QED
        BY <3>1, <3>2
    <2>2. CASE \/ PollReady \/ PollError \/ PollTimeout \/ WindowClosed
      BY <2>0, <2>2 DEF PollReady, PollError, PollTimeout, WindowClosed, Throw
    <2>3. CASE CloseWindow \/ SendOnTimeout
      <3>1. Throw
        BY <1>3, <2>3 DEF CloseWindow, SendOnTimeout
      <3> QED
        BY <2>0, <3>1 DEF Throw
    <2>4. CASE \/ Acknowledge \/ ReceiverStops \/ ReceiverRestarts \/ Lose
               \/ Tick \/ UNCHANGED vars
      BY <2>0, <2>4 DEF Acknowledge, ReceiverStops, ReceiverRestarts, Lose,
                        Tick, vars
    <2>5. CASE Network
      <3>1. UNCHANGED <<next_ack_expected, sequence_number, timeouts>>
        BY <2>5 DEF Network, Arrive, ArriveAck
      <3> QED
        BY <2>0, <3>1
    <2> QED
      BY <2>1, <2>2, <2>3, <2>4, <2>5 DEF Next, Sender
  <1> QED
    BY <1>0, <1>1, <1>2, <1>3, OtherBounds

(* A duplicate is never forgotten.                                         *)
LEMMA DuplicatedGrows ==
  ASSUME IInv, [Next]_vars, duplicated' = 0
  PROVE  duplicated = 0
  <1> USE DEF senderVars, receiverVars, historyVars
  <1>0. duplicated \in Nat
    BY NumberTypes DEF IInv
  <1>1. CASE Sender
    BY <1>1 DEF Sender, PollReady, PollError, PollTimeout, WindowClosed,
                CloseWindow, SendOnTimeout, GotAck, SendDatagram, Throw
  <1>2. CASE \/ Acknowledge \/ ReceiverStops \/ ReceiverRestarts \/ Lose
             \/ Tick \/ UNCHANGED vars
    BY <1>2 DEF Acknowledge, ReceiverStops, ReceiverRestarts, Lose, Tick, vars
  <1>3. CASE Network
    <2>1. duplicated' = duplicated \/ duplicated' = duplicated + 1
      <3>1. ASSUME NEW m \in data, Arrive(m)
            PROVE  duplicated' = duplicated \/ duplicated' = duplicated + 1
        BY <3>1 DEF Arrive
      <3>2. ASSUME NEW m \in acks, ArriveAck(m)
            PROVE  duplicated' = duplicated \/ duplicated' = duplicated + 1
        BY <3>2 DEF ArriveAck
      <3> QED
        BY <1>3, <3>1, <3>2 DEF Network
    <2> QED
      BY <1>0, <2>1
  <1> QED
    BY <1>1, <1>2, <1>3 DEF Next

(* The invariant of the order of what is in flight.                        *)
THEOREM OrderInvariance == Spec => []OrderInv
  <1>1. Init => OrderInv
    BY InitOrder
  <1>2. IInv /\ OrderInv /\ [Next]_vars => OrderInv'
    <2> SUFFICES ASSUME IInv, OrderInv, [Next]_vars PROVE OrderInv'
      OBVIOUS
    <2>1. WindowBounds'
      BY NextBounds DEF OrderInv
    <2>2. ASSUME ~Reordering, duplicated' = 0
          PROVE  Ordered'
      <3>1. Ordered
        BY <2>2, DuplicatedGrows DEF OrderInv, Ordered
      <3> QED
        BY <2>2, <3>1, NextOrdered
    <2> QED
      BY <2>1, <2>2 DEF OrderInv, Ordered
  <1> QED
    BY <1>1, <1>2, Invariance, PTL DEF Spec

-----------------------------------------------------------------------------
(***************************************************************************)
(* Counting what is in flight: by its number, each once.                   *)
(***************************************************************************)
LEMMA SameCount ==
  ASSUME NEW S, NEW T, IsFiniteSet(T), NEW f \in [S -> T],
         \A x, y \in S : f[x] = f[y] => x = y,
         \A t \in T : \E x \in S : f[x] = t
  PROVE  IsFiniteSet(S) /\ Cardinality(S) = Cardinality(T)
  <1>1. f \in Injection(S, T) /\ f \in Surjection(S, T)
    BY DEF Injection, IsInjective, Surjection
  <1> QED
    BY <1>1, FS_Injection

LEMMA QueueCount ==
  ASSUME NEW n \in Nat, NEW T, IsFiniteSet(T), NEW f \in [1..n -> T],
         \A i, j \in 1..n : f[i] = f[j] => i = j,
         \A t \in T : \E i \in 1..n : f[i] = t
  PROVE  Cardinality(T) = n
  <1>1. Cardinality(1..n) = n
    BY FS_Interval
  <1> QED
    BY <1>1, SameCount

LEMMA DisjointCount ==
  ASSUME NEW S, NEW T, IsFiniteSet(S), IsFiniteSet(T), S \cap T = {}
  PROVE  /\ IsFiniteSet(S \cup T)
         /\ Cardinality(S \cup T) = Cardinality(S) + Cardinality(T)
  <1>1. /\ IsFiniteSet(S \cup T)
        /\ Cardinality(S \cup T)
             = Cardinality(S) + Cardinality(T) - Cardinality({})
    BY FS_Union
  <1>2. /\ Cardinality(S) \in Nat /\ Cardinality(T) \in Nat
        /\ Cardinality({}) = 0
    BY FS_CardinalityType, FS_EmptySet
  <1> QED
    BY <1>1, <1>2

LEMMA FourCount ==
  ASSUME NEW A, NEW B, NEW C, NEW D,
         IsFiniteSet(A), IsFiniteSet(B), IsFiniteSet(C), IsFiniteSet(D),
         A \cap (B \cup C \cup D) = {}, B \cap (C \cup D) = {}, C \cap D = {}
  PROVE  /\ IsFiniteSet(A \cup B \cup C \cup D)
         /\ Cardinality(A \cup B \cup C \cup D)
              = Cardinality(A) + Cardinality(B) + Cardinality(C)
                + Cardinality(D)
  <1>1. /\ Cardinality(A) \in Nat /\ Cardinality(B) \in Nat
        /\ Cardinality(C) \in Nat /\ Cardinality(D) \in Nat
    BY FS_CardinalityType
  <1>2. PICK E : E = C \cup D
    OBVIOUS
  <1>3. PICK F : F = B \cup E
    OBVIOUS
  <1>4. IsFiniteSet(E) /\ Cardinality(E) = Cardinality(C) + Cardinality(D)
    BY <1>1, <1>2, DisjointCount
  <1>5. IsFiniteSet(F) /\ Cardinality(F) = Cardinality(B) + Cardinality(E)
    <2>1. B \cap E = {}
      BY <1>2
    <2> QED
      BY <1>3, <1>4, <2>1, DisjointCount
  <1>6. /\ IsFiniteSet(A \cup F)
        /\ Cardinality(A \cup F) = Cardinality(A) + Cardinality(F)
    <2>1. A \cap F = {}
      BY <1>2, <1>3
    <2> QED
      BY <1>5, <2>1, DisjointCount
  <1>7. A \cup B \cup C \cup D = A \cup F
    BY <1>2, <1>3
  <1> QED
    BY <1>1, <1>4, <1>5, <1>6, <1>7

LEMMA InFlightCount ==
  ASSUME IInv, Ordered
  PROVE  /\ IsFiniteSet(NumbersInFlight)
         /\ InFlight = Cardinality(NumbersInFlight)
  <1> DEFINE outstanding == next_ack_expected..(sequence_number - 1)
  <1>0. /\ next_ack_expected \in Nat /\ sequence_number \in Nat
        /\ Len(senderSocket) \in Nat /\ Len(receiverSocket) \in Nat
        /\ \A m \in acks : /\ m.sequence_number \in Nat
                           /\ m.ack_sequence_number \in Nat
        /\ \A i \in 1..Len(senderSocket) :
             senderSocket[i].message.ack_sequence_number \in Nat
        /\ \A i \in 1..Len(receiverSocket) :
             receiverSocket[i].message.sequence_number \in Nat
    BY NumberTypes DEF IInv
  <1>1. IsFiniteSet(outstanding)
    BY <1>0, FS_Interval
  <1>2. /\ InSenderSocket \subseteq outstanding /\ InAcks \subseteq outstanding
        /\ InReceiverSocket \subseteq outstanding
        /\ InData \subseteq outstanding
    BY DEF Ordered, InWindow, NumbersInFlight
  <1>3. /\ IsFiniteSet(InSenderSocket) /\ IsFiniteSet(InAcks)
        /\ IsFiniteSet(InReceiverSocket) /\ IsFiniteSet(InData)
    <2> HIDE DEF outstanding
    <2> QED
      BY <1>1, <1>2, FS_Subset
  <1>4. Cardinality(InData) = Cardinality(data)
    <2> DEFINE f == [m \in data |-> m.sequence_number]
    <2>1. /\ f \in [data -> InData]
          /\ \A x, y \in data : f[x] = f[y] => x = y
          /\ \A t \in InData : \E x \in data : f[x] = t
      BY DEF InData, Ordered, EachInOrder
    <2> HIDE DEF f
    <2> QED
      BY <1>3, <2>1, SameCount
  <1>5. Cardinality(InAcks) = Cardinality(acks)
    <2> DEFINE f == [m \in acks |-> m.ack_sequence_number]
    <2>1. \A x, y \in acks : f[x] = f[y] => x = y
      BY <1>0 DEF Ordered, EachInOrder
    <2>2. /\ f \in [acks -> InAcks]
          /\ \A t \in InAcks : \E x \in acks : f[x] = t
      BY DEF InAcks
    <2> HIDE DEF f
    <2> QED
      BY <1>3, <2>1, <2>2, SameCount
  <1>6. Cardinality(InSenderSocket) = Len(senderSocket)
    <2> DEFINE n == Len(senderSocket)
               f == [i \in 1..n |-> senderSocket[i].message.ack_sequence_number]
    <2>1. \A i, j \in 1..n : f[i] = f[j] => i = j
      BY <1>0 DEF Ordered, EachInOrder
    <2>2. /\ f \in [1..n -> InSenderSocket]
          /\ \A t \in InSenderSocket : \E i \in 1..n : f[i] = t
      BY DEF InSenderSocket
    <2>3. n \in Nat
      BY <1>0
    <2> HIDE DEF f, n
    <2>4. Cardinality(InSenderSocket) = n
      BY <1>3, <2>1, <2>2, <2>3, QueueCount
    <2> QED
      BY <2>4 DEF n
  <1>7. Cardinality(InReceiverSocket) = Len(receiverSocket)
    <2> DEFINE n == Len(receiverSocket)
               f == [i \in 1..n |-> receiverSocket[i].message.sequence_number]
    <2>1. \A i, j \in 1..n : f[i] = f[j] => i = j
      BY <1>0 DEF Ordered, EachInOrder
    <2>2. /\ f \in [1..n -> InReceiverSocket]
          /\ \A t \in InReceiverSocket : \E i \in 1..n : f[i] = t
      BY DEF InReceiverSocket
    <2>3. n \in Nat
      BY <1>0
    <2> HIDE DEF f, n
    <2>4. Cardinality(InReceiverSocket) = n
      BY <1>3, <2>1, <2>2, <2>3, QueueCount
    <2> QED
      BY <2>4 DEF n
  <1>8. /\ InSenderSocket \cap (InAcks \cup InReceiverSocket \cup InData) = {}
        /\ InAcks \cap (InReceiverSocket \cup InData) = {}
        /\ InReceiverSocket \cap InData = {}
    BY PlaceTypes DEF IInv, Ordered, PlacesInOrder, Below
  <1>9. /\ IsFiniteSet(NumbersInFlight)
        /\ Cardinality(NumbersInFlight)
             = Cardinality(InSenderSocket) + Cardinality(InAcks)
               + Cardinality(InReceiverSocket) + Cardinality(InData)
    BY <1>3, <1>8, FourCount DEF NumbersInFlight
  <1> QED
    BY <1>0, <1>3, <1>4, <1>5, <1>6, <1>7, <1>9, FS_CardinalityType
       DEF InFlight

LEMMA OrderedInFlight ==
  ASSUME IInv, Ordered
  PROVE  /\ InFlight \in Nat /\ InFlight <= Outstanding
         /\ lost = 0 => InFlight = Outstanding
  <1> DEFINE outstanding == next_ack_expected..(sequence_number - 1)
  <1>1. /\ next_ack_expected \in Nat /\ sequence_number \in Nat
        /\ next_ack_expected <= sequence_number
        /\ Outstanding = sequence_number - next_ack_expected
    BY OutstandingValue DEF NoWrap, IInv, NoWindowUnderflow
  <1>2. IsFiniteSet(outstanding) /\ Cardinality(outstanding) = Outstanding
    <2>1. PICK last \in Int : last = sequence_number - 1
      BY <1>1
    <2>2. /\ IsFiniteSet(next_ack_expected..last)
          /\ Cardinality(next_ack_expected..last)
               = IF next_ack_expected > last THEN 0
                 ELSE last - next_ack_expected + 1
      BY <1>1, FS_Interval
    <2> QED
      BY <1>1, <2>1, <2>2
  <1>3. /\ NumbersInFlight \subseteq outstanding
        /\ lost = 0 => NumbersInFlight = outstanding
    BY DEF Ordered, InWindow
  <1> HIDE DEF outstanding
  <1>4. /\ Cardinality(NumbersInFlight) \in Nat
        /\ Cardinality(NumbersInFlight) <= Outstanding
    BY <1>2, <1>3, InFlightCount, FS_Subset, FS_CardinalityType
  <1> QED
    BY <1>2, <1>3, <1>4, InFlightCount

(***************************************************************************)
(* What the sender compares with its window is what is in flight when the  *)
(* network keeps the order and loses nothing, and never less when it loses *)
(* some.                                                                   *)
(***************************************************************************)
THEOREM OutstandingIsRight == Spec => []OutstandingIsInFlight
  <1>1. IInv /\ OrderInv => OutstandingIsInFlight
    BY OrderedInFlight DEF OrderInv, Ordered, OutstandingIsInFlight
  <1> QED
    BY <1>1, Invariance, OrderInvariance, PTL

(***************************************************************************)
(* On a network that keeps the order and duplicates nothing, never more is *)
(* in flight than the largest window and one datagram for each timeout.    *)
(***************************************************************************)
THEOREM InFlightStaysBounded == Spec => []InFlightIsBounded
  <1>1. IInv /\ OrderInv => InFlightIsBounded
    <2> SUFFICES ASSUME IInv, OrderInv, ~Reordering, duplicated = 0
                 PROVE  \E w \in Windows : InFlight <= w + timeouts
      BY DEF InFlightIsBounded
    <2>1. InFlight \in Nat /\ InFlight <= Outstanding
      BY OrderedInFlight DEF OrderInv, Ordered
    <2>2. PICK w \in Windows : Outstanding <= w + timeouts
      BY DEF OrderInv, WindowBounds
    <2>3. /\ w \in Nat /\ timeouts \in Nat /\ sequence_number \in Nat
          /\ next_ack_expected \in Nat
          /\ Outstanding = sequence_number - next_ack_expected
      BY OutstandingValue DEF NoWrap
    <2>4. InFlight <= w + timeouts
      BY <2>1, <2>2, <2>3
    <2> QED
      BY <2>4
  <1> QED
    BY <1>1, Invariance, OrderInvariance, PTL

(***************************************************************************)
(* On a network that neither reorders, loses nor duplicates, each ack the  *)
(* sender takes is the one it expected next.                               *)
(***************************************************************************)
THEOREM EachAckIsExpected == Spec => AcksComeAsExpected
  <1>1. IInv /\ OrderInv /\ [Next]_vars
          => [ (~Reordering /\ lost = 0 /\ duplicated = 0 /\ sample' # sample)
               => sample'.ack_sequence_number = next_ack_expected ]_vars
    <2> SUFFICES ASSUME IInv, OrderInv, [Next]_vars, ~Reordering, lost = 0,
                        duplicated = 0, sample' # sample
                 PROVE  sample'.ack_sequence_number = next_ack_expected
      OBVIOUS
    <2>1. GotAck /\ pc' # "aborted"
      <3> USE DEF senderVars, receiverVars, historyVars
      <3>1. ~Throw /\ sample' # sample
        BY DEF Throw
      <3>2. /\ ~PollReady /\ ~PollError /\ ~PollTimeout /\ ~WindowClosed
            /\ ~CloseWindow /\ ~SendOnTimeout
        BY <3>1 DEF PollReady, PollError, PollTimeout, WindowClosed,
                    CloseWindow, SendOnTimeout, SendDatagram
      <3>3. /\ ~Acknowledge /\ ~ReceiverStops /\ ~ReceiverRestarts /\ ~Lose
            /\ ~Tick /\ ~UNCHANGED vars
        BY <3>1 DEF Acknowledge, ReceiverStops, ReceiverRestarts, Lose, Tick,
                    vars
      <3>4. ~Network
        BY <3>1 DEF Network, Arrive, ArriveAck
      <3>5. GotAck
        BY <3>2, <3>3, <3>4 DEF Next, Sender
      <3> QED
        BY <3>1, <3>5 DEF GotAck
    <2>2. Ordered
      BY DEF OrderInv, Ordered
    <2> QED
      BY <2>1, <2>2, GotAckOrder
  <1> QED
    BY <1>1, Invariance, OrderInvariance, PTL DEF Spec, AcksComeAsExpected

-----------------------------------------------------------------------------
(***************************************************************************)
(* The bytes of a message.  A field is written by dividing by place values *)
(* and read by multiplying and adding: after i bytes the word read is the  *)
(* field divided by the place value of the bytes to come.  A first i for   *)
(* which it is not would have one before it for which it is.               *)
(***************************************************************************)
LEMMA WireConstants ==
  /\ FieldSize \in Nat /\ FieldSize >= 1
  /\ ByteSize \in Nat /\ ByteSize >= 2
  /\ WordSize \in Nat /\ WordSize > 1 /\ WordSize = PlaceValue[FieldSize]
  BY WireAssumption, WordSizeAssumption

(* There are place values for any number of bytes: the least number for    *)
(* which there were none would not be zero, and those for the number       *)
(* before it would go on for one byte more.                                *)
Places(f, n) == f = [i \in 0..n |-> IF i = 0 THEN 1 ELSE ByteSize * f[i - 1]]

LEMMA PlacesExist == \A n \in Nat : \E f : Places(f, n)
  <1> DEFINE wrong == {n \in Nat : ~ \E f : Places(f, n)}
  <1>1. SUFFICES ASSUME wrong # {} PROVE FALSE
    OBVIOUS
  <1>2. PICK n \in wrong : \A m \in wrong : n <= m
    <2>1. wrong \subseteq Nat
      OBVIOUS
    <2> HIDE DEF wrong
    <2> QED
      BY <1>1, <2>1, LeastExists
  <1>3. n \in Nat /\ ~ \E f : Places(f, n)
    BY <1>2
  <1>4. CASE n = 0
    <2> DEFINE f == [i \in 0..0 |-> 1]
    <2>1. f = [i \in 0..0 |-> IF i = 0 THEN 1 ELSE ByteSize * f[i - 1]]
      <3>1. \A i \in 0..0 : i = 0
        OBVIOUS
      <3> QED
        BY <3>1
    <2> QED
      BY <1>3, <1>4, <2>1 DEF Places
  <1>5. CASE n # 0
    <2>1. n - 1 \in Nat /\ ~(n <= n - 1)
      BY <1>3, <1>5
    <2>2. PICK f : Places(f, n - 1)
      BY <1>2, <2>1
    <2> DEFINE g == [i \in 0..n |-> IF i = n THEN ByteSize * f[n - 1] ELSE f[i]]
    <2>3. ASSUME NEW i \in 0..n
          PROVE  g[i] = IF i = 0 THEN 1 ELSE ByteSize * g[i - 1]
      <3>1. CASE i = n
        <4>1. n - 1 \in 0..n /\ n - 1 # n
          BY <1>3, <1>5
        <4> QED
          BY <1>5, <3>1, <4>1
      <3>2. CASE i # n
        <4>1. i \in 0..(n - 1) /\ i # n
          BY <1>3, <3>2
        <4>2. f[i] = IF i = 0 THEN 1 ELSE ByteSize * f[i - 1]
          BY <2>2, <4>1 DEF Places
        <4>3. i # 0 => i - 1 \in 0..n /\ i - 1 # n
          BY <1>3, <4>1
        <4> QED
          BY <4>1, <4>2, <4>3
      <3> QED
        BY <3>1, <3>2
    <2>4. g = [i \in 0..n |-> IF i = 0 THEN 1 ELSE ByteSize * g[i - 1]]
      <3>1. g = [i \in 0..n |-> g[i]]
        OBVIOUS
      <3> HIDE DEF g
      <3> QED
        BY <2>3, <3>1
    <2> QED
      BY <1>3, <2>4 DEF Places
  <1> QED
    BY <1>4, <1>5

LEMMA PlaceValues ==
  /\ PlaceValue[0] = 1
  /\ \A i \in 1..FieldSize : PlaceValue[i] = ByteSize * PlaceValue[i - 1]
  /\ \A i \in 0..FieldSize : PlaceValue[i] \in Nat \ {0}
  <1>1. Places(PlaceValue, FieldSize)
    BY PlacesExist, WireConstants DEF Places, PlaceValue
  <1>2. \A i \in 0..FieldSize :
          PlaceValue[i] = IF i = 0 THEN 1 ELSE ByteSize * PlaceValue[i - 1]
    <2> HIDE DEF PlaceValue
    <2> QED
      BY <1>1 DEF Places
  <1>3. PlaceValue[0] = 1
    BY <1>2, WireConstants
  <1>4. \A i \in 1..FieldSize : PlaceValue[i] = ByteSize * PlaceValue[i - 1]
    BY <1>2, WireConstants
  <1> DEFINE wrong == {i \in 0..FieldSize : PlaceValue[i] \notin Nat \ {0}}
  <1>5. SUFFICES ASSUME wrong # {} PROVE FALSE
    BY <1>3, <1>4
  <1>6. PICK n \in wrong : \A m \in wrong : n <= m
    <2>1. wrong \subseteq Nat
      BY WireConstants
    <2> HIDE DEF wrong
    <2> QED
      BY <1>5, <2>1, LeastExists
  <1>7. n \in 0..FieldSize /\ n # 0
    BY <1>3, <1>6
  <1>8. n - 1 \in 0..FieldSize /\ ~(n <= n - 1) /\ n \in 1..FieldSize
    BY <1>7, WireConstants
  <1>9. PlaceValue[n - 1] \in Nat \ {0}
    BY <1>6, <1>8
  <1>10. PICK q \in Nat \ {0} : q = PlaceValue[n - 1]
    BY <1>9
  <1>11. ByteSize * q \in Nat \ {0}
    BY WireConstants
  <1>12. PlaceValue[n] \in Nat \ {0}
    BY <1>4, <1>8, <1>10, <1>11
  <1> QED
    BY <1>6, <1>12

(* Division by a place value goes on from that by the one below it.        *)
LEMMA DigitStep ==
  ASSUME NEW v \in Nat, NEW q \in Nat \ {0}, NEW b \in Nat \ {0}
  PROVE  v \div q = (v \div (b * q)) * b + ((v \div q) % b)
  <1>1. PICK u \in Nat : u = v \div q /\ u * q <= v /\ v < (u + 1) * q
    OBVIOUS
  <1>2. PICK w \in Nat, s \in Nat : w = u \div b /\ s = u % b /\ s < b /\ u = w * b + s
    OBVIOUS
  <1>3. PICK c \in Nat \ {0} : c = b * q
    OBVIOUS
  <1>4. w * c <= v
    <2>1. w * c = (w * b) * q
      BY <1>3
    <2>2. (w * b) * q <= u * q
      BY <1>2
    <2> QED
      BY <1>1, <2>1, <2>2
  <1>5. v < (w + 1) * c
    <2>1. u + 1 <= (w + 1) * b
      BY <1>2
    <2>2. (u + 1) * q <= ((w + 1) * b) * q
      BY <2>1
    <2>3. ((w + 1) * b) * q = (w + 1) * c
      BY <1>3
    <2> QED
      BY <1>1, <2>2, <2>3
  <1>6. v \div c = w
    BY <1>4, <1>5
  <1> QED
    BY <1>1, <1>2, <1>3, <1>6

LEMMA FieldBytes ==
  ASSUME NEW v \in Word
  PROVE  /\ PutHeaderField(v) \in Seq(Nat) /\ Len(PutHeaderField(v)) = FieldSize
         /\ \A i \in 1..FieldSize :
              v \div PlaceValue[FieldSize - i]
                = (v \div PlaceValue[FieldSize - (i - 1)]) * ByteSize
                    + PutHeaderField(v)[i]
         /\ v \div PlaceValue[FieldSize] = 0 /\ v \div PlaceValue[0] = v
         /\ \A i \in 0..FieldSize : v \div PlaceValue[FieldSize - i] \in Nat
  <1>1. v \in Nat /\ v < WordSize
    BY WireConstants DEF Word
  <1>2. ASSUME NEW i \in 0..FieldSize
        PROVE  v \div PlaceValue[FieldSize - i] \in Nat
    <2>1. FieldSize - i \in 0..FieldSize
      BY WireConstants
    <2>2. PICK q \in Nat \ {0} : q = PlaceValue[FieldSize - i]
      BY <2>1, PlaceValues
    <2> QED
      BY <1>1, <2>2
  <1>3. ASSUME NEW i \in 1..FieldSize
        PROVE  PutHeaderField(v)[i] \in Nat
    <2>1. i \in 0..FieldSize
      BY WireConstants
    <2>2. PICK d \in Nat : d = v \div PlaceValue[FieldSize - i]
      BY <1>2, <2>1
    <2>3. d % ByteSize \in Nat
      BY WireConstants
    <2> QED
      BY <2>2, <2>3 DEF PutHeaderField
  <1>4. PutHeaderField(v) \in Seq(Nat) /\ Len(PutHeaderField(v)) = FieldSize
    <2>1. PutHeaderField(v) \in [1..FieldSize -> Nat]
      BY <1>3 DEF PutHeaderField
    <2> QED
      BY <2>1, WireConstants
  <1>5. ASSUME NEW i \in 1..FieldSize
        PROVE  v \div PlaceValue[FieldSize - i]
                 = (v \div PlaceValue[FieldSize - (i - 1)]) * ByteSize
                     + PutHeaderField(v)[i]
    <2>1. /\ FieldSize - i \in 0..FieldSize
          /\ FieldSize - (i - 1) \in 1..FieldSize
          /\ (FieldSize - (i - 1)) - 1 = FieldSize - i
      BY WireConstants
    <2>2. PICK q \in Nat \ {0} : q = PlaceValue[FieldSize - i]
      BY <2>1, PlaceValues
    <2>3. PlaceValue[FieldSize - (i - 1)] = ByteSize * q
      BY <2>1, <2>2, PlaceValues
    <2>4. v \div q = (v \div (ByteSize * q)) * ByteSize + ((v \div q) % ByteSize)
      <3>1. ByteSize \in Nat \ {0} /\ v \in Nat
        BY <1>1, WireConstants
      <3> QED
        BY <3>1, DigitStep
    <2>5. PutHeaderField(v)[i] = (v \div q) % ByteSize
      BY <2>2 DEF PutHeaderField
    <2> QED
      BY <2>2, <2>3, <2>4, <2>5
  <1>6. v \div PlaceValue[FieldSize] = 0
    BY <1>1, WireConstants
  <1>7. v \div PlaceValue[0] = v
    <2>1. v \div 1 = v
      BY <1>1
    <2> QED
      BY <2>1, PlaceValues
  <1> QED
    BY <1>2, <1>4, <1>5, <1>6, <1>7

(* The bytes of a word, read back, are the word.                           *)
LEMMA FieldIsReadBack ==
  ASSUME NEW v \in Word, NEW str, NEW n \in 0..5,
         \A i \in 1..FieldSize : /\ n * FieldSize + i <= Len(str)
                                 /\ str[n * FieldSize + i] = PutHeaderField(v)[i]
  PROVE  GetHeaderField(n, str) = v
  <1> DEFINE byte(i) == IF i <= Len(str) THEN str[i] ELSE 0
             Reads(f) ==
                f = [i \in 0..FieldSize |->
                        IF i = 0 THEN 0
                        ELSE f[i - 1] * ByteSize + byte(n * FieldSize + i)]
             read == [i \in 0..FieldSize |-> v \div PlaceValue[FieldSize - i]]
  <1>1. \A i \in 1..FieldSize : byte(n * FieldSize + i) = PutHeaderField(v)[i]
    OBVIOUS
  <1>2. GetHeaderField(n, str) = (CHOOSE f : Reads(f))[FieldSize]
    BY DEF GetHeaderField
  <1> HIDE DEF byte
  <1>3. Reads(read)
    <2>1. ASSUME NEW i \in 0..FieldSize
          PROVE  read[i] = IF i = 0 THEN 0
                           ELSE read[i - 1] * ByteSize + byte(n * FieldSize + i)
      <3>1. CASE i = 0
        <4>1. FieldSize - 0 = FieldSize
          BY WireConstants
        <4> QED
          BY <3>1, <4>1, FieldBytes
      <3>2. CASE i # 0
        <4>1. i \in 1..FieldSize /\ i - 1 \in 0..FieldSize
          BY <3>2, WireConstants
        <4>2. read[i] = v \div PlaceValue[FieldSize - i]
          OBVIOUS
        <4>3. read[i - 1] = v \div PlaceValue[FieldSize - (i - 1)]
          BY <4>1
        <4> HIDE DEF read
        <4> QED
          BY <1>1, <3>2, <4>1, <4>2, <4>3, FieldBytes
      <3> QED
        BY <3>1, <3>2
    <2>2. read = [i \in 0..FieldSize |-> read[i]]
      OBVIOUS
    <2> HIDE DEF read
    <2> QED
      BY <2>1, <2>2
  <1>4. PICK f : Reads(f) /\ GetHeaderField(n, str) = f[FieldSize]
    <2> HIDE DEF Reads, read
    <2> QED
      BY <1>2, <1>3
  <1> DEFINE wrong == {i \in 0..FieldSize : f[i] # v \div PlaceValue[FieldSize - i]}
  <1>5. wrong = {}
    <2>1. SUFFICES ASSUME wrong # {} PROVE FALSE
      OBVIOUS
    <2>2. PICK k \in wrong : \A j \in wrong : k <= j
      <3>1. wrong \subseteq Nat
        BY WireConstants
      <3> HIDE DEF wrong
      <3> QED
        BY <2>1, <3>1, LeastExists
    <2>3. k \in 0..FieldSize
      OBVIOUS
    <2>4. f[k] = IF k = 0 THEN 0 ELSE f[k - 1] * ByteSize + byte(n * FieldSize + k)
      BY <1>4, <2>3
    <2>5. CASE k = 0
      <3>1. FieldSize - 0 = FieldSize
        BY WireConstants
      <3> QED
        BY <2>2, <2>4, <2>5, <3>1, FieldBytes
    <2>6. CASE k # 0
      <3>1. k \in 1..FieldSize /\ k - 1 \in 0..FieldSize /\ ~(k <= k - 1)
        BY <2>3, <2>6, WireConstants
      <3>2. f[k - 1] = v \div PlaceValue[FieldSize - (k - 1)]
        BY <2>2, <3>1
      <3> QED
        BY <1>1, <2>2, <2>4, <2>6, <3>1, <3>2, FieldBytes
    <2> QED
      BY <2>5, <2>6
  <1>6. f[FieldSize] = v \div PlaceValue[FieldSize - FieldSize]
    <2>1. FieldSize \in 0..FieldSize
      BY WireConstants
    <2> QED
      BY <1>5, <2>1
  <1>7. FieldSize - FieldSize = 0
    BY WireConstants
  <1> QED
    BY <1>4, <1>6, <1>7, FieldBytes

(* The n-th field of a header lies in its place.                           *)
LEMMA PlaceOfByte ==
  ASSUME NEW k \in Nat, NEW n \in 0..(k - 1), NEW i \in 1..FieldSize
  PROVE  /\ n * FieldSize \in Nat /\ k * FieldSize \in Nat
         /\ n * FieldSize + i \in 1..(k * FieldSize)
  <1>1. n \in Nat /\ k - 1 \in Nat /\ n <= k - 1
    OBVIOUS
  <1>2. n * FieldSize \in Nat /\ k * FieldSize \in Nat
    BY <1>1, WireConstants
  <1>3. n * FieldSize <= (k - 1) * FieldSize
    BY <1>1, WireConstants
  <1>4. (k - 1) * FieldSize = k * FieldSize - FieldSize
    BY WireConstants
  <1> QED
    BY <1>2, <1>3, <1>4, WireConstants

HoldsFields(str, fields, k) ==
    \A n \in 0..(k - 1) : \A i \in 1..FieldSize :
        str[n * FieldSize + i] = PutHeaderField(fields[n + 1])[i]

LEMMA Concatenated ==
  ASSUME NEW s \in Seq(Nat), NEW t \in Seq(Nat), NEW n \in Nat, n = Len(s),
         NEW k \in Nat, k = Len(t)
  PROVE  /\ s \o t \in Seq(Nat) /\ Len(s \o t) = n + k
         /\ \A j \in 1..n : (s \o t)[j] = s[j]
         /\ \A i \in 1..k : (s \o t)[n + i] = t[i]
  <1>1. /\ s \o t \in Seq(Nat) /\ Len(s \o t) = Len(s) + Len(t)
        /\ \A j \in 1..(Len(s) + Len(t)) :
             (s \o t)[j] = IF j <= Len(s) THEN s[j] ELSE t[j - Len(s)]
    OBVIOUS
  <1>2. \A j \in 1..n : (s \o t)[j] = s[j]
    BY <1>1
  <1>3. ASSUME NEW i \in 1..k PROVE (s \o t)[n + i] = t[i]
    <2>1. n + i \in 1..(n + k) /\ ~(n + i <= n) /\ (n + i) - n = i
      OBVIOUS
    <2> QED
      BY <1>1, <2>1
  <1> QED
    BY <1>1, <1>2, <1>3

LEMMA OneFieldMore ==
  ASSUME NEW fields, NEW k \in Nat, fields[k + 1] \in Word,
         NEW str \in Seq(Nat), Len(str) = k * FieldSize, HoldsFields(str, fields, k)
  PROVE  LET more == str \o PutHeaderField(fields[k + 1])
         IN  /\ more \in Seq(Nat) /\ Len(more) = (k + 1) * FieldSize
             /\ HoldsFields(more, fields, k + 1)
  <1>1. PICK put : put = PutHeaderField(fields[k + 1])
    OBVIOUS
  <1>2. put \in Seq(Nat) /\ Len(put) = FieldSize
    BY <1>1, FieldBytes
  <1>3. PICK len \in Nat : len = k * FieldSize /\ len = Len(str)
    OBVIOUS
  <1>4. PICK more : more = str \o put
    OBVIOUS
  <1>5. /\ more \in Seq(Nat) /\ Len(more) = len + FieldSize
        /\ \A j \in 1..len : more[j] = str[j]
        /\ \A i \in 1..FieldSize : more[len + i] = put[i]
    <2>1. PICK size \in Nat : size = FieldSize
      BY WireConstants
    <2>2. /\ len = Len(str) /\ size = Len(put)
          /\ len \in Nat /\ size \in Nat /\ str \in Seq(Nat) /\ put \in Seq(Nat)
      BY <1>2, <1>3, <2>1
    <2>3. /\ str \o put \in Seq(Nat) /\ Len(str \o put) = len + size
          /\ \A j \in 1..len : (str \o put)[j] = str[j]
          /\ \A i \in 1..size : (str \o put)[len + i] = put[i]
      BY ONLY <2>2, Concatenated
    <2> QED
      BY <1>4, <2>1, <2>3
  <1>6. (k + 1) * FieldSize = len + FieldSize
    BY <1>3, WireConstants
  <1>7. ASSUME NEW n \in 0..((k + 1) - 1), NEW i \in 1..FieldSize
        PROVE  more[n * FieldSize + i] = PutHeaderField(fields[n + 1])[i]
    <2>1. CASE n = k
      BY <1>1, <1>3, <1>5, <2>1
    <2>2. CASE n # k
      <3>1. n \in 0..(k - 1)
        BY <2>2
      <3>2. n * FieldSize + i \in 1..len
        BY <1>3, <3>1, PlaceOfByte
      <3> QED
        BY <1>5, <3>1, <3>2 DEF HoldsFields
    <2> QED
      BY <2>1, <2>2
  <1> QED
    BY <1>1, <1>4, <1>5, <1>6, <1>7 DEF HoldsFields

LEMMA WireOfMessage ==
  ASSUME NEW m \in Message
  PROVE  /\ Wire(m) \in Seq(Nat) /\ Len(Wire(m)) = HeaderSize + m.payload
         /\ m.payload \in Nat
         /\ HoldsFields(Wire(m), HeaderFields(m), 6)
  <1>1. PICK fields : fields = HeaderFields(m)
    OBVIOUS
  <1>2. \A n \in 1..6 : fields[n] \in Word
    BY <1>1 DEF HeaderFields, Message
  <1>3. m.payload \in Nat
    BY WireConstants DEF Message, Word
  <1> DEFINE Header(str, k) == /\ str \in Seq(Nat) /\ Len(str) = k * FieldSize
                               /\ HoldsFields(str, fields, k)
  <1>4. ASSUME NEW k \in 0..5, NEW str, Header(str, k)
        PROVE  Header(str \o PutHeaderField(fields[k + 1]), k + 1)
    <2>1. fields[k + 1] \in Word /\ k \in Nat
      BY <1>2
    <2> QED
      BY <1>4, <2>1, OneFieldMore
  <1>5. Header(PutHeaderField(fields[1]), 1)
    <2>1. fields[1] \in Word
      BY <1>2
    <2>2. \A n \in 0..(1 - 1) : n = 0
      OBVIOUS
    <2>3. 1 * FieldSize = FieldSize /\ 0 * FieldSize = 0
      BY WireConstants
    <2>4. \A i \in 1..FieldSize : 0 * FieldSize + i = i
      BY <2>3, WireConstants
    <2> QED
      BY <2>1, <2>2, <2>3, <2>4, FieldBytes DEF HoldsFields
  <1> HIDE DEF Header
  <1>6. PICK s2 : s2 = PutHeaderField(fields[1]) \o PutHeaderField(fields[2])
    OBVIOUS
  <1>7. PICK s3 : s3 = s2 \o PutHeaderField(fields[3])
    OBVIOUS
  <1>8. PICK s4 : s4 = s3 \o PutHeaderField(fields[4])
    OBVIOUS
  <1>9. PICK s5 : s5 = s4 \o PutHeaderField(fields[5])
    OBVIOUS
  <1>10. PICK s6 : s6 = s5 \o PutHeaderField(fields[6])
    OBVIOUS
  <1>11. Header(s2, 2)
    BY <1>4, <1>5, <1>6
  <1>12. Header(s3, 3)
    BY <1>4, <1>7, <1>11
  <1>13. Header(s4, 4)
    BY <1>4, <1>8, <1>12
  <1>14. Header(s5, 5)
    BY <1>4, <1>9, <1>13
  <1>15. Header(s6, 6)
    BY <1>4, <1>10, <1>14
  <1>16. PICK zeros : zeros = [i \in 1..m.payload |-> 0]
    OBVIOUS
  <1>17. Wire(m) = s6 \o zeros
    BY <1>1, <1>6, <1>7, <1>8, <1>9, <1>10, <1>16 DEF Wire
  <1>18. zeros \in Seq(Nat) /\ Len(zeros) = m.payload
    BY <1>3, <1>16
  <1>19. s6 \in Seq(Nat) /\ Len(s6) = 6 * FieldSize /\ HoldsFields(s6, fields, 6)
    BY <1>15 DEF Header
  <1>20. PICK len \in Nat : len = 6 * FieldSize
    BY WireConstants
  <1>21. /\ Wire(m) \in Seq(Nat) /\ Len(Wire(m)) = len + m.payload
         /\ \A j \in 1..len : Wire(m)[j] = s6[j]
    <2>1. Len(s6) = len
      BY <1>19, <1>20
    <2> QED
      BY <1>3, <1>17, <1>18, <1>19, <2>1, Concatenated
  <1>22. HoldsFields(Wire(m), fields, 6)
    <2>1. ASSUME NEW n \in 0..(6 - 1), NEW i \in 1..FieldSize
          PROVE  n * FieldSize + i \in 1..len
      BY <1>20, PlaceOfByte
    <2> QED
      BY <1>19, <1>21, <2>1 DEF HoldsFields
  <1> QED
    BY <1>1, <1>3, <1>20, <1>21, <1>22 DEF HeaderSize

(* A string that holds the fields of a message is parsed to the message.   *)
LEMMA HeaderIsReadBack ==
  ASSUME NEW m \in Message, NEW str, NEW payload \in Nat,
         Len(str) = HeaderSize + payload, HoldsFields(str, HeaderFields(m), 6)
  PROVE  Parse(str) = [m EXCEPT !.payload = payload]
  <1>1. PICK fields : fields = HeaderFields(m)
    OBVIOUS
  <1>2. \A n \in 1..6 : fields[n] \in Word
    BY <1>1 DEF HeaderFields, Message
  <1>3. PICK len \in Nat : len = 6 * FieldSize /\ len = HeaderSize
    BY WireConstants DEF HeaderSize
  <1>4. ASSUME NEW n \in 0..5
        PROVE  GetHeaderField(n, str) = fields[n + 1]
    <2>1. ASSUME NEW i \in 1..FieldSize
          PROVE  /\ n * FieldSize + i <= Len(str)
                 /\ str[n * FieldSize + i] = PutHeaderField(fields[n + 1])[i]
      <3>1. n \in 0..(6 - 1) /\ 6 \in Nat
        OBVIOUS
      <3>2. n * FieldSize + i \in 1..len
        BY <1>3, <3>1, PlaceOfByte
      <3> QED
        BY <1>1, <1>3, <3>1, <3>2 DEF HoldsFields
    <2>2. fields[n + 1] \in Word
      BY <1>2
    <2> QED
      BY <2>1, <2>2, FieldIsReadBack
  <1>5. ASSUME NEW n \in 0..5 PROVE ~TooSmall(n, str)
    <2>1. (n + 1) * FieldSize <= 6 * FieldSize
      BY WireConstants
    <2>2. (n + 1) * FieldSize \in Nat
      BY WireConstants
    <2> QED
      BY <1>3, <2>1, <2>2 DEF TooSmall
  <1>6. Len(str) - HeaderSize = payload
    BY <1>3
  <1>7. Parse(str) = [sequence_number     |-> fields[1],
                      send_timestamp      |-> fields[2],
                      ack_sequence_number |-> fields[3],
                      ack_send_timestamp  |-> fields[4],
                      ack_recv_timestamp  |-> fields[5],
                      ack_payload_length  |-> fields[6],
                      payload             |-> payload]
    <2>1. /\ GetHeaderField(0, str) = fields[1] /\ GetHeaderField(1, str) = fields[2]
          /\ GetHeaderField(2, str) = fields[3] /\ GetHeaderField(3, str) = fields[4]
          /\ GetHeaderField(4, str) = fields[5] /\ GetHeaderField(5, str) = fields[6]
      BY <1>4
    <2> QED
      BY <1>5, <1>6, <2>1 DEF Parse
  <1> QED
    BY <1>1, <1>7 DEF HeaderFields, Message

LEMMA WireIsReadBack ==
  ASSUME NEW m \in Message
  PROVE  Parse(Wire(m)) = m
  <1>1. Parse(Wire(m)) = [m EXCEPT !.payload = m.payload]
    BY WireOfMessage, HeaderIsReadBack
  <1> QED
    BY <1>1 DEF Message

LEMMA CutWire ==
  ASSUME NEW m \in Message, NEW length \in 0..(HeaderSize + m.payload)
  PROVE  Parse(SubSeq(Wire(m), 1, length))
           = IF length < HeaderSize THEN Refused
             ELSE [m EXCEPT !.payload = length - HeaderSize]
  <1>1. PICK len \in Nat : len = 6 * FieldSize /\ len = HeaderSize
    BY WireConstants DEF HeaderSize
  <1>2. PICK wire : wire = Wire(m)
    OBVIOUS
  <1>3. /\ wire \in Seq(Nat) /\ Len(wire) = len + m.payload /\ m.payload \in Nat
        /\ HoldsFields(wire, HeaderFields(m), 6)
    BY <1>1, <1>2, WireOfMessage
  <1>4. PICK str : str = SubSeq(wire, 1, length)
    OBVIOUS
  <1>5. Len(str) = length /\ \A j \in 1..length : str[j] = wire[j]
    BY <1>1, <1>3, <1>4
  <1>6. CASE length < HeaderSize
    <2>1. TooSmall(5, str)
      BY <1>1, <1>5, <1>6 DEF TooSmall
    <2> QED
      BY <1>2, <1>4, <1>6, <2>1 DEF Parse
  <1>7. CASE ~(length < HeaderSize)
    <2>1. PICK payload \in Nat : payload = length - HeaderSize
      BY <1>1, <1>7
    <2>2. Len(str) = HeaderSize + payload
      BY <1>1, <1>5, <2>1
    <2>3. ASSUME NEW n \in 0..(6 - 1), NEW i \in 1..FieldSize
          PROVE  n * FieldSize + i \in 1..length
      <3>1. n * FieldSize + i \in 1..(6 * FieldSize)
        BY PlaceOfByte
      <3> QED
        BY <1>1, <1>7, <3>1
    <2>4. HoldsFields(str, HeaderFields(m), 6)
      BY <1>3, <1>5, <2>3 DEF HoldsFields
    <2> QED
      BY <1>2, <1>4, <1>7, <2>1, <2>2, <2>4, HeaderIsReadBack
  <1> QED
    BY <1>6, <1>7

(***************************************************************************)
(* What one end writes is what the other parses: for every message, as     *)
(* large as its payload is (contest_message.cc:22-35 and 52-66).           *)
(***************************************************************************)
THEOREM EveryMessageSurvives == Spec => []MessagesSurviveTheWire
  <1>1. IInv => MessagesSurviveTheWire
    <2>1. IInv => Travelling \subseteq Message
      BY DEF IInv, TypeOK, Travelling
    <2> QED
      BY <2>1, WireIsReadBack DEF MessagesSurviveTheWire
  <1> QED
    BY <1>1, Invariance, PTL

(***************************************************************************)
(* A datagram cut short anywhere is refused, or loses payload only         *)
(* (contest_message.cc:11).                                                *)
(***************************************************************************)
THEOREM EveryShortOneIsRefused == Spec => []ShortDatagramsAreRefused
  <1>1. IInv => ShortDatagramsAreRefused
    <2>1. IInv => Travelling \subseteq Message
      BY DEF IInv, TypeOK, Travelling
    <2> QED
      BY <2>1, CutWire DEF ShortDatagramsAreRefused, Cut
  <1> QED
    BY <1>1, Invariance, PTL
=============================================================================

-------------------------- MODULE DatagrumpLH_proofs --------------------------
(***************************************************************************)
(* Proofs about the protocol under ExDLHController, for any windows,       *)
(* network and widths.                                                     *)
(***************************************************************************)
EXTENDS DatagrumpLH, Datagrump_proofs, FiniteSetTheorems

USE LHAssumption

-----------------------------------------------------------------------------
(***************************************************************************)
(* Arithmetic of unsigned counters.                                        *)
(***************************************************************************)
LEMMA DivMod ==
  ASSUME NEW U \in Int, U > 0, NEW a \in Int
  PROVE  a = (a \div U) * U + (a % U)
  BY SMT

LEMMA ModUnique ==
  ASSUME NEW U \in Nat \ {0}, NEW k \in Int, NEW r \in 0..(U - 1)
  PROVE  (r + k * U) % U = r
  <1>1. PICK a \in Int : a = U * k + r /\ a = r + k * U
    OBVIOUS
  <1>2. a % U = r
    BY <1>1
  <1> QED
    BY <1>1, <1>2

(* A counter that wraps and is counted up or down is the wrapped count.    *)
LEMMA ModStep ==
  ASSUME NEW U \in Nat \ {0}, NEW n \in Int
  PROVE  /\ n % U \in 0..(U - 1)
         /\ ((n % U) + 1) % U = (n + 1) % U
         /\ ((n % U) + U - 1) % U = (n - 1) % U
  <1>1. PICK q \in Int, r \in 0..(U - 1) : r = n % U /\ n = r + q * U
    <2>1. n % U \in 0..(U - 1)
      OBVIOUS
    <2>2. n \div U \in Int
      OBVIOUS
    <2>3. n = (n \div U) * U + (n % U)
      BY DivMod
    <2> QED
      BY <2>1, <2>2, <2>3
  <1>2. /\ (q + 1) * U = q * U + U /\ (q - 1) * U = q * U - U
        /\ q * U \in Int /\ 1 * U = U /\ 0 * U = 0
    OBVIOUS
  <1>3. \A x \in 0..(U - 1), k \in Int : (x + k * U) % U = x
    BY ModUnique
  <1>4. (r + 1) % U = (n + 1) % U
    <2>1. CASE r + 1 < U
      <3>1. r + 1 \in 0..(U - 1) /\ n + 1 = (r + 1) + q * U
            /\ r + 1 = (r + 1) + 0 * U
        BY <1>1, <1>2, <2>1
      <3>2. (n + 1) % U = r + 1
        BY <1>3, <3>1
      <3>3. (r + 1) % U = r + 1
        BY <1>3, <3>1
      <3> QED
        BY <3>2, <3>3
    <2>2. CASE r + 1 = U
      <3>1. n + 1 = 0 + (q + 1) * U /\ r + 1 = 0 + 1 * U
            /\ 0 \in 0..(U - 1) /\ q + 1 \in Int
        BY <1>1, <1>2, <2>2
      <3>2. (n + 1) % U = 0
        BY <1>3, <3>1
      <3>3. (r + 1) % U = 0
        BY <1>3, <3>1
      <3> QED
        BY <3>2, <3>3
    <2> QED
      BY <2>1, <2>2
  <1>5. (r + U - 1) % U = (n - 1) % U
    <2>1. CASE r >= 1
      <3>1. r - 1 \in 0..(U - 1) /\ n - 1 = (r - 1) + q * U
            /\ r + U - 1 = (r - 1) + 1 * U
        BY <1>1, <1>2, <2>1
      <3>2. (n - 1) % U = r - 1 /\ (r + U - 1) % U = r - 1
        BY <1>3, <3>1
      <3> QED
        BY <3>2
    <2>2. CASE r = 0
      <3>1. U - 1 \in 0..(U - 1) /\ n - 1 = (U - 1) + (q - 1) * U
            /\ r + U - 1 = (U - 1) + 0 * U /\ q - 1 \in Int
        BY <1>1, <1>2, <2>2
      <3>2. (n - 1) % U = U - 1 /\ (r + U - 1) % U = U - 1
        BY <1>3, <3>1
      <3> QED
        BY <3>2
    <2> QED
      BY <2>1, <2>2
  <1> QED
    BY <1>1, <1>4, <1>5

-----------------------------------------------------------------------------
(* What ExDLH counts, were nothing wrapped.                                *)
Balance == InFlight + lost - duplicated

Finite == IsFiniteSet(data) /\ IsFiniteSet(acks)

Numbers ==
    /\ Cardinality(data) \in Nat /\ Cardinality(acks) \in Nat
    /\ Len(receiverSocket) \in Nat /\ Len(senderSocket) \in Nat
    /\ lost \in Nat /\ duplicated \in Nat /\ duplicated <= MaxDup
    /\ sequence_number \in Nat /\ sequence_number <= MaxSeq
    /\ receiverNumber \in Nat /\ stops \in Nat

LEMMA Sizes ==
  ASSUME TypeOK, Finite
  PROVE  Numbers /\ Balance \in Int
  <1>1. Cardinality(data) \in Nat /\ Cardinality(acks) \in Nat
    BY FS_CardinalityType DEF Finite
  <1>2. Len(receiverSocket) \in Nat /\ Len(senderSocket) \in Nat
    BY DEF TypeOK
  <1>3. /\ lost \in Nat /\ duplicated \in Nat /\ duplicated <= MaxDup
        /\ sequence_number \in Nat /\ sequence_number <= MaxSeq
        /\ receiverNumber \in Nat /\ stops \in Nat
    BY DatagrumpAssumption DEF TypeOK, Word
  <1> QED
    BY <1>1, <1>2, <1>3 DEF Numbers, Balance, InFlight

(* Adding and removing a message.                                          *)
LEMMA AddMessage ==
  ASSUME NEW S, NEW x, IsFiniteSet(S)
  PROVE  /\ IsFiniteSet(S \cup {x}) /\ Cardinality(S) \in Nat
         /\ x \notin S => Cardinality(S \cup {x}) = Cardinality(S) + 1
  BY FS_AddElement, FS_CardinalityType

LEMMA RemoveMessage ==
  ASSUME NEW S, NEW x \in S, IsFiniteSet(S)
  PROVE  /\ IsFiniteSet(S \ {x}) /\ Cardinality(S) \in Nat
         /\ Cardinality(S \ {x}) = Cardinality(S) - 1
  BY FS_RemoveElement, FS_CardinalityType

-----------------------------------------------------------------------------
(***************************************************************************)
(* What each step does to the balance.                                     *)
(***************************************************************************)
LEMMA SendBalance ==
  ASSUME IInv, Finite, AcksAreNumbered, CanSend,
         NEW on_timeout \in BOOLEAN, SendDatagram(on_timeout)
  PROVE  /\ Finite' /\ AcksAreNumbered' /\ Balance' = Balance + 1
         /\ UNCHANGED stops /\ sequence_number' = sequence_number + 1
  <1>1. TypeOK
    BY DEF IInv
  <1>0. Numbers
    BY <1>1, Sizes
  <1>2. PICK t : data' = data \cup
                   {SetSendTimestamp(NewMessage(sequence_number,
                                                PayloadLength), t)}
    BY DEF SendDatagram
  <1>3. PICK m : /\ m = SetSendTimestamp(NewMessage(sequence_number,
                                                    PayloadLength), t)
                 /\ m.sequence_number = sequence_number
    <2>1. SetSendTimestamp(NewMessage(sequence_number, PayloadLength), t)
            .sequence_number = sequence_number
      BY DEF SetSendTimestamp, NewMessage
    <2> QED
      BY <2>1
  <1>4. m \notin data
    <2>1. \A n \in data : n.sequence_number < sequence_number
      BY DEF IInv, MessagesAreGenuine, Genuine
    <2>2. ~(sequence_number < sequence_number)
      BY <1>1, <1>0 DEF Numbers
    <2> QED
      BY <1>3, <2>1, <2>2
  <1>5. /\ UNCHANGED <<receiverNumber, stops, receiverSocket, senderSocket,
                       acks, lost, duplicated>>
        /\ sequence_number' = sequence_number + 1
    BY DEF SendDatagram, receiverVars
  <1>6. IsFiniteSet(data') /\ Cardinality(data') = Cardinality(data) + 1
    BY <1>2, <1>3, <1>4, AddMessage DEF Finite
  <1>7. Finite'
    BY <1>5, <1>6 DEF Finite
  <1>8. AcksAreNumbered'
    BY <1>1, <1>5, <1>6, <1>0 DEF Numbers, AcksAreNumbered
  <1>9. Balance' = Balance + 1
    BY <1>1, <1>5, <1>6, <1>0 DEF Numbers, Balance, InFlight
  <1> QED
    BY <1>5, <1>7, <1>8, <1>9

LEMMA GotAckBalance ==
  ASSUME IInv, Finite, AcksAreNumbered, GotAck, pc' # "aborted"
  PROVE  /\ Finite' /\ AcksAreNumbered' /\ Balance' = Balance - 1
         /\ UNCHANGED <<stops, sequence_number>>
  <1>1. TypeOK /\ senderSocket # <<>>
    BY DEF IInv, PollStillHolds, GotAck
  <1>0. Numbers
    BY <1>1, Sizes
  <1>2. /\ senderSocket' = Tail(senderSocket)
        /\ UNCHANGED <<receiverNumber, stops, receiverSocket, data, acks, lost,
                       duplicated, sequence_number>>
    BY DEF GotAck, Throw, receiverVars
  <1>3. Len(senderSocket') = Len(senderSocket) - 1
    BY <1>1, <1>2 DEF TypeOK
  <1>4. Balance' = Balance - 1
    BY <1>1, <1>2, <1>3, <1>0 DEF Numbers, Balance, InFlight
  <1> QED
    BY <1>2, <1>4 DEF Finite, AcksAreNumbered

(* Steps that move no message.                                             *)
LEMMA QuietBalance ==
  ASSUME Finite, AcksAreNumbered,
         UNCHANGED <<receiverNumber, stops, receiverSocket, senderSocket, data,
                     acks, lost, duplicated, sequence_number>>
  PROVE  Finite' /\ AcksAreNumbered' /\ Balance' = Balance
  BY DEF Finite, AcksAreNumbered, Balance, InFlight

LEMMA AcknowledgeBalance ==
  ASSUME IInv, Finite, AcksAreNumbered, Acknowledge
  PROVE  /\ Finite' /\ AcksAreNumbered' /\ UNCHANGED stops
         /\ stops = 0 => Balance' = Balance
  <1>1. TypeOK /\ receiverSocket # <<>>
    BY DEF IInv, Acknowledge
  <1>0. Numbers
    BY <1>1, Sizes
  <1>2. PICK m, r, t : acks' = acks \cup
                         {Acknowledgment(m, receiverNumber, r, t)}
                       /\ m \in Message
    <2>1. Head(receiverSocket) \in Received
      BY <1>1 DEF TypeOK
    <2>2. Head(receiverSocket).message \in Message
      BY <2>1 DEF Received
    <2> QED
      BY <2>2 DEF Acknowledge
  <1>3. PICK a : /\ a = Acknowledgment(m, receiverNumber, r, t)
                 /\ a.sequence_number = receiverNumber
    <2>1. Acknowledgment(m, receiverNumber, r, t).sequence_number
             = receiverNumber
      BY <1>2 DEF Acknowledgment, TransformIntoAck, SetSendTimestamp, Message
    <2> QED
      BY <2>1
  <1>4. /\ UNCHANGED <<stops, data, senderSocket, lost, duplicated,
                       sequence_number>>
        /\ receiverNumber' = PlusWord(receiverNumber, 1)
        /\ receiverSocket' = Tail(receiverSocket)
    BY DEF Acknowledge, senderVars
  <1>5. Len(receiverSocket') = Len(receiverSocket) - 1
        /\ Len(receiverSocket) >= 1
    BY <1>1, <1>4 DEF TypeOK
  <1>6. Finite'
    BY <1>2, <1>4, AddMessage DEF Finite
  <1>7. ASSUME stops = 0
        PROVE  AcksAreNumbered' /\ Balance' = Balance
    <2>1. \A n \in acks : n.sequence_number < receiverNumber
      BY <1>7 DEF AcksAreNumbered
    <2>2. receiverNumber + Len(receiverSocket) + Cardinality(data)
             <= sequence_number + duplicated
      BY <1>7 DEF AcksAreNumbered
    <2>3. receiverNumber' = receiverNumber + 1
      BY <1>1, <1>4, <1>5, <2>2, <1>0, DatagrumpAssumption,
         WordSizeAssumption DEF Numbers, PlusWord, Unset
    <2>4. a \notin acks
      BY <1>1, <1>3, <2>1, <1>0 DEF Numbers
    <2>5. Cardinality(acks') = Cardinality(acks) + 1
      BY <1>2, <1>3, <2>4, AddMessage DEF Finite
    <2>6. \A n \in acks' : n.sequence_number < receiverNumber'
      <3>1. \A n \in acks : n.sequence_number < receiverNumber + 1
        <4>1. \A n \in acks : n.sequence_number \in Nat
          BY <1>1 DEF TypeOK, Message, Word
        <4> QED
          BY <1>1, <2>1, <4>1, <1>0 DEF Numbers
      <3>2. a.sequence_number < receiverNumber + 1
        BY <1>1, <1>3, <1>0 DEF Numbers
      <3> QED
        BY <1>2, <1>3, <2>3, <3>1, <3>2
    <2>7. AcksAreNumbered'
      BY <1>1, <1>4, <1>5, <2>2, <2>3, <2>6, <1>0 DEF Numbers, AcksAreNumbered
    <2>8. Balance' = Balance
      BY <1>1, <1>4, <1>5, <2>5, <1>0 DEF Numbers, Balance, InFlight
    <2> QED
      BY <2>7, <2>8
  <1>8. AcksAreNumbered'
    BY <1>4, <1>7 DEF AcksAreNumbered
  <1> QED
    BY <1>4, <1>6, <1>7, <1>8

(* A duplicate leaves the datagram in flight, and is counted.              *)
LEMMA ArriveBalance ==
  ASSUME IInv, Finite, AcksAreNumbered, NEW m \in data, Arrive(m)
  PROVE  /\ Finite' /\ AcksAreNumbered' /\ UNCHANGED stops
         /\ stops = 0 => Balance' = Balance
  <1>1. TypeOK /\ (stops = 0 => receiverUp)
    BY Sizes DEF IInv, StopsAreCounted
  <1>0. Numbers
    BY <1>1, Sizes
  <1>2. UNCHANGED <<stops, receiverNumber, acks, senderSocket, lost,
                    sequence_number>>
    BY DEF Arrive, receiverVars, senderVars
  <1>3. /\ IsFiniteSet(data')
        /\ \/ /\ Cardinality(data') = Cardinality(data)
              /\ duplicated' = duplicated + 1
           \/ /\ Cardinality(data') = Cardinality(data) - 1
              /\ duplicated' = duplicated
    <2>1. PICK again \in BOOLEAN :
            /\ data' = IF again THEN data ELSE data \ {m}
            /\ duplicated' = IF again THEN duplicated + 1 ELSE duplicated
      BY DEF Arrive, Duplicates
    <2>2. CASE again
      BY <2>1, <2>2 DEF Finite
    <2>3. CASE ~again
      BY <2>1, <2>3, RemoveMessage DEF Finite
    <2> QED
      BY <2>2, <2>3
  <1>4. Finite'
    BY <1>2, <1>3 DEF Finite
  <1>5. ASSUME stops = 0
        PROVE  AcksAreNumbered' /\ Balance' = Balance
    <2>1. Len(receiverSocket') = Len(receiverSocket) + 1
      <3>1. receiverSocket'
              = Append(receiverSocket, [message |-> m, at |-> now])
        BY <1>1, <1>5 DEF Arrive
      <3>2. [message |-> m, at |-> now] \in Received
        BY <1>1 DEF TypeOK, Received
      <3> QED
        BY <1>1, <3>1, <3>2, AppendElements DEF TypeOK
    <2>2. AcksAreNumbered'
      BY <1>1, <1>2, <1>3, <1>5, <2>1, <1>0 DEF Numbers, AcksAreNumbered
    <2>3. Balance' = Balance
      BY <1>1, <1>2, <1>3, <2>1, <1>0 DEF Numbers, Balance, InFlight
    <2> QED
      BY <2>2, <2>3
  <1>6. AcksAreNumbered'
    BY <1>2, <1>5 DEF AcksAreNumbered
  <1> QED
    BY <1>2, <1>4, <1>5, <1>6

LEMMA ArriveAckBalance ==
  ASSUME IInv, Finite, AcksAreNumbered, NEW m \in acks, ArriveAck(m)
  PROVE  Finite' /\ AcksAreNumbered' /\ UNCHANGED stops /\ Balance' = Balance
  <1>1. TypeOK
    BY DEF IInv
  <1>0. Numbers
    BY <1>1, Sizes
  <1>2. UNCHANGED <<stops, receiverNumber, data, receiverSocket, lost,
                    sequence_number>>
    BY DEF ArriveAck, receiverVars, senderVars
  <1>3. /\ IsFiniteSet(acks') /\ acks' \subseteq acks
        /\ \/ /\ Cardinality(acks') = Cardinality(acks)
              /\ duplicated' = duplicated + 1
           \/ /\ Cardinality(acks') = Cardinality(acks) - 1
              /\ duplicated' = duplicated
    <2>1. PICK again \in BOOLEAN :
            /\ acks' = IF again THEN acks ELSE acks \ {m}
            /\ duplicated' = IF again THEN duplicated + 1 ELSE duplicated
      BY DEF ArriveAck, Duplicates
    <2>2. CASE again
      BY <2>1, <2>2 DEF Finite
    <2>3. CASE ~again
      BY <2>1, <2>3, RemoveMessage DEF Finite
    <2> QED
      BY <2>2, <2>3
  <1>4. Len(senderSocket') = Len(senderSocket) + 1
    <2>1. senderSocket' = Append(senderSocket, [message |-> m, at |-> now])
      BY DEF ArriveAck
    <2>2. [message |-> m, at |-> now] \in Received
      BY <1>1 DEF TypeOK, Received
    <2> QED
      BY <1>1, <2>1, <2>2, AppendElements DEF TypeOK
  <1>5. Finite'
    BY <1>2, <1>3 DEF Finite
  <1>6. AcksAreNumbered'
    BY <1>1, <1>2, <1>3, <1>0 DEF Numbers, AcksAreNumbered
  <1>7. Balance' = Balance
    <2>2. /\ Cardinality(data') = Cardinality(data)
          /\ Len(receiverSocket') = Len(receiverSocket) /\ lost' = lost
      BY <1>2
    <2>3. CASE /\ Cardinality(acks') = Cardinality(acks)
               /\ duplicated' = duplicated + 1
      BY <1>0, <1>4, <2>2, <2>3 DEF Numbers, Balance, InFlight
    <2>4. CASE /\ Cardinality(acks') = Cardinality(acks) - 1
               /\ duplicated' = duplicated
      BY <1>0, <1>4, <2>2, <2>4 DEF Numbers, Balance, InFlight
    <2> QED
      BY <1>3, <2>3, <2>4
  <1> QED
    BY <1>2, <1>5, <1>6, <1>7

LEMMA LoseBalance ==
  ASSUME IInv, Finite, AcksAreNumbered, Lose
  PROVE  Finite' /\ AcksAreNumbered' /\ UNCHANGED stops /\ Balance' = Balance
  <1>1. TypeOK
    BY DEF IInv
  <1>0. Numbers
    BY <1>1, Sizes
  <1>2. /\ UNCHANGED <<stops, receiverNumber, receiverSocket, senderSocket,
                       duplicated, sequence_number>>
        /\ lost' = lost + 1
    BY DEF Lose, receiverVars, senderVars
  <1>3. /\ IsFiniteSet(data') /\ IsFiniteSet(acks') /\ acks' \subseteq acks
        /\ \/ /\ Cardinality(data') = Cardinality(data) - 1
              /\ UNCHANGED acks
           \/ /\ Cardinality(acks') = Cardinality(acks) - 1
              /\ UNCHANGED data
    <2>1. CASE \E m \in data : data' = data \ {m} /\ UNCHANGED acks
      BY <2>1, RemoveMessage DEF Finite
    <2>2. CASE \E m \in acks : acks' = acks \ {m} /\ UNCHANGED data
      BY <2>2, RemoveMessage DEF Finite
    <2> QED
      BY <2>1, <2>2 DEF Lose
  <1>4. AcksAreNumbered'
    BY <1>1, <1>2, <1>3, <1>0 DEF Numbers, AcksAreNumbered
  <1>5. Balance' = Balance
    <2>1. /\ Len(receiverSocket') = Len(receiverSocket)
          /\ Len(senderSocket') = Len(senderSocket)
          /\ duplicated' = duplicated /\ lost' = lost + 1
      BY <1>2
    <2>2. CASE /\ Cardinality(data') = Cardinality(data) - 1
               /\ Cardinality(acks') = Cardinality(acks)
      BY <1>0, <2>1, <2>2 DEF Numbers, Balance, InFlight
    <2>3. CASE /\ Cardinality(acks') = Cardinality(acks) - 1
               /\ Cardinality(data') = Cardinality(data)
      BY <1>0, <2>1, <2>3 DEF Numbers, Balance, InFlight
    <2> QED
      BY <1>3, <2>2, <2>3
  <1> QED
    BY <1>2, <1>3, <1>4, <1>5 DEF Finite

LEMMA OtherBalance ==
  ASSUME IInv, Finite, AcksAreNumbered,
         \/ PollReady \/ PollError \/ PollTimeout \/ WindowClosed
         \/ Acknowledge \/ ReceiverStops \/ ReceiverRestarts
         \/ Network \/ Lose \/ Tick
  PROVE  /\ Finite' /\ AcksAreNumbered'
         /\ stops' = 0 => stops = 0 /\ Balance' = Balance
  <1>1. CASE PollReady \/ PollError \/ PollTimeout \/ WindowClosed \/ Tick
    BY <1>1, QuietBalance
       DEF PollReady, PollError, PollTimeout, WindowClosed, Throw, Tick,
           senderVars, receiverVars
  <1>2. CASE Acknowledge
    BY <1>2, AcknowledgeBalance
  <1>3. CASE ReceiverStops
    <2>1. stops' # 0
      BY <1>3, Sizes DEF ReceiverStops, IInv, Numbers
    <2> QED
      BY <1>3, <2>1 DEF ReceiverStops, Finite, AcksAreNumbered
  <1>4. CASE ReceiverRestarts
    <2>1. stops # 0
      BY <1>4, Sizes DEF ReceiverRestarts, IInv, Numbers, StopsAreCounted
    <2> QED
      BY <1>4, <2>1 DEF ReceiverRestarts, Finite, AcksAreNumbered
  <1>5. CASE Network
    BY <1>5, ArriveBalance, ArriveAckBalance DEF Network
  <1>6. CASE Lose
    BY <1>6, LoseBalance
  <1> QED
    BY <1>1, <1>2, <1>3, <1>4, <1>5, <1>6

-----------------------------------------------------------------------------
(***************************************************************************)
(* The controller's own variables.                                         *)
(***************************************************************************)
USE DEF LH!Unseen

LEMMA LHSentType ==
  ASSUME LHTypeOK, LH!DatagramWasSent
  PROVE  LHTypeOK'
  <1>1. outstanding_packets' \in 0..(UnsignedSize - 1)
    <2>1. outstanding_packets + 1 \in Int
      BY DEF LHTypeOK
    <2> QED
      BY <2>1, ModStep DEF LH!DatagramWasSent
  <1> QED
    BY <1>1 DEF LHTypeOK, LH!DatagramWasSent

LEMMA LHAckType ==
  ASSUME LHTypeOK, NEW recv \in Word, NEW rtt \in Word,
         LH!AckReceived(recv, rtt)
  PROVE  LHTypeOK'
  <1>1. outstanding_packets' \in 0..(UnsignedSize - 1)
    <2>1. outstanding_packets + UnsignedSize - 1 \in Int
      BY DEF LHTypeOK
    <2> QED
      BY <2>1, ModStep DEF LH!AckReceived
  <1>2. rtt_estimate' \in 0..InitialRtt
    BY DEF LHTypeOK, LH!AckReceived, LH!Smaller, Word
  <1>3. last_recv_timestamp' \in 0..(UnsignedSize - 1)
    <2>1. recv \in Int
      BY DEF Word
    <2> QED
      BY <2>1, ModStep DEF LH!AckReceived
  <1>4. ewma_rate' \in Nat \ {0}
    <2>1. recv % UnsignedSize \in Int /\ recv \in Int
      <3>1. recv \in Int
        BY DEF Word
      <3> QED
        BY <3>1, ModStep
    <2>2. PICK last \in Int :
            ewma_rate' = (3 * LH!Larger((recv - last) * Scale,
                                        (3 * Scale) \div 10)
                          + 7 * ewma_rate) \div 10
      <3>1. CASE last_recv_timestamp = LH!Unseen
        BY <2>1, <3>1 DEF LH!AckReceived
      <3>2. CASE last_recv_timestamp # LH!Unseen
        BY <3>2 DEF LH!AckReceived, LHTypeOK
      <3> QED
        BY <3>1, <3>2
    <2>3. (3 * Scale) \div 10 \in Nat /\ (3 * Scale) \div 10 >= 3
      OBVIOUS
    <2>4. (recv - last) * Scale \in Int
      BY <2>1
    <2>5. PICK current \in Nat :
            /\ current = LH!Larger((recv - last) * Scale, (3 * Scale) \div 10)
            /\ current >= 3
      BY <2>3, <2>4 DEF LH!Larger
    <2>6. ewma_rate' = (3 * current + 7 * ewma_rate) \div 10
      BY <2>2, <2>5
    <2> QED
      BY <2>5, <2>6 DEF LHTypeOK
  <1> QED
    BY <1>1, <1>2, <1>3, <1>4 DEF LHTypeOK

-----------------------------------------------------------------------------
(***************************************************************************)
(* The protocol under this controller is the protocol.                     *)
(***************************************************************************)
(* The window is what the controller answers, and no more is counted than  *)
(* was sent.                                                               *)
WindowIsAnswered == window = LH!WindowSize

CountIsBounded == stops = 0 => Balance <= sequence_number

LHInductive ==
    IInv /\ LHInv /\ Finite /\ WindowIsAnswered /\ CountIsBounded

LEMMA LHNextIsNext == LHNext => Next
  BY DEF LHNext, LHSend, LHGotAck, LHOther, Next, Sender

LEMMA LHInitInvariant == LHInit => LHInductive
  <1> SUFFICES ASSUME LHInit PROVE LHInductive
    OBVIOUS
  <1>1. IInv
    BY InitInvariant DEF LHInit
  <1>2. Finite /\ Cardinality(data) = 0 /\ Cardinality(acks) = 0
    BY FS_EmptySet DEF LHInit, Init, Finite
  <1>3. LHTypeOK
    <2>1. (24 * Scale) \div 10 \in Nat \ {0}
      OBVIOUS
    <2> QED
      BY <2>1 DEF LHInit, LH!Init, LHTypeOK
  <1>4. AcksAreNumbered
    BY <1>2 DEF LHInit, Init, AcksAreNumbered
  <1>5. OutstandingLeaks
    <2>1. InFlight + lost - duplicated = 0 + 0 * UnsignedSize
      BY <1>2 DEF LHInit, Init, InFlight
    <2>2. (0 + 0 * UnsignedSize) % UnsignedSize = 0
      BY ModUnique
    <2> QED
      BY <2>1, <2>2 DEF LHInit, LH!Init, OutstandingLeaks
  <1>6. CountIsBounded
    BY <1>2 DEF LHInit, Init, CountIsBounded, Balance, InFlight
  <1>7. WindowIsAnswered
    BY DEF LHInit, WindowIsAnswered
  <1> QED
    BY <1>1, <1>2, <1>3, <1>4, <1>5, <1>6, <1>7 DEF LHInductive, LHInv

LEMMA LHSendStep ==
  ASSUME LHInductive, LHSend
  PROVE  LHInv' /\ Finite' /\ WindowIsAnswered' /\ CountIsBounded'
  <1>1. /\ IInv /\ Finite /\ AcksAreNumbered /\ LHTypeOK /\ OutstandingLeaks
        /\ WindowIsAnswered /\ CountIsBounded
    BY DEF LHInductive, LHInv
  <1>2. CASE pc' = "aborted"
    <2>1. Throw /\ UNCHANGED lhVars
      <3>1. IInv => pc # "aborted" \/ ~LHSend
        BY DEF LHSend, CloseWindow, SendOnTimeout
      <3> QED
        BY <1>1, <1>2, <3>1 DEF LHSend, CloseWindow, SendOnTimeout
    <2>2. UNCHANGED <<receiverNumber, stops, receiverSocket, senderSocket,
                      data, acks, lost, duplicated, sequence_number, window>>
      BY <2>1 DEF Throw, receiverVars
    <2>3. Finite' /\ AcksAreNumbered' /\ Balance' = Balance
      BY <1>1, <2>2, QuietBalance
    <2> QED
      BY <1>1, <2>1, <2>2, <2>3
         DEF LHInv, LHTypeOK, OutstandingLeaks, Balance, lhVars,
             WindowIsAnswered, LH!WindowSize, LH!PacketsLeaving, CountIsBounded
  <1>3. CASE pc' # "aborted"
    <2>1. LH!DatagramWasSent
      BY <1>3 DEF LHSend
    <2>2. PICK on_timeout \in BOOLEAN : CanSend /\ SendDatagram(on_timeout)
      BY <1>1, <1>3 DEF LHSend, CloseWindow, SendOnTimeout, Throw, IInv,
                        PollStillHolds
    <2>3. /\ Finite' /\ AcksAreNumbered' /\ Balance' = Balance + 1
          /\ UNCHANGED stops /\ sequence_number' = sequence_number + 1
      BY <1>1, <2>2, SendBalance
    <2>4. LHTypeOK'
      BY <1>1, <2>1, LHSentType
    <2>5. OutstandingLeaks'
      <3>1. Balance \in Int
        BY <1>1, Sizes DEF IInv
      <3>2. stops = 0 => outstanding_packets = Balance % UnsignedSize
        BY <1>1 DEF OutstandingLeaks, Balance
      <3>3. outstanding_packets' = (outstanding_packets + 1) % UnsignedSize
        BY <2>1 DEF LH!DatagramWasSent
      <3>4. stops = 0 => outstanding_packets' = Balance' % UnsignedSize
        BY <2>3, <3>1, <3>2, <3>3, ModStep
      <3> QED
        BY <2>3, <3>4 DEF OutstandingLeaks, Balance
    <2>6. WindowIsAnswered'
      BY <1>3 DEF LHSend, WindowIsAnswered
    <2>7. CountIsBounded'
      BY <1>1, <2>3, Sizes DEF CountIsBounded, IInv, Numbers
    <2> QED
      BY <2>3, <2>4, <2>5, <2>6, <2>7 DEF LHInv
  <1> QED
    BY <1>2, <1>3

LEMMA LHGotAckStep ==
  ASSUME LHInductive, LHGotAck, IInv'
  PROVE  LHInv' /\ Finite' /\ WindowIsAnswered' /\ CountIsBounded'
  <1>1. /\ IInv /\ Finite /\ AcksAreNumbered /\ LHTypeOK /\ OutstandingLeaks
        /\ WindowIsAnswered /\ CountIsBounded
    BY DEF LHInductive, LHInv
  <1>2. CASE pc' = "aborted"
    <2>1. Throw /\ UNCHANGED lhVars
      BY <1>2 DEF LHGotAck, GotAck
    <2>2. UNCHANGED <<receiverNumber, stops, receiverSocket, senderSocket,
                      data, acks, lost, duplicated, sequence_number, window>>
      BY <2>1 DEF Throw, receiverVars
    <2>3. Finite' /\ AcksAreNumbered' /\ Balance' = Balance
      BY <1>1, <2>2, QuietBalance
    <2> QED
      BY <1>1, <2>1, <2>2, <2>3
         DEF LHInv, LHTypeOK, OutstandingLeaks, Balance, lhVars,
             WindowIsAnswered, LH!WindowSize, LH!PacketsLeaving, CountIsBounded
  <1>3. CASE pc' # "aborted"
    <2>1. /\ GotAck
          /\ LH!AckReceived(sample'.recv_timestamp_acked,
                            MinusWord(sample'.timestamp_ack_received,
                                      sample'.send_timestamp_acked))
      BY <1>3 DEF LHGotAck
    <2>2. /\ Finite' /\ AcksAreNumbered' /\ Balance' = Balance - 1
          /\ UNCHANGED <<stops, sequence_number>>
      BY <1>1, <1>3, <2>1, GotAckBalance
    <2>3. PICK recv \in Word, rtt \in Word : LH!AckReceived(recv, rtt)
      <3>1. /\ sample'.recv_timestamp_acked \in Word
            /\ sample'.timestamp_ack_received \in Word
            /\ sample'.send_timestamp_acked \in Word
        BY DEF IInv, TypeOK, Sample
      <3>2. MinusWord(sample'.timestamp_ack_received,
                      sample'.send_timestamp_acked) \in Word
        BY <3>1, WordSizeAssumption DEF MinusWord, Word
      <3> QED
        BY <2>1, <3>1, <3>2
    <2>4. LHTypeOK'
      BY <1>1, <2>3, LHAckType
    <2>5. OutstandingLeaks'
      <3>1. Balance \in Int
        BY <1>1, Sizes DEF IInv
      <3>2. stops = 0 => outstanding_packets = Balance % UnsignedSize
        BY <1>1 DEF OutstandingLeaks, Balance
      <3>3. outstanding_packets'
              = (outstanding_packets + UnsignedSize - 1) % UnsignedSize
        BY <2>3 DEF LH!AckReceived
      <3>4. stops = 0 => outstanding_packets' = Balance' % UnsignedSize
        BY <2>2, <3>1, <3>2, <3>3, ModStep
      <3> QED
        BY <2>2, <3>4 DEF OutstandingLeaks, Balance
    <2>6. WindowIsAnswered'
      BY <1>3 DEF LHGotAck, WindowIsAnswered
    <2>7. CountIsBounded'
      BY <1>1, <2>2, Sizes DEF CountIsBounded, IInv, Numbers
    <2> QED
      BY <2>2, <2>4, <2>5, <2>6, <2>7 DEF LHInv
  <1> QED
    BY <1>2, <1>3

LEMMA LHOtherStep ==
  ASSUME LHInductive, LHOther
  PROVE  LHInv' /\ Finite' /\ WindowIsAnswered' /\ CountIsBounded'
  <1>1. /\ IInv /\ Finite /\ AcksAreNumbered /\ LHTypeOK /\ OutstandingLeaks
        /\ WindowIsAnswered /\ CountIsBounded
    BY DEF LHInductive, LHInv
  <1>2. /\ Finite' /\ AcksAreNumbered'
        /\ stops' = 0 => stops = 0 /\ Balance' = Balance
    BY <1>1, OtherBalance DEF LHOther
  <1>3. LHTypeOK' /\ OutstandingLeaks'
    BY <1>1, <1>2 DEF LHOther, lhVars, LHTypeOK, OutstandingLeaks, Balance
  <1>4. UNCHANGED <<window, sequence_number>>
    BY DEF LHOther, PollReady, PollError, PollTimeout, WindowClosed, Throw,
           Acknowledge, ReceiverStops, ReceiverRestarts, Network, Arrive,
           ArriveAck, Lose, Tick, senderVars
  <1>5. WindowIsAnswered'
    BY <1>1, <1>4 DEF LHOther, lhVars, WindowIsAnswered, LH!WindowSize,
                      LH!PacketsLeaving
  <1>6. CountIsBounded'
    BY <1>1, <1>2, <1>4 DEF CountIsBounded
  <1> QED
    BY <1>2, <1>3, <1>5, <1>6 DEF LHInv

LEMMA LHStep ==
  ASSUME LHInductive, [LHNext]_<<vars, lhVars>>
  PROVE  LHInductive'
  <1>1. IInv'
    BY LHNextIsNext, NextInvariant DEF LHInductive, vars
  <1>2. CASE LHNext
    BY <1>1, <1>2, LHSendStep, LHGotAckStep, LHOtherStep
       DEF LHNext, LHInductive
  <1>3. CASE UNCHANGED <<vars, lhVars>>
    BY <1>1, <1>3
       DEF LHInductive, LHInv, LHTypeOK, AcksAreNumbered, OutstandingLeaks,
           Finite, InFlight, WindowIsAnswered, LH!WindowSize,
           LH!PacketsLeaving, CountIsBounded, Balance, vars, lhVars,
           senderVars, receiverVars
  <1> QED
    BY <1>2, <1>3

-----------------------------------------------------------------------------
(* The inductive invariant of the protocol under ExDLHController.          *)
THEOREM LHInductiveInvariance == LHSpec => []LHInductive
  <1> QED
    BY LHInitInvariant, LHStep, PTL DEF LHSpec

(* The controller's variables keep their types, and its estimate of the    *)
(* rate stays positive: the division by it never is by zero                *)
(* (exercised_lh.cc:26).                                                   *)
THEOREM LHInvariance == LHSpec => []LHInv
  <1>1. LHInductive => LHInv
    BY DEF LHInductive
  <1> QED
    BY <1>1, LHInductiveInvariance, PTL

(* outstanding_packets_ is, modulo its width, what is in flight with what  *)
(* was lost and without the duplicates (exercised_lh.cc:62 and 83).        *)
THEOREM CountLeaks == LHSpec => []OutstandingLeaks
  <1>1. LHInductive => OutstandingLeaks
    BY DEF LHInductive, LHInv
  <1> QED
    BY <1>1, LHInductiveInvariance, PTL

(* More losses than the largest window and the duplicates close the window *)
(* for good, unless the count has wrapped (exercised_lh.cc:32-35).         *)
THEOREM LossesCloseTheWindow ==
  ASSUME MaxSeq < UnsignedSize
  PROVE  LHSpec => []LossClosesTheWindow
  <1>1. LHInductive => LossClosesTheWindow
    <2> SUFFICES ASSUME LHInductive, stops = 0,
                        lost > duplicated + MaxWindowSize
                 PROVE  window = 0
      BY DEF LossClosesTheWindow
    <2>1. /\ TypeOK /\ Finite /\ LHTypeOK
          /\ Balance <= sequence_number /\ window = LH!WindowSize
          /\ outstanding_packets = Balance % UnsignedSize
      BY DEF LHInductive, LHInv, IInv, CountIsBounded, WindowIsAnswered,
             OutstandingLeaks, Balance
    <2>2. Balance \in 0..(UnsignedSize - 1) /\ Balance > MaxWindowSize
      <3>1. Numbers
        BY <2>1, Sizes
      <3>2. Balance \in Int /\ Balance > MaxWindowSize
        BY <3>1 DEF Numbers, Balance, InFlight
      <3>3. MaxSeq \in Nat
        BY DatagrumpAssumption
      <3> QED
        BY <2>1, <3>1, <3>2, <3>3 DEF Numbers
    <2>3. outstanding_packets = Balance
      <3>1. Balance + 0 * UnsignedSize = Balance
        BY <2>2
      <3> QED
        BY <2>1, <2>2, <3>1, ModUnique
    <2>4. LH!PacketsLeaving <= MaxWindowSize /\ LH!PacketsLeaving \in Int
      <3>1. PICK n \in Int : n = 2 * rtt_estimate * Scale + ewma_rate
        BY <2>1 DEF LHTypeOK
      <3>2. PICK d \in Int : d = 2 * ewma_rate /\ d > 0
        BY <2>1 DEF LHTypeOK
      <3>3. n \div d \in Int
        BY <3>2
      <3> QED
        BY <3>1, <3>2, <3>3 DEF LH!PacketsLeaving, LH!Smaller
    <2> QED
      BY <2>1, <2>2, <2>3, <2>4 DEF LH!WindowSize
  <1> QED
    BY <1>1, LHInductiveInvariance, PTL
=============================================================================

-------------------------- MODULE Datagrump_proofs --------------------------
(***************************************************************************)
(* Proofs, for every value of the constants, about the datagrump protocol  *)
(* on any network: Reordering, MaxLoss and MaxDup are arbitrary.           *)
(***************************************************************************)
EXTENDS Datagrump, TLAPS

USE WordSizeAssumption, DatagrumpAssumption

-----------------------------------------------------------------------------
(***************************************************************************)
(* Words and time stamps.                                                  *)
(***************************************************************************)

(* A time stamp is a word, also when the clock reads less than EPOCH.      *)
LEMMA StampIsWord ==
  ASSUME NEW at \in Clock, NEW e \in Clock
  PROVE  Stamp(at, e) \in Word
  BY DEF Clock, Stamp, MinusWord, Word, Unset

(* The difference of two stamps of one clock is the time between them,     *)
(* although each may have wrapped.                                         *)
LEMMA StampDifference ==
  ASSUME NEW a \in Clock, NEW b \in Clock, NEW e \in Clock, a <= b
  PROVE  MinusWord(Stamp(b, e), Stamp(a, e)) = b - a
  BY DEF Clock, Stamp, MinusWord, Word, Unset

(* A new data message is a message.                                        *)
LEMMA NewMessageType ==
  ASSUME NEW s \in Word, NEW t \in Word
  PROVE  LET m == SetSendTimestamp(NewMessage(s, PayloadLength), t)
         IN  /\ m \in Message
             /\ m.sequence_number = s
             /\ m.send_timestamp = t
  BY DEF SetSendTimestamp, NewMessage, Message, Word, Unset

(* The acknowledgment of a message echoes its number and its send stamp.   *)
LEMMA AcknowledgmentType ==
  ASSUME NEW m \in Message, NEW n \in Word, NEW r \in Word, NEW t \in Word
  PROVE  /\ Acknowledgment(m, n, r, t) \in Message
         /\ Acknowledgment(m, n, r, t).ack_sequence_number = m.sequence_number
         /\ Acknowledgment(m, n, r, t).ack_send_timestamp = m.send_timestamp
  <1> DEFINE b == TransformIntoAck(m, n, r)
  <1>1. /\ b \in Message
        /\ b.ack_sequence_number = m.sequence_number
        /\ b.ack_send_timestamp = m.send_timestamp
    <2>1. 0 \in Word
      BY DEF Word
    <2> QED
      BY <2>1 DEF TransformIntoAck, Message
  <1> HIDE DEF b
  <1>2. LET a == SetSendTimestamp(b, t)
        IN  /\ a \in Message
            /\ a.ack_sequence_number = b.ack_sequence_number
            /\ a.ack_send_timestamp = b.ack_send_timestamp
    BY <1>1 DEF SetSendTimestamp, Message
  <1> QED
    BY <1>1, <1>2 DEF Acknowledgment, b

(* Queues: the elements of Append and Tail.                                *)
LEMMA AppendElements ==
  ASSUME NEW S, NEW q \in Seq(S), NEW x \in S
  PROVE  /\ Append(q, x) \in Seq(S)
         /\ Len(Append(q, x)) = Len(q) + 1
         /\ \A i \in 1..Len(q) : Append(q, x)[i] = q[i]
         /\ Append(q, x)[Len(q) + 1] = x
         /\ Append(q, x) # <<>>
  OBVIOUS

LEMMA QueueElement ==
  ASSUME NEW S, NEW q \in Seq(S), NEW i \in 1..Len(q)
  PROVE  q[i] \in S
  OBVIOUS

LEMMA TailElements ==
  ASSUME NEW S, NEW q \in Seq(S), q # <<>>
  PROVE  /\ Tail(q) \in Seq(S)
         /\ Len(q) \in Nat /\ Len(q) >= 1
         /\ Len(Tail(q)) = Len(q) - 1
         /\ \A i \in 1..Len(Tail(q)) : Tail(q)[i] = q[i + 1]
         /\ Head(q) = q[1]
         /\ Head(q) \in S
  OBVIOUS

-----------------------------------------------------------------------------
(* The initial states satisfy the invariant.                               *)
LEMMA InitInvariant == Init => IInv
  <1> SUFFICES ASSUME Init PROVE IInv
    OBVIOUS
  <1> USE DEF Init
  <1>1. TypeOK
    <2>1. sample \in Sample
      BY DEF NoSample, Sample, Clock, Word, Unset
    <2>2. sentAt \in [0..(MaxSeq - 1) -> Clock]
      BY DEF Clock
    <2>3. senderSocket \in Seq(Received) /\ receiverSocket \in Seq(Received)
      OBVIOUS
    <2>4. /\ now \in Clock /\ sequence_number \in 0..MaxSeq
          /\ next_ack_expected \in Word /\ receiverNumber \in Word
      BY DEF Clock, Word, Unset
    <2>5. /\ data \subseteq Message /\ acks \subseteq Message
          /\ received \subseteq 0..(MaxSeq - 1)
      OBVIOUS
    <2>6. /\ lost \in 0..MaxLoss /\ duplicated \in 0..MaxDup
          /\ stops \in 0..MaxStops /\ timeouts \in Nat
      OBVIOUS
    <2>7. /\ inReady \in BOOLEAN /\ wrote \in BOOLEAN
          /\ sockErr \in BOOLEAN /\ receiverUp \in BOOLEAN
      OBVIOUS
    <2>8. epoch \in Clock \cup {NoEpoch} /\ receiverEpoch \in Clock \cup {NoEpoch}
      OBVIOUS
    <2>9. pc \in {"poll", "out", "in", "timeout", "exited", "aborted"}
      OBVIOUS
    <2> HIDE DEF Init
    <2> QED
      BY <2>1, <2>2, <2>3, <2>4, <2>5, <2>6, <2>7, <2>8, <2>9 DEF TypeOK, Init
  <1>2. PollStillHolds
    BY DEF PollStillHolds
  <1>3. SendHistory
    BY DEF SendHistory
  <1>4. MessagesAreGenuine
    BY DEF MessagesAreGenuine
  <1>5. /\ NoWindowUnderflow /\ RoundTripIsTrue
        /\ SenderOutlivesReceiver /\ StopsAreCounted
    BY DEF NoWindowUnderflow, RoundTripIsTrue, SenderOutlivesReceiver,
           StopsAreCounted
  <1> QED
    BY <1>1, <1>2, <1>3, <1>4, <1>5 DEF IInv

-----------------------------------------------------------------------------
(***************************************************************************)
(* Steps that move only the sender's thread: the state the messages, the   *)
(* window and the sample depend on stays as it is.                         *)
(***************************************************************************)
LEMMA ThreadStep ==
  ASSUME IInv,
         pc' \in {"poll", "out", "in", "timeout", "exited", "aborted"},
         inReady' \in BOOLEAN, wrote' \in BOOLEAN,
         UNCHANGED <<now, sequence_number, next_ack_expected, window, epoch,
                     senderSocket, sockErr, receiverUp, receiverVars,
                     receiverSocket, data, acks, lost, duplicated, historyVars>>,
         PollStillHolds',
         SenderOutlivesReceiver'
  PROVE  IInv'
  <1> USE DEF receiverVars, historyVars
  <1>1. TypeOK'
    BY DEF IInv, TypeOK
  <1>2. SendHistory'
    BY DEF IInv, SendHistory
  <1>3. MessagesAreGenuine'
    BY DEF IInv, MessagesAreGenuine
  <1>4. NoWindowUnderflow' /\ RoundTripIsTrue' /\ StopsAreCounted'
    BY DEF IInv, NoWindowUnderflow, RoundTripIsTrue, StopsAreCounted
  <1> QED
    BY <1>1, <1>2, <1>3, <1>4 DEF IInv

LEMMA PollReadyStep == IInv /\ PollReady => IInv'
  <1> SUFFICES ASSUME IInv, PollReady PROVE IInv'
    OBVIOUS
  <1>1. pc' \in {"out", "in"} /\ inReady' \in BOOLEAN /\ wrote' \in BOOLEAN
    BY DEF PollReady
  <1>2. PollStillHolds'
    BY DEF PollReady, PollStillHolds, OutReady, CanSend, WindowIsOpen,
           Outstanding
  <1>3. SenderOutlivesReceiver'
    BY <1>1 DEF SenderOutlivesReceiver
  <1> QED
    BY <1>1, <1>2, <1>3, ThreadStep DEF PollReady

LEMMA PollErrorStep == IInv /\ PollError => IInv'
  <1> SUFFICES ASSUME IInv, PollError PROVE IInv'
    OBVIOUS
  <1>1. PollStillHolds'
    BY DEF PollError, PollStillHolds
  <1>2. SenderOutlivesReceiver'
    BY DEF PollError, IInv, SenderOutlivesReceiver, StopsAreCounted,
           receiverVars
  <1> QED
    BY <1>1, <1>2, ThreadStep DEF PollError, IInv, TypeOK

LEMMA PollTimeoutStep == IInv /\ PollTimeout => IInv'
  <1> SUFFICES ASSUME IInv, PollTimeout PROVE IInv'
    OBVIOUS
  <1>1. PollStillHolds'
    BY DEF PollTimeout, PollStillHolds, CanSend
  <1>2. SenderOutlivesReceiver'
    BY DEF PollTimeout, SenderOutlivesReceiver
  <1> QED
    BY <1>1, <1>2, ThreadStep DEF PollTimeout, IInv, TypeOK

(* An exception is thrown only for a socket error.                         *)
LEMMA ThrowStep == IInv /\ sockErr /\ Throw => IInv'
  <1> SUFFICES ASSUME IInv, sockErr, Throw PROVE IInv'
    OBVIOUS
  <1>1. PollStillHolds'
    BY DEF Throw, PollStillHolds
  <1>2. SenderOutlivesReceiver'
    BY DEF Throw, IInv, SenderOutlivesReceiver, StopsAreCounted,
           receiverVars
  <1> QED
    BY <1>1, <1>2, ThreadStep DEF Throw, IInv, TypeOK

LEMMA WindowClosedStep == IInv /\ WindowClosed => IInv'
  <1> SUFFICES ASSUME IInv, WindowClosed PROVE IInv'
    OBVIOUS
  <1>1. wrote
    BY DEF IInv, PollStillHolds, WindowClosed
  <1>2. pc' \in {"in", "poll"}
    BY <1>1 DEF WindowClosed
  <1>3. PollStillHolds'
    BY <1>1 DEF IInv, PollStillHolds, WindowClosed
  <1>4. SenderOutlivesReceiver'
    BY <1>2 DEF SenderOutlivesReceiver
  <1> QED
    BY <1>1, <1>2, <1>3, <1>4, ThreadStep DEF WindowClosed, IInv, TypeOK

(***************************************************************************)
(* send_datagram: the new datagram is genuine, and no other message speaks *)
(* of the number it takes.                                                 *)
(***************************************************************************)
LEMMA SendStep ==
  ASSUME NEW on_timeout \in BOOLEAN,
         IInv, CanSend, SendDatagram(on_timeout),
         pc' \in {"poll", "out"}, wrote' \in BOOLEAN,
         pc' = "out" => pc = "out" /\ wrote'
  PROVE  IInv'
  <1> USE DEF receiverVars, historyVars, CanSend
  <1> DEFINE m == SetSendTimestamp(NewMessage(sequence_number, PayloadLength),
                                   Stamp(now, epoch'))
  <1>0. TypeOK /\ sequence_number \in Nat /\ sequence_number + 1 <= MaxSeq
    BY DEF IInv, TypeOK
  <1>1. /\ epoch' \in Clock
        /\ epoch # NoEpoch => epoch' = epoch
        /\ now' \in Clock /\ now <= now'
        /\ data' = data \cup {m}
    BY <1>0 DEF SendDatagram, FirstEpochs, TypeOK, Clock
  <1>2. /\ sequence_number' = sequence_number + 1
        /\ sentAt' = [sentAt EXCEPT ![sequence_number] = now]
        /\ timeouts' \in Nat
        /\ window' \in Windows
        /\ UNCHANGED <<next_ack_expected, inReady, senderSocket, sockErr,
                       receiverUp, receiverVars, receiverSocket, acks, lost,
                       duplicated, received, sample>>
    BY <1>0 DEF SendDatagram, TypeOK
  <1>3. /\ m \in Message
        /\ m.sequence_number = sequence_number
        /\ m.send_timestamp = Stamp(now, epoch')
    <2>1. sequence_number \in Word /\ now \in Clock
      BY <1>0 DEF TypeOK, Word, Unset
    <2>2. Stamp(now, epoch') \in Word
      BY <1>1, <2>1, StampIsWord
    <2> QED
      BY <2>1, <2>2, NewMessageType
  <1> HIDE DEF m
  <1>4. /\ sentAt' \in [0..(MaxSeq - 1) -> Clock]
        /\ sentAt'[sequence_number] = now
        /\ \A s \in 0..(sequence_number - 1) : sentAt'[s] = sentAt[s]
    BY <1>0, <1>2 DEF TypeOK
  <1>5. \A s \in 0..(sequence_number - 1) :
            Stamp(sentAt'[s], epoch') = Stamp(sentAt[s], epoch)
    BY <1>0, <1>1, <1>4 DEF IInv, SendHistory
  <1>6. TypeOK'
    <2>1. sequence_number' \in 0..MaxSeq /\ timeouts' \in Nat
      BY <1>0, <1>2
    <2>2. data' \subseteq Message
      BY <1>0, <1>1, <1>3 DEF TypeOK
    <2> QED
      BY <1>0, <1>1, <1>2, <1>4, <2>1, <2>2 DEF TypeOK
  <1>7. PollStillHolds'
    BY <1>2 DEF IInv, PollStillHolds
  <1>8. SendHistory'
    <2>1. sequence_number' > 0 => epoch' # NoEpoch
      BY <1>1 DEF Clock, NoEpoch
    <2>2. ASSUME NEW s \in 0..(sequence_number' - 1)
          PROVE  sentAt'[s] <= now'
      BY <1>0, <1>1, <1>2, <1>4 DEF IInv, SendHistory, TypeOK, Clock
    <2>3. received' \subseteq 0..(sequence_number' - 1)
      BY <1>0, <1>2 DEF IInv, SendHistory
    <2> QED
      BY <2>1, <2>2, <2>3 DEF SendHistory
  <1>9. MessagesAreGenuine'
    <2>1. ASSUME NEW d \in Message, Genuine(d, sequence_number, sentAt, epoch)
          PROVE  Genuine(d, sequence_number', sentAt', epoch')
      BY <1>0, <1>2, <1>5, <2>1 DEF Genuine, Message, Word, Unset
    <2>2. ASSUME NEW a, Echo(a, received, sentAt, epoch)
          PROVE  /\ Echo(a, received', sentAt', epoch')
                 /\ sentAt'[a.ack_sequence_number]
                       = sentAt[a.ack_sequence_number]
      BY <1>2, <1>4, <1>5, <2>2 DEF IInv, SendHistory, Echo
    <2>3. Genuine(m, sequence_number', sentAt', epoch')
      BY <1>0, <1>2, <1>3, <1>4 DEF Genuine
    <2>4. \A d \in data' : Genuine(d, sequence_number', sentAt', epoch')
      BY <1>0, <1>1, <2>1, <2>3 DEF IInv, MessagesAreGenuine, TypeOK
    <2>5. \A i \in 1..Len(receiverSocket') :
              Genuine(receiverSocket'[i].message, sequence_number', sentAt',
                      epoch')
      <3> SUFFICES ASSUME NEW i \in 1..Len(receiverSocket)
                   PROVE  Genuine(receiverSocket[i].message, sequence_number',
                                  sentAt', epoch')
        BY <1>2
      <3>1. receiverSocket[i].message \in Message
        <4>1. receiverSocket \in Seq(Received)
          BY <1>0 DEF TypeOK
        <4>2. receiverSocket[i] \in Received
          BY <4>1, QueueElement
        <4> QED
          BY <4>2 DEF Received
      <3>2. Genuine(receiverSocket[i].message, sequence_number, sentAt, epoch)
        BY DEF IInv, MessagesAreGenuine
      <3> QED
        BY <3>1, <3>2, <2>1
    <2>6. \A a \in acks' : Echo(a, received', sentAt', epoch')
      BY <1>2, <2>2 DEF IInv, MessagesAreGenuine
    <2>7. \A i \in 1..Len(senderSocket') :
             EchoAfter(senderSocket'[i], received', sentAt', epoch')
      BY <1>2, <2>2 DEF IInv, MessagesAreGenuine, EchoAfter
    <2> QED
      BY <2>4, <2>5, <2>6, <2>7 DEF MessagesAreGenuine
  <1>10. NoWindowUnderflow'
    BY <1>0, <1>2 DEF IInv, NoWindowUnderflow, TypeOK, Word, Unset
  <1>11. RoundTripIsTrue'
    BY <1>0, <1>2, <1>4, <1>5
       DEF IInv, RoundTripIsTrue, TypeOK, Sample, Word, Unset
  <1>12. SenderOutlivesReceiver' /\ StopsAreCounted'
    BY <1>2 DEF IInv, SenderOutlivesReceiver, StopsAreCounted
  <1> QED
    BY <1>6, <1>7, <1>8, <1>9, <1>10, <1>11, <1>12 DEF IInv

LEMMA CloseWindowStep == IInv /\ CloseWindow => IInv'
  <1> SUFFICES ASSUME IInv, CloseWindow PROVE IInv'
    OBVIOUS
  <1>1. CASE sockErr
    BY <1>1, ThrowStep DEF CloseWindow
  <1>2. CASE ~sockErr
    BY <1>2, SendStep DEF CloseWindow
  <1> QED
    BY <1>1, <1>2

LEMMA SendOnTimeoutStep == IInv /\ SendOnTimeout => IInv'
  <1> SUFFICES ASSUME IInv, SendOnTimeout PROVE IInv'
    OBVIOUS
  <1>1. CASE sockErr
    BY <1>1, ThrowStep DEF SendOnTimeout
  <1>2. CASE ~sockErr
    <2>1. CanSend /\ wrote \in BOOLEAN
      BY DEF SendOnTimeout, IInv, PollStillHolds, TypeOK
    <2> QED
      BY <1>2, <2>1, SendStep DEF SendOnTimeout
  <1> QED
    BY <1>1, <1>2

(***************************************************************************)
(* got_ack: the ack at the head of the socket's queue echoes a datagram    *)
(* that was sent, so the counter stays at or below sequence_number_.       *)
(***************************************************************************)
LEMMA GotAckStep == IInv /\ GotAck => IInv'
  <1> SUFFICES ASSUME IInv, GotAck PROVE IInv'
    OBVIOUS
  <1> USE DEF receiverVars
  <1> DEFINE recd == Head(senderSocket)
             ack  == recd.message
  <1>0. TypeOK /\ sequence_number \in Nat /\ sequence_number <= MaxSeq
    BY DEF IInv, TypeOK
  <1>1. /\ senderSocket # <<>>
        /\ recd = senderSocket[1] /\ recd \in Received
        /\ Tail(senderSocket) \in Seq(Received)
        /\ Len(senderSocket) \in Nat /\ Len(senderSocket) >= 1
        /\ Len(Tail(senderSocket)) = Len(senderSocket) - 1
        /\ \A i \in 1..Len(Tail(senderSocket)) :
              Tail(senderSocket)[i] = senderSocket[i + 1]
    BY <1>0, TailElements DEF IInv, PollStillHolds, GotAck, TypeOK
  <1>2. /\ ack \in Message /\ recd.at \in Clock
        /\ EchoAfter(recd, received, sentAt, epoch)
    BY <1>1 DEF IInv, MessagesAreGenuine, Received
  <1>3. /\ ack.ack_sequence_number \in 0..(sequence_number - 1)
        /\ ack.ack_send_timestamp
               = Stamp(sentAt[ack.ack_sequence_number], epoch)
        /\ sentAt[ack.ack_sequence_number] <= recd.at
    BY <1>2 DEF EchoAfter, Echo, IInv, SendHistory
  <1> HIDE DEF ack, recd
  <1>4. IsAck(ack)
    BY <1>0, <1>3 DEF IsAck, Unset
  <1>5. CASE sockErr
    BY <1>5, ThrowStep DEF GotAck
  <1>6. CASE ~sockErr
    <2>1. /\ next_ack_expected' = NextAckExpected(ack)
          /\ window' \in Windows
          /\ sample' =
                [ack_sequence_number    |-> ack.ack_sequence_number,
                 send_timestamp_acked   |-> ack.ack_send_timestamp,
                 recv_timestamp_acked   |-> ack.ack_recv_timestamp,
                 timestamp_ack_received |-> Stamp(recd.at, epoch),
                 at                     |-> recd.at]
          /\ senderSocket' = Tail(senderSocket)
          /\ pc' = "poll"
          /\ UNCHANGED <<now, sequence_number, inReady, wrote, epoch, sockErr,
                         receiverUp, receiverVars, receiverSocket, data, acks,
                         lost, duplicated, sentAt, received, timeouts>>
      BY <1>4, <1>6 DEF GotAck, ack, recd
    <2>2. /\ epoch \in Clock
          /\ sentAt[ack.ack_sequence_number] \in Clock
      BY <1>0, <1>3 DEF IInv, SendHistory, TypeOK
    <2>3. /\ next_ack_expected' \in Word
          /\ next_ack_expected' <= sequence_number
      BY <1>0, <1>3, <2>1
         DEF NextAckExpected, PlusWord, IInv, NoWindowUnderflow, TypeOK, Word,
             Unset
    <2>4. sample' \in Sample
      <3>1. ack.ack_sequence_number \in Word /\ ack.ack_send_timestamp \in Word
            /\ ack.ack_recv_timestamp \in Word
        BY <1>2 DEF Message
      <3>2. Stamp(recd.at, epoch) \in Word
        BY <1>2, <2>2, StampIsWord
      <3> QED
        BY <1>2, <2>1, <3>1, <3>2 DEF Sample
    <2>5. TypeOK'
      BY <1>0, <1>1, <2>1, <2>3, <2>4 DEF TypeOK
    <2>6. PollStillHolds'
      BY <2>1 DEF PollStillHolds
    <2>7. SendHistory'
      BY <2>1 DEF IInv, SendHistory
    <2>8. MessagesAreGenuine'
      <3>1. \A i \in 1..Len(senderSocket') :
                EchoAfter(senderSocket'[i], received, sentAt, epoch)
        BY <1>1, <2>1 DEF IInv, MessagesAreGenuine
      <3> QED
        BY <2>1, <3>1 DEF IInv, MessagesAreGenuine
    <2>9. NoWindowUnderflow'
      BY <2>1, <2>3 DEF NoWindowUnderflow
    <2>10. RoundTripIsTrue'
      <3>1. MinusWord(Stamp(recd.at, epoch), ack.ack_send_timestamp)
               = recd.at - sentAt[ack.ack_sequence_number]
        BY <1>2, <1>3, <2>2, StampDifference
      <3>2. ack.ack_sequence_number < sequence_number
        BY <1>0, <1>3
      <3> QED
        BY <1>3, <2>1, <3>1, <3>2 DEF RoundTripIsTrue
    <2>11. SenderOutlivesReceiver' /\ StopsAreCounted'
      BY <2>1, <1>6 DEF IInv, SenderOutlivesReceiver, StopsAreCounted
    <2> QED
      BY <2>5, <2>6, <2>7, <2>8, <2>9, <2>10, <2>11 DEF IInv
  <1> QED
    BY <1>5, <1>6

-----------------------------------------------------------------------------
(***************************************************************************)
(* The receiver: its ack echoes the datagram it read.                      *)
(***************************************************************************)
LEMMA AcknowledgeStep == IInv /\ Acknowledge => IInv'
  <1> SUFFICES ASSUME IInv, Acknowledge PROVE IInv'
    OBVIOUS
  <1> USE DEF senderVars
  <1> DEFINE recd == Head(receiverSocket)
             e    == IF receiverEpoch = NoEpoch THEN now ELSE receiverEpoch
             ack  == Acknowledgment(recd.message, receiverNumber,
                                    Stamp(recd.at, e), Stamp(now, e))
  <1>0. TypeOK /\ sequence_number \in Nat /\ sequence_number <= MaxSeq
    BY DEF IInv, TypeOK
  <1>1. /\ recd = receiverSocket[1] /\ recd \in Received
        /\ Tail(receiverSocket) \in Seq(Received)
        /\ Len(receiverSocket) \in Nat /\ Len(receiverSocket) >= 1
        /\ Len(Tail(receiverSocket)) = Len(receiverSocket) - 1
        /\ \A i \in 1..Len(Tail(receiverSocket)) :
              Tail(receiverSocket)[i] = receiverSocket[i + 1]
    BY <1>0, TailElements DEF Acknowledge, TypeOK
  <1>2. /\ recd.message \in Message /\ recd.at \in Clock
        /\ Genuine(recd.message, sequence_number, sentAt, epoch)
    BY <1>1 DEF IInv, MessagesAreGenuine, Received
  <1>3. recd.message.sequence_number \in 0..(sequence_number - 1)
    BY <1>0, <1>2 DEF Genuine, Message, Word, Unset
  <1>4. e \in Clock /\ now \in Clock
    BY <1>0 DEF TypeOK
  <1>5. /\ receiverEpoch' = e
        /\ acks' = acks \cup {ack}
        /\ received' = received \cup {recd.message.sequence_number}
        /\ receiverNumber' = PlusWord(receiverNumber, 1)
        /\ receiverSocket' = Tail(receiverSocket)
        /\ UNCHANGED <<now, senderVars, senderSocket, sockErr, receiverUp, stops,
                       data, lost, duplicated, sentAt, timeouts, sample>>
    BY DEF Acknowledge
  <1> HIDE DEF recd, e
  <1>6. /\ ack \in Message
        /\ ack.ack_sequence_number = recd.message.sequence_number
        /\ ack.ack_send_timestamp = recd.message.send_timestamp
    <2>1. receiverNumber \in Word
      BY <1>0 DEF TypeOK
    <2>2. Stamp(recd.at, e) \in Word /\ Stamp(now, e) \in Word
      BY <1>2, <1>4, StampIsWord
    <2> DEFINE r == Stamp(recd.at, e)
               t == Stamp(now, e)
               d == recd.message
    <2>3. r \in Word /\ t \in Word /\ d \in Message
      BY <1>2, <2>2
    <2> HIDE DEF r, t, d
    <2>4. /\ Acknowledgment(d, receiverNumber, r, t) \in Message
          /\ Acknowledgment(d, receiverNumber, r, t).ack_sequence_number
                = d.sequence_number
          /\ Acknowledgment(d, receiverNumber, r, t).ack_send_timestamp
                = d.send_timestamp
      BY ONLY <2>1, <2>3, AcknowledgmentType
    <2> QED
      BY <2>4 DEF r, t, d
  <1> HIDE DEF ack
  <1>7. TypeOK'
    <2>1. receiverNumber' \in Word
      <3>1. receiverNumber \in Word
        BY <1>0 DEF TypeOK
      <3>2. PlusWord(receiverNumber, 1) \in Word
        BY <3>1 DEF PlusWord, Word
      <3> QED
        BY <1>5, <3>2
    <2>2. acks' \subseteq Message
      BY <1>0, <1>5, <1>6 DEF TypeOK
    <2>3. received' \subseteq 0..(MaxSeq - 1)
      <3>1. recd.message.sequence_number \in 0..(MaxSeq - 1)
        BY <1>0, <1>3
      <3>2. received \subseteq 0..(MaxSeq - 1)
        BY <1>0 DEF TypeOK
      <3> QED
        BY <1>5, <3>1, <3>2
    <2> QED
      BY <1>0, <1>1, <1>4, <1>5, <2>1, <2>2, <2>3 DEF TypeOK
  <1>8. PollStillHolds'
    BY <1>5 DEF IInv, PollStillHolds, CanSend, WindowIsOpen, Outstanding
  <1>9. SendHistory'
    BY <1>3, <1>5 DEF IInv, SendHistory
  <1>10. MessagesAreGenuine'
    <2>1. Echo(ack, received', sentAt, epoch)
      BY <1>2, <1>5, <1>6 DEF Genuine, Echo
    <2>2. \A a \in acks' : Echo(a, received', sentAt, epoch)
      BY <1>5, <2>1 DEF IInv, MessagesAreGenuine, Echo
    <2>3. \A i \in 1..Len(receiverSocket') :
             Genuine(receiverSocket'[i].message, sequence_number, sentAt, epoch)
      BY <1>1, <1>5 DEF IInv, MessagesAreGenuine
    <2>4. \A i \in 1..Len(senderSocket) :
             EchoAfter(senderSocket[i], received', sentAt, epoch)
      BY <1>5 DEF IInv, MessagesAreGenuine, EchoAfter, Echo
    <2> QED
      BY <1>5, <2>2, <2>3, <2>4 DEF IInv, MessagesAreGenuine
  <1>11. NoWindowUnderflow' /\ RoundTripIsTrue'
    BY <1>5 DEF IInv, NoWindowUnderflow, RoundTripIsTrue
  <1>12. SenderOutlivesReceiver' /\ StopsAreCounted'
    BY <1>5 DEF IInv, SenderOutlivesReceiver, StopsAreCounted
  <1> QED
    BY <1>7, <1>8, <1>9, <1>10, <1>11, <1>12 DEF IInv

LEMMA ReceiverStopsStep == IInv /\ ReceiverStops => IInv'
  <1> SUFFICES ASSUME IInv, ReceiverStops PROVE IInv'
    OBVIOUS
  <1> USE DEF ReceiverStops, senderVars, receiverVars, historyVars
  <1>1. TypeOK'
    <2>1. receiverSocket' \in Seq(Received)
      OBVIOUS
    <2>2. stops' \in 0..MaxStops
      BY DEF IInv, TypeOK
    <2> QED
      BY <2>1, <2>2 DEF IInv, TypeOK
  <1>2. PollStillHolds'
    BY DEF IInv, PollStillHolds, CanSend, WindowIsOpen, Outstanding
  <1>3. SendHistory'
    BY DEF IInv, SendHistory
  <1>4. MessagesAreGenuine'
    BY DEF IInv, MessagesAreGenuine
  <1>5. NoWindowUnderflow' /\ RoundTripIsTrue'
    BY DEF IInv, NoWindowUnderflow, RoundTripIsTrue
  <1>6. SenderOutlivesReceiver' /\ StopsAreCounted'
    BY DEF IInv, SenderOutlivesReceiver, StopsAreCounted, TypeOK
  <1> QED
    BY <1>1, <1>2, <1>3, <1>4, <1>5, <1>6 DEF IInv

(* A receiver that is started again knows nothing of the sender's past.    *)
LEMMA ReceiverRestartsStep == IInv /\ ReceiverRestarts => IInv'
  <1> SUFFICES ASSUME IInv, ReceiverRestarts PROVE IInv'
    OBVIOUS
  <1> USE DEF ReceiverRestarts, senderVars, receiverVars, historyVars
  <1>1. TypeOK'
    <2>1. receiverNumber' \in Word
      BY DEF Word, Unset
    <2>2. receiverEpoch' \in Clock \cup {NoEpoch}
      OBVIOUS
    <2> QED
      BY <2>1, <2>2 DEF IInv, TypeOK
  <1>2. PollStillHolds'
    BY DEF IInv, PollStillHolds, CanSend, WindowIsOpen, Outstanding
  <1>3. SendHistory'
    BY DEF IInv, SendHistory
  <1>4. MessagesAreGenuine'
    BY DEF IInv, MessagesAreGenuine
  <1>5. NoWindowUnderflow' /\ RoundTripIsTrue'
    BY DEF IInv, NoWindowUnderflow, RoundTripIsTrue
  <1>6. SenderOutlivesReceiver' /\ StopsAreCounted'
    BY DEF IInv, SenderOutlivesReceiver, StopsAreCounted
  <1> QED
    BY <1>1, <1>2, <1>3, <1>4, <1>5, <1>6 DEF IInv

-----------------------------------------------------------------------------
(***************************************************************************)
(* The network moves genuine messages about, whatever order it chooses.    *)
(***************************************************************************)
LEMMA ArriveStep ==
  ASSUME IInv, NEW m \in data, Arrive(m)
  PROVE  IInv'
  <1> USE DEF senderVars, receiverVars, historyVars
  <1>0. TypeOK /\ m \in Message /\ now \in Clock
    BY DEF IInv, TypeOK
  <1> DEFINE r == [message |-> m, at |-> now]
  <1>1. r \in Received
    BY <1>0 DEF Received
  <1>2. /\ data' \subseteq data
        /\ duplicated' \in 0..MaxDup
        /\ UNCHANGED <<now, senderVars, senderSocket, receiverUp, receiverVars,
                       acks, lost, historyVars>>
    <2>1. PICK again \in Duplicates :
              /\ data' = IF again THEN data ELSE data \ {m}
              /\ duplicated' = IF again THEN duplicated + 1 ELSE duplicated
      BY DEF Arrive
    <2>2. again => duplicated < MaxDup
      BY <2>1 DEF Duplicates
    <2>3. duplicated \in 0..MaxDup
      BY <1>0 DEF TypeOK
    <2>4. duplicated' \in 0..MaxDup
      <3>1. CASE again
        BY <2>1, <2>2, <2>3, <3>1
      <3>2. CASE ~again
        BY <2>1, <2>3, <3>2
      <3> QED
        BY <3>1, <3>2
    <2> QED
      BY <2>1, <2>4 DEF Arrive
  <1>3. \/ receiverSocket' = Append(receiverSocket, r) /\ sockErr' = sockErr
        \/ receiverSocket' = receiverSocket /\ sockErr' /\ ~receiverUp
    BY DEF Arrive
  <1>4. /\ receiverSocket' \in Seq(Received)
        /\ \A i \in 1..Len(receiverSocket') :
             \/ receiverSocket'[i].message = m
             \/ /\ i \in 1..Len(receiverSocket)
                /\ receiverSocket'[i] = receiverSocket[i]
    <2>1. CASE receiverSocket' = Append(receiverSocket, r)
      <3>1. r.message = m
        OBVIOUS
      <3> HIDE DEF r
      <3>2. receiverSocket \in Seq(Received) /\ Len(receiverSocket) \in Nat
        BY <1>0 DEF TypeOK
      <3> QED
        BY <1>1, <2>1, <3>1, <3>2, AppendElements
    <2>2. CASE receiverSocket' = receiverSocket
      BY <1>0, <2>2 DEF TypeOK
    <2> QED
      BY <1>3, <2>1, <2>2
  <1> HIDE DEF r
  <1>5. TypeOK'
    <2>1. sockErr' \in BOOLEAN
      BY <1>0 DEF Arrive, TypeOK
    <2>2. data' \subseteq Message
      BY <1>0, <1>2 DEF TypeOK
    <2> QED
      BY <1>0, <1>2, <1>4, <2>1, <2>2 DEF TypeOK
  <1>6. PollStillHolds'
    BY <1>2 DEF IInv, PollStillHolds, CanSend, WindowIsOpen, Outstanding
  <1>7. SendHistory'
    BY <1>2 DEF IInv, SendHistory
  <1>8. MessagesAreGenuine'
    <2>1. Genuine(m, sequence_number, sentAt, epoch)
      BY DEF IInv, MessagesAreGenuine
    <2>2. \A i \in 1..Len(receiverSocket') :
             Genuine(receiverSocket'[i].message, sequence_number, sentAt, epoch)
      BY <1>4, <2>1 DEF IInv, MessagesAreGenuine
    <2> QED
      BY <1>2, <2>2 DEF IInv, MessagesAreGenuine
  <1>9. NoWindowUnderflow' /\ RoundTripIsTrue'
    BY <1>2 DEF IInv, NoWindowUnderflow, RoundTripIsTrue
  <1>10. SenderOutlivesReceiver' /\ StopsAreCounted'
    BY <1>2, <1>3 DEF IInv, SenderOutlivesReceiver, StopsAreCounted
  <1> QED
    BY <1>5, <1>6, <1>7, <1>8, <1>9, <1>10 DEF IInv

LEMMA ArriveAckStep ==
  ASSUME IInv, NEW m \in acks, ArriveAck(m)
  PROVE  IInv'
  <1> USE DEF senderVars, receiverVars, historyVars
  <1>0. TypeOK /\ m \in Message /\ now \in Clock
    BY DEF IInv, TypeOK
  <1> DEFINE r == [message |-> m, at |-> now]
  <1>1. r \in Received /\ r.message = m /\ r.at = now
    BY <1>0 DEF Received
  <1>2. /\ acks' \subseteq acks
        /\ duplicated' \in 0..MaxDup
        /\ senderSocket' = Append(senderSocket, r)
        /\ UNCHANGED <<now, senderVars, sockErr, receiverUp, receiverVars,
                       receiverSocket, data, lost, historyVars>>
    <2>1. PICK again \in Duplicates :
              /\ acks' = IF again THEN acks ELSE acks \ {m}
              /\ duplicated' = IF again THEN duplicated + 1 ELSE duplicated
      BY DEF ArriveAck
    <2>2. again => duplicated < MaxDup
      BY <2>1 DEF Duplicates
    <2>3. duplicated \in 0..MaxDup
      BY <1>0 DEF TypeOK
    <2>4. duplicated' \in 0..MaxDup
      <3>1. CASE again
        BY <2>1, <2>2, <2>3, <3>1
      <3>2. CASE ~again
        BY <2>1, <2>3, <3>2
      <3> QED
        BY <3>1, <3>2
    <2> QED
      BY <2>1, <2>4 DEF ArriveAck
  <1> HIDE DEF r
  <1>3. /\ senderSocket' \in Seq(Received)
        /\ senderSocket' # <<>>
        /\ Len(senderSocket) \in Nat
        /\ Len(senderSocket') = Len(senderSocket) + 1
        /\ senderSocket'[Len(senderSocket) + 1] = r
        /\ \A i \in 1..Len(senderSocket) : senderSocket'[i] = senderSocket[i]
    BY <1>0, <1>1, <1>2, AppendElements DEF TypeOK
  <1>4. TypeOK'
    <2>1. acks' \subseteq Message
      BY <1>0, <1>2 DEF TypeOK
    <2> QED
      BY <1>0, <1>2, <1>3, <2>1 DEF TypeOK
  <1>5. PollStillHolds'
    BY <1>2, <1>3 DEF IInv, PollStillHolds, CanSend, WindowIsOpen, Outstanding
  <1>6. SendHistory'
    BY <1>2 DEF IInv, SendHistory
  <1>7. MessagesAreGenuine'
    <2>1. EchoAfter(r, received, sentAt, epoch)
      BY <1>1 DEF IInv, MessagesAreGenuine, SendHistory, EchoAfter, Echo
    <2>2. \A i \in 1..Len(senderSocket') :
             EchoAfter(senderSocket'[i], received, sentAt, epoch)
      BY <1>3, <2>1 DEF IInv, MessagesAreGenuine
    <2> QED
      BY <1>2, <2>2 DEF IInv, MessagesAreGenuine
  <1>8. NoWindowUnderflow' /\ RoundTripIsTrue'
    BY <1>2 DEF IInv, NoWindowUnderflow, RoundTripIsTrue
  <1>9. SenderOutlivesReceiver' /\ StopsAreCounted'
    BY <1>2 DEF IInv, SenderOutlivesReceiver, StopsAreCounted
  <1> QED
    BY <1>4, <1>5, <1>6, <1>7, <1>8, <1>9 DEF IInv

LEMMA LoseStep == IInv /\ Lose => IInv'
  <1> SUFFICES ASSUME IInv, Lose PROVE IInv'
    OBVIOUS
  <1> USE DEF senderVars, receiverVars, historyVars
  <1>1. /\ data' \subseteq data /\ acks' \subseteq acks
        /\ lost' \in 0..MaxLoss
        /\ UNCHANGED <<now, senderVars, senderSocket, sockErr, receiverUp,
                       receiverVars, receiverSocket, duplicated, historyVars>>
    BY DEF Lose, IInv, TypeOK
  <1>2. TypeOK'
    <2>1. data' \subseteq Message /\ acks' \subseteq Message
      BY <1>1 DEF IInv, TypeOK
    <2> QED
      BY <1>1, <2>1 DEF IInv, TypeOK
  <1>3. PollStillHolds'
    BY <1>1 DEF IInv, PollStillHolds, CanSend, WindowIsOpen, Outstanding
  <1>4. SendHistory'
    BY <1>1 DEF IInv, SendHistory
  <1>5. MessagesAreGenuine'
    BY <1>1 DEF IInv, MessagesAreGenuine
  <1>6. NoWindowUnderflow' /\ RoundTripIsTrue'
    BY <1>1 DEF IInv, NoWindowUnderflow, RoundTripIsTrue
  <1>7. SenderOutlivesReceiver' /\ StopsAreCounted'
    BY <1>1 DEF IInv, SenderOutlivesReceiver, StopsAreCounted
  <1> QED
    BY <1>2, <1>3, <1>4, <1>5, <1>6, <1>7 DEF IInv

LEMMA TickStep == IInv /\ Tick => IInv'
  <1> SUFFICES ASSUME IInv, Tick PROVE IInv'
    OBVIOUS
  <1> USE DEF Tick, senderVars, receiverVars, historyVars
  <1>1. now' \in Clock /\ now <= now' /\ now \in Nat
    BY DEF IInv, TypeOK, Clock
  <1>2. TypeOK'
    BY <1>1 DEF IInv, TypeOK
  <1>3. PollStillHolds'
    BY DEF IInv, PollStillHolds, CanSend, WindowIsOpen, Outstanding
  <1>4. SendHistory'
    <2>1. ASSUME NEW s \in 0..(sequence_number - 1) PROVE sentAt[s] <= now'
      BY <1>1 DEF IInv, SendHistory, TypeOK, Clock
    <2> QED
      BY <2>1 DEF IInv, SendHistory
  <1>5. MessagesAreGenuine'
    BY DEF IInv, MessagesAreGenuine
  <1>6. NoWindowUnderflow' /\ RoundTripIsTrue'
    BY DEF IInv, NoWindowUnderflow, RoundTripIsTrue
  <1>7. SenderOutlivesReceiver' /\ StopsAreCounted'
    BY DEF IInv, SenderOutlivesReceiver, StopsAreCounted
  <1> QED
    BY <1>2, <1>3, <1>4, <1>5, <1>6, <1>7 DEF IInv

-----------------------------------------------------------------------------
(* Every step of the protocol keeps the invariant.                         *)
LEMMA NextInvariant == IInv /\ [Next]_vars => IInv'
  <1> SUFFICES ASSUME IInv, [Next]_vars PROVE IInv'
    OBVIOUS
  <1>1. CASE Sender
    BY <1>1, PollReadyStep, PollErrorStep, PollTimeoutStep, CloseWindowStep,
       WindowClosedStep, SendOnTimeoutStep, GotAckStep DEF Sender
  <1>2. CASE Acknowledge
    BY <1>2, AcknowledgeStep
  <1>3. CASE ReceiverStops \/ ReceiverRestarts
    BY <1>3, ReceiverStopsStep, ReceiverRestartsStep
  <1>4. CASE Network
    BY <1>4, ArriveStep, ArriveAckStep DEF Network
  <1>5. CASE Lose
    BY <1>5, LoseStep
  <1>6. CASE Tick
    BY <1>6, TickStep
  <1>7. CASE UNCHANGED vars
    <2>1. PollStillHolds' /\ SenderOutlivesReceiver'
      BY <1>7 DEF vars, senderVars, receiverVars, IInv, PollStillHolds,
                  CanSend, WindowIsOpen, Outstanding, SenderOutlivesReceiver
    <2>2. /\ pc' \in {"poll", "out", "in", "timeout", "exited", "aborted"}
          /\ inReady' \in BOOLEAN /\ wrote' \in BOOLEAN
      BY <1>7 DEF vars, senderVars, IInv, TypeOK
    <2> QED
      BY <1>7, <2>1, <2>2, ThreadStep DEF vars, senderVars
  <1> QED
    BY <1>1, <1>2, <1>3, <1>4, <1>5, <1>6, <1>7 DEF Next

(* The inductive invariant holds in every reachable state.                 *)
THEOREM Invariance == Spec => []IInv
  <1>1. Init => IInv
    BY InitInvariant
  <1>2. IInv /\ [Next]_vars => IInv'
    BY NextInvariant
  <1> QED
    BY <1>1, <1>2, PTL DEF Spec

(* Type correctness.                                                       *)
THEOREM TypeCorrect == Spec => []TypeOK
  <1>1. IInv => TypeOK
    BY DEF IInv
  <1> QED
    BY <1>1, Invariance, PTL

(* sequence_number_ - next_ack_expected_ in window_is_open never wraps     *)
(* (sender.cc:126), however the network loses, duplicates and reorders.    *)
THEOREM WindowNeverUnderflows == Spec => []NoWindowUnderflow
  <1>1. IInv => NoWindowUnderflow
    BY DEF IInv
  <1> QED
    BY <1>1, Invariance, PTL

(* The round-trip time a controller computes is the true one.              *)
THEOREM RoundTripTime == Spec => []RoundTripIsTrue
  <1>1. IInv => RoundTripIsTrue
    BY DEF IInv
  <1> QED
    BY <1>1, Invariance, PTL

(* Neither the busy-wait check of the poller nor the is_ack check of the   *)
(* sender ever fires: the sender stops only after the receiver has.        *)
THEOREM SenderSurvives == Spec => []SenderOutlivesReceiver
  <1>1. IInv => SenderOutlivesReceiver
    BY DEF IInv
  <1> QED
    BY <1>1, Invariance, PTL

-----------------------------------------------------------------------------
(***************************************************************************)
(* What one step does to the counters and the receiver's set: the step of  *)
(* the abstract specification it implements, if any.                       *)
(***************************************************************************)
LEMMA StepSimulation ==
  ASSUME IInv, [Next]_vars
  PROVE  [Delivery!Next]_(Delivery!vars)
  <1> DEFINE Stutter == UNCHANGED <<sequence_number, received,
                                    next_ack_expected>>
  <1>0. /\ TypeOK /\ sequence_number \in Nat /\ sequence_number <= MaxSeq
        /\ next_ack_expected \in Nat
    BY DEF IInv, TypeOK, Word, Unset
  <1> USE DEF Delivery!vars, Delivery!Next
  <1>1. CASE PollReady \/ PollError \/ PollTimeout \/ WindowClosed \/ Throw
    <2>1. Stutter
      BY <1>1 DEF PollReady, PollError, PollTimeout, WindowClosed, Throw,
                  historyVars
    <2> QED
      BY <2>1
  <1>2. CASE CloseWindow \/ SendOnTimeout
    <2>1. CASE Throw
      BY <2>1, <1>1
    <2>2. ASSUME NEW on_timeout \in BOOLEAN, SendDatagram(on_timeout)
          PROVE  Delivery!Transmit
      BY <2>2 DEF SendDatagram, Delivery!Transmit
    <2> QED
      BY <1>2, <2>1, <2>2 DEF CloseWindow, SendOnTimeout
  <1>3. CASE GotAck
    <2>1. CASE Throw
      BY <2>1, <1>1
    <2>2. CASE ~Throw
      <3> DEFINE ack == Head(senderSocket).message
                 s   == ack.ack_sequence_number
      <3>1. /\ next_ack_expected' = NextAckExpected(ack)
            /\ UNCHANGED <<sequence_number, received>>
        BY <1>3, <2>2 DEF GotAck
      <3>2. s \in received /\ s \in 0..(sequence_number - 1)
        <4>1. senderSocket # <<>> /\ senderSocket \in Seq(Received)
          BY <1>0, <1>3 DEF IInv, PollStillHolds, GotAck, TypeOK
        <4>2. Head(senderSocket) = senderSocket[1] /\ Len(senderSocket) \in Nat
              /\ Len(senderSocket) >= 1
          BY <4>1, TailElements
        <4>3. EchoAfter(senderSocket[1], received, sentAt, epoch)
          BY <4>2 DEF IInv, MessagesAreGenuine
        <4>4. s \in received
          BY <4>2, <4>3 DEF EchoAfter, Echo
        <4> QED
          BY <4>4 DEF IInv, SendHistory
      <3> HIDE DEF ack
      <3>3. PlusWord(s, 1) = s + 1
        BY <1>0, <3>2 DEF PlusWord, Unset
      <3>4. CASE next_ack_expected >= s + 1
        BY <3>1, <3>3, <3>4 DEF NextAckExpected
      <3>5. CASE ~(next_ack_expected >= s + 1)
        <4>1. next_ack_expected <= s /\ next_ack_expected' = s + 1
          BY <1>0, <3>1, <3>2, <3>3, <3>5 DEF NextAckExpected
        <4>2. Delivery!Acknowledge(s)
          BY <3>1, <4>1 DEF Delivery!Acknowledge
        <4> QED
          BY <3>2, <4>2
      <3> QED
        BY <3>4, <3>5
    <2> QED
      BY <2>1, <2>2
  <1>4. CASE Acknowledge
    <2> DEFINE m == Head(receiverSocket).message
               s == m.sequence_number
    <2>1. /\ received' = received \cup {s}
          /\ UNCHANGED <<sequence_number, next_ack_expected>>
      BY <1>4 DEF Acknowledge, senderVars
    <2>2. s \in 0..(sequence_number - 1)
      <3>1. receiverSocket # <<>> /\ receiverSocket \in Seq(Received)
        BY <1>0, <1>4 DEF Acknowledge, TypeOK
      <3>2. /\ Head(receiverSocket) = receiverSocket[1]
            /\ Len(receiverSocket) \in Nat /\ Len(receiverSocket) >= 1
            /\ Head(receiverSocket) \in Received
        BY <3>1, TailElements
      <3>3. m \in Message /\ Genuine(m, sequence_number, sentAt, epoch)
        BY <3>2 DEF IInv, MessagesAreGenuine, Received
      <3> QED
        BY <1>0, <3>3 DEF Genuine, Message, Word, Unset
    <2>3. Delivery!Deliver(s)
      BY <2>1 DEF Delivery!Deliver
    <2> QED
      BY <2>2, <2>3
  <1>5. CASE ReceiverStops \/ ReceiverRestarts \/ Network \/ Lose \/ Tick
    <2>1. Stutter
      BY <1>5 DEF ReceiverStops, ReceiverRestarts, Network, Arrive, ArriveAck,
                  Lose, Tick, senderVars, historyVars
    <2> QED
      BY <2>1
  <1>6. CASE UNCHANGED vars
    BY <1>6 DEF vars, senderVars, historyVars
  <1> QED
    BY <1>1, <1>2, <1>3, <1>4, <1>5, <1>6 DEF Next, Sender

(* The protocol implements acknowledged delivery.                          *)
THEOREM Refinement == Spec => ImplementsAckedDelivery
  <1>1. Init => Delivery!Init
    BY DEF Init, Delivery!Init
  <1>2. IInv /\ [Next]_vars => [Delivery!Next]_(Delivery!vars)
    BY StepSimulation
  <1> QED
    BY <1>1, <1>2, Invariance, PTL DEF Spec, Delivery!Spec,
                                       ImplementsAckedDelivery

(* A late, duplicated or reordered ack never moves next_ack_expected_ back.*)
THEOREM NextAckIsMonotonic == Spec => NextAckNeverMovesBack
  <1>1. ASSUME IInv, [Next]_vars
        PROVE  [next_ack_expected' >= next_ack_expected]_vars
    <2>1. next_ack_expected \in Nat
      BY <1>1 DEF IInv, TypeOK, Word, Unset
    <2>2. CASE Delivery!Transmit \/ UNCHANGED Delivery!vars
               \/ \E s \in 0..(sequence_number - 1) : Delivery!Deliver(s)
      BY <2>1, <2>2 DEF Delivery!Transmit, Delivery!vars, Delivery!Deliver
    <2>3. ASSUME NEW s \in received, Delivery!Acknowledge(s)
          PROVE  next_ack_expected' >= next_ack_expected
      <3>1. s \in Nat
        BY <1>1 DEF IInv, TypeOK
      <3> QED
        BY <2>1, <2>3, <3>1 DEF Delivery!Acknowledge
    <2> QED
      BY <1>1, <2>2, <2>3, StepSimulation DEF Delivery!Next
  <1> QED
    BY <1>1, Invariance, PTL DEF Spec, NextAckNeverMovesBack
=============================================================================

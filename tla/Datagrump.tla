----------------------------- MODULE Datagrump ------------------------------
(***************************************************************************)
(* The datagrump protocol: a sender (src/datagrump/sender.cc) that keeps a *)
(* window of UDP datagrams in flight, a receiver                           *)
(* (src/datagrump/receiver.cc) that acknowledges every datagram it gets,   *)
(* and the network between them.                                           *)
(*                                                                         *)
(* The congestion controller is abstract here: after each of its callbacks *)
(* the window is any member of Windows.  Every controller of the           *)
(* repository changes its window in those callbacks only.                  *)
(*                                                                         *)
(* The sender is one thread whose steps are interleaved with the network's *)
(* and the receiver's; pc says where in Poller::poll it is:                *)
(*   "poll"    about to call, or blocked in, ::poll                        *)
(*   "out"     in the callback of the first rule (close the window)        *)
(*   "in"      about to run the callback of the second rule (take an ack)  *)
(*   "timeout" poll() has returned Timeout                                 *)
(*   "exited"  loop() has returned; "aborted": an exception ended main     *)
(***************************************************************************)
EXTENDS ContestMessage, Sequences, FiniteSets

CONSTANTS
    Windows,          \* the window sizes the controller may answer
    PayloadLength,    \* 1424
    Writability,      \* {TRUE}, or BOOLEAN when the send buffer can be full
    Reordering,       \* whether the network reorders datagrams
    MaxSeq,           \* bound: datagrams sent
    MaxTime,          \* bound: milliseconds that pass
    MaxLoss,          \* bound: datagrams and acks lost
    MaxDup,           \* bound: datagrams and acks duplicated
    MaxStops          \* bound: times the receiver dies

ASSUME DatagrumpAssumption ==
    /\ Windows \subseteq Nat
    /\ PayloadLength \in Word
    /\ Writability \subseteq BOOLEAN
    /\ Reordering \in BOOLEAN
    /\ MaxSeq \in Nat /\ MaxTime \in Nat /\ MaxLoss \in Nat /\ MaxDup \in Nat
    /\ MaxStops \in Nat
    /\ Reordering \/ MaxStops = 0 \* Deliverable goes by the acks' numbers
    /\ MaxSeq + MaxDup < Unset    \* 2^64 datagrams are never sent
    /\ MaxTime < Unset

VARIABLES
    now,                \* CLOCK_REALTIME, in ms; both ends read the same one
    (* the sender *)
    pc,
    sequence_number,    \* next outgoing sequence number
    next_ack_expected,
    window,             \* what controller_->window_size() returns
    inReady,            \* revents of the second rule, set by ::poll
    wrote,              \* write_count() has moved since the callback began
    epoch,              \* the static EPOCH of timestamp.cc in the sender
    senderSocket,       \* received and not yet read, with the arrival time
    sockErr,            \* ECONNREFUSED is pending on the sender's socket
    (* the receiver *)
    receiverUp,
    receiverNumber,     \* sequence_number in receiver.cc
    receiverEpoch,
    receiverSocket,
    stops,              \* how often it has died
    (* the network *)
    data, acks,         \* in flight, towards the receiver and the sender
    lost, duplicated,   \* how many the network has lost and duplicated
    (* history, read by the properties only *)
    sentAt,             \* when each datagram was sent
    received,           \* sequence numbers the receiver has acknowledged
    timeouts,           \* datagrams sent with on_timeout = TRUE
    sample              \* the last ack_received call, with the arrival time

senderVars   == <<pc, sequence_number, next_ack_expected, window, inReady,
                  wrote, epoch>>
receiverVars == <<receiverNumber, receiverEpoch, stops>>
historyVars  == <<sentAt, received, timeouts, sample>>
vars == <<now, senderVars, senderSocket, sockErr, receiverUp, receiverVars,
          receiverSocket, data, acks, lost, duplicated, historyVars>>

-----------------------------------------------------------------------------
(***************************************************************************)
(* The clock.  timestamp_ms(ts) is ts - EPOCH, and EPOCH is the clock at   *)
(* the first call: NoEpoch until then.                                     *)
(***************************************************************************)
NoEpoch == -1

Stamp(at, e) == MinusWord(at, e)

(***************************************************************************)
(* The first timestamp_ms() reads the clock for its argument and then once *)
(* more for EPOCH; a millisecond may pass in between.                      *)
(***************************************************************************)
FirstEpochs == {e \in {now, now + 1} : e <= MaxTime}

NoSample == [ack_sequence_number    |-> Unset,
             send_timestamp_acked   |-> 0,
             recv_timestamp_acked   |-> 0,
             timestamp_ack_received |-> 0,
             at                     |-> 0]

Init ==
    /\ now = 0
    /\ pc = "poll"
    /\ sequence_number = 0
    /\ next_ack_expected = 0
    /\ window \in Windows
    /\ inReady = FALSE
    /\ wrote = FALSE
    /\ epoch = NoEpoch
    /\ senderSocket = <<>>
    /\ sockErr = FALSE
    /\ receiverUp = TRUE
    /\ receiverNumber = 0
    /\ receiverEpoch = NoEpoch
    /\ receiverSocket = <<>>
    /\ stops = 0
    /\ data = {} /\ acks = {}
    /\ lost = 0 /\ duplicated = 0
    /\ sentAt = [s \in 0..(MaxSeq - 1) |-> 0]
    /\ received = {}
    /\ timeouts = 0
    /\ sample = NoSample

-----------------------------------------------------------------------------
(***************************************************************************)
(* The sender.                                                             *)
(***************************************************************************)
Outstanding == MinusWord(sequence_number, next_ack_expected)

\* a faulty variant: <= for <
WindowIsOpenOffByOne == Outstanding <= window

WindowIsOpen == Outstanding < window

CanSend == sequence_number < MaxSeq

\* a faulty variant: no condition on the rule, the default of Action's
\* when_interested
AlwaysInterested(writable) == CanSend /\ writable

(***************************************************************************)
(* The first rule can fire: poll() asks for Out only when the window is    *)
(* open, and the socket's send buffer has room.                            *)
(***************************************************************************)
OutReady(writable) == CanSend /\ WindowIsOpen /\ writable

(***************************************************************************)
(* ::poll returns with an event.  The first rule's callback runs before    *)
(* the second's, which therefore cannot close the window under it.         *)
(***************************************************************************)
PollReady ==
    /\ pc = "poll"
    /\ ~sockErr
    /\ \E writable \in Writability :
         /\ OutReady(writable) \/ senderSocket # <<>>
         /\ pc' = IF OutReady(writable) THEN "out" ELSE "in"
    /\ inReady' = (senderSocket # <<>>)
    /\ wrote' = FALSE
    /\ UNCHANGED <<now, sequence_number, next_ack_expected, window, epoch,
                   senderSocket, sockErr, receiverUp, receiverVars,
                   receiverSocket, data, acks, lost, duplicated, historyVars>>

\* a faulty variant: poll() takes no notice of POLLERR
PollErrorIgnored ==
    pc = "poll" /\ sockErr /\ UNCHANGED vars

(***************************************************************************)
(* POLLERR: poll() returns Exit and loop() returns its status.             *)
(***************************************************************************)
PollError ==
    /\ pc = "poll"
    /\ sockErr
    /\ pc' = "exited"
    /\ UNCHANGED <<now, sequence_number, next_ack_expected, window, inReady,
                   wrote, epoch, senderSocket, sockErr, receiverUp,
                   receiverVars, receiverSocket, data, acks, lost, duplicated,
                   historyVars>>

(***************************************************************************)
(* Nothing happened for timeout_ms().                                      *)
(***************************************************************************)
PollTimeout ==
    /\ pc = "poll"
    /\ CanSend
    /\ ~sockErr
    /\ senderSocket = <<>>
    /\ \E writable \in Writability : ~OutReady(writable)
    /\ pc' = "timeout"
    /\ UNCHANGED <<now, sequence_number, next_ack_expected, window, inReady,
                   wrote, epoch, senderSocket, sockErr, receiverUp,
                   receiverVars, receiverSocket, data, acks, lost, duplicated,
                   historyVars>>

(***************************************************************************)
(* send_datagram.  The pending error of the socket makes send() throw.     *)
(***************************************************************************)
SendDatagram(on_timeout) ==
    \E e \in IF epoch = NoEpoch THEN FirstEpochs ELSE {epoch} :
        /\ epoch' = e
        /\ now' = IF e > now THEN e ELSE now
        /\ data' = data \cup
               {SetSendTimestamp(NewMessage(sequence_number, PayloadLength),
                                 Stamp(now, e))}
        /\ sentAt' = [sentAt EXCEPT ![sequence_number] = now]
        /\ sequence_number' = sequence_number + 1
        /\ window' \in Windows          \* datagram_was_sent
        /\ timeouts' = IF on_timeout THEN timeouts + 1 ELSE timeouts
        /\ UNCHANGED <<next_ack_expected, inReady, senderSocket, sockErr,
                       receiverUp, receiverVars, receiverSocket, acks, lost,
                       duplicated, received, sample>>

\* The process ends: what it had counted before the call goes with it.
Throw ==
    /\ pc' = "aborted"
    /\ UNCHANGED <<now, sequence_number, next_ack_expected, window, inReady,
                   wrote, epoch, senderSocket, sockErr, receiverUp,
                   receiverVars, receiverSocket, data, acks, lost, duplicated,
                   historyVars>>

(***************************************************************************)
(* First rule: one round of "while window_is_open() send_datagram(false)". *)
(***************************************************************************)
CloseWindow ==
    /\ pc = "out"
    /\ CanSend /\ WindowIsOpen
    /\ IF sockErr THEN Throw
       ELSE /\ SendDatagram(FALSE)
            /\ wrote' = TRUE
            /\ UNCHANGED pc

(***************************************************************************)
(* The loop ends.  Had it sent nothing, poll() would throw "busy wait".    *)
(***************************************************************************)
WindowClosed ==
    /\ pc = "out"
    /\ ~(CanSend /\ WindowIsOpen)
    /\ IF ~wrote THEN Throw
       ELSE /\ pc' = IF inReady THEN "in" ELSE "poll"
            /\ UNCHANGED <<now, sequence_number, next_ack_expected, window,
                           inReady, wrote, epoch, senderSocket, sockErr,
                           receiverUp, receiverVars, receiverSocket, data,
                           acks, lost, duplicated, historyVars>>

\* a faulty variant: the loop takes no action on a timeout
TimeoutIgnored ==
    /\ pc = "timeout"
    /\ pc' = "poll"
    /\ UNCHANGED <<now, sequence_number, next_ack_expected, window, inReady,
                   wrote, epoch, senderSocket, sockErr, receiverUp,
                   receiverVars, receiverSocket, data, acks, lost, duplicated,
                   historyVars>>

SendOnTimeout ==
    /\ pc = "timeout"
    /\ IF sockErr THEN Throw
       ELSE /\ SendDatagram(TRUE)
            /\ pc' = "poll"
            /\ UNCHANGED wrote

\* a faulty variant: the last ack wins, whatever it acknowledges
NextAckExpectedLatest(ack) == PlusWord(ack.ack_sequence_number, 1)

\* a faulty variant: the number acknowledged, not the one after it
NextAckExpectedSame(ack) ==
    IF next_ack_expected >= ack.ack_sequence_number THEN next_ack_expected
    ELSE ack.ack_sequence_number

NextAckExpected(ack) ==
    LET next == PlusWord(ack.ack_sequence_number, 1)
    IN  IF next_ack_expected >= next THEN next_ack_expected ELSE next

(***************************************************************************)
(* Second rule: recv() and got_ack().  The timestamp is the kernel's, of   *)
(* the ack's arrival; is_ack() is checked before anything changes.         *)
(***************************************************************************)
GotAck ==
    /\ pc = "in"
    /\ LET recd == Head(senderSocket)
           ack  == recd.message
       IN  IF sockErr \/ ~IsAck(ack) THEN Throw
           ELSE /\ next_ack_expected' = NextAckExpected(ack)
                /\ window' \in Windows  \* ack_received
                /\ sample' =
                     [ack_sequence_number    |-> ack.ack_sequence_number,
                      send_timestamp_acked   |-> ack.ack_send_timestamp,
                      recv_timestamp_acked   |-> ack.ack_recv_timestamp,
                      timestamp_ack_received |-> Stamp(recd.at, epoch),
                      at                     |-> recd.at]
                /\ senderSocket' = Tail(senderSocket)
                /\ pc' = "poll"
                /\ UNCHANGED <<now, sequence_number, inReady, wrote, epoch,
                               sockErr, receiverUp, receiverVars,
                               receiverSocket, data, acks, lost, duplicated,
                               sentAt, received, timeouts>>

Sender ==
    \/ PollReady \/ PollError \/ PollTimeout
    \/ CloseWindow \/ WindowClosed \/ SendOnTimeout \/ GotAck

-----------------------------------------------------------------------------
(***************************************************************************)
(* The receiver: one round of its loop.  recv() reads the clock for EPOCH  *)
(* the first time, after the datagram's arrival.                           *)
(***************************************************************************)
\* a faulty variant: the timestamp of the ack is set before the old one is
\* echoed, the two calls swapped
AckStampedFirst(m, number, recv_timestamp, timestamp) ==
    TransformIntoAck(SetSendTimestamp(m, timestamp), number, recv_timestamp)

Acknowledgment(m, number, recv_timestamp, timestamp) ==
    SetSendTimestamp(TransformIntoAck(m, number, recv_timestamp), timestamp)

Acknowledge ==
    /\ receiverUp
    /\ receiverSocket # <<>>
    /\ LET recd == Head(receiverSocket)
           e    == IF receiverEpoch = NoEpoch THEN now ELSE receiverEpoch
       IN  /\ receiverEpoch' = e
           /\ acks' = acks \cup
                {Acknowledgment(recd.message, receiverNumber,
                                Stamp(recd.at, e), Stamp(now, e))}
           /\ received' = received \cup {recd.message.sequence_number}
    /\ receiverNumber' = PlusWord(receiverNumber, 1)
    /\ receiverSocket' = Tail(receiverSocket)
    /\ UNCHANGED <<now, senderVars, senderSocket, sockErr, receiverUp, stops,
                   data, lost, duplicated, sentAt, timeouts, sample>>

(***************************************************************************)
(* The receiver dies: a system call of its socket has failed and thrown,   *)
(* or somebody stopped it.  What its socket holds is lost, and what comes  *)
(* for it is answered with an error until it is started again, with a new  *)
(* EPOCH and numbering its acks from 0.                                    *)
(***************************************************************************)
ReceiverStops ==
    /\ stops < MaxStops
    /\ receiverUp
    /\ receiverUp' = FALSE
    /\ receiverSocket' = <<>>
    /\ stops' = stops + 1
    /\ UNCHANGED <<now, senderVars, senderSocket, sockErr, receiverNumber,
                   receiverEpoch, data, acks, lost, duplicated, historyVars>>

ReceiverRestarts ==
    /\ ~receiverUp
    /\ receiverUp' = TRUE
    /\ receiverNumber' = 0
    /\ receiverEpoch' = NoEpoch
    /\ UNCHANGED <<now, senderVars, senderSocket, sockErr, receiverSocket,
                   stops, data, acks, lost, duplicated, historyVars>>

-----------------------------------------------------------------------------
(***************************************************************************)
(* The network.  With Reordering it delivers any datagram in flight, else  *)
(* the one that was sent first.  A duplicate is a delivery that leaves the *)
(* datagram in flight.                                                     *)
(***************************************************************************)
Deliverable(m, channel) ==
    Reordering \/ \A n \in channel : m.sequence_number <= n.sequence_number

Duplicates == IF duplicated < MaxDup THEN BOOLEAN ELSE {FALSE}

Arrive(m) ==
    /\ Deliverable(m, data)
    /\ \E again \in Duplicates :
         /\ data' = IF again THEN data ELSE data \ {m}
         /\ duplicated' = IF again THEN duplicated + 1 ELSE duplicated
    /\ IF receiverUp
       THEN /\ receiverSocket' =
                 Append(receiverSocket, [message |-> m, at |-> now])
            /\ UNCHANGED sockErr
       ELSE /\ sockErr' = TRUE        \* ICMP port unreachable
            /\ UNCHANGED receiverSocket
    /\ UNCHANGED <<now, senderVars, senderSocket, receiverUp, receiverVars,
                   acks, lost, historyVars>>

ArriveAck(m) ==
    /\ Deliverable(m, acks)
    /\ \E again \in Duplicates :
         /\ acks' = IF again THEN acks ELSE acks \ {m}
         /\ duplicated' = IF again THEN duplicated + 1 ELSE duplicated
    /\ senderSocket' = Append(senderSocket, [message |-> m, at |-> now])
    /\ UNCHANGED <<now, senderVars, sockErr, receiverUp, receiverVars,
                   receiverSocket, data, lost, historyVars>>

Lose ==
    /\ lost < MaxLoss
    /\ lost' = lost + 1
    /\ \/ \E m \in data : data' = data \ {m} /\ UNCHANGED acks
       \/ \E m \in acks : acks' = acks \ {m} /\ UNCHANGED data
    /\ UNCHANGED <<now, senderVars, senderSocket, sockErr, receiverUp,
                   receiverVars, receiverSocket, duplicated, historyVars>>

Tick ==
    /\ now < MaxTime
    /\ now' = now + 1
    /\ UNCHANGED <<senderVars, senderSocket, sockErr, receiverUp, receiverVars,
                   receiverSocket, data, acks, lost, duplicated, historyVars>>

Network == \/ \E m \in data : Arrive(m)
           \/ \E m \in acks : ArriveAck(m)

Next == \/ Sender \/ Acknowledge \/ ReceiverStops \/ ReceiverRestarts
        \/ Network \/ Lose \/ Tick

Spec == Init /\ [][Next]_vars

(***************************************************************************)
(* Fairness.  The sender's thread runs, and ::poll returns after           *)
(* timeout_ms() at the latest (every controller answers a positive finite  *)
(* timeout): SenderFairness.  NetworkFairness adds a receiver that runs    *)
(* and a network that does not hold a datagram back for ever.              *)
(***************************************************************************)
SenderFairness == WF_vars(Sender)

NetworkFairness == WF_vars(Acknowledge) /\ WF_vars(Network)

SenderFairSpec == Spec /\ SenderFairness

-----------------------------------------------------------------------------
Clock == 0..MaxTime

Received == [message : Message, at : Clock]

Sample == [ack_sequence_number    : Word,
           send_timestamp_acked   : Word,
           recv_timestamp_acked   : Word,
           timestamp_ack_received : Word,
           at                     : Clock]

(***************************************************************************)
(* The type invariant.                                                     *)
(***************************************************************************)
TypeOK ==
    /\ now \in Clock
    /\ pc \in {"poll", "out", "in", "timeout", "exited", "aborted"}
    /\ sequence_number \in 0..MaxSeq
    /\ next_ack_expected \in Word
    /\ window \in Windows
    /\ inReady \in BOOLEAN
    /\ wrote \in BOOLEAN
    /\ epoch \in Clock \cup {NoEpoch}
    /\ senderSocket \in Seq(Received)
    /\ sockErr \in BOOLEAN
    /\ receiverUp \in BOOLEAN
    /\ receiverNumber \in Word
    /\ receiverEpoch \in Clock \cup {NoEpoch}
    /\ receiverSocket \in Seq(Received)
    /\ stops \in 0..MaxStops
    /\ data \subseteq Message
    /\ acks \subseteq Message
    /\ lost \in 0..MaxLoss
    /\ duplicated \in 0..MaxDup
    /\ sentAt \in [0..(MaxSeq - 1) -> Clock]
    /\ received \subseteq 0..(MaxSeq - 1)
    /\ timeouts \in Nat
    /\ sample \in Sample

(***************************************************************************)
(* Where the sender's thread can be: what ::poll found still holds when    *)
(* the callbacks run, because only the sender takes from its socket and    *)
(* moves its window, and the first rule runs before the second.            *)
(***************************************************************************)
PollStillHolds ==
    /\ pc = "timeout" => CanSend
    /\ pc = "in" \/ (pc = "out" /\ inReady) => senderSocket # <<>>
    /\ pc = "out" /\ ~wrote => CanSend /\ WindowIsOpen

(***************************************************************************)
(* The sender's past: EPOCH is fixed by the first send.                    *)
(***************************************************************************)
SendHistory ==
    /\ sequence_number > 0 => epoch # NoEpoch
    /\ \A s \in 0..(sequence_number - 1) : sentAt[s] <= now
    /\ received \subseteq 0..(sequence_number - 1)

(***************************************************************************)
(* A datagram carries the number and the time it was sent with, and an ack *)
(* echoes both of a datagram that the receiver got.                        *)
(***************************************************************************)
Genuine(m, sent, times, e) ==
    /\ m.sequence_number < sent
    /\ m.send_timestamp = Stamp(times[m.sequence_number], e)

Echo(m, got, times, e) ==
    /\ m.ack_sequence_number \in got
    /\ m.ack_send_timestamp = Stamp(times[m.ack_sequence_number], e)

EchoAfter(r, got, times, e) ==
    /\ Echo(r.message, got, times, e)
    /\ times[r.message.ack_sequence_number] <= r.at

MessagesAreGenuine ==
    /\ \A m \in data : Genuine(m, sequence_number, sentAt, epoch)
    /\ \A i \in 1..Len(receiverSocket) :
         Genuine(receiverSocket[i].message, sequence_number, sentAt, epoch)
    /\ \A m \in acks : Echo(m, received, sentAt, epoch)
    /\ \A i \in 1..Len(senderSocket) :
         EchoAfter(senderSocket[i], received, sentAt, epoch)

(***************************************************************************)
(* The subtraction in window_is_open never wraps: however datagrams and    *)
(* acks are lost, duplicated or reordered, the sender never believes       *)
(* acknowledged what it has not sent.  A wrap would close the window for   *)
(* ever (sender.cc:126).                                                   *)
(***************************************************************************)
NoWindowUnderflow == next_ack_expected <= sequence_number

(***************************************************************************)
(* The round-trip time a controller computes in ack_received is the true   *)
(* one: the time from the send of exactly the datagram that is             *)
(* acknowledged to the arrival of its ack, whatever the receiver's EPOCH,  *)
(* however often it was started anew, whenever the ack is read, and        *)
(* although the first send timestamp may wrap below the epoch              *)
(* (receiver.cc:42-45, timestamp.cc:34, sender.cc:104).                    *)
(***************************************************************************)
RoundTripIsTrue ==
    sample # NoSample =>
        /\ sample.ack_sequence_number < sequence_number
        /\ sample.send_timestamp_acked
               = Stamp(sentAt[sample.ack_sequence_number], epoch)
        /\ MinusWord(sample.timestamp_ack_received,
                     sample.send_timestamp_acked)
               = sample.at - sentAt[sample.ack_sequence_number]

(***************************************************************************)
(* The sender stops, by an exception or by poll()'s Exit, only after the   *)
(* receiver has at least once: neither poll()'s busy-wait check nor        *)
(* got_ack's is_ack check can end it (poller.cc:60, sender.cc:97).         *)
(***************************************************************************)
SenderOutlivesReceiver == pc \in {"exited", "aborted"} => stops > 0

(* An error is pending only if the receiver was down when a datagram came. *)
StopsAreCounted == sockErr \/ ~receiverUp => stops > 0

(***************************************************************************)
(* The inductive invariant: the window never wraps and the sender's only   *)
(* sample is true, because every message in flight is genuine.             *)
(***************************************************************************)
IInv ==
    /\ TypeOK
    /\ PollStillHolds
    /\ SendHistory
    /\ MessagesAreGenuine
    /\ NoWindowUnderflow
    /\ RoundTripIsTrue
    /\ StopsAreCounted
    /\ SenderOutlivesReceiver

(***************************************************************************)
(* A late, duplicated or reordered ack never moves next_ack_expected_ back *)
(* (sender.cc:102).                                                        *)
(***************************************************************************)
NextAckNeverMovesBack == [][next_ack_expected' >= next_ack_expected]_vars

(***************************************************************************)
(* The protocol implements acknowledged delivery.                          *)
(***************************************************************************)
Delivery == INSTANCE AckedDelivery WITH sent      <- sequence_number,
                                        delivered <- received,
                                        acked     <- next_ack_expected

ImplementsAckedDelivery == Delivery!Spec

(***************************************************************************)
(* Everything between the two ends of the sender's socket.                 *)
(***************************************************************************)
InFlight == Cardinality(data) + Len(receiverSocket)
            + Cardinality(acks) + Len(senderSocket)

(***************************************************************************)
(* The difference the sender compares with its window is what it is meant  *)
(* to be on a network that keeps the order: exactly the datagrams and acks *)
(* in flight when none was lost, and no fewer when some were               *)
(* (sender.cc:26-28 and 126).                                              *)
(***************************************************************************)
OutstandingIsInFlight ==
    (~Reordering /\ duplicated = 0) =>
        /\ InFlight <= Outstanding
        /\ lost = 0 => InFlight = Outstanding

(***************************************************************************)
(* On such a network no more is in flight than the largest window plus     *)
(* one datagram for each timeout (sender.cc:138 and 166).                  *)
(***************************************************************************)
InFlightIsBounded ==
    (~Reordering /\ duplicated = 0) =>
        \E w \in Windows : InFlight <= w + timeouts

(***************************************************************************)
(* The inductive invariant behind them.  The numbers of the datagrams and  *)
(* acks in flight, place by place from the sender's socket back to the     *)
(* datagrams last sent, only increase, and all lie in the window; when     *)
(* nothing was lost, every number of the window is in one of the places.   *)
(***************************************************************************)
InSenderSocket == {senderSocket[i].message.ack_sequence_number :
                       i \in 1..Len(senderSocket)}
InAcks == {m.ack_sequence_number : m \in acks}
InReceiverSocket == {receiverSocket[i].message.sequence_number :
                         i \in 1..Len(receiverSocket)}
InData == {m.sequence_number : m \in data}

NumbersInFlight == InSenderSocket \cup InAcks \cup InReceiverSocket \cup InData

Below(S, T) == \A s \in S, t \in T : s < t

PlacesInOrder ==
    /\ Below(InSenderSocket, InAcks \cup InReceiverSocket \cup InData)
    /\ Below(InAcks, InReceiverSocket \cup InData)
    /\ Below(InReceiverSocket, InData)

EachInOrder ==
    /\ \A i, j \in 1..Len(senderSocket) :
         i < j => senderSocket[i].message.ack_sequence_number
                      < senderSocket[j].message.ack_sequence_number
    /\ \A m, n \in acks :
         m # n => \/ /\ m.sequence_number < n.sequence_number
                     /\ m.ack_sequence_number < n.ack_sequence_number
                  \/ /\ n.sequence_number < m.sequence_number
                     /\ n.ack_sequence_number < m.ack_sequence_number
    /\ \A i, j \in 1..Len(receiverSocket) :
         i < j => receiverSocket[i].message.sequence_number
                      < receiverSocket[j].message.sequence_number
    /\ \A m, n \in data : m.sequence_number = n.sequence_number => m = n

(* The receiver's own number never runs ahead of what it has to number.    *)
NumberedInOrder ==
    /\ \A m \in acks : m.sequence_number < receiverNumber
    /\ \A i \in 1..Len(receiverSocket) :
         receiverNumber + i <= receiverSocket[i].message.sequence_number + 1
    /\ \A m \in data :
         receiverNumber + Len(receiverSocket) <= m.sequence_number
    /\ receiverNumber + Len(receiverSocket) <= sequence_number

InWindow ==
    LET outstanding == next_ack_expected..(sequence_number - 1)
    IN  /\ NumbersInFlight \subseteq outstanding
        /\ lost = 0 => outstanding \subseteq NumbersInFlight

WindowBounds == \E w \in Windows : Outstanding <= w + timeouts

OrderInv ==
    /\ (~Reordering /\ duplicated = 0) =>
           PlacesInOrder /\ EachInOrder /\ NumberedInOrder /\ InWindow
    /\ WindowBounds

(***************************************************************************)
(* "if network does not reorder or lose datagrams, this is the sequence    *)
(* number that the sender next expects will be acknowledged by the         *)
(* receiver" (sender.cc:26-28).                                            *)
(***************************************************************************)
AcksComeAsExpected ==
    [][ (~Reordering /\ lost = 0 /\ duplicated = 0 /\ sample' # sample)
        => sample'.ack_sequence_number = next_ack_expected ]_vars

(***************************************************************************)
(* The timeout keeps the sender going: whatever the network loses and      *)
(* whatever windows the controller answers, every datagram is sent at last *)
(* unless the sender has stopped (sender.cc:164-166).                      *)
(***************************************************************************)
KeepsMoving == <>(sequence_number = MaxSeq \/ pc \in {"exited", "aborted"})

(***************************************************************************)
(* On a fair network a datagram that is sent is acknowledged at last if    *)
(* nothing is lost.                                                        *)
(***************************************************************************)
EverySentIsAcked ==
    NetworkFairness =>
        \A s \in 0..(MaxSeq - 1) :
            (sequence_number > s) ~> (next_ack_expected > s \/ lost > 0
                                                           \/ stops > 0)

(***************************************************************************)
(* A sender whose receiver is gone and that has something to send finds    *)
(* out and stops, unless the receiver is back before, or the news is lost. *)
(***************************************************************************)
SenderNoticesStop ==
    NetworkFairness =>
        ((~receiverUp /\ CanSend) ~> (\/ pc \in {"exited", "aborted"}
                                      \/ receiverUp \/ lost > 0))

(***************************************************************************)
(* "Current time in milliseconds since the start of the program"           *)
(* (timestamp.cc:26): no send timestamp is later than the clock.           *)
(***************************************************************************)
TimestampsSinceStart == \A m \in data : m.send_timestamp <= now
=============================================================================

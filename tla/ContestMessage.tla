--------------------------- MODULE ContestMessage ---------------------------
(***************************************************************************)
(* The messages the sender and the receiver exchange                       *)
(* (src/datagrump/contest_message.{hh,cc}): six 64-bit header fields and a *)
(* payload.  A payload is represented by its length, the only thing the    *)
(* programs ever ask of it.  Header fields are words that wrap.            *)
(***************************************************************************)
EXTENDS Integers

CONSTANT WordSize        \* 2^64 in the code

ASSUME WordSizeAssumption == WordSize \in Nat /\ WordSize > 1

Word == 0..(WordSize - 1)

(***************************************************************************)
(* uint64_t(-1), the value of a header field that has not been filled in.  *)
(***************************************************************************)
Unset == WordSize - 1

(***************************************************************************)
(* Addition and subtraction of two uint64_t.                               *)
(***************************************************************************)
PlusWord(a, b) == IF a + b < WordSize THEN a + b ELSE a + b - WordSize

MinusWord(a, b) == IF a >= b THEN a - b ELSE a - b + WordSize

Message == [sequence_number     : Word,
            send_timestamp      : Word,
            ack_sequence_number : Word,
            ack_send_timestamp  : Word,
            ack_recv_timestamp  : Word,
            ack_payload_length  : Word,
            payload             : Word]

(***************************************************************************)
(* A new data message: every field except the sequence number is unset.    *)
(***************************************************************************)
NewMessage(sequence_number, payload) ==
    [sequence_number     |-> sequence_number,
     send_timestamp      |-> Unset,
     ack_sequence_number |-> Unset,
     ack_send_timestamp  |-> Unset,
     ack_recv_timestamp  |-> Unset,
     ack_payload_length  |-> Unset,
     payload             |-> payload]

SetSendTimestamp(m, timestamp) == [m EXCEPT !.send_timestamp = timestamp]

\* a faulty variant: the ack's own number is assigned before the old one is
\* copied
TransformNumberFirst(m, sequence_number, recv_timestamp) ==
    [m EXCEPT !.ack_sequence_number = sequence_number,
              !.sequence_number     = sequence_number,
              !.ack_send_timestamp  = m.send_timestamp,
              !.ack_recv_timestamp  = recv_timestamp,
              !.ack_payload_length  = m.payload,
              !.payload             = 0]

(***************************************************************************)
(* The receiver turns the datagram it got into its acknowledgment: the old *)
(* header is echoed in the ack fields.  The send timestamp of the datagram *)
(* stays in place until SetSendTimestamp overwrites it.                    *)
(***************************************************************************)
TransformIntoAck(m, sequence_number, recv_timestamp) ==
    [m EXCEPT !.ack_sequence_number = m.sequence_number,
              !.sequence_number     = sequence_number,
              !.ack_send_timestamp  = m.send_timestamp,
              !.ack_recv_timestamp  = recv_timestamp,
              !.ack_payload_length  = m.payload,
              !.payload             = 0]

IsAck(m) == m.ack_sequence_number # Unset
=============================================================================

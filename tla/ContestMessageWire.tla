------------------------- MODULE ContestMessageWire -------------------------
(***************************************************************************)
(* The wire format of src/datagrump/contest_message.cc: the header's       *)
(* fields, most significant byte first, and then the payload.  A string is *)
(* a sequence of bytes; a payload is its length, so its bytes are zeros.   *)
(***************************************************************************)
EXTENDS ContestMessage, Sequences

CONSTANTS FieldSize,    \* sizeof(uint64_t) = 8
          ByteSize      \* 256

(* What a byte counts for that has i bytes behind it: ByteSize ^ i.         *)
PlaceValue[i \in 0..FieldSize] ==
    IF i = 0 THEN 1 ELSE ByteSize * PlaceValue[i - 1]

ASSUME WireAssumption ==
    /\ FieldSize \in Nat \ {0} /\ ByteSize \in Nat \ {0, 1}
    /\ WordSize = PlaceValue[FieldSize]

HeaderSize == 6 * FieldSize

PutHeaderField(n) ==
    [i \in 1..FieldSize |-> (n \div PlaceValue[FieldSize - i]) % ByteSize]

\* a faulty variant: two time stamps swapped
HeaderFieldsSwapped(m) ==
    <<m.sequence_number, m.send_timestamp, m.ack_sequence_number,
      m.ack_recv_timestamp, m.ack_send_timestamp, m.ack_payload_length>>

HeaderFields(m) ==
    <<m.sequence_number, m.send_timestamp, m.ack_sequence_number,
      m.ack_send_timestamp, m.ack_recv_timestamp, m.ack_payload_length>>

Wire(m) ==
    LET field(n) == PutHeaderField(HeaderFields(m)[n])
    IN  field(1) \o field(2) \o field(3) \o field(4) \o field(5) \o field(6)
            \o [i \in 1..m.payload |-> 0]

\* a faulty variant: the field before the n-th fits
TooSmallByOne(n, str) == Len(str) < n * FieldSize

TooSmall(n, str) == Len(str) < (n + 1) * FieldSize

(***************************************************************************)
(* be64toh of the n-th field.  What lies behind the end of a string is     *)
(* taken to be zeros; TooSmall is there so that it is not read.            *)
(***************************************************************************)
GetHeaderField(n, str) ==
    LET byte(i) == IF i <= Len(str) THEN str[i] ELSE 0
        word[i \in 0..FieldSize] ==
            IF i = 0 THEN 0 ELSE word[i - 1] * ByteSize + byte(n * FieldSize + i)
    IN  word[FieldSize]

Refused == [refused |-> TRUE]

Parse(str) ==
    IF \E n \in 0..5 : TooSmall(n, str) THEN Refused
    ELSE [sequence_number     |-> GetHeaderField(0, str),
          send_timestamp      |-> GetHeaderField(1, str),
          ack_sequence_number |-> GetHeaderField(2, str),
          ack_send_timestamp  |-> GetHeaderField(3, str),
          ack_recv_timestamp  |-> GetHeaderField(4, str),
          ack_payload_length  |-> GetHeaderField(5, str),
          payload             |-> Len(str) - HeaderSize]
=============================================================================

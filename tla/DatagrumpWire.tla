---------------------------- MODULE DatagrumpWire ----------------------------
(***************************************************************************)
(* The datagrams of the protocol as the bytes that travel.  Datagrump      *)
(* passes messages as records; that is right if these properties hold.     *)
(***************************************************************************)
EXTENDS Datagrump, ContestMessageWire

Travelling == data \cup acks

(***************************************************************************)
(* What one end puts on the wire is what the other parses, for each header *)
(* the protocol makes: unset fields, wrapped time stamps, and the payload  *)
(* of a datagram or none (contest_message.cc:22-35 and 52-66).             *)
(***************************************************************************)
MessagesSurviveTheWire == \A m \in Travelling : Parse(Wire(m)) = m

(***************************************************************************)
(* A datagram cut short anywhere is refused if part of its header is       *)
(* missing, and otherwise loses payload only: no field is ever read past   *)
(* the end, nor a whole header refused (contest_message.cc:11).            *)
(***************************************************************************)
Cut(m, length) == Parse(SubSeq(Wire(m), 1, length))

ShortDatagramsAreRefused ==
    \A m \in Travelling : \A length \in 0..(HeaderSize + m.payload) :
        Cut(m, length) = IF length < HeaderSize THEN Refused
                         ELSE [m EXCEPT !.payload = length - HeaderSize]
=============================================================================

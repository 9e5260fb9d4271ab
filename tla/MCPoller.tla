------------------------------ MODULE MCPoller ------------------------------
(***************************************************************************)
(* Three rules on two descriptors: the sender's two rules on one socket,   *)
(* and one that reads another descriptor and affects both of them.         *)
(***************************************************************************)
EXTENDS Poller

CONSTANTS socket, keyboard

MCFd == <<socket, socket, keyboard>>

MCDirection == <<"Out", "In", "In">>

MCAffects == <<{1}, {1}, {1, 2}>>
=============================================================================

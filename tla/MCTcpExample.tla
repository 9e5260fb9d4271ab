---------------------------- MODULE MCTcpExample ----------------------------
(***************************************************************************)
(* Instances of TcpExample for TLC: a client at a terminal, at which two   *)
(* bytes are typed, and one at the end of a pipe that is given one.        *)
(***************************************************************************)
EXTENDS TcpExample

CONSTANTS terminal, pipe

MCMaxTyped == [c \in Clients |-> IF c = terminal THEN 2 ELSE 1]
=============================================================================

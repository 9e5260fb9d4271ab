---------------------------- MODULE MCDatagrump -----------------------------
(***************************************************************************)
(* Instances of Datagrump for TLC.  The cfg files give every constant.     *)
(***************************************************************************)
EXTENDS DatagrumpWire
=============================================================================

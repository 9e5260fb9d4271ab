--------------------------- MODULE MCDatagrumpLH ----------------------------
(***************************************************************************)
(* Instances of DatagrumpLH for TLC.  The cfg files give every constant.   *)
(***************************************************************************)
EXTENDS DatagrumpLH
=============================================================================

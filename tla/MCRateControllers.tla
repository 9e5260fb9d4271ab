-------------------------- MODULE MCRateControllers --------------------------
(***************************************************************************)
(* Instances of RateControllers for TLC.  The cfg files give every         *)
(* constant.                                                               *)
(***************************************************************************)
EXTENDS RateControllers
=============================================================================

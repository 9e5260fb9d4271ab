--------------------------- MODULE MCControllers ----------------------------
(***************************************************************************)
(* An instance of Controllers for TLC.  The cfg file gives the constants.  *)
(***************************************************************************)
EXTENDS Controllers
=============================================================================

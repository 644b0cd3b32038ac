---------------------------- MODULE MCHolotable ----------------------------
(***************************************************************************)
(* Two agents, a stranger and two beams.                                   *)
(***************************************************************************)
EXTENDS Holotable
=============================================================================

---------------------------- MODULE MCInspector ----------------------------
(***************************************************************************)
(* A transmission whose message is fetched and one that has none.          *)
(***************************************************************************)
EXTENDS Inspector

MCIds     == 1..2
MCWithRef == {1}
=============================================================================

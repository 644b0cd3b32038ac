----------------------------- MODULE MCConsole -----------------------------
(***************************************************************************)
(* A mission of two transmissions, the first of the tactical agent; for    *)
(* the runs that look for a violation, of that one alone.                  *)
(***************************************************************************)
EXTENDS Console

MCScript      == <<"tactical", "other">>
MCShortScript == <<"tactical">>
=============================================================================

---------------------------- MODULE MissionBoard ----------------------------
(***************************************************************************)
(* What the mission tables promise whoever reads them (the dashboard polls *)
(* them): a board that is empty, or shows one run, running or completed,   *)
(* with the hops whose evidence is complete.  A run has the board to       *)
(* itself from the moment it posts its row until it ends; the board is     *)
(* wiped only between runs; hops are finished one by one and in order; a   *)
(* completed run has finished them all and is never reopened.              *)
(*                                                                         *)
(* MissionControl implements this specification.                           *)
(***************************************************************************)
EXTENDS Naturals

CONSTANT NumHops    \* hops of one run

VARIABLES
  active,     \* TRUE while a run is writing to the board
  shown,      \* "nothing" | "running" | "completed"
  finished    \* hops finished by the run that is shown

boardVars == <<active, shown, finished>>

BoardTypeOK ==
  /\ active \in BOOLEAN
  /\ shown \in {"nothing", "running", "completed"}
  /\ finished \subseteq 1..NumHops

BoardInit ==
  /\ active = FALSE
  /\ shown = "nothing"
  /\ finished = {}

\* Somebody who is about to run, or only resets, wipes what an earlier run left.
Wipe ==
  /\ ~active
  /\ shown' = "nothing"
  /\ finished' = {}
  /\ UNCHANGED active

\* A run posts its row on an empty board.
Begin ==
  /\ ~active
  /\ shown = "nothing"
  /\ active' = TRUE
  /\ shown' = "running"
  /\ finished' = {}

\* The active run finishes its next hop.
Advance ==
  /\ active
  /\ shown = "running"
  /\ \E h \in 1..NumHops :
       /\ finished = 1..(h - 1)
       /\ finished' = 1..h
  /\ UNCHANGED <<active, shown>>

\* The active run declares itself completed, after its last hop only.
Finish ==
  /\ active
  /\ shown = "running"
  /\ finished = 1..NumHops
  /\ shown' = "completed"
  /\ UNCHANGED <<active, finished>>

\* The run leaves the board: it returned, it failed, or the process died.
Leave ==
  /\ active
  /\ active' = FALSE
  /\ UNCHANGED <<shown, finished>>

BoardNext == Wipe \/ Begin \/ Advance \/ Finish \/ Leave

BoardSpec == BoardInit /\ [][BoardNext]_boardVars
-----------------------------------------------------------------------------
(* What a reader of the board can count on.                                *)

\* Hops are finished from the first on; a completed run has finished them all.
BoardInv ==
  /\ BoardTypeOK
  /\ \E h \in 0..NumHops : finished = 1..h
  /\ shown = "nothing" => ~active /\ finished = {}
  /\ shown = "completed" => finished = 1..NumHops

\* What is shown grows until, after the run, it is wiped as a whole.
NeverGoesBack ==
  [][ \/ shown' = "nothing" /\ ~active
      \/ finished \subseteq finished' /\ (shown = "completed" => shown' = "completed")
    ]_boardVars
=============================================================================

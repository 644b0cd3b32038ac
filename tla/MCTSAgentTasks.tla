--------------------------- MODULE MCTSAgentTasks ---------------------------
(***************************************************************************)
(* Two streams of two phases, a send, two cancels and two subscribers.     *)
(***************************************************************************)
EXTENDS TSAgentTasks

CONSTANTS s1, s2, sd, c1, c2, b1, b2

MCStreams     == {s1, s2}
MCSends       == {sd}
MCCancels     == {c1, c2}
MCSubscribers == {b1, b2}
=============================================================================

--------------------------- MODULE MCGoAgentTasks ---------------------------
(***************************************************************************)
(* A stream of two phases and a send, two cancels that may race on one     *)
(* task, a subscriber and a reader.  Visitors choose their task freely.    *)
(***************************************************************************)
EXTENDS GoAgentTasks

CONSTANTS st, sd, c1, c2, sb, gt

MCStreams     == {st}
MCSends       == {sd}
MCCancels     == {c1, c2}
MCSubscribers == {sb}
MCGets        == {gt}
=============================================================================

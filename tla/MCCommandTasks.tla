--------------------------- MODULE MCCommandTasks ---------------------------
(***************************************************************************)
(* Two commands that run a mission, a stream and a send, one reset and the *)
(* background task, over two starts of the process.  Two hops stand for    *)
(* the five: a send to a TypeScript agent, which is the first, and a       *)
(* stream from a Go agent, which is the last.  The answers of a Go agent   *)
(* include those of a TypeScript agent's stream.                           *)
(***************************************************************************)
EXTENDS CommandTasks

CONSTANTS s1, s2, r1

MCStarts == {s1, s2}
MCResets == {r1}

MCStreamCommands == {s1}
MCSendCommands   == {s2}

MCStreamHops == {2}
MCGoHops     == {2}
=============================================================================

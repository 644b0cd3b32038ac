-------------------------- MODULE MCMissionControl --------------------------
(***************************************************************************)
(* Two requests that run a mission, one reset and the background task,     *)
(* over two starts of the process.  Three hops stand for the five: a       *)
(* send to a TypeScript agent, a send to a Go agent, a stream from a Go    *)
(* agent (whose answers include those of the TypeScript stream).           *)
(***************************************************************************)
EXTENDS MissionControl

CONSTANTS s1, s2, r1

MCStarts == {s1, s2}
MCResets == {r1}

MCStreamHops == {3}
MCGoHops     == {2, 3}
=============================================================================

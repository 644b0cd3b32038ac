------------------------------ MODULE Holotable ------------------------------
(***************************************************************************)
(* The tactical scope of the console (holotable.js): two animation loops,  *)
(* beams that fly from agent to agent and light up both, and the fleet's   *)
(* route, under a preference for reduced motion that may change at any     *)
(* time.  Geometry, colours and the threat sector, which every render()    *)
(* sets anew, are left out, and so is how far a beam is.                   *)
(*                                                                         *)
(* A step is one callback: of app.js or replay.js, of an animation frame,  *)
(* of a timer, or of the media query.  Frames are taken to come while the  *)
(* page is visible.                                                        *)
(***************************************************************************)
EXTENDS Naturals, FiniteSets

CONSTANTS
  Agents,     \* agents the scope can show
  Stranger,   \* a sender or recipient it has no node for
  MaxBeams    \* bound: beams ever fired

ASSUME HolotableAssumption == Stranger \notin Agents /\ MaxBeams \in Nat

VARIABLES
  mounted,    \* ST.mounted
  reduced,    \* the preference, as reduced() reads it
  mqDue,      \* whether the change of the media query is yet to be handled
  frames,     \* frames requested by each loop
  handle,     \* whether ST.sweepRAF, ST.pulseRAF hold the last of them
  active,     \* nodes with the class is-active
  fired,      \* how many beams have been fired
  ends,       \* sender and recipient of each beam
  beams,      \* how each beam is on its way: it has a frame or a timer
  darkenings, \* beams of reduced motion with deactivate() yet to come
  rings,      \* impact rings that are growing
  phase,      \* ST.phase
  stops       \* the class of each route stop

loopVars  == <<frames, handle>>
beamVars  == <<active, fired, ends, beams, darkenings, rings>>
routeVars == <<phase, stops>>
vars      == <<mounted, reduced, mqDue, loopVars, beamVars, routeVars>>

-----------------------------------------------------------------------------
Loops   == {"sweep", "pulse"}
BeamIds == 1..MaxBeams

\* The phases that differ in their waypoint, and one that has none.
Phases      == {"submitted", "jump_to_lightspeed", "arriving_hoth_orbit", "deployed",
                "completed", "other"}
Waypoint(p) == CASE p = "submitted"           -> 0
                 [] p = "jump_to_lightspeed"  -> 1
                 [] p = "arriving_hoth_orbit" -> 2
                 [] OTHER                     -> 3
Stops       == 0..3

TypeOK ==
  /\ mounted \in BOOLEAN /\ reduced \in BOOLEAN /\ mqDue \in BOOLEAN
  /\ frames \in [Loops -> 0..1] /\ handle \in [Loops -> BOOLEAN]
  /\ active \subseteq Agents
  /\ fired \in 0..MaxBeams
  /\ ends \in [BeamIds -> SUBSET (Agents \cup {Stranger})]
  /\ beams \in [BeamIds -> {"none", "flying", "flashing", "gone"}]
  /\ darkenings \subseteq BeamIds
  /\ rings \in Nat
  /\ phase \in Phases \cup {"none"}
  /\ stops \in [Stops -> {"plain", "is-active", "is-done"}]

Init ==
  /\ mounted = FALSE /\ reduced \in BOOLEAN /\ mqDue = FALSE
  /\ frames = [l \in Loops |-> 0] /\ handle = [l \in Loops |-> FALSE]
  /\ active = {} /\ fired = 0 /\ ends = [b \in BeamIds |-> {}]
  /\ beams = [b \in BeamIds |-> "none"] /\ darkenings = {} /\ rings = 0
  /\ phase = "none" /\ stops = [s \in Stops |-> "plain"]

-----------------------------------------------------------------------------
(* The two loops.                                                          *)

\* What stopSweep() and stopPulse() leave: the frame they know of is canceled.
Stopped(l) == IF handle[l] THEN frames[l] - 1 ELSE frames[l]

\* Wrong on purpose (TypeOK): started beside a loop that is running.
StartLoopsBeside ==
  /\ frames' = [l \in Loops |-> frames[l] + (IF reduced THEN 0 ELSE 1)]
  /\ handle' = [l \in Loops |-> ~reduced]

\* Wrong on purpose (MotionAsPreferred): reduced motion does not stop what runs.
StartLoopsOnly ==
  /\ frames' = [l \in Loops |-> IF reduced THEN frames[l] ELSE Stopped(l) + 1]
  /\ handle' = [l \in Loops |-> IF reduced THEN handle[l] ELSE TRUE]

\* startSweep(), startPulse(): stop, and start again unless motion is reduced.
StartLoops ==
  /\ frames' = [l \in Loops |-> Stopped(l) + (IF reduced THEN 0 ELSE 1)]
  /\ handle' = [l \in Loops |-> ~reduced]

\* A frame of a loop requests the next.
LoopFrame(l) ==
  /\ frames[l] > 0
  /\ frames' = frames
  /\ handle' = [handle EXCEPT ![l] = TRUE]
  /\ UNCHANGED <<mounted, reduced, mqDue, beamVars, routeVars>>

-----------------------------------------------------------------------------
(* The route.                                                              *)

\* Wrong on purpose (RouteIsPhase): the class of a stop is added to the one it
\* has.
RouteAtKeeps(p) ==
  [s \in Stops |-> IF stops[s] = "is-done" \/ s < Waypoint(p) THEN "is-done"
                   ELSE IF s = Waypoint(p) THEN "is-active"
                   ELSE "plain"]

\* applyRouteProgress(): first by the waypoint, then, for a completed mission,
\* every stop.
RouteAt(p) ==
  [s \in Stops |-> IF p = "other" THEN "plain"
                   ELSE IF p = "completed" \/ s < Waypoint(p) THEN "is-done"
                   ELSE IF s = Waypoint(p) THEN "is-active"
                   ELSE "plain"]

SetPhase(p) ==
  /\ phase' = p
  /\ stops' = IF mounted THEN RouteAt(p) ELSE stops
  /\ UNCHANGED <<mounted, reduced, mqDue, loopVars, beamVars>>

\* init(): the scope is built, at the phase set before if any.
Mount ==
  /\ ~mounted
  /\ mounted' = TRUE
  /\ phase' = IF phase = "none" THEN "submitted" ELSE phase
  /\ StartLoops
  /\ UNCHANGED <<reduced, mqDue, beamVars, stops>>

\* render(), of what app.js knows of the fleet: new nodes, unlit, and the route,
\* by the fleet's phase if there is one.
Render ==
  /\ mounted
  /\ active' = {}
  /\ \E p \in Phases \cup {phase} : phase' = p /\ stops' = RouteAt(p)
  /\ UNCHANGED <<mounted, reduced, mqDue, loopVars, fired, ends, beams, darkenings, rings>>

-----------------------------------------------------------------------------
(* Beams.                                                                  *)

\* Both ends are lit, if the scope has them.  With reduced motion the arc is
\* shown for 520 ms and its ends for 360.
Beam(from, to) ==
  /\ mounted
  /\ fired < MaxBeams
  /\ fired' = fired + 1
  /\ ends' = [ends EXCEPT ![fired'] = {from, to}]
  /\ active' = active \cup ({from, to} \cap Agents)
  /\ beams' = [beams EXCEPT ![fired'] = IF reduced THEN "flashing" ELSE "flying"]
  /\ darkenings' = IF reduced THEN darkenings \cup {fired'} ELSE darkenings
  /\ UNCHANGED <<mounted, reduced, mqDue, loopVars, rings, routeVars>>

\* The frame at the end of the way: the ends go dark, though another beam may
\* have lit them as well, and a ring grows.
BeamLands(b) ==
  /\ beams[b] = "flying"
  /\ beams' = [beams EXCEPT ![b] = "gone"]
  /\ active' = active \ ends[b]
  /\ rings' = IF reduced THEN rings ELSE rings + 1
  /\ UNCHANGED <<mounted, reduced, mqDue, loopVars, fired, ends, darkenings, routeVars>>

\* Wrong on purpose (EveryBeamEnds): the timer looks at the preference again.
FlashEndsIfReduced(b) ==
  /\ beams[b] = "flashing" /\ b \notin darkenings
  /\ beams' = IF reduced THEN [beams EXCEPT ![b] = "gone"] ELSE beams
  /\ UNCHANGED <<mounted, reduced, mqDue, loopVars, active, fired, ends, darkenings,
                 rings, routeVars>>

\* The timers of reduced motion: 520 ms, which does nothing if the beam is gone,
\* and 360 ms, which nobody clears.
FlashEnds(b) ==
  /\ beams[b] = "flashing" /\ b \notin darkenings
  /\ beams' = [beams EXCEPT ![b] = "gone"]
  /\ UNCHANGED <<mounted, reduced, mqDue, loopVars, active, fired, ends, darkenings,
                 rings, routeVars>>

Darken(b) ==
  /\ b \in darkenings
  /\ darkenings' = darkenings \ {b}
  /\ active' = active \ ends[b]
  /\ UNCHANGED <<mounted, reduced, mqDue, loopVars, fired, ends, beams, rings, routeVars>>

\* The last frame of an impact ring; one that reset() took away has its frames
\* all the same.
RingGone ==
  /\ rings > 0
  /\ rings' = rings - 1
  /\ UNCHANGED <<mounted, reduced, mqDue, loopVars, active, fired, ends, beams,
                 darkenings, routeVars>>

\* Wrong on purpose (HighlightHasBeam): beams are removed, their ends stay lit.
ClearBeamsOnly ==
  /\ beams' = [b \in BeamIds |-> IF beams[b] = "none" THEN "none" ELSE "gone"]
  /\ UNCHANGED active

\* reset(): no beam is left, and no node lit.
ClearBeams ==
  /\ beams' = [b \in BeamIds |-> IF beams[b] = "none" THEN "none" ELSE "gone"]
  /\ active' = {}

Reset ==
  /\ ClearBeams
  /\ UNCHANGED <<mounted, reduced, mqDue, loopVars, fired, ends, darkenings, rings, routeVars>>

-----------------------------------------------------------------------------
(* The preference.                                                         *)

\* The event comes after the change.
SwitchMotion ==
  /\ reduced' = ~reduced
  /\ mqDue' = TRUE
  /\ UNCHANGED <<mounted, loopVars, beamVars, routeVars>>

OnMq ==
  /\ mqDue
  /\ mqDue' = FALSE
  /\ \/ ~mounted /\ UNCHANGED <<loopVars, beams, active>>
     \/ mounted /\ StartLoops /\ IF reduced THEN ClearBeams ELSE UNCHANGED <<beams, active>>
  /\ UNCHANGED <<mounted, reduced, fired, ends, darkenings, rings, routeVars>>

-----------------------------------------------------------------------------
Page ==
  \/ Mount \/ Render \/ Reset
  \/ \E p \in Phases : SetPhase(p)
  \/ \E from, to \in Agents \cup {Stranger} : Beam(from, to)

Next ==
  \/ Page
  \/ \E l \in Loops : LoopFrame(l)
  \/ \E b \in BeamIds : BeamLands(b) \/ FlashEnds(b) \/ Darken(b)
  \/ RingGone
  \/ SwitchMotion \/ OnMq

Spec == Init /\ [][Next]_vars

Fairness ==
  /\ \A b \in BeamIds : WF_vars(BeamLands(b)) /\ WF_vars(FlashEnds(b)) /\ WF_vars(Darken(b))
  /\ WF_vars(OnMq)

FairSpec == Spec /\ Fairness
-----------------------------------------------------------------------------
(* Properties.                                                             *)

\* Each loop has exactly one frame under way if motion is wanted, and none if
\* it is reduced, however often the preference changes; but between a change
\* and its event (holotable.js 539-563, 657-670, 1168-1180).
MotionAsPreferred ==
  mounted /\ ~mqDue => \A l \in Loops : frames[l] = IF reduced THEN 0 ELSE 1

\* No node stays lit without a beam that will darken it (holotable.js 949-951:
\* "highlight both endpoints briefly").
HighlightHasBeam ==
  \A a \in active : \E b \in BeamIds :
    a \in ends[b] /\ (beams[b] = "flying" \/ b \in darkenings)

\* Once lit, the route has exactly those stops done that the fleet has passed,
\* whatever it showed before: a replay takes the phase back to the start
\* (holotable.js 870-895).
RouteIsPhase ==
  mounted /\ (\E s \in Stops : stops[s] # "plain") =>
    \A s \in Stops : stops[s] = "is-done" <=> phase = "completed" \/ s < Waypoint(phase)

\* A beam does not hang in the scope (holotable.js 1007-1041).
EveryBeamEnds ==
  \A b \in BeamIds : beams[b] \in {"flying", "flashing"} ~> beams[b] = "gone"

-----------------------------------------------------------------------------
(* The inductive invariant behind the safety properties.                   *)

\* The frame that is under way is the one a loop can cancel.
HandleKnown == \A l \in Loops : frames[l] = IF handle[l] THEN 1 ELSE 0

\* A beam that was not fired has no timer and no frame.
UnfiredIdle ==
  \A b \in BeamIds : b > fired => beams[b] = "none" /\ b \notin darkenings

\* Before the scope is there, no loop runs and no stop is lit.
UnmountedStill == ~mounted => \A l \in Loops : ~handle[l]
UnmountedPlain == ~mounted => \A s \in Stops : stops[s] = "plain"

IInv ==
  /\ HandleKnown /\ UnmountedStill /\ MotionAsPreferred
  /\ UnfiredIdle /\ HighlightHasBeam
  /\ UnmountedPlain /\ RouteIsPhase
=============================================================================

--------------------------- MODULE Holotable_proof ---------------------------
(***************************************************************************)
(* Theorems about Holotable: its loops run as preferred, no node stays lit *)
(* for good, and the route shows the phase, for any agents and beams.      *)
(***************************************************************************)
EXTENDS Holotable, TLAPS

\* The parts of a step: what it does to loops, beams and route are three
\* questions, and an action that leaves the variables of one alone keeps it.
MotionInv == HandleKnown /\ UnmountedStill /\ MotionAsPreferred
LightsInv == UnfiredIdle /\ HighlightHasBeam
RouteInv  == UnmountedPlain /\ RouteIsPhase

-----------------------------------------------------------------------------
(* Types.                                                                  *)

LEMMA RouteType ==
  ASSUME NEW p
  PROVE  RouteAt(p) \in [Stops -> {"plain", "is-active", "is-done"}]
BY DEF RouteAt

LEMMA StartLoopsType ==
  ASSUME TypeOK, HandleKnown, StartLoops
  PROVE  frames' \in [Loops -> 0..1] /\ handle' \in [Loops -> BOOLEAN]
BY DEF TypeOK, HandleKnown, StartLoops, Stopped

LEMMA TypeInit == Init => TypeOK
<1> SUFFICES ASSUME Init PROVE TypeOK
  OBVIOUS
<1>1. mounted \in BOOLEAN /\ reduced \in BOOLEAN /\ mqDue \in BOOLEAN
  BY DEF Init
<1>2. frames \in [Loops -> 0..1] /\ handle \in [Loops -> BOOLEAN]
  BY DEF Init
<1>3. fired \in 0..MaxBeams /\ rings \in Nat
  BY HolotableAssumption DEF HolotableAssumption, Init
<1>4. /\ active \subseteq Agents /\ darkenings \subseteq BeamIds
      /\ ends \in [BeamIds -> SUBSET (Agents \cup {Stranger})]
      /\ beams \in [BeamIds -> {"none", "flying", "flashing", "gone"}]
  BY DEF Init
<1>5. /\ phase \in Phases \cup {"none"}
      /\ stops \in [Stops -> {"plain", "is-active", "is-done"}]
  BY DEF Init
<1> QED
  BY <1>1, <1>2, <1>3, <1>4, <1>5 DEF TypeOK

LEMMA TypeStep ==
  ASSUME TypeOK, HandleKnown, [Next]_vars
  PROVE  TypeOK'
<1> USE HolotableAssumption DEF HolotableAssumption
<1>1. CASE Mount
  BY <1>1, StartLoopsType DEF Mount, TypeOK, beamVars, Phases
<1>2. CASE Render
  BY <1>2, RouteType DEF Render, TypeOK, loopVars
<1>3. CASE Reset
  BY <1>3 DEF Reset, ClearBeams, TypeOK, loopVars, routeVars
<1>4. ASSUME NEW p \in Phases, SetPhase(p) PROVE TypeOK'
  BY <1>4, RouteType DEF SetPhase, TypeOK, loopVars, beamVars
<1>5. ASSUME NEW from \in Agents \cup {Stranger}, NEW to \in Agents \cup {Stranger},
             Beam(from, to)
      PROVE  TypeOK'
  <2>1. fired' \in BeamIds
    BY <1>5 DEF Beam, TypeOK, BeamIds
  <2>2. QED
    BY <1>5, <2>1 DEF Beam, TypeOK, loopVars, routeVars, BeamIds
<1>6. ASSUME NEW l \in Loops, LoopFrame(l) PROVE TypeOK'
  BY <1>6 DEF LoopFrame, TypeOK, beamVars, routeVars
<1>7. ASSUME NEW b \in BeamIds, BeamLands(b) \/ FlashEnds(b) \/ Darken(b) PROVE TypeOK'
  BY <1>7 DEF BeamLands, FlashEnds, Darken, TypeOK, loopVars, routeVars
<1>8. CASE RingGone
  BY <1>8 DEF RingGone, TypeOK, loopVars, routeVars
<1>9. CASE SwitchMotion
  BY <1>9 DEF SwitchMotion, TypeOK, loopVars, beamVars, routeVars
<1>10. CASE OnMq
  <2>1. frames' \in [Loops -> 0..1] /\ handle' \in [Loops -> BOOLEAN]
    BY <1>10, StartLoopsType DEF OnMq, TypeOK, loopVars
  <2>2. QED
    BY <1>10, <2>1 DEF OnMq, ClearBeams, TypeOK, routeVars
<1>11. CASE UNCHANGED vars
  BY <1>11 DEF vars, TypeOK, loopVars, beamVars, routeVars
<1> QED
  BY <1>1, <1>2, <1>3, <1>4, <1>5, <1>6, <1>7, <1>8, <1>9, <1>10, <1>11 DEF Next, Page

-----------------------------------------------------------------------------
(* The loops.                                                              *)

\* Started again, a loop has the frame it wants, whatever ran before.
LEMMA StartedAsPreferred ==
  ASSUME TypeOK, HandleKnown, StartLoops, NEW l \in Loops
  PROVE  /\ handle'[l] = ~reduced
         /\ frames'[l] = IF reduced THEN 0 ELSE 1
<1>1. Stopped(l) = 0
  BY DEF Stopped, HandleKnown, TypeOK
<1>2. QED
  BY <1>1 DEF StartLoops, TypeOK

LEMMA MotionUntouched ==
  ASSUME MotionInv, UNCHANGED <<mounted, reduced, mqDue, frames, handle>>
  PROVE  MotionInv'
BY DEF MotionInv, HandleKnown, UnmountedStill, MotionAsPreferred

LEMMA MotionStep ==
  ASSUME TypeOK, MotionInv, [Next]_vars
  PROVE  MotionInv'
<1> USE DEF MotionInv
<1>1. CASE Mount
  <2>1. \A l \in Loops : /\ handle'[l] = ~reduced
                         /\ frames'[l] = IF reduced THEN 0 ELSE 1
    BY <1>1, StartedAsPreferred DEF Mount
  <2>2. QED
    BY <1>1, <2>1 DEF Mount, HandleKnown, UnmountedStill, MotionAsPreferred
<1>2. ASSUME NEW l \in Loops, LoopFrame(l) PROVE MotionInv'
  <2>1. handle[l] /\ handle' = handle /\ frames' = frames
    BY <1>2 DEF LoopFrame, HandleKnown, TypeOK
  <2>2. QED
    BY <1>2, <2>1, MotionUntouched DEF LoopFrame
<1>3. CASE SwitchMotion
  BY <1>3 DEF SwitchMotion, HandleKnown, UnmountedStill, MotionAsPreferred, loopVars
<1>4. CASE OnMq
  <2>1. CASE ~mounted
    BY <1>4, <2>1 DEF OnMq, HandleKnown, UnmountedStill, MotionAsPreferred, loopVars
  <2>2. CASE mounted
    <3>1. \A l \in Loops : /\ handle'[l] = ~reduced
                           /\ frames'[l] = IF reduced THEN 0 ELSE 1
      BY <1>4, <2>2, StartedAsPreferred DEF OnMq
    <3>2. QED
      BY <1>4, <2>2, <3>1 DEF OnMq, HandleKnown, UnmountedStill, MotionAsPreferred
  <2>3. QED
    BY <2>1, <2>2
<1>5. CASE Render \/ Reset \/ RingGone \/ UNCHANGED vars
  BY <1>5, MotionUntouched DEF Render, Reset, RingGone, vars, loopVars
<1>6. ASSUME NEW p, SetPhase(p) PROVE MotionInv'
  BY <1>6, MotionUntouched DEF SetPhase, loopVars
<1>7. ASSUME NEW from, NEW to, Beam(from, to) PROVE MotionInv'
  BY <1>7, MotionUntouched DEF Beam, loopVars
<1>8. ASSUME NEW b, BeamLands(b) \/ FlashEnds(b) \/ Darken(b) PROVE MotionInv'
  BY <1>8, MotionUntouched DEF BeamLands, FlashEnds, Darken, loopVars
<1> QED
  BY <1>1, <1>2, <1>3, <1>4, <1>5, <1>6, <1>7, <1>8 DEF Next, Page

-----------------------------------------------------------------------------
(* The lights.                                                             *)

LEMMA LightsUntouched ==
  ASSUME LightsInv, UNCHANGED <<active, fired, ends, beams, darkenings>>
  PROVE  LightsInv'
BY DEF LightsInv, UnfiredIdle, HighlightHasBeam

\* Without a light there is nothing to darken.
LEMMA DarkIsFine ==
  ASSUME UnfiredIdle', active' = {}
  PROVE  LightsInv'
BY DEF LightsInv, HighlightHasBeam

LEMMA LightsStep ==
  ASSUME TypeOK, LightsInv, [Next]_vars
  PROVE  LightsInv'
<1> USE DEF LightsInv
<1>1. ASSUME NEW from \in Agents \cup {Stranger}, NEW to \in Agents \cup {Stranger},
             Beam(from, to)
      PROVE  LightsInv'
  <2>1. fired' \in BeamIds /\ fired' > fired /\ fired \in Nat /\ fired' = fired + 1
    BY <1>1, HolotableAssumption DEF Beam, TypeOK, BeamIds
  <2>2. beams[fired'] = "none" /\ fired' \notin darkenings
    BY <2>1 DEF UnfiredIdle
  <2>3. UnfiredIdle'
    BY <1>1, <2>1 DEF Beam, UnfiredIdle, TypeOK, BeamIds
  <2>4. ASSUME NEW a \in active'
        PROVE  \E b \in BeamIds : a \in ends'[b] /\ (beams'[b] = "flying" \/ b \in darkenings')
    <3>1. CASE a \in active
      <4>1. PICK b \in BeamIds : a \in ends[b] /\ (beams[b] = "flying" \/ b \in darkenings)
        BY <3>1 DEF HighlightHasBeam
      <4>2. b # fired'
        BY <4>1, <2>2
      <4>3. QED
        BY <1>1, <4>1, <4>2 DEF Beam, TypeOK
    <3>2. CASE a \in {from, to}
      <4>1. a \in ends'[fired']
        BY <1>1, <2>1, <3>2 DEF Beam, TypeOK
      <4>2. beams'[fired'] = "flying" \/ fired' \in darkenings'
        BY <1>1, <2>1 DEF Beam, TypeOK
      <4>3. QED
        BY <2>1, <4>1, <4>2
    <3>3. QED
      BY <1>1, <3>1, <3>2 DEF Beam
  <2>5. QED
    BY <2>3, <2>4 DEF HighlightHasBeam
<1>2. ASSUME NEW b \in BeamIds, BeamLands(b) \/ Darken(b) PROVE LightsInv'
  <2>1. active' = active \ ends[b] /\ ends' = ends /\ fired' = fired
    BY <1>2 DEF BeamLands, Darken
  <2>2. UnfiredIdle'
    BY <1>2 DEF BeamLands, Darken, UnfiredIdle, TypeOK
  <2>3. ASSUME NEW a \in active'
        PROVE  \E c \in BeamIds : a \in ends'[c] /\ (beams'[c] = "flying" \/ c \in darkenings')
    <3>1. PICK c \in BeamIds : a \in ends[c] /\ (beams[c] = "flying" \/ c \in darkenings)
      BY <2>1 DEF HighlightHasBeam
    <3>2. c # b
      BY <2>1, <3>1
    <3>3. QED
      BY <1>2, <2>1, <3>1, <3>2 DEF BeamLands, Darken, TypeOK
  <2>4. QED
    BY <2>2, <2>3 DEF HighlightHasBeam
<1>3. ASSUME NEW b \in BeamIds, FlashEnds(b) PROVE LightsInv'
  BY <1>3 DEF FlashEnds, UnfiredIdle, HighlightHasBeam, TypeOK
<1>4. CASE Reset
  BY <1>4, DarkIsFine DEF Reset, ClearBeams, UnfiredIdle
<1>5. CASE Render
  BY <1>5, DarkIsFine DEF Render, UnfiredIdle
<1>6. CASE OnMq
  <2>1. CASE active' = active /\ beams' = beams
    BY <1>6, <2>1, LightsUntouched DEF OnMq
  <2>2. CASE ClearBeams
    BY <1>6, <2>2, DarkIsFine DEF OnMq, ClearBeams, UnfiredIdle
  <2>3. QED
    BY <1>6, <2>1, <2>2 DEF OnMq
<1>7. CASE Mount \/ RingGone \/ SwitchMotion \/ UNCHANGED vars
  BY <1>7, LightsUntouched DEF Mount, RingGone, SwitchMotion, vars, beamVars
<1>8. ASSUME NEW p, SetPhase(p) PROVE LightsInv'
  BY <1>8, LightsUntouched DEF SetPhase, beamVars
<1>9. ASSUME NEW l, LoopFrame(l) PROVE LightsInv'
  BY <1>9, LightsUntouched DEF LoopFrame, beamVars
<1> QED
  BY <1>1, <1>2, <1>3, <1>4, <1>5, <1>6, <1>7, <1>8, <1>9 DEF Next, Page

-----------------------------------------------------------------------------
(* The route.                                                              *)

\* What applyRouteProgress() draws is the phase it was given, if it is lit.
LEMMA RouteShows ==
  ASSUME NEW p, NEW s \in Stops, RouteAt(p)[s] # "plain",
         NEW t \in Stops
  PROVE  RouteAt(p)[t] = "is-done" <=> p = "completed" \/ t < Waypoint(p)
<1>1. p # "other"
  BY DEF RouteAt
<1>2. Waypoint(p) \in 0..3
  BY DEF Waypoint
<1>3. QED
  BY <1>1, <1>2 DEF RouteAt, Stops

LEMMA DrawnIsPhase ==
  ASSUME UnmountedPlain', stops' = RouteAt(phase')
  PROVE  RouteInv'
<1>1. ASSUME NEW s \in Stops, stops'[s] # "plain", NEW t \in Stops
      PROVE  stops'[t] = "is-done" <=> phase' = "completed" \/ t < Waypoint(phase')
  BY <1>1, RouteShows
<1>2. QED
  BY <1>1 DEF RouteInv, RouteIsPhase, Waypoint

LEMMA RouteUntouched ==
  ASSUME RouteInv, UNCHANGED <<mounted, phase, stops>>
  PROVE  RouteInv'
BY DEF RouteInv, UnmountedPlain, RouteIsPhase, Waypoint

LEMMA RouteStep ==
  ASSUME RouteInv, [Next]_vars
  PROVE  RouteInv'
<1>1. CASE Mount
  BY <1>1 DEF Mount, RouteInv, UnmountedPlain, RouteIsPhase
<1>2. CASE Render
  BY <1>2, DrawnIsPhase DEF Render, UnmountedPlain
<1>3. ASSUME NEW p \in Phases, SetPhase(p) PROVE RouteInv'
  <2>1. CASE mounted
    BY <1>3, <2>1, DrawnIsPhase DEF SetPhase, UnmountedPlain
  <2>2. CASE ~mounted
    BY <1>3, <2>2 DEF SetPhase, RouteInv, UnmountedPlain, RouteIsPhase
  <2>3. QED
    BY <2>1, <2>2
<1>4. CASE Reset \/ RingGone \/ SwitchMotion \/ OnMq \/ UNCHANGED vars
  BY <1>4, RouteUntouched DEF Reset, RingGone, SwitchMotion, OnMq, vars, routeVars
<1>5. ASSUME NEW from, NEW to, Beam(from, to) PROVE RouteInv'
  BY <1>5, RouteUntouched DEF Beam, routeVars
<1>6. ASSUME NEW l, LoopFrame(l) PROVE RouteInv'
  BY <1>6, RouteUntouched DEF LoopFrame, routeVars
<1>7. ASSUME NEW b, BeamLands(b) \/ FlashEnds(b) \/ Darken(b) PROVE RouteInv'
  BY <1>7, RouteUntouched DEF BeamLands, FlashEnds, Darken, routeVars
<1> QED
  BY <1>1, <1>2, <1>3, <1>4, <1>5, <1>6, <1>7 DEF Next, Page

-----------------------------------------------------------------------------
(* The theorems.                                                           *)

\* In every reachable state loops, lights and route are as the invariant says
\* (holotable.js 539-1180).
THEOREM Invariance == Spec => [](TypeOK /\ IInv)
<1>1. Init => TypeOK /\ IInv
  <2>1. Init => MotionInv
    BY DEF Init, MotionInv, HandleKnown, UnmountedStill, MotionAsPreferred
  <2>2. Init => LightsInv
    BY DEF Init, LightsInv, UnfiredIdle, HighlightHasBeam
  <2>3. Init => RouteInv
    BY DEF Init, RouteInv, UnmountedPlain, RouteIsPhase
  <2>4. QED
    BY <2>1, <2>2, <2>3, TypeInit DEF IInv, MotionInv, LightsInv, RouteInv
<1>2. TypeOK /\ IInv /\ [Next]_vars => (TypeOK /\ IInv)'
  <2> SUFFICES ASSUME TypeOK, IInv, [Next]_vars PROVE (TypeOK /\ IInv)'
    OBVIOUS
  <2>1. MotionInv /\ LightsInv /\ RouteInv
    BY DEF IInv, MotionInv, LightsInv, RouteInv
  <2>2. TypeOK' /\ MotionInv' /\ LightsInv' /\ RouteInv'
    BY <2>1, TypeStep, MotionStep, LightsStep, RouteStep DEF MotionInv
  <2>3. QED
    BY <2>2 DEF IInv, MotionInv, LightsInv, RouteInv
<1>3. QED
  BY <1>1, <1>2, PTL DEF Spec

\* The scope's variables have their types.
THEOREM TypesCorrect == Spec => []TypeOK
BY Invariance, PTL

\* A loop has one frame under way or none, as preferred, however often the
\* preference changes (holotable.js 539-563, 657-670, 1168-1180).
THEOREM LoopsAsPreferred == Spec => []MotionAsPreferred
<1>1. IInv => MotionAsPreferred
  BY DEF IInv
<1>2. QED
  BY Invariance, <1>1, PTL

\* A node that is lit has a beam that will darken it, however many beams
\* overlap (holotable.js 944-1098).
THEOREM LightsHaveBeams == Spec => []HighlightHasBeam
<1>1. IInv => HighlightHasBeam
  BY DEF IInv
<1>2. QED
  BY Invariance, <1>1, PTL

\* The route never shows another phase than the fleet's, also when the phase
\* goes back (holotable.js 870-895).
THEOREM RouteFollowsPhase == Spec => []RouteIsPhase
<1>1. IInv => RouteIsPhase
  BY DEF IInv
<1>2. QED
  BY Invariance, <1>1, PTL
=============================================================================

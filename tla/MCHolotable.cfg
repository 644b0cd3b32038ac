CONSTANTS
  Agents = {a1, a2}
  Stranger = other
  MaxBeams = 2

SPECIFICATION FairSpec
INVARIANTS
  TypeOK
  MotionAsPreferred
  HighlightHasBeam
  RouteIsPhase
PROPERTIES
  EveryBeamEnds

\* Clicks are finite, so the console is at rest in the end.
CONSTANTS
  Script <- MCScript
  MaxRows = 4
  MaxClicks = 2

SPECIFICATION FairSpec
INVARIANTS
  TypeOK
  OneDriver
  TimelineKnown
  SpineIsTimeline
  StopAtHand
  RedAlertHasCause
PROPERTIES
  EveryReplayEnds
CHECK_DEADLOCK FALSE

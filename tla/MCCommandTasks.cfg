\* Requests are finite, so the system stops once all are answered.
CONSTANTS
  s1 = s1
  s2 = s2
  r1 = r1
  Starts <- MCStarts
  Resets <- MCResets
  Autostart = Autostart
  NoOne = NoOne
  NumHops = 2
  StreamHops <- MCStreamHops
  GoHops <- MCGoHops
  MaxLives = 2
  StreamCommands <- MCStreamCommands
  SendCommands <- MCSendCommands

SPECIFICATION CommandFairSpec
INVARIANTS
  TypeOK
  OneRunOnRecord
  RunUndisturbed
  PhaseHasEvidence
  AutostartYields
  CommandTypeOK
  CompletedAfterOwnRun
PROPERTIES
  ImplementsBoard
  EveryRequestAnswered
  EveryStreamAnswered
  CommandKeepsLifecycle
CHECK_DEADLOCK FALSE

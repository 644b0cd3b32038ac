\* A mission whose hops were canceled on the agents is recorded as completed.
CONSTANTS
  s1 = s1
  s2 = s2
  r1 = r1
  Starts <- MCStarts
  Resets <- MCResets
  Autostart = Autostart
  NoOne = NoOne
  NumHops = 3
  StreamHops <- MCStreamHops
  GoHops <- MCGoHops
  MaxLives = 2

SPECIFICATION Spec
INVARIANT
  CompletedMissionHasCompletedTasks
CHECK_DEADLOCK FALSE

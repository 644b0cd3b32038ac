\* Requests are finite, so the agent is idle in the end.
CONSTANTS
  s1 = s1
  s2 = s2
  sd = sd
  c1 = c1
  c2 = c2
  b1 = b1
  b2 = b2
  Streams <- MCStreams
  Sends <- MCSends
  Cancels <- MCCancels
  Subscribers <- MCSubscribers
  NumPhases = 2

SPECIFICATION Spec
INVARIANT
  CancelSticks
CHECK_DEADLOCK FALSE

\* A subscriber to an active task is not told how it ends.
CONSTANTS
  st = st
  sd = sd
  c1 = c1
  c2 = c2
  sb = sb
  gt = gt
  Streams <- MCStreams
  Sends <- MCSends
  Cancels <- MCCancels
  Subscribers <- MCSubscribers
  Gets <- MCGets
  NumPhases = 2
  MaxRequests = 3
  NoWrite = NoWrite
  NoTask = NoTask

SPECIFICATION Spec
INVARIANT
  SubscriberSeesTheEnd
CHECK_DEADLOCK FALSE

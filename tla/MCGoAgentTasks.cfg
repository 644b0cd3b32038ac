\* Requests are finite, so the agent is idle in the end.
CONSTANTS
  st = st
  sd = sd
  c1 = c1
  c2 = c2
  sb = sb
  gt = gt
  Streams <- MCStreams
  Sends <- MCSends
  Cancels <- MCCancels
  Subscribers <- MCSubscribers
  Gets <- MCGets
  NumPhases = 2
  MaxRequests = 3
  NoWrite = NoWrite
  NoTask = NoTask

SPECIFICATION FairSpec
INVARIANTS
  TypeOK
  AnswersAsAssumed
  CompletedShowsResult
PROPERTIES
  ImplementsLifecycle
  EveryRequestEnds
CHECK_DEADLOCK FALSE

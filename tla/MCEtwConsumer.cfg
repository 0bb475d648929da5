SPECIFICATION FairSpec
CONSTANTS
  Trace = trace
  Detector = detector
  Writers = {trace, detector}
  Nobody = nobody
  MaxEtwEvents = 2
  MaxEvents = 3
  MaxStarts = 2
INVARIANT TypeOK
INVARIANT SessionIsOwn
INVARIANT EventsInOrder
INVARIANT NothingIsPulledAway
PROPERTY TraceComesToEnd
\* After MaxStarts starts the agent stays down.
CHECK_DEADLOCK FALSE

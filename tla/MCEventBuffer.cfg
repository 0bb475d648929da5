SPECIFICATION FairSpec
CONSTANTS
  Pushers = {p1, p2}
  Reader = reader
  Nobody = nobody
  NoEvent = noEvent
  Kinds = {"Thread", "Process"}
  Size <- MCSize
  MaxQueue = 1
  BufferSize = 2
  MaxSeq = 3
INVARIANT TypeOK
INVARIANT CountMatchesList
INVARIANT OverrunBound
INVARIANT EveryEventOnce
PROPERTY DeliversInOrder
PROPERTY EventuallyDelivered
\* After CleanupEventBuffer the driver is gone.
CHECK_DEADLOCK FALSE

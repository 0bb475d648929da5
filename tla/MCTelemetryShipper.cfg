SPECIFICATION FairSpec
CONSTANTS
  Producers = {p1, p2}
  BatchSize = 2
  MaxBuffer = 3
  MaxEvents = 5
INVARIANT TypeOK
INVARIANT EveryEventOnce
PROPERTY RetryIsWhole
PROPERTY EventuallyStored
PROPERTY ShutdownEnds
\* After ShutdownTelemetryShipper the component is stopped.
CHECK_DEADLOCK FALSE

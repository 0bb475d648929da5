SPECIFICATION FairSpec
INVARIANT TypeOK
INVARIANT EventsFindEngines
PROPERTY ShutdownEnds
PROPERTY SeenStopEnds
\* A service that gave up, with no event thread, has stopped for good.
CHECK_DEADLOCK FALSE

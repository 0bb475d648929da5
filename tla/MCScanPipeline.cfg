SPECIFICATION FairScanSpec
CONSTANTS
  Files = {"f1", "f2"}
  Base <- MCBase
  Producers = {"events", "pipe"}
  Device = {"events"}
  MaxJobs = 2
  MaxWrites = 1
  MaxCommands = 1
INVARIANT ScanTypeOK
INVARIANT EachScannedOnce
INVARIANT EntriesMatchVault
PROPERTY EventuallyScanned
\* The bounds let every behaviour come to rest.
CHECK_DEADLOCK FALSE

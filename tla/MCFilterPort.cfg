SPECIFICATION FairSpec
CONSTANTS
  Threads = {scanner, program}
  AgentThreads = {scanner}
  MaxConnections = 2
INVARIANT TypeOK
INVARIANT NamesAreReleased
INVARIANT OwnIoIsSkipped
PROPERTY IoCompletes
\* The filter may be unloaded for good.
CHECK_DEADLOCK FALSE

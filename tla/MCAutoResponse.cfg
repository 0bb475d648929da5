SPECIFICATION FairSpec
CONSTANTS
  Pids = {agent, p}
  Self = agent
  Old = {p}
  MaxQueue = 2
  MaxTracked = 1
  MaxProcesses = 4
  MaxActs = 2
INVARIANT TypeOK
INVARIANT TrackerCatchesUp
INVARIANT ActsAreAttributed
PROPERTY CulpritIsStopped
\* The bounds on processes and acts let every behaviour come to rest.
CHECK_DEADLOCK FALSE

SPECIFICATION FairSpec
CONSTANTS
  Threads = {t1, t2}
  NoCall = noCall
  MayFail = {"device", "symlink", "registry", "object"}
  MaxEntries = 2
  MaxLoads = 2
INVARIANT TypeOK
INVARIANT CallbacksFindQueue
INVARIANT NothingLeftBehind
PROPERTY UnloadEnds
\* The driver may be loaded MaxLoads times; then nothing happens any more.
CHECK_DEADLOCK FALSE

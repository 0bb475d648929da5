SPECIFICATION Spec
CONSTANTS
  Threads = {t1, t2}
  NoCall = noCall
  MayFail = {"process", "thread"}
  MaxEntries = 2
  MaxLoads = 2
\* The driver may be loaded MaxLoads times; then nothing happens any more.
CHECK_DEADLOCK FALSE
INVARIANT NoCallbackSurvivesFailedLoad

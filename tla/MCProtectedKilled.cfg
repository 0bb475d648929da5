SPECIFICATION Spec
CONSTANTS
  Pids = {agent, p}
  Self = agent
  Old = {p}
  MaxQueue = 2
  MaxTracked = 1
  MaxProcesses = 4
  MaxActs = 2
INVARIANT ProtectedNeverKilled
CHECK_DEADLOCK FALSE

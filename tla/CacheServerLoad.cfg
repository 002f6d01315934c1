SPECIFICATION Spec
CONSTANTS
  a1 = a1
  Accounts = {a1}
  NoAcc = NoAcc
  MaxSaves = 1
  MaxWsConns = 1
  MaxDbConns = 2
  MaxRuns = 1
INVARIANT LoadRequested
\* The instance ends when the bounds on connections and runs are used up.
CHECK_DEADLOCK FALSE

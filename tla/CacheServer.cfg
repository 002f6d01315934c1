SPECIFICATION Spec
CONSTANTS
  a1 = a1
  Accounts = {a1}
  NoAcc = NoAcc
  MaxSaves = 2
  MaxWsConns = 2
  MaxDbConns = 2
  MaxRuns = 2
INVARIANTS TypeOK 
PROPERTIES NotSetBack  LoginAnswered
\* The instance ends when the bounds on connections and runs are used up.
CHECK_DEADLOCK FALSE

SPECIFICATION Spec
CONSTANTS
  s1 = s1
  s2 = s2
  Slaves = {s1}
  Groups = {{s1}}
  Conns = {1, 2, 3}
  Dbs = {0, 1}
  Size = 3
  MaxEvents <- Three
INVARIANTS ContinuesWhereItLeft
\* It stops when all slaves have caught up.
CHECK_DEADLOCK FALSE

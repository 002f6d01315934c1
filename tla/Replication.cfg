SPECIFICATION Spec
CONSTANTS
  s1 = s1
  s2 = s2
  Slaves = {s1, s2}
  Groups = {{s1}, {s1, s2}}
  Conns = {1, 2, 3}
  Dbs = {0, 1}
  Size = 3
  MaxEvents <- FourOrTwo
INVARIANTS TypeOK BacklogServes OffsetNamesData StreamCompletes
PROPERTIES SlavesCatchUp
\* It stops when all slaves have caught up.
CHECK_DEADLOCK FALSE

SPECIFICATION Spec
CONSTANTS
  v1 = v1
  v2 = v2
  s1 = s1
  s2 = s2
  First = First
  Voters = {v1, v2}
  Replicas = {s1, s2}
  MaxElections = 2
  MaxFlags = 1
  MaxRestarts = 2
SYMMETRY Symmetric
INVARIANTS TypeOK SoundElections FreshEpochs
 
\* The instance ends when the bounds are used up.
CHECK_DEADLOCK FALSE

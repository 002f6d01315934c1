SPECIFICATION Spec
CONSTANTS
  f = f
  s1 = s1
  s2 = s2
  o1 = o1
  NoOne = NoOne
  First = f
  Shard = {f, s1, s2}
  Others = {o1}
  Rank <- Names
  StartEpoch <- Settled
  TopEpoch = 2
  MaxEvents = 1
PROPERTY ReplicasFollow

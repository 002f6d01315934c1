SPECIFICATION Spec
CONSTANTS
  n1 = n1
  n2 = n2
  s1 = s1
  s2 = s2
  Nodes = {n1, n2}
  NoNode = NoNode
  Slots = {s1, s2}
  Boot = Boot
  BootAddr = n1
  LuaFile = TRUE
  MaxCommands = 2
  MaxMoves = 2
  MaxErrors = 1
INVARIANTS TypeOK ReplyMatchesFront ExecutedOnce SlotOrder 
 
\* The instance ends when the process does, or when the bounds are used up.
CHECK_DEADLOCK FALSE

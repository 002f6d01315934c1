SPECIFICATION Spec
CONSTANTS
  LenSize = 2
  MsgSize = 3
  SendbufSize = 8
  BorderSlack = 4
  MsgCanCutMax = 8
  RecvCache = 3
  WireCap = 4
  Lengths <- MCLengths
  MaxMsgs = 2
  MaxConns = 2
  ReceiverReconnects = TRUE
INVARIANT DeliveredWhole
\* The instance ends when MaxConns connections are closed at both ends.
CHECK_DEADLOCK FALSE

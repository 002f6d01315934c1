---------------------------- MODULE SocketStream ----------------------------
(***************************************************************************)
(* One direction of a CSocketCtrl_base connection (common/Socket.cpp): the *)
(* sending end cuts messages into fragments and writes them through a      *)
(* bounded buffer to the kernel, the receiving end reads arbitrary slices  *)
(* of the byte stream, finds the fragments in it by their length headers   *)
(* and puts the messages together again.                                   *)
(*                                                                         *)
(* A byte is the offset it had in the stream of its connection, so a       *)
(* buffer is a sequence of numbers, and what a header field reads as is a  *)
(* question about which bytes lie under it.  Every loop iteration of       *)
(* sendMsg, trySend and tryRecv is an action, in the order the loops give  *)
(* them: the two ends run in different processes and the kernel sits       *)
(* between them.                                                           *)
(***************************************************************************)
EXTENDS Integers, Sequences, Functions

CONSTANTS
  LenSize,          \* sizeof(uint32_t): the length field that starts a header
  MsgSize,          \* sizeof(Msg): the whole header
  SendbufSize,      \* const_iSendbufSize
  BorderSlack,      \* the 200 of "just avoid border problem" in sendMsg
  MsgCanCutMax,     \* MSGCANCUTMAXSIZE: the receive buffer and length limit
  RecvCache,        \* MAX_RECV_CACHESIZE: the most one recv() returns
  WireCap,          \* bytes the kernel holds between send() and recv()
  Lengths,          \* lengths of the messages the application sends
  MaxMsgs,          \* bound on the messages sent
  MaxConns,         \* bound on the connections made
  ReceiverReconnects \* the receiving object outlives a connection: it is a
                     \* client with m_isNeedReConnectWhenLost, not a node
                     \* made by accept_node for one connection

Cut_NoSlack == SendbufSize
Cut == SendbufSize - BorderSlack     \* needLen of sendMsg

ASSUME SizeAssumption ==
  /\ LenSize \in Nat \ {0} /\ MsgSize \in Nat /\ SendbufSize \in Nat
  /\ BorderSlack \in Nat /\ MsgCanCutMax \in Nat /\ RecvCache \in Nat
  /\ LenSize < MsgSize /\ MsgSize <= Cut
  /\ MsgSize < BorderSlack /\ SendbufSize <= MsgCanCutMax

ASSUME LengthAssumption == Lengths \subseteq {n \in Nat : n >= MsgSize}

ASSUME BoundAssumption == /\ WireCap \in Nat /\ MaxMsgs \in Nat
                          /\ MaxConns \in Nat
                          /\ ReceiverReconnects \in BOOLEAN

VARIABLES
  senderOpen, receiverOpen,   \* m_sockfd # -1 at each end
  senderPc,                   \* where the sending end is in sendMsg / trySend
  job,                        \* sendMsg's pMsg, totalLen and curLen
  sendDeque,                  \* m_sendDeque
  sendBuff,                   \* m_sendBuff
  wire,                       \* bytes in the kernel, sent and not received
  broken,                     \* the connection was reset under both ends
  receiverPc,                 \* where the receiving end is in tryRecv / run
  chunk,                      \* sBuf[0..iSize): what recv() returned, unparsed
  recvMsg,                    \* m_recvMsg: the fragment being received
  recvTempDeque,              \* m_recvTempDeque: fragments to be put together
  recvDeque,                  \* m_recvDeque: whole messages for processMsg
  stream,                     \* history: fragments queued on this connection
  accepted,                   \* history: messages sent on this connection
  handled,                    \* history: how many of them processMsg has had
  delivered,                  \* history: every message processMsg has had
  sent,                       \* history: messages sent, over all connections
  conns                       \* history: connections made

senderVars   == <<senderOpen, senderPc, job, sendDeque, sendBuff>>
receiverVars == <<receiverOpen, receiverPc, chunk, recvMsg, recvTempDeque,
                  recvDeque>>
netVars      == <<wire, broken>>
historyVars  == <<stream, accepted, handled, delivered, sent, conns>>
vars == <<senderVars, receiverVars, netVars, historyVars>>

(***************************************************************************)
(* Fragments and messages.  A fragment is a Msg in a queue: its header     *)
(* fields, the slice lo..hi-1 of message id that its memory holds, and     *)
(* the offset in the stream at which it is sent.                           *)
(***************************************************************************)
Flags == {"Intergrated", "Father", "Child"}

Fragment == [id : Nat, lo : Nat, hi : Nat, length : Nat, origLen : Nat,
             flag : Flags, start : Nat]

Piece(f) == [id |-> f.id, lo |-> f.lo, hi |-> f.hi]

\* sendMsg's locals between two messages.
NoJob == [id |-> 0, total |-> 0, cur |-> 0]

StreamEnd == IF stream = <<>> THEN 0
             ELSE stream[Len(stream)].start + stream[Len(stream)].length

Bytes(f) == [i \in 1..f.length |-> f.start + i - 1]

\* The fragment of the stream whose first byte is b.
StartsAt(k, b) == k \in 1..Len(stream) /\ stream[k].start = b
FragmentAt(b)  == stream[CHOOSE k \in 1..Len(stream) : StartsAt(k, b)]

\* *(uint32_t*)m_data: the length of a fragment when the bytes under the
\* field are the field of that fragment.  Anything else is payload read as
\* a length, for which 0 (refused by the next test) stands.
LengthField(data) ==
  IF \E k \in 1..Len(stream) : StartsAt(k, data[1])
                               /\ \A i \in 1..LenSize : data[i] = data[1] + i - 1
  THEN FragmentAt(data[1]).length
  ELSE 0

Init ==
  /\ senderOpen = TRUE /\ receiverOpen = TRUE
  /\ senderPc = "idle" /\ job = NoJob /\ sendDeque = <<>> /\ sendBuff = <<>>
  /\ wire = <<>> /\ broken = FALSE
  /\ receiverPc = "idle" /\ chunk = <<>> /\ recvMsg = <<>>
  /\ recvTempDeque = <<>> /\ recvDeque = <<>>
  /\ stream = <<>> /\ accepted = <<>> /\ handled = 0 /\ delivered = <<>>
  /\ sent = 0 /\ conns = 1

----------------------------------------------------------------------------
(***************************************************************************)
(* The sending end.                                                        *)
(***************************************************************************)

\* The application calls sendMsg.  (On a closed socket the call returns at
\* once and the message is gone: no step.)
SendMsg(n) ==
  /\ senderOpen /\ senderPc = "idle"
  /\ sent < MaxMsgs
  /\ sent' = sent + 1
  /\ job' = [id |-> sent + 1, total |-> n, cur |-> 0]
  /\ accepted' = Append(accepted, [id |-> sent + 1, length |-> n])
  /\ senderPc' = "cut"
  /\ UNCHANGED <<senderOpen, sendDeque, sendBuff, receiverVars, netVars,
                 stream, handled, delivered, conns>>

\* buffLen: a fragment after the first gets a header of its own.
BuffLen_Subtract(curMsgLen) == IF job.cur = 0 THEN curMsgLen
                               ELSE curMsgLen - MsgSize
BuffLen(curMsgLen) == IF job.cur = 0 THEN curMsgLen ELSE curMsgLen + MsgSize

\* The fragment that the next iteration of sendMsg's loop makes.
NextFragment ==
  LET left      == job.total - job.cur
      curMsgLen == IF Cut > left THEN left ELSE Cut
      buffLen   == BuffLen(curMsgLen)
  IN [id |-> job.id, lo |-> job.cur, hi |-> job.cur + curMsgLen,
      length |-> buffLen, origLen |-> job.total,
      flag |-> IF job.cur # 0 THEN "Child"
               ELSE IF buffLen = job.total THEN "Intergrated" ELSE "Father",
      start |-> StreamEnd]

CutFragment ==
  /\ senderPc = "cut"
  /\ sendDeque' = Append(sendDeque, NextFragment)
  /\ stream' = Append(stream, NextFragment)
  /\ IF NextFragment.hi < job.total
     THEN job' = [job EXCEPT !.cur = NextFragment.hi] /\ UNCHANGED senderPc
     ELSE job' = NoJob /\ senderPc' = "idle"
  /\ UNCHANGED <<senderOpen, sendBuff, receiverVars, netVars, accepted,
                 handled, delivered, sent, conns>>

\* haveRecvOrSend finds the socket writable and calls trySend.  A pass with
\* nothing queued returns at once and is left out.
HasOutput_QueueOnly == sendDeque # <<>>
HasOutput == sendDeque # <<>> \/ sendBuff # <<>>

TrySend ==
  /\ senderOpen /\ senderPc = "idle" /\ HasOutput
  /\ senderPc' = "fill"
  /\ UNCHANGED <<senderOpen, job, sendDeque, sendBuff, receiverVars, netVars,
                 historyVars>>

HeadFits == /\ sendDeque # <<>>
            /\ Head(sendDeque).length + Len(sendBuff) < SendbufSize

\* The inner loop of trySend moves the queue into the send buffer...
FillBuffer ==
  /\ senderPc = "fill" /\ HeadFits
  /\ sendBuff' = sendBuff \o Bytes(Head(sendDeque))
  /\ sendDeque' = Tail(sendDeque)
  /\ UNCHANGED <<senderOpen, senderPc, job, receiverVars, netVars,
                 historyVars>>

\* ... until the next fragment does not fit; trySend returns when there is
\* nothing in the buffer.
FillDone ==
  /\ senderPc = "fill" /\ ~HeadFits
  /\ senderPc' = IF sendBuff = <<>> THEN "idle" ELSE "send"
  /\ UNCHANGED <<senderOpen, job, sendDeque, sendBuff, receiverVars, netVars,
                 historyVars>>

\* stSendBuff::Copy: the bytes after the first n move to the front.
Unsent_Dropped(n) == <<>>
Unsent(n) == SubSeq(sendBuff, n + 1, Len(sendBuff))

\* send() takes the first n bytes, as many as the kernel has room for or
\* fewer, and the outer loop goes round.
SendBytes(n) ==
  /\ senderPc = "send" /\ receiverOpen /\ ~broken
  /\ n <= Len(sendBuff) /\ Len(wire) + n <= WireCap
  /\ wire' = wire \o SubSeq(sendBuff, 1, n)
  /\ sendBuff' = Unsent(n)
  /\ senderPc' = "fill"
  /\ UNCHANGED <<senderOpen, job, sendDeque, broken, receiverVars,
                 historyVars>>

\* send() fails with EAGAIN: trySend returns and the next tick tries again.
SendAgain ==
  /\ senderPc = "send" /\ receiverOpen /\ ~broken /\ Len(wire) = WireCap
  /\ senderPc' = "idle"
  /\ UNCHANGED <<senderOpen, job, sendDeque, sendBuff, receiverVars, netVars,
                 historyVars>>

\* Close() at the sending end, after a failed send(), an error or end of
\* file seen by its own tryRecv, or the end of its process.  What the kernel
\* has taken still reaches the peer; what waits in the object is freed.
CloseSender ==
  /\ senderOpen
  /\ \/ senderPc = "idle"
     \/ senderPc = "send" /\ (broken \/ ~receiverOpen)
  /\ senderOpen' = FALSE
  /\ senderPc' = "idle" /\ sendDeque' = <<>> /\ sendBuff' = <<>>
  /\ UNCHANGED <<job, receiverVars, netVars, historyVars>>

----------------------------------------------------------------------------
(***************************************************************************)
(* The receiving end.                                                      *)
(***************************************************************************)

\* select() reports the socket readable and recv() returns n bytes, in the
\* first round of tryRecv's loop or a later one.
Recv(n) ==
  /\ receiverOpen /\ ~broken /\ receiverPc \in {"idle", "recv"}
  /\ n <= Len(wire)
  /\ chunk' = SubSeq(wire, 1, n)
  /\ wire' = SubSeq(wire, n + 1, Len(wire))
  /\ receiverPc' = "parse"
  /\ UNCHANGED <<senderVars, broken, receiverOpen, recvMsg, recvTempDeque,
                 recvDeque, historyVars>>

\* recv() fails with EAGAIN: tryRecv returns and run() goes on to processMsg.
RecvAgain ==
  /\ receiverOpen /\ ~broken /\ receiverPc = "recv"
  /\ wire = <<>> /\ senderOpen
  /\ receiverPc' = "process"
  /\ UNCHANGED <<senderVars, netVars, receiverOpen, chunk, recvMsg,
                 recvTempDeque, recvDeque, historyVars>>

\* Close() and reset(), which m_recvTempDeque survives.
ResetReceiver ==
  /\ receiverOpen' = FALSE
  /\ receiverPc' = "idle"
  /\ chunk' = <<>> /\ recvMsg' = <<>> /\ recvDeque' = <<>>
  /\ UNCHANGED recvTempDeque

\* One iteration of tryRecv's parsing loop that does not get past the length
\* field: all of the chunk is kept and tryRecv returns.
ParseShort ==
  /\ receiverPc = "parse"
  /\ Len(recvMsg) < LenSize /\ Len(recvMsg) + Len(chunk) <= LenSize
  /\ recvMsg' = recvMsg \o chunk
  /\ chunk' = <<>>
  /\ receiverPc' = "process"
  /\ UNCHANGED <<senderVars, netVars, receiverOpen, recvTempDeque, recvDeque,
                 historyVars>>

HasLength == Len(recvMsg) >= LenSize \/ Len(recvMsg) + Len(chunk) > LenSize

\* stMsgSize, and the tests of it that make tryRecv give up the connection.
MsgLength == LengthField(recvMsg \o chunk)
BadLength == \/ MsgLength >= MsgCanCutMax \/ MsgLength < MsgSize
             \/ MsgLength < Len(recvMsg)

\* tryRecv fails, at end of file, at an error or at a length it refuses:
\* haveRecvOrSend closes the socket.
TryRecvFails ==
  /\ receiverOpen
  /\ \/ receiverPc \in {"idle", "recv"} /\ broken
     \/ receiverPc \in {"idle", "recv"} /\ wire = <<>> /\ ~senderOpen
     \/ receiverPc = "parse" /\ HasLength /\ BadLength
  /\ ResetReceiver
  /\ UNCHANGED <<senderVars, netVars, historyVars>>

\* The fragment is not complete: keep the bytes and call recv() again.
ParsePart ==
  /\ receiverPc = "parse" /\ HasLength /\ ~BadLength
  /\ Len(recvMsg) + Len(chunk) < MsgLength
  /\ recvMsg' = recvMsg \o chunk
  /\ chunk' = <<>>
  /\ receiverPc' = "recv"
  /\ UNCHANGED <<senderVars, netVars, receiverOpen, recvTempDeque, recvDeque,
                 historyVars>>

\* totalLen of pushRecvTempMsg: the lengths, less the headers of all but one.
TotalLength(frags) ==
  FoldFunction(LAMBDA f, sum : f.length + sum, 0, frags)
    - MsgSize * (Len(frags) - 1)

\* The message pushRecvTempMsg puts together: what was in each fragment, in
\* the order of the queue, under the length its last fragment announces.
Assembled_Backwards(frags) ==
  [length |-> frags[Len(frags)].origLen,
   parts  |-> [i \in 1..Len(frags) |-> Piece(frags[Len(frags) + 1 - i])]]
Assembled(frags) ==
  [length |-> frags[Len(frags)].origLen,
   parts  |-> [i \in 1..Len(frags) |-> Piece(frags[i])]]

\* pushRecvMsg and pushRecvTempMsg with the fragment just completed.
PushRecvMsg(f) ==
  LET temp == Append(recvTempDeque, f)
  IN IF f.flag = "Intergrated"
     THEN /\ recvDeque' = Append(recvDeque,
                                 [length |-> f.length, parts |-> <<Piece(f)>>])
          /\ UNCHANGED recvTempDeque
     ELSE IF TotalLength(temp) = f.origLen
     THEN /\ recvDeque' = Append(recvDeque, Assembled(temp))
          /\ recvTempDeque' = <<>>
     ELSE /\ recvTempDeque' = temp
          /\ UNCHANGED recvDeque

\* What is left of the chunk after the iNeed bytes that complete a fragment.
Rest_NeedWhole == SubSeq(chunk, MsgLength + 1, Len(chunk))
Rest == SubSeq(chunk, MsgLength - Len(recvMsg) + 1, Len(chunk))

\* The fragment is complete: queue it, and parse the rest of the chunk.
ParseWhole ==
  /\ receiverPc = "parse" /\ HasLength /\ ~BadLength
  /\ Len(recvMsg) + Len(chunk) >= MsgLength
  /\ PushRecvMsg(FragmentAt((recvMsg \o chunk)[1]))
  /\ chunk' = Rest
  /\ recvMsg' = <<>>
  /\ receiverPc' = IF chunk' = <<>> THEN "recv" ELSE "parse"
  /\ UNCHANGED <<senderVars, netVars, receiverOpen, historyVars>>

\* run() ends a tick with processMsg, which takes every whole message.
ProcessMsg ==
  /\ receiverPc = "process"
  /\ delivered' = delivered \o recvDeque
  /\ handled' = handled + Len(recvDeque)
  /\ recvDeque' = <<>>
  /\ receiverPc' = "idle"
  /\ UNCHANGED <<senderVars, netVars, receiverOpen, chunk, recvMsg,
                 recvTempDeque, stream, accepted, sent, conns>>

----------------------------------------------------------------------------
(***************************************************************************)
(* The connection.                                                         *)
(***************************************************************************)

\* The connection is reset: both kernels drop what they hold for it.
Break ==
  /\ ~broken /\ senderOpen /\ receiverOpen
  /\ broken' = TRUE
  /\ wire' = <<>>
  /\ UNCHANGED <<senderVars, receiverVars, historyVars>>

\* A new connection, when both ends of the last one are closed.  The end
\* that accept_node made is a new object; the client is the same object,
\* with everything empty that reset() empties.
Reconnect ==
  /\ ~senderOpen /\ ~receiverOpen
  /\ conns < MaxConns /\ conns' = conns + 1
  /\ senderOpen' = TRUE /\ receiverOpen' = TRUE
  /\ wire' = <<>> /\ broken' = FALSE
  /\ recvTempDeque' = IF ReceiverReconnects THEN recvTempDeque ELSE <<>>
  /\ stream' = <<>> /\ accepted' = <<>> /\ handled' = 0
  /\ UNCHANGED <<senderPc, job, sendDeque, sendBuff, receiverPc, chunk,
                 recvMsg, recvDeque, delivered, sent>>

SenderLoop == \/ CutFragment \/ TrySend \/ FillBuffer \/ FillDone
              \/ \E n \in 1..Len(sendBuff) : SendBytes(n)
              \/ SendAgain

ReceiverLoop == \/ \E n \in 1..RecvCache : Recv(n)
                \/ RecvAgain \/ TryRecvFails
                \/ ParseShort \/ ParsePart \/ ParseWhole
                \/ ProcessMsg

Next == \/ \E n \in Lengths : SendMsg(n)
        \/ SenderLoop
        \/ CloseSender
        \/ ReceiverLoop
        \/ Break
        \/ Reconnect

\* Both processes call run() on every node for ever (socket_run).
Spec == Init /\ [][Next]_vars /\ WF_vars(SenderLoop) /\ WF_vars(ReceiverLoop)

----------------------------------------------------------------------------
(***************************************************************************)
(* Properties.                                                             *)
(***************************************************************************)

AssembledMsg == [length : Nat, parts : Seq([id : Nat, lo : Nat, hi : Nat])]

\* The variables have their types: buffers of offsets, queues of fragments.
TypeOK ==
  /\ senderOpen \in BOOLEAN /\ receiverOpen \in BOOLEAN /\ broken \in BOOLEAN
  /\ senderPc \in {"idle", "cut", "fill", "send"}
  /\ receiverPc \in {"idle", "recv", "parse", "process"}
  /\ job \in [id : Nat, total : Nat, cur : Nat]
  /\ sendDeque \in Seq(Fragment) /\ stream \in Seq(Fragment)
  /\ recvTempDeque \in Seq(Fragment)
  /\ sendBuff \in Seq(Nat) /\ wire \in Seq(Nat)
  /\ chunk \in Seq(Nat) /\ recvMsg \in Seq(Nat)
  /\ recvDeque \in Seq(AssembledMsg) /\ delivered \in Seq(AssembledMsg)
  /\ accepted \in Seq([id : Nat, length : Nat])
  /\ handled \in Nat /\ sent \in Nat /\ conns \in Nat

\* tryRecv never meets a length field it must refuse ("msghead erro"): the
\* parser stays on fragment boundaries however send() and recv() slice the
\* stream, also through a length field that arrives in pieces.
HeaderSound == receiverPc = "parse" /\ HasLength => ~BadLength

\* trySend cannot come to rest with a fragment queued: an empty send buffer
\* takes any fragment sendMsg makes (the 200 bytes of slack pay for the
\* header of a child fragment).
NoSendStall == sendDeque # <<>> => Head(sendDeque).length < SendbufSize

\* Neither end writes past its buffer: what trySend copies into m_sendBuff
\* and what tryRecv copies into m_recvMsg fits.
BuffersBounded == Len(sendBuff) < SendbufSize /\ Len(recvMsg) < MsgCanCutMax

\* The parts of an assembled message are one sent message, whole and in order.
IsWhole(m) ==
  /\ m.parts # <<>>
  /\ m.parts[1].lo = 0
  /\ m.parts[Len(m.parts)].hi = m.length
  /\ \A i \in 1..Len(m.parts) - 1 : /\ m.parts[i + 1].id = m.parts[i].id
                                    /\ m.parts[i + 1].lo = m.parts[i].hi

\* Every message handed to processMsg has the content of the message that
\* was sent: what the echo test asserts byte by byte.
DeliveredWhole == \A i \in 1..Len(delivered) : IsWhole(delivered[i])

(***************************************************************************)
(* Why the parser stays on fragment boundaries: at every moment the bytes  *)
(* in m_recvMsg, in the chunk, in the kernel and in m_sendBuff are one     *)
(* consecutive stretch of the stream, which starts where a fragment starts *)
(* and ends where m_sendDeque goes on.                                     *)
(***************************************************************************)

\* The bytes of s are consecutive, from offset b.
RunFrom(s, b) == \A i \in 1..Len(s) : s[i] = b + i - 1

\* The fragments of a connection follow each other without gaps, each at
\* least a header and small enough for both buffers.
StreamOrdered ==
  /\ stream # <<>> => stream[1].start = 0
  /\ \A k \in 1..Len(stream) :
       stream[k].length >= MsgSize /\ stream[k].length < SendbufSize
  /\ \A k \in 1..Len(stream) - 1 :
       stream[k + 1].start = stream[k].start + stream[k].length
  /\ \A j, k \in 1..Len(stream) :
       j < k => stream[j].start + stream[j].length <= stream[k].start

\* The cut position of sendMsg is inside the message.
JobSound == senderPc = "cut" => job.cur < job.total /\ job.total >= MsgSize

\* m_sendDeque holds the last fragments of the stream.
QueueIsSuffix ==
  /\ Len(sendDeque) <= Len(stream)
  /\ \A i \in 1..Len(sendDeque) :
       sendDeque[i] = stream[Len(stream) - Len(sendDeque) + i]

\* A closed end holds nothing.
ClosedEmpty ==
  /\ ~senderOpen => sendDeque = <<>> /\ sendBuff = <<>> /\ senderPc = "idle"
  /\ ~receiverOpen => recvMsg = <<>> /\ chunk = <<>> /\ receiverPc = "idle"

Boundary(b) == b = StreamEnd \/ \E k \in 1..Len(stream) : stream[k].start = b

\* Where the fragments begin that trySend has not yet put in the buffer.
QueueStart == IF sendDeque = <<>> THEN StreamEnd ELSE Head(sendDeque).start

\* The unparsed bytes start at the boundary b.
FramedAt(b) ==
  /\ Boundary(b)
  /\ RunFrom(recvMsg, b)
  /\ RunFrom(chunk, b + Len(recvMsg))
  /\ b + Len(recvMsg) + Len(chunk) <= StreamEnd
  /\ \A k \in 1..Len(stream) :
       stream[k].start = b => Len(recvMsg) < stream[k].length
  /\ ~broken =>
       LET w == b + Len(recvMsg) + Len(chunk)
       IN /\ RunFrom(wire, w)
          /\ w + Len(wire) <= StreamEnd
          /\ senderOpen => /\ RunFrom(sendBuff, w + Len(wire))
                           /\ w + Len(wire) + Len(sendBuff) = QueueStart

Framed == /\ receiverPc # "parse" => chunk = <<>>
          /\ receiverOpen => \E b \in 0..StreamEnd : FramedAt(b)

\* The inductive invariant: the framing of the stream, over both ends.
FramingInv == /\ StreamOrdered /\ JobSound /\ QueueIsSuffix /\ ClosedEmpty
              /\ Framed /\ BuffersBounded

(***************************************************************************)
(* The connection as the code above sees it: a queue of whole messages.    *)
(***************************************************************************)
MessageOf(m) == [id |-> m.parts[1].id, length |-> m.length]

Channel == INSTANCE MessageChannel WITH
  Messages  <- [id : 1..MaxMsgs, length : Lengths],
  up        <- receiverOpen,
  pending   <- IF receiverOpen
               THEN SubSeq(accepted, handled + 1, Len(accepted)) ELSE <<>>,
  delivered <- [i \in 1..Len(delivered) |->
                  IF IsWhole(delivered[i]) THEN MessageOf(delivered[i])
                  ELSE <<"damaged", delivered[i]>>]

\* Every behaviour of the two ends is one of that queue: messages arrive
\* once, whole, in order, only on the connection they were sent on, and a
\* message that is accepted arrives or the receiving end closes.
ImplementsChannel == Channel!Spec
=============================================================================

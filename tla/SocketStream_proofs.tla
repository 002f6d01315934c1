------------------------- MODULE SocketStream_proofs -------------------------
(***************************************************************************)
(* Type correctness and the framing of the byte stream, for every size of  *)
(* the buffers, every set of message lengths and every way the kernel      *)
(* slices the stream; and from them, that what arrives is what was sent    *)
(* and that a connection is the queue of whole messages MessageChannel is. *)
(***************************************************************************)
EXTENDS SocketStream, QueueFacts, FiniteSetTheorems, TLAPS

(***************************************************************************)
(* Stretches of consecutive bytes.                                         *)
(***************************************************************************)

\* Two stretches, the second where the first ends, are one stretch.
LEMMA RunConcat ==
  ASSUME NEW s \in Seq(Nat), NEW t \in Seq(Nat), NEW b \in Nat,
         RunFrom(s, b), RunFrom(t, b + Len(s))
  PROVE  /\ s \o t \in Seq(Nat)
         /\ Len(s \o t) = Len(s) + Len(t)
         /\ RunFrom(s \o t, b)
<1>1. /\ s \o t \in Seq(Nat)
      /\ Len(s \o t) = Len(s) + Len(t)
      /\ \A i \in 1..Len(s) + Len(t) :
           (s \o t)[i] = IF i <= Len(s) THEN s[i] ELSE t[i - Len(s)]
  BY ConcatProperties
<1>2. Len(s) \in Nat /\ Len(t) \in Nat
  OBVIOUS
<1>3. ASSUME NEW i \in 1..Len(s) + Len(t)
      PROVE  (s \o t)[i] = b + i - 1
  <2>1. CASE i <= Len(s)
    BY <1>1, <1>2, <2>1 DEF RunFrom
  <2>2. CASE i > Len(s)
    <3>1. i - Len(s) \in 1..Len(t)
      BY <1>2, <2>2
    <3>2. t[i - Len(s)] = b + Len(s) + (i - Len(s)) - 1
      BY <3>1 DEF RunFrom
    <3>3. QED
      BY <1>1, <1>2, <2>2, <3>2
  <2>3. QED
    BY <1>2, <2>1, <2>2
<1>4. QED
  BY <1>1, <1>3 DEF RunFrom

\* Bytes put behind others add up.
LEMMA ConcatBytes ==
  ASSUME NEW s \in Seq(Nat), NEW t \in Seq(Nat)
  PROVE  s \o t \in Seq(Nat) /\ Len(s \o t) = Len(s) + Len(t)
BY ConcatProperties

\* The first n bytes of a stretch and the rest are stretches that meet.
LEMMA RunSplit ==
  ASSUME NEW s \in Seq(Nat), NEW b \in Nat, NEW n \in 0..Len(s), RunFrom(s, b)
  PROVE  /\ SubSeq(s, 1, n) \in Seq(Nat)
         /\ Len(SubSeq(s, 1, n)) = n
         /\ RunFrom(SubSeq(s, 1, n), b)
         /\ SubSeq(s, n + 1, Len(s)) \in Seq(Nat)
         /\ Len(SubSeq(s, n + 1, Len(s))) = Len(s) - n
         /\ RunFrom(SubSeq(s, n + 1, Len(s)), b + n)
<1>1. Len(s) \in Nat /\ n \in Nat /\ \A i \in 1..Len(s) : s[i] \in Nat
  OBVIOUS
<1>2. /\ SubSeq(s, 1, n) \in Seq(Nat)
      /\ Len(SubSeq(s, 1, n)) = n
      /\ \A i \in 1..n : SubSeq(s, 1, n)[i] = s[i]
  BY <1>1, SubSeqProperties
<1>3. /\ SubSeq(s, n + 1, Len(s)) \in Seq(Nat)
      /\ Len(SubSeq(s, n + 1, Len(s))) = Len(s) - n
      /\ \A i \in 1..Len(s) - n : SubSeq(s, n + 1, Len(s))[i] = s[n + i]
  <2>1. \A i \in n + 1..Len(s) : s[i] \in Nat
    BY <1>1
  <2>2. n + 1 \in Int /\ Len(s) \in Int
    BY <1>1
  <2>3. QED
    BY <1>1, <2>1, <2>2, SubSeqProperties
<1>4. RunFrom(SubSeq(s, 1, n), b)
  BY <1>1, <1>2 DEF RunFrom
<1>5. RunFrom(SubSeq(s, n + 1, Len(s)), b + n)
  BY <1>1, <1>3 DEF RunFrom
<1>6. QED
  BY <1>2, <1>3, <1>4, <1>5

\* The bytes of a fragment are the stretch that begins at its start.
LEMMA RunBytes ==
  ASSUME NEW f \in Fragment
  PROVE  /\ Bytes(f) \in Seq(Nat)
         /\ Len(Bytes(f)) = f.length
         /\ RunFrom(Bytes(f), f.start)
<1>1. f.length \in Nat /\ f.start \in Nat
  BY DEF Fragment
<1>2. \A i \in 1..f.length : f.start + i - 1 \in Nat
  BY <1>1
<1>3. Bytes(f) \in Seq(Nat) /\ Len(Bytes(f)) = f.length
  BY <1>1, <1>2 DEF Bytes
<1>4. QED
  BY <1>1, <1>3 DEF Bytes, RunFrom

(***************************************************************************)
(* The stream of fragments.                                                *)
(***************************************************************************)

\* A fragment ends within the stream, at a boundary, no two start at the
\* same byte, and a boundary before the end is the start of one.
LEMMA StreamFacts ==
  ASSUME stream \in Seq(Fragment), StreamOrdered
  PROVE  /\ StreamEnd \in Nat
         /\ \A k \in 1..Len(stream) :
              /\ stream[k] \in Fragment
              /\ stream[k].start \in Nat /\ stream[k].length \in Nat
              /\ stream[k].length > LenSize
              /\ stream[k].start + stream[k].length <= StreamEnd
              /\ Boundary(stream[k].start + stream[k].length)
         /\ \A j, k \in 1..Len(stream) :
              stream[j].start = stream[k].start => j = k
<1>1. \A k \in 1..Len(stream) : /\ stream[k] \in Fragment
                                /\ stream[k].start \in Nat
                                /\ stream[k].length \in Nat
  <2>1. \A k \in 1..Len(stream) : stream[k] \in Fragment
    OBVIOUS
  <2>2. \A f \in Fragment : f.start \in Nat /\ f.length \in Nat
    BY DEF Fragment
  <2>3. QED
    BY <2>1, <2>2
<1>2. \A k \in 1..Len(stream) : stream[k].length > LenSize
  BY <1>1, SizeAssumption DEF StreamOrdered
<1>3. StreamEnd \in Nat
  BY <1>1 DEF StreamEnd
<1>4. ASSUME NEW k \in 1..Len(stream)
      PROVE  stream[k].start + stream[k].length <= StreamEnd
  <2>1. CASE k = Len(stream)
    BY <1>1, <2>1 DEF StreamEnd
  <2>2. CASE k < Len(stream)
    <3>1. Len(stream) \in 1..Len(stream) /\ stream # <<>>
      BY <2>2
    <3>2. stream[k].start + stream[k].length <= stream[Len(stream)].start
      BY <2>2, <3>1 DEF StreamOrdered
    <3>3. QED
      BY <1>1, <3>1, <3>2 DEF StreamEnd
  <2>3. QED
    BY <2>1, <2>2
<1>5. ASSUME NEW k \in 1..Len(stream)
      PROVE  Boundary(stream[k].start + stream[k].length)
  <2>1. CASE k = Len(stream)
    BY <1>1, <2>1 DEF StreamEnd, Boundary
  <2>2. CASE k < Len(stream)
    <3>1. k \in 1..Len(stream) - 1 /\ k + 1 \in 1..Len(stream)
      BY <2>2
    <3>2. QED
      BY <3>1 DEF StreamOrdered, Boundary
  <2>3. QED
    BY <2>1, <2>2
<1>6. ASSUME NEW j \in 1..Len(stream), NEW k \in 1..Len(stream),
             stream[j].start = stream[k].start
      PROVE  j = k
  <2>1. ~(j < k) /\ ~(k < j)
    BY <1>1, <1>2, <1>6, SizeAssumption DEF StreamOrdered
  <2>2. QED
    BY <2>1
<1>7. QED
  BY <1>1, <1>2, <1>3, <1>4, <1>5, <1>6

\* The parser, at a boundary with the length field in reach, reads the length
\* of the fragment that starts there, and accepts it.
LEMMA ParseFacts ==
  ASSUME TypeOK, StreamOrdered, receiverPc = "parse", HasLength,
         NEW b \in Nat, FramedAt(b)
  PROVE  \E k \in 1..Len(stream) :
           /\ stream[k].start = b
           /\ MsgLength = stream[k].length
           /\ FragmentAt((recvMsg \o chunk)[1]) = stream[k]
           /\ ~BadLength
<1> DEFINE data == recvMsg \o chunk
<1>1. /\ stream \in Seq(Fragment) /\ recvMsg \in Seq(Nat) /\ chunk \in Seq(Nat)
  BY DEF TypeOK
<1>2. /\ data \in Seq(Nat) /\ Len(data) = Len(recvMsg) + Len(chunk)
      /\ RunFrom(data, b)
  BY <1>1, RunConcat DEF FramedAt
<1>3. Len(data) >= LenSize /\ Len(data) > 0
  BY <1>1, <1>2, SizeAssumption DEF HasLength
<1>4. data[1] = b /\ \A i \in 1..LenSize : data[i] = data[1] + i - 1
  <2> HIDE DEF data
  <2>1. Len(data) \in Nat /\ LenSize \in Nat
    BY <1>2, SizeAssumption
  <2>2. \A i \in 1..Len(data) : data[i] = b + i - 1
    BY <1>2 DEF RunFrom
  <2>3. data[1] = b
    BY <1>3, <2>1, <2>2
  <2>4. QED
    BY <1>3, <2>1, <2>2, <2>3
<1>5. b < StreamEnd
  BY <1>1, <1>2, <1>3, StreamFacts DEF FramedAt
<1>6. PICK k \in 1..Len(stream) : stream[k].start = b
  BY <1>1, <1>5, StreamFacts DEF FramedAt, Boundary
<1>7. (CHOOSE j \in 1..Len(stream) : StartsAt(j, b)) = k
  BY <1>1, <1>6, StreamFacts DEF StartsAt
<1>8. FragmentAt(data[1]) = stream[k]
  BY <1>4, <1>7 DEF FragmentAt
<1>9. MsgLength = stream[k].length
  BY <1>4, <1>6, <1>8 DEF MsgLength, LengthField, StartsAt
<1>10. ~BadLength
  <2>1. /\ stream[k].length >= MsgSize /\ stream[k].length < SendbufSize
        /\ stream[k].length \in Nat
    BY <1>1, StreamFacts DEF StreamOrdered
  <2>2. Len(recvMsg) < stream[k].length
    BY <1>6 DEF FramedAt
  <2>3. Len(recvMsg) \in Nat
    BY <1>1
  <2>4. QED
    BY <1>9, <2>1, <2>2, <2>3, SizeAssumption DEF BadLength
<1>11. QED
  BY <1>6, <1>8, <1>9, <1>10

(***************************************************************************)
(* The inductive invariant, action by action.                              *)
(***************************************************************************)

IInv == TypeOK /\ FramingInv

\* The step leaves the unparsed bytes where they begin.
SamePlace == \A b \in 0..StreamEnd : FramedAt(b) => FramedAt(b)'

\* Steps that move no byte and no fragment keep the framing.
LEMMA SameBytes ==
  ASSUME IInv,
         UNCHANGED <<stream, sendDeque, sendBuff, wire, broken, chunk, recvMsg,
                     senderOpen, receiverOpen>>,
         receiverPc' # "parse" => receiverPc # "parse" \/ chunk = <<>>,
         ~senderOpen => senderPc' = "idle",
         ~receiverOpen => receiverPc' = "idle",
         JobSound'
  PROVE  FramingInv' /\ SamePlace
<1>1. StreamOrdered' /\ QueueIsSuffix' /\ BuffersBounded'
  BY DEF IInv, FramingInv, StreamOrdered, QueueIsSuffix, BuffersBounded
<1>2. ClosedEmpty'
  BY DEF IInv, FramingInv, ClosedEmpty
<1>3. \A b : FramedAt(b) => FramedAt(b)'
  BY DEF FramedAt, Boundary, QueueStart, StreamEnd, RunFrom
<1>4. Framed'
  BY <1>3 DEF IInv, FramingInv, Framed, StreamEnd
<1>5. QED
  BY <1>1, <1>2, <1>3, <1>4 DEF FramingInv, SamePlace

LEMMA SendMsgStep ==
  ASSUME IInv, NEW n \in Lengths, SendMsg(n)
  PROVE  IInv' /\ SamePlace
<1>1. n \in Nat /\ n >= MsgSize /\ n > 0
  BY LengthAssumption, SizeAssumption
<1>2. TypeOK'
  <2>1. job' \in [id : Nat, total : Nat, cur : Nat] /\ sent' \in Nat
    BY <1>1 DEF IInv, TypeOK, SendMsg
  <2>2. accepted' \in Seq([id : Nat, length : Nat])
    <3>1. [id |-> sent + 1, length |-> n] \in [id : Nat, length : Nat]
      BY <1>1 DEF IInv, TypeOK
    <3>2. accepted \in Seq([id : Nat, length : Nat])
      BY DEF IInv, TypeOK
    <3>3. QED
      BY <3>1, <3>2 DEF SendMsg
  <2>3. QED
    BY <2>1, <2>2 DEF IInv, TypeOK, SendMsg, netVars, receiverVars
<1>3. JobSound'
  BY <1>1 DEF JobSound, SendMsg
<1>4. FramingInv' /\ SamePlace
  BY <1>3, SameBytes
  DEF IInv, TypeOK, FramingInv, ClosedEmpty, SendMsg, netVars, receiverVars
<1>5. QED
  BY <1>2, <1>4 DEF IInv

\* The steps of the two loops that only move a program counter.
LEMMA PcStep ==
  ASSUME IInv, TrySend \/ FillDone \/ SendAgain \/ RecvAgain
  PROVE  IInv' /\ SamePlace
<1>1. TypeOK'
  BY DEF IInv, TypeOK, TrySend, FillDone, SendAgain, RecvAgain, netVars,
         receiverVars, senderVars, historyVars
<1>2. JobSound'
  BY DEF IInv, FramingInv, JobSound, TrySend, FillDone, SendAgain, RecvAgain,
         netVars, receiverVars, senderVars, historyVars
<1>3. FramingInv' /\ SamePlace
  BY <1>2, SameBytes
  DEF IInv, FramingInv, ClosedEmpty, TrySend, FillDone, SendAgain, RecvAgain,
      netVars, receiverVars, senderVars, historyVars
<1>4. QED
  BY <1>1, <1>3 DEF IInv

LEMMA ProcessMsgStep ==
  ASSUME IInv, ProcessMsg
  PROVE  IInv' /\ SamePlace
<1>1. TypeOK'
  <2>1. /\ delivered' \in Seq(AssembledMsg)
        /\ recvDeque' \in Seq(AssembledMsg)
        /\ handled' \in Nat
    BY DEF IInv, TypeOK, ProcessMsg
  <2>2. QED
    BY <2>1 DEF IInv, TypeOK, ProcessMsg, netVars, senderVars
<1>2. JobSound'
  BY DEF IInv, FramingInv, JobSound, ProcessMsg, senderVars
<1>3. FramingInv' /\ SamePlace
  BY <1>2, SameBytes
  DEF IInv, FramingInv, ClosedEmpty, ProcessMsg, netVars, senderVars
<1>4. QED
  BY <1>1, <1>3 DEF IInv

LEMMA StutterStep ==
  ASSUME IInv, UNCHANGED vars
  PROVE  IInv' /\ SamePlace
<1>1. TypeOK'
  BY DEF IInv, TypeOK, vars, netVars, receiverVars, senderVars, historyVars
<1>2. JobSound'
  BY DEF IInv, FramingInv, JobSound, vars, senderVars
<1>3. FramingInv' /\ SamePlace
  BY <1>2, SameBytes
  DEF IInv, FramingInv, ClosedEmpty, vars, netVars, receiverVars, senderVars,
      historyVars
<1>4. QED
  BY <1>1, <1>3 DEF IInv

\* The fragment sendMsg makes next has a size both buffers take.
LEMMA NextFragmentFacts ==
  ASSUME IInv, senderPc = "cut"
  PROVE  /\ NextFragment \in Fragment
         /\ NextFragment.start = StreamEnd
         /\ NextFragment.length >= MsgSize
         /\ NextFragment.length < SendbufSize
         /\ NextFragment.hi \in Nat
<1>1. /\ job.id \in Nat /\ job.total \in Nat /\ job.cur \in Nat
      /\ job.cur < job.total /\ job.total >= MsgSize
  BY DEF IInv, TypeOK, FramingInv, JobSound
<1>2. /\ SendbufSize \in Nat
      /\ Cut \in Nat /\ MsgSize \in Nat /\ MsgSize > 0 /\ MsgSize <= Cut
      /\ Cut + MsgSize < SendbufSize
  BY SizeAssumption DEF Cut
<1>3. StreamEnd \in Nat
  BY StreamFacts DEF IInv, TypeOK, FramingInv
<1> DEFINE curMsgLen == IF Cut > job.total - job.cur
                        THEN job.total - job.cur ELSE Cut
           buffLen == IF job.cur = 0 THEN curMsgLen ELSE curMsgLen + MsgSize
<1>4. /\ curMsgLen \in Nat /\ curMsgLen > 0 /\ curMsgLen <= Cut
      /\ job.cur = 0 => curMsgLen >= MsgSize
  BY <1>1, <1>2
<1>5. buffLen \in Nat /\ buffLen >= MsgSize /\ buffLen < SendbufSize
  <2> HIDE DEF curMsgLen
  <2>1. CASE job.cur = 0
    BY <1>2, <1>4, <2>1
  <2>2. CASE job.cur # 0
    BY <1>2, <1>4, <2>2
  <2>3. QED
    BY <2>1, <2>2
<1>6. job.cur + curMsgLen \in Nat
  BY <1>1, <1>4
<1>7. /\ NextFragment.start = StreamEnd
      /\ NextFragment.length = buffLen
      /\ NextFragment.hi = job.cur + curMsgLen
  BY DEF NextFragment, BuffLen
<1>8. NextFragment \in Fragment
  <2>1. NextFragment =
          [id |-> job.id, lo |-> job.cur, hi |-> job.cur + curMsgLen,
           length |-> buffLen, origLen |-> job.total,
           flag |-> IF job.cur # 0 THEN "Child"
                    ELSE IF buffLen = job.total THEN "Intergrated"
                    ELSE "Father",
           start |-> StreamEnd]
    BY DEF NextFragment, BuffLen
  <2> HIDE DEF curMsgLen, buffLen
  <2>2. QED
    BY <1>1, <1>3, <1>5, <1>6, <2>1 DEF Fragment, Flags
<1>9. QED
  BY <1>5, <1>6, <1>7, <1>8

LEMMA CutFragmentStep ==
  ASSUME IInv, CutFragment
  PROVE  IInv' /\ SamePlace
<1> DEFINE f == NextFragment
<1>1. /\ stream \in Seq(Fragment) /\ sendDeque \in Seq(Fragment)
      /\ StreamOrdered /\ QueueIsSuffix
  BY DEF IInv, TypeOK, FramingInv
<1>2. /\ f \in Fragment /\ f.start = StreamEnd /\ f.length >= MsgSize
      /\ f.length < SendbufSize /\ f.hi \in Nat
  BY NextFragmentFacts DEF CutFragment
<1> HIDE DEF f
<1>3. /\ stream' = Append(stream, f) /\ sendDeque' = Append(sendDeque, f)
      /\ senderPc = "cut"
      /\ \/ f.hi < job.total /\ job' = [job EXCEPT !.cur = f.hi]
            /\ senderPc' = senderPc
         \/ job' = NoJob /\ senderPc' = "idle"
      /\ UNCHANGED <<senderOpen, sendBuff, receiverVars, netVars, accepted,
                     handled, delivered, sent, conns>>
  BY DEF CutFragment, f
<1>4. /\ Len(stream) \in Nat /\ Len(sendDeque) \in Nat
      /\ stream' \in Seq(Fragment) /\ sendDeque' \in Seq(Fragment)
      /\ Len(stream') = Len(stream) + 1 /\ Len(sendDeque') = Len(sendDeque) + 1
      /\ stream'[Len(stream) + 1] = f
      /\ \A k \in 1..Len(stream) : stream'[k] = stream[k]
      /\ sendDeque'[Len(sendDeque) + 1] = f
      /\ \A k \in 1..Len(sendDeque) : sendDeque'[k] = sendDeque[k]
  BY <1>1, <1>2, <1>3
<1>5. StreamEnd \in Nat /\ f.start \in Nat /\ f.length \in Nat
  BY <1>1, <1>2, StreamFacts DEF Fragment
<1>6. StreamEnd' = StreamEnd + f.length
  BY <1>2, <1>4, <1>5 DEF StreamEnd
<1>7. TypeOK'
  <2>1. job' \in [id : Nat, total : Nat, cur : Nat]
    <3>1. job \in [id : Nat, total : Nat, cur : Nat]
      BY DEF IInv, TypeOK
    <3>2. [job EXCEPT !.cur = f.hi] \in [id : Nat, total : Nat, cur : Nat]
      BY <1>2, <3>1
    <3>3. QED
      BY <1>3, <3>2 DEF NoJob
  <2>2. senderPc' \in {"idle", "cut", "fill", "send"}
    BY <1>3
  <2>3. QED
    BY <1>3, <1>4, <2>1, <2>2 DEF IInv, TypeOK, netVars, receiverVars
<1>8. StreamOrdered'
  <2>1. stream' # <<>> => stream'[1].start = 0
    BY <1>1, <1>2, <1>4 DEF StreamOrdered, StreamEnd
  <2>2. \A k \in 1..Len(stream') :
          stream'[k].length >= MsgSize /\ stream'[k].length < SendbufSize
    BY <1>1, <1>2, <1>4, SMTT(20) DEF StreamOrdered
  <2>3. \A k \in 1..Len(stream') - 1 :
          stream'[k + 1].start = stream'[k].start + stream'[k].length
    <3>1. stream # <<>> => f.start = stream[Len(stream)].start
                                     + stream[Len(stream)].length
      BY <1>2 DEF StreamEnd
    <3>2. SUFFICES ASSUME NEW k \in 1..Len(stream)
                   PROVE  stream'[k + 1].start
                            = stream'[k].start + stream'[k].length
      BY <1>4
    <3>3. CASE k = Len(stream)
      BY <1>4, <3>1, <3>3
    <3>4. CASE k \in 1..Len(stream) - 1
      <4>1. k + 1 \in 1..Len(stream)
        BY <1>4, <3>4
      <4>2. QED
        BY <1>1, <1>4, <3>4, <4>1 DEF StreamOrdered
    <3>5. QED
      BY <1>4, <3>3, <3>4
  <2>4. \A j, k \in 1..Len(stream') :
          j < k => stream'[j].start + stream'[j].length <= stream'[k].start
    <3>1. \A j \in 1..Len(stream) :
            stream[j].start + stream[j].length <= f.start
      BY <1>1, <1>2, StreamFacts
    <3>2. SUFFICES ASSUME NEW j \in 1..Len(stream'), NEW k \in 1..Len(stream'),
                          j < k
                   PROVE  stream'[j].start + stream'[j].length
                            <= stream'[k].start
      OBVIOUS
    <3>3. j \in 1..Len(stream) /\ stream'[j] = stream[j]
      BY <1>4, <3>2
    <3>4. CASE k = Len(stream) + 1
      BY <1>4, <3>1, <3>3, <3>4
    <3>5. CASE k \in 1..Len(stream)
      BY <1>1, <1>4, <3>2, <3>3, <3>5 DEF StreamOrdered
    <3>6. QED
      BY <1>4, <3>4, <3>5
  <2>5. QED
    BY <2>1, <2>2, <2>3, <2>4 DEF StreamOrdered
<1>9. JobSound'
  <2>1. CASE f.hi < job.total /\ job' = [job EXCEPT !.cur = f.hi]
    BY <1>3, <2>1 DEF IInv, TypeOK, FramingInv, JobSound
  <2>2. CASE senderPc' = "idle"
    BY <2>2 DEF JobSound
  <2>3. QED
    BY <1>3, <2>1, <2>2
<1>10. QueueIsSuffix'
  <2>1. SUFFICES \A i \in 1..Len(sendDeque) + 1 :
                   sendDeque'[i] = stream'[Len(stream) - Len(sendDeque) + i]
    <3>1. Len(sendDeque') <= Len(stream')
      BY <1>1, <1>4 DEF QueueIsSuffix
    <3>2. \A i \in 1..Len(sendDeque') :
            Len(stream') - Len(sendDeque') + i
              = Len(stream) - Len(sendDeque) + i
      BY <1>4
    <3>3. QED
      BY <1>4, <2>1, <3>1, <3>2 DEF QueueIsSuffix
  <2> TAKE i \in 1..Len(sendDeque) + 1
  <2>2. CASE i = Len(sendDeque) + 1
    BY <1>4, <2>2
  <2>3. CASE i \in 1..Len(sendDeque)
    <3>1. Len(stream) - Len(sendDeque) + i \in 1..Len(stream)
      BY <1>1, <1>4, <2>3 DEF QueueIsSuffix
    <3>2. QED
      BY <1>1, <1>4, <2>3, <3>1 DEF QueueIsSuffix
  <2>4. QED
    BY <1>4, <2>2, <2>3
<1>11. ClosedEmpty'
  BY <1>3 DEF IInv, FramingInv, ClosedEmpty, receiverVars
<1>12. QueueStart' = QueueStart
  <2>1. CASE sendDeque = <<>>
    <3>1. Head(sendDeque') = f /\ sendDeque' # <<>>
      <4>1. sendDeque' = <<f>>
        BY <1>3, <2>1
      <4>2. QED
        BY <4>1
    <3>2. QED
      BY <1>2, <2>1, <3>1 DEF QueueStart
  <2>2. CASE sendDeque # <<>>
    BY <1>1, <1>3, <1>4, <2>2 DEF QueueStart
  <2>3. QED
    BY <2>1, <2>2
<1>13. ASSUME NEW b \in 0..StreamEnd, FramedAt(b)
       PROVE  FramedAt(b)'
  <2>1. Boundary(b)'
    <3>1. CASE b = StreamEnd
      BY <1>2, <1>4, <3>1 DEF Boundary
    <3>2. CASE \E k \in 1..Len(stream) : stream[k].start = b
      BY <1>4, <3>2 DEF Boundary
    <3>3. QED
      BY <1>13, <3>1, <3>2 DEF FramedAt, Boundary
  <2>2. /\ RunFrom(recvMsg, b)' /\ RunFrom(chunk, b + Len(recvMsg))'
        /\ (b + Len(recvMsg) + Len(chunk) <= StreamEnd)'
    <3>1. Len(recvMsg) \in Nat /\ Len(chunk) \in Nat /\ b \in Nat
      BY <1>5 DEF IInv, TypeOK
    <3>2. QED
      BY <1>3, <1>5, <1>6, <1>13, <3>1 DEF FramedAt, RunFrom, receiverVars
  <2>3. (\A k \in 1..Len(stream) :
           stream[k].start = b => Len(recvMsg) < stream[k].length)'
    <3>1. recvMsg' = recvMsg /\ Len(recvMsg) \in Nat /\ Len(chunk) \in Nat
      BY <1>3, SMTT(20) DEF receiverVars, IInv, TypeOK
    <3>2. b = StreamEnd => Len(recvMsg) = 0
      BY <1>5, <1>13, <3>1 DEF FramedAt
    <3>3. f.length > 0
      BY <1>2, <1>5, SizeAssumption
    <3>4. ASSUME NEW k \in 1..Len(stream'), stream'[k].start = b
          PROVE  Len(recvMsg') < stream'[k].length
      <4>1. CASE k \in 1..Len(stream)
        BY <1>4, <1>13, <3>1, <3>4, <4>1 DEF FramedAt
      <4>2. CASE k = Len(stream) + 1
        BY <1>2, <1>4, <3>1, <3>2, <3>3, <3>4, <4>2
      <4>3. QED
        BY <1>4, <4>1, <4>2
    <3>5. QED
      BY <3>4
  <2>4. ASSUME ~broken'
        PROVE  LET w == b + Len(recvMsg) + Len(chunk)
               IN /\ RunFrom(wire, w)'
                  /\ (w + Len(wire) <= StreamEnd)'
                  /\ (senderOpen => /\ RunFrom(sendBuff, w + Len(wire))
                                    /\ w + Len(wire) + Len(sendBuff)
                                         = QueueStart)'
    <3>1. /\ Len(recvMsg) \in Nat /\ Len(chunk) \in Nat /\ Len(wire) \in Nat
          /\ b \in Nat
      BY <1>5 DEF IInv, TypeOK
    <3>2. ~broken
      BY <1>3, <2>4 DEF netVars
    <3>3. QED
      BY <1>3, <1>5, <1>6, <1>12, <1>13, <3>1, <3>2
      DEF FramedAt, RunFrom, receiverVars, netVars
  <2>5. QED
    BY <2>1, <2>2, <2>3, <2>4 DEF FramedAt
<1>14. Framed'
  <2>1. receiverPc' # "parse" => chunk' = <<>>
    BY <1>3 DEF IInv, FramingInv, Framed, receiverVars
  <2>2. ASSUME receiverOpen'
        PROVE  \E b \in 0..StreamEnd' : FramedAt(b)'
    <3>1. PICK b \in 0..StreamEnd : FramedAt(b)
      BY <1>3, <2>2 DEF IInv, FramingInv, Framed, receiverVars
    <3>2. b \in 0..StreamEnd'
      BY <1>5, <1>6
    <3>3. QED
      BY <1>13, <3>1, <3>2
  <2>3. QED
    BY <2>1, <2>2 DEF Framed
<1>15. BuffersBounded'
  BY <1>3 DEF IInv, FramingInv, BuffersBounded, receiverVars
<1>16. QED
  BY <1>7, <1>8, <1>9, <1>10, <1>11, <1>13, <1>14, <1>15
  DEF IInv, FramingInv, SamePlace

\* Filling the buffer takes the head of the queue, which begins where the
\* buffer ends.
LEMMA FillBufferStep ==
  ASSUME IInv, FillBuffer
  PROVE  IInv' /\ SamePlace
<1> DEFINE q == Len(stream) - Len(sendDeque)
           f == Head(sendDeque)
<1>1. /\ stream \in Seq(Fragment) /\ sendDeque \in Seq(Fragment)
      /\ sendBuff \in Seq(Nat) /\ sendDeque # <<>>
      /\ StreamOrdered /\ QueueIsSuffix
      /\ senderOpen /\ senderPc = "fill"
  BY DEF IInv, TypeOK, FramingInv, FillBuffer, HeadFits, ClosedEmpty
<1>2. /\ Len(stream) \in Nat /\ Len(sendDeque) \in Nat /\ Len(sendDeque) >= 1
      /\ q \in Nat /\ q + 1 \in 1..Len(stream)
  BY <1>1 DEF QueueIsSuffix
<1>3. f = stream[q + 1] /\ f \in Fragment
  <2>1. f = sendDeque[1] /\ 1 \in 1..Len(sendDeque)
    BY <1>1, <1>2
  <2>2. QED
    BY <1>1, <1>2, <2>1 DEF QueueIsSuffix
<1>4. /\ f.start \in Nat /\ f.length \in Nat
      /\ f.start + f.length <= StreamEnd /\ StreamEnd \in Nat
  BY <1>1, <1>2, <1>3, StreamFacts
<1>5. /\ Tail(sendDeque) \in Seq(Fragment)
      /\ Len(Tail(sendDeque)) = Len(sendDeque) - 1
      /\ \A i \in 1..Len(sendDeque) - 1 : Tail(sendDeque)[i] = sendDeque[i + 1]
  BY <1>1, <1>2
<1>6. /\ Bytes(f) \in Seq(Nat) /\ Len(Bytes(f)) = f.length
      /\ RunFrom(Bytes(f), f.start)
  BY <1>3, RunBytes
<1>7. /\ sendDeque' = Tail(sendDeque) /\ sendBuff' = sendBuff \o Bytes(f)
      /\ f.length + Len(sendBuff) < SendbufSize
      /\ UNCHANGED <<senderOpen, senderPc, job, receiverVars, netVars,
                     historyVars>>
  BY DEF FillBuffer, HeadFits
<1>8. QueueStart = f.start
  BY <1>1 DEF QueueStart
<1>9. QueueStart' = f.start + f.length
  <2>1. StreamEnd' = StreamEnd
    BY <1>7 DEF StreamEnd, historyVars
  <2>2. CASE Len(sendDeque) = 1
    <3>1. sendDeque' = <<>>
      BY <1>5, <1>7, <2>2, EmptySeq
    <3>2. q + 1 = Len(stream) /\ stream # <<>>
      BY <1>2, <2>2
    <3>3. QED
      BY <1>3, <2>1, <3>1, <3>2 DEF QueueStart, StreamEnd
  <2>3. CASE Len(sendDeque) > 1
    <3>1. sendDeque' # <<>> /\ Head(sendDeque') = sendDeque'[1]
      <4>1. sendDeque' \in Seq(Fragment) /\ Len(sendDeque') >= 1
        BY <1>2, <1>5, <1>7, <2>3
      <4>2. QED
        BY <4>1
    <3>2. sendDeque'[1] = sendDeque[2] /\ 2 \in 1..Len(sendDeque)
      BY <1>2, <1>5, <1>7, <2>3
    <3>3. q + 1 \in 1..Len(stream) - 1
      BY <1>2, <2>3
    <3>4. sendDeque[2] = stream[q + 2]
      BY <1>1, <3>2 DEF QueueIsSuffix
    <3>5. stream[(q + 1) + 1].start = f.start + f.length
      BY <1>1, <1>3, <3>3 DEF StreamOrdered
    <3>6. (q + 1) + 1 = q + 2
      BY <1>2
    <3>7. QED
      BY <3>1, <3>2, <3>4, <3>5, <3>6 DEF QueueStart
  <2>4. Len(sendDeque) = 1 \/ Len(sendDeque) > 1
    BY <1>2
  <2>5. QED
    BY <2>2, <2>3, <2>4
<1> HIDE DEF f, q
<1>10. TypeOK'
  <2>1. sendDeque' \in Seq(Fragment) /\ sendBuff' \in Seq(Nat)
    BY <1>1, <1>5, <1>6, <1>7
  <2>2. QED
    BY <1>7, <2>1 DEF IInv, TypeOK, receiverVars, netVars, historyVars
<1>11. StreamOrdered' /\ JobSound' /\ ClosedEmpty'
  BY <1>1, <1>7
  DEF IInv, FramingInv, StreamOrdered, JobSound, ClosedEmpty, receiverVars,
      historyVars
<1>12. QueueIsSuffix'
  <2>1. /\ Len(sendDeque') <= Len(stream')
        /\ Len(sendDeque') = Len(sendDeque) - 1 /\ stream' = stream
    BY <1>1, <1>2, <1>5, <1>7 DEF QueueIsSuffix, historyVars
  <2>2. ASSUME NEW i \in 1..Len(sendDeque')
        PROVE  sendDeque'[i] = stream'[Len(stream') - Len(sendDeque') + i]
    <3>1. i + 1 \in 1..Len(sendDeque) /\ i \in 1..Len(sendDeque) - 1
      BY <1>2, <2>1
    <3>2. sendDeque'[i] = sendDeque[i + 1]
      BY <1>5, <1>7, <3>1
    <3>3. Len(stream') - Len(sendDeque') + i
            = Len(stream) - Len(sendDeque) + (i + 1)
      BY <1>2, <2>1
    <3>4. sendDeque[i + 1] = stream[Len(stream) - Len(sendDeque) + (i + 1)]
      BY <1>1, <3>1 DEF QueueIsSuffix
    <3>5. QED
      BY <2>1, <3>2, <3>3, <3>4
  <2>3. QED
    BY <2>1, <2>2 DEF QueueIsSuffix
<1>13. ASSUME NEW b \in Nat, FramedAt(b)
       PROVE  FramedAt(b)'
  <2>1. /\ Boundary(b)' /\ RunFrom(recvMsg, b)'
        /\ RunFrom(chunk, b + Len(recvMsg))'
        /\ (b + Len(recvMsg) + Len(chunk) <= StreamEnd)'
        /\ (\A k \in 1..Len(stream) :
              stream[k].start = b => Len(recvMsg) < stream[k].length)'
    BY <1>7, <1>13
    DEF FramedAt, Boundary, RunFrom, StreamEnd, receiverVars, historyVars
  <2>2. ASSUME ~broken'
        PROVE  LET w == b + Len(recvMsg) + Len(chunk)
               IN /\ RunFrom(wire, w)'
                  /\ (w + Len(wire) <= StreamEnd)'
                  /\ (senderOpen => /\ RunFrom(sendBuff, w + Len(wire))
                                    /\ w + Len(wire) + Len(sendBuff)
                                         = QueueStart)'
    <3> DEFINE v == b + Len(recvMsg) + Len(chunk) + Len(wire)
    <3>1. v \in Nat /\ Len(sendBuff) \in Nat
      BY DEF IInv, TypeOK
    <3>2. ~broken
      BY <1>7, <2>2 DEF netVars
    <3>3. RunFrom(sendBuff, v) /\ v + Len(sendBuff) = f.start
      BY <1>1, <1>8, <1>13, <3>2 DEF FramedAt
    <3>4. Len(sendBuff') = Len(sendBuff) + f.length /\ RunFrom(sendBuff', v)
      BY <1>1, <1>6, <1>7, <3>1, <3>3, RunConcat
    <3>5. v + Len(sendBuff') = QueueStart'
      BY <1>4, <1>9, <3>1, <3>3, <3>4
    <3>6. /\ RunFrom(wire, b + Len(recvMsg) + Len(chunk))'
          /\ (v <= StreamEnd)'
      BY <1>7, <1>13, <3>2
      DEF FramedAt, RunFrom, StreamEnd, receiverVars, netVars, historyVars
    <3>7. v' = v
      BY <1>7 DEF receiverVars, netVars
    <3>8. RunFrom(sendBuff, v)'
      BY <3>4, <3>7 DEF RunFrom
    <3>9. QED
      BY <3>5, <3>6, <3>7, <3>8
  <2>3. QED
    BY <2>1, <2>2 DEF FramedAt
<1>14. Framed'
  <2>1. StreamEnd' = StreamEnd
    BY <1>7 DEF StreamEnd, historyVars
  <2>2. QED
    BY <1>4, <1>7, <1>13, <2>1 DEF IInv, FramingInv, Framed, receiverVars
<1>15. BuffersBounded'
  <2>1. Len(sendBuff') = Len(sendBuff) + f.length
    <3>1. Len(sendBuff \o Bytes(f)) = Len(sendBuff) + Len(Bytes(f))
      BY <1>1, <1>6, ConcatBytes
    <3>2. QED
      BY <1>6, <1>7, <3>1
  <2>2. Len(sendBuff') < SendbufSize
    BY <1>1, <1>4, <1>7, <2>1
  <2>3. QED
    BY <1>7, <2>2 DEF IInv, FramingInv, BuffersBounded, receiverVars
<1>16. QED
  BY <1>4, <1>10, <1>11, <1>12, <1>13, <1>14, <1>15
  DEF IInv, FramingInv, SamePlace

\* Steps that leave the stream and the queue alone keep their order, and
\* every position in them.
LEMMA SameQueues ==
  ASSUME IInv, UNCHANGED <<stream, sendDeque>>
  PROVE  /\ StreamOrdered' /\ QueueIsSuffix'
         /\ StreamEnd' = StreamEnd /\ QueueStart' = QueueStart
         /\ \A b : Boundary(b)' <=> Boundary(b)
BY DEF IInv, FramingInv, StreamOrdered, QueueIsSuffix, StreamEnd, QueueStart,
       Boundary

\* send() moves the front of the buffer to the end of the wire.
LEMMA SendBytesStep ==
  ASSUME IInv, NEW n \in 1..Len(sendBuff), SendBytes(n)
  PROVE  IInv' /\ SamePlace
<1>1. /\ sendBuff \in Seq(Nat) /\ wire \in Seq(Nat) /\ ~broken /\ senderOpen
      /\ wire' = wire \o SubSeq(sendBuff, 1, n)
      /\ sendBuff' = SubSeq(sendBuff, n + 1, Len(sendBuff))
      /\ senderPc' = "fill"
      /\ UNCHANGED <<senderOpen, job, sendDeque, broken, receiverVars,
                     historyVars>>
  BY DEF IInv, TypeOK, FramingInv, ClosedEmpty, SendBytes, Unsent
<1>2. Len(sendBuff) \in Nat /\ Len(wire) \in Nat /\ n \in 0..Len(sendBuff)
  BY <1>1
<1>3. /\ SubSeq(sendBuff, 1, n) \in Seq(Nat) /\ sendBuff' \in Seq(Nat)
      /\ Len(sendBuff') = Len(sendBuff) - n
      /\ Len(SubSeq(sendBuff, 1, n)) = n
  <2>1. \A i \in 1..Len(sendBuff) : sendBuff[i] \in Nat
    BY <1>1
  <2>2. 1 \in Int /\ n \in Int /\ n + 1 \in Int /\ Len(sendBuff) \in Int
    BY <1>2
  <2>3. /\ SubSeq(sendBuff, 1, n) \in Seq(Nat)
        /\ Len(SubSeq(sendBuff, 1, n)) = n
    BY <1>2, <2>1, <2>2, SubSeqProperties
  <2>4. \A i \in n + 1..Len(sendBuff) : sendBuff[i] \in Nat
    BY <1>2, <2>1
  <2>5. /\ SubSeq(sendBuff, n + 1, Len(sendBuff)) \in Seq(Nat)
        /\ Len(SubSeq(sendBuff, n + 1, Len(sendBuff))) = Len(sendBuff) - n
    BY <1>2, <2>2, <2>4, SubSeqProperties
  <2>6. QED
    BY <1>1, <2>3, <2>5
<1>4. wire' \in Seq(Nat) /\ Len(wire') = Len(wire) + n
  BY <1>1, <1>3, ConcatBytes
<1>5. TypeOK'
  BY <1>1, <1>3, <1>4 DEF IInv, TypeOK, receiverVars, historyVars
<1>6. /\ StreamOrdered' /\ QueueIsSuffix' /\ StreamEnd' = StreamEnd
      /\ QueueStart' = QueueStart /\ \A b : Boundary(b)' <=> Boundary(b)
  BY <1>1, SameQueues DEF historyVars
<1>7. JobSound' /\ ClosedEmpty'
  BY <1>1 DEF IInv, FramingInv, JobSound, ClosedEmpty, receiverVars
<1>8. BuffersBounded'
  <2>1. Len(sendBuff') < SendbufSize
    BY <1>2, <1>3, SizeAssumption DEF IInv, FramingInv, BuffersBounded
  <2>2. QED
    BY <1>1, <2>1 DEF IInv, FramingInv, BuffersBounded, receiverVars
<1>9. ASSUME NEW b \in 0..StreamEnd, FramedAt(b)
      PROVE  FramedAt(b)'
  <2> DEFINE w == b + Len(recvMsg) + Len(chunk)
  <2>1. StreamEnd \in Nat
    BY StreamFacts DEF IInv, TypeOK, FramingInv
  <2>2. w \in Nat /\ b \in Nat
    BY <2>1 DEF IInv, TypeOK
  <2>3. /\ RunFrom(wire, w) /\ RunFrom(sendBuff, w + Len(wire))
        /\ w + Len(wire) + Len(sendBuff) = QueueStart
        /\ w + Len(wire) + Len(sendBuff) <= StreamEnd
    <3>1. QueueStart <= StreamEnd
      <4>1. CASE sendDeque = <<>>
        BY <2>1, <4>1 DEF QueueStart
      <4>2. CASE sendDeque # <<>>
        <5>1. /\ Len(sendDeque) >= 1 /\ Len(sendDeque) \in Nat
              /\ Len(stream) \in Nat /\ Len(sendDeque) <= Len(stream)
              /\ Head(sendDeque) = sendDeque[1]
          BY <4>2, SMTT(20) DEF IInv, TypeOK, FramingInv, QueueIsSuffix
        <5>2. /\ Head(sendDeque) = stream[Len(stream) - Len(sendDeque) + 1]
              /\ Len(stream) - Len(sendDeque) + 1 \in 1..Len(stream)
          BY <5>1 DEF IInv, FramingInv, QueueIsSuffix
        <5>3. Head(sendDeque).start <= StreamEnd
          <6> DEFINE k == Len(stream) - Len(sendDeque) + 1
          <6>1. stream \in Seq(Fragment) /\ StreamOrdered
            BY DEF IInv, TypeOK, FramingInv
          <6> HIDE DEF k
          <6>2. k \in 1..Len(stream) /\ Head(sendDeque) = stream[k]
            BY <5>2 DEF k
          <6>3. /\ stream[k].start \in Nat /\ stream[k].length \in Nat
                /\ stream[k].start + stream[k].length <= StreamEnd
            BY <6>1, <6>2, StreamFacts
          <6>4. QED
            BY <2>1, <6>2, <6>3
        <5>4. QED
          BY <4>2, <5>3 DEF QueueStart
      <4>3. QED
        BY <4>1, <4>2
    <3>2. QED
      BY <1>1, <1>9, <3>1 DEF FramedAt
  <2> HIDE DEF w
  <2>4. /\ RunFrom(SubSeq(sendBuff, 1, n), w + Len(wire))
        /\ RunFrom(sendBuff', w + Len(wire) + n)
    BY <1>1, <1>2, <2>2, <2>3, RunSplit
  <2>5. RunFrom(wire', w) /\ RunFrom(sendBuff', w + Len(wire'))
    <3>1. RunFrom(wire', w)
      BY <1>1, <1>3, <2>2, <2>3, <2>4, RunConcat
    <3>2. w + Len(wire') = w + Len(wire) + n
      BY <1>2, <1>4, <2>2
    <3>3. QED
      BY <2>4, <3>1, <3>2
  <2>6. /\ w + Len(wire') <= StreamEnd
        /\ w + Len(wire') + Len(sendBuff') = QueueStart
    BY <1>2, <1>3, <1>4, <2>1, <2>2, <2>3
  <2>7. w' = w
    BY <1>1 DEF w, receiverVars
  <2>8. /\ Boundary(b)' /\ RunFrom(recvMsg, b)'
        /\ RunFrom(chunk, b + Len(recvMsg))'
        /\ (b + Len(recvMsg) + Len(chunk) <= StreamEnd)'
        /\ (\A k \in 1..Len(stream) :
              stream[k].start = b => Len(recvMsg) < stream[k].length)'
    BY <1>1, <1>6, <1>9 DEF FramedAt, RunFrom, receiverVars, historyVars
  <2>9. /\ RunFrom(wire, w)' /\ (w + Len(wire) <= StreamEnd)'
        /\ RunFrom(sendBuff, w + Len(wire))'
        /\ (w + Len(wire) + Len(sendBuff) = QueueStart)'
    BY <1>6, <2>5, <2>6, <2>7 DEF RunFrom
  <2>10. QED
    BY <2>8, <2>9 DEF FramedAt, w
<1>10. Framed'
  BY <1>1, <1>6, <1>9 DEF IInv, FramingInv, Framed, receiverVars
<1>11. QED
  BY <1>5, <1>6, <1>7, <1>8, <1>9, <1>10 DEF IInv, FramingInv, SamePlace

LEMMA CloseSenderStep ==
  ASSUME IInv, CloseSender
  PROVE  IInv' /\ SamePlace
<1>1. /\ senderOpen' = FALSE /\ senderPc' = "idle"
      /\ sendDeque' = <<>> /\ sendBuff' = <<>>
      /\ UNCHANGED <<job, receiverVars, netVars, historyVars>>
  BY DEF CloseSender
<1>2. TypeOK'
  <2>1. sendDeque' \in Seq(Fragment) /\ sendBuff' \in Seq(Nat)
    BY <1>1, EmptySeq
  <2>2. QED
    BY <1>1, <2>1 DEF IInv, TypeOK, receiverVars, netVars, historyVars
<1>3. /\ StreamOrdered' /\ StreamEnd' = StreamEnd
      /\ \A b : Boundary(b)' <=> Boundary(b)
  BY <1>1
  DEF IInv, FramingInv, StreamOrdered, StreamEnd, Boundary, historyVars
<1>4. QueueIsSuffix' /\ JobSound' /\ ClosedEmpty'
  BY <1>1, <1>2
  DEF IInv, TypeOK, FramingInv, QueueIsSuffix, JobSound, ClosedEmpty,
      receiverVars
<1>5. BuffersBounded'
  BY <1>1, SizeAssumption
  DEF IInv, FramingInv, BuffersBounded, receiverVars
<1>6. \A b : FramedAt(b) => FramedAt(b)'
  BY <1>1, <1>3 DEF FramedAt, RunFrom, receiverVars, netVars, historyVars
<1>7. Framed'
  BY <1>1, <1>3, <1>6 DEF IInv, FramingInv, Framed, receiverVars
<1>8. QED
  BY <1>2, <1>3, <1>4, <1>5, <1>6, <1>7 DEF IInv, FramingInv, SamePlace

\* A reset connection keeps what the two ends have already read or queued.
LEMMA BreakStep ==
  ASSUME IInv, Break
  PROVE  IInv' /\ SamePlace
<1>1. /\ broken' = TRUE /\ wire' = <<>>
      /\ UNCHANGED <<senderVars, receiverVars, historyVars>>
  BY DEF Break
<1>2. TypeOK'
  BY <1>1 DEF IInv, TypeOK, senderVars, receiverVars, historyVars
<1>3. /\ StreamOrdered' /\ QueueIsSuffix' /\ StreamEnd' = StreamEnd
      /\ \A b : Boundary(b)' <=> Boundary(b)
  BY <1>1, SameQueues DEF senderVars, historyVars
<1>4. JobSound' /\ ClosedEmpty' /\ BuffersBounded'
  BY <1>1
  DEF IInv, FramingInv, JobSound, ClosedEmpty, BuffersBounded, senderVars,
      receiverVars
<1>5. \A b : FramedAt(b) => FramedAt(b)'
  BY <1>1, <1>3 DEF FramedAt, RunFrom, receiverVars, historyVars
<1>6. Framed'
  BY <1>1, <1>3, <1>5 DEF IInv, FramingInv, Framed, receiverVars
<1>7. QED
  BY <1>2, <1>3, <1>4, <1>5, <1>6 DEF IInv, FramingInv, SamePlace

\* A new connection has an empty stream, framed at 0.
LEMMA ReconnectStep ==
  ASSUME IInv, Reconnect
  PROVE  IInv'
<1>1. /\ ~senderOpen /\ ~receiverOpen
      /\ senderOpen' = TRUE /\ receiverOpen' = TRUE
      /\ wire' = <<>> /\ broken' = FALSE
      /\ recvTempDeque' = IF ReceiverReconnects THEN recvTempDeque ELSE <<>>
      /\ stream' = <<>> /\ accepted' = <<>> /\ handled' = 0
      /\ conns' = conns + 1
      /\ UNCHANGED <<senderPc, job, sendDeque, sendBuff, receiverPc, chunk,
                     recvMsg, recvDeque, delivered, sent>>
  BY DEF Reconnect
<1>2. /\ sendDeque = <<>> /\ sendBuff = <<>> /\ senderPc = "idle"
      /\ recvMsg = <<>> /\ chunk = <<>> /\ receiverPc = "idle"
  BY <1>1 DEF IInv, FramingInv, ClosedEmpty
<1>3. TypeOK'
  <2>1. /\ stream' \in Seq(Fragment) /\ wire' \in Seq(Nat)
        /\ accepted' \in Seq([id : Nat, length : Nat])
    BY <1>1, EmptySeq
  <2>2. recvTempDeque' \in Seq(Fragment)
    BY <1>1, EmptySeq DEF IInv, TypeOK
  <2>3. conns' \in Nat
    BY <1>1 DEF IInv, TypeOK
  <2>4. QED
    BY <1>1, <2>1, <2>2, <2>3 DEF IInv, TypeOK
<1>4. StreamEnd' = 0 /\ QueueStart' = 0 /\ StreamOrdered' /\ QueueIsSuffix'
  BY <1>1, <1>2
  DEF StreamEnd, QueueStart, StreamOrdered, QueueIsSuffix
<1>5. JobSound' /\ ClosedEmpty' /\ BuffersBounded'
  BY <1>1, <1>2 DEF IInv, FramingInv, JobSound, ClosedEmpty, BuffersBounded
<1>6. FramedAt(0)'
  BY <1>1, <1>2, <1>4 DEF FramedAt, Boundary, RunFrom
<1>7. Framed'
  BY <1>1, <1>2, <1>4, <1>6 DEF Framed
<1>8. QED
  BY <1>3, <1>4, <1>5, <1>7 DEF IInv, FramingInv

\* recv() moves the front of the wire into the chunk.
LEMMA RecvAt ==
  ASSUME IInv, NEW n \in 1..RecvCache, Recv(n),
         NEW b \in 0..StreamEnd, FramedAt(b)
  PROVE  IInv' /\ FramedAt(b)'
<1>1. /\ wire \in Seq(Nat) /\ ~broken /\ receiverOpen /\ chunk = <<>>
      /\ chunk' = SubSeq(wire, 1, n) /\ wire' = SubSeq(wire, n + 1, Len(wire))
      /\ receiverPc' = "parse"
      /\ UNCHANGED <<senderVars, broken, receiverOpen, recvMsg, recvTempDeque,
                     recvDeque, historyVars>>
  BY DEF IInv, TypeOK, FramingInv, Framed, Recv
<1>2. Len(wire) \in Nat /\ n \in 0..Len(wire)
  BY <1>1, SizeAssumption DEF Recv
<1>3. ASSUME NEW d \in Nat, RunFrom(wire, d)
      PROVE  /\ chunk' \in Seq(Nat) /\ Len(chunk') = n
             /\ RunFrom(chunk', d)
             /\ wire' \in Seq(Nat) /\ Len(wire') = Len(wire) - n
             /\ RunFrom(wire', d + n)
  BY <1>1, <1>2, <1>3, RunSplit
<1>4. FramedAt(b)
  OBVIOUS
<1> DEFINE w == b + Len(recvMsg)
<1>5. StreamEnd \in Nat /\ b \in Nat /\ Len(recvMsg) \in Nat /\ w \in Nat
  BY StreamFacts DEF IInv, TypeOK, FramingInv
<1>6. /\ RunFrom(wire, w) /\ w + Len(wire) <= StreamEnd
      /\ senderOpen => /\ RunFrom(sendBuff, w + Len(wire))
                       /\ w + Len(wire) + Len(sendBuff) = QueueStart
  <2>1. Len(chunk) = 0 /\ w + 0 = w
    BY <1>1, <1>5
  <2>2. QED
    BY <1>1, <1>4, <2>1 DEF FramedAt
<1> HIDE DEF w
<1>7. /\ chunk' \in Seq(Nat) /\ Len(chunk') = n /\ RunFrom(chunk', w)
      /\ wire' \in Seq(Nat) /\ Len(wire') = Len(wire) - n
      /\ RunFrom(wire', w + n)
  BY <1>3, <1>5, <1>6
<1>8. TypeOK'
  BY <1>1, <1>7 DEF IInv, TypeOK, senderVars, historyVars
<1>9. /\ StreamOrdered' /\ QueueIsSuffix' /\ StreamEnd' = StreamEnd
      /\ QueueStart' = QueueStart /\ \A c : Boundary(c)' <=> Boundary(c)
  BY <1>1, SameQueues DEF senderVars, historyVars
<1>10. JobSound' /\ ClosedEmpty' /\ BuffersBounded'
  BY <1>1
  DEF IInv, FramingInv, JobSound, ClosedEmpty, BuffersBounded, senderVars
<1>11. FramedAt(b)'
  <2>1. w' = w
    BY <1>1 DEF w
  <2>2. w + n <= StreamEnd /\ w + n + Len(wire') = w + Len(wire)
    BY <1>2, <1>5, <1>6, <1>7
  <2>3. /\ Boundary(b)' /\ RunFrom(recvMsg, b)'
        /\ (\A k \in 1..Len(stream) :
              stream[k].start = b => Len(recvMsg) < stream[k].length)'
    BY <1>1, <1>4, <1>9 DEF FramedAt, RunFrom, historyVars
  <2>4. /\ RunFrom(chunk, w)' /\ (w + Len(chunk) <= StreamEnd)'
        /\ RunFrom(wire, w + Len(chunk))'
        /\ (w + Len(chunk) + Len(wire) <= StreamEnd)'
    BY <1>6, <1>7, <1>9, <2>1, <2>2 DEF RunFrom
  <2>5. (senderOpen => /\ RunFrom(sendBuff, w + Len(chunk) + Len(wire))
                       /\ w + Len(chunk) + Len(wire) + Len(sendBuff)
                            = QueueStart)'
    BY <1>1, <1>6, <1>7, <1>9, <2>1, <2>2 DEF RunFrom, senderVars
  <2>6. QED
    BY <2>3, <2>4, <2>5 DEF FramedAt, w
<1>12. Framed'
  BY <1>1, <1>9, <1>11 DEF Framed
<1>13. QED
  BY <1>8, <1>9, <1>10, <1>11, <1>12 DEF IInv, FramingInv

LEMMA RecvStep ==
  ASSUME IInv, NEW n \in 1..RecvCache, Recv(n)
  PROVE  IInv' /\ SamePlace
<1>1. PICK b \in 0..StreamEnd : FramedAt(b)
  BY DEF IInv, FramingInv, Framed, Recv
<1>2. QED
  BY <1>1, RecvAt DEF SamePlace

LEMMA TryRecvFailsStep ==
  ASSUME IInv, TryRecvFails
  PROVE  IInv'
<1>1. /\ receiverOpen' = FALSE /\ receiverPc' = "idle"
      /\ chunk' = <<>> /\ recvMsg' = <<>> /\ recvDeque' = <<>>
      /\ UNCHANGED <<senderVars, netVars, historyVars, recvTempDeque>>
  BY DEF TryRecvFails, ResetReceiver
<1>2. TypeOK'
  <2>1. /\ chunk' \in Seq(Nat) /\ recvMsg' \in Seq(Nat)
        /\ recvDeque' \in Seq(AssembledMsg)
    BY <1>1, EmptySeq
  <2>2. QED
    BY <1>1, <2>1 DEF IInv, TypeOK, senderVars, netVars, historyVars
<1>3. StreamOrdered' /\ QueueIsSuffix'
  BY <1>1, SameQueues DEF senderVars, historyVars
<1>4. JobSound' /\ ClosedEmpty' /\ BuffersBounded'
  BY <1>1, SizeAssumption
  DEF IInv, FramingInv, JobSound, ClosedEmpty, BuffersBounded, senderVars
<1>5. Framed'
  BY <1>1 DEF Framed
<1>6. QED
  BY <1>2, <1>3, <1>4, <1>5 DEF IInv, FramingInv

\* Keeping the chunk in m_recvMsg, when it does not complete a fragment.
LEMMA KeepChunk ==
  ASSUME IInv, receiverPc = "parse",
         recvMsg' = recvMsg \o chunk, chunk' = <<>>, receiverPc' # "parse",
         receiverPc' \in {"idle", "recv", "parse", "process"},
         UNCHANGED <<senderVars, netVars, receiverOpen, recvTempDeque,
                     recvDeque, historyVars>>,
         NEW b \in 0..StreamEnd, FramedAt(b),
         \A k \in 1..Len(stream) :
           stream[k].start = b => Len(recvMsg) + Len(chunk) < stream[k].length,
         Len(recvMsg) + Len(chunk) < MsgCanCutMax
  PROVE  IInv' /\ FramedAt(b)'
<1>1. /\ recvMsg \in Seq(Nat) /\ chunk \in Seq(Nat) /\ receiverOpen
      /\ Len(recvMsg) \in Nat /\ Len(chunk) \in Nat
      /\ StreamEnd \in Nat /\ b \in Nat
  BY StreamFacts DEF IInv, TypeOK, FramingInv, ClosedEmpty
<1>2. /\ recvMsg' \in Seq(Nat) /\ Len(recvMsg') = Len(recvMsg) + Len(chunk)
      /\ RunFrom(recvMsg', b)
  BY <1>1, RunConcat DEF FramedAt
<1>3. chunk' \in Seq(Nat) /\ Len(chunk') = 0
  BY EmptySeq
<1>4. TypeOK'
  BY <1>2, <1>3 DEF IInv, TypeOK, senderVars, netVars, historyVars
<1>5. /\ StreamOrdered' /\ QueueIsSuffix' /\ StreamEnd' = StreamEnd
      /\ QueueStart' = QueueStart /\ \A c : Boundary(c)' <=> Boundary(c)
  BY SameQueues DEF senderVars, historyVars
<1>6. JobSound' /\ ClosedEmpty' /\ BuffersBounded'
  BY <1>1, <1>2
  DEF IInv, FramingInv, JobSound, ClosedEmpty, BuffersBounded, senderVars
<1>7. FramedAt(b)'
  <2>1. b + Len(recvMsg') + Len(chunk') = b + Len(recvMsg) + Len(chunk)
    BY <1>1, <1>2, <1>3
  <2>2. /\ Boundary(b)' /\ RunFrom(recvMsg, b)'
        /\ RunFrom(chunk, b + Len(recvMsg))'
        /\ (b + Len(recvMsg) + Len(chunk) <= StreamEnd)'
        /\ (\A k \in 1..Len(stream) :
              stream[k].start = b => Len(recvMsg) < stream[k].length)'
    <3>1. RunFrom(recvMsg, b)'
      BY <1>2 DEF RunFrom
    <3>2. RunFrom(chunk, b + Len(recvMsg))'
      BY <1>3 DEF RunFrom
    <3>3. QED
      BY <1>2, <1>5, <2>1, <3>1, <3>2 DEF FramedAt, historyVars
  <2>3. ASSUME ~broken'
        PROVE  (LET w == b + Len(recvMsg) + Len(chunk)
                IN /\ RunFrom(wire, w)
                   /\ w + Len(wire) <= StreamEnd
                   /\ senderOpen => /\ RunFrom(sendBuff, w + Len(wire))
                                    /\ w + Len(wire) + Len(sendBuff)
                                         = QueueStart)'
    BY <1>5, <2>1, <2>3 DEF FramedAt, RunFrom, senderVars, netVars
  <2>4. QED
    BY <2>2, <2>3 DEF FramedAt
<1>8. Framed'
  BY <1>1, <1>5, <1>7 DEF Framed
<1>9. QED
  BY <1>4, <1>5, <1>6, <1>7, <1>8 DEF IInv, FramingInv

LEMMA ParseShortStep ==
  ASSUME IInv, ParseShort
  PROVE  IInv' /\ SamePlace
<1>1. receiverPc = "parse" /\ Len(recvMsg) + Len(chunk) <= LenSize
  BY DEF ParseShort
<1>2. \E b \in 0..StreamEnd : FramedAt(b)
  BY <1>1 DEF IInv, FramingInv, Framed, ClosedEmpty
<1>3. SUFFICES ASSUME NEW b \in 0..StreamEnd, FramedAt(b)
               PROVE  IInv' /\ FramedAt(b)'
  BY <1>2 DEF SamePlace
<1>4. Len(recvMsg) \in Nat /\ Len(chunk) \in Nat
  BY DEF IInv, TypeOK
<1>5. \A k \in 1..Len(stream) :
        stream[k].start = b => Len(recvMsg) + Len(chunk) < stream[k].length
  <2>1. \A k \in 1..Len(stream) :
          stream[k].length \in Nat /\ stream[k].length > LenSize
    BY StreamFacts DEF IInv, TypeOK, FramingInv
  <2>2. QED
    BY <1>1, <1>4, <2>1, SizeAssumption
<1>6. Len(recvMsg) + Len(chunk) < MsgCanCutMax
  <2>1. LenSize < MsgCanCutMax
    <3>1. /\ LenSize \in Nat /\ MsgSize \in Nat /\ SendbufSize \in Nat
          /\ BorderSlack \in Nat /\ MsgCanCutMax \in Nat
          /\ LenSize < MsgSize /\ MsgSize <= SendbufSize - BorderSlack
          /\ SendbufSize <= MsgCanCutMax
      BY SizeAssumption DEF Cut
    <3>2. QED
      BY <3>1
  <2>2. QED
    BY <1>1, <1>4, <2>1, SizeAssumption
<1>7. QED
  BY <1>1, <1>3, <1>5, <1>6, KeepChunk DEF ParseShort

LEMMA ParsePartStep ==
  ASSUME IInv, ParsePart
  PROVE  IInv' /\ SamePlace
<1>1. /\ receiverPc = "parse" /\ HasLength
      /\ Len(recvMsg) + Len(chunk) < MsgLength
  BY DEF ParsePart
<1>2. \E b \in 0..StreamEnd : FramedAt(b)
  BY <1>1 DEF IInv, FramingInv, Framed, ClosedEmpty
<1>3. SUFFICES ASSUME NEW b \in 0..StreamEnd, FramedAt(b)
               PROVE  IInv' /\ FramedAt(b)'
  BY <1>2 DEF SamePlace
<1>4. StreamEnd \in Nat /\ b \in Nat
  BY StreamFacts DEF IInv, TypeOK, FramingInv
<1>5. PICK j \in 1..Len(stream) : /\ stream[j].start = b
                                  /\ MsgLength = stream[j].length
  BY <1>1, <1>3, <1>4, ParseFacts DEF IInv, FramingInv
<1>6. \A k \in 1..Len(stream) :
        stream[k].start = b => Len(recvMsg) + Len(chunk) < stream[k].length
  BY <1>1, <1>5, StreamFacts DEF IInv, TypeOK, FramingInv
<1>7. Len(recvMsg) + Len(chunk) < MsgCanCutMax
  <2>1. /\ stream[j].length \in Nat /\ stream[j].length < SendbufSize
    BY StreamFacts DEF IInv, TypeOK, FramingInv, StreamOrdered
  <2>2. Len(recvMsg) \in Nat /\ Len(chunk) \in Nat
    BY DEF IInv, TypeOK
  <2>3. QED
    BY <1>1, <1>5, <2>1, <2>2, SizeAssumption
<1>8. QED
  BY <1>1, <1>3, <1>6, <1>7, KeepChunk DEF ParsePart

\* A fragment that is complete leaves for the queues; the next one starts
\* where it ends.
LEMMA ParseWholeAt ==
  ASSUME IInv, ParseWhole, NEW b \in 0..StreamEnd, FramedAt(b)
  PROVE  /\ IInv'
         /\ \E k \in 1..Len(stream), c \in Nat :
              /\ stream[k].start = b /\ c = b + stream[k].length
              /\ PushRecvMsg(stream[k])
              /\ FramedAt(c)'
<1>1. /\ receiverPc = "parse" /\ HasLength /\ receiverOpen
      /\ Len(recvMsg) + Len(chunk) >= MsgLength
      /\ PushRecvMsg(FragmentAt((recvMsg \o chunk)[1]))
      /\ chunk' = SubSeq(chunk, MsgLength - Len(recvMsg) + 1, Len(chunk))
      /\ recvMsg' = <<>>
      /\ receiverPc' = IF chunk' = <<>> THEN "recv" ELSE "parse"
      /\ UNCHANGED <<senderVars, netVars, receiverOpen, historyVars>>
  BY DEF ParseWhole, Rest, IInv, FramingInv, ClosedEmpty
<1>2. /\ StreamEnd \in Nat /\ Len(recvMsg) \in Nat /\ Len(chunk) \in Nat
      /\ chunk \in Seq(Nat) /\ stream \in Seq(Fragment) /\ StreamOrdered
  BY StreamFacts DEF IInv, TypeOK, FramingInv
<1>3. FramedAt(b)
  OBVIOUS
<1> b \in Nat
  BY <1>2
<1>4. PICK j \in 1..Len(stream) :
        /\ stream[j].start = b /\ MsgLength = stream[j].length
        /\ FragmentAt((recvMsg \o chunk)[1]) = stream[j]
  BY <1>1, <1>2, <1>3, ParseFacts DEF IInv, FramingInv
<1>5. PICK L \in Nat : L = stream[j].length
  BY <1>2, StreamFacts
<1>6. PICK c \in 0..StreamEnd :
        /\ c = b + L /\ Boundary(c) /\ L > 0 /\ stream[j] \in Fragment
        /\ MsgLength = L /\ L - Len(recvMsg) \in 0..Len(chunk)
  <2>1. /\ L > 0 /\ b + L <= StreamEnd /\ Boundary(b + L)
        /\ stream[j] \in Fragment
    <3>1. LenSize \in Nat
      BY SizeAssumption
    <3>2. QED
      BY <1>2, <1>4, <1>5, <3>1, StreamFacts
  <2>2. Len(recvMsg) < L
    BY <1>3, <1>4, <1>5 DEF FramedAt
  <2>3. Len(recvMsg) + Len(chunk) >= L
    BY <1>1, <1>4, <1>5
  <2>4. L - Len(recvMsg) \in 0..Len(chunk)
    BY <1>2, <2>2, <2>3
  <2>5. b + L \in 0..StreamEnd
    BY <1>2, <2>1
  <2>6. QED
    BY <1>4, <1>5, <2>1, <2>4, <2>5
<1>7. /\ chunk' \in Seq(Nat) /\ RunFrom(chunk', c)
      /\ Len(chunk') = Len(recvMsg) + Len(chunk) - L
      /\ recvMsg' \in Seq(Nat) /\ Len(recvMsg') = 0
  <2>1. RunFrom(chunk, b + Len(recvMsg)) /\ b + Len(recvMsg) \in Nat
    BY <1>2, <1>3 DEF FramedAt
  <2>2. /\ chunk' \in Seq(Nat)
        /\ Len(chunk') = Len(chunk) - (L - Len(recvMsg))
        /\ RunFrom(chunk', b + Len(recvMsg) + (L - Len(recvMsg)))
    BY <1>1, <1>2, <1>6, <2>1, RunSplit
  <2>3. b + Len(recvMsg) + (L - Len(recvMsg)) = c
    BY <1>2, <1>6
  <2>4. QED
    BY <1>1, <1>2, <1>6, <2>2, <2>3, EmptySeq
<1>8. TypeOK'
  <2>1. recvTempDeque' \in Seq(Fragment) /\ recvDeque' \in Seq(AssembledMsg)
    <3> DEFINE f == stream[j]
               temp == Append(recvTempDeque, f)
    <3>1. /\ f \in Fragment /\ recvTempDeque \in Seq(Fragment)
          /\ recvDeque \in Seq(AssembledMsg)
      BY <1>6 DEF IInv, TypeOK
    <3>2. PushRecvMsg(f)
      BY <1>1, <1>4
    <3> HIDE DEF f
    <3>3. /\ temp \in Seq(Fragment) /\ Len(temp) \in Nat /\ Len(temp) >= 1
          /\ \A i \in 1..Len(temp) : temp[i] \in Fragment
      BY <3>1
    <3>4. \A g \in Fragment : /\ Piece(g) \in [id : Nat, lo : Nat, hi : Nat]
                              /\ g.length \in Nat /\ g.origLen \in Nat
      BY DEF Fragment, Piece
    <3>5. [length |-> f.length, parts |-> <<Piece(f)>>] \in AssembledMsg
      <4>1. <<Piece(f)>> \in Seq([id : Nat, lo : Nat, hi : Nat])
        BY <3>1, <3>4
      <4>2. QED
        BY <3>1, <3>4, <4>1 DEF AssembledMsg
    <3>6. Assembled(temp) \in AssembledMsg
      <4> HIDE DEF temp
      <4>1. \A i \in 1..Len(temp) :
              Piece(temp[i]) \in [id : Nat, lo : Nat, hi : Nat]
        BY <3>3, <3>4
      <4>2. [i \in 1..Len(temp) |-> Piece(temp[i])]
              \in Seq([id : Nat, lo : Nat, hi : Nat])
        BY <3>3, <4>1
      <4>3. temp[Len(temp)].origLen \in Nat
        BY <3>3, <3>4
      <4>4. QED
        BY <4>2, <4>3 DEF Assembled, AssembledMsg
    <3>7. \/ /\ recvDeque' = Append(recvDeque, [length |-> f.length,
                                                parts |-> <<Piece(f)>>])
             /\ recvTempDeque' = recvTempDeque
          \/ /\ recvDeque' = Append(recvDeque, Assembled(temp))
             /\ recvTempDeque' = <<>>
          \/ recvTempDeque' = temp /\ recvDeque' = recvDeque
      BY <3>2 DEF PushRecvMsg
    <3> HIDE DEF temp
    <3>8. \A m \in AssembledMsg : Append(recvDeque, m) \in Seq(AssembledMsg)
      BY <3>1
    <3>9. <<>> \in Seq(Fragment)
      BY EmptySeq
    <3>10. QED
      BY <3>1, <3>3, <3>5, <3>6, <3>7, <3>8, <3>9
  <2>2. receiverPc' \in {"idle", "recv", "parse", "process"}
    BY <1>1
  <2>3. QED
    BY <1>1, <1>7, <2>1, <2>2 DEF IInv, TypeOK, senderVars, netVars, historyVars
<1>9. /\ StreamOrdered' /\ QueueIsSuffix' /\ StreamEnd' = StreamEnd
      /\ QueueStart' = QueueStart /\ \A d : Boundary(d)' <=> Boundary(d)
  BY <1>1, SameQueues DEF senderVars, historyVars
<1>10. JobSound' /\ ClosedEmpty' /\ BuffersBounded'
  BY <1>1, <1>7, SizeAssumption
  DEF IInv, FramingInv, JobSound, ClosedEmpty, BuffersBounded, senderVars
<1>11. c + Len(recvMsg') + Len(chunk') = b + Len(recvMsg) + Len(chunk)
  BY <1>2, <1>6, <1>7
<1>12. FramedAt(c)'
  <2>1. RunFrom(recvMsg, c)' /\ RunFrom(chunk, c + Len(recvMsg))'
    <3>1. c + Len(recvMsg') = c
      BY <1>7
    <3>2. QED
      BY <1>7, <3>1 DEF RunFrom
  <2>2. /\ Boundary(c)'
        /\ (c + Len(recvMsg) + Len(chunk) <= StreamEnd)'
    <3>1. b + Len(recvMsg) + Len(chunk) <= StreamEnd
      BY <1>3 DEF FramedAt
    <3>2. QED
      BY <1>6, <1>9, <1>11, <3>1
  <2>3. (\A k \in 1..Len(stream) :
           stream[k].start = c => Len(recvMsg) < stream[k].length)'
    <3>1. \A k \in 1..Len(stream) :
            stream[k].length \in Nat /\ stream[k].length > 0
      <4>1. LenSize \in Nat
        BY SizeAssumption
      <4>2. QED
        BY <1>2, <4>1, StreamFacts
    <3>2. stream' = stream
      BY <1>1 DEF historyVars
    <3>3. QED
      BY <1>7, <3>1, <3>2
  <2>4. ASSUME ~broken'
        PROVE  (LET w == c + Len(recvMsg) + Len(chunk)
                IN /\ RunFrom(wire, w)
                   /\ w + Len(wire) <= StreamEnd
                   /\ senderOpen => /\ RunFrom(sendBuff, w + Len(wire))
                                    /\ w + Len(wire) + Len(sendBuff)
                                         = QueueStart)'
    BY <1>1, <1>3, <1>9, <1>11, <2>4
    DEF FramedAt, RunFrom, senderVars, netVars
  <2>5. QED
    BY <2>1, <2>2, <2>3, <2>4 DEF FramedAt
<1>13. Framed'
  <2>1. c \in 0..StreamEnd'
    BY <1>9
  <2>2. QED
    BY <1>1, <1>12, <2>1 DEF Framed
<1>14. c \in Nat /\ c = b + stream[j].length
  BY <1>2, <1>5, <1>6
<1>15. PushRecvMsg(stream[j])
  BY <1>1, <1>4
<1>16. QED
  BY <1>4, <1>8, <1>9, <1>10, <1>12, <1>13, <1>14, <1>15 DEF IInv, FramingInv

LEMMA ParseWholeStep ==
  ASSUME IInv, ParseWhole
  PROVE  IInv'
<1>1. PICK b \in 0..StreamEnd : FramedAt(b)
  BY DEF IInv, FramingInv, Framed, ClosedEmpty, ParseWhole
<1>2. QED
  BY <1>1, ParseWholeAt

(***************************************************************************)
(* The theorems.                                                           *)
(***************************************************************************)

LEMMA InitFramed == Init => IInv
<1> SUFFICES ASSUME Init PROVE IInv
  OBVIOUS
<1>1. TypeOK
  <2>1. /\ sendDeque \in Seq(Fragment) /\ stream \in Seq(Fragment)
        /\ recvTempDeque \in Seq(Fragment) /\ recvDeque \in Seq(AssembledMsg)
        /\ delivered \in Seq(AssembledMsg)
        /\ accepted \in Seq([id : Nat, length : Nat])
        /\ sendBuff \in Seq(Nat) /\ wire \in Seq(Nat)
        /\ chunk \in Seq(Nat) /\ recvMsg \in Seq(Nat)
    BY EmptySeq DEF Init
  <2>2. job \in [id : Nat, total : Nat, cur : Nat]
    BY DEF Init, NoJob
  <2>3. QED
    BY <2>1, <2>2 DEF Init, TypeOK
<1>2. StreamEnd = 0 /\ QueueStart = 0 /\ StreamOrdered /\ QueueIsSuffix
  BY DEF Init, StreamEnd, QueueStart, StreamOrdered, QueueIsSuffix
<1>3. JobSound /\ ClosedEmpty
  BY DEF Init, JobSound, ClosedEmpty
<1>4. BuffersBounded
  <2>1. SendbufSize > 0 /\ MsgCanCutMax > 0
    <3>1. /\ MsgSize \in Nat /\ SendbufSize \in Nat /\ BorderSlack \in Nat
          /\ MsgCanCutMax \in Nat /\ MsgSize <= SendbufSize - BorderSlack
          /\ MsgSize < BorderSlack /\ SendbufSize <= MsgCanCutMax
      BY SizeAssumption DEF Cut
    <3>2. QED
      BY <3>1
  <2>2. QED
    BY <2>1 DEF Init, BuffersBounded
<1>5. FramedAt(0)
  BY <1>2 DEF Init, FramedAt, Boundary, RunFrom
<1>6. Framed
  BY <1>2, <1>5 DEF Init, Framed
<1>7. QED
  BY <1>1, <1>2, <1>3, <1>4, <1>6 DEF IInv, FramingInv

LEMMA NextFramed == IInv /\ [Next]_vars => IInv'
<1> SUFFICES ASSUME IInv, [Next]_vars PROVE IInv'
  OBVIOUS
<1>1. CASE \E n \in Lengths : SendMsg(n)
  BY <1>1, SendMsgStep
<1>2. CASE SenderLoop
  <2>1. CASE CutFragment
    BY <2>1, CutFragmentStep
  <2>2. CASE FillBuffer
    BY <2>2, FillBufferStep
  <2>3. CASE TrySend \/ FillDone \/ SendAgain
    BY <2>3, PcStep
  <2>4. CASE \E n \in 1..Len(sendBuff) : SendBytes(n)
    BY <2>4, SendBytesStep
  <2>5. QED
    BY <1>2, <2>1, <2>2, <2>3, <2>4 DEF SenderLoop
<1>3. CASE CloseSender
  BY <1>3, CloseSenderStep
<1>4. CASE ReceiverLoop
  <2>1. CASE \E n \in 1..RecvCache : Recv(n)
    BY <2>1, RecvStep
  <2>2. CASE RecvAgain
    BY <2>2, PcStep
  <2>3. CASE TryRecvFails
    BY <2>3, TryRecvFailsStep
  <2>4. CASE ParseShort
    BY <2>4, ParseShortStep
  <2>5. CASE ParsePart
    BY <2>5, ParsePartStep
  <2>6. CASE ParseWhole
    BY <2>6, ParseWholeStep
  <2>7. CASE ProcessMsg
    BY <2>7, ProcessMsgStep
  <2>8. QED
    BY <1>4, <2>1, <2>2, <2>3, <2>4, <2>5, <2>6, <2>7 DEF ReceiverLoop
<1>5. CASE Break
  BY <1>5, BreakStep
<1>6. CASE Reconnect
  BY <1>6, ReconnectStep
<1>7. CASE UNCHANGED vars
  BY <1>7, StutterStep
<1>8. QED
  BY <1>1, <1>2, <1>3, <1>4, <1>5, <1>6, <1>7 DEF Next

\* Type correctness of the connection, with any sizes and message lengths.
THEOREM TypeCorrect == Spec => []TypeOK
<1>1. IInv => TypeOK
  BY DEF IInv
<1>2. QED
  BY InitFramed, NextFramed, <1>1, PTL DEF Spec

\* The bytes between the queues of the two ends are always one consecutive
\* stretch of the stream, cut at fragment boundaries, and fit the buffers.
THEOREM Framing == Spec => []FramingInv
<1>1. IInv => FramingInv
  BY DEF IInv
<1>2. QED
  BY InitFramed, NextFramed, <1>1, PTL DEF Spec

\* tryRecv never refuses a length field on a connection between two ends of
\* this library, however the kernel slices the stream.
THEOREM HeadersSound == Spec => []HeaderSound
<1>1. IInv => HeaderSound
  <2> SUFFICES ASSUME IInv, receiverPc = "parse", HasLength
               PROVE  ~BadLength
    BY DEF HeaderSound
  <2>1. StreamEnd \in Nat
    BY StreamFacts DEF IInv, TypeOK, FramingInv
  <2>2. PICK b \in 0..StreamEnd : FramedAt(b)
    BY DEF IInv, FramingInv, Framed, ClosedEmpty
  <2>3. b \in Nat
    BY <2>1
  <2>4. QED
    BY <2>2, <2>3, ParseFacts DEF IInv, FramingInv
<1>2. QED
  BY InitFramed, NextFramed, <1>1, PTL DEF Spec

\* No fragment is ever queued that an empty send buffer would not take.
THEOREM SendNeverStalls == Spec => []NoSendStall
<1>1. IInv => NoSendStall
  <2> SUFFICES ASSUME IInv, sendDeque # <<>>
               PROVE  Head(sendDeque).length < SendbufSize
    BY DEF NoSendStall
  <2>1. /\ Len(sendDeque) >= 1 /\ Len(sendDeque) \in Nat
        /\ Len(stream) \in Nat /\ Len(sendDeque) <= Len(stream)
        /\ Head(sendDeque) = sendDeque[1]
    BY DEF IInv, TypeOK, FramingInv, QueueIsSuffix
  <2>2. /\ Head(sendDeque) = stream[Len(stream) - Len(sendDeque) + 1]
        /\ Len(stream) - Len(sendDeque) + 1 \in 1..Len(stream)
    BY <2>1 DEF IInv, FramingInv, QueueIsSuffix
  <2>3. QED
    BY <2>2 DEF IInv, FramingInv, StreamOrdered
<1>2. QED
  BY InitFramed, NextFramed, <1>1, PTL DEF Spec

(***************************************************************************)
(* The sum of the lengths in pushRecvTempMsg.  FoldFunction adds them up   *)
(* in an order nobody knows: the sum over a set of places is the same for  *)
(* every order.                                                            *)
(***************************************************************************)

\* w gives the sum of the lengths over each set of the first n places.
AddsUp(w, frags, n) ==
  /\ w \in [SUBSET (1..n) -> Nat]
  /\ w[{}] = 0
  /\ \A s \in SUBSET (1..n) : \A x \in s : w[s] = frags[x].length + w[s \ {x}]

LEMMA SumsExist ==
  ASSUME NEW frags \in Seq(Fragment)
  PROVE  \E w : AddsUp(w, frags, Len(frags))
<1> DEFINE T == {n \in Nat : n <= Len(frags) => \E w : AddsUp(w, frags, n)}
<1>1. \A i \in 1..Len(frags) : frags[i].length \in Nat
  <2>1. \A i \in 1..Len(frags) : frags[i] \in Fragment
    OBVIOUS
  <2>2. \A f \in Fragment : f.length \in Nat
    BY DEF Fragment
  <2>3. QED
    BY <2>1, <2>2
<1>2. 0 \in T
  <2> DEFINE w == [s \in SUBSET (1..0) |-> 0]
  <2>1. w \in [SUBSET (1..0) -> Nat] /\ w[{}] = 0
    OBVIOUS
  <2>2. \A s \in SUBSET (1..0) : \A x \in s : FALSE
    OBVIOUS
  <2> HIDE DEF w
  <2>3. AddsUp(w, frags, 0)
    BY <2>1, <2>2 DEF AddsUp
  <2>4. QED
    BY <2>3
<1>3. ASSUME NEW n \in Nat, n \in T PROVE n + 1 \in T
  <2>1. SUFFICES ASSUME n + 1 <= Len(frags) PROVE \E w : AddsUp(w, frags, n + 1)
    OBVIOUS
  <2>2. PICK w : AddsUp(w, frags, n)
    BY <1>3, <2>1
  <2> DEFINE l == frags[n + 1].length
             v == [s \in SUBSET (1..n + 1) |->
                     IF n + 1 \in s THEN l + w[s \ {n + 1}] ELSE w[s]]
  <2>3. l \in Nat
    BY <1>1, <2>1
  <2>4. \A s \in SUBSET (1..n + 1) : s \ {n + 1} \in SUBSET (1..n)
    OBVIOUS
  <2>5. \A s \in SUBSET (1..n + 1) : n + 1 \notin s => s \in SUBSET (1..n)
    OBVIOUS
  <2> HIDE DEF l
  <2>6. /\ v \in [SUBSET (1..n + 1) -> Nat]
        /\ \A s \in SUBSET (1..n + 1) :
             /\ n + 1 \in s => v[s] = l + w[s \ {n + 1}]
             /\ n + 1 \notin s => v[s] = w[s]
    <3>1. \A s \in SUBSET (1..n) : w[s] \in Nat
      BY <2>2 DEF AddsUp
    <3>2. ASSUME NEW s \in SUBSET (1..n + 1)
          PROVE  (IF n + 1 \in s THEN l + w[s \ {n + 1}] ELSE w[s]) \in Nat
      <4>1. CASE n + 1 \in s
        <5>1. w[s \ {n + 1}] \in Nat
          BY <2>4, <3>1
        <5>2. QED
          BY <2>3, <4>1, <5>1
      <4>2. CASE n + 1 \notin s
        BY <2>5, <3>1, <4>2
      <4>3. QED
        BY <4>1, <4>2
    <3>3. QED
      BY <3>2
  <2> HIDE DEF v
  <2>7. v[{}] = 0
    <3>1. {} \in SUBSET (1..n + 1) /\ n + 1 \notin {}
      OBVIOUS
    <3>2. QED
      BY <2>2, <2>6, <3>1 DEF AddsUp
  <2>8. ASSUME NEW s \in SUBSET (1..n + 1), NEW x \in s
        PROVE  v[s] = frags[x].length + v[s \ {x}]
    <3> DEFINE r == s \ {x}
    <3>1. r \in SUBSET (1..n + 1)
      OBVIOUS
    <3>2. CASE x = n + 1
      <4>1. n + 1 \notin r
        BY <3>2
      <4>2. v[r] = w[r]
        BY <2>6, <3>1, <4>1
      <4>3. v[s] = l + w[r]
        BY <2>6, <3>2
      <4>4. QED
        BY <3>2, <4>2, <4>3 DEF l
    <3>3. CASE x # n + 1 /\ n + 1 \notin s
      <4>1. n + 1 \notin r /\ s \in SUBSET (1..n)
        BY <2>5, <3>3
      <4>2. v[r] = w[r] /\ v[s] = w[s]
        BY <2>6, <3>1, <3>3, <4>1
      <4>3. w[s] = frags[x].length + w[r]
        BY <2>2, <4>1 DEF AddsUp
      <4>4. QED
        BY <4>2, <4>3
    <3>4. CASE x # n + 1 /\ n + 1 \in s
      <4> DEFINE q == s \ {n + 1}
      <4>1. n + 1 \in r /\ q \in SUBSET (1..n) /\ x \in q
        BY <2>4, <3>4
      <4>2. v[s] = l + w[q] /\ v[r] = l + w[r \ {n + 1}]
        BY <2>6, <3>1, <3>4, <4>1
      <4>3. r \ {n + 1} = q \ {x}
        OBVIOUS
      <4> HIDE DEF q, r
      <4>4. w[q] = frags[x].length + w[q \ {x}]
        BY <2>2, <4>1 DEF AddsUp
      <4>5. q \ {x} \in SUBSET (1..n)
        BY <4>1
      <4>6. w[q \ {x}] \in Nat /\ frags[x].length \in Nat
        <5>1. x \in 1..Len(frags)
          BY <2>1, <4>1
        <5>2. QED
          BY <1>1, <2>2, <4>5, <5>1 DEF AddsUp
      <4>7. v[r] = l + w[q \ {x}]
        BY <4>2, <4>3
      <4>8. v[s] = frags[x].length + v[r]
        BY <2>3, <4>2, <4>4, <4>6, <4>7
      <4>9. QED
        BY <4>8 DEF r
    <3>5. QED
      BY <3>2, <3>3, <3>4
  <2>9. AddsUp(v, frags, n + 1)
    BY <2>6, <2>7, <2>8 DEF AddsUp
  <2>10. QED
    BY <2>9
<1>4. Nat \subseteq T
  <2> HIDE DEF T
  <2>1. QED
    BY <1>2, <1>3, InductiveSet
<1>5. Len(frags) \in Nat
  OBVIOUS
<1>6. QED
  BY <1>4, <1>5

\* The function that the fold recurs by, and its only value.
FoldFrom(f, frags) ==
  f = [s \in SUBSET (1..Len(frags)) |->
         IF s = {} THEN 0
         ELSE frags[CHOOSE x \in s : TRUE].length
              + f[s \ {CHOOSE x \in s : TRUE}]]

LEMMA FoldIsSum ==
  ASSUME NEW frags \in Seq(Fragment), NEW w, AddsUp(w, frags, Len(frags)),
         NEW f, FoldFrom(f, frags)
  PROVE  f[1..Len(frags)] = w[1..Len(frags)]
<1> DEFINE n == Len(frags)
           T == {k \in Nat : \A s \in SUBSET (1..n) :
                               Cardinality(s) <= k => f[s] = w[s]}
<1>1. n \in Nat /\ \A s \in SUBSET (1..n) :
                      IsFiniteSet(s) /\ Cardinality(s) \in Nat
  <2>1. n \in Nat
    OBVIOUS
  <2>2. IsFiniteSet(1..n)
    BY <2>1, FS_Interval
  <2>3. QED
    BY <2>1, <2>2, FS_Subset, FS_CardinalityType
<1>2. \A s \in SUBSET (1..n) :
        f[s] = IF s = {} THEN 0
               ELSE frags[CHOOSE x \in s : TRUE].length
                    + f[s \ {CHOOSE x \in s : TRUE}]
  BY DEF FoldFrom
<1> HIDE DEF n
<1>3. f[{}] = w[{}]
  <2>1. {} \in SUBSET (1..n)
    OBVIOUS
  <2>2. f[{}] = 0
    BY <1>2, <2>1
  <2>3. QED
    BY <2>2 DEF AddsUp, n
<1>4. 0 \in T
  <2>1. ASSUME NEW s \in SUBSET (1..n), Cardinality(s) <= 0 PROVE s = {}
    BY <1>1, <2>1, FS_EmptySet
  <2>2. QED
    BY <1>3, <2>1
<1>5. ASSUME NEW k \in Nat, k \in T PROVE k + 1 \in T
  <2>1. SUFFICES ASSUME NEW s \in SUBSET (1..n), Cardinality(s) <= k + 1
                 PROVE  f[s] = w[s]
    OBVIOUS
  <2>2. CASE s = {}
    BY <1>3, <2>2
  <2>3. CASE s # {}
    <3> DEFINE x == CHOOSE y \in s : TRUE
    <3>1. x \in s
      BY <2>3
    <3>2. f[s] = frags[x].length + f[s \ {x}]
      BY <1>2, <2>3
    <3> HIDE DEF x
    <3>3. s \ {x} \in SUBSET (1..n) /\ Cardinality(s \ {x}) <= k
      <4>1. Cardinality(s \ {x}) = Cardinality(s) - 1
        BY <1>1, <3>1, FS_RemoveElement
      <4>2. s \ {x} \in SUBSET (1..n) /\ Cardinality(s) \in Nat
        BY <1>1
      <4>3. QED
        BY <2>1, <4>1, <4>2
    <3>4. f[s \ {x}] = w[s \ {x}]
      BY <1>5, <3>3
    <3>5. w[s] = frags[x].length + w[s \ {x}]
      BY <3>1 DEF AddsUp, n
    <3>6. QED
      BY <3>2, <3>4, <3>5
  <2>4. QED
    BY <2>2, <2>3
<1>6. Nat \subseteq T
  <2> HIDE DEF T
  <2>1. QED
    BY <1>4, <1>5, InductiveSet
<1>7. 1..n \in SUBSET (1..n) /\ Cardinality(1..n) \in Nat
  BY <1>1
<1>8. Cardinality(1..n) \in T
  <2> HIDE DEF T
  <2>1. QED
    BY <1>6, <1>7
<1>9. f[1..n] = w[1..n]
  <2> DEFINE c == Cardinality(1..n)
  <2>1. c <= c
    BY <1>7
  <2>2. \A s \in SUBSET (1..n) : Cardinality(s) <= c => f[s] = w[s]
    BY <1>8
  <2>3. QED
    BY <1>7, <2>1, <2>2
<1>10. QED
  BY <1>9 DEF n

\* The total is the sum over all places, less the headers of all but one.
LEMMA TotalIsSum ==
  ASSUME NEW frags \in Seq(Fragment), NEW w, AddsUp(w, frags, Len(frags))
  PROVE  TotalLength(frags) = w[1..Len(frags)] - MsgSize * (Len(frags) - 1)
<1>1. DOMAIN frags = 1..Len(frags)
  OBVIOUS
<1> DEFINE F == CHOOSE f : FoldFrom(f, frags)
<1>2. TotalLength(frags) = F[1..Len(frags)] - MsgSize * (Len(frags) - 1)
  BY <1>1 DEF TotalLength, FoldFunction, FoldFunctionOnSet, MapThenFoldSet,
              FoldFrom
<1>3. FoldFrom(w, frags)
  <2> DEFINE n == Len(frags)
  <2>1. w \in [SUBSET (1..n) -> Nat]
    BY DEF AddsUp
  <2>2. ASSUME NEW s \in SUBSET (1..n)
        PROVE  w[s] = IF s = {} THEN 0
                      ELSE frags[CHOOSE x \in s : TRUE].length
                           + w[s \ {CHOOSE x \in s : TRUE}]
    <3>1. CASE s = {}
      BY <3>1 DEF AddsUp
    <3>2. CASE s # {}
      <4> DEFINE x == CHOOSE y \in s : TRUE
      <4>1. x \in s
        BY <3>2
      <4> HIDE DEF x
      <4>2. w[s] = frags[x].length + w[s \ {x}]
        BY <4>1 DEF AddsUp
      <4>3. QED
        BY <3>2, <4>2 DEF x
    <3>3. QED
      BY <3>1, <3>2
  <2> DEFINE g == [s \in SUBSET (1..n) |->
                     IF s = {} THEN 0
                     ELSE frags[CHOOSE x \in s : TRUE].length
                          + w[s \ {CHOOSE x \in s : TRUE}]]
  <2>3. DOMAIN w = SUBSET (1..n) /\ w = [s \in SUBSET (1..n) |-> w[s]]
    BY <2>1
  <2>4. w = g
    BY <2>2, <2>3
  <2>5. QED
    BY <2>4 DEF FoldFrom
<1>4. FoldFrom(F, frags)
  BY <1>3
<1> HIDE DEF F
<1>5. F[1..Len(frags)] = w[1..Len(frags)]
  BY <1>4, FoldIsSum
<1>6. QED
  BY <1>2, <1>5

\* One fragment more adds its length without its header.
LEMMA TotalGrows ==
  ASSUME NEW q \in Seq(Fragment), NEW f \in Fragment
  PROVE  /\ TotalLength(Append(q, f)) = TotalLength(q) + f.length - MsgSize
         /\ TotalLength(<<>>) = MsgSize
<1> DEFINE n == Len(q)
           r == Append(q, f)
<1>1. /\ n \in Nat /\ r \in Seq(Fragment) /\ Len(r) = n + 1
      /\ \A i \in 1..n : r[i] = q[i]
      /\ r[n + 1] = f
  OBVIOUS
<1>2. f.length \in Nat /\ MsgSize \in Nat
  BY SizeAssumption DEF Fragment
<1> HIDE DEF r
<1>3. PICK w : AddsUp(w, r, n + 1)
  BY <1>1, SumsExist
<1> DEFINE v == [s \in SUBSET (1..n) |-> w[s]]
<1>4. \A s \in SUBSET (1..n) : s \in SUBSET (1..n + 1) /\ w[s] \in Nat
  <2>1. 1..n \subseteq 1..n + 1
    BY <1>1
  <2>2. \A s \in SUBSET (1..n) : s \in SUBSET (1..n + 1)
    BY <2>1
  <2>3. w \in [SUBSET (1..n + 1) -> Nat]
    BY <1>3 DEF AddsUp
  <2>4. QED
    BY <2>2, <2>3
<1>5. v \in [SUBSET (1..n) -> Nat] /\ \A s \in SUBSET (1..n) : v[s] = w[s]
  BY <1>4
<1> HIDE DEF v
<1>6. AddsUp(v, q, n)
  <2>1. v[{}] = 0
    BY <1>3, <1>5 DEF AddsUp
  <2>2. ASSUME NEW s \in SUBSET (1..n), NEW x \in s
        PROVE  v[s] = q[x].length + v[s \ {x}]
    <3>1. s \ {x} \in SUBSET (1..n)
      OBVIOUS
    <3>2. w[s] = r[x].length + w[s \ {x}]
      BY <1>3, <1>4 DEF AddsUp
    <3>3. QED
      BY <1>1, <1>5, <3>1, <3>2
  <2>3. QED
    BY <1>5, <2>1, <2>2 DEF AddsUp
<1>7. TotalLength(q) = v[1..n] - MsgSize * (n - 1)
  BY <1>6, TotalIsSum
<1>8. TotalLength(r) = w[1..n + 1] - MsgSize * n
  <2>1. TotalLength(r) = w[1..n + 1] - MsgSize * ((n + 1) - 1)
    BY <1>1, <1>3, TotalIsSum
  <2>2. (n + 1) - 1 = n
    BY <1>1
  <2>3. QED
    BY <2>1, <2>2
<1>9. w[1..n + 1] = f.length + v[1..n]
  <2>1. 1..n + 1 \in SUBSET (1..n + 1) /\ n + 1 \in 1..n + 1
    BY <1>1
  <2>2. (1..n + 1) \ {n + 1} = 1..n
    BY <1>1
  <2>3. w[1..n + 1] = r[n + 1].length + w[(1..n + 1) \ {n + 1}]
    BY <1>3, <2>1 DEF AddsUp
  <2>4. 1..n \in SUBSET (1..n)
    OBVIOUS
  <2>5. QED
    BY <1>1, <1>5, <2>2, <2>3, <2>4
<1>10. v[1..n] \in Nat
  BY <1>5
<1>11. MsgSize * n = MsgSize * (n - 1) + MsgSize
  BY <1>1, <1>2
<1>12. TotalLength(r) = TotalLength(q) + f.length - MsgSize
  <2> DEFINE m == MsgSize * (n - 1)
  <2>1. m \in Int
    BY <1>1, <1>2
  <2> HIDE DEF m
  <2>2. MsgSize * n = m + MsgSize /\ TotalLength(q) = v[1..n] - m
    BY <1>7, <1>11 DEF m
  <2>3. QED
    BY <1>2, <1>8, <1>9, <1>10, <2>1, <2>2
<1>13. TotalLength(<<>>) = MsgSize
  <2>1. <<>> \in Seq(Fragment) /\ Len(<<>>) = 0
    BY EmptySeq
  <2>2. PICK u : AddsUp(u, <<>>, 0)
    BY <2>1, SumsExist
  <2>3. TotalLength(<<>>) = u[1..0] - MsgSize * (0 - 1)
    BY <2>1, <2>2, TotalIsSum
  <2>4. 1..0 = {}
    OBVIOUS
  <2>5. u[1..0] = 0
    BY <2>2, <2>4 DEF AddsUp
  <2>6. QED
    BY <1>2, <2>3, <2>5
<1>14. QED
  BY <1>12, <1>13 DEF r

(***************************************************************************)
(* Why what is put together is what was sent.  The fragments of a          *)
(* connection are the messages it accepted, one after the other, each cut  *)
(* from its first byte to its last; the receiving end has handed over or   *)
(* queued whole messages up to the one it is in, of which m_recvTempDeque  *)
(* has the fragments up to where the unparsed bytes begin.                 *)
(***************************************************************************)
SliceSound(f) ==
  /\ f.lo < f.hi /\ f.hi <= f.origLen
  /\ f.length = (f.hi - f.lo) + (IF f.lo = 0 THEN 0 ELSE MsgSize)
  /\ f.flag = "Intergrated" <=> (f.lo = 0 /\ f.hi = f.origLen)

Whole(f)    == f.hi = f.origLen
LastOf(q)   == q[Len(q)]
Follows(f, g) == IF Whole(f)
                 THEN g.id = f.id + 1 /\ g.lo = 0
                 ELSE g.id = f.id /\ g.origLen = f.origLen /\ g.lo = f.hi

\* Messages are numbered in the order they are sent: the first of this
\* connection, and the one the receiving end is to complete next.
FirstId == sent - Len(accepted) + 1
NextId  == FirstId + handled + Len(recvDeque)

\* The stream ends with the last fragment of message m.
CutUpTo(m) == IF stream = <<>> THEN m = FirstId - 1
              ELSE Whole(LastOf(stream)) /\ LastOf(stream).id = m

Sliced ==
  /\ \A k \in 1..Len(stream) : SliceSound(stream[k])
  /\ stream # <<>> => stream[1].lo = 0 /\ stream[1].id = FirstId
  /\ \A k \in 1..Len(stream) - 1 : Follows(stream[k], stream[k + 1])
  /\ senderPc # "cut" => CutUpTo(sent)
  /\ senderPc = "cut" =>
       /\ job.id = sent
       /\ job.cur = 0 => CutUpTo(sent - 1)
       /\ job.cur # 0 => /\ stream # <<>> /\ LastOf(stream).id = sent
                         /\ LastOf(stream).origLen = job.total
                         /\ LastOf(stream).hi = job.cur

AcceptedInOrder ==
  /\ Len(accepted) <= sent
  /\ \A i \in 1..Len(accepted) : accepted[i].id = FirstId - 1 + i
  /\ \A k \in 1..Len(stream) :
       /\ stream[k].id - FirstId + 1 \in 1..Len(accepted)
       /\ accepted[stream[k].id - FirstId + 1].length = stream[k].origLen
  /\ senderPc = "cut" => /\ accepted # <<>>
                         /\ LastOf(accepted).length = job.total

\* The fragments of t are the first of message m, without gaps.
Chained(t, m) ==
  /\ t[1].lo = 0 /\ t[1].id = m /\ LastOf(t).id = m
  /\ \A i \in 1..Len(t) - 1 : t[i + 1].id = t[i].id /\ t[i + 1].lo = t[i].hi
  /\ TotalLength(t) = LastOf(t).hi

\* The fragments that were parsed are those that end at b or before.
ReadUpTo(b) ==
  IF recvTempDeque = <<>>
  THEN \/ b = 0 /\ NextId = FirstId
       \/ \E k \in 1..Len(stream) :
            /\ stream[k].start + stream[k].length = b
            /\ Whole(stream[k]) /\ stream[k].id = NextId - 1
  ELSE \E k \in 1..Len(stream) : /\ stream[k].start + stream[k].length = b
                                 /\ stream[k] = LastOf(recvTempDeque)

\* m_recvDeque holds the messages after those processMsg has had.
QueuedInOrder ==
  \A i \in 1..Len(recvDeque) :
    /\ handled + i <= Len(accepted)
    /\ IsWhole(recvDeque[i])
    /\ MessageOf(recvDeque[i]) = accepted[handled + i]

Received ==
  /\ handled <= Len(accepted)
  /\ QueuedInOrder
  /\ ~receiverOpen => recvDeque = <<>>
  /\ receiverOpen =>
       /\ recvTempDeque # <<>> => /\ Chained(recvTempDeque, NextId)
                                  /\ ~Whole(LastOf(recvTempDeque))
       /\ \E b \in 0..StreamEnd : FramedAt(b) /\ ReadUpTo(b)

SliceInv == Sliced /\ AcceptedInOrder

-----------------------------------------------------------------------------
\* The numbers of the messages.
LEMMA Numbers ==
  ASSUME TypeOK, AcceptedInOrder
  PROVE  /\ Len(accepted) \in Nat /\ sent \in Nat /\ FirstId \in Nat
         /\ FirstId > 0 /\ Len(stream) \in Nat
         /\ NextId \in Nat /\ handled \in Nat /\ Len(recvDeque) \in Nat
         /\ \A k \in 1..Len(stream) :
              /\ stream[k].id \in Nat /\ stream[k].lo \in Nat
              /\ stream[k].hi \in Nat /\ stream[k].origLen \in Nat
              /\ stream[k].length \in Nat /\ stream[k].start \in Nat
         /\ \A i \in 1..Len(accepted) :
              /\ accepted[i] \in [id : Nat, length : Nat]
              /\ accepted[i].id \in Nat /\ accepted[i].length \in Nat
<1>1. /\ Len(accepted) \in Nat /\ sent \in Nat /\ Len(stream) \in Nat
      /\ handled \in Nat /\ Len(recvDeque) \in Nat
  BY DEF TypeOK
<1>2. FirstId \in Nat /\ FirstId > 0
  BY <1>1 DEF AcceptedInOrder, FirstId
<1>3. NextId \in Nat
  BY <1>1, <1>2 DEF NextId
<1>4. \A k \in 1..Len(stream) : stream[k] \in Fragment
  BY DEF TypeOK
<1>5. \A f \in Fragment : /\ f.id \in Nat /\ f.lo \in Nat /\ f.hi \in Nat
                          /\ f.origLen \in Nat /\ f.length \in Nat
                          /\ f.start \in Nat
  BY DEF Fragment
<1>6. \A i \in 1..Len(accepted) : /\ accepted[i] \in [id : Nat, length : Nat]
                                  /\ accepted[i].id \in Nat
                                  /\ accepted[i].length \in Nat
  <2>1. accepted \in Seq([id : Nat, length : Nat])
    BY DEF TypeOK
  <2>2. \A i \in 1..Len(accepted) : accepted[i] \in [id : Nat, length : Nat]
    BY <2>1, ElementOfSeq
  <2>3. \A m \in [id : Nat, length : Nat] : m.id \in Nat /\ m.length \in Nat
    OBVIOUS
  <2>4. QED
    BY <2>2, <2>3
<1>7. QED
  BY <1>1, <1>2, <1>3, <1>4, <1>5, <1>6

\* Steps that cut nothing and accept nothing.
LEMMA SameSlices ==
  ASSUME SliceInv, UNCHANGED <<stream, accepted, sent, job>>,
         senderPc' = "cut" <=> senderPc = "cut"
  PROVE  SliceInv' /\ FirstId' = FirstId
<1>1. FirstId' = FirstId
  BY DEF FirstId
<1>2. Sliced'
  BY <1>1 DEF SliceInv, Sliced, CutUpTo
<1>3. AcceptedInOrder'
  BY <1>1 DEF SliceInv, AcceptedInOrder
<1>4. QED
  BY <1>1, <1>2, <1>3 DEF SliceInv

\* q is the beginning of r.
Grown(q, r) == Len(q) <= Len(r) /\ \A i \in 1..Len(q) : r[i] = q[i]

LEMMA SendMsgSlices ==
  ASSUME IInv, SliceInv, NEW n \in Lengths, SendMsg(n)
  PROVE  /\ SliceInv' /\ FirstId' = FirstId
         /\ Grown(stream, stream') /\ Grown(accepted, accepted')
<1> DEFINE m == [id |-> sent + 1, length |-> n]
<1>1. /\ senderPc = "idle" /\ sent' = sent + 1 /\ senderPc' = "cut"
      /\ job' = [id |-> sent + 1, total |-> n, cur |-> 0]
      /\ accepted' = Append(accepted, m) /\ stream' = stream
  BY DEF SendMsg
<1>2. n \in Nat
  BY LengthAssumption
<1>3. /\ Len(accepted) \in Nat /\ sent \in Nat /\ Len(stream) \in Nat
      /\ FirstId \in Nat /\ \A k \in 1..Len(stream) : stream[k].id \in Nat
  BY Numbers DEF IInv, SliceInv
<1>4. m \in [id : Nat, length : Nat]
  BY <1>2, <1>3
<1>5. /\ Len(accepted') = Len(accepted) + 1
      /\ \A i \in 1..Len(accepted) : accepted'[i] = accepted[i]
      /\ accepted'[Len(accepted) + 1] = m
  <2>1. accepted \in Seq([id : Nat, length : Nat])
    BY DEF IInv, TypeOK
  <2> HIDE DEF m
  <2>2. QED
    BY <1>1, <1>4, <2>1, AppendFacts
<1>6. m.id = sent + 1 /\ m.length = n
  OBVIOUS
<1> HIDE DEF m
<1>7. FirstId' = FirstId
  BY <1>1, <1>3, <1>5 DEF FirstId
<1>8. Sliced'
  <2>1. job'.id = sent' /\ job'.cur = 0 /\ sent' - 1 = sent
    BY <1>1, <1>3
  <2>2. CutUpTo(sent)
    BY <1>1 DEF SliceInv, Sliced
  <2>3. IF stream' = <<>> THEN sent' - 1 = FirstId' - 1
        ELSE Whole(LastOf(stream')) /\ LastOf(stream').id = sent' - 1
    BY <1>1, <1>7, <2>1, <2>2 DEF CutUpTo
  <2>4. QED
    BY <1>1, <1>7, <2>1, <2>3 DEF SliceInv, Sliced, CutUpTo
<1>9. AcceptedInOrder'
  <2>1. Len(accepted') <= sent'
    BY <1>1, <1>3, <1>5 DEF SliceInv, AcceptedInOrder
  <2>2. ASSUME NEW i \in 1..Len(accepted')
        PROVE  accepted'[i].id = FirstId' - 1 + i
    <3>1. CASE i = Len(accepted) + 1
      BY <1>3, <1>5, <1>6, <1>7, <3>1 DEF FirstId
    <3>2. CASE i \in 1..Len(accepted)
      BY <1>5, <1>7, <3>2 DEF SliceInv, AcceptedInOrder
    <3>3. QED
      BY <1>3, <1>5, <3>1, <3>2
  <2>3. ASSUME NEW k \in 1..Len(stream)
        PROVE  /\ stream[k].id - FirstId + 1 \in 1..Len(accepted')
               /\ accepted'[stream[k].id - FirstId + 1].length
                    = stream[k].origLen
    <3>1. /\ stream[k].id - FirstId + 1 \in 1..Len(accepted)
          /\ accepted[stream[k].id - FirstId + 1].length = stream[k].origLen
      BY DEF SliceInv, AcceptedInOrder
    <3>2. QED
      BY <1>3, <1>5, <3>1
  <2>4. accepted' # <<>> /\ LastOf(accepted').length = job'.total
    <3>1. job'.total = n
      BY <1>1
    <3>2. QED
      BY <1>3, <1>5, <1>6, <3>1 DEF LastOf
  <2>5. QED
    BY <1>1, <1>7, <2>1, <2>2, <2>3, <2>4 DEF AcceptedInOrder
<1>10. Grown(stream, stream') /\ Grown(accepted, accepted')
  BY <1>1, <1>3, <1>5 DEF Grown
<1>11. QED
  BY <1>7, <1>8, <1>9, <1>10 DEF SliceInv

\* The fragment sendMsg makes is the slice it is to be.
LEMMA NextSlice ==
  ASSUME IInv, senderPc = "cut"
  PROVE  /\ SliceSound(NextFragment) /\ NextFragment.id = job.id
         /\ NextFragment.lo = job.cur /\ NextFragment.origLen = job.total
<1>1. /\ job.id \in Nat /\ job.total \in Nat /\ job.cur \in Nat
      /\ job.cur < job.total
  BY DEF IInv, TypeOK, FramingInv, JobSound
<1>2. Cut \in Nat /\ MsgSize \in Nat /\ MsgSize > 0 /\ MsgSize <= Cut
  BY SizeAssumption DEF Cut
<1> DEFINE c == IF Cut > job.total - job.cur THEN job.total - job.cur ELSE Cut
           l == IF job.cur = 0 THEN c ELSE c + MsgSize
<1>3. c \in Nat /\ c > 0 /\ job.cur + c <= job.total
  BY <1>1, <1>2
<1>4. /\ NextFragment.id = job.id /\ NextFragment.lo = job.cur
      /\ NextFragment.hi = job.cur + c /\ NextFragment.length = l
      /\ NextFragment.origLen = job.total
      /\ NextFragment.flag = IF job.cur # 0 THEN "Child"
                             ELSE IF l = job.total THEN "Intergrated"
                             ELSE "Father"
  BY DEF NextFragment, BuffLen
<1> DEFINE f == NextFragment
<1> HIDE DEF c, f
<1>5. f.lo < f.hi /\ f.hi <= f.origLen
  BY <1>1, <1>3, <1>4 DEF f
<1>6. f.length = (f.hi - f.lo) + (IF f.lo = 0 THEN 0 ELSE MsgSize)
  BY <1>1, <1>2, <1>3, <1>4 DEF f
<1>7. f.flag = "Intergrated" <=> (f.lo = 0 /\ f.hi = f.origLen)
  <2>1. CASE job.cur # 0
    BY <1>4, <2>1 DEF f
  <2>2. CASE job.cur = 0
    <3>1. f.hi = l
      BY <1>3, <1>4, <2>2 DEF f
    <3>2. QED
      BY <1>4, <2>2, <3>1 DEF f
  <2>3. QED
    BY <2>1, <2>2
<1>8. QED
  BY <1>4, <1>5, <1>6, <1>7 DEF SliceSound, f

LEMMA CutSlices ==
  ASSUME IInv, SliceInv, CutFragment
  PROVE  /\ SliceInv' /\ FirstId' = FirstId
         /\ Grown(stream, stream') /\ Grown(accepted, accepted')
<1> DEFINE f == NextFragment
<1>1. /\ f \in Fragment /\ f.hi \in Nat
      /\ SliceSound(f) /\ f.id = job.id /\ f.lo = job.cur
      /\ f.origLen = job.total
  BY NextSlice, NextFragmentFacts DEF CutFragment
<1>2. /\ stream' = Append(stream, f) /\ senderPc = "cut"
      /\ \/ f.hi < job.total /\ job' = [job EXCEPT !.cur = f.hi]
            /\ senderPc' = senderPc
         \/ ~(f.hi < job.total) /\ job' = NoJob /\ senderPc' = "idle"
      /\ UNCHANGED <<accepted, sent>>
  BY DEF CutFragment
<1> HIDE DEF f
<1>3. /\ Len(accepted) \in Nat /\ sent \in Nat /\ Len(stream) \in Nat
      /\ FirstId \in Nat /\ stream \in Seq(Fragment)
      /\ job \in [id : Nat, total : Nat, cur : Nat]
  BY Numbers DEF IInv, SliceInv, TypeOK
<1>4. /\ Len(stream') = Len(stream) + 1
      /\ \A k \in 1..Len(stream) : stream'[k] = stream[k]
      /\ stream'[Len(stream) + 1] = f
      /\ stream' # <<>> /\ LastOf(stream') = f
  <2>1. /\ Len(stream') = Len(stream) + 1
        /\ \A k \in 1..Len(stream) : stream'[k] = stream[k]
        /\ stream'[Len(stream) + 1] = f
    BY <1>1, <1>2, <1>3, AppendFacts
  <2>2. QED
    BY <1>3, <2>1 DEF LastOf
<1>5. FirstId' = FirstId
  BY <1>2 DEF FirstId
<1>6. /\ job.id = sent
      /\ job.cur = 0 => CutUpTo(sent - 1)
      /\ job.cur # 0 => /\ stream # <<>> /\ LastOf(stream).id = sent
                        /\ LastOf(stream).origLen = job.total
                        /\ LastOf(stream).hi = job.cur
  BY <1>2 DEF SliceInv, Sliced
<1>7. job.cur < job.total /\ f.lo < f.hi /\ f.hi <= job.total
  BY <1>1, <1>2 DEF IInv, FramingInv, JobSound, SliceSound
<1>8. Sliced'
  <2>1. \A k \in 1..Len(stream') : SliceSound(stream'[k])
    <3>1. \A k \in 1..Len(stream) : SliceSound(stream[k])
      BY DEF SliceInv, Sliced
    <3>2. \A k \in 1..Len(stream) + 1 :
            k \in 1..Len(stream) \/ k = Len(stream) + 1
      BY <1>3
    <3>3. QED
      BY <1>1, <1>4, <3>1, <3>2
  <2>2. stream'[1].lo = 0 /\ stream'[1].id = FirstId
    <3>1. CASE stream = <<>>
      <4>1. job.cur = 0 /\ sent - 1 = FirstId - 1
        BY <1>6, <3>1 DEF CutUpTo
      <4>2. stream'[1] = f
        BY <1>4, <3>1
      <4>3. QED
        BY <1>1, <1>3, <1>6, <4>1, <4>2
    <3>2. CASE stream # <<>>
      <4>1. 1 \in 1..Len(stream)
        BY <1>3, <3>2
      <4>2. QED
        BY <1>4, <3>2, <4>1 DEF SliceInv, Sliced
    <3>3. QED
      BY <3>1, <3>2
  <2>3. ASSUME NEW k \in 1..Len(stream') - 1
        PROVE  Follows(stream'[k], stream'[k + 1])
    <3>1. CASE k \in 1..Len(stream) - 1
      <4>1. k \in 1..Len(stream) /\ k + 1 \in 1..Len(stream)
        BY <1>3, <3>1
      <4>2. Follows(stream[k], stream[k + 1])
        BY <3>1 DEF SliceInv, Sliced
      <4>3. QED
        BY <1>4, <4>1, <4>2
    <3>2. CASE k = Len(stream)
      <4>1. stream # <<>> /\ k \in 1..Len(stream)
        BY <1>3, <1>4, <3>2
      <4>2. stream'[k] = LastOf(stream) /\ stream'[k + 1] = f
        BY <1>4, <3>2, <4>1 DEF LastOf
      <4>3. CASE job.cur = 0
        <5>1. Whole(LastOf(stream)) /\ LastOf(stream).id = sent - 1
          BY <1>6, <4>1, <4>3 DEF CutUpTo
        <5>2. f.id = LastOf(stream).id + 1 /\ f.lo = 0
          BY <1>1, <1>3, <1>6, <4>3, <5>1
        <5>3. QED
          BY <4>2, <5>1, <5>2 DEF Follows
      <4>4. CASE job.cur # 0
        <5>1. ~Whole(LastOf(stream))
          BY <1>3, <1>6, <1>7, <4>4 DEF Whole
        <5>2. /\ f.id = LastOf(stream).id /\ f.lo = LastOf(stream).hi
              /\ f.origLen = LastOf(stream).origLen
          BY <1>1, <1>6, <4>4
        <5>3. QED
          BY <4>2, <5>1, <5>2 DEF Follows
      <4>5. QED
        BY <4>3, <4>4
    <3>3. QED
      BY <1>3, <1>4, <3>1, <3>2
  <2>4. CASE f.hi < job.total /\ job' = [job EXCEPT !.cur = f.hi]
             /\ senderPc' = "cut"
    <3>1. /\ job'.id = job.id /\ job'.total = job.total /\ job'.cur = f.hi
          /\ f.hi # 0
      BY <1>1, <1>3, <1>7, <2>4
    <3>2. LastOf(stream').id = sent /\ LastOf(stream').origLen = job'.total
      BY <1>1, <1>4, <1>6, <3>1
    <3>3. QED
      BY <1>2, <1>4, <1>5, <1>6, <2>1, <2>2, <2>3, <2>4, <3>1, <3>2 DEF Sliced
  <2>5. CASE ~(f.hi < job.total) /\ senderPc' = "idle"
    <3>1. Whole(f) /\ f.id = sent
      BY <1>1, <1>3, <1>6, <1>7, <2>5 DEF Whole
    <3>2. CutUpTo(sent)'
      BY <1>2, <1>4, <3>1 DEF CutUpTo
    <3>3. QED
      BY <1>2, <1>4, <1>5, <2>1, <2>2, <2>3, <2>5, <3>2 DEF Sliced
  <2>6. QED
    BY <1>2, <2>4, <2>5
<1>9. AcceptedInOrder'
  <2>1. accepted # <<>> /\ LastOf(accepted).length = job.total
    BY <1>2 DEF SliceInv, AcceptedInOrder
  <2>2. /\ f.id - FirstId + 1 = Len(accepted)
        /\ Len(accepted) \in 1..Len(accepted)
    <3>1. Len(accepted) > 0
      BY <1>3, <2>1 DEF IInv, TypeOK
    <3>2. QED
      BY <1>1, <1>3, <1>6, <3>1 DEF FirstId
  <2>3. ASSUME NEW k \in 1..Len(stream')
        PROVE  /\ stream'[k].id - FirstId + 1 \in 1..Len(accepted)
               /\ accepted[stream'[k].id - FirstId + 1].length
                    = stream'[k].origLen
    <3>1. CASE k \in 1..Len(stream)
      BY <1>4, <3>1 DEF SliceInv, AcceptedInOrder
    <3>2. CASE k = Len(stream) + 1
      BY <1>1, <1>4, <2>1, <2>2, <3>2 DEF LastOf
    <3>3. QED
      BY <1>3, <1>4, <3>1, <3>2
  <2>4. senderPc' = "cut" => LastOf(accepted').length = job'.total
    BY <1>2, <1>3, <2>1
  <2>5. QED
    BY <1>2, <1>5, <2>1, <2>3, <2>4 DEF SliceInv, AcceptedInOrder
<1>10. Grown(stream, stream') /\ Grown(accepted, accepted')
  BY <1>2, <1>3, <1>4 DEF Grown
<1>11. QED
  BY <1>5, <1>8, <1>9, <1>10 DEF SliceInv

\* The stream of a new connection starts with the next message.
LEMMA ReconnectSlices ==
  ASSUME IInv, SliceInv, Reconnect
  PROVE  SliceInv'
<1>1. /\ stream' = <<>> /\ accepted' = <<>> /\ sent' = sent
      /\ senderPc' = senderPc /\ senderPc = "idle"
  BY DEF Reconnect, IInv, FramingInv, ClosedEmpty
<1>2. Len(accepted') = 0 /\ Len(stream') = 0 /\ sent \in Nat
  BY <1>1 DEF IInv, TypeOK
<1>3. FirstId' = sent + 1
  BY <1>1, <1>2 DEF FirstId
<1>4. Sliced'
  BY <1>1, <1>2, <1>3 DEF Sliced, CutUpTo
<1>5. AcceptedInOrder'
  BY <1>1, <1>2 DEF AcceptedInOrder
<1>6. QED
  BY <1>4, <1>5 DEF SliceInv

\* Steps that leave the queues of the receiving end alone.
LEMMA SameReading ==
  ASSUME IInv, IInv', SliceInv, Received, SamePlace, FirstId' = FirstId,
         Grown(stream, stream'), Grown(accepted, accepted'),
         UNCHANGED <<recvDeque, recvTempDeque, handled, receiverOpen>>
  PROVE  Received'
<1>1. NextId' = NextId
  BY DEF NextId
<1>2. /\ Len(stream) \in Nat /\ Len(stream') \in Nat
      /\ Len(accepted) \in Nat /\ Len(accepted') \in Nat
      /\ handled \in Nat /\ Len(recvDeque) \in Nat
  <2>1. TypeOK
    BY DEF IInv
  <2>2. /\ Len(stream) \in Nat /\ Len(accepted) \in Nat
        /\ handled \in Nat /\ Len(recvDeque) \in Nat
    BY <2>1 DEF TypeOK
  <2>3. TypeOK'
    BY DEF IInv
  <2>4. Len(stream') \in Nat /\ Len(accepted') \in Nat
    BY <2>3 DEF TypeOK
  <2>5. QED
    BY <2>2, <2>4
<1>3. handled' <= Len(accepted')
  BY <1>2 DEF Received, Grown
<1>4. QueuedInOrder'
  <2>1. ASSUME NEW i \in 1..Len(recvDeque)
        PROVE  /\ handled + i <= Len(accepted')
               /\ IsWhole(recvDeque[i])
               /\ MessageOf(recvDeque[i]) = accepted'[handled + i]
    <3>1. /\ handled + i <= Len(accepted)
          /\ IsWhole(recvDeque[i])
          /\ MessageOf(recvDeque[i]) = accepted[handled + i]
      BY DEF Received, QueuedInOrder
    <3>2. handled + i \in 1..Len(accepted)
      BY <1>2, <3>1
    <3>3. QED
      BY <1>2, <3>1, <3>2 DEF Grown
  <2>2. QED
    BY <2>1 DEF QueuedInOrder
<1>5. ASSUME receiverOpen
      PROVE  \E b \in 0..StreamEnd' : FramedAt(b)' /\ ReadUpTo(b)'
  <2>1. PICK b \in 0..StreamEnd : FramedAt(b) /\ ReadUpTo(b)
    BY <1>5 DEF Received
  <2>2. FramedAt(b)'
    BY <2>1 DEF SamePlace
  <2>3. StreamEnd \in Nat /\ StreamEnd' \in Nat
    <3>1. \A f \in Fragment : f.start \in Nat /\ f.length \in Nat
      BY DEF Fragment
    <3>2. stream' \in Seq(Fragment) /\ stream \in Seq(Fragment)
      BY DEF IInv, TypeOK
    <3>3. /\ stream # <<>> => stream[Len(stream)] \in Fragment
          /\ stream' # <<>> => stream'[Len(stream')] \in Fragment
      BY <3>2
    <3>4. QED
      BY <3>1, <3>3 DEF StreamEnd
  <2>4. b \in 0..StreamEnd'
    <3>1. /\ Len(recvMsg') \in Nat /\ Len(chunk') \in Nat
          /\ b + Len(recvMsg') + Len(chunk') <= StreamEnd'
      <4>1. TypeOK'
        BY DEF IInv
      <4>2. Len(recvMsg') \in Nat /\ Len(chunk') \in Nat
        BY <4>1 DEF TypeOK
      <4>3. b + Len(recvMsg') + Len(chunk') <= StreamEnd'
        BY <2>2 DEF FramedAt
      <4>4. QED
        BY <4>2, <4>3
    <3>2. b \in Nat
      BY <2>3
    <3>3. QED
      BY <2>3, <3>1, <3>2
  <2>5. ReadUpTo(b)'
    <3>1. \A k \in 1..Len(stream) :
            k \in 1..Len(stream') /\ stream'[k] = stream[k]
      BY <1>2 DEF Grown
    <3>2. QED
      BY <1>1, <2>1, <3>1 DEF ReadUpTo
  <2>6. QED
    BY <2>2, <2>4, <2>5
<1>6. QED
  BY <1>1, <1>3, <1>4, <1>5 DEF Received

\* processMsg takes the whole messages off the queue.
LEMMA ProcessMsgReading ==
  ASSUME IInv, IInv', SliceInv, Received, SamePlace, ProcessMsg
  PROVE  Received'
<1>1. /\ handled' = handled + Len(recvDeque) /\ recvDeque' = <<>>
      /\ UNCHANGED <<recvTempDeque, receiverOpen, stream, accepted, sent>>
  BY DEF ProcessMsg
<1>2. /\ handled \in Nat /\ Len(recvDeque) \in Nat /\ Len(accepted) \in Nat
      /\ FirstId \in Nat
  BY Numbers DEF IInv, TypeOK, SliceInv
<1>3. FirstId' = FirstId /\ Len(recvDeque') = 0
  BY <1>1 DEF FirstId
<1>4. NextId' = NextId
  BY <1>1, <1>2, <1>3 DEF NextId
<1>5. handled' <= Len(accepted')
  <2>1. CASE recvDeque = <<>>
    BY <1>1, <1>2, <2>1 DEF Received
  <2>2. CASE recvDeque # <<>>
    <3>1. Len(recvDeque) \in 1..Len(recvDeque)
      BY <1>2, <2>2 DEF IInv, TypeOK
    <3>2. QED
      BY <1>1, <3>1 DEF Received, QueuedInOrder
  <2>3. QED
    BY <2>1, <2>2
<1>6. QueuedInOrder'
  BY <1>3 DEF QueuedInOrder
<1>7. ASSUME receiverOpen
      PROVE  \E b \in 0..StreamEnd' : FramedAt(b)' /\ ReadUpTo(b)'
  <2>1. PICK b \in 0..StreamEnd : FramedAt(b) /\ ReadUpTo(b)
    BY <1>7 DEF Received
  <2>2. FramedAt(b)'
    BY <2>1 DEF SamePlace
  <2>3. StreamEnd' = StreamEnd
    BY <1>1 DEF StreamEnd
  <2>4. ReadUpTo(b)'
    BY <1>1, <1>3, <1>4, <2>1 DEF ReadUpTo
  <2>5. QED
    BY <2>1, <2>2, <2>3, <2>4
<1>8. QED
  BY <1>1, <1>4, <1>5, <1>6, <1>7 DEF Received

\* A connection given up leaves nothing whole behind.
LEMMA TryRecvFailsReading ==
  ASSUME Received, TryRecvFails
  PROVE  Received'
<1>1. /\ receiverOpen' = FALSE /\ recvDeque' = <<>>
      /\ UNCHANGED <<handled, accepted>>
  BY DEF TryRecvFails, ResetReceiver, historyVars
<1>2. QueuedInOrder'
  BY <1>1 DEF QueuedInOrder
<1>3. QED
  BY <1>1, <1>2 DEF Received

\* An object made for the new connection has no fragments of an old message.
LEMMA ReconnectReading ==
  ASSUME IInv, IInv', Received, ~ReceiverReconnects, Reconnect
  PROVE  Received'
<1>1. /\ receiverOpen' = TRUE /\ recvDeque' = recvDeque /\ recvDeque = <<>>
      /\ recvTempDeque' = <<>> /\ handled' = 0 /\ accepted' = <<>>
      /\ stream' = <<>> /\ wire' = <<>> /\ sent' = sent
      /\ recvMsg' = <<>> /\ chunk' = <<>> /\ sendBuff' = <<>>
      /\ sendDeque' = <<>> /\ senderOpen' = TRUE
  BY DEF Reconnect, Received, IInv, FramingInv, ClosedEmpty
<1>2. QueuedInOrder' /\ handled' <= Len(accepted')
  BY <1>1 DEF QueuedInOrder
<1>3. NextId' = FirstId'
  <2>1. FirstId' \in Nat
    BY <1>1 DEF FirstId, IInv, TypeOK
  <2>2. Len(recvDeque') = 0 /\ handled' = 0
    BY <1>1
  <2>3. NextId' = FirstId' + handled' + Len(recvDeque')
    BY DEF NextId
  <2>4. \A n \in Nat : n + 0 + 0 = n
    OBVIOUS
  <2>5. NextId' = FirstId' + 0 + 0
    BY <2>2, <2>3
  <2>6. QED
    BY <2>1, <2>4, <2>5
<1>4. ReadUpTo(0)'
  BY <1>1, <1>3 DEF ReadUpTo
<1>5. StreamEnd' = 0 /\ QueueStart' = 0
  BY <1>1 DEF StreamEnd, QueueStart
<1>6. FramedAt(0)'
  BY <1>1, <1>5 DEF FramedAt, Boundary, RunFrom
<1>7. QED
  BY <1>1, <1>2, <1>4, <1>5, <1>6 DEF Received

-----------------------------------------------------------------------------
\* What follows a fragment in the stream starts where it ends.
LEMMA NextInStream ==
  ASSUME TypeOK, StreamOrdered, NEW j \in 1..Len(stream),
         NEW k \in 1..Len(stream),
         stream[j].start + stream[j].length = stream[k].start
  PROVE  k = j + 1
<1>1. \A i \in 1..Len(stream) :
        /\ stream[i].start \in Nat /\ stream[i].length \in Nat
        /\ stream[i].length > 0
        /\ stream[i].start + stream[i].length <= StreamEnd
  <2>1. stream \in Seq(Fragment) /\ LenSize \in Nat
    BY SizeAssumption DEF TypeOK
  <2>2. QED
    BY <2>1, StreamFacts
<1>2. StreamEnd \in Nat
  BY StreamFacts DEF TypeOK
<1>3. CASE j = Len(stream)
  <2>1. stream # <<>>
    BY <1>3
  <2>2. stream[k].start = StreamEnd
    BY <1>3, <2>1 DEF StreamEnd
  <2>3. stream[k].start + stream[k].length <= StreamEnd /\ stream[k].length > 0
    BY <1>1
  <2>4. QED
    BY <1>1, <1>2, <2>2, <2>3
<1>4. CASE j # Len(stream)
  <2>1. j \in 1..Len(stream) - 1 /\ j + 1 \in 1..Len(stream)
    BY <1>4, SMTT(20) DEF TypeOK
  <2>2. stream[j + 1].start = stream[k].start
    BY <2>1 DEF StreamOrdered
  <2>3. QED
    BY <2>1, <2>2, StreamFacts DEF TypeOK
<1>5. QED
  BY <1>3, <1>4

\* The fragment the receiving end completes next is the one its queue of
\* fragments waits for.
Expected(f) ==
  /\ f.id = NextId
  /\ recvTempDeque = <<>> => f.lo = 0
  /\ recvTempDeque # <<>> => /\ f.lo = LastOf(recvTempDeque).hi
                             /\ f.origLen = LastOf(recvTempDeque).origLen

LEMMA CompletedIsExpected ==
  ASSUME IInv, SliceInv, Received, receiverOpen, NEW k \in 1..Len(stream),
         ReadUpTo(stream[k].start)
  PROVE  Expected(stream[k])
<1>1. TypeOK /\ StreamOrdered /\ stream \in Seq(Fragment) /\ AcceptedInOrder
  BY DEF IInv, TypeOK, FramingInv, SliceInv
<1>2. NextId \in Nat /\ FirstId \in Nat
  BY <1>1, Numbers
<1>3. ASSUME NEW j \in 1..Len(stream),
             stream[j].start + stream[j].length = stream[k].start
      PROVE  Follows(stream[j], stream[k])
  <2>1. k = j + 1
    BY <1>1, <1>3, NextInStream
  <2>2. j \in 1..Len(stream) - 1
    BY <1>1, <2>1
  <2>3. QED
    BY <2>1, <2>2 DEF SliceInv, Sliced
<1>4. CASE recvTempDeque # <<>>
  <2>1. PICK j \in 1..Len(stream) :
          /\ stream[j].start + stream[j].length = stream[k].start
          /\ stream[j] = LastOf(recvTempDeque)
    BY <1>4 DEF ReadUpTo
  <2>2. ~Whole(stream[j]) /\ stream[j].id = NextId
    BY <1>4, <2>1 DEF Received, Chained
  <2>3. Follows(stream[j], stream[k])
    BY <1>3, <2>1
  <2>4. QED
    BY <1>4, <2>1, <2>2, <2>3 DEF Follows, Expected
<1>5. CASE recvTempDeque = <<>> /\ stream[k].start = 0 /\ NextId = FirstId
  <2>1. 1 \in 1..Len(stream) /\ stream # <<>>
    BY <1>1
  <2>2. stream[1].start = 0
    BY <1>1, <2>1 DEF StreamOrdered
  <2>3. k = 1
    BY <1>1, <1>5, <2>1, <2>2, StreamFacts
  <2>4. stream[1].lo = 0 /\ stream[1].id = FirstId
    BY <2>1 DEF SliceInv, Sliced
  <2>5. QED
    BY <1>5, <2>3, <2>4 DEF Expected
<1>6. CASE recvTempDeque = <<>> /\ \E j \in 1..Len(stream) :
             /\ stream[j].start + stream[j].length = stream[k].start
             /\ Whole(stream[j]) /\ stream[j].id = NextId - 1
  <2>1. PICK j \in 1..Len(stream) :
             /\ stream[j].start + stream[j].length = stream[k].start
             /\ Whole(stream[j]) /\ stream[j].id = NextId - 1
    BY <1>6
  <2>2. Follows(stream[j], stream[k])
    BY <1>3, <2>1
  <2>3. stream[k].id = (NextId - 1) + 1 /\ stream[k].lo = 0
    BY <2>1, <2>2 DEF Follows
  <2>4. QED
    BY <1>2, <1>6, <2>3 DEF Expected
<1>7. QED
  BY <1>4, <1>5, <1>6 DEF ReadUpTo

\* With it the queue is still the beginning of its message.
LEMMA StillChained ==
  ASSUME IInv, SliceInv, Received, receiverOpen, NEW k \in 1..Len(stream),
         Expected(stream[k])
  PROVE  LET t == Append(recvTempDeque, stream[k])
         IN /\ Chained(t, NextId) /\ LastOf(t) = stream[k]
            /\ t \in Seq(Fragment) /\ t # <<>>
            /\ recvTempDeque # <<>> => stream[k].lo # 0
<1> DEFINE q == recvTempDeque
           f == stream[k]
           t == Append(q, f)
<1>1. /\ q \in Seq(Fragment) /\ f \in Fragment /\ Len(q) \in Nat
  BY DEF IInv, TypeOK
<1>2. /\ f.lo \in Nat /\ f.hi \in Nat /\ f.length \in Nat /\ MsgSize \in Nat
      /\ f.lo < f.hi
      /\ f.length = (f.hi - f.lo) + (IF f.lo = 0 THEN 0 ELSE MsgSize)
  BY <1>1, SizeAssumption DEF Fragment, SliceInv, Sliced, SliceSound
<1>3. Expected(f) /\ (q # <<>> => Chained(q, NextId))
  BY DEF Received
<1>4. q = <<>> => f.lo = 0
  BY <1>3 DEF Expected
<1>5. q # <<>> => f.lo = LastOf(q).hi /\ f.lo # 0
  <2>1. SUFFICES ASSUME q # <<>> PROVE f.lo = LastOf(q).hi /\ f.lo # 0
    OBVIOUS
  <2>2. PICK j \in 1..Len(stream) : stream[j] = LastOf(q)
    <3>1. \E b : ReadUpTo(b)
      BY DEF Received
    <3>2. QED
      BY <2>1, <3>1 DEF ReadUpTo
  <2>3. /\ stream[j].lo < stream[j].hi
        /\ stream[j].lo \in Nat /\ stream[j].hi \in Nat
    BY Numbers DEF SliceInv, Sliced, SliceSound, IInv
  <2>4. QED
    BY <1>3, <2>1, <2>2, <2>3 DEF Expected
<1>6. f.id = NextId
  BY <1>3 DEF Expected
<1> HIDE DEF q, f
<1>7. /\ t \in Seq(Fragment) /\ Len(t) = Len(q) + 1
      /\ \A i \in 1..Len(q) : t[i] = q[i]
      /\ t[Len(q) + 1] = f
  BY <1>1, AppendFacts
<1>8. TotalLength(t) = TotalLength(q) + f.length - MsgSize
      /\ TotalLength(<<>>) = MsgSize
  BY <1>1, TotalGrows
<1> HIDE DEF t
<1>9. LastOf(t) = f /\ t # <<>>
  BY <1>1, <1>7 DEF LastOf
<1>10. TotalLength(t) = f.hi
  <2>1. CASE q = <<>>
    BY <1>2, <1>4, <1>8, <2>1
  <2>2. CASE q # <<>>
    <3>1. TotalLength(q) = f.lo
      BY <1>3, <1>5, <2>2 DEF Chained
    <3>2. QED
      BY <1>2, <1>5, <1>8, <2>2, <3>1
  <2>3. QED
    BY <2>1, <2>2
<1>11. t[1].lo = 0 /\ t[1].id = NextId
  <2>1. CASE q = <<>>
    <3>1. t[1] = f
      BY <1>7, <2>1
    <3>2. QED
      BY <1>4, <1>6, <2>1, <3>1
  <2>2. CASE q # <<>>
    <3>1. 1 \in 1..Len(q)
      BY <1>1, <2>2
    <3>2. QED
      BY <1>3, <1>7, <2>2, <3>1 DEF Chained
  <2>3. QED
    BY <2>1, <2>2
<1>12. ASSUME NEW i \in 1..Len(t) - 1
       PROVE  t[i + 1].id = t[i].id /\ t[i + 1].lo = t[i].hi
  <2>1. i \in 1..Len(q) /\ q # <<>>
    BY <1>1, <1>7
  <2>2. CASE i = Len(q)
    <3>1. t[i] = LastOf(q) /\ t[i + 1] = f
      BY <1>7, <2>1, <2>2 DEF LastOf
    <3>2. LastOf(q).id = NextId
      BY <1>3, <2>1 DEF Chained
    <3>3. QED
      BY <1>5, <1>6, <2>1, <3>1, <3>2
  <2>3. CASE i \in 1..Len(q) - 1
    <3>1. i + 1 \in 1..Len(q)
      BY <1>1, <2>3
    <3>2. QED
      BY <1>3, <1>7, <2>1, <2>3, <3>1 DEF Chained
  <2>4. QED
    BY <1>1, <2>1, <2>2, <2>3
<1>13. Chained(t, NextId)
  BY <1>6, <1>9, <1>10, <1>11, <1>12 DEF Chained
<1>14. QED
  BY <1>5, <1>7, <1>9, <1>13 DEF q, f, t

\* A whole message joins the queue: the one the receiving end waited for.
LEMMA QueueGrows ==
  ASSUME IInv, SliceInv, Received, NEW m \in AssembledMsg,
         recvDeque' = Append(recvDeque, m),
         UNCHANGED <<accepted, handled, sent>>,
         IsWhole(m), m.parts[1].id = NextId,
         NEW k \in 1..Len(stream), stream[k].id = NextId,
         stream[k].origLen = m.length
  PROVE  QueuedInOrder' /\ NextId' = NextId + 1
<1>1. /\ Len(recvDeque) \in Nat /\ handled \in Nat /\ Len(accepted) \in Nat
      /\ FirstId \in Nat /\ NextId \in Nat
      /\ \A i \in 1..Len(accepted) : accepted[i] \in [id : Nat, length : Nat]
  BY Numbers DEF IInv, SliceInv
<1>2. recvDeque \in Seq(AssembledMsg)
  BY DEF IInv, TypeOK
<1>3. /\ Len(recvDeque') = Len(recvDeque) + 1
      /\ \A i \in 1..Len(recvDeque) : recvDeque'[i] = recvDeque[i]
      /\ recvDeque'[Len(recvDeque) + 1] = m
  BY <1>2, AppendFacts
<1>4. FirstId' = FirstId
  BY DEF FirstId
<1>5. NextId' = NextId + 1
  BY <1>1, <1>3, <1>4 DEF NextId
<1> DEFINE n == handled + (Len(recvDeque) + 1)
<1>6. n = NextId - FirstId + 1
  BY <1>1 DEF NextId
<1>7. n \in 1..Len(accepted) /\ accepted[n].length = m.length
  BY <1>6 DEF SliceInv, AcceptedInOrder
<1>8. accepted[n].id = NextId
  <2>1. accepted[n].id = FirstId - 1 + n
    BY <1>7 DEF SliceInv, AcceptedInOrder
  <2>2. QED
    BY <1>1, <1>6, <2>1
<1> HIDE DEF n
<1>9. MessageOf(m) = accepted[n]
  BY <1>1, <1>7, <1>8 DEF MessageOf
<1>10. ASSUME NEW i \in 1..Len(recvDeque')
       PROVE  /\ handled + i <= Len(accepted)
              /\ IsWhole(recvDeque'[i])
              /\ MessageOf(recvDeque'[i]) = accepted[handled + i]
  <2>1. CASE i \in 1..Len(recvDeque)
    BY <1>3, <2>1 DEF Received, QueuedInOrder
  <2>2. CASE i = Len(recvDeque) + 1
    BY <1>3, <1>7, <1>9, <2>2 DEF n
  <2>3. QED
    BY <1>1, <1>3, <2>1, <2>2
<1>11. QED
  BY <1>5, <1>10 DEF QueuedInOrder

\* A queue of fragments that is a message to its end is put together whole.
LEMMA AssembledWhole ==
  ASSUME NEW t \in Seq(Fragment), t # <<>>, NEW m, Chained(t, m),
         Whole(LastOf(t))
  PROVE  /\ Assembled(t) \in AssembledMsg /\ IsWhole(Assembled(t))
         /\ Assembled(t).parts[1].id = m
         /\ Assembled(t).length = LastOf(t).origLen
<1> DEFINE n == Len(t)
           p == [i \in 1..n |-> Piece(t[i])]
<1>1. n \in Nat /\ n > 0 /\ \A i \in 1..n : t[i] \in Fragment
  OBVIOUS
<1>2. \A g \in Fragment : /\ Piece(g) \in [id : Nat, lo : Nat, hi : Nat]
                          /\ Piece(g).id = g.id /\ Piece(g).lo = g.lo
                          /\ Piece(g).hi = g.hi /\ g.origLen \in Nat
  BY DEF Piece, Fragment
<1>3. Assembled(t) = [length |-> t[n].origLen, parts |-> p]
  BY DEF Assembled
<1> HIDE DEF n
<1>4. p \in Seq([id : Nat, lo : Nat, hi : Nat]) /\ Len(p) = n
      /\ \A i \in 1..n : p[i] = Piece(t[i])
  BY <1>1, <1>2
<1> HIDE DEF p
<1>5. /\ Assembled(t).length = t[n].origLen /\ Assembled(t).parts = p
      /\ t[n].origLen \in Nat
  BY <1>1, <1>2, <1>3
<1>6. Assembled(t) \in AssembledMsg
  BY <1>1, <1>2, <1>3, <1>4 DEF AssembledMsg
<1>7. p[1].lo = 0 /\ p[1].id = m
  <2>1. 1 \in 1..n
    BY <1>1
  <2>2. QED
    BY <1>1, <1>2, <1>4, <2>1 DEF Chained
<1>8. p[n].hi = t[n].origLen
  <2>1. n \in 1..n
    BY <1>1
  <2>2. QED
    BY <1>1, <1>2, <1>4, <2>1 DEF Whole, LastOf, n
<1>9. ASSUME NEW i \in 1..n - 1
      PROVE  p[i + 1].id = p[i].id /\ p[i + 1].lo = p[i].hi
  <2>1. i \in 1..n /\ i + 1 \in 1..n
    BY <1>1
  <2>2. t[i + 1].id = t[i].id /\ t[i + 1].lo = t[i].hi
    BY DEF Chained, n
  <2>3. QED
    BY <1>1, <1>2, <1>4, <2>1, <2>2
<1>10. IsWhole(Assembled(t))
  <2>1. p # <<>>
    BY <1>1, <1>4
  <2>2. QED
    BY <1>4, <1>5, <1>7, <1>8, <1>9, <2>1 DEF IsWhole
<1>11. QED
  BY <1>5, <1>6, <1>7, <1>10 DEF LastOf, n

\* A message of one fragment is whole.
LEMMA SingleWhole ==
  ASSUME NEW f \in Fragment, f.lo = 0, f.hi = f.length
  PROVE  LET m == [length |-> f.length, parts |-> <<Piece(f)>>]
         IN m \in AssembledMsg /\ IsWhole(m) /\ m.parts[1].id = f.id
<1> DEFINE m == [length |-> f.length, parts |-> <<Piece(f)>>]
<1>1. /\ Piece(f) \in [id : Nat, lo : Nat, hi : Nat]
      /\ Piece(f).id = f.id /\ Piece(f).lo = 0 /\ Piece(f).hi = f.length
      /\ f.length \in Nat
  BY DEF Piece, Fragment
<1> DEFINE g == Piece(f)
<1> HIDE DEF g
<1>2. <<g>> \in Seq([id : Nat, lo : Nat, hi : Nat]) /\ Len(<<g>>) = 1
      /\ <<g>>[1] = g
  BY <1>1 DEF g
<1> DEFINE p == <<g>>
<1>3. m = [length |-> f.length, parts |-> p]
  BY DEF g
<1> HIDE DEF p
<1>4. m.length = f.length /\ m.parts = p
  BY <1>3
<1>5. m \in AssembledMsg
  BY <1>1, <1>2, <1>3 DEF AssembledMsg, p
<1> HIDE DEF m
<1>6. p # <<>> /\ p[1].lo = 0 /\ p[Len(p)].hi = f.length /\ Len(p) = 1
      /\ p[1].id = f.id
  BY <1>1, <1>2 DEF p, g
<1>7. IsWhole(m)
  BY <1>4, <1>6 DEF IsWhole
<1>8. QED
  BY <1>4, <1>5, <1>6, <1>7 DEF m

\* A fragment completed ends its message or waits for more of it.
LEMMA ParseWholeReading ==
  ASSUME IInv, IInv', SliceInv, Received, ParseWhole
  PROVE  Received'
<1>1. /\ receiverOpen /\ receiverPc = "parse" /\ receiverOpen' = receiverOpen
      /\ UNCHANGED <<stream, accepted, handled, sent>>
  BY DEF ParseWhole, IInv, FramingInv, ClosedEmpty, historyVars
<1>2. PICK b \in 0..StreamEnd : FramedAt(b) /\ ReadUpTo(b)
  BY <1>1 DEF Received
<1>3. PICK k \in 1..Len(stream), c \in Nat :
        /\ stream[k].start = b /\ c = b + stream[k].length
        /\ PushRecvMsg(stream[k]) /\ FramedAt(c)'
  BY <1>2, ParseWholeAt
<1> DEFINE f == stream[k]
           t == Append(recvTempDeque, f)
<1>4. Expected(f)
  BY <1>1, <1>2, <1>3, CompletedIsExpected
<1>5. /\ Chained(t, NextId) /\ LastOf(t) = f /\ t \in Seq(Fragment) /\ t # <<>>
      /\ recvTempDeque # <<>> => f.lo # 0
  BY <1>1, <1>4, StillChained
<1>6. f \in Fragment /\ f.hi \in Nat /\ f.lo \in Nat /\ f.origLen \in Nat
      /\ SliceSound(f) /\ f.id = NextId
  <2>1. f \in Fragment
    <3>1. stream \in Seq(Fragment)
      BY DEF IInv, TypeOK
    <3>2. QED
      BY <3>1, ElementOfSeq
  <2>2. f.hi \in Nat /\ f.lo \in Nat /\ f.origLen \in Nat
    BY Numbers DEF IInv, SliceInv
  <2>3. SliceSound(f)
    BY DEF SliceInv, Sliced
  <2>4. f.id = NextId
    BY <1>4 DEF Expected
  <2>5. QED
    BY <2>1, <2>2, <2>3, <2>4
<1>7. FirstId' = FirstId /\ StreamEnd' = StreamEnd /\ FirstId \in Nat
      /\ NextId \in Nat /\ StreamEnd \in Nat
  <2>1. FirstId' = FirstId /\ StreamEnd' = StreamEnd
    BY <1>1 DEF FirstId, StreamEnd
  <2>2. StreamEnd \in Nat
    BY StreamFacts DEF IInv, TypeOK, FramingInv
  <2>3. QED
    BY <2>1, <2>2, Numbers DEF IInv, SliceInv
<1>8. c \in 0..StreamEnd'
  <2>1. TypeOK'
    BY DEF IInv
  <2>2. Len(recvMsg') \in Nat /\ Len(chunk') \in Nat
    BY <2>1, SMTT(20) DEF TypeOK
  <2>3. c + Len(recvMsg') + Len(chunk') <= StreamEnd'
    BY <1>3 DEF FramedAt
  <2>4. QED
    BY <1>7, <2>2, <2>3
<1>9. stream'[k] = f /\ k \in 1..Len(stream') /\ f.start + f.length = c
  BY <1>1, <1>3
<1>10. handled' <= Len(accepted')
  BY <1>1 DEF Received
<1>11. TotalLength(t) = f.hi
  BY <1>5 DEF Chained
<1>12. \/ /\ f.flag = "Intergrated" /\ recvTempDeque' = recvTempDeque
          /\ recvDeque' = Append(recvDeque, [length |-> f.length,
                                             parts |-> <<Piece(f)>>])
       \/ /\ TotalLength(t) = f.origLen /\ recvTempDeque' = <<>>
          /\ recvDeque' = Append(recvDeque, Assembled(t))
       \/ /\ TotalLength(t) # f.origLen /\ recvTempDeque' = t
          /\ recvDeque' = recvDeque
  BY <1>3 DEF PushRecvMsg
<1> HIDE DEF f, t
\* A message is complete: the next one starts at c.
<1>13. ASSUME NEW m \in AssembledMsg, recvDeque' = Append(recvDeque, m),
              IsWhole(m), m.parts[1].id = NextId, m.length = f.origLen,
              Whole(f), recvTempDeque' = <<>>
       PROVE  Received'
  <2>1. QueuedInOrder' /\ NextId' = NextId + 1
    BY <1>1, <1>6, <1>13, QueueGrows DEF f
  <2>2. f.id = NextId' - 1
    BY <1>6, <1>7, <2>1
  <2>3. ReadUpTo(c)'
    BY <1>9, <1>13, <2>2 DEF ReadUpTo
  <2>4. QED
    BY <1>1, <1>3, <1>8, <1>10, <1>13, <2>1, <2>3 DEF Received
<1>14. CASE /\ f.flag = "Intergrated" /\ recvTempDeque' = recvTempDeque
            /\ recvDeque' = Append(recvDeque, [length |-> f.length,
                                               parts |-> <<Piece(f)>>])
  <2>1. f.lo = 0 /\ f.hi = f.origLen /\ f.length = f.hi
    BY <1>6, <1>14 DEF SliceSound
  <2>2. recvTempDeque' = <<>> /\ Whole(f)
    BY <1>5, <1>14, <2>1 DEF Whole
  <2> DEFINE m == [length |-> f.length, parts |-> <<Piece(f)>>]
  <2>3. /\ m \in AssembledMsg /\ IsWhole(m) /\ m.parts[1].id = f.id
        /\ m.length = f.length
    BY <1>6, <2>1, SingleWhole
  <2>4. recvDeque' = Append(recvDeque, m)
    BY <1>14
  <2> HIDE DEF m
  <2>5. QED
    BY <1>6, <1>13, <2>1, <2>2, <2>3, <2>4
<1>15. CASE /\ TotalLength(t) = f.origLen /\ recvTempDeque' = <<>>
            /\ recvDeque' = Append(recvDeque, Assembled(t))
  <2>1. Whole(f)
    BY <1>5, <1>11, <1>15 DEF Whole
  <2>2. /\ Assembled(t) \in AssembledMsg /\ IsWhole(Assembled(t))
        /\ Assembled(t).parts[1].id = NextId
        /\ Assembled(t).length = f.origLen
    BY <1>5, <2>1, AssembledWhole
  <2>3. QED
    BY <1>13, <1>15, <2>1, <2>2
\* Or more of it is to come, from c on.
<1>16. CASE /\ TotalLength(t) # f.origLen /\ recvTempDeque' = t
            /\ recvDeque' = recvDeque
  <2>1. ~Whole(f) /\ t # <<>> /\ LastOf(t) = f
    BY <1>5, <1>11, <1>16 DEF Whole
  <2>2. NextId' = NextId
    BY <1>1, <1>7, <1>16 DEF NextId
  <2>3. QueuedInOrder'
    BY <1>1, <1>16 DEF Received, QueuedInOrder
  <2>4. Chained(recvTempDeque', NextId')
    BY <1>5, <1>16, <2>2
  <2>5. ReadUpTo(c)'
    BY <1>9, <1>16, <2>1 DEF ReadUpTo
  <2>6. recvTempDeque' # <<>> /\ ~Whole(LastOf(recvTempDeque'))
    BY <1>16, <2>1
  <2>7. QED
    BY <1>1, <1>3, <1>8, <1>10, <2>3, <2>4, <2>5, <2>6 DEF Received
<1>17. QED
  BY <1>12, <1>14, <1>15, <1>16

(***************************************************************************)
(* The invariant of both ends, and what follows from it.                   *)
(***************************************************************************)
WholeInv == SliceInv /\ Received /\ DeliveredWhole

LEMMA InitWhole == Init => WholeInv
<1> SUFFICES ASSUME Init PROVE WholeInv
  OBVIOUS
<1>1. IInv
  BY InitFramed
<1>2. /\ sent = 0 /\ stream = <<>> /\ accepted = <<>> /\ handled = 0
      /\ recvDeque = <<>> /\ recvTempDeque = <<>> /\ delivered = <<>>
      /\ senderPc = "idle" /\ receiverOpen = TRUE
  BY DEF Init
<1>3. FirstId = 1 /\ NextId = 1 /\ StreamEnd = 0 /\ QueueStart = 0
  <2>1. Len(accepted) = 0 /\ Len(recvDeque) = 0
    BY <1>2
  <2>2. FirstId = 1
    BY <1>2, <2>1 DEF FirstId
  <2>3. QED
    BY <1>2, <2>1, <2>2 DEF NextId, StreamEnd, QueueStart, Init
<1>4. SliceInv
  BY <1>2, <1>3 DEF SliceInv, Sliced, AcceptedInOrder, CutUpTo
<1>5. FramedAt(0) /\ ReadUpTo(0)
  BY <1>2, <1>3 DEF Init, FramedAt, ReadUpTo, Boundary, RunFrom
<1>6. Received
  BY <1>2, <1>3, <1>5 DEF Received, QueuedInOrder
<1>7. DeliveredWhole
  BY <1>2 DEF DeliveredWhole
<1>8. QED
  BY <1>4, <1>6, <1>7 DEF WholeInv

\* Steps of the receiving end and of the connection cut and accept nothing.
LEMMA QuietSlices ==
  ASSUME IInv, SliceInv, UNCHANGED <<stream, accepted, sent, job>>,
         senderPc' = "cut" <=> senderPc = "cut"
  PROVE  /\ SliceInv' /\ FirstId' = FirstId
         /\ Grown(stream, stream') /\ Grown(accepted, accepted')
<1>1. Len(stream) \in Nat /\ Len(accepted) \in Nat
  BY DEF IInv, TypeOK
<1>2. Grown(stream, stream') /\ Grown(accepted, accepted')
  BY <1>1 DEF Grown
<1>3. QED
  BY <1>2, SameSlices

LEMMA SameDelivered ==
  ASSUME DeliveredWhole, delivered' = delivered
  PROVE  DeliveredWhole'
BY DEF DeliveredWhole

\* Steps that change no queue of the receiving end.
LEMMA QuietWhole ==
  ASSUME IInv, IInv', WholeInv, SamePlace,
         \/ UNCHANGED <<stream, accepted, sent, job>>
            /\ (senderPc' = "cut" <=> senderPc = "cut")
         \/ (\E n \in Lengths : SendMsg(n)) \/ CutFragment,
         UNCHANGED <<recvDeque, recvTempDeque, handled, receiverOpen,
                     delivered>>
  PROVE  WholeInv'
<1>1. /\ SliceInv' /\ FirstId' = FirstId
      /\ Grown(stream, stream') /\ Grown(accepted, accepted')
  <2>1. CASE \E n \in Lengths : SendMsg(n)
    BY <2>1, SendMsgSlices DEF WholeInv
  <2>2. CASE CutFragment
    BY <2>2, CutSlices DEF WholeInv
  <2>3. CASE /\ UNCHANGED <<stream, accepted, sent, job>>
             /\ (senderPc' = "cut" <=> senderPc = "cut")
    BY <2>3, QuietSlices DEF WholeInv
  <2>4. QED
    BY <2>1, <2>2, <2>3
<1>2. Received'
  BY <1>1, SameReading DEF WholeInv
<1>3. DeliveredWhole'
  BY SameDelivered DEF WholeInv
<1>4. QED
  BY <1>1, <1>2, <1>3 DEF WholeInv

LEMMA ProcessMsgWhole ==
  ASSUME IInv, IInv', WholeInv, SamePlace, ProcessMsg
  PROVE  WholeInv'
<1>1. SliceInv'
  BY SameSlices DEF ProcessMsg, WholeInv, senderVars
<1>2. Received'
  BY ProcessMsgReading DEF WholeInv
<1>3. DeliveredWhole'
  <2>1. /\ delivered \in Seq(AssembledMsg) /\ recvDeque \in Seq(AssembledMsg)
        /\ delivered' = delivered \o recvDeque
    BY DEF IInv, TypeOK, ProcessMsg
  <2>2. /\ Len(delivered) \in Nat /\ Len(recvDeque) \in Nat
        /\ Len(delivered') = Len(delivered) + Len(recvDeque)
        /\ \A i \in 1..Len(delivered) : delivered'[i] = delivered[i]
        /\ \A i \in 1..Len(recvDeque) :
             delivered'[Len(delivered) + i] = recvDeque[i]
    BY <2>1, ConcatFacts
  <2>3. ASSUME NEW i \in 1..Len(delivered')
        PROVE  IsWhole(delivered'[i])
    <3>1. CASE i \in 1..Len(delivered)
      BY <2>2, <3>1 DEF WholeInv, DeliveredWhole
    <3>2. CASE i > Len(delivered)
      <4>1. /\ i - Len(delivered) \in 1..Len(recvDeque)
            /\ i = Len(delivered) + (i - Len(delivered))
        BY <2>2, <3>2
      <4>2. IsWhole(recvDeque[i - Len(delivered)])
        BY <4>1 DEF WholeInv, Received, QueuedInOrder
      <4>3. delivered'[i] = recvDeque[i - Len(delivered)]
        BY <2>2, <4>1
      <4>4. QED
        BY <4>2, <4>3
    <3>3. QED
      BY <2>2, <3>1, <3>2
  <2>4. QED
    BY <2>3 DEF DeliveredWhole
<1>4. QED
  BY <1>1, <1>2, <1>3 DEF WholeInv

LEMMA NextWhole ==
  ASSUME ~ReceiverReconnects, IInv, WholeInv, [Next]_vars
  PROVE  WholeInv'
<1>1. IInv'
  BY NextFramed
<1>2. CASE \E n \in Lengths : SendMsg(n)
  <2>1. PICK n \in Lengths : SendMsg(n)
    BY <1>2
  <2>2. SamePlace
    BY <2>1, SendMsgStep
  <2>3. UNCHANGED <<recvDeque, recvTempDeque, handled, receiverOpen, delivered>>
    BY <2>1 DEF SendMsg, receiverVars
  <2>4. QED
    BY <1>1, <2>1, <2>2, <2>3, QuietWhole
<1>3. CASE CutFragment
  <2>1. SamePlace
    BY <1>3, CutFragmentStep
  <2>2. UNCHANGED <<recvDeque, recvTempDeque, handled, receiverOpen, delivered>>
    BY <1>3 DEF CutFragment, receiverVars
  <2>3. QED
    BY <1>1, <1>3, <2>1, <2>2, QuietWhole
<1>4. CASE TrySend \/ FillDone \/ SendAgain \/ RecvAgain
  <2>1. SamePlace
    BY <1>4, PcStep
  <2>2. /\ UNCHANGED <<stream, accepted, sent, job>>
        /\ senderPc' = "cut" <=> senderPc = "cut"
        /\ UNCHANGED <<recvDeque, recvTempDeque, handled, receiverOpen,
                       delivered>>
    BY <1>4
    DEF TrySend, FillDone, SendAgain, RecvAgain, receiverVars, senderVars,
        historyVars
  <2>3. QED
    BY <1>1, <2>1, <2>2, QuietWhole
<1>5. CASE \/ FillBuffer \/ CloseSender \/ Break \/ UNCHANGED vars
           \/ \E n \in 1..Len(sendBuff) : SendBytes(n)
  <2>1. SamePlace
    BY <1>5, FillBufferStep, SendBytesStep, CloseSenderStep, BreakStep,
       StutterStep
  <2>2. /\ UNCHANGED <<stream, accepted, sent, job>>
        /\ senderPc' = "cut" <=> senderPc = "cut"
        /\ UNCHANGED <<recvDeque, recvTempDeque, handled, receiverOpen,
                       delivered>>
    BY <1>5
    DEF FillBuffer, SendBytes, CloseSender, Break, vars, receiverVars,
        senderVars, historyVars
  <2>3. QED
    BY <1>1, <2>1, <2>2, QuietWhole
<1>6. CASE (\E n \in 1..RecvCache : Recv(n)) \/ ParseShort \/ ParsePart
  <2>1. SamePlace
    BY <1>6, RecvStep, ParseShortStep, ParsePartStep
  <2>2. /\ UNCHANGED <<stream, accepted, sent, job>>
        /\ senderPc' = "cut" <=> senderPc = "cut"
        /\ UNCHANGED <<recvDeque, recvTempDeque, handled, receiverOpen,
                       delivered>>
    BY <1>6 DEF Recv, ParseShort, ParsePart, senderVars, historyVars
  <2>3. QED
    BY <1>1, <2>1, <2>2, QuietWhole
<1>7. CASE ParseWhole
  <2>1. SliceInv'
    BY <1>7, SameSlices DEF ParseWhole, WholeInv, senderVars, historyVars
  <2>2. Received'
    BY <1>1, <1>7, ParseWholeReading DEF WholeInv
  <2>3. DeliveredWhole'
    BY <1>7, SameDelivered DEF ParseWhole, WholeInv, historyVars
  <2>4. QED
    BY <2>1, <2>2, <2>3 DEF WholeInv
<1>8. CASE ProcessMsg
  BY <1>1, <1>8, ProcessMsgStep, ProcessMsgWhole
<1>9. CASE TryRecvFails
  <2>1. SliceInv'
    BY <1>9, SameSlices DEF TryRecvFails, WholeInv, senderVars, historyVars
  <2>2. Received'
    BY <1>9, TryRecvFailsReading DEF WholeInv
  <2>3. DeliveredWhole'
    BY <1>9, SameDelivered DEF TryRecvFails, WholeInv, historyVars
  <2>4. QED
    BY <2>1, <2>2, <2>3 DEF WholeInv
<1>10. CASE Reconnect
  <2>1. SliceInv'
    BY <1>10, ReconnectSlices DEF WholeInv
  <2>2. Received'
    BY <1>1, <1>10, ReconnectReading DEF WholeInv
  <2>3. DeliveredWhole'
    BY <1>10, SameDelivered DEF Reconnect, WholeInv
  <2>4. QED
    BY <2>1, <2>2, <2>3 DEF WholeInv
<1>11. QED
  BY <1>2, <1>3, <1>4, <1>5, <1>6, <1>7, <1>8, <1>9, <1>10
  DEF Next, SenderLoop, ReceiverLoop

\* Whatever the sizes, the lengths and the slices the kernel makes, processMsg
\* is handed the messages that were sent, whole, when the receiving object is
\* one that accept_node made for the connection.  (An object that survives its
\* connection keeps m_recvTempDeque, and the run stream_inplace shows what it
\* then puts together.)
THEOREM WholeDelivered ==
  ASSUME ~ReceiverReconnects
  PROVE  Spec => []DeliveredWhole
<1>1. Init => IInv /\ WholeInv
  BY InitFramed, InitWhole
<1>2. (IInv /\ WholeInv) /\ [Next]_vars => (IInv /\ WholeInv)'
  BY NextFramed, NextWhole
<1>3. IInv /\ WholeInv => DeliveredWhole
  BY DEF WholeInv
<1>4. QED
  BY <1>1, <1>2, <1>3, PTL DEF Spec

(***************************************************************************)
(* The step simulation of MessageChannel: what a connection holds, and     *)
(* what it has handed over, as a queue of whole messages.                  *)
(***************************************************************************)
Pending == IF receiverOpen
           THEN SubSeq(accepted, handled + 1, Len(accepted)) ELSE <<>>
Handed == [i \in 1..Len(delivered) |->
             IF IsWhole(delivered[i]) THEN MessageOf(delivered[i])
             ELSE <<"damaged", delivered[i]>>]

\* Every step of the two ends is a step of the queue, or none.
ChannelSafety == Channel!Init /\ [][Channel!Next]_(Channel!vars)

LEMMA ChannelActions ==
  /\ Channel!Init <=> receiverOpen = TRUE /\ Pending = <<>> /\ Handed = <<>>
  /\ \A m : Channel!Accept(m)
              <=> /\ receiverOpen /\ receiverOpen' = receiverOpen
                  /\ Pending' = Append(Pending, m) /\ Handed' = Handed
  /\ Channel!Deliver
       <=> \E n \in 1..Len(Pending) :
             /\ receiverOpen /\ receiverOpen' = receiverOpen
             /\ Handed' = Handed \o SubSeq(Pending, 1, n)
             /\ Pending' = SubSeq(Pending, n + 1, Len(Pending))
  /\ Channel!Sever
       <=> /\ receiverOpen /\ receiverOpen' = FALSE
           /\ Pending' = <<>> /\ Handed' = Handed
  /\ Channel!Restore
       <=> /\ ~receiverOpen /\ receiverOpen' = TRUE
           /\ Pending' = Pending /\ Handed' = Handed
  /\ UNCHANGED Channel!vars
       <=> /\ receiverOpen' = receiverOpen
           /\ Pending' = Pending /\ Handed' = Handed
<1>1. Channel!Init <=> receiverOpen = TRUE /\ Pending = <<>> /\ Handed = <<>>
  BY DEF Channel!Init, Pending, Handed
<1>2. \A m : Channel!Accept(m)
              <=> /\ receiverOpen /\ receiverOpen' = receiverOpen
                  /\ Pending' = Append(Pending, m) /\ Handed' = Handed
  BY DEF Channel!Accept, Pending, Handed
<1>3. Channel!Deliver
       <=> \E n \in 1..Len(Pending) :
             /\ receiverOpen /\ receiverOpen' = receiverOpen
             /\ Handed' = Handed \o SubSeq(Pending, 1, n)
             /\ Pending' = SubSeq(Pending, n + 1, Len(Pending))
  BY DEF Channel!Deliver, Pending, Handed
<1>4. Channel!Sever
       <=> /\ receiverOpen /\ receiverOpen' = FALSE
           /\ Pending' = <<>> /\ Handed' = Handed
  BY DEF Channel!Sever, Pending, Handed
<1>5. Channel!Restore
       <=> /\ ~receiverOpen /\ receiverOpen' = TRUE
           /\ Pending' = Pending /\ Handed' = Handed
  BY DEF Channel!Restore, Pending, Handed
<1>6. UNCHANGED Channel!vars
       <=> /\ receiverOpen' = receiverOpen
           /\ Pending' = Pending /\ Handed' = Handed
  BY DEF Channel!vars, Pending, Handed
<1>7. QED
  BY <1>1, <1>2, <1>3, <1>4, <1>5, <1>6

\* What comes behind the first h of a queue.
LEMMA SuffixFacts ==
  ASSUME NEW S, NEW q \in Seq(S), NEW h \in Nat, h <= Len(q)
  PROVE  /\ SubSeq(q, h + 1, Len(q)) \in Seq(S)
         /\ Len(SubSeq(q, h + 1, Len(q))) = Len(q) - h
         /\ \A i \in 1..Len(q) - h : SubSeq(q, h + 1, Len(q))[i] = q[h + i]
<1>1. Len(q) \in Nat /\ \A i \in h + 1..Len(q) : q[i] \in S
  BY ElementOfSeq, LenProperties
<1>2. h + 1 \in Int /\ Len(q) \in Int
  BY <1>1
<1>3. /\ SubSeq(q, h + 1, Len(q)) \in Seq(S)
      /\ Len(SubSeq(q, h + 1, Len(q)))
           = IF h + 1 <= Len(q) THEN Len(q) - (h + 1) + 1 ELSE 0
      /\ \A i \in 1..Len(q) - (h + 1) + 1 :
           SubSeq(q, h + 1, Len(q))[i] = q[(h + 1) + i - 1]
  BY <1>1, <1>2, SubSeqProperties
<1>4. Len(q) - (h + 1) + 1 = Len(q) - h
      /\ \A i \in 1..Len(q) - h : (h + 1) + i - 1 = h + i
  BY <1>1
<1> DEFINE t == SubSeq(q, h + 1, Len(q))
<1> HIDE DEF t
<1>5. Len(t) = Len(q) - h
  <2>1. CASE h + 1 <= Len(q)
    BY <1>1, <1>3, <1>4, <2>1 DEF t
  <2>2. CASE ~(h + 1 <= Len(q))
    <3>1. Len(t) = 0
      BY <1>3, <2>2 DEF t
    <3>2. QED
      BY <1>1, <2>2, <3>1
  <2>3. QED
    BY <2>1, <2>2
<1>6. \A i \in 1..Len(q) - h : t[i] = q[h + i]
  <2>1. \A i \in 1..Len(q) - h : t[i] = q[(h + 1) + i - 1]
    BY <1>3, <1>4 DEF t
  <2>2. QED
    BY <1>4, <2>1
<1>7. QED
  BY <1>3, <1>5, <1>6 DEF t

LEMMA SuffixAppend ==
  ASSUME NEW S, NEW q \in Seq(S), NEW h \in Nat, h <= Len(q), NEW x \in S
  PROVE  SubSeq(Append(q, x), h + 1, Len(Append(q, x)))
           = Append(SubSeq(q, h + 1, Len(q)), x)
<1> DEFINE r == Append(q, x)
           s == SubSeq(q, h + 1, Len(q))
           t == SubSeq(r, h + 1, Len(r))
           u == Append(s, x)
<1>1. /\ r \in Seq(S) /\ Len(q) \in Nat /\ Len(r) = Len(q) + 1
      /\ \A i \in 1..Len(q) : r[i] = q[i]
      /\ r[Len(q) + 1] = x
  BY AppendFacts
<1>2. /\ s \in Seq(S) /\ Len(s) = Len(q) - h
      /\ \A i \in 1..Len(q) - h : s[i] = q[h + i]
  BY SuffixFacts
<1>3. /\ t \in Seq(S) /\ Len(t) = Len(r) - h
      /\ \A i \in 1..Len(r) - h : t[i] = r[h + i]
  <2> HIDE DEF r
  <2>1. h <= Len(r)
    BY <1>1
  <2>2. QED
    BY <1>1, <2>1, SuffixFacts
<1> HIDE DEF r, s, t
<1>4. /\ u \in Seq(S) /\ Len(u) = Len(s) + 1
      /\ \A i \in 1..Len(s) : u[i] = s[i]
      /\ u[Len(s) + 1] = x
  BY <1>2, AppendFacts
<1> HIDE DEF u
<1>5. Len(t) = Len(u)
  BY <1>1, <1>2, <1>3, <1>4
<1>6. ASSUME NEW i \in 1..Len(t) PROVE t[i] = u[i]
  <2>1. CASE i \in 1..Len(q) - h
    <3>1. h + i \in 1..Len(q) /\ i \in 1..Len(s) /\ i \in 1..Len(r) - h
      BY <1>1, <1>2, <2>1
    <3>2. QED
      BY <1>1, <1>2, <1>3, <1>4, <2>1, <3>1
  <2>2. CASE i = Len(q) - h + 1
    <3>1. h + i = Len(q) + 1 /\ i = Len(s) + 1 /\ i \in 1..Len(r) - h
      BY <1>1, <1>2, <1>3, <2>2
    <3>2. QED
      BY <1>1, <1>3, <1>4, <3>1
  <2>3. QED
    BY <1>1, <1>3, <2>1, <2>2
<1>7. t = u
  BY <1>3, <1>4, <1>5, <1>6, SeqEqual
<1>8. QED
  BY <1>7 DEF r, s, t, u

LEMMA SuffixOfSuffix ==
  ASSUME NEW S, NEW q \in Seq(S), NEW h \in Nat, NEW n \in Nat,
         h + n <= Len(q)
  PROVE  LET s == SubSeq(q, h + 1, Len(q))
         IN SubSeq(q, (h + n) + 1, Len(q)) = SubSeq(s, n + 1, Len(s))
<1> DEFINE s == SubSeq(q, h + 1, Len(q))
           t == SubSeq(q, (h + n) + 1, Len(q))
           u == SubSeq(s, n + 1, Len(s))
<1>1. Len(q) \in Nat /\ h + n \in Nat /\ h <= Len(q)
  BY LenProperties
<1>2. /\ s \in Seq(S) /\ Len(s) = Len(q) - h
      /\ \A i \in 1..Len(q) - h : s[i] = q[h + i]
  BY <1>1, SuffixFacts
<1>3. /\ t \in Seq(S) /\ Len(t) = Len(q) - (h + n)
      /\ \A i \in 1..Len(q) - (h + n) : t[i] = q[(h + n) + i]
  BY <1>1, SuffixFacts
<1> HIDE DEF s, t
<1>4. n <= Len(s)
  BY <1>1, <1>2
<1>5. /\ u \in Seq(S) /\ Len(u) = Len(s) - n
      /\ \A i \in 1..Len(s) - n : u[i] = s[n + i]
  BY <1>2, <1>4, SuffixFacts
<1> HIDE DEF u
<1>6. Len(t) = Len(u)
  BY <1>1, <1>2, <1>3, <1>5
<1>7. ASSUME NEW i \in 1..Len(t) PROVE t[i] = u[i]
  <2>1. /\ n + i \in 1..Len(q) - h /\ i \in 1..Len(s) - n
        /\ h + (n + i) = (h + n) + i
    BY <1>1, <1>2, <1>3
  <2>2. QED
    BY <1>2, <1>3, <1>5, <2>1
<1>8. t = u
  BY <1>3, <1>5, <1>6, <1>7, SeqEqual
<1>9. QED
  BY <1>8 DEF s, t, u

\* A whole message of the detailed kind is a message of the channel.
LEMMA MessageType ==
  ASSUME NEW m \in AssembledMsg, IsWhole(m)
  PROVE  MessageOf(m) \in [id : Nat, length : Nat]
<1> DEFINE P == [id : Nat, lo : Nat, hi : Nat]
           p == m.parts
<1>1. m.length \in Nat /\ p \in Seq(P) /\ p # <<>>
  BY DEF AssembledMsg, IsWhole
<1> HIDE DEF p
<1>2. 1 \in 1..Len(p)
  BY <1>1
<1>3. p[1] \in P
  BY <1>1, <1>2, ElementOfSeq
<1>4. p[1].id \in Nat
  BY <1>3
<1>5. QED
  BY <1>1, <1>4 DEF MessageOf, p

LEMMA HandedIs ==
  ASSUME TypeOK, DeliveredWhole
  PROVE  /\ Handed \in Seq([id : Nat, length : Nat])
         /\ Len(Handed) = Len(delivered)
         /\ \A i \in 1..Len(delivered) : Handed[i] = MessageOf(delivered[i])
<1>1. Handed = [i \in 1..Len(delivered) |-> MessageOf(delivered[i])]
  BY DEF Handed, DeliveredWhole
<1>2. Len(delivered) \in Nat
        /\ \A i \in 1..Len(delivered) : delivered[i] \in AssembledMsg
  BY ElementOfSeq, LenProperties DEF TypeOK
<1>3. \A i \in 1..Len(delivered) :
        MessageOf(delivered[i]) \in [id : Nat, length : Nat]
  BY <1>2, MessageType DEF DeliveredWhole
<1>4. QED
  BY <1>1, <1>2, <1>3

\* Steps that accept nothing, hand over nothing and open or close nothing.
LEMMA ChannelStutters ==
  ASSUME UNCHANGED <<accepted, handled, delivered, receiverOpen>>
  PROVE  UNCHANGED Channel!vars
<1>1. Pending' = Pending /\ Handed' = Handed
  BY DEF Pending, Handed
<1>2. QED
  BY <1>1, ChannelActions

LEMMA SendMsgChannel ==
  ASSUME IInv, WholeInv, NEW n \in Lengths, SendMsg(n)
  PROVE  Channel!Next \/ UNCHANGED Channel!vars
<1> DEFINE m == [id |-> sent + 1, length |-> n]
           M == [id : Nat, length : Nat]
<1>1. /\ accepted' = Append(accepted, m) /\ sent < MaxMsgs
      /\ UNCHANGED <<handled, delivered, receiverOpen>>
  BY DEF SendMsg, receiverVars
<1>2. /\ sent \in Nat /\ MaxMsgs \in Nat /\ n \in Nat /\ handled \in Nat
      /\ accepted \in Seq(M) /\ handled <= Len(accepted)
  BY LengthAssumption, BoundAssumption DEF IInv, TypeOK, WholeInv, Received
<1>3. m \in [id : 1..MaxMsgs, length : Lengths] /\ m \in M
  BY <1>1, <1>2
<1> HIDE DEF m
<1>4. Handed' = Handed
  BY <1>1 DEF Handed
<1>5. CASE receiverOpen
  <2>1. Pending' = Append(Pending, m)
    <3>1. Pending' = SubSeq(Append(accepted, m), handled + 1,
                            Len(Append(accepted, m)))
      BY <1>1, <1>5 DEF Pending
    <3>2. SubSeq(Append(accepted, m), handled + 1, Len(Append(accepted, m)))
            = Append(SubSeq(accepted, handled + 1, Len(accepted)), m)
      <4> HIDE DEF M
      <4>1. QED
        BY <1>2, <1>3, SuffixAppend, ZenonT(40)
    <3>3. QED
      BY <1>5, <3>1, <3>2 DEF Pending
  <2>2. Channel!Accept(m)
    BY <1>1, <1>4, <1>5, <2>1, ChannelActions
  <2>3. QED
    BY <1>3, <2>2 DEF Channel!Next
<1>6. CASE ~receiverOpen
  <2>1. Pending' = Pending
    BY <1>1, <1>6 DEF Pending
  <2>2. QED
    BY <1>1, <1>4, <2>1, ChannelActions
<1>7. QED
  BY <1>5, <1>6

LEMMA ProcessMsgChannel ==
  ASSUME IInv, IInv', WholeInv, WholeInv', ProcessMsg
  PROVE  Channel!Next \/ UNCHANGED Channel!vars
<1> DEFINE n == Len(recvDeque)
           M == [id : Nat, length : Nat]
<1>1. /\ receiverOpen /\ receiverOpen' = receiverOpen
      /\ delivered' = delivered \o recvDeque
      /\ handled' = handled + n /\ accepted' = accepted
  BY DEF ProcessMsg, IInv, FramingInv, ClosedEmpty
<1>2. /\ accepted \in Seq(M) /\ handled \in Nat /\ Len(accepted) \in Nat
      /\ n \in Nat /\ delivered \in Seq(AssembledMsg)
      /\ recvDeque \in Seq(AssembledMsg)
  <2>1. TypeOK
    BY DEF IInv
  <2>2. handled \in Nat /\ Len(accepted) \in Nat /\ n \in Nat
    BY <2>1 DEF TypeOK
  <2>3. /\ accepted \in Seq(M) /\ delivered \in Seq(AssembledMsg)
        /\ recvDeque \in Seq(AssembledMsg)
    BY <2>1 DEF TypeOK
  <2>4. QED
    BY <2>2, <2>3
<1>3. handled + n <= Len(accepted)
  BY <1>1 DEF WholeInv, Received
<1>4. CASE recvDeque = <<>>
  <2>1. handled' = handled /\ delivered' = delivered
    BY <1>1, <1>2, <1>4
  <2>2. QED
    BY <1>1, <2>1, ChannelStutters
<1>5. CASE recvDeque # <<>>
  <2>1. n > 0
    BY <1>2, <1>5
  <2> HIDE DEF n, M
  <2>2. Pending = SubSeq(accepted, handled + 1, Len(accepted))
        /\ Pending' = SubSeq(accepted, (handled + n) + 1, Len(accepted))
    BY <1>1 DEF Pending
  <2>3. /\ Pending \in Seq(M) /\ Len(Pending) = Len(accepted) - handled
        /\ \A i \in 1..Len(accepted) - handled :
             Pending[i] = accepted[handled + i]
    <3>1. handled <= Len(accepted)
      BY <1>2, <1>3
    <3>2. QED
      BY <1>2, <2>2, <3>1, SuffixFacts
  <2>4. Pending' = SubSeq(Pending, n + 1, Len(Pending))
    BY <1>2, <1>3, <2>2, SuffixOfSuffix
  <2>5. n \in 1..Len(Pending)
    BY <1>2, <1>3, <2>1, <2>3
  <2> DEFINE s == SubSeq(Pending, 1, n)
             d == Len(delivered)
  <2>6. /\ s \in Seq(M) /\ Len(s) = n /\ \A i \in 1..n : s[i] = Pending[i]
    <3>1. \A i \in 1..n : Pending[i] \in M
      BY <1>2, <2>3, <2>5, ElementOfSeq
    <3>2. n \in Int /\ 1 \in Int
      BY <1>2
    <3>3. QED
      BY <1>2, <2>1, <3>1, <3>2, SubSeqProperties
  <2> HIDE DEF s
  <2>7. /\ Handed \in Seq(M) /\ Len(Handed) = d /\ d \in Nat
        /\ \A i \in 1..d : Handed[i] = MessageOf(delivered[i])
    BY <1>2, HandedIs DEF IInv, WholeInv, M
  <2>8. /\ Handed' \in Seq(M) /\ Len(Handed') = Len(delivered')
        /\ \A i \in 1..Len(delivered') : Handed'[i] = MessageOf(delivered'[i])
    <3>1. TypeOK' /\ DeliveredWhole'
      BY DEF IInv, WholeInv
    <3>2. Handed' = [i \in 1..Len(delivered') |-> MessageOf(delivered'[i])]
      BY <3>1 DEF Handed, DeliveredWhole
    <3>3. Len(delivered') \in Nat
          /\ \A i \in 1..Len(delivered') : delivered'[i] \in AssembledMsg
      <4>1. delivered' \in Seq(AssembledMsg)
        BY <1>1, <1>2, ConcatFacts
      <4>2. QED
        BY <4>1, ElementOfSeq, LenProperties
    <3>4. \A i \in 1..Len(delivered') : MessageOf(delivered'[i]) \in M
      BY <3>1, <3>3, MessageType DEF DeliveredWhole, M
    <3>5. QED
      BY <3>2, <3>3, <3>4
  <2>9. /\ Len(delivered') = d + n
        /\ \A i \in 1..d : delivered'[i] = delivered[i]
        /\ \A i \in 1..n : delivered'[d + i] = recvDeque[i]
    BY <1>1, <1>2, ConcatFacts DEF n
  <2> HIDE DEF d
  <2> DEFINE h == Handed \o s
  <2>10. /\ h \in Seq(M) /\ Len(h) = d + n
         /\ \A i \in 1..d : h[i] = Handed[i]
         /\ \A i \in 1..n : h[d + i] = s[i]
    <3>1. Handed \in Seq(M) /\ s \in Seq(M)
      BY <2>6, <2>7
    <3>2. /\ h \in Seq(M) /\ Len(h) = Len(Handed) + Len(s)
          /\ \A i \in 1..Len(Handed) : h[i] = Handed[i]
          /\ \A i \in 1..Len(s) : h[Len(Handed) + i] = s[i]
      BY <3>1, ConcatFacts
    <3> HIDE DEF h
    <3>3. QED
      BY <2>6, <2>7, <3>2
  <2> HIDE DEF h
  <2>11. ASSUME NEW i \in 1..d + n PROVE Handed'[i] = h[i]
    <3>1. CASE i \in 1..d
      BY <2>7, <2>8, <2>9, <2>10, <3>1
    <3>2. CASE i > d
      <4> DEFINE j == i - d
      <4>1. j \in 1..n /\ i = d + j
        BY <1>2, <2>7, <3>2
      <4> HIDE DEF j
      <4>2. MessageOf(recvDeque[j]) = accepted[handled + j]
        BY <4>1 DEF WholeInv, Received, QueuedInOrder, n
      <4>3. j \in 1..Len(accepted) - handled
        BY <1>2, <1>3, <4>1
      <4>4. h[i] = accepted[handled + j]
        BY <2>3, <2>6, <2>10, <4>1, <4>3
      <4>5. Handed'[i] = MessageOf(recvDeque[j])
        BY <2>8, <2>9, <4>1
      <4>6. QED
        BY <4>2, <4>4, <4>5
    <3>3. QED
      BY <1>2, <2>7, <3>1, <3>2
  <2>12. Handed' = h
    BY <2>8, <2>9, <2>10, <2>11, SeqEqual
  <2>13. Channel!Deliver
    BY <1>1, <2>4, <2>5, <2>12, ChannelActions DEF h, s
  <2>14. QED
    BY <2>13 DEF Channel!Next
<1>6. QED
  BY <1>4, <1>5

LEMMA TryRecvFailsChannel ==
  ASSUME TryRecvFails
  PROVE  Channel!Next
<1>1. receiverOpen /\ receiverOpen' = FALSE /\ delivered' = delivered
  BY DEF TryRecvFails, ResetReceiver, historyVars
<1>2. Pending' = <<>> /\ Handed' = Handed
  BY <1>1 DEF Pending, Handed
<1>3. Channel!Sever
  BY <1>1, <1>2, ChannelActions
<1>4. QED
  BY <1>3 DEF Channel!Next

LEMMA ReconnectChannel ==
  ASSUME Reconnect
  PROVE  Channel!Next
<1>1. /\ ~receiverOpen /\ receiverOpen' = TRUE /\ delivered' = delivered
      /\ accepted' = <<>> /\ handled' = 0
  BY DEF Reconnect
<1>2. Pending = <<>> /\ Handed' = Handed
  BY <1>1 DEF Pending, Handed
<1>3. Pending' = <<>>
  <2>1. Pending' = SubSeq(<<>>, 0 + 1, Len(<<>>))
    BY <1>1 DEF Pending
  <2>2. SubSeq(<<>>, 0 + 1, Len(<<>>)) = <<>>
    OBVIOUS
  <2>3. QED
    BY <2>1, <2>2
<1>4. Channel!Restore
  BY <1>1, <1>2, <1>3, ChannelActions
<1>5. QED
  BY <1>4 DEF Channel!Next

LEMMA ChannelStep ==
  ASSUME IInv, WholeInv, IInv', WholeInv', [Next]_vars
  PROVE  Channel!Next \/ UNCHANGED Channel!vars
<1>1. CASE \E n \in Lengths : SendMsg(n)
  BY <1>1, SendMsgChannel
<1>2. CASE SenderLoop
  <2>1. UNCHANGED <<accepted, handled, delivered, receiverOpen>>
    BY <1>2 DEF SenderLoop, CutFragment, TrySend, FillBuffer, FillDone,
                SendBytes, SendAgain, receiverVars, historyVars
  <2>2. QED
    BY <2>1, ChannelStutters
<1>3. CASE CloseSender \/ Break \/ UNCHANGED vars
  <2>1. UNCHANGED <<accepted, handled, delivered, receiverOpen>>
    BY <1>3 DEF CloseSender, Break, vars, receiverVars, historyVars
  <2>2. QED
    BY <2>1, ChannelStutters
<1>4. CASE \/ \E n \in 1..RecvCache : Recv(n)
           \/ RecvAgain \/ ParseShort \/ ParsePart \/ ParseWhole
  <2>1. UNCHANGED <<accepted, handled, delivered, receiverOpen>>
    BY <1>4 DEF Recv, RecvAgain, ParseShort, ParsePart, ParseWhole, historyVars
  <2>2. QED
    BY <2>1, ChannelStutters
<1>5. CASE TryRecvFails
  BY <1>5, TryRecvFailsChannel
<1>6. CASE ProcessMsg
  BY <1>6, ProcessMsgChannel
<1>7. CASE Reconnect
  BY <1>7, ReconnectChannel
<1>8. QED
  BY <1>1, <1>2, <1>3, <1>4, <1>5, <1>6, <1>7 DEF Next, ReceiverLoop

\* The two ends implement the queue of whole messages that MessageChannel is,
\* as far as safety goes: each message arrives once at most, whole, in the
\* order sent, on the connection it was sent on.
THEOREM IsAChannel ==
  ASSUME ~ReceiverReconnects
  PROVE  Spec => ChannelSafety
<1>1. Init => IInv /\ WholeInv
  BY InitFramed, InitWhole
<1>2. (IInv /\ WholeInv) /\ [Next]_vars => (IInv /\ WholeInv)'
  BY NextFramed, NextWhole
<1>3. Init => Channel!Init
  <2>1. ASSUME Init PROVE receiverOpen = TRUE /\ Pending = <<>> /\ Handed = <<>>
    <3>1. /\ receiverOpen = TRUE /\ accepted = <<>> /\ handled = 0
          /\ delivered = <<>>
      BY <2>1 DEF Init
    <3>2. Pending = SubSeq(<<>>, 0 + 1, Len(<<>>))
      BY <3>1 DEF Pending
    <3>3. SubSeq(<<>>, 0 + 1, Len(<<>>)) = <<>>
      OBVIOUS
    <3>4. Len(delivered) = 0
      BY <3>1
    <3>5. Handed = <<>>
      BY <3>4 DEF Handed
    <3>6. QED
      BY <3>1, <3>2, <3>3, <3>5
  <2>2. QED
    BY <2>1, ChannelActions
<1>4. (IInv /\ WholeInv) /\ (IInv /\ WholeInv)' /\ [Next]_vars
        => [Channel!Next]_(Channel!vars)
  BY ChannelStep
<1>5. QED
  BY <1>1, <1>2, <1>3, <1>4, PTL DEF Spec, ChannelSafety
=============================================================================
